------------------------- MODULE SlotMapPoolProof ---------------------------
(***************************************************************************)
(* SlotMap implements HandlePool, proved step by step for any number of     *)
(* threads, slots and calls, under the hypotheses of SlotMapOwnershipProof. *)
(***************************************************************************)
EXTENDS SlotMapOwnershipProof, SlotMapPool

USE DEF map, list, cells, locals, history

\* What the refinement needs besides: a handle that is out and not retired
\* carries its slot's generation, a thread's answer agrees with its place, and
\* a call past its first check was given a handle of the map.
LiveHandlesMatch == \A h \in issued \ retired : h.generation = generation[h.index]
Answers ==
  \A t \in Threads : /\ pc[t] = "idle" => outcome[t] # "pending"
                     /\ pc[t] \in {"popNext", "popSwing"} => origin[t] = "none"
                     /\ pc[t] \in {"getOccupied", "freeOccupied"} =>
                          origin[t] \in {"live", "swept"}
PoolInv == Inv /\ Lifetimes /\ StaleCallsEnd /\ LiveHandlesMatch /\ Answers

LEMMA InitPoolInv == Init => LiveHandlesMatch /\ Answers
BY DEF Init, LiveHandlesMatch, Answers

\* A step leaves what the other calls ask for and have been told alone.
LEMMA OthersKeepCalls ==
  ASSUME TypeInv, NEW t \in Threads, Call(t) \/ Continue(t)
  PROVE  \A u \in Threads \ {t} : outcome'[u] = outcome[u] /\ origin'[u] = origin[u]
<1> USE DEF TypeInv, TypeOK, Goto, Return
<1>1. CASE Continue(t)
  BY <1>1
  DEF Continue, PopReadNext, PopSwing, PopRetry, PopClear, Construct, ConstructThrows,
      ReadGeneration, Publish, CountUp, GetCheckOccupied, FreeCheckOccupied, Bump,
      ClearOccupied, Destroy, CountDown, PushLoad, PushLink, PushSwing, PushRetry
<1>2. CASE AllocateCall(t)
  BY <1>2 DEF AllocateCall, Start
<1>3. ASSUME NEW op, NEW label \in {"getOccupied", "freeOccupied"},
             CheckedCall(t, op, label)
      PROVE \A u \in Threads \ {t} : outcome'[u] = outcome[u] /\ origin'[u] = origin[u]
  BY <1>3 DEF CheckedCall, Start
<1> QED
  BY <1>1, <1>2, <1>3 DEF Call, GetCall, DeallocateCall

\* A handle of this map that checked_index() lets pass is not retired.
LEMMA MatchingOrigin ==
  ASSUME Inv, ForeignHandles = {}, NEW a \in Arguments, Matches(a.handle)
  PROVE  a.origin \in {"live", "swept"}
<1>1. TypeInv /\ HandleHistory
  BY DEF Inv
<1>2. SUFFICES ASSUME a.origin \notin {"live", "swept"} PROVE FALSE
  OBVIOUS
<1>3. a.handle \in retired \/ a.handle = DefaultHandle
  BY <1>2 DEF Arguments
<1>4. CASE a.handle \in retired
  <2>1. /\ a.handle.generation < generation[a.handle.index]
        /\ generation[a.handle.index] \in Nat
    BY <1>1, <1>4, ActiveSlots DEF HandleHistory, TypeInv, TypeOK
  <2> QED
    BY <2>1 DEF Matches
<1>5. CASE a.handle = DefaultHandle
  BY <1>5 DEF Matches, InRange, IsValid, DefaultHandle
<1> QED
  BY <1>3, <1>4, <1>5

LEMMA AnswersStep ==
  ASSUME Inv, Answers, ForeignHandles = {}, NEW t \in Threads, Call(t) \/ Continue(t)
  PROVE  Answers'
<1>0. TypeInv
  BY DEF Inv
<1>1. \A u \in Threads \ {t} : pc'[u] = pc[u] /\ outcome'[u] = outcome[u]
                               /\ origin'[u] = origin[u]
  BY <1>0, OthersKeepCalls, ContainedSteps DEF Contained
<1>2. /\ pc'[t] = "idle" => outcome'[t] # "pending"
      /\ pc'[t] \in {"popNext", "popSwing"} => origin'[t] = "none"
      /\ pc'[t] \in {"getOccupied", "freeOccupied"} => origin'[t] \in {"live", "swept"}
  <2> USE <1>0 DEF TypeInv, TypeOK, Answers, Goto, Return
  <2>1. CASE AllocateCall(t)
    BY <2>1 DEF AllocateCall, Start
  <2>2. ASSUME NEW op, NEW label \in {"getOccupied", "freeOccupied"},
               CheckedCall(t, op, label)
        PROVE  /\ pc'[t] = "idle" => outcome'[t] # "pending"
               /\ pc'[t] \notin {"popNext", "popSwing"}
               /\ pc'[t] # "idle" => origin'[t] \in {"live", "swept"}
    <3>1. PICK a \in Arguments :
            /\ origin' = [origin EXCEPT ![t] = a.origin]
            /\ IF Matches(a.handle)
               THEN outcome' = [outcome EXCEPT ![t] = "pending"] /\ Goto(t, label)
               ELSE Return(t, Rejected)
      BY <2>2 DEF CheckedCall, Start
    <3>2. CASE Matches(a.handle)
      <4>1. a.origin \in {"live", "swept"}
        BY <3>2, MatchingOrigin
      <4> QED
        BY <3>1, <3>2, <4>1
    <3>3. CASE ~Matches(a.handle)
      BY <3>1, <3>3 DEF Rejected
    <3> QED
      BY <3>2, <3>3
  <2>3. CASE Continue(t)
    BY <2>3
    DEF Continue, PopReadNext, PopSwing, PopRetry, PopClear, Construct, ConstructThrows,
        ReadGeneration, Publish, CountUp, GetCheckOccupied, FreeCheckOccupied, Bump,
        ClearOccupied, Destroy, CountDown, PushLoad, PushLink, PushSwing, PushRetry, Rejected
  <2> QED
    BY <2>1, <2>2, <2>3 DEF Call, GetCall, DeallocateCall
<1> QED
  BY <1>1, <1>2 DEF Answers

LEMMA LiveHandlesStep ==
  ASSUME Inv, BelowWidth, LiveHandlesMatch, NEW t \in Threads, Call(t) \/ Continue(t)
  PROVE  LiveHandlesMatch'
<1>1. TypeInv /\ Active \subseteq Slots /\ generation \in [Slots -> 1 .. GenMod - 1]
  BY ActiveSlots DEF Inv, TypeInv, TypeOK
<1>2. CASE ~Moves(t)
  BY <1>1, <1>2, QuietSteps DEF Local, LiveHandlesMatch
<1>3. CASE PopSwing(t) \/ PushSwing(t)
  BY <1>3 DEF PopSwing, PushSwing, LiveHandlesMatch
<1>4. CASE CountUp(t)
  <2>1. handle[t].generation = generation[handle[t].index]
    BY <1>4 DEF CountUp, Inv, Knowledge
  <2> QED
    BY <1>4, <2>1 DEF CountUp, LiveHandlesMatch
<1>5. CASE Bump(t) /\ BumpSucceeds(t)
  <2>1. /\ issued' = issued /\ retired' = retired \union {handle[t]}
        /\ \A i \in Slots : i # handle[t].index => generation'[i] = generation[i]
        /\ handle[t].generation = generation[handle[t].index] /\ handle[t] \in HandleSet
    BY <1>1, <1>5 DEF Bump, BumpSucceeds, TypeInv, TypeOK
  <2>2. \A h \in issued \ retired : h \in HandleSet /\ h.index \in Slots
    BY <1>1 DEF Inv, HandleHistory, TypeInv, TypeOK
  <2>3. \A h \in issued \ retired : h.index = handle[t].index => h = handle[t]
    BY <2>1, <2>2 DEF LiveHandlesMatch, HandleSet
  <2> QED
    BY <2>1, <2>2, <2>3 DEF LiveHandlesMatch
<1> QED
  BY <1>2, <1>3, <1>4, <1>5 DEF Moves

LEMMA PoolInvariance ==
  ASSUME ForeignHandles = {} PROVE BoundedSpec => []PoolInv
<1>1. ASSUME Inv, BelowWidth, LiveHandlesMatch, Answers, [Next]_vars
      PROVE LiveHandlesMatch' /\ Answers'
  <2>1. CASE \E t \in Threads : Call(t) \/ Continue(t)
    BY <1>1, <2>1, LiveHandlesStep, AnswersStep
  <2>2. CASE Teardown
    <3>1. UNCHANGED <<generation, issued, retired, pc, outcome, origin>>
      BY <1>1, <2>2, TeardownSteps
    <3> QED
      BY <1>1, <3>1 DEF LiveHandlesMatch, Answers
  <2>3. CASE UNCHANGED vars
    BY <1>1, <2>3 DEF vars, LiveHandlesMatch, Answers
  <2> QED
    BY <1>1, <2>1, <2>2, <2>3 DEF Next, Finished
<1> QED
  BY <1>1, InitPoolInv, Invariance, LifetimesInvariance, StaleCallsInvariance, PTL
  DEF PoolInv, BoundedSpec, Spec

\* A handle that is out and not retired names a slot that is off the list.
LEMMA OutLive ==
  ASSUME PoolInv, NEW h \in issued \ retired
  PROVE  /\ h.index \in Slots /\ Live(h.index)
         /\ h = [index |-> h.index, generation |-> generation[h.index]]
<1>1. h.index \in Slots /\ h \in HandleSet /\ h.generation = generation[h.index]
  BY ActiveSlots DEF PoolInv, Inv, HandleHistory, LiveHandlesMatch, TypeInv, TypeOK
<1>2. h = [index |-> h.index, generation |-> generation[h.index]]
  BY <1>1 DEF HandleSet
<1> QED
  BY <1>1, <1>2 DEF Live

\* No call marks or clears a slot that it does not have in its hands.
Steady == \A i \in Slots : Live(i) => occupied'[i] = occupied[i]

LEMMA SteadySteps ==
  ASSUME Inv, NEW t \in Threads, Call(t) \/ Continue(t) PROVE Steady
<1>1. TypeInv /\ ExclusiveOwnership /\ alive
  BY ContainedSteps DEF Inv, Knowledge, Contained
<1>2. \A i \in Slots : Live(i) => ~Holds(t, i)
  BY <1>1 DEF ExclusiveOwnership
<1> QED
  BY <1>1, <1>2, PayloadFrame DEF Steady

\* The handles of the abstract pool.
Spent == retired \union SweptHandles

LEMMA HandlesKept ==
  ASSUME PoolInv, Steady, UNCHANGED <<issued, retired>>
  PROVE  LiveHandles' = LiveHandles /\ Spent' = Spent
<1>1. \A h \in issued \ retired : occupied'[h.index] = occupied[h.index]
  BY OutLive DEF Steady
<1> QED
  BY <1>1 DEF LiveHandles, SweptHandles, Spent
-----------------------------------------------------------------------------
\* Who has a slot, under the mapping.
OwnersFit ==
  \A i \in Slots : /\ i >= capacity => Owner(i) = Inactive
                   /\ \A t \in Threads : Holds(t, i) <=> Owner(i) = t
                   /\ Live(i) /\ occupied[i] <=> Owner(i) = Out
                   /\ Live(i) /\ ~occupied[i] => Owner(i) = Inactive
                   /\ i < capacity /\ Free(i) <=> Owner(i) = Unused

LEMMA OwnersAre == Inv => OwnersFit
<1> SUFFICES ASSUME Inv, NEW i \in Slots
             PROVE  /\ i >= capacity => Owner(i) = Inactive
                    /\ \A t \in Threads : Holds(t, i) <=> Owner(i) = t
                    /\ Live(i) /\ occupied[i] <=> Owner(i) = Out
                    /\ Live(i) /\ ~occupied[i] => Owner(i) = Inactive
                    /\ i < capacity /\ Free(i) <=> Owner(i) = Unused
  BY DEF OwnersFit
<1>1. \A t \in Threads : Holds(t, i) => i < capacity /\ ~Live(i)
                                        /\ \A u \in Threads \ {t} : ~Holds(u, i)
  BY DEF Inv, ExclusiveOwnership, Knowledge, Holds, Working, Allocating, Retiring, Pushing
<1>2. i \in Nat /\ capacity \in Nat
  BY CapacityAssumption DEF Slots, Inv, TypeInv, TypeOK
<1>3. Live(i) => i < capacity
  BY <1>2 DEF Inv, HandleHistory, Live, Active
<1>4. CASE \E t \in Threads : Holds(t, i)
  <2>1. PICK t \in Threads : Holds(t, i)
    BY <1>4
  <2>2. \A u \in Threads : Holds(u, i) <=> u = t
    BY <1>1, <2>1
  <2>3. (CHOOSE u \in Threads : Holds(u, i)) = t
    BY <2>2
  <2>4. i < capacity /\ Owner(i) = t /\ ~Live(i) /\ ~Free(i)
    BY <1>1, <1>2, <2>1, <2>3 DEF Owner, Free
  <2> QED
    BY <1>2, <2>1, <2>2, <2>4, OwnersAssumption
<1>5. CASE ~\E t \in Threads : Holds(t, i)
  BY <1>2, <1>3, <1>5, OwnersAssumption DEF Owner, Free
<1> QED
  BY <1>4, <1>5

\* What is asked of a slot by the mapping does not change: nor does its owner.
LEMMA SameOwner ==
  ASSUME Inv, Inv', capacity' = capacity, NEW i \in Slots, Live(i)' <=> Live(i),
         Live(i) => occupied'[i] = occupied[i],
         \A t \in Threads : Holds(t, i)' <=> Holds(t, i)
  PROVE  Owner(i)' = Owner(i)
<1>1. Free(i)' <=> Free(i)
  BY DEF Free
<1>2. OwnersFit /\ OwnersFit'
  BY OwnersAre, PTL
<1>3. i \in Nat /\ capacity \in Nat
  BY CapacityAssumption DEF Slots, Inv, TypeInv, TypeOK
<1>4. CASE i >= capacity
  BY <1>2, <1>4 DEF OwnersFit
<1>5. CASE Live(i)
  BY <1>2, <1>5 DEF OwnersFit
<1>6. CASE ~(i >= capacity) /\ ~Live(i)
  BY <1>1, <1>2, <1>3, <1>6 DEF Free, OwnersFit
<1> QED
  BY <1>4, <1>5, <1>6

\* A step that moves no slot leaves every owner as it was.
LEMMA QuietOwners ==
  ASSUME Inv, Inv', Quiet, Steady, NEW i \in Slots
  PROVE  Owner(i)' = Owner(i)
<1>1. capacity' = capacity /\ (Live(i)' <=> Live(i))
      /\ \A t \in Threads : Holds(t, i)' <=> Holds(t, i)
  BY DEF Quiet
<1>2. Live(i) => occupied'[i] = occupied[i]
  BY DEF Steady
<1> QED
  BY <1>1, <1>2, SameOwner

\* A step that moves slot x gives it the owner o, and every other slot keeps its.
LEMMA MovedOwner ==
  ASSUME Inv, Inv', Steady, capacity' = capacity, NEW x \in Slots, NEW o, Owner(x)' = o,
         \A i \in Slots : i # x => /\ Live(i)' <=> Live(i)
                                   /\ \A t \in Threads : Holds(t, i)' <=> Holds(t, i)
  PROVE  [i \in Slots |-> Owner(i)]' = [[i \in Slots |-> Owner(i)] EXCEPT ![x] = o]
<1>1. ASSUME NEW i \in Slots, i # x PROVE Owner(i)' = Owner(i)
  <2>1. (Live(i)' <=> Live(i)) /\ \A t \in Threads : Holds(t, i)' <=> Holds(t, i)
    BY <1>1
  <2>2. Live(i) => occupied'[i] = occupied[i]
    BY DEF Steady
  <2> QED
    BY <2>1, <2>2, SameOwner
<1> QED
  BY <1>1

\* A call of the abstract pool changes where the thread's own call does.
Kept(t) ==
  /\ Steady
  /\ \A u \in Threads \ {t} : /\ pc'[u] = pc[u] /\ handle'[u] = handle[u]
                              /\ outcome'[u] = outcome[u] /\ origin'[u] = origin[u]

LEMMA StepsKeep ==
  ASSUME Inv, NEW t \in Threads, Call(t) \/ Continue(t)
  PROVE  Kept(t)
BY ContainedSteps, OthersKeepCalls, SteadySteps DEF Inv, Contained, Kept

LEMMA CallBecomes ==
  ASSUME NEW t \in Threads, Kept(t), NEW c, CallOf(t)' = c
  PROVE  [u \in Threads |-> CallOf(u)]' = [[u \in Threads |-> CallOf(u)] EXCEPT ![t] = c]
<1>1. \A u \in Threads \ {t} : CallOf(u)' = CallOf(u)
  BY DEF Kept, CallOf, Wants, Result
<1> QED
  BY <1>1

\* What a thread's place in the code says about its abstract call.
LEMMA Placed ==
  ASSUME NEW t \in Threads
  PROVE  /\ pc[t] \notin {"getOccupied", "freeOccupied", "bump"} => Wants(t) = "nothing"
         /\ pc[t] = "getOccupied" => Wants(t) = "get"
         /\ pc[t] \in {"freeOccupied", "bump"} => Wants(t) = "deallocate"
         /\ pc[t] # "idle" => Result(t) = "pending"
         /\ pc[t] = "idle" /\ outcome[t] \in {"stale", "silent"} => Result(t) = "refused"
         /\ pc[t] = "idle" /\ outcome[t] \notin {"stale", "silent"} => Result(t) = outcome[t]
BY DEF Wants, Result

\* The abstract call of a thread that has nothing more to decide.
Plain(fresh, result) ==
  [wants |-> "nothing", handle |-> [index |-> Unused, generation |-> 0],
   fresh |-> fresh, result |-> result]

LEMMA PlainCall ==
  ASSUME NEW t \in Threads, pc[t] \notin {"getOccupied", "freeOccupied", "bump"}
  PROVE  CallOf(t) = Plain(origin[t] = "live", Result(t))
BY Placed DEF CallOf, Plain

-----------------------------------------------------------------------------
\* The state functions of the abstract pool.
Owners == [i \in Slots |-> Owner(i)]
Calls == [t \in Threads |-> CallOf(t)]

\* The steps between the decisions of a call are invisible.
LEMMA StutterStep ==
  ASSUME PoolInv, Inv', NEW t \in Threads, Kept(t), Quiet, UNCHANGED <<issued, retired>>,
         CallOf(t)' = CallOf(t)
  PROVE  UNCHANGED Pool!vars
<1>1. Owners' = Owners
  BY QuietOwners DEF PoolInv, Kept, Owners
<1>2. Calls' = Calls
  BY CallBecomes DEF Calls
<1>3. LiveHandles' = LiveHandles /\ Spent' = Spent
  BY HandlesKept DEF Kept
<1> QED
  BY <1>1, <1>2, <1>3 DEF Owners, Calls, Spent, Pool!vars

\* Steps that only change what the thread asks for or has been told.
LEMMA CallOnlyStep ==
  ASSUME PoolInv, Inv', NEW t \in Threads, Kept(t), Quiet, UNCHANGED <<issued, retired>>,
         NEW c, CallOf(t)' = c
  PROVE  /\ Owners' = Owners /\ Calls' = [Calls EXCEPT ![t] = c]
         /\ LiveHandles' = LiveHandles /\ Spent' = Spent
<1>1. Owners' = Owners
  BY QuietOwners DEF PoolInv, Kept, Owners
<1>2. Calls' = [Calls EXCEPT ![t] = c]
  BY CallBecomes DEF Calls
<1>3. LiveHandles' = LiveHandles /\ Spent' = Spent
  BY HandlesKept DEF Kept
<1> QED
  BY <1>1, <1>2, <1>3

\* An allocation that finds the list empty does so when no slot is in the pool.
LEMMA NothingFree ==
  ASSUME Inv, alive, head.index = InvalidIndex
  PROVE  \A i \in Slots : Owner(i) # Unused
<1>1. OwnersFit /\ FreeListIntact /\ TypeInv
  BY OwnersAre DEF Inv
<1>2. PICK s \in FreeStacks :
        IsFreeList(s) /\ {s[k] : k \in DOMAIN s} = {i \in Active : Free(i)}
  BY <1>1 DEF FreeListIntact
<1>3. PICK n \in 0 .. capacity : s \in [1 .. n -> Active]
  BY <1>2 DEF FreeStacks
<1>4. capacity \in Nat /\ n \in Nat /\ Active \subseteq Slots
  BY <1>1, CapacityAssumption, ActiveSlots DEF TypeInv, TypeOK
<1>5. 1 \notin DOMAIN s
  <2>1. SUFFICES ASSUME 1 \in DOMAIN s PROVE FALSE
    OBVIOUS
  <2>2. head.index = s[1] /\ s[1] \in Slots
    BY <1>2, <1>3, <1>4, <2>1 DEF IsFreeList
  <2> QED
    BY <2>2, Types
<1>6. \A i \in Active : ~Free(i)
  BY <1>2, <1>3, <1>4, <1>5
<1> QED
  BY <1>1, <1>4, <1>6 DEF OwnersFit, Active, Slots

LEMMA ExhaustedStep ==
  ASSUME PoolInv, Inv', alive, NEW t \in Threads, Kept(t), Quiet, UNCHANGED <<issued, retired>>,
         head.index = InvalidIndex, Wants(t) = "nothing", pc[t] \notin Working,
         CallOf(t)' = Plain(FALSE, "exhausted")
  PROVE  Pool!Next
<1>1. /\ Owners' = Owners /\ Calls' = [Calls EXCEPT ![t] = Plain(FALSE, "exhausted")]
      /\ LiveHandles' = LiveHandles /\ Spent' = Spent
  BY CallOnlyStep
<1>2. \A i \in Slots : Owner(i) \notin {t, Unused}
  BY NothingFree, OwnersAre DEF PoolInv, OwnersFit, Holds
<1>3. CallOf(t).wants = "nothing"
  BY DEF CallOf
<1>4. Pool!Exhausted(t)
  BY <1>1, <1>2, <1>3
  DEF Owners, Calls, Spent, Plain, Pool!Exhausted, Pool!Becomes, Pool!Call, Pool!NoHandle
<1> QED
  BY <1>4 DEF Pool!Next

LEMMA AllocateCallStep ==
  ASSUME PoolInv, Inv', NEW t \in Threads, Kept(t), Quiet, AllocateCall(t)
  PROVE  Pool!Next
<1>1. TypeInv /\ Answers /\ alive /\ pc[t] = "idle" /\ Inv
  BY DEF PoolInv, Inv, AllocateCall, Start
<1>2. /\ pc \in [Threads -> Labels] /\ outcome \in [Threads -> Outcomes]
      /\ origin \in [Threads -> Origins]
  BY <1>1 DEF TypeInv, TypeOK
<1>3. origin'[t] = "none" /\ UNCHANGED <<issued, retired>>
  BY <1>2 DEF AllocateCall, Start
<1>4. Wants(t) = "nothing" /\ pc[t] \notin Working /\ Result(t) # "pending"
  BY <1>1, <1>2, Placed DEF Answers, Working, Allocating, Retiring, Pushing
<1>5. CASE head.index = InvalidIndex
  <2>1. pc'[t] = "idle" /\ outcome'[t] = "exhausted"
    BY <1>2, <1>5 DEF AllocateCall, Return
  <2>2. CallOf(t)' = Plain(FALSE, "exhausted")
    BY <1>3, <2>1 DEF CallOf, Plain, Wants, Result
  <2> QED
    BY <1>1, <1>3, <1>4, <1>5, <2>2, ExhaustedStep
<1>6. CASE head.index # InvalidIndex
  <2>1. pc'[t] = "popNext"
    BY <1>2, <1>6 DEF AllocateCall, Goto
  <2>2. CallOf(t)' = Plain(FALSE, "pending")
    BY <1>3, <2>1 DEF CallOf, Plain, Wants, Result
  <2>3. /\ Owners' = Owners /\ Calls' = [Calls EXCEPT ![t] = Plain(FALSE, "pending")]
        /\ LiveHandles' = LiveHandles /\ Spent' = Spent
    BY <1>1, <1>3, <2>2, CallOnlyStep
  <2>4. CallOf(t).result # "pending"
    BY <1>4 DEF CallOf
  <2>5. Pool!BeginAllocate(t)
    BY <2>3, <2>4
    DEF Owners, Calls, Spent, Plain, Pool!BeginAllocate, Pool!Pending, Pool!Becomes, Pool!Call,
        Pool!NoHandle
  <2> QED
    BY <2>5 DEF Pool!Next
<1> QED
  BY <1>5, <1>6

\* checked_index() refuses a handle only if it is not live, and goes on only
\* with one that is.
LEMMA CheckedCallStep ==
  ASSUME PoolInv, Inv', ForeignHandles = {}, NEW t \in Threads, Kept(t), Quiet,
         NEW op, NEW label \in {"getOccupied", "freeOccupied"},
             CheckedCall(t, op, label)
  PROVE  Pool!Next
<1>1. TypeInv /\ Answers /\ HandleHistory /\ LiveHandlesMatch /\ pc[t] = "idle" /\ Inv
  BY DEF PoolInv, Inv, CheckedCall, Start
<1>2. /\ pc \in [Threads -> Labels] /\ outcome \in [Threads -> Outcomes]
      /\ origin \in [Threads -> Origins] /\ handle \in [Threads -> HandleSet]
  BY <1>1 DEF TypeInv, TypeOK
<1>3. UNCHANGED <<issued, retired>>
  BY DEF CheckedCall
<1>4. PICK a \in Arguments :
        /\ Start(t, op, a.origin)
        /\ IF Matches(a.handle)
           THEN /\ handle' = [handle EXCEPT ![t] = a.handle]
                /\ outcome' = [outcome EXCEPT ![t] = "pending"]
                /\ Goto(t, label)
           ELSE Return(t, Rejected)
  BY DEF CheckedCall
<1>5. origin'[t] = a.origin
  BY <1>2, <1>4 DEF Start
<1>6. CallOf(t).result # "pending"
  BY <1>1, <1>2, Placed DEF Answers, CallOf
<1>7. a.origin = "live" => a.handle \in LiveHandles /\ Matches(a.handle)
  <2>1. SUFFICES ASSUME a.origin = "live"
                 PROVE  a.handle \in LiveHandles /\ Matches(a.handle)
    OBVIOUS
  <2>2. a.handle \in LiveHandles /\ a.handle \in issued \ retired
    BY <1>4, <2>1 DEF Arguments, LiveHandles
  <2>3. a.handle.index \in Active /\ a.handle.generation = generation[a.handle.index]
    BY <1>1, <2>2 DEF HandleHistory, LiveHandlesMatch
  <2>4. a.handle.index \in Slots /\ a.handle.index < capacity
    BY <1>1, <2>3, ActiveSlots, CapacityAssumption DEF Active, TypeInv, TypeOK
  <2>5. a.handle.generation # 0 /\ a.handle.index # InvalidIndex
    BY <1>1, <2>3, <2>4, InvalidIndexAssumption DEF Slots, TypeInv, TypeOK
  <2> QED
    BY <2>2, <2>3, <2>4, <2>5 DEF Matches, InRange, IsValid
<1>8. Matches(a.handle) => /\ a.handle \in LiveHandles \union Spent
                           /\ a.origin = "live" <=> a.handle \in LiveHandles
  <2>1. SUFFICES ASSUME Matches(a.handle)
                 PROVE  /\ a.handle \in LiveHandles \union Spent
                        /\ a.origin = "live" <=> a.handle \in LiveHandles
    OBVIOUS
  <2>2. a.origin \in {"live", "swept"}
    BY <1>1, <1>4, <2>1, MatchingOrigin
  <2>3. a.origin = "swept" => a.handle \in SweptHandles
    BY <1>4 DEF Arguments
  <2> QED
    BY <1>7, <2>2, <2>3 DEF LiveHandles, SweptHandles, Spent
<1>9. CASE Matches(a.handle)
  <2>1. PICK wants \in {"get", "deallocate"} :
          wants = IF label = "getOccupied" THEN "get" ELSE "deallocate"
    OBVIOUS
  <2> DEFINE c == [wants |-> wants, handle |-> a.handle,
                   fresh |-> a.handle \in LiveHandles, result |-> "pending"]
  <2>2. /\ pc'[t] = label /\ handle'[t] = a.handle
        /\ (origin'[t] = "live") = (a.handle \in LiveHandles)
    BY <1>2, <1>4, <1>5, <1>8, <1>9 DEF Goto
  <2>3. Wants(t)' = wants /\ Result(t)' = "pending" /\ wants # "nothing"
    BY <2>1, <2>2 DEF Wants, Result
  <2>4. CallOf(t)' = c
    BY <2>2, <2>3 DEF CallOf
  <2> HIDE DEF c
  <2>5. /\ Owners' = Owners /\ Calls' = [Calls EXCEPT ![t] = c]
        /\ LiveHandles' = LiveHandles /\ Spent' = Spent
    BY <1>1, <1>3, <2>4, CallOnlyStep
  <2>6. a.handle \in LiveHandles \union Spent
    BY <1>8, <1>9
  <2>7. Pool!BeginWith(t)
    BY <1>6, <2>1, <2>5, <2>6
    DEF c, Owners, Calls, Spent, Pool!BeginWith, Pool!Pending, Pool!Becomes, Pool!Call
  <2> QED
    BY <2>7 DEF Pool!Next
<1>10. CASE ~Matches(a.handle)
  <2>1. pc'[t] = "idle" /\ outcome'[t] = Rejected /\ origin'[t] # "live"
    BY <1>2, <1>4, <1>5, <1>7, <1>10 DEF Return
  <2>2. CallOf(t)' = Plain(FALSE, "refused")
    BY <2>1 DEF CallOf, Plain, Wants, Result, Rejected
  <2>3. /\ Owners' = Owners /\ Calls' = [Calls EXCEPT ![t] = Plain(FALSE, "refused")]
        /\ LiveHandles' = LiveHandles /\ Spent' = Spent
    BY <1>1, <1>3, <2>2, CallOnlyStep
  <2>4. Pool!RefuseStale(t)
    BY <1>6, <2>3
    DEF Owners, Calls, Spent, Plain, Pool!RefuseStale, Pool!Pending, Pool!Becomes, Pool!Call,
        Pool!NoHandle
  <2> QED
    BY <2>4 DEF Pool!Next
<1> QED
  BY <1>9, <1>10

-----------------------------------------------------------------------------
\* A call refuses a handle whose payload was ended.
LEMMA RefusedStep ==
  ASSUME PoolInv, Inv', NEW t \in Threads, Kept(t), Quiet, UNCHANGED <<issued, retired>>,
         origin' = origin, pc[t] \in {"getOccupied", "freeOccupied", "bump"},
         handle[t] \in Spent, pc'[t] = "idle", outcome'[t] = Rejected
  PROVE  Pool!Next
<1> DEFINE c == Plain(CallOf(t).fresh, "refused")
<1>1. Inv /\ CallOf(t).handle = handle[t] /\ CallOf(t).fresh = (origin[t] = "live")
  BY Placed DEF PoolInv, CallOf
<1>2. CallOf(t)' = c
  BY <1>1 DEF CallOf, Plain, Wants, Result, Rejected
<1> HIDE DEF c
<1>3. /\ Owners' = Owners /\ Calls' = [Calls EXCEPT ![t] = c]
      /\ LiveHandles' = LiveHandles /\ Spent' = Spent
  BY <1>1, <1>2, CallOnlyStep
<1>4. Pool!Refuse(t)
  BY <1>1, <1>3
  DEF c, Owners, Calls, Spent, Plain, Pool!Refuse, Pool!Ends, Pool!Becomes, Pool!Call, Pool!NoHandle
<1> QED
  BY <1>4 DEF Pool!Next

\* A call that finds the slot empty holds a handle whose payload was ended.
LEMMA NotOccupied ==
  ASSUME PoolInv, NEW t \in Threads, pc[t] \in {"getOccupied", "freeOccupied"},
         ~occupied[handle[t].index]
  PROVE  handle[t] \in Spent
BY DEF PoolInv, Inv, Knowledge, Spent, SweptHandles

LEMMA GetStep ==
  ASSUME PoolInv, Inv', NEW t \in Threads, Kept(t), Quiet, GetCheckOccupied(t)
  PROVE  Pool!Next
<1>1. /\ TypeInv /\ Inv /\ pc[t] = "getOccupied" /\ pc'[t] = "idle" /\ origin' = origin
      /\ UNCHANGED <<issued, retired>>
      /\ outcome'[t] = IF occupied[handle[t].index] THEN "ok" ELSE Rejected
  BY DEF PoolInv, Inv, TypeInv, TypeOK, GetCheckOccupied, Return
<1>2. CASE occupied[handle[t].index]
  <2> DEFINE c == Plain(CallOf(t).fresh, "ok")
  <2>1. CallOf(t)' = c
    BY <1>1, <1>2 DEF CallOf, Plain, Wants, Result
  <2> HIDE DEF c
  <2>2. /\ Owners' = Owners /\ Calls' = [Calls EXCEPT ![t] = c]
        /\ LiveHandles' = LiveHandles /\ Spent' = Spent
    BY <1>1, <2>1, CallOnlyStep
  <2>3. CallOf(t).wants = "get" /\ CallOf(t).fresh
    <3>1. origin[t] = "live"
      BY <1>1, <1>2 DEF PoolInv, Answers, StaleCallsEnd, Gone
    <3> QED
      BY <1>1, <3>1, Placed DEF CallOf
  <2>4. Pool!Lookup(t)
    BY <2>2, <2>3
    DEF c, Owners, Calls, Spent, Plain, Pool!Lookup, Pool!Ends, Pool!Becomes, Pool!Call,
        Pool!NoHandle
  <2> QED
    BY <2>4 DEF Pool!Next
<1>3. CASE ~occupied[handle[t].index]
  BY <1>1, <1>3, NotOccupied, RefusedStep
<1> QED
  BY <1>2, <1>3

LEMMA FreeCheckStep ==
  ASSUME PoolInv, Inv', NEW t \in Threads, Kept(t), Quiet, FreeCheckOccupied(t)
  PROVE  Pool!Next \/ UNCHANGED Pool!vars
<1>1. /\ TypeInv /\ Inv /\ pc[t] = "freeOccupied" /\ origin' = origin
      /\ UNCHANGED <<issued, retired>> /\ pc \in [Threads -> Labels]
      /\ outcome \in [Threads -> Outcomes]
  BY DEF PoolInv, Inv, TypeInv, TypeOK, FreeCheckOccupied
<1>2. CASE occupied[handle[t].index]
  <2>1. pc'[t] = "bump" /\ handle' = handle
    BY <1>1, <1>2 DEF FreeCheckOccupied, Goto
  <2>2. CallOf(t)' = CallOf(t)
    BY <1>1, <2>1 DEF CallOf, Wants, Result
  <2> QED
    BY <1>1, <2>2, StutterStep
<1>3. CASE ~occupied[handle[t].index]
  <2>1. pc'[t] = "idle" /\ outcome'[t] = Rejected
    BY <1>1, <1>3 DEF FreeCheckOccupied, Return
  <2> QED
    BY <1>1, <1>3, <2>1, NotOccupied, RefusedStep
<1> QED
  BY <1>2, <1>3

LEMMA LostBumpStep ==
  ASSUME PoolInv, Inv', NEW t \in Threads, Kept(t), Quiet, Bump(t), ~BumpSucceeds(t)
  PROVE  Pool!Next
<1>1. /\ TypeInv /\ Inv /\ pc[t] = "bump" /\ origin' = origin
      /\ UNCHANGED <<issued, retired>> /\ pc \in [Threads -> Labels]
      /\ outcome \in [Threads -> Outcomes]
      /\ pc'[t] = "idle" /\ outcome'[t] = Rejected
  BY DEF PoolInv, Inv, TypeInv, TypeOK, Bump, Return
<1>2. handle[t] \in Spent
  BY <1>1 DEF PoolInv, Inv, Knowledge, LiveHandlesMatch, BumpSucceeds, Spent
<1> QED
  BY <1>1, <1>2, RefusedStep

\* A successful bump takes the handle out of circulation and its slot in hand.
LEMMA RetireStep ==
  ASSUME PoolInv, BelowWidth, Inv', NEW t \in Threads, Kept(t), Bump(t), BumpSucceeds(t)
  PROVE  Pool!Next
<1> DEFINE x == handle[t].index
           c == Plain(CallOf(t).fresh, "pending")
<1>1. /\ TypeInv /\ Inv /\ pc[t] = "bump" /\ origin' = origin
      /\ pc \in [Threads -> Labels] /\ issued' = issued
      /\ retired' = retired \union {handle[t]} /\ handle' = handle
      /\ pc'[t] = "clearOccupied" /\ handle[t] \in issued
  BY DEF PoolInv, Inv, TypeInv, TypeOK, Bump, Goto, Knowledge
<1>2. /\ x \in Active /\ handle[t] \notin retired /\ capacity' = capacity
      /\ \A j \in Slots : Live(j)' <=> Live(j) /\ j # x
      /\ \A u \in Threads, j \in Slots : Holds(u, j)' <=> Holds(u, j) \/ (u = t /\ j = x)
  BY <1>1, RetireMoves
<1>3. x \in Slots
  BY <1>1, <1>2, ActiveSlots
<1>4. OwnersFit'
  BY OwnersAre, PTL
<1>5. Owners' = [Owners EXCEPT ![x] = t]
  <2> PICK y \in Slots : y = x
    BY <1>3
  <2>1. \A i \in Slots : i # y => /\ Live(i)' <=> Live(i)
                                  /\ \A u \in Threads : Holds(u, i)' <=> Holds(u, i)
    BY <1>2
  <2>2. Owner(y)' = t
    <3>1. y \in Slots /\ OwnersFit' /\ Holds(t, y)'
      BY <1>2, <1>4
    <3> QED
      BY <3>1 DEF OwnersFit
  <2> QED
    BY <1>1, <1>2, <2>1, <2>2, MovedOwner DEF Owners, Kept
<1>6. CallOf(t)' = c
  BY <1>1 DEF CallOf, Plain, Wants, Result
<1>7. CallOf(t).wants = "deallocate" /\ CallOf(t).handle = handle[t]
  BY <1>1, Placed DEF CallOf
<1> HIDE DEF c
<1>8. Calls' = [Calls EXCEPT ![t] = c]
  BY <1>6, CallBecomes DEF Calls
<1>9. /\ handle[t] \in LiveHandles /\ LiveHandles' = LiveHandles \ {handle[t]}
      /\ Spent' = Spent \union {handle[t]}
  <2>1. alive /\ occupied' = occupied
    BY RetireMoves DEF PoolInv, Bump
  <2>2. occupied[handle[t].index]
    BY <1>1, <2>1 DEF PoolInv, Lifetimes, Checked
  <2> QED
    BY <1>1, <1>2, <2>1, <2>2 DEF LiveHandles, SweptHandles, Spent
<1>10. Pool!Retire(t)
  BY <1>1, <1>5, <1>7, <1>8, <1>9
  DEF c, Owners, Calls, Spent, Plain, Pool!Retire, Pool!Becomes, Pool!Call, Pool!NoHandle
<1> QED
  BY <1>10 DEF Pool!Next

\* A successful pop reserves a slot of the pool.
LEMMA ReserveStep ==
  ASSUME PoolInv, Inv', NEW t \in Threads, Kept(t), PopSwing(t)
  PROVE  Pool!Next
<1> DEFINE x == head.index
<1>1. /\ TypeInv /\ Inv /\ pc[t] = "popSwing" /\ origin' = origin
      /\ pc \in [Threads -> Labels] /\ issued' = issued /\ retired' = retired
      /\ pc'[t] = "popClear"
  BY DEF PoolInv, Inv, TypeInv, TypeOK, PopSwing, Goto
<1>2. /\ x \in Active /\ Free(x) /\ capacity' = capacity
      /\ \A j \in Slots : Live(j)' <=> Live(j)
      /\ \A u \in Threads, j \in Slots : Holds(u, j)' <=> Holds(u, j) \/ (u = t /\ j = x)
  BY <1>1, PopMoves
<1>3. x \in Slots /\ x < capacity
  BY <1>1, <1>2, ActiveSlots, CapacityAssumption DEF Active, TypeInv, TypeOK
<1>4. OwnersFit /\ OwnersFit'
  BY <1>1, OwnersAre, PTL
<1>5. Owner(x) = Unused /\ \A i \in Slots : Owner(i) # t
  <2>1. \A i \in Slots : ~Holds(t, i)
    BY <1>1 DEF Holds, Working, Allocating, Retiring, Pushing
  <2> QED
    BY <1>2, <1>3, <1>4, <2>1 DEF OwnersFit
<1>6. Owners' = [Owners EXCEPT ![x] = t]
  <2> PICK y \in Slots : y = x
    BY <1>3
  <2>1. \A i \in Slots : i # y => /\ Live(i)' <=> Live(i)
                                  /\ \A u \in Threads : Holds(u, i)' <=> Holds(u, i)
    BY <1>2
  <2>2. Owner(y)' = t
    <3>1. y \in Slots /\ OwnersFit' /\ Holds(t, y)'
      BY <1>2, <1>4
    <3> QED
      BY <3>1 DEF OwnersFit
  <2> QED
    BY <1>1, <1>2, <2>1, <2>2, MovedOwner DEF Owners, Kept
<1>7. CallOf(t)' = CallOf(t)
  BY <1>1 DEF CallOf, Wants, Result
<1>8. Calls' = Calls
  BY <1>7, CallBecomes DEF Calls
<1>9. CallOf(t).wants = "nothing" /\ CallOf(t).result = "pending"
  BY <1>1, Placed DEF CallOf
<1>10. LiveHandles' = LiveHandles /\ Spent' = Spent
  BY <1>1, HandlesKept DEF Kept
<1>11. Pool!Reserve(t)
  BY <1>3, <1>5, <1>6, <1>8, <1>9, <1>10 DEF Owners, Calls, Spent, Pool!Reserve, Pool!Pending
<1> QED
  BY <1>11 DEF Pool!Next

\* allocate() returns with a handle nobody has seen.
LEMMA IssueStep ==
  ASSUME PoolInv, Inv', NEW t \in Threads, Kept(t), CountUp(t)
  PROVE  Pool!Next
<1> DEFINE x == handle[t].index
           c == Plain(CallOf(t).fresh, "ok")
<1>1. /\ TypeInv /\ Inv /\ pc[t] = "countUp" /\ origin' = origin
      /\ pc \in [Threads -> Labels] /\ issued' = issued \union {handle[t]}
      /\ retired' = retired /\ pc'[t] = "idle" /\ outcome'[t] = "ok"
      /\ handle[t].generation = generation[x] /\ handle[t] \in HandleSet
      /\ retired \subseteq issued
  BY DEF PoolInv, Inv, TypeInv, TypeOK, CountUp, Return, Knowledge, HandleHistory
<1>2. /\ x \in Slots /\ handle[t] \notin issued /\ Holds(t, x) /\ capacity' = capacity
      /\ \A j \in Slots : Live(j)' <=> Live(j) \/ j = x
      /\ \A u \in Threads, j \in Slots : Holds(u, j)' <=> Holds(u, j) /\ u # t
  BY <1>1, IssueMoves
<1>3. OwnersFit /\ OwnersFit'
  BY <1>1, OwnersAre, PTL
<1>4. Owner(x) = t
  BY <1>2, <1>3 DEF OwnersFit
<1>5. occupied[x] /\ occupied' = occupied
  BY <1>1, IssueMoves DEF PoolInv, Lifetimes, InHand, Published, Working, Allocating, CountUp
<1>6. Owners' = [Owners EXCEPT ![x] = Out]
  <2> PICK y \in Slots : y = x
    BY <1>2
  <2>1. \A i \in Slots : i # y => /\ Live(i)' <=> Live(i)
                                  /\ \A u \in Threads : Holds(u, i)' <=> Holds(u, i)
    BY <1>2 DEF Holds
  <2>2. Owner(y)' = Out
    <3>1. y \in Slots /\ OwnersFit' /\ Live(y)' /\ occupied'[y]
      BY <1>2, <1>3, <1>5
    <3> QED
      BY <3>1 DEF OwnersFit
  <2> QED
    BY <1>1, <1>2, <2>1, <2>2, MovedOwner DEF Owners, Kept
<1>7. CallOf(t)' = c
  BY <1>1 DEF CallOf, Plain, Wants, Result
<1> HIDE DEF c
<1>8. Calls' = [Calls EXCEPT ![t] = c]
  BY <1>7, CallBecomes DEF Calls
<1>9. handle[t] \in Pool!Handles
  <2>1. generation[x] \in 1 .. GenMod - 1
    BY <1>1, <1>2 DEF TypeInv, TypeOK
  <2>2. handle[t] = [index |-> x, generation |-> generation[x]]
    BY <1>1 DEF HandleSet
  <2> QED
    BY <1>2, <2>1, <2>2 DEF Pool!Handles
<1>10. Pool!Issue(t, handle[t])
  <2>1. handle[t] \notin LiveHandles \union Spent
    BY <1>1, <1>2 DEF LiveHandles, SweptHandles, Spent
  <2>2. LiveHandles' = LiveHandles \union {handle[t]} /\ Spent' = Spent
    BY <1>1, <1>2, <1>5 DEF LiveHandles, SweptHandles, Spent
  <2> QED
    BY <1>1, <1>2, <1>4, <1>6, <1>8, <2>1, <2>2
    DEF c, Owners, Calls, Spent, Plain, Pool!Issue, Pool!Ends, Pool!Becomes, Pool!Call,
        Pool!NoHandle
<1> QED
  BY <1>9, <1>10 DEF Pool!Next

\* The CAS of a push gives the slot back to the pool.
LEMMA RecycleStep ==
  ASSUME PoolInv, Inv', NEW t \in Threads, Kept(t), PushSwing(t)
  PROVE  Pool!Next
<1> DEFINE x == handle[t].index
<1>1. /\ TypeInv /\ Inv /\ pc[t] = "pushSwing" /\ origin' = origin
      /\ pc \in [Threads -> Labels] /\ issued' = issued /\ retired' = retired
      /\ pc'[t] = "idle" /\ outcome'[t] \in {"ok", "threw"}
  BY DEF PoolInv, Inv, TypeInv, TypeOK, PushSwing, Return
<1>2. /\ x \in Slots /\ Holds(t, x) /\ capacity' = capacity
      /\ \A j \in Slots : Live(j)' <=> Live(j)
      /\ \A u \in Threads, j \in Slots : Holds(u, j)' <=> Holds(u, j) /\ u # t
  BY <1>1, PushMoves
<1>3. x < capacity /\ ~Live(x) /\ \A u \in Threads \ {t} : ~Holds(u, x)
  BY <1>1, <1>2, PushMoves DEF Inv, ExclusiveOwnership
<1>4. OwnersFit /\ OwnersFit'
  BY <1>1, OwnersAre, PTL
<1>5. Owner(x) = t
  BY <1>2, <1>4 DEF OwnersFit
<1>6. Owners' = [Owners EXCEPT ![x] = Unused]
  <2> PICK y \in Slots : y = x
    BY <1>2
  <2>1. \A i \in Slots : i # y => /\ Live(i)' <=> Live(i)
                                  /\ \A u \in Threads : Holds(u, i)' <=> Holds(u, i)
    BY <1>2 DEF Holds
  <2>2. Owner(y)' = Unused
    <3>1. y \in Slots /\ OwnersFit' /\ y < capacity' /\ Free(y)'
      BY <1>2, <1>3, <1>4 DEF Free
    <3> QED
      BY <3>1 DEF OwnersFit
  <2> QED
    BY <1>1, <1>2, <2>1, <2>2, MovedOwner DEF Owners, Kept
<1>7. PICK r \in {"ok", "threw"} : outcome'[t] = r
  BY <1>1
<1> DEFINE c == Plain(CallOf(t).fresh, r)
<1>8. CallOf(t)' = c
  BY <1>1, <1>7 DEF CallOf, Plain, Wants, Result
<1> HIDE DEF c
<1>9. Calls' = [Calls EXCEPT ![t] = c]
  BY <1>8, CallBecomes DEF Calls
<1>10. LiveHandles' = LiveHandles /\ Spent' = Spent
  BY <1>1, HandlesKept DEF Kept
<1>11. Pool!Recycle(t)
  BY <1>2, <1>5, <1>6, <1>9, <1>10
  DEF c, Owners, Calls, Spent, Plain, Pool!Recycle, Pool!Ends, Pool!Becomes, Pool!Call,
      Pool!NoHandle
<1> QED
  BY <1>11 DEF Pool!Next

-----------------------------------------------------------------------------
\* Every other step of a call is invisible, or finds the pool empty.
LEMMA QuietStep ==
  ASSUME PoolInv, Inv', NEW t \in Threads, Kept(t), Quiet, Continue(t), ~Moves(t),
         ~GetCheckOccupied(t), ~FreeCheckOccupied(t), ~Bump(t)
  PROVE  Pool!Next \/ UNCHANGED Pool!vars
<1>1. /\ TypeInv /\ Inv /\ Answers /\ alive
      /\ pc \in [Threads -> Labels] /\ outcome \in [Threads -> Outcomes]
  BY DEF PoolInv, Inv, TypeInv, TypeOK, Knowledge, Continue, PopReadNext, PopSwing, PopRetry,
         PopClear, Construct, ConstructThrows, ReadGeneration, Publish, CountUp,
         GetCheckOccupied, FreeCheckOccupied, Bump, ClearOccupied, Destroy, CountDown,
         PushLoad, PushLink, PushSwing, PushRetry
<1>2. UNCHANGED <<issued, retired>> /\ origin' = origin
  BY DEF Continue, Moves, PopReadNext, PopRetry, PopClear, Construct, ConstructThrows,
         ReadGeneration, Publish, ClearOccupied, Destroy, CountDown, PushLoad, PushLink,
         PushRetry
<1>3. CASE PopRetry(t) /\ head.index = InvalidIndex
  <2>1. pc[t] = "popSwing" /\ pc'[t] = "idle" /\ outcome'[t] = "exhausted"
    BY <1>1, <1>3 DEF PopRetry, Return
  <2>2. origin[t] = "none"
    BY <1>1, <2>1 DEF Answers
  <2>3. CallOf(t)' = Plain(FALSE, "exhausted")
    BY <1>2, <2>1, <2>2 DEF CallOf, Plain, Wants, Result
  <2>4. Wants(t) = "nothing" /\ pc[t] \notin Working
    BY <2>1, Placed DEF Working, Allocating, Retiring, Pushing
  <2> QED
    BY <1>1, <1>2, <1>3, <2>3, <2>4, ExhaustedStep
<1>4. CASE ~(PopRetry(t) /\ head.index = InvalidIndex)
  <2>1. /\ pc[t] \notin {"idle", "getOccupied", "freeOccupied", "bump"}
        /\ pc'[t] \notin {"idle", "getOccupied", "freeOccupied", "bump"}
    <3> USE <1>1
    <3>1. CASE PopRetry(t)
      BY <1>4, <3>1 DEF PopRetry, Goto
    <3>2. CASE ~PopRetry(t)
      BY <3>2
      DEF Continue, Moves, PopReadNext, PopClear, Construct, ConstructThrows, ReadGeneration,
          Publish, ClearOccupied, Destroy, CountDown, PushLoad, PushLink, PushRetry, Goto
    <3> QED
      BY <3>1, <3>2
  <2>2. CallOf(t)' = CallOf(t)
    BY <1>2, <2>1 DEF CallOf, Wants, Result
  <2> QED
    BY <1>1, <1>2, <2>2, StutterStep
<1> QED
  BY <1>3, <1>4

\* ~SlotMap() takes the handle of the slot it sweeps.
LEMMA DiscardStep ==
  ASSUME PoolInv, Inv', SweepSlot PROVE Pool!Next
<1> DEFINE h == [index |-> position, generation |-> generation[position]]
<1>1. /\ alive /\ AllIdle /\ AllIdle'
      /\ UNCHANGED <<capacity, generation, pc, handle, outcome, issued, retired, origin>>
  BY TeardownSteps DEF Teardown, PoolInv
<1>2. /\ TypeInv /\ position \in Nat /\ capacity \in Nat /\ Active \subseteq Slots
  BY CapacityAssumption, ActiveSlots DEF PoolInv, Inv, TypeInv, TypeOK
<1>3. position \in Slots /\ position < capacity /\ occupied[position]
  BY <1>2 DEF SweepSlot, Active
<1>4. /\ occupied' = [occupied EXCEPT ![position] = FALSE]
      /\ occupied \in [Slots -> BOOLEAN] /\ position' = position
  BY <1>2 DEF SweepSlot, TypeInv, TypeOK
<1>5. Live(position)
  <2>1. ~Free(position)
    BY <1>1, <1>3 DEF PoolInv, Lifetimes, Empty
  <2> QED
    BY <1>1, <1>3, <2>1 DEF Free, Holds, AllIdle, Working, Allocating, Retiring, Pushing
<1>6. h \in LiveHandles /\ h \in Pool!Handles
  <2>1. generation[position] \in 1 .. GenMod - 1
    BY <1>2, <1>3 DEF TypeInv, TypeOK
  <2> QED
    BY <1>3, <1>5, <2>1 DEF Live, LiveHandles, Pool!Handles
<1>7. ASSUME NEW g \in issued \ retired
      PROVE  /\ g.index \in Slots
             /\ g.index = position => g = h
             /\ g = h => g.index = position
  BY <1>7, OutLive
<1>8. LiveHandles' = LiveHandles \ {h} /\ Spent' = Spent \union {h}
  <2>1. \A g \in issued \ retired : occupied'[g.index] <=> occupied[g.index] /\ g # h
    BY <1>4, <1>7
  <2>2. h \in issued \ retired
    BY <1>6 DEF LiveHandles
  <2> HIDE DEF h
  <2> QED
    BY <1>1, <2>1, <2>2 DEF LiveHandles, SweptHandles, Spent
<1>9. \A i \in Slots : /\ Live(i)' <=> Live(i)
                       /\ \A t \in Threads : ~Holds(t, i) /\ ~Holds(t, i)'
  BY <1>1 DEF Live, Holds, AllIdle, Working, Allocating, Retiring, Pushing
<1>10. Owners' = [Owners EXCEPT ![position] = Inactive]
  <2>1. ASSUME NEW i \in Slots
        PROVE  Owner(i)' = IF i = position THEN Inactive ELSE Owner(i)
    <3>1. occupied'[i] = IF i = position THEN FALSE ELSE occupied[i]
      BY <1>4
    <3>2. Owner(i) = IF i >= capacity THEN Inactive
                     ELSE IF ~Live(i) THEN Unused
                     ELSE IF occupied[i] THEN Out ELSE Inactive
      BY <1>9 DEF Owner
    <3>3. Owner(i)' = IF i >= capacity THEN Inactive
                      ELSE IF ~Live(i) THEN Unused
                      ELSE IF occupied'[i] THEN Out ELSE Inactive
      <4>1. capacity' = capacity /\ (Live(i)' <=> Live(i))
            /\ ~\E t \in Threads : Holds(t, i)'
        BY <1>1, <1>9
      <4> QED
        BY <4>1 DEF Owner
    <3> QED
      BY <1>5, <3>1, <3>2, <3>3
  <2> QED
    BY <1>3, <1>4, <2>1 DEF Owners
<1>11. Calls' = Calls
  BY <1>1 DEF Calls, CallOf, Wants, Result
<1>12. h.index = position
  OBVIOUS
<1> HIDE DEF h
<1>13. Pool!Discard(h)
  BY <1>6, <1>8, <1>10, <1>11, <1>12 DEF Owners, Calls, Spent, Pool!Discard
<1> QED
  BY <1>6, <1>13 DEF Pool!Next

\* The rest of ~SlotMap() is invisible.
LEMMA TeardownStutters ==
  ASSUME Inv, [Teardown]_vars, ~SweepSlot PROVE UNCHANGED Pool!vars
<1>1. UNCHANGED <<capacity, generation, occupied, pc, handle, outcome, issued, retired, origin>>
  BY DEF Teardown, TeardownBegins, SkipSlot, SweepReturns, SweepThrows, TeardownEnds, vars
<1>2. /\ \A i \in Slots : Owner(i)' = Owner(i)
      /\ \A t \in Threads : CallOf(t)' = CallOf(t)
  BY <1>1 DEF Owner, Holds, Live, CallOf, Wants, Result
<1>3. LiveHandles' = LiveHandles /\ SweptHandles' = SweptHandles
  BY <1>1 DEF LiveHandles, SweptHandles
<1> QED
  BY <1>1, <1>2, <1>3 DEF Pool!vars

LEMMA InitImplements == Init => Pool!Init
<1> SUFFICES ASSUME Init PROVE Pool!Init
  OBVIOUS
<1>1. capacity \in Nat /\ TypeInv
  BY InitTypeInv, CapacityAssumption DEF TypeInv, TypeOK
<1>2. \A i \in Slots : Owner(i) = IF i \in {j \in Slots : j < capacity} THEN Unused ELSE Inactive
  BY <1>1 DEF Init, Owner, Holds, Live, Working, Allocating, Retiring, Pushing, Slots
<1>3. \E active \in SUBSET Slots :
        [i \in Slots |-> Owner(i)] = [i \in Slots |-> IF i \in active THEN Unused ELSE Inactive]
  BY <1>2
<1>4. \A t \in Threads : CallOf(t) = Plain(FALSE, "none")
  BY DEF Init, CallOf, Plain, Wants, Result
<1>5. [t \in Threads |-> CallOf(t)] = [t \in Threads |-> Plain(FALSE, "none")]
  BY <1>4
<1>6. LiveHandles = {} /\ SweptHandles = {} /\ retired = {}
  BY DEF Init, LiveHandles, SweptHandles
<1> QED
  BY <1>3, <1>5, <1>6 DEF Plain, Pool!Init, Pool!Call, Pool!NoHandle

\* Every decision of SlotMap is made at one atomic access, and is the one the
\* abstract pool makes at that instant (allocate(), get(), deallocate()).
THEOREM SlotMapImplementsPool ==
  ASSUME ForeignHandles = {} PROVE BoundedSpec => ImplementsPool
<1>1. PoolInv /\ BelowWidth /\ Inv' /\ [Next]_vars => [Pool!Next]_(Pool!vars)
  <2> SUFFICES ASSUME PoolInv, BelowWidth, Inv', [Next]_vars
               PROVE  Pool!Next \/ UNCHANGED Pool!vars
    OBVIOUS
  <2>1. ASSUME NEW t \in Threads, Call(t) \/ Continue(t)
        PROVE  Pool!Next \/ UNCHANGED Pool!vars
    <3>1. Kept(t) /\ TypeInv /\ Inv
      BY <2>1, StepsKeep DEF PoolInv, Inv
    <3>2. CASE Moves(t)
      BY <3>1, <3>2, ReserveStep, IssueStep, RetireStep, RecycleStep DEF Moves
    <3>3. CASE ~Moves(t)
      <4>1. Quiet
        BY <2>1, <3>1, <3>3, QuietSteps, LocalQuiet
      <4>2. CASE AllocateCall(t)
        BY <3>1, <4>1, <4>2, AllocateCallStep
      <4>3. CASE GetCall(t) \/ DeallocateCall(t)
        BY <3>1, <4>1, <4>3, CheckedCallStep DEF GetCall, DeallocateCall
      <4>4. CASE GetCheckOccupied(t)
        BY <3>1, <4>1, <4>4, GetStep
      <4>5. CASE FreeCheckOccupied(t)
        BY <3>1, <4>1, <4>5, FreeCheckStep
      <4>6. CASE Bump(t)
        BY <3>1, <3>3, <4>1, <4>6, LostBumpStep DEF Moves
      <4>7. CASE Continue(t) /\ ~GetCheckOccupied(t) /\ ~FreeCheckOccupied(t) /\ ~Bump(t)
        BY <3>1, <3>3, <4>1, <4>7, QuietStep
      <4> QED
        BY <2>1, <4>2, <4>3, <4>4, <4>5, <4>6, <4>7 DEF Call
    <3> QED
      BY <3>2, <3>3
  <2>2. CASE Teardown \/ UNCHANGED vars
    BY <2>2, DiscardStep, TeardownStutters DEF PoolInv
  <2> QED
    BY <2>1, <2>2 DEF Next, Finished
<1> QED
  BY <1>1, InitImplements, PoolInvariance, Invariance, PTL
  DEF BoundedSpec, Spec, ImplementsPool, Pool!Spec
=============================================================================
