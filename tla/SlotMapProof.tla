---------------------------- MODULE SlotMapProof ----------------------------
(* Invariants of SlotMap, proved for every number of threads, slots and calls. *)
EXTENDS SlotMap, TLAPS

USE DEF map, list, cells, locals, history

\* A register is an index where the code uses it as one.
RegistersInRange ==
  \A t \in Threads :
    IF pc[t] \in {"popNext", "popSwing"} THEN observed[t].index \in Slots
    ELSE pc[t] # "idle" => handle[t].index \in Slots
\* The loop of ~SlotMap() starts at slot 0, and a destructor that it runs
\* belongs to a slot.
SweepInRange ==
  /\ teardown = "none" => position = 0
  /\ teardown = "destructor" => position < capacity
TypeInv == TypeOK /\ RegistersInRange /\ SweepInRange

LEMMA InitTypeInv == Init => TypeInv
BY CapacityAssumption, RequestedAssumption, InvalidIndexAssumption, WidthAssumption,
   MaxCallsAssumption
DEF Init, InitializeFreeList, TypeInv, TypeOK, RegistersInRange, SweepInRange, BoundedCapacity, Slots, NoHead, DefaultHandle, Labels, Outcomes,
    Origins, Indices, Heads, HandleSet

\* What the type sets contain.
LEMMA Types ==
  /\ Slots \subseteq Indices /\ InvalidIndex \in Indices /\ InvalidIndex \notin Slots
  /\ \A i \in Indices : i \in Slots \/ i = InvalidIndex
  /\ NoHead \in Heads /\ DefaultHandle \in HandleSet
  /\ \A h \in Heads : h.index \in Indices /\ h.aba \in 0 .. AbaMod - 1
  /\ \A i \in Indices, a \in 0 .. AbaMod - 1 : [index |-> i, aba |-> a] \in Heads
  /\ \A h \in HandleSet : h.index \in Indices /\ h.generation \in 0 .. GenMod - 1
  /\ \A i \in Indices, g \in 0 .. GenMod - 1 :
       [index |-> i, generation |-> g] \in HandleSet
  /\ {"idle", "popNext", "popSwing", "popClear", "construct", "readGeneration",
      "publish", "countUp", "getOccupied", "freeOccupied", "bump", "clearOccupied",
      "destroy", "countDown", "pushLoad", "pushLink", "pushSwing"} \subseteq Labels
  /\ {"pending", "ok", "threw", "exhausted", Rejected} \subseteq Outcomes
BY InvalidIndexAssumption, WidthAssumption
DEF Indices, Slots, NoHead, Heads, DefaultHandle, HandleSet, Labels, Outcomes, Rejected

\* The counters stay in their range when they advance.
LEMMA Counters ==
  /\ \A g \in 1 .. GenMod - 1 :
       g \in 0 .. GenMod - 1 /\ NextGeneration(g) \in 1 .. GenMod - 1
  /\ \A a \in 0 .. AbaMod - 1 : NextAba(a) \in 0 .. AbaMod - 1
  /\ 0 \in 0 .. GenMod - 1 /\ 0 \in 0 .. AbaMod - 1
BY WidthAssumption DEF NextGeneration, NextAba

\* A call that returns leaves its registers in range; one that starts, its
\* bookkeeping.
Registers ==
  /\ pc \in [Threads -> Labels] /\ outcome \in [Threads -> Outcomes]
  /\ handle \in [Threads -> HandleSet] /\ observed \in [Threads -> Heads]
  /\ link \in [Threads -> Indices]
  /\ RegistersInRange

LEMMA ReturnTypes ==
  ASSUME TypeInv, NEW t \in Threads, NEW r \in Outcomes, Return(t, r)
  PROVE  Registers'
BY Types DEF Registers, TypeInv, TypeOK, RegistersInRange, Return

LEMMA StartTypes ==
  ASSUME TypeOK, NEW t \in Threads, NEW op, NEW from \in Origins, Start(t, op, from)
  PROVE  calls' \in [Threads -> 0 .. MaxCalls] /\ origin' \in [Threads -> Origins]
<1>1. calls[t] \in 0 .. MaxCalls /\ calls[t] < MaxCalls
  BY DEF TypeOK, Start
<1>2. calls[t] + 1 \in 0 .. MaxCalls
  BY <1>1, MaxCallsAssumption
<1> QED
  BY <1>2 DEF TypeOK, Start

\* A step inside a call keeps every variable in its type.
LEMMA ContinueTypeInv ==
  ASSUME TypeInv, NEW t \in Threads, Continue(t) PROVE TypeInv'
<1> USE Types, Counters DEF TypeInv, TypeOK, RegistersInRange, SweepInRange, Goto, Return
<1>1. CASE PopReadNext(t)
  BY <1>1 DEF PopReadNext
<1>2. CASE PopSwing(t)
  BY <1>2 DEF PopSwing, SwingHead
<1>3. CASE PopRetry(t)
  <2>1. CASE head.index = InvalidIndex
    <3>1. Registers'
      BY <1>3, <2>1, ReturnTypes DEF PopRetry
    <3> QED
      BY <1>3, <3>1 DEF PopRetry, Registers
  <2>2. CASE head.index # InvalidIndex
    <3>1. /\ observed' = [observed EXCEPT ![t] = head] /\ head.index \in Slots
          /\ link' = [link EXCEPT ![t] = InvalidIndex]
          /\ pc' = [pc EXCEPT ![t] = "popNext"]
          /\ handle' = handle /\ outcome' = outcome
      BY <1>3, <2>2 DEF PopRetry
    <3>2. Registers'
      BY <3>1 DEF Registers
    <3> QED
      BY <1>3, <3>2 DEF PopRetry, Registers
  <2> QED
    BY <2>1, <2>2
<1>4. CASE PopClear(t)
  BY <1>4 DEF PopClear
<1>5. CASE Construct(t)
  BY <1>5 DEF Construct
<1>6. CASE ConstructThrows(t)
  BY <1>6 DEF ConstructThrows
<1>7. CASE ReadGeneration(t)
  BY <1>7 DEF ReadGeneration
<1>8. CASE Publish(t)
  BY <1>8 DEF Publish
<1>9. CASE CountUp(t)
  BY <1>9 DEF CountUp
<1>10. CASE GetCheckOccupied(t)
  BY <1>10 DEF GetCheckOccupied
<1>11. CASE FreeCheckOccupied(t)
  <2>1. CASE occupied[handle[t].index]
    BY <1>11, <2>1 DEF FreeCheckOccupied
  <2>2. CASE ~occupied[handle[t].index]
    <3>1. Registers'
      BY <1>11, <2>2, ReturnTypes DEF FreeCheckOccupied
    <3> QED
      BY <1>11, <3>1 DEF FreeCheckOccupied, Registers
  <2> QED
    BY <2>1, <2>2
<1>12. CASE Bump(t)
  <2>1. CASE BumpSucceeds(t)
    <3>1. generation' \in [Slots -> 1 .. GenMod - 1]
      BY <1>12, <2>1 DEF Bump
    <3>2. pc' = [pc EXCEPT ![t] = "clearOccupied"] /\ retired' = retired \union {handle[t]}
          /\ UNCHANGED <<locals, outcome>> /\ pc[t] = "bump"
      BY <1>12, <2>1 DEF Bump
    <3> QED
      BY <1>12, <3>1, <3>2 DEF Bump
  <2>2. CASE ~BumpSucceeds(t)
    <3>1. Registers' /\ UNCHANGED <<generation, retired>>
      BY <1>12, <2>2, ReturnTypes DEF Bump
    <3> QED
      BY <1>12, <3>1 DEF Bump, Registers
  <2> QED
    BY <2>1, <2>2
<1>13. CASE ClearOccupied(t)
  BY <1>13 DEF ClearOccupied
<1>14. CASE Destroy(t)
  <2>1. outcome' \in [Threads -> Outcomes]
    BY <1>14 DEF Destroy
  <2>2. payload' \in [Slots -> BOOLEAN] /\ pc' = [pc EXCEPT ![t] = "countDown"]
    BY <1>14 DEF Destroy
  <2>3. RegistersInRange' /\ SweepInRange'
    BY <1>14, <2>2 DEF Destroy
  <2>4. UNCHANGED <<map, list, generation, occupied, liveCount, locals, calls, history>>
    BY <1>14 DEF Destroy
  <2>5. TypeOK'
    BY <2>1, <2>2, <2>4
  <2> QED
    BY <2>3, <2>5
<1>15. CASE CountDown(t)
  BY <1>15 DEF CountDown
<1>16. CASE PushLoad(t)
  BY <1>16 DEF PushLoad
<1>17. CASE PushLink(t)
  BY <1>17 DEF PushLink
<1>18. CASE PushSwing(t)
  BY <1>18 DEF PushSwing, SwingHead
<1>19. CASE PushRetry(t)
  BY <1>19 DEF PushRetry
<1> QED
  BY <1>1, <1>2, <1>3, <1>4, <1>5, <1>6, <1>7, <1>8, <1>9, <1>10, <1>11, <1>12, <1>13, <1>14, <1>15, <1>16, <1>17, <1>18, <1>19 DEF Continue

\* So does the first step of a call.
LEMMA CallTypeInv ==
  ASSUME TypeInv, NEW t \in Threads, Call(t) PROVE TypeInv'
<1> USE Types, Counters DEF TypeInv, TypeOK, RegistersInRange, SweepInRange, Goto
<1>1. CASE AllocateCall(t)
  <2>1. calls' \in [Threads -> 0 .. MaxCalls] /\ origin' \in [Threads -> Origins]
    BY <1>1, StartTypes DEF AllocateCall, Origins
  <2>2. Registers'
    <3>1. CASE head.index = InvalidIndex
      BY <1>1, <3>1, ReturnTypes DEF AllocateCall
    <3>2. CASE head.index # InvalidIndex
      <4>1. /\ observed' = [observed EXCEPT ![t] = head] /\ head.index \in Slots
            /\ outcome' = [outcome EXCEPT ![t] = "pending"]
            /\ pc' = [pc EXCEPT ![t] = "popNext"]
            /\ handle' = handle /\ link' = link
        BY <1>1, <3>2 DEF AllocateCall
      <4> QED
        BY <4>1 DEF Registers
    <3> QED
      BY <3>1, <3>2
  <2> QED
    BY <1>1, <2>1, <2>2 DEF AllocateCall, Registers
<1>2. ASSUME NEW op, NEW label \in {"getOccupied", "freeOccupied"},
             CheckedCall(t, op, label)
      PROVE TypeInv'
  <2>1. PICK a \in Arguments :
          /\ Start(t, op, a.origin)
          /\ IF Matches(a.handle)
             THEN /\ handle' = [handle EXCEPT ![t] = a.handle]
                  /\ outcome' = [outcome EXCEPT ![t] = "pending"]
                  /\ Goto(t, label)
                  /\ UNCHANGED <<observed, link>>
             ELSE Return(t, Rejected)
          /\ UNCHANGED <<map, list, cells, issued, retired>>
    BY <1>2 DEF CheckedCall
  <2>2. a.handle \in HandleSet /\ a.origin \in Origins
    BY ForeignAssumption DEF Arguments, LiveHandles, SweptHandles, Origins
  <2>3. Matches(a.handle) => a.handle.index \in Slots
    BY <2>2 DEF Matches, InRange, IsValid
  <2>4. calls' \in [Threads -> 0 .. MaxCalls] /\ origin' \in [Threads -> Origins]
    BY <2>1, <2>2, StartTypes
  <2>5. Registers'
    <3>1. CASE Matches(a.handle)
      <4>1. /\ handle' = [handle EXCEPT ![t] = a.handle] /\ a.handle.index \in Slots
            /\ outcome' = [outcome EXCEPT ![t] = "pending"]
            /\ pc' = [pc EXCEPT ![t] = label]
            /\ observed' = observed /\ link' = link
        BY <2>1, <2>3, <3>1
      <4> QED
        BY <2>2, <4>1 DEF Registers
    <3>2. CASE ~Matches(a.handle)
      BY <2>1, <3>2, ReturnTypes
    <3> QED
      BY <3>1, <3>2
  <2> QED
    BY <2>1, <2>4, <2>5 DEF Registers
<1> QED
  BY <1>1, <1>2 DEF Call, GetCall, DeallocateCall

\* Destruction keeps every variable in its type, and so does every step.
LEMMA TeardownTypeInv ==
  ASSUME TypeInv, Teardown PROVE TypeInv'
<1> USE DEF TypeInv, TypeOK, RegistersInRange, SweepInRange
<1>0. capacity \in Nat /\ Capacity \in Nat /\ position \in Nat
  BY CapacityAssumption
<1>1. CASE TeardownBegins
  <2>1. 0 \in 0 .. Capacity
    BY CapacityAssumption
  <2> QED
    BY <1>1, <2>1 DEF TeardownBegins
<1>2. CASE SweepSlot
  BY <1>2 DEF SweepSlot
<1>3. CASE SkipSlot
  <2>1. position + 1 \in 0 .. Capacity
    BY <1>0, <1>3 DEF SkipSlot
  <2> QED
    BY <1>3, <2>1 DEF SkipSlot
<1>4. CASE SweepReturns
  <2>1. position + 1 \in 0 .. Capacity
    BY <1>0, <1>4 DEF SweepReturns
  <2> QED
    BY <1>4, <2>1 DEF SweepReturns
<1>5. CASE SweepThrows
  BY <1>5 DEF SweepThrows
<1>6. CASE TeardownEnds
  <2>1. head' \in Heads /\ liveCount' \in Int /\ alive' \in BOOLEAN
    <3>1. head' \in Heads
      BY <1>6, Types, Zenon DEF TeardownEnds
    <3>2. liveCount' \in Int
      BY <1>6 DEF TeardownEnds
    <3>3. alive' \in BOOLEAN
      BY <1>6 DEF TeardownEnds
    <3> QED
      BY <3>1, <3>2, <3>3
  <2>2. RegistersInRange' /\ SweepInRange'
    BY <1>6 DEF TeardownEnds
  <2>3. UNCHANGED <<capacity, teardown, position, nextFree, generation, occupied,
                    payload, pc, locals, outcome, calls, history>>
    BY <1>6 DEF TeardownEnds
  <2>4. TypeOK'
    BY <2>1, <2>3
  <2> QED
    BY <2>2, <2>4
<1> QED
  BY <1>1, <1>2, <1>3, <1>4, <1>5, <1>6 DEF Teardown

LEMMA NextTypeInv == TypeInv /\ [Next]_vars => TypeInv'
<1> SUFFICES ASSUME TypeInv, [Next]_vars PROVE TypeInv'
  OBVIOUS
<1>1. CASE UNCHANGED vars
  BY <1>1 DEF vars, TypeInv, TypeOK, RegistersInRange, SweepInRange
<1> QED
  BY <1>1, ContinueTypeInv, CallTypeInv, TeardownTypeInv DEF Next, Finished

\* All variables keep the ranges of their C++ types.
THEOREM TypeCorrect == Spec => []TypeOK
<1>1. TypeInv => TypeOK
  BY DEF TypeInv
<1> QED
  BY <1>1, InitTypeInv, NextTypeInv, PTL DEF Spec
=============================================================================
