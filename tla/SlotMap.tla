------------------------------ MODULE SlotMap ------------------------------
(***************************************************************************)
(* memsafe::SlotMap<T, Capacity> (include/memsafe/handle.hpp): a bounded    *)
(* generational allocator.  Free slot indices sit on a Treiber stack whose  *)
(* head is one packed atomic word (index, ABA counter); every slot carries  *)
(* its own atomic generation, an occupied flag and raw storage for one T.   *)
(*                                                                          *)
(* Every access to a shared atomic is one action, in the order of the code, *)
(* so calls of different threads interleave between any two accesses.  A    *)
(* constructor or destructor of T that calls back into the map is covered   *)
(* by letting another thread run the nested call at that point.  ~SlotMap() *)
(* destroys one payload per step, and each of those destructors may make    *)
(* the calls in TeardownCalls on the map that is being destroyed.           *)
(***************************************************************************)
EXTENDS Integers, FiniteSets

CONSTANTS
  Threads,             \* threads sharing one map
  Capacity,            \* template argument: number of slot records
  Requested,           \* capacities a program may ask the constructor for
  InvalidIndex,        \* Handle<T>::invalid_index, the end of the free list
  GenMod,              \* 2^32: width of the generation counter
  AbaMod,              \* 2^32: width of the ABA counter in the packed head
  MaxCalls,            \* bound: member calls one thread starts
  ForeignHandles,      \* handles that some other map issued
  ReleaseChecks,       \* MEMSAFE_RELEASE_CHECKS # 0
  ConstructorMayThrow, \* T's constructor can throw
  DestructorMayThrow,  \* T's destructor can throw
  TeardownCalls,       \* calls T's destructor makes when ~SlotMap() runs it
  SpuriousFailure      \* compare_exchange_weak can fail spuriously

ASSUME CapacityAssumption == Capacity \in Nat \ {0}
ASSUME RequestedAssumption == Requested \subseteq Nat
ASSUME InvalidIndexAssumption == InvalidIndex \notin 0 .. Capacity - 1
ASSUME WidthAssumption == /\ GenMod \in Nat /\ GenMod > 2
                          /\ AbaMod \in Nat /\ AbaMod > 1
ASSUME MaxCallsAssumption == MaxCalls \in Nat
ASSUME ModeAssumption ==
  {ReleaseChecks, ConstructorMayThrow, DestructorMayThrow, SpuriousFailure}
    \subseteq BOOLEAN
ASSUME TeardownCallsAssumption ==
  TeardownCalls \subseteq {"allocate", "get", "deallocate"}

VARIABLES
  capacity,    \* capacity_: active slots
  head,        \* free_head_, unpacked
  nextFree,    \* records_[i].next_free
  generation,  \* records_[i].slot.generation_
  occupied,    \* records_[i].occupied
  payload,     \* does a T live in records_[i].slot.storage_?
  liveCount,   \* live_count_
  alive,       \* the map object has not been destroyed
  teardown,    \* where ~SlotMap() is: in its loop, or in a destructor of T
  position,    \* i, the loop index of destroy_live_slots()
  pc,          \* what each thread does next
  handle,      \* the handle a thread works on: its argument, or being minted
  observed,    \* head word a pop or push last loaded
  link,        \* next_free a pop loaded
  outcome,     \* result of a thread's current or last call
  calls,       \* member calls started
  issued,      \* history: handles allocate() returned
  retired,     \* history: handles deallocate() retired
  origin       \* history: where the argument of a call came from

map     == <<capacity, alive, teardown, position>>
list    == <<head, nextFree>>
cells   == <<generation, occupied, payload, liveCount>>
locals  == <<handle, observed, link>>
history == <<issued, retired, origin>>
vars    == <<map, list, cells, pc, locals, outcome, calls, history>>

-----------------------------------------------------------------------------
Slots  == 0 .. Capacity - 1
Active == 0 .. capacity - 1
NoHead == [index |-> InvalidIndex, aba |-> 0]

Labels == {"idle", "popNext", "popSwing", "popClear", "construct",
           "readGeneration", "publish", "countUp", "getOccupied",
           "freeOccupied", "bump", "clearOccupied", "destroy", "countDown",
           "pushLoad", "pushLink", "pushSwing"}
Outcomes == {"none", "pending", "ok", "threw", "exhausted", "stale", "silent"}
Origins == {"none", "live", "swept", "retired", "default", "foreign"}
Indices == Slots \union {InvalidIndex}
Heads == [index : Indices, aba : 0 .. AbaMod - 1]
HandleSet == [index : Indices, generation : 0 .. GenMod - 1]

ASSUME ForeignAssumption == ForeignHandles \subseteq HandleSet

\* Handle{}: both fields hold their sentinel.
DefaultHandle == [index |-> InvalidIndex, generation |-> 0]
IsValid(h) == h.index # InvalidIndex /\ h.generation # 0

\* The handles whose payload nobody has ended, and those whose payload
\* ~SlotMap() has ended.
LiveHandles  == {h \in issued \ retired : occupied[h.index]}
SweptHandles == {h \in issued \ retired : ~occupied[h.index]}

\* What a caller can pass: a copy of an issued handle, whatever has become of
\* its payload, the default handle, or a handle of another map.
Arguments ==
  {[handle |-> h, origin |-> "live"] : h \in LiveHandles}
    \union {[handle |-> h, origin |-> "swept"] : h \in SweptHandles}
    \union {[handle |-> h, origin |-> "retired"] : h \in retired}
    \union {[handle |-> DefaultHandle, origin |-> "default"]}
    \union {[handle |-> h, origin |-> "foreign"] : h \in ForeignHandles}

Wrapping(g) == (g + 1) % GenMod
SameGeneration(g) == g
NextGeneration(g) == IF (g + 1) % GenMod = 0 THEN 1 ELSE (g + 1) % GenMod

SameAba(a) == a
NextAba(a) == (a + 1) % AbaMod

\* report_use_after_free() compiles to nothing without release checks.
Rejected == IF ReleaseChecks THEN "stale" ELSE "silent"

\* is_supported_requested_capacity(): anything larger is refused, and a
\* violation handler that returns leaves the map with no active slot.
BoundedCapacity(requested) == IF requested <= Capacity THEN requested ELSE 0

BlindSwing(t, index) ==
  head' = [index |-> index, aba |-> NextAba(observed[t].aba)]

\* compare_exchange_free_head() fails when the head is another word, and
\* compare_exchange_weak may fail without a reason.
CasFails(t) == head # observed[t] \/ SpuriousFailure
SwingHead(t, index) ==
  /\ head = observed[t]
  /\ head' = [index |-> index, aba |-> NextAba(observed[t].aba)]

Goto(t, label) == pc' = [pc EXCEPT ![t] = label]
Return(t, result) ==
  /\ pc' = [pc EXCEPT ![t] = "idle"]
  /\ outcome' = [outcome EXCEPT ![t] = result]
  /\ handle' = [handle EXCEPT ![t] = DefaultHandle]
  /\ observed' = [observed EXCEPT ![t] = NoHead]
  /\ link' = [link EXCEPT ![t] = InvalidIndex]

\* A member function may be called until ~SlotMap() begins.  From then on only
\* a payload's destructor calls, or the constructor or destructor that a call
\* of its own is running.
MayCall(t, op) ==
  \/ teardown = "none"
  \/ /\ teardown = "destructor" /\ op \in TeardownCalls
     /\ \A u \in Threads : pc[u] \in {"idle", "construct", "destroy"}

Start(t, op, from) ==
  /\ alive /\ pc[t] = "idle" /\ calls[t] < MaxCalls
  /\ MayCall(t, op)
  /\ calls' = [calls EXCEPT ![t] = @ + 1]
  /\ origin' = [origin EXCEPT ![t] = from]

\* initialize_free_list(): the active slots in increasing order.
InitializeFreeList ==
  /\ head = [index |-> IF capacity = 0 THEN InvalidIndex ELSE 0, aba |-> 0]
  /\ nextFree = [i \in Slots |->
                   IF i + 1 < capacity THEN i + 1 ELSE InvalidIndex]

Init ==
  /\ capacity \in {BoundedCapacity(requested) : requested \in Requested}
  /\ InitializeFreeList
  /\ generation = [i \in Slots |-> 1]
  /\ occupied = [i \in Slots |-> FALSE]
  /\ payload = [i \in Slots |-> FALSE]
  /\ liveCount = 0
  /\ alive = TRUE /\ teardown = "none" /\ position = 0
  /\ pc = [t \in Threads |-> "idle"]
  /\ handle = [t \in Threads |-> DefaultHandle]
  /\ observed = [t \in Threads |-> NoHead]
  /\ link = [t \in Threads |-> InvalidIndex]
  /\ outcome = [t \in Threads |-> "none"]
  /\ calls = [t \in Threads |-> 0]
  /\ origin = [t \in Threads |-> "none"]
  /\ issued = {} /\ retired = {}

-----------------------------------------------------------------------------
(* allocate() *)

\* pop_free_index() loads the head; an empty list is capacity_exhausted.
AllocateCall(t) ==
  /\ Start(t, "allocate", "none")
  /\ IF head.index = InvalidIndex
     THEN Return(t, "exhausted")
     ELSE /\ observed' = [observed EXCEPT ![t] = head]
          /\ outcome' = [outcome EXCEPT ![t] = "pending"]
          /\ Goto(t, "popNext")
          /\ UNCHANGED <<handle, link>>
  /\ UNCHANGED <<map, list, cells, issued, retired>>

PopReadNext(t) ==
  /\ pc[t] = "popNext"
  /\ link' = [link EXCEPT ![t] = nextFree[observed[t].index]]
  /\ Goto(t, "popSwing")
  /\ UNCHANGED <<map, list, cells, handle, observed, outcome, calls, history>>

PopSwing(t) ==
  /\ pc[t] = "popSwing"
  /\ SwingHead(t, link[t])
  /\ handle' = [handle EXCEPT ![t] =
                  [index |-> observed[t].index, generation |-> 0]]
  /\ observed' = [observed EXCEPT ![t] = NoHead]
  /\ link' = [link EXCEPT ![t] = InvalidIndex]
  /\ Goto(t, "popClear")
  /\ UNCHANGED <<map, nextFree, cells, outcome, calls, history>>

PopRetryBlind(t) ==
  /\ pc[t] = "popSwing" /\ CasFails(t)
  /\ link' = [link EXCEPT ![t] = InvalidIndex]
  /\ Goto(t, "popNext")
  /\ UNCHANGED <<map, list, cells, handle, observed, outcome, calls, history>>

\* A failed CAS writes the current head into observed, and the loop looks at
\* it again.
PopRetry(t) ==
  /\ pc[t] = "popSwing" /\ CasFails(t)
  /\ IF head.index = InvalidIndex
     THEN Return(t, "exhausted")
     ELSE /\ observed' = [observed EXCEPT ![t] = head]
          /\ link' = [link EXCEPT ![t] = InvalidIndex]
          /\ Goto(t, "popNext")
          /\ UNCHANGED <<handle, outcome>>
  /\ UNCHANGED <<map, list, cells, calls, history>>

PopClear(t) ==
  /\ pc[t] = "popClear"
  /\ nextFree' = [nextFree EXCEPT ![handle[t].index] = InvalidIndex]
  /\ Goto(t, "construct")
  /\ UNCHANGED <<map, head, cells, locals, outcome, calls, history>>

Construct(t) ==
  /\ pc[t] = "construct"
  /\ payload' = [payload EXCEPT ![handle[t].index] = TRUE]
  /\ Goto(t, "readGeneration")
  /\ UNCHANGED <<map, list, generation, occupied, liveCount, locals, outcome,
                 calls, history>>

ConstructThrowsCounted(t) ==
  /\ pc[t] = "construct" /\ ConstructorMayThrow
  /\ outcome' = [outcome EXCEPT ![t] = "threw"]
  /\ Goto(t, "countDown")
  /\ UNCHANGED <<map, list, cells, locals, calls, history>>

\* The catch clause pushes the index back before the exception escapes.
ConstructThrows(t) ==
  /\ pc[t] = "construct" /\ ConstructorMayThrow
  /\ outcome' = [outcome EXCEPT ![t] = "threw"]
  /\ Goto(t, "pushLoad")
  /\ UNCHANGED <<map, list, cells, locals, calls, history>>

ReadGeneration(t) ==
  /\ pc[t] = "readGeneration"
  /\ handle' = [handle EXCEPT ![t] =
                  [index |-> @.index, generation |-> generation[@.index]]]
  /\ Goto(t, "publish")
  /\ UNCHANGED <<map, list, cells, observed, link, outcome, calls, history>>

Publish(t) ==
  /\ pc[t] = "publish"
  /\ occupied' = [occupied EXCEPT ![handle[t].index] = TRUE]
  /\ Goto(t, "countUp")
  /\ UNCHANGED <<map, list, generation, payload, liveCount, locals, outcome,
                 calls, history>>

CountUp(t) ==
  /\ pc[t] = "countUp"
  /\ liveCount' = liveCount + 1
  /\ issued' = issued \union {handle[t]}
  /\ Return(t, "ok")
  /\ UNCHANGED <<map, list, generation, occupied, payload, calls, retired,
                 origin>>

-----------------------------------------------------------------------------
(* get() and deallocate(): checked_index() *)

InRange(h) == IsValid(h) /\ h.index < capacity
IgnoresGeneration(h) == InRange(h)
Matches(h) == InRange(h) /\ generation[h.index] = h.generation

\* The generation is the first shared word checked_index() reads.
CheckedCall(t, op, label) ==
  \E a \in Arguments :
    /\ Start(t, op, a.origin)
    /\ IF Matches(a.handle)
       THEN /\ handle' = [handle EXCEPT ![t] = a.handle]
            /\ outcome' = [outcome EXCEPT ![t] = "pending"]
            /\ Goto(t, label)
            /\ UNCHANGED <<observed, link>>
       ELSE Return(t, Rejected)
    /\ UNCHANGED <<map, list, cells, issued, retired>>

GetCall(t) == CheckedCall(t, "get", "getOccupied")
DeallocateCall(t) == CheckedCall(t, "deallocate", "freeOccupied")

GetCheckOccupied(t) ==
  /\ pc[t] = "getOccupied"
  /\ Return(t, IF occupied[handle[t].index] THEN "ok" ELSE Rejected)
  /\ UNCHANGED <<map, list, cells, calls, history>>

FreeCheckOccupied(t) ==
  /\ pc[t] = "freeOccupied"
  /\ IF occupied[handle[t].index]
     THEN Goto(t, "bump") /\ UNCHANGED <<locals, outcome>>
     ELSE Return(t, Rejected)
  /\ UNCHANGED <<map, list, cells, calls, history>>

\* try_bump_generation_from(): one strong CAS decides between concurrent
\* deallocations of the same handle.
AlwaysBumps(t) == TRUE
BumpSucceeds(t) == generation[handle[t].index] = handle[t].generation

Bump(t) ==
  LET h == handle[t] IN
  /\ pc[t] = "bump"
  /\ IF BumpSucceeds(t)
     THEN /\ generation' = [generation EXCEPT ![h.index] = NextGeneration(@)]
          /\ retired' = retired \union {h}
          /\ Goto(t, "clearOccupied")
          /\ UNCHANGED <<locals, outcome>>
     ELSE Return(t, Rejected) /\ UNCHANGED <<generation, retired>>
  /\ UNCHANGED <<map, list, occupied, payload, liveCount, calls, issued, origin>>

KeepOccupied(t) ==
  /\ pc[t] = "clearOccupied"
  /\ Goto(t, "destroy")
  /\ UNCHANGED <<map, list, cells, locals, outcome, calls, history>>

ClearOccupied(t) ==
  /\ pc[t] = "clearOccupied"
  /\ occupied' = [occupied EXCEPT ![handle[t].index] = FALSE]
  /\ Goto(t, "destroy")
  /\ UNCHANGED <<map, list, generation, payload, liveCount, locals, outcome,
                 calls, history>>

\* The lifetime of the T ends when its destructor starts; an exception from
\* it still finishes the deallocation and is rethrown afterwards.
Destroy(t) ==
  /\ pc[t] = "destroy"
  /\ payload' = [payload EXCEPT ![handle[t].index] = FALSE]
  /\ outcome' \in {outcome}
       \union (IF DestructorMayThrow THEN {[outcome EXCEPT ![t] = "threw"]} ELSE {})
  /\ Goto(t, "countDown")
  /\ UNCHANGED <<map, list, generation, occupied, liveCount, locals, calls,
                 history>>

CountDown(t) ==
  /\ pc[t] = "countDown"
  /\ liveCount' = liveCount - 1
  /\ Goto(t, "pushLoad")
  /\ UNCHANGED <<map, list, generation, occupied, payload, locals, outcome,
                 calls, history>>

-----------------------------------------------------------------------------
(* push_free_index() *)

PushLoad(t) ==
  /\ pc[t] = "pushLoad"
  /\ observed' = [observed EXCEPT ![t] = head]
  /\ Goto(t, "pushLink")
  /\ UNCHANGED <<map, list, cells, handle, link, outcome, calls, history>>

PushLink(t) ==
  /\ pc[t] = "pushLink"
  /\ nextFree' = [nextFree EXCEPT ![handle[t].index] = observed[t].index]
  /\ Goto(t, "pushSwing")
  /\ UNCHANGED <<map, head, cells, locals, outcome, calls, history>>

PushSwing(t) ==
  /\ pc[t] = "pushSwing"
  /\ SwingHead(t, handle[t].index)
  /\ Return(t, IF outcome[t] = "threw" THEN "threw" ELSE "ok")
  /\ UNCHANGED <<map, nextFree, cells, calls, history>>

PushRetryUnlinked(t) ==
  /\ pc[t] = "pushSwing" /\ CasFails(t)
  /\ observed' = [observed EXCEPT ![t] = head]
  /\ UNCHANGED <<map, list, cells, pc, handle, link, outcome, calls, history>>

PushRetry(t) ==
  /\ pc[t] = "pushSwing" /\ CasFails(t)
  /\ observed' = [observed EXCEPT ![t] = head]
  /\ Goto(t, "pushLink")
  /\ UNCHANGED <<map, list, cells, handle, link, outcome, calls, history>>

-----------------------------------------------------------------------------
(* ~SlotMap() and destroy_live_slots() *)

\* No call is under way: none of another thread, by contract, and none that a
\* payload's destructor made.
AllIdle == \A t \in Threads : pc[t] = "idle"

TeardownBegins ==
  /\ alive /\ teardown = "none" /\ AllIdle
  /\ teardown' = "loop" /\ position' = 0
  /\ UNCHANGED <<capacity, alive, list, cells, pc, locals, outcome, calls,
                 history>>

\* Marks the slot unoccupied and runs the destructor of its payload.
SweepSlot ==
  /\ alive /\ teardown = "loop" /\ position < capacity
  /\ occupied[position]
  /\ occupied' = [occupied EXCEPT ![position] = FALSE]
  /\ payload' = [payload EXCEPT ![position] = FALSE]
  /\ teardown' = "destructor"
  /\ UNCHANGED <<capacity, alive, position, list, generation, liveCount, pc,
                 locals, outcome, calls, history>>

SkipSlot ==
  /\ alive /\ teardown = "loop" /\ position < capacity
  /\ ~occupied[position]
  /\ position' = position + 1
  /\ UNCHANGED <<capacity, alive, teardown, list, cells, pc, locals, outcome,
                 calls, history>>

\* The destructor returns, its own calls on the map over.
SweepReturns ==
  /\ alive /\ teardown = "destructor" /\ AllIdle
  /\ teardown' = "loop" /\ position' = position + 1
  /\ UNCHANGED <<capacity, alive, list, cells, pc, locals, outcome, calls,
                 history>>

\* A destructor of T that throws leaves the loop.
SweepThrows ==
  /\ alive /\ teardown = "destructor" /\ AllIdle /\ DestructorMayThrow
  /\ alive' = FALSE
  /\ UNCHANGED <<capacity, teardown, position, list, cells, pc, locals,
                 outcome, calls, history>>

TeardownEndsShort ==
  /\ alive /\ teardown = "loop" /\ position + 1 >= capacity
  /\ alive' = FALSE /\ liveCount' = 0 /\ head' = NoHead
  /\ UNCHANGED <<capacity, teardown, position, nextFree, generation, occupied,
                 payload, pc, locals, outcome, calls, history>>

TeardownEnds ==
  /\ alive /\ teardown = "loop" /\ position = capacity
  /\ alive' = FALSE /\ liveCount' = 0 /\ head' = NoHead
  /\ UNCHANGED <<capacity, teardown, position, nextFree, generation, occupied,
                 payload, pc, locals, outcome, calls, history>>

Teardown ==
  \/ TeardownBegins \/ SweepSlot \/ SkipSlot \/ SweepReturns \/ SweepThrows
  \/ TeardownEnds

Finished == ~alive /\ UNCHANGED vars

-----------------------------------------------------------------------------
\* The steps a thread takes once its call has begun, except failed CASes.
Continue(t) ==
  \/ PopReadNext(t) \/ PopSwing(t) \/ PopClear(t)
  \/ Construct(t) \/ ConstructThrows(t) \/ ReadGeneration(t) \/ Publish(t)
  \/ CountUp(t) \/ GetCheckOccupied(t) \/ FreeCheckOccupied(t) \/ Bump(t)
  \/ ClearOccupied(t) \/ Destroy(t) \/ CountDown(t)
  \/ PushLoad(t) \/ PushLink(t) \/ PushSwing(t)
  \/ PopRetry(t) \/ PushRetry(t)

Call(t) == AllocateCall(t) \/ GetCall(t) \/ DeallocateCall(t)

Next ==
  \/ \E t \in Threads : Call(t) \/ Continue(t)
  \/ Teardown \/ Finished

Spec == Init /\ [][Next]_vars

\* A thread inside a call keeps running, and a weak CAS that is retried with
\* the right expected word succeeds in the end.
Fairness ==
  \A t \in Threads :
    WF_vars(Continue(t)) /\ SF_vars(PopSwing(t)) /\ SF_vars(PushSwing(t))
FairSpec == Spec /\ Fairness

-----------------------------------------------------------------------------
(* Properties *)

\* Every field stays in the range of its C++ type, and a thread's registers
\* in the range of what it loaded into them.
TypeOK ==
  /\ capacity \in 0 .. Capacity
  /\ head \in Heads
  /\ nextFree \in [Slots -> Indices]
  /\ generation \in [Slots -> 1 .. GenMod - 1]
  /\ occupied \in [Slots -> BOOLEAN]
  /\ payload \in [Slots -> BOOLEAN]
  /\ liveCount \in Int
  /\ alive \in BOOLEAN
  /\ teardown \in {"none", "loop", "destructor"} /\ position \in 0 .. Capacity
  /\ pc \in [Threads -> Labels]
  /\ handle \in [Threads -> HandleSet]
  /\ observed \in [Threads -> Heads]
  /\ link \in [Threads -> Indices]
  /\ outcome \in [Threads -> Outcomes]
  /\ calls \in [Threads -> 0 .. MaxCalls]
  /\ origin \in [Threads -> Origins]
  /\ issued \subseteq HandleSet /\ retired \subseteq HandleSet

\* Labels at which a thread owns the slot its handle names: between a
\* successful pop and the return of allocate(), and between a successful
\* bump and the push that gives the slot back.
Allocating == {"popClear", "construct", "readGeneration", "publish", "countUp"}
Retiring == {"clearOccupied", "destroy", "countDown"}
Pushing == {"pushLoad", "pushLink", "pushSwing"}
Working == Allocating \union Retiring \union Pushing
Holds(t, i) == pc[t] \in Working /\ handle[t].index = i

\* A handle of slot i is out, and deallocate() has not accepted it: the slot
\* is off the free list, its payload alive or ended by ~SlotMap().
Live(i) == [index |-> i, generation |-> generation[i]] \in issued \ retired
Free(i) == ~Live(i) /\ \A t \in Threads : ~Holds(t, i)

\* A slot handed to one thread by the free list or by a retired handle
\* belongs to no other thread, and no live handle names it: a slot never
\* holds two payloads (allocate(), deallocate()).
ExclusiveOwnership ==
  alive => \A t \in Threads, i \in Slots :
             Holds(t, i) => /\ i < capacity /\ ~Live(i)
                            /\ \A u \in Threads \ {t} : ~Holds(u, i)

\* s lists the slots from the head of the free list to its end.
IsFreeList(s) ==
  /\ head.index = IF 1 \in DOMAIN s THEN s[1] ELSE InvalidIndex
  /\ \A k \in DOMAIN s :
       nextFree[s[k]] = IF k + 1 \in DOMAIN s THEN s[k + 1] ELSE InvalidIndex
FreeStacks ==
  UNION {{s \in [1 .. n -> Active] :
            \A j, k \in 1 .. n : s[j] = s[k] => j = k} : n \in 0 .. capacity}

\* The free list holds every slot that is neither live nor owned by a call,
\* each exactly once, whatever pops and pushes are half done: no slot leaks,
\* and none can be handed out twice (pop_free_index(), push_free_index()).
FreeListIntact ==
  alive => \E s \in FreeStacks :
             /\ IsFreeList(s)
             /\ {s[k] : k \in DOMAIN s} = {i \in Active : Free(i)}

\* destroy_live_slots() has looked at slot i.
Visited(i) == i < position \/ (i = position /\ teardown = "destructor")

\* A live handle names a constructed, occupied payload until ~SlotMap() ends
\* it; a constructor never runs over a payload, a destructor never without
\* one, not even when ~SlotMap() has been there, and a slot that goes back to
\* the free list holds none (Slot::construct(), Slot::destroy()).
PayloadLifetimes ==
  alive => /\ \A i \in Active :
                Live(i) => payload[i] = occupied[i] /\ (occupied[i] \/ Visited(i))
           /\ \A i \in Active : Free(i) => ~payload[i] /\ ~occupied[i]
           /\ \A t \in Threads :
                /\ pc[t] = "destroy" => payload[handle[t].index]
                /\ pc[t] \in {"construct"} \union Pushing =>
                     ~payload[handle[t].index] /\ ~occupied[handle[t].index]

\* size() counts the handles that are out, those ~SlotMap() has swept
\* included, and the retired payloads whose destruction has not been accounted
\* for; so it never wraps below zero and never exceeds capacity(), even while
\* calls overlap.
LiveCountExact ==
  alive => liveCount = Cardinality({i \in Active : Live(i)})
                       + Cardinality({t \in Threads : pc[t] \in Retiring})

\* A handle whose payload deallocate() or ~SlotMap() ended before a call began
\* is refused by that call, whatever reuse of the slot runs meanwhile
\* (checked_index()).
Accepted(t) ==
  \/ pc[t] \in Retiring \union Pushing
  \/ pc[t] = "idle" /\ outcome[t] \in {"ok", "threw"}
StaleHandleRejected ==
  \A t \in Threads : origin[t] \in {"retired", "swept"} => ~Accepted(t)

\* "Passing a stale, default, foreign, or already deallocated handle is a
\* use-after-free violation when checks are enabled" (deallocate()).
ForeignHandleRejected ==
  \A t \in Threads :
    origin[t] = "foreign" => pc[t] \notin Retiring \union Pushing

\* No two calls of deallocate() both retire one handle
\* (try_bump_generation_from()).
RetiredOnce ==
  [][\A t \in Threads :
       pc[t] = "bump" /\ pc'[t] = "clearOccupied" => handle[t] \notin retired]_vars

\* allocate() never returns a handle it has returned before, so an old copy
\* never comes to name a new payload (finish_deallocation()).
HandlesUnique ==
  [][\A t \in Threads :
       pc[t] = "countUp" /\ pc'[t] = "idle" => handle[t] \notin issued]_vars

\* "All live payload lifetimes owned by the map have ended" (~SlotMap()).
TeardownEndsLifetimes == ~alive => \A i \in Slots : ~payload[i]

\* Every call returns: no interleaving of CAS loops keeps a thread inside one.
CallsReturn == \A t \in Threads : pc[t] # "idle" ~> pc[t] = "idle"
=============================================================================
