-------------------------------- MODULE Arc --------------------------------
(***************************************************************************)
(* memsafe::Arc<T> and its control block arc_ctrl<T> (include/memsafe/      *)
(* sync.hpp): shared ownership with one atomic strong count per block.      *)
(* A payload may itself contain one Arc (a list), so the last               *)
(* release of one block runs a destructor that releases another.  An Arc    *)
(* object that lives in a payload exists as long as its block does.         *)
(*                                                                          *)
(* Every access to a count is one action, and so is every later step of an  *)
(* operation, because a release between them may destroy objects the rest   *)
(* of the operation still uses.                                             *)
(***************************************************************************)
EXTENDS Integers, FiniteSets, Sequences

CONSTANTS
  Threads,          \* threads that share blocks
  Locals,           \* Arc objects outside every payload
  Blocks,           \* control blocks with their payloads
  Members,          \* Arc objects inside payloads
  Home,             \* the block whose payload contains each member
  Null,             \* a null ctrl_ pointer
  Absent,           \* the Arc object does not exist
  MaxCount,         \* largest strong count, 2^64 - 1
  MaxCalls,         \* bound: operations one thread starts
  Responses,        \* what a reported violation does to its caller
  SpuriousFailure,  \* compare_exchange_weak can fail spuriously
  MovesOutOfTarget  \* programs move-assign from inside the target's payload

Arcs == Locals \union Members

ASSUME CountAssumption == MaxCount \in Nat \ {0} /\ MaxCalls \in Nat
ASSUME NamesAssumption ==
  /\ Locals \cap Members = {} /\ Null # Absent
  /\ {Null, Absent} \cap (Blocks \union Arcs) = {}
  /\ IsFiniteSet(Arcs) /\ IsFiniteSet(Threads)
ASSUME HomeAssumption ==
  /\ Home \in [Members -> Blocks]
  /\ \A m, n \in Members : Home[m] = Home[n] => m = n
ASSUME ModeAssumption ==
  /\ Responses \subseteq {"throw", "return"}
  /\ {SpuriousFailure, MovesOutOfTarget} \subseteq BOOLEAN

VARIABLES
  count,    \* strong_count_ of every block
  phase,    \* "fresh", "live", "dying" (in ~T) or "freed"
  ctrl,     \* ctrl_ of every Arc object
  use,      \* which Arc objects each thread's operation uses, and how
  work,     \* the steps each thread's operation still has to take, in order
  outcome,  \* result of a thread's last operation
  calls     \* operations each thread has started

vars == <<count, phase, ctrl, use, work, outcome, calls>>

-----------------------------------------------------------------------------
NoUse == [target |-> Null, source |-> Null, moves |-> FALSE, via |-> {}]
Uses == [target : Arcs \union {Null}, source : Arcs \union {Null},
         moves : BOOLEAN, via : SUBSET Locals]
Phases == {"fresh", "live", "dying", "freed"}
Outcomes == {"none", "ok", "exhausted", "null"}

\* The steps of operations: load a count to retain, swing it by CAS, release a
\* count, free a destroyed block, store a pointer, take the source's pointer,
\* use a payload.
Step(do, b, a, c) == [do |-> do, block |-> b, arc |-> a, observed |-> c]
RetainOf(b) == Step("retain", b, Null, 0)
SwingOf(b, c) == Step("swing", b, Null, c)
ReleaseOf(b) == Step("release", b, Null, 0)
FreeOf(b) == Step("free", b, Null, 0)
StoreOf(a, b) == Step("store", b, a, 0)
TakeOf(a) == Step("take", Null, a, 0)
UseOf(b) == Step("use", b, Null, 0)
Doing(t, do) == work[t] # <<>> /\ Head(work[t]).do = do

Exists(a) == ctrl[a] # Absent
Busy(t) == work[t] # <<>>
Writes(t) ==
  ({use[t].target} \union (IF use[t].moves THEN {use[t].source} ELSE {})) \ {Null}
Reads(t) == use[t].via \union {use[t].source}

\* The program synchronises access to the Arc objects themselves: one that is
\* written is used by no other thread.
Writable(t, a) == \A u \in Threads \ {t} : a \notin Writes(u) \union Reads(u)
Readable(t, a) == \A u \in Threads \ {t} : a \notin Writes(u)

\* The ways to reach an existing Arc object: it is a local, or the payload it
\* is in is kept alive by a local that nobody writes meanwhile.
Routes(t, a) ==
  IF a \in Locals THEN {{}}
  ELSE {{v} : v \in {w \in Locals : ctrl[w] = Home[a] /\ Readable(t, w)}}

Start(t) == /\ ~Busy(t) /\ calls[t] < MaxCalls
            /\ calls' = [calls EXCEPT ![t] = @ + 1]
Report(t, result) == outcome' = [outcome EXCEPT ![t] = result]

\* The rest of an operation, which is over when nothing is left to do.
Continue(t, rest) ==
  /\ work' = [work EXCEPT ![t] = rest]
  /\ use' = IF rest = <<>> THEN [use EXCEPT ![t] = NoUse] ELSE use

Init ==
  /\ count = [b \in Blocks |-> 0]
  /\ phase = [b \in Blocks |-> "fresh"]
  /\ ctrl = [a \in Arcs |-> Absent]
  /\ use = [t \in Threads |-> NoUse]
  /\ work = [t \in Threads |-> <<>>]
  /\ outcome = [t \in Threads |-> "none"]
  /\ calls = [t \in Threads |-> 0]

-----------------------------------------------------------------------------
(* The operations of Arc *)

\* Arc(args...): a new block; an Arc in its payload starts empty.
Construct(t) ==
  \E a \in Locals, b \in Blocks :
    /\ Start(t) /\ ~Exists(a) /\ Writable(t, a) /\ phase[b] = "fresh"
    /\ count' = [count EXCEPT ![b] = 1]
    /\ phase' = [phase EXCEPT ![b] = "live"]
    /\ ctrl' = [c \in Arcs |->
                  IF c = a THEN b
                  ELSE IF c \in Members /\ Home[c] = b THEN Null ELSE ctrl[c]]
    /\ Report(t, "ok")
    /\ UNCHANGED <<use, work>>

\* What an assignment of b to Arc a has to do: release the old block, store.
Assign(a, b) ==
  (IF ctrl[a] \in Blocks THEN <<ReleaseOf(ctrl[a])>> ELSE <<>>)
    \o <<StoreOf(a, b)>>

\* An operation on target a that also reads or moves from s takes these steps.
Operate(t, a, s, moves, via, steps) ==
  /\ Start(t)
  /\ a \in Locals \/ Exists(a)
  /\ Writable(t, a) /\ (IF moves THEN Writable(t, s) ELSE Readable(t, s))
  /\ use' = [use EXCEPT ![t] =
               [target |-> a, source |-> s, moves |-> moves, via |-> via]]
  /\ work' = [work EXCEPT ![t] = steps]
  /\ Report(t, "ok")
  /\ UNCHANGED <<count, phase>>

CopyReleasesFirst(t) ==
  \E a, s \in Arcs : \E p \in Routes(t, a), q \in Routes(t, s) :
    /\ a # s /\ Exists(s)
    /\ Operate(t, a, s, FALSE, p \union q,
         IF ctrl[s] \in Blocks
         THEN Append(Assign(a, Null), RetainOf(ctrl[s])) ELSE Assign(a, Null))
    /\ UNCHANGED ctrl

\* Arc(const Arc&) when a does not exist, operator= when it does.
Copy(t) ==
  \E a, s \in Arcs : \E p \in Routes(t, a), q \in Routes(t, s) :
    /\ a # s /\ Exists(s)
    /\ Operate(t, a, s, FALSE, p \union q,
         IF ctrl[s] \in Blocks THEN <<RetainOf(ctrl[s])>> ELSE Assign(a, Null))
    /\ UNCHANGED ctrl

\* Arc(Arc&&) when a does not exist, operator= when it does.
Move(t) ==
  \E a, s \in Arcs : \E p \in Routes(t, a), q \in Routes(t, s) :
    /\ a # s /\ Exists(s) /\ (a \in q => MovesOutOfTarget)
    /\ Operate(t, a, s, TRUE, p \union q,
         (IF ctrl[a] \in Blocks THEN <<ReleaseOf(ctrl[a])>> ELSE <<>>)
           \o <<TakeOf(a)>>)
    /\ UNCHANGED ctrl

\* reset()
Reset(t) ==
  \E a \in Arcs : \E p \in Routes(t, a) :
    /\ ctrl[a] \in Blocks
    /\ Operate(t, a, Null, FALSE, p, <<ReleaseOf(ctrl[a])>>)
    /\ ctrl' = [ctrl EXCEPT ![a] = Null]

\* ~Arc(); an Arc in a payload is destroyed with it, in Release.
Drop(t) ==
  \E a \in Locals :
    /\ Exists(a)
    /\ Operate(t, a, Null, FALSE, {}, Assign(a, Absent))
    /\ UNCHANGED ctrl

\* operator* and operator->: the caller uses the payload before its next call;
\* an empty Arc is a null access.
Dereference(t) ==
  \E s \in Arcs : \E q \in Routes(t, s) :
    /\ Start(t) /\ Exists(s) /\ Readable(t, s)
    /\ IF ctrl[s] \in Blocks
       THEN /\ use' = [use EXCEPT ![t] =
                 [target |-> Null, source |-> s, moves |-> FALSE, via |-> q]]
            /\ work' = [work EXCEPT ![t] = <<UseOf(ctrl[s])>>]
            /\ Report(t, "ok")
       ELSE Report(t, "null") /\ UNCHANGED <<use, work>>
    /\ UNCHANGED <<count, phase, ctrl>>

UsePayload(t) ==
  /\ Doing(t, "use")
  /\ Continue(t, Tail(work[t]))
  /\ UNCHANGED <<count, phase, ctrl, outcome, calls>>

-----------------------------------------------------------------------------
(* retain_strong() *)

Exhausted(c) == c = MaxCount

\* The loop body of retain_strong() has loaded count[b].
Examine(t, b) ==
  IF Exhausted(count[b])
  THEN /\ Report(t, "exhausted")
       /\ \/ "throw" \in Responses /\ Continue(t, <<>>)
          \/ "return" \in Responses /\ Continue(t, Assign(use[t].target, Null))
  ELSE Continue(t, <<SwingOf(b, count[b])>>) /\ UNCHANGED outcome

RetainLoad(t) ==
  /\ Doing(t, "retain")
  /\ Examine(t, Head(work[t]).block)
  /\ UNCHANGED <<count, phase, ctrl, calls>>

BlindRetainSwing(t) ==
  LET s == Head(work[t]) IN
  /\ Doing(t, "swing")
  /\ count' = [count EXCEPT ![s.block] = s.observed + 1]
  /\ Continue(t, Assign(use[t].target, s.block))
  /\ UNCHANGED <<phase, ctrl, outcome, calls>>

RetainSwing(t) ==
  LET s == Head(work[t]) IN
  /\ Doing(t, "swing") /\ count[s.block] = s.observed
  /\ count' = [count EXCEPT ![s.block] = s.observed + 1]
  /\ Continue(t, Assign(use[t].target, s.block))
  /\ UNCHANGED <<phase, ctrl, outcome, calls>>

\* The CAS of a retry keeps the old expected count.
RetainRetryStale(t) ==
  LET s == Head(work[t]) IN
  /\ Doing(t, "swing") /\ (count[s.block] # s.observed \/ SpuriousFailure)
  /\ UNCHANGED vars

RetainRetry(t) ==
  LET s == Head(work[t]) IN
  /\ Doing(t, "swing") /\ (count[s.block] # s.observed \/ SpuriousFailure)
  /\ Examine(t, s.block)
  /\ UNCHANGED <<count, phase, ctrl, calls>>

-----------------------------------------------------------------------------
(* release_strong() *)

NoReference(previous) == previous = 0
TwoReferences(previous) == previous \in 1 .. 2
LastReference(previous) == previous = 1

\* ~T: the Arc inside block b's payload is destroyed, then b is freed.
Destruction(b) ==
  LET dying == {m \in Members : Home[m] = b /\ ctrl[m] \in Blocks}
  IN (IF dying = {} THEN <<>>
      ELSE <<ReleaseOf(ctrl[CHOOSE m \in dying : TRUE])>>)
       \o <<FreeOf(b)>>

\* fetch_sub(1); whoever takes the last reference runs `delete this'.
Release(t) ==
  LET b == Head(work[t]).block IN
  /\ Doing(t, "release")
  /\ count' = [count EXCEPT ![b] = (@ - 1) % (MaxCount + 1)]
  /\ IF LastReference(count[b])
     THEN /\ phase' = [phase EXCEPT ![b] = "dying"]
          /\ Continue(t, Destruction(b) \o Tail(work[t]))
          /\ ctrl' = [a \in Arcs |->
               IF a \in Members /\ Home[a] = b THEN Absent ELSE ctrl[a]]
     ELSE /\ Continue(t, Tail(work[t]))
          /\ UNCHANGED <<phase, ctrl>>
  /\ UNCHANGED <<outcome, calls>>

Free(t) ==
  /\ Doing(t, "free")
  /\ phase' = [phase EXCEPT ![Head(work[t]).block] = "freed"]
  /\ Continue(t, Tail(work[t]))
  /\ UNCHANGED <<count, ctrl, outcome, calls>>

-----------------------------------------------------------------------------
(* The pointer assignments that end an operation *)

StorePointer(t) ==
  LET s == Head(work[t]) IN
  /\ Doing(t, "store")
  /\ ctrl' = [ctrl EXCEPT ![s.arc] = s.block]
  /\ Continue(t, Tail(work[t]))
  /\ UNCHANGED <<count, phase, outcome, calls>>

TakePointer(t) ==
  LET s == use[t].source IN
  /\ Doing(t, "take")
  /\ ctrl' = [ctrl EXCEPT ![Head(work[t]).arc] = ctrl[s], ![s] = Null]
  /\ Continue(t, Tail(work[t]))
  /\ UNCHANGED <<count, phase, outcome, calls>>

-----------------------------------------------------------------------------
Call(t) ==
  Construct(t) \/ Copy(t) \/ Move(t) \/ Reset(t) \/ Drop(t) \/ Dereference(t)
Proceed(t) ==
  \/ RetainLoad(t) \/ RetainSwing(t) \/ RetainRetry(t)
  \/ Release(t) \/ Free(t) \/ StorePointer(t) \/ TakePointer(t)
  \/ UsePayload(t)

\* The program may stop between operations.
Finished == (\A t \in Threads : ~Busy(t)) /\ UNCHANGED vars

Next == (\E t \in Threads : Call(t) \/ Proceed(t)) \/ Finished

Spec == Init /\ [][Next]_vars

\* A thread inside an operation keeps running, and a weak CAS that is retried
\* with the right expected count succeeds in the end.
Fairness ==
  \A t \in Threads : WF_vars(Proceed(t)) /\ SF_vars(RetainSwing(t))
FairSpec == Spec /\ Fairness

-----------------------------------------------------------------------------
(* Properties *)

\* Every field stays in its type; the count never passes its limit, so it never
\* wraps ("The count never wraps", sync.hpp:824).
TypeOK ==
  /\ count \in [Blocks -> 0 .. MaxCount]
  /\ phase \in [Blocks -> Phases]
  /\ ctrl \in [Arcs -> Blocks \union {Null, Absent}]
  /\ use \in [Threads -> Uses]
  /\ work \in [Threads -> Seq([do : {"retain", "swing", "release", "free",
                                     "store", "take", "use"},
                               block : Blocks \union {Null, Absent},
                               arc : Arcs \union {Null},
                               observed : 0 .. MaxCount])]
  /\ outcome \in [Threads -> Outcomes]
  /\ calls \in [Threads -> 0 .. MaxCalls]

\* The references to b that somebody must release: Arc objects whose pointer is
\* not being replaced, and the steps of operations under way that release a
\* reference or store one.
Replaced(a) ==
  \E t \in Threads : \E k \in DOMAIN work[t] :
    work[t][k].do \in {"store", "take"} /\ work[t][k].arc = a
Holders(b) == {a \in Arcs : ctrl[a] = b /\ ~Replaced(a)}
Obligations(b) ==
  UNION {{<<t, k>> : k \in {j \in DOMAIN work[t] :
             work[t][j].do \in {"release", "store"} /\ work[t][j].block = b}} :
         t \in Threads}
Owned(b) == Holders(b) # {} \/ Obligations(b) # {}

\* strong_count_ counts exactly the references that exist: overlapping copies
\* and releases, refused copies, nested destructors and every kind of
\* assignment neither lose nor invent one (retain_strong, release_strong,
\* sync.hpp:831-878).
CountExact ==
  \A b \in Blocks : phase[b] = "live" =>
    count[b] = Cardinality(Holders(b)) + Cardinality(Obligations(b))

\* "Exactly one caller observes the transition from one to zero": a payload is
\* destroyed only when nobody owns a reference any more, and nobody gains one
\* afterwards (release_strong, sync.hpp:863-864).
DestroyedUnowned ==
  \A b \in Blocks : phase[b] \in {"dying", "freed"} => ~Owned(b)

\* No step touches a payload or a count of a block that is destroyed, or an Arc
\* object that died with its payload, although other threads and releases
\* inside an operation may run destructors (operator=, sync.hpp:1889-1920;
\* require_value, 2095).
AccessesAlive ==
  \A t \in Threads : work[t] # <<>> =>
    LET s == Head(work[t]) IN
    /\ s.do \in {"retain", "swing", "release", "use"} => phase[s.block] = "live"
    /\ s.do = "free" => phase[s.block] = "dying"
    /\ s.do \in {"store", "take"} => s.arc \in Locals \/ Exists(s.arc)
    /\ s.do = "take" => Exists(use[t].source)

\* "This owner contains `other`'s former control pointer": the Arc a move
\* assignment moves from still exists when its pointer is taken
\* (operator=(Arc&&), sync.hpp:1904-1917).
MoveTakesLivePointer ==
  \A t \in Threads : Doing(t, "take") => Exists(use[t].source)

\* Every operation returns, through retain loops and nested destructors.
OperationsReturn == \A t \in Threads : Busy(t) ~> ~Busy(t)

\* A payload nobody owns any more is destroyed and its block freed.
AbandonedAreFreed ==
  \A b \in Blocks : (phase[b] \in {"live", "dying"} /\ ~Owned(b)) ~> phase[b] = "freed"

=============================================================================
