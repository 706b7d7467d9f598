------------------------------- MODULE Scope -------------------------------
(***************************************************************************)
(* Scope (include/memsafe/scope.hpp), a single-threaded arena.  Constructors *)
(* and destructors of payloads are user code and may call create() on the    *)
(* same scope, so calls nest; `stack` is the call stack, its last frame the  *)
(* one that runs.                                                            *)
(***************************************************************************)
EXTENDS Integers, Sequences, SequencesExt

CONSTANTS
  Objects,           \* objects the program may create, one create() each
  Null,              \* no object
  MaxDepth,          \* bound: nesting of constructors and destructors
  CreateInTeardown   \* destructors run by ~Scope call create()

ASSUME ScopeAssumption ==
  MaxDepth \in Nat /\ CreateInTeardown \in BOOLEAN /\ Null \notin Objects

VARIABLES
  entries,  \* the ledger: recorded objects, oldest first
  stage,    \* lifetime of every object and of its storage
  stack,    \* the calls in progress
  alive,    \* ~Scope has not begun
  known     \* history: objects recorded before each one's constructor ended

vars == <<entries, stage, stack, alive, known>>

Stages == {"unborn", "constructing", "live", "ending", "freed"}
Frames == [at : {"create", "unwind", "destroy_all"}, object : Objects \union {Null},
           index : Nat]

Running == Last(stack)
At(label) == stack # <<>> /\ Running.at = label
Become(o, s) == stage' = [stage EXCEPT ![o] = s]

\* User code runs: the program's own, or a constructor or destructor.
InTeardown == \E i \in DOMAIN stack : stack[i].at = "destroy_all"
UserCode ==
  IF stack = <<>> THEN alive
  ELSE /\ Running.object # Null
       /\ InTeardown => CreateInTeardown

Init ==
  /\ entries = <<>>
  /\ stage = [o \in Objects |-> "unborn"]
  /\ stack = <<>>
  /\ alive = TRUE
  /\ known = [o \in Objects |-> {}]

-----------------------------------------------------------------------------
(* create<T>() *)

\* Storage is allocated and the constructor begins.  An allocation that fails
\* changes nothing.
Create(o) ==
  /\ stage[o] = "unborn" /\ UserCode /\ Len(stack) < MaxDepth
  /\ stack' = Append(stack, [at |-> "create", object |-> o, index |-> 0])
  /\ Become(o, "constructing")
  /\ UNCHANGED <<entries, alive, known>>

ConstructorThrows ==
  /\ At("create")
  /\ Become(Running.object, "freed")
  /\ stack' = Front(stack)
  /\ UNCHANGED <<entries, alive, known>>

\* The constructor returns and push_back() records the object.
RecordFirst ==
  /\ At("create")
  /\ Become(Running.object, "live")
  /\ entries' = <<Running.object>> \o entries
  /\ known' = [known EXCEPT ![Running.object] = ToSet(entries)]
  /\ stack' = Front(stack)
  /\ UNCHANGED alive
Record ==
  /\ At("create")
  /\ Become(Running.object, "live")
  /\ entries' = Append(entries, Running.object)
  /\ known' = [known EXCEPT ![Running.object] = ToSet(entries)]
  /\ stack' = Front(stack)
  /\ UNCHANGED alive

\* The constructor returns and push_back() throws: the destructor begins.
RecordKept ==
  /\ At("create")
  /\ Become(Running.object, "live")
  /\ stack' = Front(stack)
  /\ UNCHANGED <<entries, alive, known>>
RecordFails ==
  /\ At("create")
  /\ Become(Running.object, "ending")
  /\ stack' = [stack EXCEPT ![Len(stack)].at = "unwind"]
  /\ UNCHANGED <<entries, alive, known>>

\* The destructor returns, the storage goes, create() throws.
Unwound ==
  /\ At("unwind")
  /\ Become(Running.object, "freed")
  /\ stack' = Front(stack)
  /\ UNCHANGED <<entries, alive, known>>

-----------------------------------------------------------------------------
(* ~Scope() and destroy_all() *)

\* The loop is at an index, and the destructor of o, if any, runs.
Destroying(o, index) == [at |-> "destroy_all", object |-> o, index |-> index]

DestroyAll ==
  /\ stack = <<>> /\ alive
  /\ alive' = FALSE
  /\ stack' = <<Destroying(Null, Len(entries))>>
  /\ UNCHANGED <<entries, stage, known>>

\* The entry at the index is copied and its destructor begins.
DestroyNext ==
  /\ At("destroy_all") /\ Running.object = Null /\ Running.index # 0
  /\ Become(entries[Running.index], "ending")
  /\ stack' = [stack EXCEPT ![Len(stack)] =
       Destroying(entries[Running.index], Running.index)]
  /\ UNCHANGED <<entries, alive, known>>

\* The destructor returns, the storage goes, the loop moves on.
DestroysEveryOther ==
  /\ At("destroy_all") /\ Running.object # Null
  /\ Become(Running.object, "freed")
  /\ stack' = [stack EXCEPT ![Len(stack)] =
       Destroying(Null, IF Running.index > 1 THEN Running.index - 2 ELSE 0)]
  /\ UNCHANGED <<entries, alive, known>>
Destroyed ==
  /\ At("destroy_all") /\ Running.object # Null
  /\ Become(Running.object, "freed")
  /\ stack' = [stack EXCEPT ![Len(stack)] =
       Destroying(Null, Running.index - 1)]
  /\ UNCHANGED <<entries, alive, known>>

\* entries_.clear() and the end of the Scope.
Clear ==
  /\ At("destroy_all") /\ Running.object = Null /\ Running.index = 0
  /\ entries' = <<>>
  /\ stack' = Front(stack)
  /\ UNCHANGED <<stage, alive, known>>

-----------------------------------------------------------------------------
\* The program may keep a Scope for ever, or has ended it.
Finished == stack = <<>> /\ UNCHANGED vars

Next ==
  \/ \E o \in Objects : Create(o)
  \/ ConstructorThrows \/ Record \/ RecordFails \/ Unwound
  \/ DestroyAll \/ DestroyNext \/ Destroyed \/ Clear
  \/ Finished

Spec == Init /\ [][Next]_vars

-----------------------------------------------------------------------------
(* Properties *)

Gone == ~alive /\ stack = <<>>
Pending == IF InTeardown THEN SubSeq(entries, 1, stack[1].index) ELSE entries

TypeOK ==
  /\ entries \in Seq(Objects)
  /\ stage \in [Objects -> Stages]
  /\ stack \in Seq(Frames)
  /\ alive \in BOOLEAN
  /\ known \in [Objects -> SUBSET Objects]

\* A constructor may keep pointers to objects the scope already owns, and its
\* destructor may use them: they outlive it, whatever is created or refused
\* while it is constructed (reverse destruction order, scope.hpp:427-440).
DependenciesOutlive ==
  \A o \in Objects :
    stage[o] \in {"live", "ending"} =>
      \A p \in known[o] : stage[p] = "live"

\* "Every live created object is represented by exactly one ledger entry": on
\* every failure path the object and its storage are given back at once
\* (scope.hpp:235-255).
LedgerExact ==
  /\ IsInjective(Pending)
  /\ \A o \in Objects :
       o \in ToSet(Pending) <=>
         \/ stage[o] = "live"
         \/ stage[o] = "ending" /\ InTeardown /\ stack[1].object = o

\* "All successfully created objects have had their destructor invoked exactly
\* once and their storage released" when ~Scope returns (scope.hpp:108).
EndReleasesAll ==
  Gone => \A o \in Objects : stage[o] \in {"unborn", "freed"}

=============================================================================
