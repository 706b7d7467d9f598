---------------------------- MODULE SlotMapPool ----------------------------
(* SlotMap implements HandlePool: the refinement mapping. *)
EXTENDS SlotMap

CONSTANTS Unused, Out, Inactive  \* owners of a slot that no thread works on

ASSUME OwnersAssumption ==
  Unused # Out /\ Unused # Inactive /\ Out # Inactive
    /\ {Unused, Out, Inactive} \intersect Threads = {}

\* A slot belongs to the pool, to the holders of its live handle, or to the
\* thread between its successful CAS and the end of its call; a slot that
\* ~SlotMap() has swept is out of use.
Owner(i) ==
  IF i >= capacity THEN Inactive
  ELSE IF \E t \in Threads : Holds(t, i) THEN CHOOSE t \in Threads : Holds(t, i)
  ELSE IF ~Live(i) THEN Unused
  ELSE IF occupied[i] THEN Out
  ELSE Inactive

\* What is undecided about the argument of a call that is past its first check.
Wants(t) == CASE pc[t] = "getOccupied" -> "get"
              [] pc[t] \in {"freeOccupied", "bump"} -> "deallocate"
              [] OTHER -> "nothing"

Result(t) == IF pc[t] # "idle" THEN "pending"
             ELSE IF outcome[t] \in {"stale", "silent"} THEN "refused"
             ELSE outcome[t]

CallOf(t) ==
  [wants |-> Wants(t),
   handle |-> IF Wants(t) = "nothing"
              THEN [index |-> Unused, generation |-> 0] ELSE handle[t],
   fresh |-> origin[t] = "live",
   result |-> Result(t)]

Pool == INSTANCE HandlePool WITH
  Slots <- Slots, Generations <- 1 .. GenMod - 1,
  InPool <- Unused, Issued <- Out, Absent <- Inactive,
  owner <- [i \in Slots |-> Owner(i)],
  live <- LiveHandles,
  spent <- retired \union SweptHandles,
  call <- [t \in Threads |-> CallOf(t)]

\* SlotMap behaves as a pool of handles: every CAS that decides a call is the
\* instant at which the abstract call takes effect.
ImplementsPool == Pool!Spec
=============================================================================
