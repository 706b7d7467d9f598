--------------------------- MODULE ReadersWriter ---------------------------
(***************************************************************************)
(* What borrow(), borrow_mut() and lock() promise (include/memsafe/sync.hpp *)
(* and owner.hpp): each payload has any number of readers up to a limit or  *)
(* one writer, each request is granted or refused in one step, and it is    *)
(* refused only when it conflicts with the borrows that exist at that       *)
(* moment.                                                                  *)
(***************************************************************************)
EXTENDS Integers

CONSTANTS Threads, Payloads, MaxReaders

VARIABLES
  readers,  \* number of shared borrows of each payload
  writer,   \* is there a mutable borrow of it?
  verdict   \* answer to each thread's last request

vars == <<readers, writer, verdict>>

Init ==
  /\ readers = [p \in Payloads |-> 0]
  /\ writer = [p \in Payloads |-> FALSE]
  /\ verdict = [t \in Threads |-> "none"]

Answer(t, v) == verdict' = [verdict EXCEPT ![t] = v]

Share(t, p) ==
  /\ Answer(t, "ok")
  /\ ~writer[p] /\ readers[p] < MaxReaders
  /\ UNCHANGED writer
  /\ readers' = [readers EXCEPT ![p] = @ + 1]

Write(t, p) ==
  /\ Answer(t, "ok")
  /\ ~writer[p] /\ readers[p] = 0
  /\ writer' = [writer EXCEPT ![p] = TRUE]
  /\ UNCHANGED readers

\* A borrow ends; the thread may have had its answer before.
Unshare(t, p) ==
  /\ Answer(t, "ok") \/ UNCHANGED verdict
  /\ readers[p] > 0
  /\ UNCHANGED writer
  /\ readers' = [readers EXCEPT ![p] = @ - 1]

Unwrite(t, p) ==
  /\ Answer(t, "ok")
  /\ writer[p]
  /\ writer' = [writer EXCEPT ![p] = FALSE]
  /\ UNCHANGED readers

\* An assignment in one step: a reader of q becomes a reader of p.
Exchange(t, p, q) ==
  /\ Answer(t, "ok")
  /\ p # q /\ readers[q] > 0
  /\ ~writer[p] /\ readers[p] < MaxReaders
  /\ UNCHANGED writer
  /\ readers' = [readers EXCEPT ![p] = @ + 1, ![q] = @ - 1]

\* A request that conflicts with p's borrows.
Conflict(t, p) ==
  \/ Answer(t, "mutableExists") /\ writer[p]
  \/ Answer(t, "borrowExists") /\ (writer[p] \/ readers[p] > 0)
  \/ Answer(t, "exhausted") /\ readers[p] = MaxReaders

Refuse(t, p) == Conflict(t, p) /\ UNCHANGED <<readers, writer>>

\* A refused assignment that gives up its old borrow of q in the same step.
RefuseAndUnshare(t, p, q) ==
  /\ Conflict(t, p) /\ readers[q] > 0
  /\ readers' = [readers EXCEPT ![q] = @ - 1]
  /\ UNCHANGED writer

\* An operation that borrows nothing: a move, an empty guard, an empty owner.
Trivial(t) ==
  /\ \E v \in {"ok", "null"} : Answer(t, v)
  /\ UNCHANGED <<readers, writer>>

Next ==
  \E t \in Threads :
    \/ Trivial(t)
    \/ \E p \in Payloads :
         \/ Share(t, p) \/ Write(t, p) \/ Refuse(t, p)
         \/ Unshare(t, p) \/ Unwrite(t, p)
    \/ \E p, q \in Payloads : Exchange(t, p, q) \/ RefuseAndUnshare(t, p, q)

Spec == Init /\ [][Next]_vars
=============================================================================
