---------------------------- MODULE SyncBorrowRW ---------------------------
(***************************************************************************)
(* SyncBorrow implements ReadersWriter.  The abstract counts are taken from *)
(* the guards and the assignments under way, not from the atomic words, so  *)
(* the refinement says that the words decide every request correctly.       *)
(***************************************************************************)
EXTENDS SyncBorrow

RW == INSTANCE ReadersWriter WITH
  Payloads <- Blocks,
  MaxReaders <- MaxSharedBorrows,
  readers <- [b \in Blocks |-> Cardinality(Sharers(b))],
  writer <- [b \in Blocks |-> Writers(b) # {}],
  verdict <- outcome

\* Each request is granted or refused at one atomic access, and refused only
\* if at that very moment a conflicting borrow exists: a failed CAS, a stale
\* load or a release under way never causes a refusal, and a refused
\* assignment keeps or drops the old borrow but never both
\* (acquire_shared, acquire_mut, sync.hpp:456-565; operator=, 1043-1072).
ImplementsReadersWriter == RW!Spec
=============================================================================
