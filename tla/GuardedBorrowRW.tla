-------------------------- MODULE GuardedBorrowRW --------------------------
(***************************************************************************)
(* GuardedBorrow implements ReadersWriter: the payloads of Owners and those *)
(* of Mutexes keep the same promise as those of SyncOwners.  The abstract    *)
(* state is taken from the guards, not from the ledgers.                    *)
(***************************************************************************)
EXTENDS GuardedBorrow

\* The borrow of a mutex-backed guard ends when the hook has cleared the flag.
Ended(g) == \E t \in Threads : call[t].target = g /\ call[t].at \in {"clearToken", "unlock"}

RW == INSTANCE ReadersWriter WITH
  Payloads <- Controls,
  MaxReaders <- Cardinality(Refs) + 1,
  readers <- [c \in Controls |-> Cardinality(Readers(c))],
  writer <- [c \in Controls |-> \E g \in Writers(c) : ~Ended(g)],
  verdict <- outcome

\* A borrow or a lock is refused only if at that very moment a conflicting
\* borrow exists.  For a Mutex there is none once the mutex is locked, so a
\* lock() is never refused: "the next locking thread observes an empty borrow
\* ledger after acquiring the mutex", and a release that two ledgers, a hook
\* and a move of the guard share takes effect once (sync.hpp:2302, 2369-2371;
\* owner.hpp:862-873, 1046-1057).
ImplementsReadersWriter == RW!Spec
=============================================================================
