-------------------------- MODULE MCGuardedBorrow --------------------------
(* A small instance of GuardedBorrow. *)
EXTENDS GuardedBorrowRW
=============================================================================
