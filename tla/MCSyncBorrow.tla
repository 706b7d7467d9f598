---------------------------- MODULE MCSyncBorrow ---------------------------
(* Small instances of SyncBorrow. *)
EXTENDS SyncBorrowRW, TLC

BorrowSymmetry ==
  Permutations(Threads) \union Permutations(Refs) \union Permutations(MutRefs)
=============================================================================
