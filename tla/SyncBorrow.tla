---------------------------- MODULE SyncBorrow -----------------------------
(***************************************************************************)
(* SyncOwner<T>, SyncRef<T>, SyncMutRef<T> and their control block          *)
(* sync_borrow_ctrl<T> (include/memsafe/sync.hpp), with release checks on.  *)
(* One atomic word per control block counts the shared borrows, or holds a  *)
(* token while the one mutable borrow exists.  Guards are ordinary objects: *)
(* the program lets any thread work on any guard, but never two at a time   *)
(* on the same one, except that several may copy from it.                   *)
(*                                                                          *)
(* Every access to an atomic word is one action.  What a call does to its   *)
(* own guard between two of them is seen by nobody and belongs to the       *)
(* access before it.                                                        *)
(***************************************************************************)
EXTENDS Integers, FiniteSets

CONSTANTS
  Threads,          \* threads sharing the owners and guards
  Owners,           \* SyncOwner objects
  Blocks,           \* control blocks, each with its payload
  Refs,             \* SyncRef objects
  MutRefs,          \* SyncMutRef objects
  Null,             \* a null ctrl_ pointer
  Absent,           \* the guard or owner object does not exist
  MutableToken,     \* mutable_token_, 2^31
  MaxCalls,         \* bound: operations one thread starts
  Responses,        \* what a reported violation does to its caller
  SpuriousFailure   \* compare_exchange_weak can fail spuriously

ASSUME TokenAssumption == MutableToken \in Nat /\ MutableToken > 1
ASSUME CallsAssumption == MaxCalls \in Nat
ASSUME NamesAssumption ==
  /\ Null # Absent
  /\ {Null, Absent} \cap (Blocks \union Refs \union MutRefs) = {}
  /\ Refs \cap MutRefs = {} /\ Refs \cap Threads = {}
  /\ IsFiniteSet(Refs) /\ IsFiniteSet(Threads)
ASSUME ResponseAssumption ==
  Responses \subseteq {"throw", "return"} /\ SpuriousFailure \in BOOLEAN

VARIABLES
  word,     \* borrow_state_ of every control block
  owns,     \* ctrl_ of every owner
  ctrl,     \* ctrl_ of every guard
  call,     \* what each thread is doing
  outcome,  \* result of each thread's last operation
  calls     \* operations each thread has started

vars == <<word, owns, ctrl, call, outcome, calls>>

-----------------------------------------------------------------------------
Guards == Refs \union MutRefs
NoBorrow == 0
MaxSharedBorrows == MutableToken - 1

\* A call in progress: where it stands, the guard it changes, the guard it
\* reads or moves from, the block it acquires, what the target's ctrl_ becomes
\* when its old borrow is released, and the word last loaded.
Idle == [at |-> "idle", target |-> Null, source |-> Null, block |-> Null,
         next |-> Null, observed |-> 0]
Labels == {"idle", "shareSwing", "unshareLoad", "unshareSwing"}
CallRecords ==
  [at : Labels, target : Refs \union {Null}, source : Refs \union {Null},
   block : Blocks \union {Null}, next : Blocks \union {Null, Absent},
   observed : 0 .. MutableToken]
Outcomes == {"none", "ok", "mutableExists", "borrowExists", "exhausted", "null"}

Exists(g) == ctrl[g] # Absent
Unused(g) == \A t \in Threads : call[t].target # g /\ call[t].source # g
Moving(t) == call[t].source # Null /\ call[t].at # "shareSwing"
Readable(g) ==
  \A t \in Threads : call[t].target # g /\ ~(call[t].source = g /\ Moving(t))

\* An idle thread starts another operation.
Start(t) ==
  /\ call[t].at = "idle" /\ calls[t] < MaxCalls
  /\ calls' = [calls EXCEPT ![t] = @ + 1]

Report(t, result) == outcome' = [outcome EXCEPT ![t] = result]
Return(t) == call' = [call EXCEPT ![t] = Idle]

Init ==
  /\ word = [b \in Blocks |-> NoBorrow]
  /\ owns \in [Owners -> Blocks \union {Null}]
  /\ \A b \in Blocks : \E o \in Owners : owns[o] = b
  /\ \A o, p \in Owners : o # p => owns[o] # owns[p] \/ owns[o] = Null
  /\ ctrl = [g \in Guards |-> Absent]
  /\ call = [t \in Threads |-> Idle]
  /\ outcome = [t \in Threads |-> "none"]
  /\ calls = [t \in Threads |-> 0]

-----------------------------------------------------------------------------
(* acquire_shared(), within borrow(), the copy constructor and the copy     *)
(* assignment                                                               *)

Releasing(r, s, next) ==
  [at |-> "unshareLoad", target |-> r, source |-> s, block |-> Null,
   next |-> next, observed |-> 0]

\* The target's new ctrl_ is known.  A target that holds a borrow (this is an
\* assignment then) gives it up first.
Settle(t, r, next) ==
  IF ctrl[r] \in Blocks
  THEN /\ call' = [call EXCEPT ![t] = Releasing(r, Null, next)]
       /\ UNCHANGED ctrl
  ELSE Return(t) /\ ctrl' = [ctrl EXCEPT ![r] = next]

\* A violation is reported: it throws out of the operation, or the handler
\* returns and the target becomes an empty guard.
Refuse(t, r, kind) ==
  /\ Report(t, kind)
  /\ \/ "throw" \in Responses /\ Return(t) /\ UNCHANGED ctrl
     \/ "return" \in Responses /\ Settle(t, r, Null)

Taken(w) == w = MutableToken
FullEarly(w) == w >= MaxSharedBorrows - 1
Full(w) == w >= MaxSharedBorrows

\* The loop body of acquire_shared() has loaded word[b] for target r.
Examine(t, r, s, b) ==
  CASE Taken(word[b]) -> Refuse(t, r, "mutableExists")
    [] ~Taken(word[b]) /\ Full(word[b]) -> Refuse(t, r, "exhausted")
    [] OTHER ->
         /\ call' = [call EXCEPT ![t] =
              [at |-> "shareSwing", target |-> r, source |-> s, block |-> b,
               next |-> Null, observed |-> word[b]]]
         /\ UNCHANGED <<ctrl, outcome>>

\* borrow(): an owner without a payload is a null access.  After a handler that
\* returned, the reference to a null block is undefined; the outcome that goes
\* on is an empty guard.
Borrow(t) ==
  \E o \in Owners, r \in Refs :
    /\ Start(t) /\ owns[o] # Absent /\ ~Exists(r) /\ Unused(r)
    /\ IF owns[o] \in Blocks
       THEN Examine(t, r, Null, owns[o])
       ELSE Refuse(t, r, "null")
    /\ UNCHANGED <<word, owns>>

\* SyncRef(const SyncRef&) when r does not exist, operator= when it does.
Copy(t) ==
  \E r, s \in Refs :
    /\ Start(t) /\ r # s /\ Exists(s) /\ Unused(r) /\ Readable(s)
    /\ IF ctrl[s] \in Blocks
       THEN Examine(t, r, s, ctrl[s])
       ELSE Settle(t, r, Null) /\ Report(t, "ok")
    /\ UNCHANGED <<word, owns>>

CasFails(w, expected) == w # expected \/ SpuriousFailure

BlindShareSwing(t) ==
  LET c == call[t] IN
  /\ c.at = "shareSwing"
  /\ word' = [word EXCEPT ![c.block] = c.observed + 1]
  /\ Settle(t, c.target, c.block)
  /\ Report(t, "ok")
  /\ UNCHANGED <<owns, calls>>

ShareSwing(t) ==
  LET c == call[t] IN
  /\ c.at = "shareSwing" /\ word[c.block] = c.observed
  /\ word' = [word EXCEPT ![c.block] = c.observed + 1]
  /\ Settle(t, c.target, c.block)
  /\ Report(t, "ok")
  /\ UNCHANGED <<owns, calls>>

\* The CAS of a retry keeps the old expected word.
ShareRetryStale(t) ==
  LET c == call[t] IN
  /\ c.at = "shareSwing" /\ CasFails(word[c.block], c.observed)
  /\ UNCHANGED vars

ShareRetry(t) ==
  LET c == call[t] IN
  /\ c.at = "shareSwing" /\ CasFails(word[c.block], c.observed)
  /\ Examine(t, c.target, c.source, c.block)
  /\ UNCHANGED <<word, owns, calls>>

-----------------------------------------------------------------------------
(* release_shared(), within the destructor and both assignments             *)

\* The target has given up its borrow and gets its new ctrl_: the source's
\* in a move assignment, which empties the source.
Finish(t) ==
  LET c == call[t] IN
  /\ Return(t)
  /\ ctrl' = IF c.source = Null
             THEN [ctrl EXCEPT ![c.target] = c.next]
             ELSE [ctrl EXCEPT ![c.target] = ctrl[c.source], ![c.source] = Null]

\* release_shared() has loaded a word: nothing to give back, or a CAS.
Release(t) ==
  LET c == call[t]
      w == word[ctrl[c.target]]
  IN IF w \in {NoBorrow, MutableToken}
     THEN Finish(t)
     ELSE /\ call' = [call EXCEPT ![t].at = "unshareSwing", ![t].observed = w]
          /\ UNCHANGED ctrl

UnshareLoad(t) ==
  /\ call[t].at = "unshareLoad"
  /\ Release(t)
  /\ UNCHANGED <<word, owns, outcome, calls>>

UnshareSwing(t) ==
  LET c == call[t]
      b == ctrl[c.target]
  IN /\ c.at = "unshareSwing" /\ word[b] = c.observed
     /\ word' = [word EXCEPT ![b] = c.observed - 1]
     /\ Finish(t)
     /\ UNCHANGED <<owns, outcome, calls>>

\* A single attempt instead of a loop.
UnshareGivesUp(t) ==
  LET c == call[t] IN
  /\ c.at = "unshareSwing" /\ CasFails(word[ctrl[c.target]], c.observed)
  /\ Finish(t)
  /\ UNCHANGED <<word, owns, outcome, calls>>

UnshareRetry(t) ==
  LET c == call[t] IN
  /\ c.at = "unshareSwing" /\ CasFails(word[ctrl[c.target]], c.observed)
  /\ Release(t)
  /\ UNCHANGED <<word, owns, outcome, calls>>

\* ~SyncRef()
Drop(t) ==
  \E r \in Refs :
    /\ Start(t) /\ Exists(r) /\ Unused(r)
    /\ Settle(t, r, Absent)
    /\ Report(t, "ok")
    /\ UNCHANGED <<word, owns>>

\* SyncRef(SyncRef&&) when r does not exist, operator= when it does.
Move(t) ==
  \E r, s \in Refs :
    /\ Start(t) /\ r # s /\ Exists(s) /\ Unused(r) /\ Unused(s)
    /\ IF ctrl[r] \in Blocks
       THEN /\ call' = [call EXCEPT ![t] = Releasing(r, s, Null)]
            /\ UNCHANGED ctrl
       ELSE /\ ctrl' = [ctrl EXCEPT ![r] = ctrl[s], ![s] = Null]
            /\ UNCHANGED call
    /\ Report(t, "ok")
    /\ UNCHANGED <<word, owns>>

-----------------------------------------------------------------------------
(* SyncMutRef: acquire_mut() and release_mut() are one strong CAS each      *)

Unborrowed(b) == word[b] = NoBorrow

\* borrow_mut()
BorrowMut(t) ==
  \E o \in Owners, m \in MutRefs :
    /\ Start(t) /\ owns[o] # Absent /\ ~Exists(m)
    /\ IF owns[o] \in Blocks /\ Unborrowed(owns[o])
       THEN /\ word' = [word EXCEPT ![owns[o]] = MutableToken]
            /\ ctrl' = [ctrl EXCEPT ![m] = owns[o]]
            /\ Report(t, "ok")
       ELSE /\ Report(t, IF owns[o] \in Blocks THEN "borrowExists" ELSE "null")
            /\ \/ "throw" \in Responses /\ UNCHANGED ctrl
               \/ "return" \in Responses /\ ctrl' = [ctrl EXCEPT ![m] = Null]
            /\ UNCHANGED word
    /\ UNCHANGED <<owns, call>>

\* release_mut() on ctrl_ of guard g
WordReleasedBy(g) ==
  IF ctrl[g] \in Blocks /\ word[ctrl[g]] = MutableToken
  THEN [word EXCEPT ![ctrl[g]] = NoBorrow]
  ELSE word

\* ~SyncMutRef()
DropMut(t) ==
  \E m \in MutRefs :
    /\ Start(t) /\ Exists(m)
    /\ word' = WordReleasedBy(m)
    /\ ctrl' = [ctrl EXCEPT ![m] = Absent]
    /\ Report(t, "ok")
    /\ UNCHANGED <<owns, call>>

\* SyncMutRef(SyncMutRef&&) when m does not exist, operator= when it does.
MoveMut(t) ==
  \E m, n \in MutRefs :
    /\ Start(t) /\ m # n /\ Exists(n)
    /\ word' = WordReleasedBy(m)
    /\ ctrl' = [ctrl EXCEPT ![m] = ctrl[n], ![n] = Null]
    /\ Report(t, "ok")
    /\ UNCHANGED <<owns, call>>

-----------------------------------------------------------------------------
(* SyncOwner: by contract no call on the owner is in progress, and no guard *)
(* refers to a block that is destroyed                                      *)

NotAcquiring(b) == \A t \in Threads : call[t].block # b /\ call[t].next # b
Unreferenced(b) == NotAcquiring(b) /\ \A g \in Guards : ctrl[g] # b
OwnerIdle(o) == owns[o] \in Blocks => NotAcquiring(owns[o])

\* SyncOwner(SyncOwner&&) when p does not exist, operator= when it does; the
\* block p had is destroyed.
MoveOwner(t) ==
  \E o, p \in Owners :
    /\ Start(t) /\ o # p /\ owns[o] # Absent /\ OwnerIdle(o) /\ OwnerIdle(p)
    /\ owns[p] \in Blocks => Unreferenced(owns[p])
    /\ owns' = [owns EXCEPT ![p] = owns[o], ![o] = Null]
    /\ Report(t, "ok")
    /\ UNCHANGED <<word, ctrl, call>>

DropOwner(t) ==
  \E o \in Owners :
    /\ Start(t) /\ owns[o] # Absent /\ OwnerIdle(o)
    /\ owns[o] \in Blocks => Unreferenced(owns[o])
    /\ owns' = [owns EXCEPT ![o] = Absent]
    /\ Report(t, "ok")
    /\ UNCHANGED <<word, ctrl, call>>

-----------------------------------------------------------------------------
(* operator* and operator->                                                 *)

\* A payload, or a null access.  After a handler that returned the caller has
\* a null pointer; what it does with it is no longer a call of the library.
RequireValue(t, c) == Report(t, IF c \in Blocks THEN "ok" ELSE "null")

ReadRef(t) ==
  \E r \in Refs :
    /\ Start(t) /\ Exists(r) /\ Readable(r)
    /\ RequireValue(t, ctrl[r])
    /\ UNCHANGED <<word, owns, ctrl, call>>

UseMut(t) ==
  \E m \in MutRefs :
    /\ Start(t) /\ Exists(m)
    /\ RequireValue(t, ctrl[m])
    /\ UNCHANGED <<word, owns, ctrl, call>>

\* An owner's own access does not look at the ledger.
UseOwner(t) ==
  \E o \in Owners :
    /\ Start(t) /\ owns[o] # Absent
    /\ RequireValue(t, owns[o])
    /\ UNCHANGED <<word, owns, ctrl, call>>

-----------------------------------------------------------------------------
Call(t) ==
  \/ Borrow(t) \/ Copy(t) \/ Drop(t) \/ Move(t)
  \/ BorrowMut(t) \/ DropMut(t) \/ MoveMut(t)
  \/ MoveOwner(t) \/ DropOwner(t)
  \/ ReadRef(t) \/ UseMut(t) \/ UseOwner(t)

Continue(t) ==
  ShareSwing(t) \/ ShareRetry(t) \/ UnshareLoad(t) \/ UnshareSwing(t)
    \/ UnshareRetry(t)

\* The program may stop between calls.
Finished == (\A t \in Threads : call[t].at = "idle") /\ UNCHANGED vars

Next == (\E t \in Threads : Call(t) \/ Continue(t)) \/ Finished

Spec == Init /\ [][Next]_vars

\* A thread inside a call keeps running, and a weak CAS that is retried with
\* the right expected word succeeds in the end.
Fairness ==
  \A t \in Threads :
    /\ WF_vars(Continue(t))
    /\ SF_vars(ShareSwing(t)) /\ SF_vars(UnshareSwing(t))
FairSpec == Spec /\ Fairness

-----------------------------------------------------------------------------
(* Properties *)

\* Every field stays within its type; in particular the word never leaves
\* 0 .. mutable_token_ (borrow_state_, sync.hpp:597-603).
TypeOK ==
  /\ word \in [Blocks -> 0 .. MutableToken]
  /\ owns \in [Owners -> Blocks \union {Null, Absent}]
  /\ ctrl \in [Guards -> Blocks \union {Null, Absent}]
  /\ call \in [Threads -> CallRecords]
  /\ outcome \in [Threads -> Outcomes]
  /\ calls \in [Threads -> 0 .. MaxCalls]

\* Who holds a shared borrow of b: guards, and assignments that have acquired
\* the new borrow and not yet released the old one.
Sharers(b) ==
  {r \in Refs : ctrl[r] = b} \union {t \in Threads : call[t].next = b}
Writers(b) == {m \in MutRefs : ctrl[m] = b}

\* A payload that has a mutable borrow has no other borrow, whatever threads
\* borrow, copy, assign and drop between each other's atomic accesses
\* (acquire_shared and acquire_mut, sync.hpp:456-565).
WriterExcludesAll ==
  \A b \in Blocks : \A m \in Writers(b) :
    Writers(b) = {m} /\ Sharers(b) = {}

\* The atomic word counts exactly the borrows that exist: no failed CAS,
\* refused copy, overlapping acquire and release of an assignment, or early
\* exit of release_shared() leaks a borrow or gives one back twice
\* (the ledger invariant of sync_borrow_ctrl, sync.hpp:254-256).
LedgerExact ==
  \A b \in Blocks :
    word[b] = IF Writers(b) # {} THEN MutableToken ELSE Cardinality(Sharers(b))

\* Every call that started returns: the CAS loops of acquire_shared() and
\* release_shared() end although other calls keep changing the word.
CallsReturn ==
  \A t \in Threads : call[t].at # "idle" ~> call[t].at = "idle"

=============================================================================
