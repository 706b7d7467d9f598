--------------------------- MODULE GuardedBorrow ---------------------------
(***************************************************************************)
(* Owner<T>, Ref<T>, MutRef<T> (include/memsafe/owner.hpp) and Mutex<T>     *)
(* (include/memsafe/sync.hpp), with release checks on.  One class, MutRef,  *)
(* serves both: from Owner::borrow_mut() it only gives its ledger token     *)
(* back, from Mutex::lock() it carries a hook that clears two ledgers and   *)
(* then unlocks.  Its moves may put one kind over the other.                *)
(*                                                                          *)
(* An Owner and its borrows are not thread-safe, so a call on them is one   *)
(* step.  lock() and the hook are one step per access to shared memory.     *)
(***************************************************************************)
EXTENDS Integers, FiniteSets

CONSTANTS
  Threads,     \* threads of the program
  Owners,      \* Owner objects
  Blocks,      \* their control blocks, each with its payload
  Mutexes,     \* Mutex objects, numbers in the order the program locks them
  Refs,        \* Ref objects
  MutRefs,     \* MutRef objects
  Null,        \* a null pointer
  Absent,      \* the Owner, Ref or MutRef object does not exist
  MaxCalls,    \* bound: operations the program starts, drops not counted
  Responses    \* what a reported violation does to its caller

Controls == Blocks \union Mutexes

ASSUME MutexAssumption == Mutexes \subseteq Nat /\ MaxCalls \in Nat
ASSUME NamesAssumption ==
  /\ Blocks \cap Mutexes = {} /\ Null # Absent
  /\ {Null, Absent} \cap (Controls \union Threads \union Refs \union MutRefs) = {}
  /\ Absent \notin [ctrl : Controls \union {Null}, state : Mutexes \union {Null}]
  /\ IsFiniteSet(Refs)
ASSUME ResponseAssumption == Responses \subseteq {"throw", "return"}

VARIABLES
  owns,       \* ctrl_ of every Owner
  shared,     \* shared_borrows_ of every control block
  exclusive,  \* mutable_borrowed_ of every control block
  token,      \* borrow_state_ of every Mutex
  holder,     \* the thread that has locked each mutex_
  ref,        \* ctrl_ of every Ref
  mut,        \* ctrl_ and release_state_ of every MutRef, or Absent
  call,       \* what each thread is doing
  outcome,    \* result of each thread's last operation
  calls       \* operations the program has started

ledgers == <<shared, exclusive>>
vars == <<owns, shared, exclusive, token, holder, ref, mut, call, outcome, calls>>

-----------------------------------------------------------------------------
\* A MutRef; it has a release hook when its state is a Mutex.
Empty == [ctrl |-> Null, state |-> Null]
Plain(b) == [ctrl |-> b, state |-> Null]
Hooked(m) == [ctrl |-> m, state |-> m]
MutRefValues ==
  [ctrl : Controls \union {Null}, state : Mutexes \union {Null}]

Idle == [at |-> "idle", mutex |-> Null, target |-> Null, source |-> Null]
Labels == {"idle", "acquire", "record", "arm", "clearFlag", "clearToken",
           "unlock"}
Calls == [at : Labels, mutex : Mutexes \union {Null},
          target : MutRefs \union {Null}, source : MutRefs \union {Null}]
Outcomes == {"none", "ok", "mutableExists", "borrowExists", "null"}

Exists(g) == mut[g] # Absent
HasBorrow(c) == shared[c] # 0 \/ exclusive[c]

\* The program synchronises access to guards, and a lock is given back by the
\* thread that took it.
Usable(t, g) ==
  /\ \A u \in Threads : g \notin {call[u].target, call[u].source}
  /\ Exists(g) /\ mut[g].state \in Mutexes => holder[mut[g].state] = t

Count(t) ==
  call[t].at = "idle" /\ calls < MaxCalls /\ calls' = calls + 1
Report(t, result) == outcome' = [outcome EXCEPT ![t] = result]
Goto(t, label) == call' = [call EXCEPT ![t].at = label]
Return(t) == call' = [call EXCEPT ![t] = Idle]

\* The program starts with its Owners constructed.
Init ==
  /\ owns \in [Owners -> Blocks]
  /\ \A o, p \in Owners : o # p => owns[o] # owns[p]
  /\ shared = [c \in Controls |-> 0]
  /\ exclusive = [c \in Controls |-> FALSE]
  /\ token = [m \in Mutexes |-> 0]
  /\ holder = [m \in Mutexes |-> Null]
  /\ ref = [r \in Refs |-> Absent]
  /\ mut = [g \in MutRefs |-> Absent]
  /\ call = [t \in Threads |-> Idle]
  /\ outcome = [t \in Threads |-> "none"]
  /\ calls = 0

-----------------------------------------------------------------------------
(* Owner::borrow() and Ref *)

\* acquire_shared() refuses while a mutable borrow exists.
SharedRefused(c) == c \in Blocks /\ exclusive[c]

\* shared_borrows_ after the reference of r is given back.
ReleasedBy(r) ==
  IF ref[r] \in Blocks /\ shared[ref[r]] # 0
  THEN [shared EXCEPT ![ref[r]] = @ - 1] ELSE shared

\* A violation is reported: it leaves r alone when it throws and empties it
\* when the handler returns.
RefuseRef(t, r, kind) ==
  /\ Report(t, kind)
  /\ \/ "throw" \in Responses /\ UNCHANGED <<ref, shared>>
     \/ /\ "return" \in Responses
        /\ ref' = [ref EXCEPT ![r] = Null] /\ shared' = ReleasedBy(r)

\* r becomes a reference to b: the new one is acquired, the old one released.
AssignOver(t, r, b) ==
  /\ ref' = [ref EXCEPT ![r] = b] /\ Report(t, "ok")
  /\ shared' = IF b \in Blocks THEN [shared EXCEPT ![b] = @ + 1] ELSE shared
AssignRef(t, r, b) ==
  IF SharedRefused(b)
  THEN RefuseRef(t, r, "mutableExists")
  ELSE /\ ref' = [ref EXCEPT ![r] = b] /\ Report(t, "ok")
       /\ shared' = [c \in Controls |->
                       IF c = b THEN ReleasedBy(r)[c] + 1 ELSE ReleasedBy(r)[c]]

\* An empty Owner is a null access.  After a handler that returned, the
\* reference to a null block is undefined; the outcome that goes on is an empty
\* borrow.
Borrow(t) ==
  \E o \in Owners, r \in Refs :
    /\ Count(t) /\ owns[o] # Absent /\ ref[r] = Absent
    /\ IF owns[o] \in Blocks THEN AssignRef(t, r, owns[o])
       ELSE RefuseRef(t, r, "null")
    /\ UNCHANGED <<owns, exclusive, token, holder, mut, call>>

\* Ref(const Ref&) when r does not exist, operator= when it does.
CopyRef(t) ==
  \E r, s \in Refs :
    /\ Count(t) /\ r # s /\ ref[s] # Absent
    /\ AssignRef(t, r, ref[s])
    /\ UNCHANGED <<owns, exclusive, token, holder, mut, call>>

\* Ref(Ref&&) when r does not exist, operator= when it does.
MoveRef(t) ==
  \E r, s \in Refs :
    /\ Count(t) /\ r # s /\ ref[s] # Absent
    /\ shared' = ReleasedBy(r)
    /\ ref' = [ref EXCEPT ![r] = ref[s], ![s] = Null]
    /\ Report(t, "ok")
    /\ UNCHANGED <<owns, exclusive, token, holder, mut, call>>

DropRef(t) ==
  \E r \in Refs :
    /\ call[t].at = "idle" /\ ref[r] # Absent
    /\ shared' = ReleasedBy(r)
    /\ ref' = [ref EXCEPT ![r] = Absent]
    /\ Report(t, "ok")
    /\ UNCHANGED <<owns, exclusive, token, holder, mut, call, calls>>

-----------------------------------------------------------------------------
(* Owner: by contract the borrows of a payload have ended before it does *)

Unborrowed(b) ==
  (\A r \in Refs : ref[r] # b) /\ \A g \in MutRefs : Exists(g) => mut[g].ctrl # b
Releasable(o) == owns[o] \in Blocks => Unborrowed(owns[o])

\* A new control block; one that was released may come back from the heap.
Construct(t) ==
  \E o \in Owners, b \in Blocks :
    /\ Count(t) /\ owns[o] = Absent
    /\ \A p \in Owners : owns[p] # b
    /\ owns' = [owns EXCEPT ![o] = b]
    /\ shared' = [shared EXCEPT ![b] = 0]
    /\ exclusive' = [exclusive EXCEPT ![b] = FALSE]
    /\ Report(t, "ok")
    /\ UNCHANGED <<token, holder, ref, mut, call>>

\* Owner(Owner&&) when p does not exist, operator= when it does; the block p
\* had is released.
MoveOwner(t) ==
  \E o, p \in Owners :
    /\ Count(t) /\ o # p /\ owns[o] # Absent /\ Releasable(p)
    /\ owns' = [owns EXCEPT ![p] = owns[o], ![o] = Null]
    /\ Report(t, "ok")
    /\ UNCHANGED <<ledgers, token, holder, ref, mut, call>>

DropOwner(t) ==
  \E o \in Owners :
    /\ Count(t) /\ owns[o] # Absent /\ Releasable(o)
    /\ owns' = [owns EXCEPT ![o] = Absent]
    /\ Report(t, "ok")
    /\ UNCHANGED <<ledgers, token, holder, ref, mut, call>>

-----------------------------------------------------------------------------
(* Owner::borrow_mut() and the end of a MutRef *)

\* acquire_mut() refuses while any borrow exists.
MutableRefused(c) == HasBorrow(c)

BorrowMut(t) ==
  \E o \in Owners, g \in MutRefs :
    /\ Count(t) /\ ~Exists(g)
    /\ \A u \in Threads : call[u].target # g
    /\ owns[o] # Absent
    /\ IF owns[o] = Null \/ MutableRefused(owns[o])
       THEN /\ Report(t, IF owns[o] = Null THEN "null" ELSE "borrowExists")
            /\ \/ "throw" \in Responses /\ UNCHANGED mut
               \/ "return" \in Responses /\ mut' = [mut EXCEPT ![g] = Empty]
            /\ UNCHANGED exclusive
       ELSE /\ exclusive' = [exclusive EXCEPT ![owns[o]] = TRUE]
            /\ mut' = [mut EXCEPT ![g] = Plain(owns[o])]
            /\ Report(t, "ok")
    /\ UNCHANGED <<owns, shared, token, holder, ref, call>>

\* The guards once g has given up its borrow and takes over that of s, or is
\* destroyed when there is no s.
CopiesOver(g, s) ==
  IF s = Null THEN [mut EXCEPT ![g] = Absent] ELSE [mut EXCEPT ![g] = mut[s]]
LosesHook(g, s) ==
  IF s = Null THEN [mut EXCEPT ![g] = Absent]
  ELSE [mut EXCEPT ![g] = [mut[s] EXCEPT !.state = Null], ![s] = Empty]
TakesOver(g, s) ==
  IF s = Null THEN [mut EXCEPT ![g] = Absent]
  ELSE [mut EXCEPT ![g] = mut[s], ![s] = Empty]

\* mutable_borrowed_ after release_mut() on the guard g.
ClearedBy(g) ==
  IF Exists(g) /\ mut[g].ctrl \in Controls
  THEN [exclusive EXCEPT ![mut[g].ctrl] = FALSE] ELSE exclusive

\* release(): through the hook, or the ledger token only, or nothing.
Release(t, g, s) ==
  IF Exists(g) /\ mut[g].state \in Mutexes
  THEN /\ call' = [call EXCEPT ![t] =
             [at |-> "clearFlag", mutex |-> mut[g].state, target |-> g,
              source |-> s]]
       /\ UNCHANGED <<exclusive, mut>>
  ELSE /\ mut' = TakesOver(g, s)
       /\ exclusive' = ClearedBy(g)
       /\ UNCHANGED call

DropMut(t) ==
  \E g \in MutRefs :
    /\ call[t].at = "idle" /\ Exists(g) /\ Usable(t, g)
    /\ Release(t, g, Null)
    /\ Report(t, "ok")
    /\ UNCHANGED <<owns, shared, token, holder, ref, calls>>

\* MutRef(MutRef&&) when g does not exist, operator= when it does.
MoveMut(t) ==
  \E g, s \in MutRefs :
    /\ Count(t) /\ g # s /\ Exists(s) /\ Usable(t, s) /\ Usable(t, g)
    /\ Release(t, g, s)
    /\ Report(t, "ok")
    /\ UNCHANGED <<owns, shared, token, holder, ref>>

-----------------------------------------------------------------------------
(* operator* and operator-> *)

\* A payload, or a null access.  After a handler that returned the caller has
\* a null pointer; what it does with it is no longer a call of the library.
RequireValue(t, c) ==
  /\ Count(t) /\ c # Absent
  /\ Report(t, IF c \in Controls THEN "ok" ELSE "null")
  /\ UNCHANGED <<owns, ledgers, token, holder, ref, mut, call>>

ReadRef(t) == \E r \in Refs : RequireValue(t, ref[r])
UseMut(t) ==
  \E g \in MutRefs : Exists(g) /\ Usable(t, g) /\ RequireValue(t, mut[g].ctrl)
UseOwner(t) == \E o \in Owners : RequireValue(t, owns[o])

-----------------------------------------------------------------------------
(* Mutex::lock(): the program locks mutexes in increasing order *)

Lock(t) ==
  \E m \in Mutexes, g \in MutRefs :
    /\ Count(t) /\ ~Exists(g)
    /\ \A u \in Threads : call[u].target # g
    /\ \A n \in Mutexes : holder[n] = t => n < m
    /\ call' = [call EXCEPT ![t] =
         [at |-> "acquire", mutex |-> m, target |-> g, source |-> Null]]
    /\ UNCHANGED <<owns, ledgers, token, holder, ref, mut, outcome>>

\* mutex_.lock() returns.
Acquire(t) ==
  LET m == call[t].mutex IN
  /\ call[t].at = "acquire" /\ holder[m] = Null
  /\ holder' = [holder EXCEPT ![m] = t]
  /\ Goto(t, "record")
  /\ UNCHANGED <<owns, ledgers, token, ref, mut, outcome, calls>>

\* record_lock_borrow(): a token that is there already is a violation; its
\* exception unlocks, and a handler that returns leaves the token set.
Record(t) ==
  LET m == call[t].mutex IN
  /\ call[t].at = "record"
  /\ IF token[m] = 0
     THEN /\ token' = [token EXCEPT ![m] = 1]
          /\ Goto(t, "arm")
          /\ UNCHANGED <<holder, outcome>>
     ELSE /\ Report(t, "borrowExists")
          /\ \/ /\ "throw" \in Responses /\ Return(t)
                /\ holder' = [holder EXCEPT ![m] = Null]
                /\ UNCHANGED token
             \/ /\ "return" \in Responses /\ Goto(t, "arm")
                /\ token' = [token EXCEPT ![m] = 1]
                /\ UNCHANGED holder
  /\ UNCHANGED <<owns, ledgers, ref, mut, calls>>

\* MutRef(ctrl, hook, state): when the borrow is refused the hook runs at once,
\* and the lock() throws or returns an empty MutRef.
Arm(t) ==
  LET m == call[t].mutex
      g == call[t].target
  IN /\ call[t].at = "arm"
     /\ IF MutableRefused(m)
        THEN /\ Report(t, "borrowExists") /\ Goto(t, "clearFlag")
             /\ \/ "throw" \in Responses /\ UNCHANGED mut
                \/ "return" \in Responses /\ mut' = [mut EXCEPT ![g] = Empty]
             /\ UNCHANGED exclusive
        ELSE /\ exclusive' = [exclusive EXCEPT ![m] = TRUE]
             /\ mut' = [mut EXCEPT ![g] = Hooked(m)]
             /\ Report(t, "ok") /\ Return(t)
     /\ UNCHANGED <<owns, shared, token, holder, ref, calls>>

-----------------------------------------------------------------------------
(* release_mutex_borrow() *)

\* The flag is left to be cleared after the mutex is given back.
ClearFlagLate(t) ==
  LET m == call[t].mutex IN
  /\ call[t].at = "clearFlag"
  /\ \/ /\ holder[m] = t
        /\ holder' = [holder EXCEPT ![m] = Null]
        /\ UNCHANGED <<exclusive, call>>
     \/ /\ holder[m] # t
        /\ exclusive' = [exclusive EXCEPT ![m] = FALSE]
        /\ Goto(t, "clearToken")
        /\ UNCHANGED holder
  /\ UNCHANGED <<owns, shared, token, ref, mut, outcome, calls>>

ClearFlag(t) ==
  /\ call[t].at = "clearFlag"
  /\ exclusive' = [exclusive EXCEPT ![call[t].mutex] = FALSE]
  /\ Goto(t, "clearToken")
  /\ UNCHANGED <<owns, shared, token, holder, ref, mut, outcome, calls>>

UnlockEarly(t) ==
  LET m == call[t].mutex IN
  /\ call[t].at = "clearToken"
  /\ holder' = [holder EXCEPT ![m] = Null]
  /\ Goto(t, "unlock")
  /\ UNCHANGED <<owns, ledgers, token, ref, mut, outcome, calls>>

ClearToken(t) ==
  /\ call[t].at = "clearToken"
  /\ token' = [token EXCEPT ![call[t].mutex] = 0]
  /\ Goto(t, "unlock")
  /\ UNCHANGED <<owns, ledgers, holder, ref, mut, outcome, calls>>

\* mutex_.unlock(); only this thread sees what becomes of its guard then.
Unlock(t) ==
  LET c == call[t] IN
  /\ c.at = "unlock"
  /\ holder' = [holder EXCEPT ![c.mutex] = Null]
  /\ mut' = IF Exists(c.target) /\ mut[c.target].state = c.mutex
            THEN TakesOver(c.target, c.source) ELSE mut
  /\ Return(t)
  /\ UNCHANGED <<owns, ledgers, token, ref, outcome, calls>>

-----------------------------------------------------------------------------
Call(t) ==
  \/ Borrow(t) \/ CopyRef(t) \/ MoveRef(t) \/ DropRef(t)
  \/ Construct(t) \/ MoveOwner(t) \/ DropOwner(t)
  \/ BorrowMut(t) \/ DropMut(t) \/ MoveMut(t) \/ Lock(t)
  \/ ReadRef(t) \/ UseMut(t) \/ UseOwner(t)
Proceed(t) ==
  \/ Acquire(t) \/ Record(t) \/ Arm(t)
  \/ ClearFlag(t) \/ ClearToken(t) \/ Unlock(t)

\* The program may stop between operations.
Finished == (\A t \in Threads : call[t].at = "idle") /\ UNCHANGED vars

Next == (\E t \in Threads : Call(t) \/ Proceed(t)) \/ Finished

Spec == Init /\ [][Next]_vars

\* Threads keep running inside calls, and scopes end: a thread that is not
\* inside a call destroys the guards it can.
Fairness == \A t \in Threads : WF_vars(Proceed(t)) /\ WF_vars(DropMut(t))
FairSpec == Spec /\ Fairness

-----------------------------------------------------------------------------
(* Properties *)

\* Every field stays in its C++ type.
TypeOK ==
  /\ owns \in [Owners -> Blocks \union {Null, Absent}]
  /\ shared \in [Controls -> Nat]
  /\ exclusive \in [Controls -> BOOLEAN]
  /\ token \in [Mutexes -> 0 .. 1]
  /\ holder \in [Mutexes -> Threads \union {Null}]
  /\ ref \in [Refs -> Blocks \union {Null, Absent}]
  /\ mut \in [MutRefs -> MutRefValues \union {Absent}]
  /\ call \in [Threads -> Calls]
  /\ outcome \in [Threads -> Outcomes]
  /\ calls \in 0 .. MaxCalls

Readers(c) == {r \in Refs : ref[r] = c}
Writers(c) == {g \in MutRefs : Exists(g) /\ mut[g].ctrl = c}
Releasing(g) == \E t \in Threads : call[t].target = g \/ call[t].source = g

\* The two fields of an Owner's ledger count exactly its live borrows, a
\* mutable one is alone, and a borrowed block has exactly one Owner, through
\* copies, moves between the two kinds of MutRef, moves of the owners, refusals
\* that throw or return, and reuse of control blocks
\* (borrow_ctrl, owner.hpp:376-470; Owner moves, 1117-1149).
OwnerLedgerExact ==
  \A b \in Blocks :
    /\ shared[b] = Cardinality(Readers(b))
    /\ exclusive[b] = (Writers(b) # {})
    /\ Cardinality(Writers(b)) <= 1
    /\ Writers(b) # {} => Readers(b) = {}
    /\ Readers(b) \union Writers(b) # {} =>
         Cardinality({o \in Owners : owns[o] = b}) = 1

\* A mutex-backed MutRef that is not being released is the only one of its
\* mutex, and both ledgers and the lock are held for it
\* (lock() and the hook, sync.hpp:2309-2424).
GuardHoldsLock ==
  \A m \in Mutexes : \A g \in Writers(m) :
    /\ Writers(m) = {g}
    /\ holder[m] # Null
    /\ Releasing(g) \/ (token[m] = 1 /\ exclusive[m] /\ mut[g].state = m)

\* mutable_borrowed_ of a mutex's control block is not atomic: only the thread
\* that holds the mutex changes it (MutRef hook constructor, owner.hpp:977-983).
PlainFlagIsGuarded ==
  [][\A m \in Mutexes : exclusive'[m] # exclusive[m] =>
       \E t \in Threads : holder[m] = t /\ holder'[m] = t /\ call[t].mutex = m]_vars

\* Every lock() returns if the guards go out of scope: no move or assignment
\* of a MutRef loses the obligation to unlock.
LocksReturn ==
  \A t \in Threads : call[t].at = "acquire" ~> call[t].at = "idle"

=============================================================================
