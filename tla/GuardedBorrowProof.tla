------------------------ MODULE GuardedBorrowProof -------------------------
(***************************************************************************)
(* The two ledgers of Owner and Mutex, proved for any number of threads,    *)
(* owners, mutexes and guards: an Owner's ledger counts its borrows, a      *)
(* guard of a Mutex holds the lock, the plain flag of a Mutex is written    *)
(* under its lock only, and both keep the promise of ReadersWriter.         *)
(***************************************************************************)
EXTENDS GuardedBorrowRW, FiniteSetTheorems, TLAPS

\* A MutRef is empty, borrows from an Owner, or carries a mutex.
GuardKinds ==
  \A g \in MutRefs : Exists(g) =>
    \/ mut[g].state = Null /\ mut[g].ctrl \in Blocks \union {Null}
    \/ mut[g].state \in Mutexes /\ mut[g].ctrl = mut[g].state

Locking == {"acquire", "record", "arm"}
Unlocking == {"clearFlag", "clearToken", "unlock"}
Inside == {"record", "arm"} \union Unlocking

\* What a lock() and a release hook work on.
WellFormed(t) ==
  LET c == call[t] IN
  /\ c.at = "idle" => c = Idle
  /\ c.at \in Locking => /\ c.mutex \in Mutexes /\ c.target \in MutRefs
                         /\ ~Exists(c.target) /\ c.source = Null
  /\ c.at \in Unlocking => /\ c.mutex \in Mutexes /\ c.target \in MutRefs
                           /\ Exists(c.target) /\ mut[c.target].state = c.mutex
                           /\ c.source # c.target
                           /\ c.source # Null => Exists(c.source)
                           /\ outcome[t] = "ok"

\* No two calls work on one guard.
Undisturbed ==
  \A t, u \in Threads : t # u =>
    /\ call[t].target # Null =>
         call[t].target # call[u].target /\ call[t].target # call[u].source
    /\ call[t].source # Null => call[t].source # call[u].source

CallsWellFormed == (\A t \in Threads : WellFormed(t)) /\ Undisturbed

\* How far the owner of a mutex has come with it.
Within(t, m) == call[t].mutex = m /\ call[t].at \in Inside
Stage(m) ==
  IF holder[m] = Null THEN "free"
  ELSE IF Within(holder[m], m) THEN call[holder[m]].at ELSE "held"

\* The stage decides the token, the flag and whether a guard carries the mutex.
MutexFits(m) ==
  /\ \A t \in Threads : Within(t, m) => holder[m] = t
  /\ token[m] = IF Stage(m) \in {"free", "record", "unlock"} THEN 0 ELSE 1
  /\ exclusive[m] <=> Stage(m) \in {"held", "clearFlag"}
  /\ Writers(m) # {} <=> Stage(m) \in {"held"} \union Unlocking
  /\ \A g, h \in Writers(m) : g = h
  /\ shared[m] = 0

\* An Owner's ledger counts its borrows, and a mutable one is alone.
BlockFits(b) ==
  /\ shared[b] = Cardinality(Readers(b))
  /\ exclusive[b] <=> Writers(b) # {}
  /\ \A g, h \in Writers(b) : g = h
  /\ Writers(b) # {} => Readers(b) = {}

Ledger == (\A m \in Mutexes : MutexFits(m)) /\ (\A b \in Blocks : BlockFits(b))

\* Each payload has at most one Owner, and each borrowed one an Owner.
Owned ==
  /\ \A o, p \in Owners : o # p /\ owns[o] = owns[p] => owns[o] \notin Blocks
  /\ \A b \in Blocks : Readers(b) \union Writers(b) # {} => \E o \in Owners : owns[o] = b

Shape == TypeOK /\ GuardKinds /\ CallsWellFormed
Inv == Shape /\ Ledger /\ Owned

-----------------------------------------------------------------------------
(* The constants and the sets that are counted *)

LEMMA Constants ==
  /\ Null # Absent /\ Null \notin Controls \union Threads \union Refs \union MutRefs
  /\ Absent \notin Controls \union Threads \union Refs \union MutRefs
  /\ Absent \notin MutRefValues
  /\ Blocks \subseteq Controls /\ Mutexes \subseteq Controls
  /\ Controls = Blocks \union Mutexes /\ Blocks \cap Mutexes = {}
BY NamesAssumption DEF Controls, MutRefValues

LEMMA GuardValues ==
  /\ Empty \in MutRefValues /\ Empty.ctrl = Null /\ Empty.state = Null
  /\ \A b \in Blocks : /\ Plain(b) \in MutRefValues
                       /\ Plain(b).ctrl = b /\ Plain(b).state = Null
  /\ \A m \in Mutexes : /\ Hooked(m) \in MutRefValues
                        /\ Hooked(m).ctrl = m /\ Hooked(m).state = m
BY DEF Empty, Plain, Hooked, MutRefValues, Controls

LEMMA ReadersFinite ==
  \A c : IsFiniteSet(Readers(c)) /\ Cardinality(Readers(c)) <= Cardinality(Refs)
<1> SUFFICES ASSUME NEW c
             PROVE  IsFiniteSet(Readers(c)) /\ Cardinality(Readers(c)) <= Cardinality(Refs)
  OBVIOUS
<1>1. Readers(c) \subseteq Refs
  BY DEF Readers
<1> QED
  BY <1>1, NamesAssumption, FS_Subset

-----------------------------------------------------------------------------
(* Frames: what a step leaves alone stays right *)

\* A step of one call disturbs no other that works on other guards.
LEMMA CallFrame ==
  ASSUME Shape, NEW t \in Threads, NEW c \in Calls,
         call' = [call EXCEPT ![t] = c], WellFormed(t)',
         \A u \in Threads \ {t} :
           {c.target, c.source} \cap {call[u].target, call[u].source} \subseteq {Null},
         \A u \in Threads \ {t} :
           /\ outcome'[u] = outcome[u]
           /\ \A g \in MutRefs : g \in {call[u].target, call[u].source} => mut'[g] = mut[g]
  PROVE  call' \in [Threads -> Calls] /\ CallsWellFormed'
<1> USE DEF Shape, TypeOK, CallsWellFormed
<1>1. /\ call' \in [Threads -> Calls] /\ call'[t] = c
      /\ \A u \in Threads \ {t} : call'[u] = call[u]
  OBVIOUS
<1>2. ASSUME NEW u \in Threads, u # t PROVE WellFormed(u)'
  <2> PICK d \in Calls : d = call[u]
    OBVIOUS
  <2>1. call'[u] = d /\ outcome'[u] = outcome[u] /\ WellFormed(u)
    BY <1>1, <1>2
  <2>2. \A g \in {d.target, d.source} : g # Null => mut'[g] = mut[g]
    BY <1>2 DEF Calls
  <2>3. d.at \in Locking \union Unlocking => d.target # Null
    BY <2>1, Constants DEF WellFormed
  <2> QED
    BY <2>1, <2>2, <2>3 DEF WellFormed, Exists
<1>3. ASSUME NEW u \in Threads, NEW v \in Threads, u # v
      PROVE  /\ call'[u].target # Null =>
                  call'[u].target # call'[v].target /\ call'[u].target # call'[v].source
             /\ call'[u].source # Null => call'[u].source # call'[v].source
  <2>1. CASE u # t /\ v # t
    BY <1>1, <1>3, <2>1 DEF Undisturbed
  <2>2. CASE u = t \/ v = t
    BY <1>1, <1>3, <2>2
  <2> QED
    BY <2>1, <2>2
<1> QED
  BY <1>1, <1>2, <1>3 DEF Undisturbed

\* So the guards of two calls are apart.
LEMMA Apart ==
  ASSUME Shape, NEW t \in Threads
  PROVE  \A u \in Threads \ {t} :
           {call[t].target, call[t].source} \cap {call[u].target, call[u].source}
             \subseteq {Null}
BY DEF Shape, CallsWellFormed, Undisturbed

\* A mutex and its guards that a step does not touch.
LEMMA MutexFrame ==
  ASSUME Shape, NEW m \in Mutexes, MutexFits(m),
         /\ holder'[m] = holder[m] /\ token'[m] = token[m]
         /\ exclusive'[m] = exclusive[m] /\ shared'[m] = shared[m],
         Writers(m)' # {} <=> Writers(m) # {},
         \A g, h \in Writers(m)' : g = h,
         \A u \in Threads : call'[u] = call[u] \/ (~Within(u, m) /\ ~Within(u, m)')
  PROVE  MutexFits(m)'
<1>1. \A u \in Threads : Within(u, m)' <=> Within(u, m)
  BY DEF Within
<1>2. holder[m] \in Threads \union {Null}
  BY DEF Shape, TypeOK
<1>3. Stage(m)' = Stage(m)
  BY <1>1, <1>2 DEF Stage, Within
<1> QED
  BY <1>1, <1>3 DEF MutexFits

\* A thread that is not inside a call reports something: no call is disturbed.
LEMMA IdleFrame ==
  ASSUME Shape, NEW t \in Threads, call[t].at = "idle",
         \A u \in Threads \ {t} : outcome'[u] = outcome[u], UNCHANGED <<mut, call>>
  PROVE  GuardKinds' /\ CallsWellFormed'
<1>1. GuardKinds' /\ Undisturbed'
  BY DEF Shape, CallsWellFormed, GuardKinds, Exists, Undisturbed
<1>2. ASSUME NEW u \in Threads PROVE WellFormed(u)'
  <2>1. WellFormed(u) /\ (call[u].at \in Unlocking => outcome'[u] = outcome[u])
    BY DEF Shape, CallsWellFormed, Unlocking
  <2> QED
    BY <2>1 DEF WellFormed, Exists
<1> QED
  BY <1>1, <1>2 DEF CallsWellFormed

-----------------------------------------------------------------------------
(* Ref *)

\* The ledger after a release counts the other references.
LEMMA Released ==
  ASSUME Shape, Ledger, NEW r \in Refs
  PROVE  /\ ReleasedBy(r) \in [Controls -> Nat]
         /\ \A b \in Blocks : ReleasedBy(r)[b] = Cardinality(Readers(b) \ {r})
         /\ \A m \in Mutexes : ReleasedBy(r)[m] = shared[m]
<1> USE DEF Shape, TypeOK
<1>1. \A b \in Blocks : shared[b] = Cardinality(Readers(b)) /\ (r \in Readers(b) <=> ref[r] = b)
  BY DEF Ledger, BlockFits, Readers
<1>2. CASE ref[r] \in Blocks
  <2> PICK a \in Blocks : a = ref[r]
    BY <1>2
  <2>1. Cardinality(Readers(a) \ {r}) = shared[a] - 1 /\ shared[a] # 0
    <3>1. IsFiniteSet(Readers(a)) /\ r \in Readers(a) /\ shared[a] = Cardinality(Readers(a))
      BY <1>1, ReadersFinite
    <3>2. Cardinality(Readers(a) \ {r}) = Cardinality(Readers(a)) - 1
      BY <3>1, FS_RemoveElement
    <3>3. Readers(a) # {}
      BY <3>1
    <3>4. Cardinality(Readers(a)) # 0
      BY <3>1, <3>3, FS_EmptySet
    <3> QED
      BY <3>1, <3>2, <3>4
  <2>2. ReleasedBy(r) = [shared EXCEPT ![a] = @ - 1]
    BY <1>2, <2>1 DEF ReleasedBy
  <2>3. shared[a] \in Nat /\ shared[a] - 1 \in Nat
    BY <2>1, Constants
  <2>4. \A b \in Blocks \ {a} : Cardinality(Readers(b) \ {r}) = shared[b]
    <3>1. \A b \in Blocks \ {a} : Readers(b) \ {r} = Readers(b)
      BY <1>1
    <3> QED
      BY <1>1, <3>1
  <2>5. a \in Controls /\ \A c \in Controls : ReleasedBy(r)[c] = IF c = a THEN shared[a] - 1 ELSE shared[c]
    BY <2>2, Constants
  <2>6. ReleasedBy(r) \in [Controls -> Nat]
    BY <2>2, <2>3, <2>5
  <2> QED
    BY <2>1, <2>4, <2>5, <2>6, Constants
<1>3. CASE ref[r] \notin Blocks
  <2>1. \A b \in Blocks : Readers(b) \ {r} = Readers(b)
    BY <1>1, <1>3
  <2>2. \A b \in Blocks : Cardinality(Readers(b) \ {r}) = shared[b]
    BY <1>1, <2>1
  <2> QED
    BY <1>3, <2>2 DEF ReleasedBy
<1> QED
  BY <1>2, <1>3

\* What remains to be shown of a step that changes references only: it counts
\* them, and gives a first one only to a block without a mutable borrow.
LEMMA RefFrame ==
  ASSUME Inv, NEW t \in Threads, call[t].at = "idle", NEW v \in Outcomes, Report(t, v),
         calls' \in 0 .. MaxCalls,
         UNCHANGED <<owns, exclusive, token, holder, mut, call>>,
         ref' \in [Refs -> Blocks \union {Null, Absent}], shared' \in [Controls -> Nat],
         \A m \in Mutexes : shared'[m] = shared[m],
         \A b \in Blocks :
           /\ shared'[b] = Cardinality(Readers(b)')
           /\ Readers(b)' # {} =>
                Readers(b) # {} \/ (~exclusive[b] /\ \E o \in Owners : owns[o] = b)
  PROVE  Inv'
<1>1. TypeOK' /\ GuardKinds' /\ CallsWellFormed'
  BY IdleFrame DEF Inv, Shape, TypeOK, Report
<1>2. \A c : Writers(c)' = Writers(c)
  BY DEF Writers, Exists
<1>3. \A m \in Mutexes : MutexFits(m)'
  BY <1>2, MutexFrame DEF Inv, Ledger, MutexFits
<1>4. \A b \in Blocks : BlockFits(b)'
  BY <1>2 DEF Inv, Ledger, BlockFits
<1>5. Owned'
  BY <1>2 DEF Inv, Owned
<1> QED
  BY <1>1, <1>3, <1>4, <1>5 DEF Inv, Shape, Ledger

\* The reference r is given up.
LEMMA GiveUp ==
  ASSUME Inv, NEW t \in Threads, call[t].at = "idle", NEW v \in Outcomes, Report(t, v),
         calls' \in 0 .. MaxCalls,
         UNCHANGED <<owns, exclusive, token, holder, mut, call>>,
         NEW r \in Refs, NEW n \in {Null, Absent},
         ref' = [ref EXCEPT ![r] = n], shared' = ReleasedBy(r)
  PROVE  Inv'
<1>1. /\ ref' \in [Refs -> Blocks \union {Null, Absent}]
      /\ \A q \in Refs : ref'[q] = IF q = r THEN n ELSE ref[q]
  BY DEF Inv, Shape, TypeOK
<1>2. \A b \in Blocks : Readers(b)' = Readers(b) \ {r}
  BY <1>1, Constants DEF Readers
<1> QED
  BY <1>1, <1>2, Released, RefFrame DEF Inv

LEMMA RefuseRefInv ==
  ASSUME Inv, NEW t \in Threads, call[t].at = "idle", NEW r \in Refs, NEW v \in Outcomes,
         RefuseRef(t, r, v), calls' \in 0 .. MaxCalls,
         UNCHANGED <<owns, exclusive, token, holder, mut, call>>
  PROVE  Inv'
<1>1. CASE UNCHANGED <<ref, shared>>
  <2>1. \A b \in Blocks : Readers(b)' = Readers(b) /\ shared[b] = Cardinality(Readers(b))
    BY <1>1 DEF Readers, Inv, Ledger, BlockFits
  <2> QED
    BY <1>1, <2>1, RefFrame DEF RefuseRef, Inv, Shape, TypeOK
<1>2. CASE ref' = [ref EXCEPT ![r] = Null] /\ shared' = ReleasedBy(r)
  BY <1>2, GiveUp DEF RefuseRef
<1> QED
  BY <1>1, <1>2 DEF RefuseRef

LEMMA AssignRefInv ==
  ASSUME Inv, NEW t \in Threads, call[t].at = "idle", NEW r \in Refs,
         NEW b \in Blocks \union {Null}, AssignRef(t, r, b), calls' \in 0 .. MaxCalls,
         UNCHANGED <<owns, exclusive, token, holder, mut, call>>,
         b # Null => \E o \in Owners : owns[o] = b
  PROVE  Inv'
<1>1. CASE SharedRefused(b)
  BY <1>1, RefuseRefInv DEF AssignRef, Outcomes
<1>2. CASE ~SharedRefused(b)
  <2>1. /\ ref' = [ref EXCEPT ![r] = b] /\ Report(t, "ok")
        /\ shared' = [c \in Controls |->
                        IF c = b THEN ReleasedBy(r)[c] + 1 ELSE ReleasedBy(r)[c]]
    BY <1>2 DEF AssignRef
  <2>2. /\ ref' \in [Refs -> Blocks \union {Null, Absent}]
        /\ \A q \in Refs : ref'[q] = IF q = r THEN b ELSE ref[q]
    BY <2>1 DEF Inv, Shape, TypeOK
  <2>3. /\ shared' \in [Controls -> Nat] /\ \A m \in Mutexes : shared'[m] = shared[m]
        /\ \A a \in Blocks : shared'[a] = Cardinality(Readers(a) \ {r}) + IF a = b THEN 1 ELSE 0
    <3>1. /\ ReleasedBy(r) \in [Controls -> Nat]
          /\ \A a \in Blocks : ReleasedBy(r)[a] = Cardinality(Readers(a) \ {r})
          /\ \A m \in Mutexes : ReleasedBy(r)[m] = shared[m]
      BY Released DEF Inv
    <3>2. \A c \in Controls :
            shared'[c] = IF c = b THEN ReleasedBy(r)[c] + 1 ELSE ReleasedBy(r)[c]
      BY <2>1
    <3>3. shared' \in [Controls -> Nat]
      BY <2>1, <3>1
    <3> QED
      BY <3>1, <3>2, <3>3, Constants
  <2>4. ASSUME NEW a \in Blocks
        PROVE  /\ shared'[a] = Cardinality(Readers(a)')
               /\ a # b => Readers(a)' = Readers(a) \ {r}
    <3> PICK rest : rest = Readers(a) \ {r}
      OBVIOUS
    <3>1. shared'[a] = Cardinality(rest) + IF a = b THEN 1 ELSE 0
      BY <2>3
    <3>2. IsFiniteSet(rest) /\ r \notin rest
      BY ReadersFinite, FS_RemoveElement
    <3>3. Cardinality(rest \union {r}) = Cardinality(rest) + 1 /\ Cardinality(rest) \in Nat
      BY <3>2, FS_AddElement, FS_CardinalityType
    <3>4. Readers(a)' = IF a = b THEN rest \union {r} ELSE rest
      BY <2>2 DEF Readers
    <3> QED
      BY <3>1, <3>3, <3>4
  <2>5. b \in Blocks => ~exclusive[b] /\ \E o \in Owners : owns[o] = b
    BY <1>2, Constants DEF SharedRefused
  <2> QED
    BY <2>1, <2>2, <2>3, <2>4, <2>5, RefFrame DEF Outcomes
<1> QED
  BY <1>1, <1>2

\* Moving a reference keeps their number.
LEMMA MoveRefInv ==
  ASSUME Inv, NEW t \in Threads, MoveRef(t)
  PROVE  Inv'
<1> USE DEF Inv, Shape, TypeOK
<1>1. PICK r \in Refs, s \in Refs :
        /\ Count(t) /\ r # s /\ ref[s] # Absent
        /\ shared' = ReleasedBy(r)
        /\ ref' = [ref EXCEPT ![r] = ref[s], ![s] = Null]
        /\ Report(t, "ok")
        /\ UNCHANGED <<owns, exclusive, token, holder, mut, call>>
  BY DEF MoveRef
<1>2. /\ ref' \in [Refs -> Blocks \union {Null, Absent}]
      /\ \A q \in Refs : ref'[q] = IF q = s THEN Null ELSE IF q = r THEN ref[s] ELSE ref[q]
  BY <1>1
<1>3. ASSUME NEW a \in Blocks
      PROVE  /\ Cardinality(Readers(a)') = Cardinality(Readers(a) \ {r})
             /\ Readers(a)' # {} => Readers(a) # {}
  <2>1. IsFiniteSet(Readers(a) \ {r})
    BY ReadersFinite, FS_RemoveElement
  <2>2. CASE ref[s] = a
    <3> PICK others : others = Readers(a) \ {r}
      OBVIOUS
    <3> PICK rest : rest = others \ {s}
      OBVIOUS
    <3>1. Readers(a)' = rest \union {r} /\ s \in others /\ r \notin rest
      BY <1>1, <1>2, <2>2, Constants DEF Readers
    <3>2. IsFiniteSet(others) /\ Cardinality(others) \in Nat
      BY <2>1, FS_CardinalityType
    <3>3. IsFiniteSet(rest) /\ Cardinality(rest) = Cardinality(others) - 1
      BY <3>1, <3>2, FS_RemoveElement
    <3>4. Cardinality(rest \union {r}) = Cardinality(rest) + 1
      BY <3>1, <3>3, FS_AddElement
    <3>5. Cardinality(Readers(a)') = Cardinality(others)
      BY <3>1, <3>2, <3>3, <3>4
    <3> QED
      BY <3>1, <3>5
  <2>3. CASE ref[s] # a
    <3>1. Readers(a)' = Readers(a) \ {r}
      BY <1>2, <2>3, Constants DEF Readers
    <3> QED
      BY <3>1
  <2> QED
    BY <2>2, <2>3
<1>4. calls' \in 0 .. MaxCalls /\ call[t].at = "idle"
  BY <1>1, MutexAssumption DEF Count
<1> QED
  BY <1>1, <1>2, <1>3, <1>4, Released, RefFrame DEF Outcomes

LEMMA RefInv ==
  ASSUME Inv, NEW t \in Threads, Borrow(t) \/ CopyRef(t) \/ MoveRef(t) \/ DropRef(t)
  PROVE  Inv'
<1>1. Count(t) => calls' \in 0 .. MaxCalls /\ call[t].at = "idle"
  BY MutexAssumption DEF Count, Inv, Shape, TypeOK
<1>2. CASE Borrow(t)
  BY <1>1, <1>2, AssignRefInv, RefuseRefInv, Constants DEF Borrow, Outcomes
<1>3. CASE CopyRef(t)
  <2>1. PICK r \in Refs, s \in Refs :
          /\ Count(t) /\ ref[s] # Absent
          /\ AssignRef(t, r, ref[s])
          /\ UNCHANGED <<owns, exclusive, token, holder, mut, call>>
    BY <1>3 DEF CopyRef
  <2>2. ref[s] \in Blocks \union {Null}
    BY <2>1 DEF Inv, Shape, TypeOK
  <2>3. ref[s] # Null => \E o \in Owners : owns[o] = ref[s]
    BY <2>2 DEF Inv, Owned, Readers
  <2> QED
    BY <1>1, <2>1, <2>2, <2>3, AssignRefInv
<1>4. CASE DropRef(t)
  BY <1>4, GiveUp DEF DropRef, Outcomes, Inv, Shape, TypeOK
<1> QED
  BY <1>2, <1>3, <1>4, MoveRefInv

-----------------------------------------------------------------------------
(* Owner *)

LEMMA OwnerInv ==
  ASSUME Inv, NEW t \in Threads, Construct(t) \/ MoveOwner(t) \/ DropOwner(t)
  PROVE  Inv'
<1> USE DEF Inv, Shape, TypeOK
<1>1. /\ call[t].at = "idle" /\ calls' \in 0 .. MaxCalls /\ Report(t, "ok")
      /\ UNCHANGED <<token, holder, ref, mut, call>>
  BY MutexAssumption DEF Construct, MoveOwner, DropOwner, Count
<1>2. /\ GuardKinds' /\ CallsWellFormed'
      /\ outcome' \in [Threads -> Outcomes]
  BY <1>1, IdleFrame DEF Report, Outcomes
<1>3. \A c : Readers(c)' = Readers(c) /\ Writers(c)' = Writers(c)
  BY <1>1 DEF Readers, Writers, Exists
<1>4. CASE Construct(t)
  <2>1. PICK o \in Owners, b \in Blocks :
          /\ owns[o] = Absent /\ \A p \in Owners : owns[p] # b
          /\ owns' = [owns EXCEPT ![o] = b]
          /\ shared' = [shared EXCEPT ![b] = 0]
          /\ exclusive' = [exclusive EXCEPT ![b] = FALSE]
    BY <1>4 DEF Construct
  <2>2. Readers(b) = {} /\ Writers(b) = {}
    BY <2>1 DEF Owned
  <2>3. TypeOK'
    BY <1>1, <1>2, <2>1, Constants
  <2>4. \A c \in Controls : /\ shared'[c] = IF c = b THEN 0 ELSE shared[c]
                            /\ exclusive'[c] = IF c = b THEN FALSE ELSE exclusive[c]
    BY <2>1, Constants
  <2>5. ASSUME NEW m \in Mutexes PROVE MutexFits(m)'
    <3>1. shared'[m] = shared[m] /\ exclusive'[m] = exclusive[m]
      <4>1. m \in Controls /\ m # b
        BY Constants
      <4> QED
        BY <2>1, <4>1
    <3>2. MutexFits(m) /\ \A g, h \in Writers(m)' : g = h
      BY <1>3 DEF Ledger, MutexFits
    <3> QED
      BY <1>1, <1>3, <3>1, <3>2, MutexFrame
  <2>6. Cardinality(Readers(b)) = 0
    BY <2>2, FS_EmptySet
  <2>7. \A a \in Blocks : BlockFits(a)'
    BY <1>3, <2>2, <2>4, <2>6, Constants DEF Ledger, BlockFits
  <2>8. \A p \in Owners : owns'[p] = IF p = o THEN b ELSE owns[p]
    BY <2>1
  <2>9. Owned'
    BY <1>3, <2>1, <2>2, <2>8, Constants DEF Owned
  <2> QED
    BY <1>2, <2>3, <2>5, <2>7, <2>9 DEF Ledger
<1>5. CASE MoveOwner(t) \/ DropOwner(t)
  <2>1. UNCHANGED ledgers
    BY <1>5 DEF MoveOwner, DropOwner
  <2>2. owns' \in [Owners -> Blocks \union {Null, Absent}]
    BY <1>5 DEF MoveOwner, DropOwner
  <2>3. \A m \in Mutexes : MutexFits(m)'
    BY <1>1, <1>3, <2>1, MutexFrame DEF ledgers, Ledger, MutexFits
  <2>4. \A a \in Blocks : BlockFits(a)'
    BY <1>3, <2>1 DEF ledgers, Ledger, BlockFits
  <2>5. \A o \in Owners, b \in Blocks :
          owns[o] = b /\ Releasable(o) => Readers(b) = {} /\ Writers(b) = {}
    BY DEF Releasable, Unborrowed, Readers, Writers
  <2>6. ASSUME MoveOwner(t) PROVE Owned'
    <3>1. PICK o \in Owners, p \in Owners :
            /\ o # p /\ Releasable(p) /\ owns' = [owns EXCEPT ![p] = owns[o], ![o] = Null]
      BY <2>6 DEF MoveOwner
    <3>2. \A q \in Owners :
            owns'[q] = IF q = o THEN Null ELSE IF q = p THEN owns[o] ELSE owns[q]
      BY <3>1
    <3>3. \A q, u \in Owners : q # u /\ owns'[q] = owns'[u] => owns'[q] \notin Blocks
      BY <3>1, <3>2, Constants DEF Owned
    <3>4. ASSUME NEW b \in Blocks, Readers(b) \union Writers(b) # {}
          PROVE  \E q \in Owners : owns'[q] = b
      <4>1. PICK q \in Owners : owns[q] = b
        BY <3>4 DEF Owned
      <4>2. q # p
        BY <2>5, <3>1, <3>4, <4>1
      <4> QED
        BY <3>1, <3>2, <4>1, <4>2
    <3> QED
      BY <1>3, <3>3, <3>4 DEF Owned
  <2>7. ASSUME DropOwner(t) PROVE Owned'
    <3>1. PICK o \in Owners : Releasable(o) /\ owns' = [owns EXCEPT ![o] = Absent]
      BY <2>7 DEF DropOwner
    <3>2. \A q \in Owners : owns'[q] = IF q = o THEN Absent ELSE owns[q]
      BY <3>1
    <3>3. \A q, u \in Owners : q # u /\ owns'[q] = owns'[u] => owns'[q] \notin Blocks
      BY <3>2, Constants DEF Owned
    <3>4. \A b \in Blocks :
            Readers(b) \union Writers(b) # {} => \E q \in Owners : owns'[q] = b
      BY <2>5, <3>1, <3>2 DEF Owned
    <3> QED
      BY <1>3, <3>3, <3>4 DEF Owned
  <2>8. Owned'
    BY <1>5, <2>6, <2>7
  <2> QED
    BY <1>1, <1>2, <2>1, <2>2, <2>3, <2>4, <2>8 DEF ledgers, Ledger
<1> QED
  BY <1>4, <1>5

\* A use of a borrow changes nothing but the answer.
LEMMA UseInv ==
  ASSUME Inv, NEW t \in Threads, ReadRef(t) \/ UseMut(t) \/ UseOwner(t)
  PROVE  Inv'
<1> USE DEF Inv, Shape, TypeOK
<1>1. /\ Count(t) /\ (Report(t, "ok") \/ Report(t, "null"))
      /\ UNCHANGED <<owns, ledgers, token, holder, ref, mut, call>>
  BY DEF ReadRef, UseMut, UseOwner, RequireValue
<1>2. \A b \in Blocks : Readers(b)' = Readers(b) /\ shared[b] = Cardinality(Readers(b))
  BY <1>1 DEF Readers, Ledger, BlockFits
<1>3. calls' \in 0 .. MaxCalls
  BY <1>1, MutexAssumption DEF Count
<1> QED
  BY <1>1, <1>2, <1>3, RefFrame DEF Count, Outcomes, ledgers

-----------------------------------------------------------------------------
(* MutRef without a hook *)

\* When g takes over from s, the borrow of g is gone and that of s is g's.
LEMMA TakeOver ==
  ASSUME Shape, NEW g \in MutRefs, NEW s \in MutRefs \union {Null}, s # g,
         s # Null => Exists(s), mut' = TakesOver(g, s)
  PROVE  /\ mut' \in [MutRefs -> MutRefValues \union {Absent}] /\ GuardKinds'
         /\ \A h \in MutRefs \ {g, s} : mut'[h] = mut[h]
         /\ \A c \in Controls :
              Writers(c)' = IF s \in Writers(c) THEN (Writers(c) \ {g, s}) \union {g}
                                                ELSE Writers(c) \ {g}
<1> USE DEF Shape, TypeOK
<1>1. CASE s = Null
  <2>1. mut' = [mut EXCEPT ![g] = Absent]
    BY <1>1 DEF TakesOver
  <2>2. mut' \in [MutRefs -> MutRefValues \union {Absent}]
        /\ \A h \in MutRefs : mut'[h] = IF h = g THEN Absent ELSE mut[h]
    BY <2>1
  <2>3. GuardKinds'
    BY <2>2 DEF GuardKinds, Exists
  <2>4. \A c \in Controls : Writers(c)' = Writers(c) \ {g} /\ s \notin Writers(c)
    BY <1>1, <2>2, Constants DEF Writers, Exists
  <2> QED
    BY <2>2, <2>3, <2>4
<1>2. CASE s # Null
  <2>1. mut' = [mut EXCEPT ![g] = mut[s], ![s] = Empty] /\ s \in MutRefs
    BY <1>2 DEF TakesOver
  <2>2. mut' \in [MutRefs -> MutRefValues \union {Absent}]
    BY <2>1, GuardValues
  <2>3. \A h \in MutRefs :
          mut'[h] = IF h = s THEN Empty ELSE IF h = g THEN mut[s] ELSE mut[h]
    BY <2>1
  <2>4. GuardKinds'
    BY <2>1, <2>3, GuardValues DEF GuardKinds, Exists
  <2>5. ASSUME NEW c \in Controls
        PROVE  Writers(c)' = IF s \in Writers(c) THEN (Writers(c) \ {g, s}) \union {g}
                                                 ELSE Writers(c) \ {g}
    <3>1. c # Null /\ Empty # Absent
      BY Constants, GuardValues
    <3>2. \A h \in MutRefs : h \in Writers(c)' <=>
            IF h = s THEN FALSE ELSE IF h = g THEN s \in Writers(c) ELSE h \in Writers(c)
      BY <1>2, <2>1, <2>3, <3>1, GuardValues DEF Writers, Exists
    <3>3. Writers(c)' \subseteq MutRefs /\ Writers(c) \subseteq MutRefs
      BY DEF Writers
    <3> QED
      BY <2>1, <3>2, <3>3
  <2> QED
    BY <2>2, <2>3, <2>4, <2>5
<1> QED
  BY <1>1, <1>2

\* So it keeps a single guard single, and one it is or holds stays one or none.
LEMMA TakenWriters ==
  ASSUME Shape, NEW g \in MutRefs, NEW s \in MutRefs \union {Null}, s # g,
         s # Null => Exists(s), mut' = TakesOver(g, s),
         NEW c \in Controls, \A x, y \in Writers(c) : x = y
  PROVE  /\ \A x, y \in Writers(c)' : x = y
         /\ g \notin Writers(c) => (Writers(c)' # {} <=> Writers(c) # {})
         /\ g \in Writers(c) => Writers(c)' = {}
<1>1. Writers(c)' = IF s \in Writers(c) THEN (Writers(c) \ {g, s}) \union {g}
                                        ELSE Writers(c) \ {g}
  BY TakeOver
<1> QED
  BY <1>1

LEMMA BorrowMutInv ==
  ASSUME Inv, NEW t \in Threads, BorrowMut(t)
  PROVE  Inv'
<1> USE DEF Inv, Shape, TypeOK
<1>1. PICK o \in Owners, g \in MutRefs :
        /\ Count(t) /\ ~Exists(g)
        /\ \A u \in Threads : call[u].target # g
        /\ owns[o] # Absent
        /\ IF owns[o] = Null \/ MutableRefused(owns[o])
           THEN /\ Report(t, IF owns[o] = Null THEN "null" ELSE "borrowExists")
                /\ \/ "throw" \in Responses /\ UNCHANGED mut
                   \/ "return" \in Responses /\ mut' = [mut EXCEPT ![g] = Empty]
                /\ UNCHANGED exclusive
           ELSE /\ exclusive' = [exclusive EXCEPT ![owns[o]] = TRUE]
                /\ mut' = [mut EXCEPT ![g] = Plain(owns[o])]
                /\ Report(t, "ok")
        /\ UNCHANGED <<owns, shared, token, holder, ref, call>>
  BY DEF BorrowMut
<1>2. /\ calls' \in 0 .. MaxCalls /\ call[t].at = "idle"
      /\ outcome' \in [Threads -> Outcomes]
      /\ \A u \in Threads \ {t} : outcome'[u] = outcome[u]
  BY <1>1, MutexAssumption DEF Count, Report, Outcomes
<1> PICK b : b = owns[o]
  OBVIOUS
<1>3. b \in Blocks \union {Null} /\ (b # Null => b \in Blocks)
  BY <1>1
<1>4. mut' \in [MutRefs -> MutRefValues \union {Absent}] /\ exclusive' \in [Controls -> BOOLEAN]
  BY <1>1, <1>3, GuardValues
<1>5. \A h \in MutRefs : h # g => mut'[h] = mut[h]
  BY <1>1
<1>6. mut'[g] \in {mut[g], Empty} \/ (b \in Blocks /\ mut'[g] = Plain(b))
  BY <1>1, <1>3
<1>7. GuardKinds'
  BY <1>1, <1>5, <1>6, GuardValues DEF GuardKinds, Exists
<1>8. \A u \in Threads : WellFormed(u) /\ g \notin {call[u].target, call[u].source}
  BY <1>1, Constants DEF CallsWellFormed, WellFormed, Calls, Labels, Locking, Unlocking, Idle
<1>9. ASSUME NEW u \in Threads PROVE WellFormed(u)'
  <2>1. call[u].at \in Unlocking => outcome'[u] = outcome[u]
    BY <1>2 DEF Unlocking
  <2>2. /\ call[u].target \in MutRefs => mut'[call[u].target] = mut[call[u].target]
        /\ call[u].source \in MutRefs => mut'[call[u].source] = mut[call[u].source]
    BY <1>5, <1>8
  <2>3. call[u].source \in MutRefs \union {Null}
    BY DEF Calls
  <2> QED
    BY <1>1, <1>8, <2>1, <2>2, <2>3 DEF WellFormed, Exists
<1>10. CallsWellFormed'
  BY <1>1, <1>9 DEF CallsWellFormed, Undisturbed
<1>11. \A c : Readers(c)' = Readers(c)
  BY <1>1 DEF Readers
<1>12. \A c \in Controls : c # b \/ owns[o] = Null \/ MutableRefused(b) => Writers(c)' = Writers(c)
  BY <1>1, <1>3, <1>5, Constants, GuardValues DEF Writers, Exists
<1>13. ASSUME NEW m \in Mutexes PROVE MutexFits(m)'
  <2>1. m \in Controls /\ m # b
    BY <1>3, Constants
  <2>2. exclusive'[m] = exclusive[m]
    BY <1>1, <2>1
  <2>3. Writers(m)' = Writers(m) /\ MutexFits(m)
    BY <1>12, <2>1 DEF Ledger
  <2> QED
    BY <1>1, <2>2, <2>3, MutexFrame DEF MutexFits
<1>14. ASSUME NEW a \in Blocks PROVE BlockFits(a)'
  <2>1. a \in Controls /\ BlockFits(a) /\ shared'[a] = shared[a] /\ Readers(a)' = Readers(a)
    BY <1>1, <1>11, Constants DEF Ledger
  <2>2. CASE a # b \/ owns[o] = Null \/ MutableRefused(b)
    <3>1. exclusive'[a] = exclusive[a] /\ Writers(a)' = Writers(a)
      BY <1>1, <1>12, <2>1, <2>2
    <3> QED
      BY <2>1, <3>1 DEF BlockFits
  <2>3. CASE a = b /\ owns[o] # Null /\ ~MutableRefused(b)
    <3>1. exclusive'[a] = TRUE /\ mut'[g] = Plain(a)
      BY <1>1, <2>1, <2>3
    <3>2. Writers(a) = {} /\ shared[a] = 0
      BY <2>1, <2>3 DEF MutableRefused, HasBorrow, BlockFits
    <3>3. Writers(a)' = {g}
      BY <1>5, <3>1, <3>2, GuardValues, Constants DEF Writers, Exists
    <3>4. Readers(a) = {}
      BY <2>1, <3>2, ReadersFinite, FS_EmptySet DEF BlockFits
    <3> QED
      BY <2>1, <3>1, <3>3, <3>4 DEF BlockFits
  <2> QED
    BY <2>2, <2>3
<1>15. Owned'
  BY <1>1, <1>3, <1>11, <1>12, Constants DEF Owned
<1> QED
  BY <1>1, <1>2, <1>4, <1>7, <1>10, <1>13, <1>14, <1>15 DEF Ledger

\* The ledgers after a takeover that clears the old borrow's flag: g had the
\* borrow of c, or none.
LEMMA TakenLedger ==
  ASSUME Inv, NEW g \in MutRefs, NEW s \in MutRefs \union {Null}, s # g,
         s # Null => Exists(s), mut' = TakesOver(g, s), UNCHANGED <<owns, shared, ref>>,
         NEW c \in Controls \union {Null}, \A a \in Controls : g \in Writers(a) <=> a = c
  PROVE  /\ \A b \in Blocks :
              (exclusive'[b] = IF b = c THEN FALSE ELSE exclusive[b]) => BlockFits(b)'
         /\ \A m \in Mutexes : m # c => (Writers(m)' # {} <=> Writers(m) # {})
         /\ \A m \in Mutexes : /\ \A x, y \in Writers(m)' : x = y
                               /\ m = c => Writers(m)' = {}
         /\ Owned'
<1> USE DEF Inv
<1>1. \A a : Readers(a)' = Readers(a)
  BY DEF Readers
<1>2. \A a \in Controls : \A x, y \in Writers(a) : x = y
  BY Constants DEF Ledger, MutexFits, BlockFits
<1>3. \A a \in Controls : /\ \A x, y \in Writers(a)' : x = y
                          /\ a # c => (Writers(a)' # {} <=> Writers(a) # {})
                          /\ a = c => Writers(a)' = {}
  BY <1>2, TakenWriters
<1>4. ASSUME NEW b \in Blocks, exclusive'[b] = IF b = c THEN FALSE ELSE exclusive[b]
      PROVE  BlockFits(b)'
  <2>1. BlockFits(b) /\ b \in Controls
    BY Constants DEF Ledger
  <2>2. CASE b = c
    BY <1>1, <1>3, <1>4, <2>1, <2>2 DEF BlockFits
  <2>3. CASE b # c
    BY <1>1, <1>3, <1>4, <2>1, <2>3 DEF BlockFits
  <2> QED
    BY <2>2, <2>3
<1>5. Owned'
  <2>1. \A b \in Blocks : Writers(b)' # {} => Writers(b) # {}
    BY <1>3, Constants
  <2> QED
    BY <1>1, <2>1 DEF Owned
<1> QED
  BY <1>3, <1>4, <1>5, Constants

\* A release without a hook, and the move that it is part of.
LEMMA PlainReleaseInv ==
  ASSUME Inv, NEW t \in Threads, call[t].at = "idle",
         NEW g \in MutRefs, NEW s \in MutRefs \union {Null}, s # g,
         s # Null => Exists(s) /\ Usable(t, s), Usable(t, g),
         Release(t, g, s), ~(Exists(g) /\ mut[g].state \in Mutexes),
         Report(t, "ok"), calls' \in 0 .. MaxCalls,
         UNCHANGED <<owns, shared, token, holder, ref>>
  PROVE  Inv'
<1> USE DEF Inv, Shape
<1>1. mut' = TakesOver(g, s) /\ exclusive' = ClearedBy(g) /\ call' = call
  BY DEF Release
<1> PICK c : c = IF Exists(g) THEN mut[g].ctrl ELSE Null
  OBVIOUS
<1>2. c \in Blocks \union {Null} /\ \A a \in Controls : g \in Writers(a) <=> a = c
  BY Constants DEF GuardKinds, Writers
<1>3. /\ mut' \in [MutRefs -> MutRefValues \union {Absent}] /\ GuardKinds'
      /\ \A h \in MutRefs \ {g, s} : mut'[h] = mut[h]
  BY <1>1, TakeOver
<1>4. exclusive' \in [Controls -> BOOLEAN] /\ outcome' \in [Threads -> Outcomes]
  BY <1>1 DEF ClearedBy, Report, TypeOK, Outcomes
<1>5. CallsWellFormed'
  <2>1. \A u \in Threads : {g, s} \cap {call[u].target, call[u].source} \subseteq {Null}
    BY DEF Usable
  <2>2. ASSUME NEW u \in Threads PROVE WellFormed(u)'
    <3>1. WellFormed(u) /\ call[u].source \in MutRefs \union {Null}
      BY DEF CallsWellFormed, TypeOK, Calls
    <3>2. call[u].at \in Unlocking => outcome'[u] = outcome[u]
      BY DEF Report, Unlocking, TypeOK
    <3>3. /\ call[u].target \in MutRefs => mut'[call[u].target] = mut[call[u].target]
          /\ call[u].source \in MutRefs => mut'[call[u].source] = mut[call[u].source]
      BY <1>3, <2>1, Constants
    <3> QED
      BY <1>1, <3>1, <3>2, <3>3 DEF WellFormed, Exists
  <2> QED
    BY <1>1, <2>2 DEF CallsWellFormed, Undisturbed
<1>6. \A a \in Controls : a # c => exclusive'[a] = exclusive[a]
  BY <1>1 DEF ClearedBy, TypeOK
<1>7. c \in Blocks => exclusive'[c] = FALSE
  BY <1>1, Constants DEF ClearedBy, TypeOK
<1>8. /\ \A b \in Blocks : BlockFits(b)'
      /\ \A m \in Mutexes : /\ \A x, y \in Writers(m)' : x = y
                            /\ Writers(m)' # {} <=> Writers(m) # {}
      /\ Owned'
  <2>1. c \in Controls \union {Null} /\ \A m \in Mutexes : m # c
    BY <1>2, Constants
  <2>2. \A b \in Blocks : b # c => exclusive'[b] = exclusive[b]
    BY <1>6, Constants
  <2>3. \A b \in Blocks : exclusive'[b] = IF b = c THEN FALSE ELSE exclusive[b]
    BY <1>7, <2>2
  <2> QED
    BY <1>1, <1>2, <2>1, <2>3, TakenLedger
<1>9. ASSUME NEW m \in Mutexes PROVE MutexFits(m)'
  <2>1. exclusive'[m] = exclusive[m]
    BY <1>2, <1>6, Constants
  <2>2. MutexFits(m)
    BY DEF Ledger
  <2> QED
    BY <1>1, <1>8, <2>1, <2>2, MutexFrame
<1>10. TypeOK'
  BY <1>1, <1>3, <1>4 DEF TypeOK
<1> QED
  BY <1>3, <1>5, <1>8, <1>9, <1>10 DEF Ledger

-----------------------------------------------------------------------------
(* Mutex::lock() and the hook *)

\* A thread inside a call on a mutex holds it, and its label is the stage.
LEMMA StageWithin ==
  ASSUME Inv, NEW t \in Threads, call[t].at \in Inside
  PROVE  /\ call[t].mutex \in Mutexes /\ call[t].target \in MutRefs
         /\ holder[call[t].mutex] = t /\ Stage(call[t].mutex) = call[t].at
         /\ WellFormed(t)
<1>1. WellFormed(t) /\ call[t].mutex \in Mutexes /\ call[t].target \in MutRefs
  BY DEF Inv, Shape, CallsWellFormed, WellFormed, Inside, Locking, Unlocking
<1>2. holder[call[t].mutex] = t
  BY <1>1 DEF Inv, Ledger, MutexFits, Within
<1> QED
  BY <1>1, <1>2, Constants DEF Stage, Within

\* A step of a call on m goes on to c: what is left to show is that c is
\* well-formed and the stage of m fits its ledgers.
LEMMA Stepping ==
  ASSUME Inv, NEW t \in Threads, NEW c \in Calls, NEW m \in Mutexes,
         call[t].mutex \in {m, Null}, c.mutex \in {m, Null},
         call' = [call EXCEPT ![t] = c], WellFormed(t)',
         \A u \in Threads \ {t} :
           {c.target, c.source} \cap {call[u].target, call[u].source} \subseteq {Null},
         UNCHANGED <<owns, shared, ref, mut>>,
         calls' \in 0 .. MaxCalls,
         NEW v \in Outcomes, outcome' = [outcome EXCEPT ![t] = v],
         NEW h \in Threads \union {Null}, holder' = [holder EXCEPT ![m] = h],
         NEW k \in 0 .. 1, token' = [token EXCEPT ![m] = k],
         NEW e \in BOOLEAN, exclusive' = [exclusive EXCEPT ![m] = e],
         MutexFits(m)'
  PROVE  Inv'
<1> USE DEF Inv, Shape
<1>1. call' \in [Threads -> Calls] /\ CallsWellFormed'
  BY CallFrame DEF TypeOK
<1>2. TypeOK' /\ GuardKinds'
  BY <1>1, Constants DEF TypeOK, GuardKinds, Exists
<1>3. \A a : Readers(a)' = Readers(a) /\ Writers(a)' = Writers(a)
  BY DEF Readers, Writers, Exists
<1>4. ASSUME NEW n \in Mutexes PROVE MutexFits(n)'
  <2>1. CASE n # m
    <3>1. holder'[n] = holder[n] /\ token'[n] = token[n] /\ exclusive'[n] = exclusive[n]
      BY <2>1, Constants DEF TypeOK
    <3>2. \A u \in Threads : call'[u] = call[u] \/ (~Within(u, n) /\ ~Within(u, n)')
      BY <2>1, Constants DEF TypeOK, Within
    <3>3. MutexFits(n) /\ \A x, y \in Writers(n)' : x = y
      BY <1>3 DEF Ledger, MutexFits
    <3> QED
      BY <1>3, <3>1, <3>2, <3>3, MutexFrame
  <2> QED
    BY <2>1
<1>5. ASSUME NEW b \in Blocks PROVE BlockFits(b)'
  <2>1. exclusive'[b] = exclusive[b]
    BY Constants DEF TypeOK
  <2> QED
    BY <1>3, <2>1 DEF Ledger, BlockFits
<1>6. Owned'
  BY <1>3 DEF Owned
<1> QED
  BY <1>1, <1>2, <1>4, <1>5, <1>6 DEF Ledger

\* The stage after a step of the thread that holds m, or takes it.
LEMMA StageNext ==
  ASSUME Shape, NEW t \in Threads, NEW c \in Calls, NEW m \in Mutexes, MutexFits(m),
         holder[m] \in {t, Null}, call' = [call EXCEPT ![t] = c]
  PROVE  \A u \in Threads : Within(u, m)' => u = t /\ c.mutex = m /\ c.at \in Inside
<1>1. \A u \in Threads : call'[u] = IF u = t THEN c ELSE call[u]
  BY DEF Shape, TypeOK
<1>2. \A u \in Threads \ {t} : ~Within(u, m)
  BY Constants DEF MutexFits
<1> QED
  BY <1>1, <1>2 DEF Within

LEMMA StageInside ==
  ASSUME Shape, NEW t \in Threads, NEW c \in Calls, NEW m \in Mutexes, MutexFits(m),
         holder[m] \in {t, Null}, call' = [call EXCEPT ![t] = c],
         holder'[m] = t, c.mutex = m, c.at \in Inside
  PROVE  Stage(m)' = c.at /\ \A u \in Threads : Within(u, m)' => holder'[m] = u
<1>1. call'[t] = c
  BY DEF Shape, TypeOK
<1>2. Within(t, m)' /\ t # Null
  BY <1>1, Constants DEF Within
<1>3. Stage(m)' = c.at
  BY <1>1, <1>2 DEF Stage
<1> QED
  BY <1>3, StageNext

LEMMA StageOutside ==
  ASSUME Shape, NEW t \in Threads, NEW c \in Calls, NEW m \in Mutexes, MutexFits(m),
         holder[m] \in {t, Null}, call' = [call EXCEPT ![t] = c],
         holder'[m] \in {t, Null}, c.mutex # m
  PROVE  /\ Stage(m)' = IF holder'[m] = t THEN "held" ELSE "free"
         /\ \A u \in Threads : ~Within(u, m)'
<1>1. \A u \in Threads : ~Within(u, m)'
  BY StageNext
<1> QED
  BY <1>1, Constants DEF Stage

LEMMA LockInv ==
  ASSUME Inv, NEW t \in Threads, Lock(t)
  PROVE  Inv'
<1> USE DEF Inv, Shape, TypeOK
<1>1. PICK m \in Mutexes, g \in MutRefs :
        /\ Count(t) /\ ~Exists(g)
        /\ \A u \in Threads : call[u].target # g
        /\ call' = [call EXCEPT ![t] =
             [at |-> "acquire", mutex |-> m, target |-> g, source |-> Null]]
        /\ UNCHANGED <<owns, ledgers, token, holder, ref, mut, outcome>>
  BY DEF Lock
<1> PICK c : c = [at |-> "acquire", mutex |-> m, target |-> g, source |-> Null]
  OBVIOUS
<1>2. c \in Calls
  BY DEF Calls, Labels
<1>3. \A u \in Threads : g \notin {call[u].target, call[u].source}
  BY <1>1, Constants
  DEF CallsWellFormed, WellFormed, Calls, Labels, Locking, Unlocking, Idle
<1>4. call[t].mutex = Null /\ calls' \in 0 .. MaxCalls
  BY <1>1, MutexAssumption DEF Count, CallsWellFormed, WellFormed, Idle
<1>5. WellFormed(t)'
  BY <1>1, Constants DEF WellFormed, Exists, Locking, Unlocking, ledgers
<1>6. MutexFits(m)'
  <2>1. Writers(m)' = Writers(m)
    BY <1>1 DEF Writers, Exists
  <2>2. \A u \in Threads : call'[u] = call[u] \/ (~Within(u, m) /\ ~Within(u, m)')
    BY <1>1, <1>4, Constants DEF Within, Inside, Unlocking
  <2> QED
    BY <1>1, <2>1, <2>2, MutexFrame DEF ledgers, Ledger, MutexFits
<1>7. PICK v \in Outcomes, h \in Threads \union {Null}, k \in 0 .. 1 :
        /\ outcome' = [outcome EXCEPT ![t] = v]
        /\ holder' = [holder EXCEPT ![m] = h]
        /\ token' = [token EXCEPT ![m] = k]
  BY <1>1
<1>8. PICK e \in BOOLEAN : exclusive' = [exclusive EXCEPT ![m] = e]
  BY <1>1, Constants DEF ledgers
<1>9. c.target = g /\ c.source = Null /\ c.mutex = m /\ call' = [call EXCEPT ![t] = c]
  BY <1>1
<1>10. /\ UNCHANGED <<owns, shared, ref, mut>>
       /\ call[t].mutex \in {m, Null} /\ c.mutex \in {m, Null}
  BY <1>1, <1>4, <1>9 DEF ledgers
<1>11. \A u \in Threads \ {t} :
         {c.target, c.source} \cap {call[u].target, call[u].source} \subseteq {Null}
  BY <1>3, <1>9
<1> HIDE DEF Inv, Shape, TypeOK
<1> QED
  BY <1>2, <1>4, <1>5, <1>6, <1>7, <1>8, <1>9, <1>10, <1>11, Stepping

\* A release with a hook starts the hook.
LEMMA HookedReleaseInv ==
  ASSUME Inv, NEW t \in Threads, call[t].at = "idle",
         NEW g \in MutRefs, NEW s \in MutRefs \union {Null}, s # g,
         s # Null => Exists(s) /\ Usable(t, s), Usable(t, g),
         Release(t, g, s), Exists(g) /\ mut[g].state \in Mutexes,
         Report(t, "ok"), calls' \in 0 .. MaxCalls,
         UNCHANGED <<owns, shared, token, holder, ref>>
  PROVE  Inv'
<1> USE DEF Inv, Shape, TypeOK
<1> PICK m \in Mutexes : m = mut[g].state
  OBVIOUS
<1> PICK c : c = [at |-> "clearFlag", mutex |-> m, target |-> g, source |-> s]
  OBVIOUS
<1>1. /\ call' = [call EXCEPT ![t] = c] /\ UNCHANGED <<exclusive, mut>>
      /\ c.at = "clearFlag" /\ c.mutex = m /\ c.target = g /\ c.source = s
  BY DEF Release
<1>2. c \in Calls
  BY DEF Calls, Labels
<1>3. /\ holder[m] = t /\ call[t].mutex = Null
      /\ \A u \in Threads : g \notin {call[u].target, call[u].source}
      /\ \A u \in Threads : s # Null => s \notin {call[u].target, call[u].source}
  BY DEF Usable, CallsWellFormed, WellFormed, Idle
<1>4. outcome' = [outcome EXCEPT ![t] = "ok"] /\ outcome'[t] = "ok"
  BY DEF Report
<1>5. WellFormed(t)'
  BY <1>1, <1>4 DEF WellFormed, Exists, Locking, Unlocking
<1>6. MutexFits(m)'
  <2>1. Writers(m)' = Writers(m)
    BY <1>1 DEF Writers, Exists
  <2>2. Stage(m)' = "clearFlag" /\ \A u \in Threads : Within(u, m)' => holder'[m] = u
    <3>1. /\ Shape /\ MutexFits(m) /\ holder[m] \in {t, Null}
          /\ holder'[m] = t /\ c.mutex = m /\ c.at \in Inside
      BY <1>1, <1>3 DEF Ledger, Inside, Unlocking
    <3> HIDE DEF Inv, Shape, TypeOK
    <3>2. Stage(m)' = c.at /\ \A u \in Threads : Within(u, m)' => holder'[m] = u
      BY <1>1, <1>2, <3>1, StageInside
    <3> QED
      BY <1>1, <3>2
  <2>3. Stage(m) = "held"
    BY <1>3, Constants DEF Stage, Within
  <2> QED
    BY <1>1, <2>1, <2>2, <2>3 DEF Ledger, MutexFits, Unlocking
<1>7. PICK h \in Threads \union {Null}, k \in 0 .. 1 :
        holder' = [holder EXCEPT ![m] = h] /\ token' = [token EXCEPT ![m] = k]
  BY <1>1
<1>8. PICK e \in BOOLEAN, v \in Outcomes :
        exclusive' = [exclusive EXCEPT ![m] = e] /\ outcome' = [outcome EXCEPT ![t] = v]
  BY <1>1, <1>4, Constants DEF Outcomes
<1>9. /\ UNCHANGED <<owns, shared, ref, mut>>
      /\ call[t].mutex \in {m, Null} /\ c.mutex \in {m, Null}
      /\ call' = [call EXCEPT ![t] = c]
  BY <1>1, <1>3
<1>10. \A u \in Threads \ {t} :
         {c.target, c.source} \cap {call[u].target, call[u].source} \subseteq {Null}
  BY <1>1, <1>3
<1> HIDE DEF Inv, Shape, TypeOK
<1> QED
  BY <1>2, <1>4, <1>5, <1>6, <1>7, <1>8, <1>9, <1>10, Stepping

LEMMA ReleaseInv ==
  ASSUME Inv, NEW t \in Threads, DropMut(t) \/ MoveMut(t)
  PROVE  Inv'
<1>1. Count(t) => calls' \in 0 .. MaxCalls /\ call[t].at = "idle"
  BY MutexAssumption DEF Count, Inv, Shape, TypeOK
<1>2. CASE DropMut(t)
  <2>1. PICK g \in MutRefs :
          /\ call[t].at = "idle" /\ Usable(t, g) /\ Release(t, g, Null) /\ Report(t, "ok")
          /\ UNCHANGED <<owns, shared, token, holder, ref, calls>>
    BY <1>2 DEF DropMut
  <2>2. g # Null /\ calls' \in 0 .. MaxCalls
    BY <2>1, Constants DEF Inv, Shape, TypeOK
  <2> QED
    BY <2>1, <2>2, PlainReleaseInv, HookedReleaseInv
<1>3. CASE MoveMut(t)
  <2>1. PICK g \in MutRefs, s \in MutRefs :
          /\ Count(t) /\ g # s /\ Exists(s) /\ Usable(t, s) /\ Usable(t, g)
          /\ Release(t, g, s) /\ Report(t, "ok")
          /\ UNCHANGED <<owns, shared, token, holder, ref>>
    BY <1>3 DEF MoveMut
  <2> QED
    BY <1>1, <2>1, PlainReleaseInv, HookedReleaseInv
<1> QED
  BY <1>2, <1>3

LEMMA GotoCall ==
  ASSUME Shape, NEW t \in Threads, NEW l \in Labels, Goto(t, l)
  PROVE  \E c \in Calls :
           /\ c.at = l /\ c.mutex = call[t].mutex
           /\ c.target = call[t].target /\ c.source = call[t].source
           /\ call' = [call EXCEPT ![t] = c]
<1> PICK d \in Calls : d = call[t]
  BY DEF Shape, TypeOK
<1> PICK c : c = [at |-> l, mutex |-> d.mutex, target |-> d.target, source |-> d.source]
  OBVIOUS
<1>1. c \in Calls /\ c = [d EXCEPT !.at = l]
  BY DEF Calls
<1>2. call' = [call EXCEPT ![t] = c]
  BY <1>1 DEF Goto
<1>3. c.at = l /\ c.mutex = d.mutex /\ c.target = d.target /\ c.source = d.source
  OBVIOUS
<1> QED
  BY <1>1, <1>2, <1>3

\* A step that goes on to a label l inside the call; k and e suit that stage.
Follows(a, l) == {a, l} \subseteq Locking \/ {a, l} \subseteq Unlocking
Suits(m, l, k, e) ==
  /\ k = IF l \in {"record", "unlock"} THEN 0 ELSE 1
  /\ e <=> l = "clearFlag"
  /\ Writers(m) # {} <=> l \in Unlocking
LEMMA GotoInv ==
  ASSUME Inv, NEW t \in Threads, NEW m \in Mutexes, m = call[t].mutex,
         NEW l \in Inside, Goto(t, l),
         UNCHANGED <<owns, shared, ref, mut, outcome, calls>>,
         holder[m] \in {t, Null}, holder' = [holder EXCEPT ![m] = t],
         NEW k \in 0 .. 1, token' = [token EXCEPT ![m] = k],
         NEW e \in BOOLEAN, exclusive' = [exclusive EXCEPT ![m] = e],
         WellFormed(t),
         Follows(call[t].at, l),
         Suits(m, l, k, e)
  PROVE  Inv'
<1>1. l \in Labels /\ l # "idle" /\ l \in Locking \union Unlocking
  BY DEF Labels, Inside, Locking, Unlocking
<1>2. PICK c \in Calls :
        /\ c.at = l /\ c.mutex = m
        /\ c.target = call[t].target /\ c.source = call[t].source
        /\ call' = [call EXCEPT ![t] = c]
  BY <1>1, GotoCall DEF Inv
<1>3. WellFormed(t)'
  <2>1. call'[t] = c
    BY <1>2 DEF Inv, Shape, TypeOK
  <2>2. ~("idle" = l) /\ (l \in Locking => l \notin Unlocking) /\ (l \in Unlocking => l \notin Locking)
    BY <1>1 DEF Locking, Unlocking
  <2>3. \A x \in Unlocking : x \notin Locking
    BY DEF Locking, Unlocking
  <2> QED
    BY <1>2, <2>1, <2>2, <2>3 DEF WellFormed, Exists, Follows
<1>4. MutexFits(m)'
  <2>1. holder'[m] = t /\ token'[m] = k /\ exclusive'[m] = e /\ shared'[m] = shared[m]
    BY Constants DEF Inv, Shape, TypeOK
  <2>2. Stage(m)' = l /\ \A u \in Threads : Within(u, m)' => holder'[m] = u
    <3>1. Shape /\ MutexFits(m)
      BY DEF Inv, Ledger
    <3> QED
      BY <1>2, <2>1, <3>1, StageInside
  <2>3. Writers(m)' = Writers(m)
    BY DEF Writers, Exists
  <2>4. (\A g, h \in Writers(m) : g = h) /\ shared[m] = 0
    BY DEF Inv, Ledger, MutexFits
  <2>5. l # "free" /\ l # "held"
    BY DEF Inside, Unlocking
  <2> QED
    BY <2>1, <2>2, <2>3, <2>4, <2>5 DEF MutexFits, Suits
<1>5. PICK v \in Outcomes : v = outcome[t] /\ outcome' = [outcome EXCEPT ![t] = v]
  BY DEF Inv, Shape, TypeOK
<1>6. \A u \in Threads \ {t} :
        {c.target, c.source} \cap {call[u].target, call[u].source} \subseteq {Null}
  BY <1>2, Apart DEF Inv
<1>7. calls' \in 0 .. MaxCalls
  BY DEF Inv, Shape, TypeOK
<1>8. t \in Threads \union {Null} /\ call[t].mutex \in {m, Null} /\ c.mutex \in {m, Null}
      /\ call' = [call EXCEPT ![t] = c]
  BY <1>2
<1> QED
  BY <1>3, <1>4, <1>5, <1>6, <1>7, <1>8, Stepping

LEMMA Rewrites ==
  ASSUME Shape, NEW m \in Mutexes
  PROVE  /\ m \in Controls /\ exclusive[m] \in BOOLEAN /\ token[m] \in 0 .. 1
         /\ \A f : UNCHANGED token /\ f = token[m] => token' = [token EXCEPT ![m] = f]
         /\ \A f : UNCHANGED holder /\ f = holder[m] => holder' = [holder EXCEPT ![m] = f]
         /\ \A f : UNCHANGED exclusive /\ f = exclusive[m] =>
              exclusive' = [exclusive EXCEPT ![m] = f]
BY Constants DEF Shape, TypeOK

LEMMA AcquireInv ==
  ASSUME Inv, NEW t \in Threads, Acquire(t)
  PROVE  Inv'
<1> PICK m : m = call[t].mutex
  OBVIOUS
<1>1. /\ call[t].at = "acquire" /\ holder[m] = Null
      /\ holder' = [holder EXCEPT ![m] = t] /\ Goto(t, "record")
      /\ UNCHANGED <<owns, ledgers, token, ref, mut, outcome, calls>>
  BY DEF Acquire
<1>2. WellFormed(t) /\ m \in Mutexes
  BY <1>1 DEF Inv, Shape, CallsWellFormed, WellFormed, Locking
<1>3. MutexFits(m) /\ Stage(m) = "free"
  BY <1>1, <1>2 DEF Inv, Ledger, Stage
<1>4. token[m] = 0 /\ ~exclusive[m] /\ Writers(m) = {}
  BY <1>3 DEF MutexFits, Unlocking
<1>5. PICK e \in BOOLEAN : ~e /\ exclusive' = [exclusive EXCEPT ![m] = e]
  BY <1>1, <1>2, <1>4, Rewrites DEF ledgers, Inv
<1>6. token' = [token EXCEPT ![m] = 0]
  BY <1>1, <1>2, <1>4, Rewrites DEF Inv
<1>7. UNCHANGED <<owns, shared, ref, mut, outcome, calls>>
  BY <1>1 DEF ledgers
<1> PICK l : l = "record"
  OBVIOUS
<1>8. /\ l \in Inside /\ Goto(t, l) /\ Follows(call[t].at, l)
      /\ Suits(m, l, 0, e)
  BY <1>1, <1>3, <1>4, <1>5 DEF Inside, Locking, Unlocking, Follows, Suits
<1>9. holder[m] \in {t, Null} /\ 0 \in 0 .. 1 /\ holder' = [holder EXCEPT ![m] = t]
  BY <1>1, <1>2
<1> QED
  BY <1>2, <1>5, <1>6, <1>7, <1>8, <1>9, GotoInv

\* A lock() finds no token.
LEMMA RecordGrants ==
  ASSUME Inv, NEW t \in Threads, Record(t), NEW m, m = call[t].mutex
  PROVE  /\ m \in Mutexes /\ holder[m] = t /\ WellFormed(t)
         /\ ~exclusive[m] /\ Writers(m) = {} /\ call[t].at = "record"
         /\ token' = [token EXCEPT ![m] = 1] /\ Goto(t, "arm")
         /\ UNCHANGED <<owns, ledgers, holder, ref, mut, outcome, calls>>
<1>1. call[t].at = "record"
  BY DEF Record
<1>2. /\ m \in Mutexes /\ holder[m] = t /\ Stage(m) = "record" /\ WellFormed(t)
  BY <1>1, StageWithin DEF Inside
<1>3. token[m] = 0 /\ ~exclusive[m] /\ Writers(m) = {}
  BY <1>2 DEF Inv, Ledger, MutexFits, Unlocking
<1> QED
  BY <1>1, <1>2, <1>3 DEF Record

LEMMA RecordInv ==
  ASSUME Inv, NEW t \in Threads, Record(t)
  PROVE  Inv'
<1> PICK m : m = call[t].mutex
  OBVIOUS
<1>1. /\ m \in Mutexes /\ holder[m] = t /\ WellFormed(t)
      /\ ~exclusive[m] /\ Writers(m) = {} /\ call[t].at = "record"
      /\ token' = [token EXCEPT ![m] = 1] /\ Goto(t, "arm")
      /\ UNCHANGED <<owns, ledgers, holder, ref, mut, outcome, calls>>
  BY RecordGrants
<1>2. PICK e \in BOOLEAN : ~e /\ exclusive' = [exclusive EXCEPT ![m] = e]
  BY <1>1, Rewrites DEF ledgers, Inv
<1>3. holder' = [holder EXCEPT ![m] = t]
  BY <1>1, Rewrites DEF Inv
<1>4. UNCHANGED <<owns, shared, ref, mut, outcome, calls>>
  BY <1>1 DEF ledgers
<1> PICK l : l = "arm"
  OBVIOUS
<1>5. /\ l \in Inside /\ Goto(t, l) /\ Follows(call[t].at, l)
      /\ Suits(m, l, 1, e)
  BY <1>1, <1>2 DEF Inside, Locking, Unlocking, Follows, Suits
<1>6. /\ m \in Mutexes /\ holder[m] \in {t, Null} /\ 1 \in 0 .. 1 /\ WellFormed(t)
      /\ token' = [token EXCEPT ![m] = 1]
  BY <1>1
<1> QED
  BY <1>2, <1>3, <1>4, <1>5, <1>6, GotoInv

LEMMA ClearFlagInv ==
  ASSUME Inv, NEW t \in Threads, ClearFlag(t)
  PROVE  Inv'
<1> PICK m : m = call[t].mutex
  OBVIOUS
<1>1. /\ call[t].at = "clearFlag" /\ Goto(t, "clearToken")
      /\ exclusive' = [exclusive EXCEPT ![m] = FALSE]
      /\ UNCHANGED <<owns, shared, token, holder, ref, mut, outcome, calls>>
  BY DEF ClearFlag
<1>2. /\ m \in Mutexes /\ holder[m] = t /\ Stage(m) = "clearFlag" /\ WellFormed(t)
  BY <1>1, StageWithin DEF Inside, Unlocking
<1>3. token[m] = 1 /\ Writers(m) # {}
  BY <1>2 DEF Inv, Ledger, MutexFits, Unlocking
<1>4. token' = [token EXCEPT ![m] = 1] /\ holder' = [holder EXCEPT ![m] = t]
  BY <1>1, <1>2, <1>3, Rewrites DEF Inv
<1>5. PICK e \in BOOLEAN : ~e /\ exclusive' = [exclusive EXCEPT ![m] = e]
  BY <1>1
<1> PICK l : l = "clearToken"
  OBVIOUS
<1>6. /\ l \in Inside /\ Goto(t, l) /\ Follows(call[t].at, l)
      /\ Suits(m, l, 1, e)
  BY <1>1, <1>3, <1>4, <1>5 DEF Inside, Locking, Unlocking, Follows, Suits
<1>7. /\ holder[m] \in {t, Null} /\ 1 \in 0 .. 1
      /\ UNCHANGED <<owns, shared, ref, mut, outcome, calls>>
  BY <1>1, <1>2
<1> QED
  BY <1>2, <1>4, <1>5, <1>6, <1>7, GotoInv

LEMMA ClearTokenInv ==
  ASSUME Inv, NEW t \in Threads, ClearToken(t)
  PROVE  Inv'
<1> PICK m : m = call[t].mutex
  OBVIOUS
<1>1. /\ call[t].at = "clearToken" /\ Goto(t, "unlock")
      /\ token' = [token EXCEPT ![m] = 0]
      /\ UNCHANGED <<owns, ledgers, holder, ref, mut, outcome, calls>>
  BY DEF ClearToken
<1>2. /\ m \in Mutexes /\ holder[m] = t /\ Stage(m) = "clearToken" /\ WellFormed(t)
  BY <1>1, StageWithin DEF Inside, Unlocking
<1>3. ~exclusive[m] /\ Writers(m) # {}
  BY <1>2 DEF Inv, Ledger, MutexFits, Unlocking
<1>4. PICK e \in BOOLEAN : ~e /\ exclusive' = [exclusive EXCEPT ![m] = e]
  BY <1>1, <1>2, <1>3, Rewrites DEF ledgers, Inv
<1>5. holder' = [holder EXCEPT ![m] = t]
  BY <1>1, <1>2, Rewrites DEF Inv
<1>6. UNCHANGED <<owns, shared, ref, mut, outcome, calls>>
  BY <1>1 DEF ledgers
<1> PICK l : l = "unlock"
  OBVIOUS
<1>7. /\ l \in Inside /\ Goto(t, l) /\ Follows(call[t].at, l)
      /\ Suits(m, l, 0, e)
  BY <1>1, <1>3, <1>4, <1>5 DEF Inside, Locking, Unlocking, Follows, Suits
<1>8. holder[m] \in {t, Null} /\ 0 \in 0 .. 1 /\ token' = [token EXCEPT ![m] = 0]
  BY <1>1, <1>2
<1> QED
  BY <1>2, <1>4, <1>5, <1>6, <1>7, <1>8, GotoInv

LEMMA ReturnCalls ==
  ASSUME Shape, NEW t \in Threads, Return(t),
         \A u \in Threads \ {t} :
           /\ outcome'[u] = outcome[u]
           /\ \A g \in MutRefs : g \in {call[u].target, call[u].source} => mut'[g] = mut[g]
  PROVE  call' \in [Threads -> Calls] /\ CallsWellFormed'
<1>1. Idle \in Calls /\ Idle.target = Null /\ Idle.source = Null
  BY DEF Idle, Calls, Labels
<1>2. WellFormed(t)'
  BY DEF Return, WellFormed, Idle, Locking, Unlocking, Shape, TypeOK
<1> QED
  BY <1>1, <1>2, CallFrame DEF Return

\* A lock() is granted: no borrow is in its way.
LEMMA ArmGrants ==
  ASSUME Inv, NEW t \in Threads, Arm(t), NEW m, m = call[t].mutex
  PROVE  /\ m \in Mutexes /\ holder[m] = t /\ token[m] = 1
         /\ ~exclusive[m] /\ shared[m] = 0 /\ Writers(m) = {}
         /\ call[t].target \in MutRefs /\ ~Exists(call[t].target)
         /\ exclusive' = [exclusive EXCEPT ![m] = TRUE]
         /\ mut' = [mut EXCEPT ![call[t].target] = Hooked(m)]
         /\ Report(t, "ok") /\ Return(t)
         /\ UNCHANGED <<owns, shared, token, holder, ref, calls>>
<1>1. call[t].at = "arm"
  BY DEF Arm
<1>2. /\ m \in Mutexes /\ holder[m] = t /\ Stage(m) = "arm"
      /\ call[t].target \in MutRefs /\ ~Exists(call[t].target)
  BY <1>1, StageWithin DEF Inside, Locking, WellFormed
<1>3. /\ token[m] = 1 /\ ~exclusive[m] /\ shared[m] = 0 /\ Writers(m) = {}
  BY <1>2 DEF Inv, Ledger, MutexFits, Unlocking
<1> QED
  BY <1>2, <1>3 DEF Arm, MutableRefused, HasBorrow

LEMMA ArmInv ==
  ASSUME Inv, NEW t \in Threads, Arm(t)
  PROVE  Inv'
<1> PICK m, g : m = call[t].mutex /\ g = call[t].target
  OBVIOUS
<1>1. /\ m \in Mutexes /\ holder[m] = t /\ token[m] = 1
      /\ ~exclusive[m] /\ shared[m] = 0 /\ Writers(m) = {}
      /\ g \in MutRefs /\ ~Exists(g)
      /\ exclusive' = [exclusive EXCEPT ![m] = TRUE]
      /\ mut' = [mut EXCEPT ![g] = Hooked(m)]
      /\ Report(t, "ok") /\ Return(t)
      /\ UNCHANGED <<owns, shared, token, holder, ref, calls>>
  BY ArmGrants
<1>2. /\ mut' \in [MutRefs -> MutRefValues \union {Absent}]
      /\ \A h \in MutRefs : mut'[h] = IF h = g THEN Hooked(m) ELSE mut[h]
  BY <1>1, GuardValues DEF Inv, Shape, TypeOK
<1>3. \A c \in Controls : Writers(c)' = IF c = m THEN {g} ELSE Writers(c)
  BY <1>1, <1>2, GuardValues, Constants DEF Writers, Exists
<1>4. call' \in [Threads -> Calls] /\ CallsWellFormed'
  <2>1. \A u \in Threads \ {t} : g \notin {call[u].target, call[u].source}
    BY <1>1, Apart, Constants DEF Inv
  <2> QED
    BY <1>1, <1>2, <2>1, ReturnCalls DEF Inv, Shape, TypeOK, Report
<1>5. GuardKinds'
  BY <1>1, <1>2, GuardValues DEF Inv, Shape, GuardKinds, Exists
<1>6. TypeOK'
  BY <1>1, <1>2, <1>4 DEF Inv, Shape, TypeOK, Report, Outcomes
<1>7. \A c : Readers(c)' = Readers(c)
  BY <1>1 DEF Readers
<1>8. ASSUME NEW n \in Mutexes PROVE MutexFits(n)'
  <2>1. CASE n # m
    <3>1. n \in Controls /\ exclusive'[n] = exclusive[n]
      BY <1>1, <2>1, Constants DEF Inv, Shape, TypeOK
    <3>2. Writers(n)' = Writers(n) /\ MutexFits(n)
      BY <1>3, <2>1, <3>1 DEF Inv, Ledger
    <3>3. \A u \in Threads : call'[u] = call[u] \/ (~Within(u, n) /\ ~Within(u, n)')
      BY <1>1, <2>1, Constants DEF Return, Idle, Within, Inv, Shape, TypeOK
    <3>4. Shape /\ \A x, y \in Writers(n)' : x = y
      BY <3>2 DEF Inv, MutexFits
    <3> QED
      BY <1>1, <3>1, <3>2, <3>3, <3>4, MutexFrame
  <2>2. CASE n = m
    <3>1. Idle \in Calls /\ Idle.mutex # m /\ t # Null
      BY <1>1, Constants DEF Idle, Calls, Labels
    <3>2. Stage(m)' = "held" /\ \A u \in Threads : ~Within(u, m)'
      BY <1>1, <3>1, StageOutside DEF Return, Inv, Ledger
    <3>3. exclusive'[m] = TRUE /\ Writers(m)' = {g}
      BY <1>1, <1>3, Constants DEF Inv, Shape, TypeOK
    <3> QED
      BY <1>1, <2>2, <3>2, <3>3 DEF MutexFits
  <2> QED
    BY <2>1, <2>2
<1>9. ASSUME NEW b \in Blocks PROVE BlockFits(b)'
  <2>1. b \in Controls /\ b # m
    BY <1>1, Constants
  <2>2. exclusive'[b] = exclusive[b] /\ Writers(b)' = Writers(b)
    BY <1>1, <1>3, <2>1 DEF Inv, Shape, TypeOK
  <2>3. shared'[b] = shared[b] /\ Readers(b)' = Readers(b) /\ BlockFits(b)
    BY <1>1, <1>7 DEF Inv, Ledger
  <2> QED
    BY <2>2, <2>3 DEF BlockFits
<1>10. Owned'
  <2>1. \A b \in Blocks : Writers(b)' = Writers(b)
    BY <1>1, <1>3, Constants
  <2> QED
    BY <1>1, <1>7, <2>1 DEF Inv, Owned
<1> QED
  BY <1>4, <1>5, <1>6, <1>8, <1>9, <1>10 DEF Inv, Shape, Ledger

LEMMA UnlockInv ==
  ASSUME Inv, NEW t \in Threads, Unlock(t)
  PROVE  Inv'
<1> PICK m, g, s : m = call[t].mutex /\ g = call[t].target /\ s = call[t].source
  OBVIOUS
<1>1. /\ call[t].at = "unlock" /\ holder' = [holder EXCEPT ![m] = Null]
      /\ Return(t) /\ UNCHANGED <<owns, ledgers, token, ref, outcome, calls>>
  BY DEF Unlock
<1>2. /\ m \in Mutexes /\ g \in MutRefs /\ holder[m] = t /\ Stage(m) = "unlock"
      /\ Exists(g) /\ mut[g].state = m /\ s # g /\ (s # Null => Exists(s))
  BY <1>1, StageWithin DEF Inside, Unlocking, WellFormed
<1>3. s \in MutRefs \union {Null} /\ mut' = TakesOver(g, s)
  BY <1>2 DEF Unlock, Inv, Shape, TypeOK, Calls
<1>4. token[m] = 0 /\ ~exclusive[m] /\ shared[m] = 0
  BY <1>2 DEF Inv, Ledger, MutexFits
<1>5. \A a \in Controls : g \in Writers(a) <=> a = m
  BY <1>2, Constants DEF Inv, Shape, GuardKinds, Writers
<1>6. /\ mut' \in [MutRefs -> MutRefValues \union {Absent}] /\ GuardKinds'
      /\ \A h \in MutRefs \ {g, s} : mut'[h] = mut[h]
  BY <1>2, <1>3, TakeOver DEF Inv
<1>7. call' \in [Threads -> Calls] /\ CallsWellFormed'
  <2>1. \A u \in Threads \ {t} : \A h \in MutRefs :
          h \in {call[u].target, call[u].source} => h \notin {g, s}
    BY Apart, Constants DEF Inv
  <2> QED
    BY <1>1, <1>6, <2>1, ReturnCalls DEF Inv
<1>8. TypeOK'
  BY <1>1, <1>6, <1>7 DEF Inv, Shape, TypeOK, ledgers
<1>9. /\ m \in Controls \union {Null} /\ UNCHANGED <<owns, shared, ref>>
      /\ \A b \in Blocks : exclusive'[b] = IF b = m THEN FALSE ELSE exclusive[b]
  BY <1>1, <1>2, Constants DEF ledgers
<1>10. /\ \A b \in Blocks : BlockFits(b)'
       /\ \A n \in Mutexes : n # m => (Writers(n)' # {} <=> Writers(n) # {})
       /\ \A n \in Mutexes : (\A x, y \in Writers(n)' : x = y) /\ (n = m => Writers(n)' = {})
       /\ Owned'
  <2>1. g \in MutRefs /\ s \in MutRefs \union {Null} /\ s # g /\ (s # Null => Exists(s))
    BY <1>2, <1>3
  <2>2. /\ \A b \in Blocks :
             (exclusive'[b] = IF b = m THEN FALSE ELSE exclusive[b]) => BlockFits(b)'
        /\ \A n \in Mutexes : n # m => (Writers(n)' # {} <=> Writers(n) # {})
        /\ \A n \in Mutexes : (\A x, y \in Writers(n)' : x = y) /\ (n = m => Writers(n)' = {})
        /\ Owned'
    BY <1>3, <1>5, <1>9, <2>1, TakenLedger
  <2> QED
    BY <1>9, <2>2
<1>11. ASSUME NEW n \in Mutexes PROVE MutexFits(n)'
  <2>1. CASE n # m
    <3>1. holder'[n] = holder[n]
      BY <1>1, <2>1 DEF Inv, Shape, TypeOK
    <3>2. \A u \in Threads : call'[u] = call[u] \/ (~Within(u, n) /\ ~Within(u, n)')
      BY <1>1, <2>1, Constants DEF Return, Idle, Within, Inv, Shape, TypeOK
    <3>3. MutexFits(n) /\ Shape
      BY DEF Inv, Ledger
    <3> QED
      BY <1>1, <1>10, <2>1, <3>1, <3>2, <3>3, MutexFrame DEF ledgers
  <2>2. CASE n = m
    <3>1. /\ Idle \in Calls /\ Idle.mutex # m /\ t # Null /\ holder'[m] = Null
          /\ Shape /\ MutexFits(m)
      BY <1>1, <1>2, Constants DEF Idle, Calls, Labels, Inv, Ledger, Shape, TypeOK
    <3>2. Stage(m)' = "free" /\ \A u \in Threads : ~Within(u, m)'
      BY <1>1, <1>2, <3>1, StageOutside DEF Return
    <3>3. Writers(m)' = {} /\ token'[m] = 0 /\ ~exclusive'[m] /\ shared'[m] = 0
      BY <1>1, <1>2, <1>4, <1>10 DEF ledgers
    <3> QED
      BY <2>2, <3>2, <3>3 DEF MutexFits, Unlocking
  <2> QED
    BY <2>1, <2>2
<1> QED
  BY <1>6, <1>7, <1>8, <1>10, <1>11 DEF Inv, Shape, Ledger

-----------------------------------------------------------------------------
(* The invariant *)

LEMMA InitInv == Init => Inv
<1> SUFFICES ASSUME Init PROVE Inv
  OBVIOUS
<1>1. \A c : Writers(c) = {}
  BY DEF Init, Writers, Exists
<1>2. \A b \in Blocks : Readers(b) = {} /\ Cardinality(Readers(b)) = 0
  <2>1. \A b \in Blocks : Readers(b) = {}
    BY Constants DEF Init, Readers
  <2> QED
    BY <2>1, FS_EmptySet
<1>3. Idle \in Calls /\ Idle.at = "idle" /\ Idle.target = Null /\ Idle.source = Null
      /\ Idle.mutex = Null
  BY DEF Idle, Calls, Labels
<1>4. TypeOK
  BY <1>3, Constants, MutexAssumption DEF Init, TypeOK, Outcomes
<1>5. GuardKinds /\ CallsWellFormed
  BY <1>3 DEF Init, GuardKinds, Exists, CallsWellFormed, WellFormed, Undisturbed,
              Locking, Unlocking
<1>6. \A m \in Mutexes : MutexFits(m)
  <2>1. \A m \in Mutexes : Stage(m) = "free" /\ \A t \in Threads : ~Within(t, m)
    BY <1>3, Constants DEF Init, Stage, Within
  <2> QED
    BY <1>1, <2>1, Constants DEF Init, MutexFits, Unlocking
<1>7. \A b \in Blocks : BlockFits(b)
  BY <1>1, <1>2, Constants DEF Init, BlockFits
<1>8. Owned
  BY <1>1, <1>2 DEF Init, Owned
<1> QED
  BY <1>4, <1>5, <1>6, <1>7, <1>8 DEF Inv, Shape, Ledger

LEMMA SameInv == Inv /\ UNCHANGED vars => Inv'
<1> SUFFICES ASSUME Inv, UNCHANGED vars PROVE Inv'
  OBVIOUS
<1> USE DEF vars
<1>1. TypeOK' /\ GuardKinds'
  BY DEF Inv, Shape, TypeOK, GuardKinds, Exists
<1>2. CallsWellFormed'
  <2>1. \A t \in Threads : WellFormed(t)' <=> WellFormed(t)
    BY DEF WellFormed, Exists
  <2> QED
    BY <2>1 DEF Inv, Shape, CallsWellFormed, Undisturbed
<1>3. \A c : Readers(c)' = Readers(c) /\ Writers(c)' = Writers(c)
  BY DEF Readers, Writers, Exists
<1>4. \A m \in Mutexes : MutexFits(m)'
  BY <1>3, MutexFrame DEF Inv, Ledger, MutexFits
<1>5. \A b \in Blocks : BlockFits(b)'
  BY <1>3 DEF Inv, Ledger, BlockFits
<1>6. Owned'
  BY <1>3 DEF Inv, Owned
<1> QED
  BY <1>1, <1>2, <1>4, <1>5, <1>6 DEF Inv, Shape, Ledger

LEMMA NextInv == Inv /\ [Next]_vars => Inv'
<1> SUFFICES ASSUME Inv, [Next]_vars PROVE Inv'
  OBVIOUS
<1>1. ASSUME NEW t \in Threads, Call(t) PROVE Inv'
  BY <1>1, RefInv, OwnerInv, BorrowMutInv, ReleaseInv, LockInv, UseInv DEF Call
<1>2. ASSUME NEW t \in Threads, Proceed(t) PROVE Inv'
  BY <1>2, AcquireInv, RecordInv, ArmInv, ClearFlagInv, ClearTokenInv, UnlockInv DEF Proceed
<1> QED
  BY <1>1, <1>2, SameInv DEF Next, Finished

LEMMA Invariance == Spec => []Inv
BY InitInv, NextInv, PTL DEF Spec

\* Every field stays in its type.
THEOREM TypeCorrect == Spec => []TypeOK
<1>1. Inv => TypeOK
  BY DEF Inv, Shape
<1> QED
  BY <1>1, Invariance, PTL

\* An Owner's ledger counts exactly its live borrows, a mutable one is alone,
\* and the payload of a borrow has exactly one Owner.
THEOREM OwnerLedgerIsExact == Spec => []OwnerLedgerExact
<1>1. Inv => OwnerLedgerExact
  <2> SUFFICES ASSUME Inv, NEW b \in Blocks
               PROVE  /\ shared[b] = Cardinality(Readers(b))
                      /\ exclusive[b] = (Writers(b) # {})
                      /\ Cardinality(Writers(b)) <= 1
                      /\ Writers(b) # {} => Readers(b) = {}
                      /\ Readers(b) \union Writers(b) # {} =>
                           Cardinality({o \in Owners : owns[o] = b}) = 1
    BY DEF OwnerLedgerExact
  <2>1. BlockFits(b) /\ b \in Controls /\ exclusive[b] \in BOOLEAN
    BY Constants DEF Inv, Ledger, Shape, TypeOK
  <2>2. Cardinality(Writers(b)) <= 1
    <3>1. CASE Writers(b) = {}
      BY <3>1, FS_EmptySet
    <3>2. ASSUME NEW g \in Writers(b) PROVE Cardinality(Writers(b)) <= 1
      <4>1. Writers(b) = {g}
        BY <2>1, <3>2 DEF BlockFits
      <4> QED
        BY <4>1, FS_Singleton
    <3> QED
      BY <3>1, <3>2
  <2>3. ASSUME Readers(b) \union Writers(b) # {}
        PROVE  Cardinality({o \in Owners : owns[o] = b}) = 1
    <3>1. PICK o \in Owners : owns[o] = b
      BY <2>3 DEF Inv, Owned
    <3>2. {p \in Owners : owns[p] = b} = {o}
      BY <3>1 DEF Inv, Owned
    <3> QED
      BY <3>2, FS_Singleton
  <2> QED
    BY <2>1, <2>2, <2>3 DEF BlockFits
<1> QED
  BY <1>1, Invariance, PTL

\* A guard of a Mutex that is not being released is the only one, and the lock
\* and both ledgers are held for it.
THEOREM GuardsHoldTheirLock == Spec => []GuardHoldsLock
<1>1. Inv => GuardHoldsLock
  <2> SUFFICES ASSUME Inv, NEW m \in Mutexes, NEW g \in Writers(m)
               PROVE  /\ Writers(m) = {g}
                      /\ holder[m] # Null
                      /\ Releasing(g) \/ (token[m] = 1 /\ exclusive[m] /\ mut[g].state = m)
    BY DEF GuardHoldsLock
  <2>1. MutexFits(m) /\ Stage(m) \in {"held"} \union Unlocking
    BY DEF Inv, Ledger, MutexFits
  <2>2. Writers(m) = {g} /\ holder[m] # Null /\ holder[m] \in Threads
    BY <2>1 DEF MutexFits, Stage, Unlocking, Inv, Shape, TypeOK
  <2>3. mut[g].state = m
    BY Constants DEF Inv, Shape, GuardKinds, Writers
  <2>4. CASE Stage(m) = "held"
    BY <2>1, <2>2, <2>3, <2>4 DEF MutexFits, Unlocking
  <2>5. CASE Stage(m) \in Unlocking
    <3> PICK t \in Threads : t = holder[m]
      BY <2>2
    <3>1. call[t].mutex = m /\ call[t].at \in Unlocking
      BY <2>2, <2>5 DEF Stage, Within, Unlocking
    <3>2. call[t].target \in Writers(m)
      BY <3>1, Constants
      DEF Inv, Shape, CallsWellFormed, WellFormed, GuardKinds, Writers
    <3> QED
      BY <2>2, <3>2 DEF Releasing
  <2> QED
    BY <2>1, <2>2, <2>4, <2>5
<1> QED
  BY <1>1, Invariance, PTL

-----------------------------------------------------------------------------
(* The plain flag of a mutex *)

LEMMA MutexFlag ==
  ASSUME Inv, NEW t \in Threads, Call(t) \/ Proceed(t), NEW m \in Mutexes,
         exclusive'[m] # exclusive[m]
  PROVE  holder[m] = t /\ holder'[m] = t /\ call[t].mutex = m
<1> USE DEF Inv, Shape, TypeOK
<1>1. m \in Controls /\ m \notin Blocks /\ m # Null
  BY Constants
<1>2. CASE Arm(t)
  <2>1. PICK n : n = call[t].mutex
    OBVIOUS
  <2>2. /\ n \in Mutexes /\ holder[n] = t /\ UNCHANGED holder
        /\ exclusive' = [exclusive EXCEPT ![n] = TRUE]
    BY <1>2, <2>1, ArmGrants
  <2>3. n = m
    BY <1>1, <2>2
  <2> QED
    BY <2>1, <2>2, <2>3
<1>3. CASE ClearFlag(t)
  <2>1. PICK n : n = call[t].mutex
    OBVIOUS
  <2>2. /\ n \in Mutexes /\ holder[n] = t /\ UNCHANGED holder
        /\ exclusive' = [exclusive EXCEPT ![n] = FALSE]
    BY <1>3, <2>1, StageWithin DEF ClearFlag, Inside, Unlocking
  <2>3. n = m
    BY <1>1, <2>2
  <2> QED
    BY <2>1, <2>2, <2>3
<1>4. CASE DropMut(t) \/ MoveMut(t)
  <2>1. PICK g \in MutRefs, s \in MutRefs \union {Null} : Release(t, g, s)
    BY <1>4 DEF DropMut, MoveMut
  <2>2. CASE Exists(g) /\ mut[g].state \in Mutexes
    BY <2>1, <2>2 DEF Release
  <2>3. CASE ~(Exists(g) /\ mut[g].state \in Mutexes)
    <3>1. exclusive' = ClearedBy(g)
      BY <2>1, <2>3 DEF Release
    <3>2. Exists(g) => mut[g].ctrl # m
      BY <1>1, <2>3 DEF GuardKinds
    <3> QED
      BY <1>1, <3>1, <3>2 DEF ClearedBy
  <2> QED
    BY <2>2, <2>3
<1>5. CASE BorrowMut(t)
  <2>1. \E b \in Blocks : exclusive' = [exclusive EXCEPT ![b] = TRUE]
    BY <1>5 DEF BorrowMut
  <2> QED
    BY <1>1, <2>1
<1>6. CASE Construct(t)
  <2>1. \E b \in Blocks : exclusive' = [exclusive EXCEPT ![b] = FALSE]
    BY <1>6 DEF Construct
  <2> QED
    BY <1>1, <2>1
<1>7. CASE Record(t) \/ Acquire(t) \/ ClearToken(t) \/ Unlock(t) \/ Lock(t)
  BY <1>7 DEF Record, Acquire, ClearToken, Unlock, Lock, ledgers
<1>8. CASE Borrow(t) \/ CopyRef(t) \/ MoveRef(t) \/ DropRef(t)
  BY <1>8 DEF Borrow, CopyRef, MoveRef, DropRef
<1>9. CASE MoveOwner(t) \/ DropOwner(t) \/ ReadRef(t) \/ UseMut(t) \/ UseOwner(t)
  BY <1>9 DEF MoveOwner, DropOwner, ReadRef, UseMut, UseOwner, RequireValue, ledgers
<1> QED
  BY <1>2, <1>3, <1>4, <1>5, <1>6, <1>7, <1>8, <1>9 DEF Call, Proceed

\* The flag of a mutex's control block is not atomic: only the thread that
\* holds the mutex changes it, before and after the step.
THEOREM PlainFlagIsGuardedByLock == Spec => PlainFlagIsGuarded
<1>1. Inv /\ [Next]_vars =>
        [\A m \in Mutexes : exclusive'[m] # exclusive[m] =>
           \E t \in Threads : holder[m] = t /\ holder'[m] = t /\ call[t].mutex = m]_vars
  BY MutexFlag DEF Next, Finished
<1> QED
  BY <1>1, Invariance, PTL DEF Spec, PlainFlagIsGuarded

-----------------------------------------------------------------------------
(* GuardedBorrow implements ReadersWriter *)

\* The abstract state is that of the ledgers.
Promised == INSTANCE ReadersWriter WITH
  Payloads <- Controls,
  MaxReaders <- Cardinality(Refs) + 1,
  readers <- shared,
  writer <- exclusive,
  verdict <- outcome

LEMMA Abstraction ==
  Inv => /\ [c \in Controls |-> Cardinality(Readers(c))] = shared
         /\ [c \in Controls |-> \E g \in Writers(c) : ~Ended(g)] = exclusive
<1> SUFFICES ASSUME Inv
             PROVE  /\ \A c \in Controls : shared[c] = Cardinality(Readers(c))
                    /\ \A c \in Controls : exclusive[c] <=> \E g \in Writers(c) : ~Ended(g)
  BY DEF Inv, Shape, TypeOK
<1> USE DEF Inv, Shape
<1>1. ASSUME NEW c \in Controls PROVE shared[c] = Cardinality(Readers(c))
  <2>1. CASE c \in Blocks
    BY <2>1 DEF Ledger, BlockFits
  <2>2. CASE c \in Mutexes
    <3>1. Readers(c) = {}
      BY <2>2, Constants DEF TypeOK, Readers
    <3> QED
      BY <2>2, <3>1, FS_EmptySet DEF Ledger, MutexFits
  <2> QED
    BY <2>1, <2>2, Constants
<1>2. ASSUME NEW b \in Blocks PROVE exclusive[b] <=> \E g \in Writers(b) : ~Ended(g)
  <2>1. \A g \in Writers(b) : ~Ended(g)
    BY Constants
    DEF Writers, GuardKinds, Ended, CallsWellFormed, WellFormed, Unlocking
  <2> QED
    BY <2>1 DEF Ledger, BlockFits
<1>3. ASSUME NEW m \in Mutexes PROVE exclusive[m] <=> \E g \in Writers(m) : ~Ended(g)
  <2>1. MutexFits(m)
    BY DEF Ledger
  <2>2. ASSUME NEW g \in Writers(m), Ended(g)
        PROVE  Stage(m) \in {"clearToken", "unlock"}
    <3>1. PICK t \in Threads : call[t].target = g /\ call[t].at \in {"clearToken", "unlock"}
      BY <2>2 DEF Ended
    <3>2. call[t].mutex = m
      BY <3>1, Constants DEF Writers, GuardKinds, CallsWellFormed, WellFormed, Unlocking
    <3>3. call[t].at \in Inside
      BY <3>1 DEF Inside, Unlocking
    <3> QED
      BY <3>1, <3>2, <3>3, StageWithin
  <2>3. ASSUME Stage(m) \in {"clearToken", "unlock"}, NEW g \in Writers(m)
        PROVE  Ended(g)
    <3>1. holder[m] \in Threads /\ call[holder[m]].at = Stage(m) /\ call[holder[m]].mutex = m
      BY <2>3 DEF Stage, TypeOK, Within
    <3>2. call[holder[m]].target \in Writers(m)
      BY <2>3, <3>1, Constants
      DEF Writers, GuardKinds, CallsWellFormed, WellFormed, Unlocking
    <3>3. call[holder[m]].target = g
      BY <2>1, <3>2 DEF MutexFits
    <3> QED
      BY <2>3, <3>1, <3>3 DEF Ended
  <2> QED
    BY <2>1, <2>2, <2>3 DEF MutexFits, Unlocking
<1> QED
  BY <1>1, <1>2, <1>3, Constants

\* An operation that borrows nothing.
LEMMA NothingPromised ==
  ASSUME NEW t \in Threads, UNCHANGED <<shared, exclusive>>,
         Report(t, "ok") \/ Report(t, "null")
  PROVE  Promised!Next
BY DEF Promised!Next, Promised!Trivial, Promised!Answer, Report

\* Giving a reference back ends a borrow, if it had one.
LEMMA ReleasePromised ==
  ASSUME Inv, NEW t \in Threads, NEW r \in Refs, shared' = ReleasedBy(r),
         UNCHANGED exclusive, Report(t, "ok")
  PROVE  Promised!Next
<1>1. CASE ref[r] \in Blocks /\ shared[ref[r]] # 0
  <2> PICK b \in Blocks : b = ref[r]
    BY <1>1
  <2>1. b \in Controls /\ shared[b] > 0 /\ shared' = [shared EXCEPT ![b] = @ - 1]
    BY <1>1, Constants DEF ReleasedBy, Inv, Shape, TypeOK
  <2>2. Promised!Unshare(t, b)
    BY <2>1 DEF Promised!Unshare, Promised!Answer, Report
  <2> QED
    BY <2>1, <2>2 DEF Promised!Next
<1>2. CASE ~(ref[r] \in Blocks /\ shared[ref[r]] # 0)
  BY <1>2, NothingPromised DEF ReleasedBy
<1> QED
  BY <1>1, <1>2

\* A reference that is assigned exchanges a borrow for another.
LEMMA AssignPromised ==
  ASSUME Inv, NEW t \in Threads, NEW r \in Refs, NEW b \in Blocks \union {Null},
         AssignRef(t, r, b), ~SharedRefused(b), UNCHANGED exclusive
  PROVE  Promised!Next
<1>1. /\ shared' = [c \in Controls |->
                      IF c = b THEN ReleasedBy(r)[c] + 1 ELSE ReleasedBy(r)[c]]
      /\ Report(t, "ok")
  BY DEF AssignRef
<1>2. ReleasedBy(r) \in [Controls -> Nat]
  BY Released DEF Inv
<1>3. CASE b = Null
  <2>1. shared' = ReleasedBy(r)
    BY <1>1, <1>2, <1>3, Constants
  <2> QED
    BY <1>1, <2>1, ReleasePromised
<1>4. CASE b \in Blocks
  <2>1. b \in Controls /\ ~exclusive[b]
    BY <1>4, Constants DEF SharedRefused
  <2>2. shared[b] < Cardinality(Refs) + 1
    <3>1. shared[b] = Cardinality(Readers(b)) /\ shared[b] \in Nat
      BY <1>4, <2>1 DEF Inv, Shape, TypeOK, Ledger, BlockFits
    <3>2. Cardinality(Refs) \in Nat
      BY NamesAssumption, FS_CardinalityType
    <3> QED
      BY <3>1, <3>2, ReadersFinite
  <2>3. CASE ref[r] \in Blocks /\ shared[ref[r]] # 0
    <3> PICK a \in Blocks : a = ref[r]
      BY <2>3
    <3>1. a \in Controls /\ shared[a] \in Nat /\ shared[a] > 0 /\ shared[b] \in Nat
      BY <2>1, <2>3, Constants DEF Inv, Shape, TypeOK
    <3>2. ReleasedBy(r) = [shared EXCEPT ![a] = @ - 1]
      BY <2>3 DEF ReleasedBy
    <3>3. \A c \in Controls : ReleasedBy(r)[c] = IF c = a THEN shared[a] - 1 ELSE shared[c]
      BY <3>2 DEF Inv, Shape, TypeOK
    <3>4. CASE a = b
      <4>1. \A c \in Controls : shared'[c] = shared[c]
        BY <1>1, <3>1, <3>3, <3>4
      <4>2. shared' = shared
        BY <1>1, <4>1 DEF Inv, Shape, TypeOK
      <4> QED
        BY <1>1, <4>2, NothingPromised
    <3>5. CASE a # b
      <4>1. \A c \in Controls :
              shared'[c] = IF c = b THEN shared[b] + 1
                           ELSE IF c = a THEN shared[a] - 1 ELSE shared[c]
        BY <1>1, <3>1, <3>3, <3>5
      <4>2. shared' = [shared EXCEPT ![b] = @ + 1, ![a] = @ - 1]
        BY <1>1, <2>1, <3>1, <3>5, <4>1 DEF Inv, Shape, TypeOK
      <4>3. Promised!Exchange(t, b, a)
        BY <1>1, <2>1, <2>2, <3>1, <3>5, <4>2
        DEF Promised!Exchange, Promised!Answer, Report
      <4> QED
        BY <2>1, <3>1, <4>3 DEF Promised!Next
    <3> QED
      BY <3>4, <3>5
  <2>4. CASE ~(ref[r] \in Blocks /\ shared[ref[r]] # 0)
    <3>1. ReleasedBy(r) = shared
      BY <2>4 DEF ReleasedBy
    <3>2. shared' = [shared EXCEPT ![b] = @ + 1]
      BY <1>1, <2>1, <3>1 DEF Inv, Shape, TypeOK
    <3>3. Promised!Share(t, b)
      BY <1>1, <2>1, <2>2, <3>2 DEF Promised!Share, Promised!Answer, Report
    <3> QED
      BY <2>1, <3>3 DEF Promised!Next
  <2> QED
    BY <2>3, <2>4
<1> QED
  BY <1>3, <1>4

LEMMA RefPromised ==
  ASSUME Inv, NEW t \in Threads, Borrow(t) \/ CopyRef(t) \/ MoveRef(t) \/ DropRef(t)
  PROVE  Promised!Next
<1>1. CASE Borrow(t)
  <2>1. PICK o \in Owners, r \in Refs :
          /\ owns[o] # Absent /\ ref[r] = Absent
          /\ IF owns[o] \in Blocks THEN AssignRef(t, r, owns[o])
             ELSE RefuseRef(t, r, "null")
          /\ UNCHANGED exclusive
    BY <1>1 DEF Borrow
  <2>2. ReleasedBy(r) = shared
    BY <2>1, Constants DEF ReleasedBy
  <2>3. CASE owns[o] \notin Blocks
    BY <2>1, <2>2, <2>3, NothingPromised DEF RefuseRef
  <2>4. CASE owns[o] \in Blocks /\ SharedRefused(owns[o])
    <3> PICK b \in Blocks : b = owns[o]
      BY <2>4
    <3>1. Report(t, "mutableExists") /\ shared' = shared /\ exclusive[b] /\ b \in Controls
      BY <2>1, <2>2, <2>4, Constants DEF AssignRef, RefuseRef, SharedRefused
    <3>2. Promised!Refuse(t, b)
      BY <2>1, <3>1 DEF Promised!Refuse, Promised!Conflict, Promised!Answer, Report
    <3> QED
      BY <3>1, <3>2 DEF Promised!Next
  <2>5. CASE owns[o] \in Blocks /\ ~SharedRefused(owns[o])
    BY <2>1, <2>5, AssignPromised
  <2> QED
    BY <2>3, <2>4, <2>5
<1>2. CASE CopyRef(t)
  <2>1. PICK r \in Refs, s \in Refs :
          ref[s] # Absent /\ AssignRef(t, r, ref[s]) /\ UNCHANGED exclusive
    BY <1>2 DEF CopyRef
  <2>2. ref[s] \in Blocks \union {Null} /\ ~SharedRefused(ref[s])
    BY <2>1 DEF SharedRefused, Inv, Shape, TypeOK, Ledger, BlockFits, Readers
  <2> QED
    BY <2>1, <2>2, AssignPromised
<1>3. CASE MoveRef(t)
  BY <1>3, ReleasePromised DEF MoveRef
<1>4. CASE DropRef(t)
  BY <1>4, ReleasePromised DEF DropRef
<1> QED
  BY <1>1, <1>2, <1>3, <1>4

LEMMA BorrowMutPromised ==
  ASSUME Inv, NEW t \in Threads, BorrowMut(t)
  PROVE  Promised!Next
<1>1. PICK o \in Owners :
        /\ owns[o] # Absent
        /\ IF owns[o] = Null \/ MutableRefused(owns[o])
           THEN /\ Report(t, IF owns[o] = Null THEN "null" ELSE "borrowExists")
                /\ UNCHANGED exclusive
           ELSE /\ exclusive' = [exclusive EXCEPT ![owns[o]] = TRUE]
                /\ Report(t, "ok")
        /\ UNCHANGED shared
  BY DEF BorrowMut
<1>2. CASE owns[o] = Null
  BY <1>1, <1>2, NothingPromised
<1>3. CASE owns[o] # Null
  <2> PICK b \in Blocks : b = owns[o]
    BY <1>1, <1>3 DEF Inv, Shape, TypeOK
  <2>1. b \in Controls /\ shared[b] \in Nat /\ exclusive[b] \in BOOLEAN
    BY Constants DEF Inv, Shape, TypeOK
  <2>2. CASE MutableRefused(b)
    <3>1. Report(t, "borrowExists") /\ UNCHANGED <<shared, exclusive>>
      BY <1>1, <1>3, <2>2
    <3>2. exclusive[b] \/ shared[b] > 0
      BY <2>1, <2>2 DEF MutableRefused, HasBorrow
    <3>3. Promised!Refuse(t, b)
      BY <3>1, <3>2 DEF Promised!Refuse, Promised!Conflict, Promised!Answer, Report
    <3> QED
      BY <2>1, <3>3 DEF Promised!Next
  <2>3. CASE ~MutableRefused(b)
    <3>1. exclusive' = [exclusive EXCEPT ![b] = TRUE] /\ Report(t, "ok") /\ UNCHANGED shared
      BY <1>1, <1>3, <2>3
    <3>2. Promised!Write(t, b)
      BY <2>3, <3>1 DEF Promised!Write, Promised!Answer, Report, MutableRefused, HasBorrow
    <3> QED
      BY <2>1, <3>2 DEF Promised!Next
  <2> QED
    BY <2>2, <2>3
<1> QED
  BY <1>2, <1>3

LEMMA ReleaseMutPromised ==
  ASSUME Inv, NEW t \in Threads, DropMut(t) \/ MoveMut(t)
  PROVE  Promised!Next
<1>1. PICK g \in MutRefs, s \in MutRefs \union {Null} :
        Release(t, g, s) /\ Report(t, "ok") /\ UNCHANGED shared
  BY DEF DropMut, MoveMut
<1>2. CASE Exists(g) /\ mut[g].state \in Mutexes
  BY <1>1, <1>2, NothingPromised DEF Release
<1>3. CASE ~(Exists(g) /\ mut[g].state \in Mutexes)
  <2>1. exclusive' = ClearedBy(g)
    BY <1>1, <1>3 DEF Release
  <2>2. CASE Exists(g) /\ mut[g].ctrl \in Controls
    <3> PICK b \in Blocks : b = mut[g].ctrl
      BY <1>3, <2>2, Constants DEF Inv, Shape, GuardKinds
    <3>1. g \in Writers(b) /\ b \in Controls
      BY <2>2 DEF Writers
    <3>2. exclusive[b] /\ exclusive' = [exclusive EXCEPT ![b] = FALSE]
      BY <2>1, <2>2, <3>1 DEF Inv, Ledger, BlockFits, ClearedBy
    <3>3. Promised!Unwrite(t, b)
      BY <1>1, <3>2 DEF Promised!Unwrite, Promised!Answer, Report
    <3> QED
      BY <3>1, <3>3 DEF Promised!Next
  <2>3. CASE ~(Exists(g) /\ mut[g].ctrl \in Controls)
    BY <1>1, <2>1, <2>3, NothingPromised DEF ClearedBy
  <2> QED
    BY <2>2, <2>3
<1> QED
  BY <1>2, <1>3

LEMMA MutexPromised ==
  ASSUME Inv, NEW t \in Threads, Lock(t) \/ Proceed(t)
  PROVE  [Promised!Next]_(Promised!vars)
<1> PICK m : m = call[t].mutex
  OBVIOUS
<1>1. CASE Lock(t) \/ Acquire(t) \/ ClearToken(t) \/ Unlock(t)
  BY <1>1 DEF Lock, Acquire, ClearToken, Unlock, ledgers, Promised!vars
<1>2. CASE Record(t)
  BY <1>2, RecordGrants DEF ledgers, Promised!vars
<1>3. CASE Arm(t)
  <2>1. /\ m \in Mutexes /\ ~exclusive[m] /\ shared[m] = 0 /\ Report(t, "ok")
        /\ exclusive' = [exclusive EXCEPT ![m] = TRUE] /\ UNCHANGED shared
    BY <1>3, ArmGrants
  <2>2. Promised!Write(t, m)
    BY <2>1 DEF Promised!Write, Promised!Answer, Report
  <2> QED
    BY <2>1, <2>2, Constants DEF Promised!Next
<1>4. CASE ClearFlag(t)
  <2>1. /\ call[t].at = "clearFlag" /\ exclusive' = [exclusive EXCEPT ![m] = FALSE]
        /\ UNCHANGED <<shared, outcome>>
    BY <1>4 DEF ClearFlag
  <2>2. m \in Mutexes /\ Stage(m) = "clearFlag" /\ outcome[t] = "ok"
    BY <2>1, StageWithin DEF Inside, Unlocking, WellFormed
  <2>3. exclusive[m]
    BY <2>2 DEF Inv, Ledger, MutexFits
  <2>4. outcome' = [outcome EXCEPT ![t] = "ok"]
    BY <2>1, <2>2 DEF Inv, Shape, TypeOK
  <2>5. Promised!Unwrite(t, m)
    BY <2>1, <2>3, <2>4 DEF Promised!Unwrite, Promised!Answer
  <2> QED
    BY <2>2, <2>5, Constants DEF Promised!Next
<1> QED
  BY <1>1, <1>2, <1>3, <1>4 DEF Proceed

LEMMA OtherPromised ==
  ASSUME Inv, NEW t \in Threads,
         \/ Construct(t) \/ MoveOwner(t) \/ DropOwner(t)
         \/ ReadRef(t) \/ UseMut(t) \/ UseOwner(t)
  PROVE  Promised!Next
<1>1. CASE Construct(t)
  <2>1. PICK b \in Blocks :
          /\ \A p \in Owners : owns[p] # b
          /\ shared' = [shared EXCEPT ![b] = 0]
          /\ exclusive' = [exclusive EXCEPT ![b] = FALSE]
          /\ Report(t, "ok")
    BY <1>1 DEF Construct
  <2>2. Readers(b) = {} /\ Writers(b) = {} /\ b \in Controls
    BY <2>1, Constants DEF Inv, Owned
  <2>3. shared[b] = 0 /\ exclusive[b] = FALSE
    BY <2>2, FS_EmptySet DEF Inv, Ledger, BlockFits, Shape, TypeOK
  <2>4. UNCHANGED <<shared, exclusive>>
    BY <2>1, <2>3 DEF Inv, Shape, TypeOK
  <2> QED
    BY <2>1, <2>4, NothingPromised
<1>2. CASE \/ MoveOwner(t) \/ DropOwner(t) \/ ReadRef(t) \/ UseMut(t) \/ UseOwner(t)
  <2>1. UNCHANGED <<shared, exclusive>> /\ (Report(t, "ok") \/ Report(t, "null"))
    BY <1>2 DEF MoveOwner, DropOwner, ReadRef, UseMut, UseOwner, RequireValue, ledgers
  <2> QED
    BY <2>1, NothingPromised
<1> QED
  BY <1>1, <1>2

LEMMA NextPromised == Inv /\ [Next]_vars => [Promised!Next]_(Promised!vars)
<1> SUFFICES ASSUME Inv, [Next]_vars PROVE [Promised!Next]_(Promised!vars)
  OBVIOUS
<1>1. CASE UNCHANGED vars
  BY <1>1 DEF vars, Promised!vars
<1> QED
  BY <1>1, RefPromised, BorrowMutPromised, ReleaseMutPromised, MutexPromised, OtherPromised
  DEF Next, Call, Finished

\* Steps of the two abstract states are the same.
LEMMA SamePromise ==
  ASSUME Inv, Inv', [Promised!Next]_(Promised!vars)
  PROVE  [RW!Next]_(RW!vars)
<1> DEFINE readers == [c \in Controls |-> Cardinality(Readers(c))]
           writer == [c \in Controls |-> \E g \in Writers(c) : ~Ended(g)]
<1>1. readers = shared /\ writer = exclusive
  BY Abstraction
<1>2. readers' = shared' /\ writer' = exclusive'
  <2>1. (Inv => readers = shared /\ writer = exclusive)'
    BY Abstraction, PTL
  <2> QED
    BY <2>1
<1> HIDE DEF readers, writer
<1>3. CASE UNCHANGED Promised!vars
  <2>1. readers' = readers /\ writer' = writer /\ outcome' = outcome
    BY <1>1, <1>2, <1>3 DEF Promised!vars
  <2> QED
    BY <2>1 DEF RW!vars, readers, writer
<1>4. ASSUME NEW t \in Threads, Promised!Trivial(t) PROVE RW!Next
  <2>1. RW!Trivial(t)
    BY <1>1, <1>2, <1>4
    DEF Promised!Trivial, Promised!Answer, RW!Trivial, RW!Answer, readers, writer
  <2> QED
    BY <2>1 DEF RW!Next
<1>5. ASSUME NEW t \in Threads, NEW p \in Controls,
             \/ Promised!Share(t, p) \/ Promised!Write(t, p) \/ Promised!Refuse(t, p)
             \/ Promised!Unshare(t, p) \/ Promised!Unwrite(t, p)
      PROVE  RW!Next
  <2>1. CASE Promised!Share(t, p)
    <3>1. RW!Share(t, p)
      BY <1>1, <1>2, <2>1
      DEF Promised!Share, Promised!Answer, RW!Share, RW!Answer, readers, writer
    <3> QED
      BY <3>1 DEF RW!Next
  <2>2. CASE Promised!Write(t, p)
    <3>1. RW!Write(t, p)
      BY <1>1, <1>2, <2>2
      DEF Promised!Write, Promised!Answer, RW!Write, RW!Answer, readers, writer
    <3> QED
      BY <3>1 DEF RW!Next
  <2>3. CASE Promised!Refuse(t, p)
    <3>1. RW!Refuse(t, p)
      BY <1>1, <1>2, <2>3
      DEF Promised!Refuse, Promised!Conflict, Promised!Answer,
          RW!Refuse, RW!Conflict, RW!Answer, readers, writer
    <3> QED
      BY <3>1 DEF RW!Next
  <2>4. CASE Promised!Unshare(t, p)
    <3>1. RW!Unshare(t, p)
      BY <1>1, <1>2, <2>4
      DEF Promised!Unshare, Promised!Answer, RW!Unshare, RW!Answer, readers, writer
    <3> QED
      BY <3>1 DEF RW!Next
  <2>5. CASE Promised!Unwrite(t, p)
    <3>1. RW!Unwrite(t, p)
      BY <1>1, <1>2, <2>5
      DEF Promised!Unwrite, Promised!Answer, RW!Unwrite, RW!Answer, readers, writer
    <3> QED
      BY <3>1 DEF RW!Next
  <2> QED
    BY <1>5, <2>1, <2>2, <2>3, <2>4, <2>5
<1>6. ASSUME NEW t \in Threads, NEW p \in Controls, NEW q \in Controls,
             Promised!Exchange(t, p, q) \/ Promised!RefuseAndUnshare(t, p, q)
      PROVE  RW!Next
  <2>1. CASE Promised!Exchange(t, p, q)
    <3>1. RW!Exchange(t, p, q)
      BY <1>1, <1>2, <2>1
      DEF Promised!Exchange, Promised!Answer, RW!Exchange, RW!Answer, readers, writer
    <3> QED
      BY <3>1 DEF RW!Next
  <2>2. CASE Promised!RefuseAndUnshare(t, p, q)
    <3>1. RW!RefuseAndUnshare(t, p, q)
      BY <1>1, <1>2, <2>2
      DEF Promised!RefuseAndUnshare, Promised!Conflict, Promised!Answer,
          RW!RefuseAndUnshare, RW!Conflict, RW!Answer, readers, writer
    <3> QED
      BY <3>1 DEF RW!Next
  <2> QED
    BY <1>6, <2>1, <2>2
<1> QED
  BY <1>3, <1>4, <1>5, <1>6 DEF Promised!Next

\* Each request for a borrow or a lock is granted or refused at one access, and
\* refused only if a conflicting borrow exists then: a lock() never is.
THEOREM GuardedBorrowImplementsReadersWriter == Spec => ImplementsReadersWriter
<1>1. Init => RW!Init
  <2> SUFFICES ASSUME Init PROVE RW!Init
    OBVIOUS
  <2>1. Inv
    BY InitInv
  <2> QED
    BY <2>1, Abstraction DEF Init, RW!Init
<1>2. Inv /\ [Next]_vars => [RW!Next]_(RW!vars)
  BY NextInv, NextPromised, SamePromise
<1> QED
  BY <1>1, <1>2, Invariance, PTL DEF Spec, ImplementsReadersWriter, RW!Spec
=============================================================================
