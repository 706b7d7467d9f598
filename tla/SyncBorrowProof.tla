-------------------------- MODULE SyncBorrowProof --------------------------
(***************************************************************************)
(* The borrow ledger of SyncOwner, proved for any number of threads,        *)
(* guards, owners and calls: the atomic word counts the borrows exactly, so *)
(* a writer is alone, and SyncBorrow implements ReadersWriter.               *)
(***************************************************************************)
EXTENDS SyncBorrowRW, FiniteSetTheorems, TLAPS

\* What the fields of a call hold at each of its labels.
WellFormed(c) ==
  /\ c.target # Null => c.target # c.source
  /\ CASE c.at = "idle" ->
            c.target = Null /\ c.source = Null /\ c.block = Null /\ c.next = Null
       [] c.at = "shareSwing" ->
            /\ c.target \in Refs /\ c.block \in Blocks /\ c.next = Null
            /\ c.observed < MaxSharedBorrows
       [] OTHER ->
            /\ c.target \in Refs /\ ctrl[c.target] \in Blocks /\ c.block = Null
            /\ c.source # Null => c.next = Null
            /\ c.at = "unshareSwing" => c.observed \in 1 .. MaxSharedBorrows

\* No two calls work on one guard, except that several may copy from it.
Undisturbed ==
  \A t, u \in Threads : t # u =>
    /\ call[t].target # Null =>
         call[t].target # call[u].target /\ call[t].target # call[u].source
    /\ Moving(t) => call[t].source # call[u].source

CallsWellFormed == (\A t \in Threads : WellFormed(call[t])) /\ Undisturbed

\* The word is the ledger: it excludes readers from a writer and bounds them.
Ledger ==
  \A b \in Blocks :
    /\ word[b] = IF Writers(b) # {} THEN MutableToken ELSE Cardinality(Sharers(b))
    /\ Writers(b) = {} => Cardinality(Sharers(b)) <= MaxSharedBorrows
    /\ Writers(b) # {} => Sharers(b) = {}
    /\ \A m, n \in Writers(b) : m = n

-----------------------------------------------------------------------------
(* Counting *)

\* How the size of a finite set follows its elements.
LEMMA Counting ==
  ASSUME NEW S, IsFiniteSet(S)
  PROVE  /\ Cardinality(S) \in Nat
         /\ Cardinality(S) = 0 <=> S = {}
         /\ \A x : x \notin S => Cardinality(S \union {x}) = Cardinality(S) + 1
         /\ \A x \in S : Cardinality(S \ {x}) = Cardinality(S) - 1
         /\ \A x \in S : \A y : y \notin S =>
              Cardinality((S \ {x}) \union {y}) = Cardinality(S)
<1>1. Cardinality(S) \in Nat /\ (Cardinality(S) = 0 <=> S = {})
  BY FS_CardinalityType, FS_EmptySet
<1>2. \A x : x \notin S => Cardinality(S \union {x}) = Cardinality(S) + 1
  BY FS_AddElement
<1>3. \A x \in S : IsFiniteSet(S \ {x}) /\ Cardinality(S \ {x}) = Cardinality(S) - 1
  BY FS_RemoveElement
<1>4. ASSUME NEW x \in S, NEW y, y \notin S
      PROVE  Cardinality((S \ {x}) \union {y}) = Cardinality(S)
  <2>1. Cardinality((S \ {x}) \union {y}) = Cardinality(S \ {x}) + 1
    BY <1>3, <1>4, FS_AddElement
  <2> QED
    BY <1>1, <1>3, <2>1
<1> QED
  BY <1>1, <1>2, <1>3, <1>4

LEMMA SharersFinite == ASSUME NEW b PROVE IsFiniteSet(Sharers(b))
<1>1. {r \in Refs : ctrl[r] = b} \subseteq Refs /\ {t \in Threads : call[t].next = b} \subseteq Threads
  OBVIOUS
<1> QED
  BY <1>1, NamesAssumption, FS_Subset, FS_Union DEF Sharers

-----------------------------------------------------------------------------
(* Calls stay well-formed *)

LEMMA Constants ==
  /\ MutableToken \in Nat /\ MutableToken > 1
  /\ Null # Absent /\ Null \notin Blocks \union Refs \union MutRefs
  /\ Absent \notin Blocks \union Refs \union MutRefs
  /\ Refs \cap MutRefs = {} /\ Refs \cap Threads = {}
BY TokenAssumption, NamesAssumption

\* A call that goes on keeps its guards or leaves them; one that starts takes
\* guards that no other call works on.
GoesOn(t, c) ==
  /\ c.target \in {Null, call[t].target} /\ c.source \in {Null, call[t].source}
  /\ c.source # Null => (c.at = "shareSwing" <=> call[t].at = "shareSwing")
Starts(c) ==
  /\ c.target # Null => Unused(c.target)
  /\ c.source # Null => IF c.at = "shareSwing" THEN Readable(c.source) ELSE Unused(c.source)

LEMMA IdleCall == Idle \in CallRecords /\ Starts(Idle) /\ WellFormed(Idle)'
<1>1. 0 \in 0 .. MutableToken
  BY Constants
<1> QED
  BY <1>1 DEF Idle, CallRecords, Labels, Starts, WellFormed

\* A step of one call disturbs no other, if it leaves their targets alone.
LEMMA CallFrame ==
  ASSUME TypeOK, CallsWellFormed, NEW t \in Threads, NEW c \in CallRecords,
         call' = [call EXCEPT ![t] = c], WellFormed(c)', GoesOn(t, c) \/ Starts(c),
         \A u \in Threads \ {t} :
           call[u].target # Null => ctrl'[call[u].target] = ctrl[call[u].target]
  PROVE  call' \in [Threads -> CallRecords] /\ CallsWellFormed'
<1> USE DEF TypeOK, CallsWellFormed
<1>1. call' \in [Threads -> CallRecords] /\ call'[t] = c
      /\ \A u \in Threads \ {t} : call'[u] = call[u]
  OBVIOUS
<1>2. ASSUME NEW u \in Threads PROVE WellFormed(call[u])'
  <2>1. CASE u = t
    BY <1>1, <2>1
  <2>2. CASE u # t
    BY <1>1, <2>2, Constants DEF WellFormed, CallRecords, Labels
  <2> QED
    BY <2>1, <2>2
<1>3. Undisturbed'
  <2>1. CASE GoesOn(t, c)
    BY <1>1, <2>1 DEF Undisturbed, GoesOn, Moving
  <2>2. CASE Starts(c)
    BY <1>1, <2>2 DEF Undisturbed, Starts, Unused, Readable, Moving
  <2> QED
    BY <2>1, <2>2
<1> QED
  BY <1>1, <1>2, <1>3

\* The target's new pointer is stored, or the call goes on to release the old
\* borrow.
LEMMA SettleCalls ==
  ASSUME TypeOK, CallsWellFormed, NEW t \in Threads, NEW r \in Refs,
         NEW next \in Blocks \union {Null, Absent}, Settle(t, r, next),
         call[t].target = r \/ Unused(r)
  PROVE  /\ call' \in [Threads -> CallRecords]
         /\ ctrl' \in [Guards -> Blocks \union {Null, Absent}]
         /\ CallsWellFormed'
<1> DEFINE late == Releasing(r, Null, next)
<1>1. late \in CallRecords
  BY Constants DEF Releasing, CallRecords, Labels
<1>2. \A u \in Threads \ {t} :
        call[u].target # r /\ call[u].target \in Guards \union {Null}
  BY Constants DEF CallsWellFormed, Undisturbed, Unused, TypeOK, CallRecords, Guards
<1>3. CASE ctrl[r] \in Blocks
  <2>1. call' = [call EXCEPT ![t] = late] /\ ctrl' = ctrl
    BY <1>3 DEF Settle
  <2>2. WellFormed(late)'
    BY <1>3, <2>1, Constants DEF WellFormed, Releasing
  <2>3. GoesOn(t, late) \/ Starts(late)
    BY DEF GoesOn, Starts, Releasing
  <2> QED
    BY <1>1, <2>1, <2>2, <2>3, CallFrame DEF TypeOK
<1>4. CASE ctrl[r] \notin Blocks
  <2>1. call' = [call EXCEPT ![t] = Idle] /\ ctrl' = [ctrl EXCEPT ![r] = next]
    BY <1>4 DEF Settle, Return
  <2>2. ctrl' \in [Guards -> Blocks \union {Null, Absent}]
    BY <2>1 DEF TypeOK
  <2>3. \A u \in Threads \ {t} :
          call[u].target # Null => ctrl'[call[u].target] = ctrl[call[u].target]
    BY <1>2, <2>1 DEF TypeOK
  <2> QED
    BY <2>1, <2>2, <2>3, CallFrame, IdleCall
<1> QED
  BY <1>3, <1>4

\* So a refusal does, or it leaves the target alone.
LEMMA RefuseCalls ==
  ASSUME TypeOK, CallsWellFormed, NEW t \in Threads, NEW r \in Refs,
         NEW kind \in Outcomes, Refuse(t, r, kind),
         call[t].target = r \/ Unused(r)
  PROVE  /\ call' \in [Threads -> CallRecords]
         /\ ctrl' \in [Guards -> Blocks \union {Null, Absent}]
         /\ outcome' \in [Threads -> Outcomes]
         /\ CallsWellFormed'
<1>1. outcome' \in [Threads -> Outcomes]
  BY DEF Refuse, Report, TypeOK
<1>2. CASE Return(t) /\ UNCHANGED ctrl
  BY <1>1, <1>2, CallFrame, IdleCall DEF Return, TypeOK
<1>3. CASE Settle(t, r, Null)
  BY <1>1, <1>3, SettleCalls
<1> QED
  BY <1>2, <1>3 DEF Refuse

\* The loop body of an acquisition refuses, or saves what it has seen.
LEMMA ExamineCalls ==
  ASSUME TypeOK, CallsWellFormed, NEW t \in Threads, NEW r \in Refs,
         NEW s \in Refs \union {Null}, NEW b \in Blocks, Examine(t, r, s, b), r # s,
         \/ call[t].at = "shareSwing" /\ call[t].target = r /\ call[t].source = s
         \/ Unused(r) /\ (s # Null => Readable(s))
  PROVE  /\ call' \in [Threads -> CallRecords]
         /\ ctrl' \in [Guards -> Blocks \union {Null, Absent}]
         /\ outcome' \in [Threads -> Outcomes]
         /\ CallsWellFormed'
<1>1. CASE Taken(word[b]) \/ Full(word[b])
  <2>1. \E kind \in Outcomes : Refuse(t, r, kind)
    BY <1>1 DEF Examine, Outcomes
  <2> QED
    BY <2>1, RefuseCalls
<1>2. CASE ~Taken(word[b]) /\ ~Full(word[b])
  <2> PICK w \in 0 .. MutableToken : w = word[b]
    BY DEF TypeOK
  <2> DEFINE c == [at |-> "shareSwing", target |-> r, source |-> s, block |-> b,
                   next |-> Null, observed |-> w]
  <2>1. call' = [call EXCEPT ![t] = c] /\ UNCHANGED <<ctrl, outcome>>
    BY <1>2 DEF Examine
  <2>2. w < MaxSharedBorrows
    BY <1>2, Constants DEF Full, MaxSharedBorrows
  <2>3. c \in CallRecords /\ WellFormed(c)'
    BY <2>2, Constants DEF CallRecords, Labels, WellFormed
  <2>4. GoesOn(t, c) \/ Starts(c)
    BY DEF GoesOn, Starts
  <2> QED
    BY <2>1, <2>3, <2>4, CallFrame DEF TypeOK
<1> QED
  BY <1>1, <1>2

\* The pointers are stored when the old borrow is released.
LEMMA FinishCalls ==
  ASSUME TypeOK, CallsWellFormed, NEW t \in Threads, Finish(t),
         call[t].at \in {"unshareLoad", "unshareSwing"}
  PROVE  /\ call' \in [Threads -> CallRecords]
         /\ ctrl' \in [Guards -> Blocks \union {Null, Absent}]
         /\ CallsWellFormed'
<1> DEFINE c == call[t]
<1>1. /\ c \in CallRecords /\ c.target \in Refs /\ c.target # c.source
      /\ c.source \in Refs \union {Null} /\ c.next \in Blocks \union {Null, Absent}
      /\ c.source # Null => Moving(t)
  BY Constants DEF TypeOK, CallsWellFormed, WellFormed, CallRecords, Moving
<1>2. \A u \in Threads \ {t} : call[u].target # Null =>
        call[u].target # c.target /\ call[u].target # c.source
  BY <1>1 DEF CallsWellFormed, Undisturbed
<1>3. ctrl' \in [Guards -> Blocks \union {Null, Absent}]
  BY <1>1 DEF Finish, TypeOK, Guards
<1>4. \A u \in Threads \ {t} :
        call[u].target # Null => ctrl'[call[u].target] = ctrl[call[u].target]
  <2> SUFFICES ASSUME NEW u \in Threads \ {t}, call[u].target # Null
               PROVE  ctrl'[call[u].target] = ctrl[call[u].target]
    OBVIOUS
  <2>1. call[u].target \in Guards
    BY DEF TypeOK, CallRecords, Guards
  <2> QED
    BY <1>1, <1>2, <2>1 DEF Finish, TypeOK
<1> QED
  BY <1>3, <1>4, CallFrame, IdleCall DEF Finish, Return

\* So the steps of the release loop end the call or save a word to swing.
LEMMA ReleaseCalls ==
  ASSUME TypeOK, CallsWellFormed, NEW t \in Threads, Release(t),
         call[t].at \in {"unshareLoad", "unshareSwing"}
  PROVE  /\ call' \in [Threads -> CallRecords]
         /\ ctrl' \in [Guards -> Blocks \union {Null, Absent}]
         /\ CallsWellFormed'
<1> PICK w : w = word[ctrl[call[t].target]]
  OBVIOUS
<1>1. CASE w \in {NoBorrow, MutableToken}
  BY <1>1, FinishCalls DEF Release
<1>2. CASE w \notin {NoBorrow, MutableToken}
  <2>1. PICK c : c = [call[t] EXCEPT !.at = "unshareSwing", !.observed = w]
    OBVIOUS
  <2>2. call' = [call EXCEPT ![t] = c] /\ ctrl' = ctrl
    BY <1>2, <2>1 DEF Release, TypeOK
  <2>3. /\ call[t] \in CallRecords /\ WellFormed(call[t])
        /\ call[t].target \in Refs /\ ctrl[call[t].target] \in Blocks
    BY DEF TypeOK, CallsWellFormed, WellFormed
  <2>4. w \in 0 .. MutableToken /\ w \in 1 .. MaxSharedBorrows
    BY <1>2, <2>3, Constants DEF TypeOK, NoBorrow, MaxSharedBorrows
  <2>5. c \in CallRecords
    BY <2>1, <2>3, <2>4 DEF CallRecords, Labels
  <2>6. /\ c.at = "unshareSwing" /\ c.observed = w /\ c.target = call[t].target
        /\ c.source = call[t].source /\ c.block = call[t].block /\ c.next = call[t].next
    BY <2>1, <2>3 DEF CallRecords
  <2>7. WellFormed(c)'
    BY <2>2, <2>3, <2>4, <2>6 DEF WellFormed
  <2>8. GoesOn(t, c)
    BY <2>6 DEF GoesOn
  <2> QED
    BY <2>2, <2>5, <2>7, <2>8, CallFrame DEF TypeOK
<1> QED
  BY <1>1, <1>2

\* A step that leaves the calls alone and works on guards nobody uses.
LEMMA SameCalls ==
  ASSUME TypeOK, CallsWellFormed, call' = call,
         \A t \in Threads : call[t].target # Null => ctrl'[call[t].target] = ctrl[call[t].target]
  PROVE  call' \in [Threads -> CallRecords] /\ CallsWellFormed'
<1>1. ASSUME NEW t \in Threads PROVE WellFormed(call[t])'
  <2>1. WellFormed(call[t]) /\ call'[t] = call[t]
    BY DEF CallsWellFormed
  <2>2. call[t].target # Null => ctrl'[call[t].target] = ctrl[call[t].target]
    OBVIOUS
  <2> QED
    BY <2>1, <2>2, Constants DEF WellFormed
<1>2. Undisturbed'
  BY DEF CallsWellFormed, Undisturbed, Moving
<1> QED
  BY <1>1, <1>2 DEF TypeOK, CallsWellFormed

LEMMA GuardTargets ==
  ASSUME TypeOK, NEW t \in Threads
  PROVE  call[t].target \in Refs \union {Null} /\ call[t].source \in Refs \union {Null}
BY DEF TypeOK, CallRecords

LEMMA StartTypes ==
  ASSUME TypeOK, NEW t \in Threads, Start(t)
  PROVE  calls' \in [Threads -> 0 .. MaxCalls]
<1>1. calls[t] + 1 \in 0 .. MaxCalls
  BY CallsAssumption DEF TypeOK, Start
<1> QED
  BY <1>1 DEF TypeOK, Start

Shape == TypeOK /\ CallsWellFormed

\* Every step of a shared borrow keeps the types and the calls well-formed.
LEMMA SharedShape ==
  ASSUME Shape, NEW t \in Threads,
         Borrow(t) \/ Copy(t) \/ Drop(t) \/ Move(t) \/ Continue(t)
  PROVE  Shape'
<1> USE DEF Shape
<1>1. CASE Borrow(t)
  <2>1. PICK o \in Owners, r \in Refs :
          /\ Start(t) /\ owns[o] # Absent /\ ~Exists(r) /\ Unused(r)
          /\ IF owns[o] \in Blocks
             THEN Examine(t, r, Null, owns[o])
             ELSE Refuse(t, r, "null")
          /\ UNCHANGED <<word, owns>>
    BY <1>1 DEF Borrow
  <2>2. CASE owns[o] \in Blocks
    BY <2>1, <2>2, ExamineCalls, StartTypes, Constants DEF TypeOK
  <2>3. CASE owns[o] \notin Blocks
    BY <2>1, <2>3, RefuseCalls, StartTypes DEF TypeOK, Outcomes
  <2> QED
    BY <2>2, <2>3
<1>2. CASE Copy(t)
  <2>1. PICK r \in Refs, s \in Refs :
          /\ Start(t) /\ r # s /\ Exists(s) /\ Unused(r) /\ Readable(s)
          /\ IF ctrl[s] \in Blocks
             THEN Examine(t, r, s, ctrl[s])
             ELSE Settle(t, r, Null) /\ Report(t, "ok")
          /\ UNCHANGED <<word, owns>>
    BY <1>2 DEF Copy
  <2>2. CASE ctrl[s] \in Blocks
    BY <2>1, <2>2, ExamineCalls, StartTypes, Constants DEF TypeOK
  <2>3. CASE ctrl[s] \notin Blocks
    BY <2>1, <2>3, SettleCalls, StartTypes DEF TypeOK, Report, Outcomes
  <2> QED
    BY <2>2, <2>3
<1>3. CASE Drop(t)
  <2>1. PICK r \in Refs : /\ Start(t) /\ Unused(r) /\ Settle(t, r, Absent)
                          /\ Report(t, "ok") /\ UNCHANGED <<word, owns>>
    BY <1>3 DEF Drop
  <2> QED
    BY <2>1, SettleCalls, StartTypes DEF TypeOK, Report, Outcomes
<1>4. CASE Move(t)
  <2>1. PICK r \in Refs, s \in Refs :
          /\ Start(t) /\ r # s /\ Exists(s) /\ Unused(r) /\ Unused(s)
          /\ IF ctrl[r] \in Blocks
             THEN /\ call' = [call EXCEPT ![t] = Releasing(r, s, Null)]
                  /\ UNCHANGED ctrl
             ELSE /\ ctrl' = [ctrl EXCEPT ![r] = ctrl[s], ![s] = Null]
                  /\ UNCHANGED call
          /\ Report(t, "ok")
          /\ UNCHANGED <<word, owns>>
    BY <1>4 DEF Move
  <2>2. CASE ctrl[r] \in Blocks
    <3> DEFINE c == Releasing(r, s, Null)
    <3>1. c \in CallRecords /\ WellFormed(c)' /\ Starts(c)
      BY <2>1, <2>2, Constants DEF Releasing, CallRecords, Labels, WellFormed, Starts
    <3> QED
      BY <2>1, <2>2, <3>1, CallFrame, StartTypes DEF TypeOK, Report, Outcomes
  <2>3. CASE ctrl[r] \notin Blocks
    <3>1. /\ ctrl' = [ctrl EXCEPT ![r] = ctrl[s], ![s] = Null] /\ call' = call
          /\ ctrl' \in [Guards -> Blocks \union {Null, Absent}]
      BY <2>1, <2>3 DEF TypeOK, Guards
    <3>2. ASSUME NEW u \in Threads, call[u].target # Null
          PROVE  ctrl'[call[u].target] = ctrl[call[u].target]
      BY <2>1, <3>1, <3>2, GuardTargets DEF TypeOK, Guards, Unused
    <3> QED
      BY <2>1, <3>1, <3>2, SameCalls, StartTypes DEF TypeOK, Report, Outcomes
  <2> QED
    BY <2>2, <2>3
<1>5. CASE ShareSwing(t)
  <2>1. /\ call[t].target \in Refs /\ call[t].block \in Blocks
        /\ call[t].observed + 1 \in 0 .. MutableToken
    BY <1>5, Constants
    DEF ShareSwing, TypeOK, CallsWellFormed, WellFormed, CallRecords, MaxSharedBorrows
  <2>2. word' \in [Blocks -> 0 .. MutableToken]
    BY <1>5, <2>1 DEF ShareSwing, TypeOK
  <2> QED
    BY <1>5, <2>1, <2>2, SettleCalls DEF ShareSwing, TypeOK, Report, Outcomes
<1>6. CASE ShareRetry(t)
  <2>1. /\ call[t].target \in Refs /\ call[t].block \in Blocks
        /\ call[t].target # call[t].source /\ call[t].source \in Refs \union {Null}
    BY <1>6, Constants DEF ShareRetry, TypeOK, CallsWellFormed, WellFormed, CallRecords
  <2> QED
    BY <1>6, <2>1, ExamineCalls DEF ShareRetry, TypeOK
<1>7. CASE UnshareLoad(t) \/ UnshareRetry(t)
  BY <1>7, ReleaseCalls DEF UnshareLoad, UnshareRetry, TypeOK
<1>8. CASE UnshareSwing(t)
  <2>1. /\ ctrl[call[t].target] \in Blocks
        /\ call[t].observed - 1 \in 0 .. MutableToken
    BY <1>8, Constants
    DEF UnshareSwing, TypeOK, CallsWellFormed, WellFormed, MaxSharedBorrows
  <2>2. word' \in [Blocks -> 0 .. MutableToken]
    BY <1>8, <2>1 DEF UnshareSwing, TypeOK
  <2> QED
    BY <1>8, <2>2, FinishCalls DEF UnshareSwing, TypeOK
<1> QED
  BY <1>1, <1>2, <1>3, <1>4, <1>5, <1>6, <1>7, <1>8 DEF Continue

\* So does every other step.
LEMMA OtherShape ==
  ASSUME Shape, NEW t \in Threads,
         \/ BorrowMut(t) \/ DropMut(t) \/ MoveMut(t) \/ MoveOwner(t) \/ DropOwner(t)
         \/ ReadRef(t) \/ UseMut(t) \/ UseOwner(t)
  PROVE  Shape'
<1> USE StartTypes DEF Shape
<1>1. /\ call' = call
      /\ \A u \in Threads : call[u].target # Null => ctrl'[call[u].target] = ctrl[call[u].target]
  BY GuardTargets, Constants
  DEF BorrowMut, DropMut, MoveMut, MoveOwner, DropOwner, ReadRef, UseMut, UseOwner,
      TypeOK, Guards
<1>2. call' \in [Threads -> CallRecords] /\ CallsWellFormed'
  BY <1>1, SameCalls
<1>3. outcome' \in [Threads -> Outcomes] /\ calls' \in [Threads -> 0 .. MaxCalls]
  BY DEF BorrowMut, DropMut, MoveMut, MoveOwner, DropOwner, ReadRef, UseMut, UseOwner,
         TypeOK, Report, RequireValue, Outcomes
<1>4. \A m \in MutRefs : WordReleasedBy(m) \in [Blocks -> 0 .. MutableToken]
  BY Constants DEF WordReleasedBy, TypeOK, NoBorrow
<1>5. /\ word' \in [Blocks -> 0 .. MutableToken]
      /\ ctrl' \in [Guards -> Blocks \union {Null, Absent}]
  BY <1>4, Constants
  DEF BorrowMut, DropMut, MoveMut, MoveOwner, DropOwner, ReadRef, UseMut, UseOwner,
      TypeOK, Guards
<1>6. owns' \in [Owners -> Blocks \union {Null, Absent}]
  BY DEF BorrowMut, DropMut, MoveMut, MoveOwner, DropOwner, ReadRef, UseMut, UseOwner,
         TypeOK
<1> QED
  BY <1>2, <1>3, <1>5, <1>6 DEF TypeOK

LEMMA InitShape == Init => Shape
<1> SUFFICES ASSUME Init PROVE Shape
  OBVIOUS
<1>1. /\ word \in [Blocks -> 0 .. MutableToken]
      /\ ctrl \in [Guards -> Blocks \union {Null, Absent}]
  BY Constants DEF Init, NoBorrow
<1>2. call \in [Threads -> CallRecords] /\ calls \in [Threads -> 0 .. MaxCalls]
  BY IdleCall, CallsAssumption DEF Init
<1>3. CallsWellFormed
  BY DEF Init, CallsWellFormed, WellFormed, Undisturbed, Moving, Idle
<1> QED
  BY <1>1, <1>2, <1>3 DEF Init, Shape, TypeOK, Outcomes

LEMMA NextShape == Shape /\ [Next]_vars => Shape'
<1> SUFFICES ASSUME Shape, [Next]_vars PROVE Shape'
  OBVIOUS
<1>1. CASE UNCHANGED vars
  <2>1. \A u \in Threads : ctrl'[call[u].target] = ctrl[call[u].target]
    BY <1>1 DEF vars
  <2>2. CallsWellFormed'
    BY <1>1, <2>1, SameCalls DEF Shape, vars
  <2> QED
    BY <1>1, <2>2 DEF vars, Shape, TypeOK
<1> QED
  BY <1>1, SharedShape, OtherShape DEF Next, Call, Finished

\* Every variable stays in its type: the word in 0 .. mutable_token_, whatever
\* threads do between each other's atomic accesses.
THEOREM TypeCorrect == Spec => []TypeOK
<1>1. Shape => TypeOK
  BY DEF Shape
<1> QED
  BY <1>1, InitShape, NextShape, PTL DEF Spec

-----------------------------------------------------------------------------
(* What each step does to the borrows *)

Shared(b) == Cardinality(Sharers(b))

LEMMA SharedCounts ==
  ASSUME NEW b
  PROVE  /\ Shared(b) \in Nat /\ (Shared(b) = 0 <=> Sharers(b) = {})
         /\ Sharers(b)' = Sharers(b) => Shared(b)' = Shared(b)
         /\ \A x : x \notin Sharers(b) /\ Sharers(b)' = Sharers(b) \union {x} =>
              Shared(b)' = Shared(b) + 1
         /\ \A x \in Sharers(b) : Sharers(b)' = Sharers(b) \ {x} =>
              Shared(b)' = Shared(b) - 1
         /\ \A x \in Sharers(b) : \A y :
              y \notin Sharers(b) /\ Sharers(b)' = (Sharers(b) \ {x}) \union {y} =>
                Shared(b)' = Shared(b)
BY Counting, SharersFinite DEF Shared

\* The borrows of block b stay as they are, one shared borrow begins or ends,
\* a mutable one begins or ends.
Keeps(b) ==
  /\ word'[b] = word[b] /\ Shared(b)' = Shared(b)
  /\ Writers(b)' = {} <=> Writers(b) = {}
  /\ \A m, n \in Writers(b)' : m = n
Gains(b) ==
  /\ word[b] < MaxSharedBorrows /\ word'[b] = word[b] + 1
  /\ Shared(b)' = Shared(b) + 1 /\ Writers(b)' = Writers(b)
Loses(b) ==
  /\ word'[b] = word[b] - 1
  /\ Shared(b)' = Shared(b) - 1 /\ Writers(b)' = Writers(b)
Locks(b) ==
  /\ word[b] = NoBorrow /\ word'[b] = MutableToken
  /\ Shared(b)' = Shared(b) /\ \E m \in MutRefs : Writers(b)' = {m}
Unlocks(b) ==
  /\ word[b] = MutableToken /\ word'[b] = NoBorrow
  /\ Shared(b)' = Shared(b) /\ Writers(b) # {} /\ Writers(b)' = {}

\* One block changes so, and no other changes.
Only(b, change) == change /\ \A a \in Blocks \ {b} : Keeps(a)

\* A refusal names a conflict that the word shows.
Conflicts(t) ==
  \E b \in Blocks :
    \/ Report(t, "mutableExists") /\ word[b] = MutableToken
    \/ Report(t, "exhausted") /\ word[b] = MaxSharedBorrows
    \/ Report(t, "borrowExists") /\ word[b] # NoBorrow

\* What a step does to the borrows, and what it answers.
Effect(t) ==
  \/ /\ \A b \in Blocks : Keeps(b)
     /\ UNCHANGED outcome \/ Report(t, "ok") \/ Report(t, "null") \/ Conflicts(t)
  \/ \E b \in Blocks : Only(b, Gains(b)) /\ Report(t, "ok")
  \/ \E b \in Blocks : Only(b, Loses(b)) /\ UNCHANGED outcome
  \/ \E b \in Blocks : Only(b, Locks(b)) /\ Report(t, "ok")
  \/ \E b \in Blocks : Only(b, Unlocks(b)) /\ Report(t, "ok")

\* A step that stores nothing changes no borrow.
LEMMA QuietEffect ==
  ASSUME Ledger, word' = word, \A b \in Blocks : Sharers(b)' = Sharers(b),
         \A b \in Blocks : Writers(b)' = Writers(b)
  PROVE  \A b \in Blocks : Keeps(b)
BY SharedCounts DEF Keeps, Ledger

\* Settling without a new pointer changes no borrow.
LEMMA SettleQuiet ==
  ASSUME Shape, Ledger, NEW t \in Threads, NEW r \in Refs,
         NEW next \in {Null, Absent}, Settle(t, r, next), call[t].next = Null,
         word' = word
  PROVE  \A b \in Blocks : Keeps(b)
<1> USE Constants DEF Shape, TypeOK
<1>1. \A m \in MutRefs : ctrl'[m] = ctrl[m]
  BY DEF Settle, Guards
<1>2. \A b \in Blocks : Writers(b)' = Writers(b)
  BY <1>1 DEF Writers
<1>3. \A u \in Threads : u # t => call'[u] = call[u]
  BY DEF Settle, Return
<1>4. call'[t].next \notin Blocks
  BY DEF Settle, Return, Idle, Releasing
<1>5. \A q \in Refs, b \in Blocks : ctrl'[q] = b <=> ctrl[q] = b
  BY DEF Settle, Guards
<1>6. \A b \in Blocks : Sharers(b)' = Sharers(b)
  BY <1>3, <1>4, <1>5 DEF Sharers
<1> QED
  BY <1>2, <1>6, QuietEffect

\* Nor does a refusal, nor an acquisition before its CAS.
LEMMA RefuseQuiet ==
  ASSUME Shape, Ledger, NEW t \in Threads, NEW r \in Refs, NEW kind, Refuse(t, r, kind),
         call[t].next = Null, word' = word
  PROVE  (\A b \in Blocks : Keeps(b)) /\ Report(t, kind)
<1>1. CASE Return(t) /\ UNCHANGED ctrl
  <2>1. \A b \in Blocks : Sharers(b)' = Sharers(b) /\ Writers(b)' = Writers(b)
    BY <1>1, Constants DEF Return, Idle, Sharers, Writers, Shape, TypeOK
  <2> QED
    BY <2>1, QuietEffect DEF Refuse
<1>2. CASE Settle(t, r, Null)
  BY <1>2, SettleQuiet DEF Refuse
<1> QED
  BY <1>1, <1>2 DEF Refuse

LEMMA ExamineEffect ==
  ASSUME Shape, Ledger, NEW t \in Threads, NEW r \in Refs, NEW s, NEW b \in Blocks,
         Examine(t, r, s, b), call[t].next = Null, word' = word
  PROVE  Effect(t)
<1>1. word[b] \in 0 .. MutableToken
  BY DEF Shape, TypeOK
<1>2. CASE Taken(word[b])
  <2>1. Refuse(t, r, "mutableExists")
    BY <1>2 DEF Examine
  <2> QED
    BY <1>2, <2>1, RefuseQuiet DEF Effect, Conflicts, Taken
<1>3. CASE ~Taken(word[b]) /\ Full(word[b])
  <2>1. Refuse(t, r, "exhausted") /\ word[b] = MaxSharedBorrows
    BY <1>1, <1>3, Constants DEF Examine, Taken, Full, MaxSharedBorrows
  <2> QED
    BY <2>1, RefuseQuiet DEF Effect, Conflicts
<1>4. CASE ~Taken(word[b]) /\ ~Full(word[b])
  <2>1. /\ call' = [call EXCEPT ![t] =
             [at |-> "shareSwing", target |-> r, source |-> s, block |-> b,
              next |-> Null, observed |-> word[b]]]
        /\ UNCHANGED <<ctrl, outcome>>
    BY <1>4 DEF Examine
  <2>2. \A a \in Blocks : Sharers(a)' = Sharers(a) /\ Writers(a)' = Writers(a)
    BY <2>1, Constants DEF Sharers, Writers, Shape, TypeOK
  <2> QED
    BY <2>1, <2>2, QuietEffect DEF Effect
<1> QED
  BY <1>2, <1>3, <1>4

\* What the proofs below use of a call inside a shared borrow.
LEMMA InCall ==
  ASSUME Shape, NEW t \in Threads
  PROVE  LET c == call[t] IN
         /\ c.at \in {"idle", "shareSwing"} => c.next = Null
         /\ c.at = "shareSwing" =>
              /\ c.target \in Refs /\ c.block \in Blocks
              /\ c.observed \in Nat /\ c.observed < MaxSharedBorrows
         /\ c.at \in {"unshareLoad", "unshareSwing"} =>
              /\ c.target \in Refs /\ ctrl[c.target] \in Blocks
              /\ c.source \in Refs \union {Null} /\ c.target # c.source
              /\ c.source # Null => c.next = Null
              /\ c.next \in Blocks \union {Null, Absent}
BY Constants DEF Shape, TypeOK, CallRecords, CallsWellFormed, WellFormed

\* A successful CAS of acquire_shared() begins one borrow.
LEMMA ShareEffect ==
  ASSUME Shape, Ledger, NEW t \in Threads, ShareSwing(t)
  PROVE  Effect(t)
<1> USE DEF Shape, TypeOK
<1> PICK r, b : r = call[t].target /\ b = call[t].block
  OBVIOUS
<1>1. /\ r \in Refs /\ b \in Blocks /\ word[b] < MaxSharedBorrows /\ call[t].next = Null
      /\ word' = [word EXCEPT ![b] = word[b] + 1] /\ Settle(t, r, b) /\ Report(t, "ok")
  BY InCall DEF ShareSwing
<1>2. \A a \in Blocks : Writers(a)' = Writers(a)
  BY <1>1, Constants DEF Settle, Writers, Guards
<1>3. \E x : /\ x \notin Sharers(b) /\ Sharers(b)' = Sharers(b) \union {x}
             /\ \A a \in Blocks \ {b} : Sharers(a)' = Sharers(a)
  <2>1. CASE ctrl[r] \in Blocks
    <3>1. /\ ctrl' = ctrl
          /\ call' = [call EXCEPT ![t] = Releasing(r, Null, b)]
      BY <1>1, <2>1 DEF Settle
    <3>2. \A u \in Threads : call'[u].next = IF u = t THEN b ELSE call[u].next
      BY <3>1 DEF Releasing
    <3>3. t \notin Sharers(b) /\ Sharers(b)' = Sharers(b) \union {t}
      BY <1>1, <3>1, <3>2, Constants DEF Sharers
    <3>4. \A a \in Blocks \ {b} : Sharers(a)' = Sharers(a)
      BY <1>1, <3>1, <3>2, Constants DEF Sharers
    <3> QED
      BY <3>3, <3>4
  <2>2. CASE ctrl[r] \notin Blocks
    <3>1. ctrl' = [ctrl EXCEPT ![r] = b] /\ call' = [call EXCEPT ![t] = Idle]
      BY <1>1, <2>2 DEF Settle, Return
    <3>2. \A u \in Threads : call'[u].next = call[u].next
      BY <1>1, <3>1 DEF Idle
    <3>3. \A q \in Refs : ctrl'[q] = IF q = r THEN b ELSE ctrl[q]
      BY <3>1 DEF Guards
    <3>4. r \notin Sharers(b) /\ Sharers(b)' = Sharers(b) \union {r}
      BY <1>1, <2>2, <3>2, <3>3, Constants DEF Sharers
    <3>5. \A a \in Blocks \ {b} : Sharers(a)' = Sharers(a)
      BY <1>1, <2>2, <3>2, <3>3 DEF Sharers
    <3> QED
      BY <3>4, <3>5
  <2> QED
    BY <2>1, <2>2
<1>4. Gains(b)
  BY <1>1, <1>2, <1>3, SharedCounts DEF Gains
<1>5. \A a \in Blocks \ {b} : Keeps(a)
  BY <1>1, <1>2, <1>3, SharedCounts DEF Keeps, Ledger
<1> QED
  BY <1>1, <1>4, <1>5 DEF Effect, Only

\* The end of a release takes one sharer of the old block away and puts the
\* target in the place of another sharer of the new one.
LEMMA FinishSharers ==
  ASSUME Shape, NEW t \in Threads, Finish(t),
         call[t].at \in {"unshareLoad", "unshareSwing"},
         NEW b, b = ctrl[call[t].target]
  PROVE  /\ Shared(b)' = Shared(b) - 1 /\ Shared(b) > 0
         /\ \A a \in Blocks \ {b} : Shared(a)' = Shared(a)
         /\ \A a \in Blocks : Writers(a)' = Writers(a)
<1> USE DEF Shape, TypeOK
<1> PICK r, s, n : /\ r = call[t].target /\ s = call[t].source
                   /\ n = IF s = Null THEN call[t].next ELSE ctrl[s]
  OBVIOUS
<1>1. /\ r \in Refs /\ b \in Blocks /\ s \in Refs \union {Null} /\ r # s
      /\ n \in Blocks \union {Null, Absent} /\ (s # Null => call[t].next = Null)
  BY InCall DEF Guards
<1>2. \A u \in Threads : call'[u].next = IF u = t THEN Null ELSE call[u].next
  BY DEF Finish, Return, Idle
<1>3. \A q \in Refs : ctrl'[q] = IF q = r THEN n ELSE IF q = s THEN Null ELSE ctrl[q]
  BY <1>1, Constants DEF Finish, Guards
<1>4. \A a \in Blocks : Writers(a)' = Writers(a)
  BY <1>1, Constants DEF Finish, Writers, Guards
<1> DEFINE x == IF s = Null THEN t ELSE s
<1>5. n \in Blocks => x \in Sharers(n)
  BY <1>1 DEF Sharers
<1>6. r \in Sharers(b) /\ x # r
  BY <1>1, Constants DEF Sharers
<1>7. Sharers(b)' = Sharers(b) \ (IF n = b THEN {x} ELSE {r})
  BY <1>1, <1>2, <1>3, Constants DEF Sharers
<1>8. \A a \in Blocks \ {b} :
        /\ r \notin Sharers(a)
        /\ Sharers(a)' = IF a = n THEN (Sharers(a) \ {x}) \union {r} ELSE Sharers(a)
  BY <1>1, <1>2, <1>3, Constants DEF Sharers
<1>9. Shared(b)' = Shared(b) - 1 /\ Shared(b) > 0
  <2>1. \E y \in Sharers(b) : Sharers(b)' = Sharers(b) \ {y}
    BY <1>1, <1>5, <1>6, <1>7
  <2> QED
    BY <2>1, SharedCounts
<1>10. \A a \in Blocks \ {b} : Shared(a)' = Shared(a)
  BY <1>5, <1>8, SharedCounts
<1> QED
  BY <1>4, <1>9, <1>10

\* The word of a block whose reader is being released counts it.
LEMMA ReleasedWord ==
  ASSUME Shape, Ledger, NEW t \in Threads, call[t].at \in {"unshareLoad", "unshareSwing"}
  PROVE  LET b == ctrl[call[t].target] IN
         b \in Blocks /\ word[b] \notin {NoBorrow, MutableToken}
<1> DEFINE b == ctrl[call[t].target]
<1>1. b \in Blocks /\ call[t].target \in Sharers(b)
  BY InCall DEF Sharers
<1>2. Writers(b) = {} /\ word[b] = Shared(b) /\ word[b] <= MaxSharedBorrows
  BY <1>1 DEF Ledger, Shared
<1>3. Shared(b) \in Nat \ {0}
  BY <1>1, SharedCounts
<1> QED
  BY <1>1, <1>2, <1>3, Constants DEF NoBorrow, MaxSharedBorrows

\* A successful CAS of release_shared() ends one borrow, and the loop never
\* finds nothing to give back.
LEMMA UnshareEffect ==
  ASSUME Shape, Ledger, NEW t \in Threads,
         UnshareLoad(t) \/ UnshareRetry(t) \/ UnshareSwing(t)
  PROVE  Effect(t)
<1> PICK b : b = ctrl[call[t].target]
  OBVIOUS
<1>1. CASE UnshareLoad(t) \/ UnshareRetry(t)
  <2>1. /\ call[t].at \in {"unshareLoad", "unshareSwing"} /\ Release(t)
        /\ word' = word /\ outcome' = outcome
    BY <1>1 DEF UnshareLoad, UnshareRetry
  <2>2. \E w : call' = [call EXCEPT ![t] = [@ EXCEPT !.at = "unshareSwing", !.observed = w]]
    BY <2>1, ReleasedWord DEF Release, Shape, TypeOK
  <2>3. ctrl' = ctrl
    BY <2>1, ReleasedWord DEF Release
  <2>4. \A u \in Threads : call'[u].next = call[u].next
    BY <2>2 DEF Shape, TypeOK, CallRecords
  <2>5. \A a \in Blocks : Sharers(a)' = Sharers(a) /\ Writers(a)' = Writers(a)
    BY <2>3, <2>4 DEF Sharers, Writers
  <2> QED
    BY <2>1, <2>5, QuietEffect DEF Effect
<1>2. CASE UnshareSwing(t)
  <2>1. /\ call[t].at = "unshareSwing" /\ Finish(t) /\ outcome' = outcome
        /\ word' = [word EXCEPT ![b] = word[b] - 1]
    BY <1>2 DEF UnshareSwing
  <2>2. b \in Blocks
    BY <2>1, InCall
  <2>3. Loses(b)
    BY <2>1, <2>2, FinishSharers DEF Loses, Shape, TypeOK
  <2>4. \A a \in Blocks \ {b} : Keeps(a)
    BY <2>1, <2>2, FinishSharers DEF Keeps, Shape, TypeOK, Ledger
  <2> QED
    BY <2>1, <2>2, <2>3, <2>4 DEF Effect, Only
<1> QED
  BY <1>1, <1>2

\* A move of a guard that holds nothing to release passes a borrow on.
LEMMA MoveEffect ==
  ASSUME Shape, Ledger, NEW t \in Threads, Move(t)
  PROVE  Effect(t)
<1> USE DEF Shape, TypeOK
<1>1. PICK r \in Refs, s \in Refs :
        /\ Start(t) /\ r # s /\ Exists(s) /\ Unused(r) /\ Unused(s)
        /\ IF ctrl[r] \in Blocks
           THEN /\ call' = [call EXCEPT ![t] = Releasing(r, s, Null)]
                /\ UNCHANGED ctrl
           ELSE /\ ctrl' = [ctrl EXCEPT ![r] = ctrl[s], ![s] = Null]
                /\ UNCHANGED call
        /\ Report(t, "ok")
        /\ UNCHANGED <<word, owns>>
  BY DEF Move
<1>2. call[t].next = Null
  BY <1>1, InCall DEF Start
<1>3. CASE ctrl[r] \in Blocks
  <2>1. \A u \in Threads : call'[u].next = call[u].next
    BY <1>1, <1>2, <1>3 DEF Releasing
  <2>2. \A a \in Blocks : Sharers(a)' = Sharers(a) /\ Writers(a)' = Writers(a)
    BY <1>1, <1>3, <2>1 DEF Sharers, Writers
  <2> QED
    BY <1>1, <2>2, QuietEffect DEF Effect
<1>4. CASE ctrl[r] \notin Blocks
  <2>1. \A q \in Refs :
          ctrl'[q] = IF q = r THEN ctrl[s] ELSE IF q = s THEN Null ELSE ctrl[q]
    BY <1>1, <1>4 DEF Guards
  <2>2. \A a \in Blocks : Writers(a)' = Writers(a)
    BY <1>1, <1>4, Constants DEF Writers, Guards
  <2>3. \A a \in Blocks : r \notin Sharers(a)
    BY <1>4, Constants DEF Sharers
  <2>4. \A a \in Blocks :
          Sharers(a)' = IF ctrl[s] = a THEN (Sharers(a) \ {s}) \union {r} ELSE Sharers(a)
    BY <1>1, <1>4, <2>1, Constants DEF Sharers
  <2>5. \A a \in Blocks : ctrl[s] = a => s \in Sharers(a)
    BY DEF Sharers
  <2>6. \A a \in Blocks : Shared(a)' = Shared(a)
    BY <2>3, <2>4, <2>5, SharedCounts
  <2>7. \A a \in Blocks : Keeps(a)
    BY <1>1, <2>2, <2>6 DEF Keeps, Ledger
  <2> QED
    BY <1>1, <2>7 DEF Effect
<1> QED
  BY <1>3, <1>4

LEMMA SharedEffect ==
  ASSUME Shape, Ledger, NEW t \in Threads,
         Borrow(t) \/ Copy(t) \/ Drop(t) \/ Move(t) \/ Continue(t)
  PROVE  Effect(t)
<1>1. call[t].at \in {"idle", "shareSwing"} => call[t].next = Null
  BY InCall
<1>2. CASE Borrow(t)
  <2>1. PICK o \in Owners, r \in Refs :
          /\ Start(t)
          /\ IF owns[o] \in Blocks
             THEN Examine(t, r, Null, owns[o])
             ELSE Refuse(t, r, "null")
          /\ word' = word
    BY <1>2 DEF Borrow
  <2>2. CASE owns[o] \in Blocks
    BY <1>1, <2>1, <2>2, ExamineEffect DEF Start
  <2>3. CASE owns[o] \notin Blocks
    BY <1>1, <2>1, <2>3, RefuseQuiet DEF Start, Effect
  <2> QED
    BY <2>2, <2>3
<1>3. CASE Copy(t)
  <2>1. PICK r \in Refs, s \in Refs :
          /\ Start(t)
          /\ IF ctrl[s] \in Blocks
             THEN Examine(t, r, s, ctrl[s])
             ELSE Settle(t, r, Null) /\ Report(t, "ok")
          /\ word' = word
    BY <1>3 DEF Copy
  <2>2. CASE ctrl[s] \in Blocks
    BY <1>1, <2>1, <2>2, ExamineEffect DEF Start
  <2>3. CASE ctrl[s] \notin Blocks
    BY <1>1, <2>1, <2>3, SettleQuiet DEF Start, Effect
  <2> QED
    BY <2>2, <2>3
<1>4. CASE ShareRetry(t)
  <2>1. /\ call[t].at = "shareSwing" /\ word' = word
        /\ Examine(t, call[t].target, call[t].source, call[t].block)
    BY <1>4 DEF ShareRetry
  <2>2. PICK r, s, b : r = call[t].target /\ s = call[t].source /\ b = call[t].block
    OBVIOUS
  <2>3. r \in Refs /\ b \in Blocks
    BY <2>1, <2>2, InCall
  <2> QED
    BY <1>1, <2>1, <2>2, <2>3, ExamineEffect
<1>5. CASE Drop(t)
  BY <1>1, <1>5, SettleQuiet DEF Drop, Start, Effect
<1> QED
  BY <1>2, <1>3, <1>4, <1>5, MoveEffect, ShareEffect, UnshareEffect DEF Continue

\* Guards of mutable borrows do not share.
LEMMA SharersApart ==
  ASSUME Shape, call' = call, \A r \in Refs : ctrl'[r] = ctrl[r]
  PROVE  \A b \in Blocks : Sharers(b)' = Sharers(b) /\ Shared(b)' = Shared(b)
<1>1. \A b \in Blocks : Sharers(b)' = Sharers(b)
  BY DEF Sharers
<1> QED
  BY <1>1, SharedCounts

LEMMA BorrowMutEffect ==
  ASSUME Shape, Ledger, NEW t \in Threads, BorrowMut(t)
  PROVE  Effect(t)
<1> USE DEF Shape, TypeOK
<1>1. PICK o \in Owners, m \in MutRefs :
        /\ ~Exists(m)
        /\ IF owns[o] \in Blocks /\ Unborrowed(owns[o])
           THEN /\ word' = [word EXCEPT ![owns[o]] = MutableToken]
                /\ ctrl' = [ctrl EXCEPT ![m] = owns[o]]
                /\ Report(t, "ok")
           ELSE /\ Report(t, IF owns[o] \in Blocks THEN "borrowExists" ELSE "null")
                /\ \/ "throw" \in Responses /\ UNCHANGED ctrl
                   \/ "return" \in Responses /\ ctrl' = [ctrl EXCEPT ![m] = Null]
                /\ UNCHANGED word
        /\ call' = call
  BY DEF BorrowMut
<1>2. \A b \in Blocks : Sharers(b)' = Sharers(b) /\ Shared(b)' = Shared(b)
  BY <1>1, SharersApart, Constants DEF Guards
<1>3. ctrl[m] \notin Blocks
  BY <1>1, Constants DEF Exists
<1>4. ASSUME NEW b \in Blocks, b = owns[o], Unborrowed(b) PROVE Effect(t)
  <2>1. Writers(b) = {}
    BY <1>4, Constants DEF Unborrowed, Ledger, NoBorrow
  <2>2. \A g \in MutRefs : ctrl'[g] = IF g = m THEN b ELSE ctrl[g]
    BY <1>1, <1>4 DEF Guards
  <2>3. Writers(b)' = {m}
    BY <2>1, <2>2 DEF Writers
  <2>4. \A a \in Blocks \ {b} : Writers(a)' = Writers(a)
    BY <1>3, <2>2 DEF Writers
  <2>5. Locks(b)
    BY <1>1, <1>2, <1>4, <2>3 DEF Locks, Unborrowed
  <2>6. \A a \in Blocks \ {b} : Keeps(a)
    BY <1>1, <1>2, <1>4, <2>4 DEF Keeps, Ledger
  <2> QED
    BY <1>1, <1>4, <2>5, <2>6 DEF Effect, Only
<1>5. CASE ~(owns[o] \in Blocks /\ Unborrowed(owns[o]))
  <2>1. \A g \in MutRefs, b \in Blocks : ctrl'[g] = b <=> ctrl[g] = b
    BY <1>1, <1>3, <1>5, Constants DEF Guards
  <2>2. \A b \in Blocks : Writers(b)' = Writers(b)
    BY <2>1 DEF Writers
  <2>3. \A b \in Blocks : Keeps(b)
    BY <1>1, <1>2, <1>5, <2>2, QuietEffect
  <2>4. Report(t, "null") \/ Conflicts(t)
    BY <1>1, <1>5 DEF Conflicts, Unborrowed
  <2> QED
    BY <2>3, <2>4 DEF Effect
<1> QED
  BY <1>4, <1>5

\* Guard m takes over the pointer of n (a move) or none (Null, a destruction).
PassesOn(m, n) ==
  \A b \in Blocks : \A g \in MutRefs :
    ctrl'[g] = b <=> IF g = m THEN n # Null /\ ctrl[n] = b ELSE g # n /\ ctrl[g] = b

\* Guard m loses its borrow, if it has one.
LEMMA UnwriteEffect ==
  ASSUME Shape, Ledger, NEW t \in Threads, NEW m \in MutRefs,
         NEW n \in MutRefs \union {Null}, n # m,
         word' = WordReleasedBy(m), call' = call, \A r \in Refs : ctrl'[r] = ctrl[r],
         PassesOn(m, n), Report(t, "ok")
  PROVE  Effect(t)
<1> USE DEF Shape, TypeOK
<1>1. \A b \in Blocks : Sharers(b)' = Sharers(b) /\ Shared(b)' = Shared(b)
  BY SharersApart
<1>2. \A a \in Blocks \ {ctrl[m]} :
        /\ Writers(a)' = {} <=> Writers(a) = {}
        /\ \A g, h \in Writers(a)' : g = h
  BY Constants DEF Writers, Ledger, PassesOn
<1>3. ASSUME NEW b \in Blocks, b = ctrl[m] PROVE Effect(t)
  <2>1. m \in Writers(b) /\ Writers(b) = {m} /\ word[b] = MutableToken
    BY <1>3 DEF Writers, Ledger
  <2>2. word' = [word EXCEPT ![b] = NoBorrow]
    BY <1>3, <2>1 DEF WordReleasedBy
  <2>3. Writers(b)' = {}
    BY <1>3, <2>1, Constants DEF Writers, PassesOn
  <2>4. Unlocks(b)
    BY <1>1, <2>1, <2>2, <2>3 DEF Unlocks
  <2>5. \A a \in Blocks \ {b} : Keeps(a)
    BY <1>1, <1>2, <1>3, <2>2 DEF Keeps
  <2> QED
    BY <2>4, <2>5 DEF Effect, Only
<1>4. CASE ctrl[m] \notin Blocks
  <2>1. word' = word
    BY <1>4 DEF WordReleasedBy
  <2>2. \A b \in Blocks : Keeps(b)
    BY <1>1, <1>2, <1>4, <2>1 DEF Keeps
  <2> QED
    BY <2>2 DEF Effect
<1> QED
  BY <1>3, <1>4

LEMMA OtherEffect ==
  ASSUME Shape, Ledger, NEW t \in Threads,
         \/ BorrowMut(t) \/ DropMut(t) \/ MoveMut(t) \/ MoveOwner(t) \/ DropOwner(t)
         \/ ReadRef(t) \/ UseMut(t) \/ UseOwner(t)
  PROVE  Effect(t)
<1> USE DEF Shape, TypeOK
<1>1. CASE DropMut(t)
  <2>1. PICK m \in MutRefs :
          /\ word' = WordReleasedBy(m) /\ ctrl' = [ctrl EXCEPT ![m] = Absent]
          /\ Report(t, "ok") /\ call' = call
    BY <1>1 DEF DropMut
  <2>2. \A r \in Refs : ctrl'[r] = ctrl[r]
    BY <2>1, Constants DEF Guards
  <2>3. PassesOn(m, Null)
    BY <2>1, Constants DEF Guards, PassesOn
  <2> QED
    BY <2>1, <2>2, <2>3, UnwriteEffect, Constants
<1>2. CASE MoveMut(t)
  <2>1. PICK m \in MutRefs, n \in MutRefs :
          /\ m # n /\ word' = WordReleasedBy(m)
          /\ ctrl' = [ctrl EXCEPT ![m] = ctrl[n], ![n] = Null]
          /\ Report(t, "ok") /\ call' = call
    BY <1>2 DEF MoveMut
  <2>2. \A r \in Refs : ctrl'[r] = ctrl[r]
    BY <2>1, Constants DEF Guards
  <2>3. PassesOn(m, n)
    BY <2>1, Constants DEF Guards, PassesOn
  <2> QED
    BY <2>1, <2>2, <2>3, UnwriteEffect, Constants
<1>3. CASE MoveOwner(t) \/ DropOwner(t) \/ ReadRef(t) \/ UseMut(t) \/ UseOwner(t)
  <2>1. /\ UNCHANGED <<word, ctrl, call>>
        /\ Report(t, "ok") \/ Report(t, "null")
    BY <1>3 DEF MoveOwner, DropOwner, ReadRef, UseMut, UseOwner, RequireValue
  <2>2. \A b \in Blocks : Sharers(b)' = Sharers(b) /\ Writers(b)' = Writers(b)
    BY <2>1 DEF Sharers, Writers
  <2> QED
    BY <2>1, <2>2, QuietEffect DEF Effect
<1> QED
  BY <1>1, <1>2, <1>3, BorrowMutEffect

-----------------------------------------------------------------------------
(* The word is the ledger *)

LEMMA SharedNat == \A b : Shared(b) \in Nat /\ (Shared(b) = 0 <=> Sharers(b) = {})
BY SharedCounts

\* The same after a step.
LEMMA SharedNatNext == \A b : Shared(b)' \in Nat /\ (Shared(b)' = 0 <=> Sharers(b)' = {})
<1>1. (\A b : Shared(b) \in Nat /\ (Shared(b) = 0 <=> Sharers(b) = {}))'
  BY SharedNat, PTL
<1> QED
  BY <1>1

LEMMA LedgerStep ==
  ASSUME Shape, Ledger, NEW t \in Threads, Effect(t) PROVE Ledger'
<1> DEFINE Fits(b) ==
      /\ word[b] = IF Writers(b) # {} THEN MutableToken ELSE Shared(b)
      /\ Writers(b) = {} => Shared(b) <= MaxSharedBorrows
      /\ Writers(b) # {} => Sharers(b) = {}
      /\ \A m, n \in Writers(b) : m = n
<1>1. \A b \in Blocks : Fits(b)
  BY DEF Ledger, Shared
<1>2. SUFFICES ASSUME NEW b \in Blocks PROVE Fits(b)'
  BY DEF Ledger, Shared
<1>3. CASE Keeps(b)
  BY <1>1, <1>3, SharedNat, SharedNatNext DEF Keeps
<1>4. CASE Gains(b)
  BY <1>1, <1>4, SharedNat, SharedNatNext, Constants DEF Gains, MaxSharedBorrows
<1>5. CASE Loses(b)
  <2>1. Shared(b) # 0
    BY <1>5, SharedNat, SharedNatNext DEF Loses
  <2>2. Writers(b) = {}
    BY <1>1, <2>1, SharedNat
  <2> QED
    BY <1>1, <1>5, <2>2, SharedNat, SharedNatNext, Constants DEF Loses, MaxSharedBorrows
<1>6. CASE Locks(b)
  BY <1>1, <1>6, SharedNat, SharedNatNext, Constants DEF Locks, NoBorrow
<1>7. CASE Unlocks(b)
  BY <1>1, <1>7, SharedNat, SharedNatNext, Constants DEF Unlocks, NoBorrow, MaxSharedBorrows
<1>8. Keeps(b) \/ Gains(b) \/ Loses(b) \/ Locks(b) \/ Unlocks(b)
  BY DEF Effect, Only
<1> QED
  BY <1>3, <1>4, <1>5, <1>6, <1>7, <1>8

LEMMA InitLedger == Init => Ledger
<1> SUFFICES ASSUME Init, NEW b \in Blocks
             PROVE  word[b] = 0 /\ Writers(b) = {} /\ Sharers(b) = {}
  BY FS_EmptySet, Constants DEF Ledger, MaxSharedBorrows
<1>1. Writers(b) = {}
  BY Constants DEF Init, Writers, Guards
<1>2. Sharers(b) = {}
  BY Constants DEF Init, Sharers, Guards, Idle
<1> QED
  BY <1>1, <1>2 DEF Init, NoBorrow

\* Every step has one of the effects, or none.
LEMMA NextEffect ==
  ASSUME Shape, Ledger, [Next]_vars
  PROVE  UNCHANGED vars \/ \E t \in Threads : Effect(t)
BY SharedEffect, OtherEffect DEF Next, Call, Finished

LEMMA NextLedger == Shape /\ Ledger /\ [Next]_vars => Ledger'
<1> SUFFICES ASSUME Shape, Ledger, [Next]_vars PROVE Ledger'
  OBVIOUS
<1>1. CASE UNCHANGED vars
  <2>1. word' = word /\ \A b \in Blocks : Writers(b)' = Writers(b)
    BY <1>1 DEF vars, Writers
  <2>2. \A b \in Blocks : Sharers(b)' = Sharers(b)
    BY <1>1 DEF vars, Sharers
  <2> QED
    BY <2>1, <2>2 DEF Ledger
<1> QED
  BY <1>1, NextEffect, LedgerStep

LEMMA LedgerInvariance == Spec => [](Shape /\ Ledger)
BY InitShape, NextShape, InitLedger, NextLedger, PTL DEF Spec

\* The atomic word counts exactly the borrows that exist, for every number of
\* threads, guards and calls: no failed CAS, refusal or assignment leaks one.
THEOREM LedgerIsExact == Spec => []LedgerExact
<1>1. Ledger => LedgerExact
  BY DEF Ledger, LedgerExact
<1> QED
  BY <1>1, LedgerInvariance, PTL

\* A payload that has a mutable borrow has no other borrow.
THEOREM WriterExcludesAllOthers == Spec => []WriterExcludesAll
<1>1. Ledger => WriterExcludesAll
  BY DEF Ledger, WriterExcludesAll
<1> QED
  BY <1>1, LedgerInvariance, PTL

-----------------------------------------------------------------------------
(* SyncBorrow implements ReadersWriter *)

LEMMA KeptReaders ==
  ASSUME \A b \in Blocks : Keeps(b)
  PROVE  /\ [b \in Blocks |-> Cardinality(Sharers(b))]' = [b \in Blocks |-> Cardinality(Sharers(b))]
         /\ [b \in Blocks |-> Writers(b) # {}]' = [b \in Blocks |-> Writers(b) # {}]
BY DEF Keeps, Shared

\* Each effect is a step of the abstract specification.
LEMMA EffectImplements ==
  ASSUME Shape, Ledger, NEW t \in Threads, Effect(t)
  PROVE  [RW!Next]_(RW!vars)
<1> DEFINE readers == [b \in Blocks |-> Cardinality(Sharers(b))]
           writer == [b \in Blocks |-> Writers(b) # {}]
<1>1. \A b \in Blocks : /\ readers[b] = Shared(b) /\ writer[b] = (Writers(b) # {})
                        /\ readers'[b] = Shared(b)' /\ writer'[b] = (Writers(b)' # {})
                        /\ Shared(b) \in Nat
                        /\ word[b] = IF writer[b] THEN MutableToken ELSE readers[b]
                        /\ writer[b] => readers[b] = 0
                        /\ ~writer[b] => readers[b] <= MaxSharedBorrows
  BY SharedNat DEF Shared, Ledger
<1>2. CASE \A b \in Blocks : Keeps(b)
  <2>1. readers' = readers /\ writer' = writer
    BY <1>2, KeptReaders
  <2>2. CASE UNCHANGED outcome
    BY <2>1, <2>2 DEF RW!vars
  <2>3. CASE Report(t, "ok") \/ Report(t, "null")
    <3>1. RW!Trivial(t)
      BY <2>1, <2>3 DEF RW!Trivial, RW!Answer, Report
    <3> QED
      BY <3>1 DEF RW!Next
  <2>4. CASE Conflicts(t)
    <3>1. \E b \in Blocks : RW!Refuse(t, b)
      BY <1>1, <2>1, <2>4, Constants
      DEF Conflicts, Report, RW!Refuse, RW!Conflict, RW!Answer, MaxSharedBorrows, NoBorrow
    <3> QED
      BY <3>1 DEF RW!Next
  <2> QED
    BY <1>2, <2>2, <2>3, <2>4 DEF Effect
<1>3. ASSUME NEW b \in Blocks, Only(b, Gains(b)), Report(t, "ok") PROVE RW!Next
  <2>1. readers' = [readers EXCEPT ![b] = @ + 1] /\ writer' = writer
    BY <1>3 DEF Only, Gains, Keeps, Shared
  <2>2. ~writer[b] /\ readers[b] < MaxSharedBorrows
    BY <1>1, <1>3, Constants DEF Only, Gains, MaxSharedBorrows
  <2>3. RW!Share(t, b)
    BY <1>3, <2>1, <2>2 DEF RW!Share, RW!Answer, Report
  <2> QED
    BY <2>3 DEF RW!Next
<1>4. ASSUME NEW b \in Blocks, Only(b, Loses(b)), UNCHANGED outcome PROVE RW!Next
  <2>1. readers' = [readers EXCEPT ![b] = @ - 1] /\ writer' = writer
    BY <1>4 DEF Only, Loses, Keeps, Shared
  <2>2. readers[b] > 0
    BY <1>1, <1>4, SharedNat, SharedNatNext DEF Only, Loses
  <2>3. RW!Unshare(t, b)
    BY <1>4, <2>1, <2>2 DEF RW!Unshare
  <2> QED
    BY <2>3 DEF RW!Next
<1>5. ASSUME NEW b \in Blocks, Only(b, Locks(b)), Report(t, "ok") PROVE RW!Next
  <2>1. readers' = readers /\ writer' = [writer EXCEPT ![b] = TRUE]
    BY <1>5 DEF Only, Locks, Keeps, Shared
  <2>2. ~writer[b] /\ readers[b] = 0
    BY <1>1, <1>5, Constants DEF Only, Locks, NoBorrow
  <2>3. RW!Write(t, b)
    BY <1>5, <2>1, <2>2 DEF RW!Write, RW!Answer, Report
  <2> QED
    BY <2>3 DEF RW!Next
<1>6. ASSUME NEW b \in Blocks, Only(b, Unlocks(b)), Report(t, "ok") PROVE RW!Next
  <2>1. readers' = readers /\ writer' = [writer EXCEPT ![b] = FALSE]
    BY <1>6 DEF Only, Unlocks, Keeps, Shared
  <2>2. writer[b]
    BY <1>1, <1>6 DEF Only, Unlocks
  <2>3. RW!Unwrite(t, b)
    BY <1>6, <2>1, <2>2 DEF RW!Unwrite, RW!Answer, Report
  <2> QED
    BY <2>3 DEF RW!Next
<1> QED
  BY <1>2, <1>3, <1>4, <1>5, <1>6 DEF Effect

LEMMA InitImplements == Init => RW!Init
<1> SUFFICES ASSUME Init PROVE RW!Init
  OBVIOUS
<1>1. \A b \in Blocks : Writers(b) = {} /\ Sharers(b) = {}
  BY Constants DEF Init, Writers, Sharers, Guards, Idle
<1>2. \A b \in Blocks : Cardinality(Sharers(b)) = 0
  BY <1>1, FS_EmptySet
<1> QED
  BY <1>1, <1>2 DEF Init, RW!Init

\* Every request is granted or refused at one atomic access, and refused only
\* if a conflicting borrow exists then: SyncBorrow implements ReadersWriter.
THEOREM SyncBorrowImplementsReadersWriter == Spec => ImplementsReadersWriter
<1>1. Shape /\ Ledger /\ [Next]_vars => [RW!Next]_(RW!vars)
  <2> SUFFICES ASSUME Shape, Ledger, [Next]_vars PROVE [RW!Next]_(RW!vars)
    OBVIOUS
  <2>1. CASE UNCHANGED vars
    <3>1. \A b \in Blocks : Writers(b)' = Writers(b) /\ Sharers(b)' = Sharers(b)
      BY <2>1 DEF vars, Writers, Sharers
    <3> QED
      BY <2>1, <3>1 DEF vars, RW!vars
  <2> QED
    BY <2>1, NextEffect, EffectImplements
<1> QED
  BY <1>1, InitImplements, LedgerInvariance, PTL
  DEF Spec, ImplementsReadersWriter, RW!Spec
=============================================================================
