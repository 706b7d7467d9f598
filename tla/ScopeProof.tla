----------------------------- MODULE ScopeProof -----------------------------
(***************************************************************************)
(* Proofs about Scope, for any number of objects and any depth of calls.    *)
(* Shape holds whatever user code does; the other parts of the invariant    *)
(* are about programs whose destructors do not call create() on a scope     *)
(* that is being torn down (~CreateInTeardown), without which the ledger    *)
(* and the order of destruction are lost (run scope_reentry).               *)
(***************************************************************************)
EXTENDS Scope, TLAPS

-----------------------------------------------------------------------------
(* Sequences *)

LEMMA FrontOf ==
  ASSUME NEW S, NEW s \in Seq(S), s # <<>>
  PROVE  /\ Front(s) \in Seq(S)
         /\ Len(s) \in Nat \ {0} /\ DOMAIN s = 1 .. Len(s)
         /\ Len(Front(s)) = Len(s) - 1
         /\ DOMAIN Front(s) = 1 .. Len(s) - 1
         /\ \A i \in 1 .. Len(s) - 1 : Front(s)[i] = s[i]
         /\ Last(s) = s[Len(s)] /\ Last(s) \in S
<1>1. Len(s) \in Nat \ {0} /\ DOMAIN s = 1 .. Len(s)
  OBVIOUS
<1>2. /\ Front(s) \in Seq(S) /\ Len(Front(s)) = Len(s) - 1
      /\ \A i \in 1 .. Len(s) - 1 : Front(s)[i] = s[i]
  BY <1>1 DEF Front
<1>3. DOMAIN Front(s) = 1 .. Len(s) - 1
  BY <1>2
<1>4. Last(s) = s[Len(s)] /\ Last(s) \in S
  BY <1>1 DEF Last
<1> QED
  BY <1>1, <1>2, <1>3, <1>4

LEMMA ReplaceLast ==
  ASSUME NEW S, NEW s \in Seq(S), s # <<>>, NEW e \in S
  PROVE  LET r == [s EXCEPT ![Len(s)] = e] IN
         /\ r \in Seq(S) /\ r # <<>> /\ Len(r) = Len(s) /\ DOMAIN r = DOMAIN s
         /\ r[Len(s)] = e
         /\ \A i \in DOMAIN s : i # Len(s) => r[i] = s[i]
<1>1. Len(s) \in Nat \ {0} /\ DOMAIN s = 1 .. Len(s)
  OBVIOUS
<1> QED
  BY <1>1

-----------------------------------------------------------------------------
(* Shape *)

\* The loop of destroy_all() is at an entry of the ledger, or done.
Sweeps(f) ==
  /\ f.index \in 0 .. Len(entries)
  /\ f.object # Null => f.index # 0

\* A frame of create() has an object.  The frame of destroy_all() is the first
\* one, and ~Scope has begun.
FramesFit ==
  \A i \in DOMAIN stack :
    /\ stack[i].at # "destroy_all" => stack[i].object \in Objects
    /\ stack[i].at = "destroy_all" => i = 1 /\ ~alive /\ Sweeps(stack[i])

Shape == TypeOK /\ FramesFit

LEMMA InitShape == Init => Shape
BY DEF Init, Shape, TypeOK, FramesFit, Stages

\* The step of a thread in create() or its unwinding ends the innermost frame.
LEMMA PopShape ==
  ASSUME Shape, stack # <<>>, stack' = Front(stack), UNCHANGED alive,
         NEW s \in Stages, Become(Running.object, s),
         entries' \in Seq(Objects), Len(entries') >= Len(entries),
         known' \in [Objects -> SUBSET Objects]
  PROVE  Shape'
<1>1. TypeOK'
  <2>1. stage' \in [Objects -> Stages]
    BY DEF Shape, TypeOK, Become
  <2>2. stack' \in Seq(Frames) /\ alive' \in BOOLEAN
    BY FrontOf DEF Shape, TypeOK
  <2> QED
    BY <2>1, <2>2 DEF TypeOK
<1>2. FramesFit'
  <2>0. stack \in Seq(Frames)
    BY DEF Shape, TypeOK
  <2>1. /\ DOMAIN stack' \subseteq DOMAIN stack
        /\ \A i \in DOMAIN stack' : stack'[i] = stack[i]
    <3>1. /\ Len(stack) \in Nat \ {0} /\ DOMAIN stack = 1 .. Len(stack)
          /\ DOMAIN stack' = 1 .. Len(stack) - 1
          /\ \A i \in 1 .. Len(stack) - 1 : stack'[i] = stack[i]
      BY <2>0, FrontOf
    <3> QED
      BY <3>1
  <2>2. Len(entries) \in Nat /\ Len(entries') \in Nat
    BY DEF Shape, TypeOK
  <2> SUFFICES ASSUME NEW i \in DOMAIN stack'
               PROVE  /\ stack'[i].at # "destroy_all" => stack'[i].object \in Objects
                      /\ stack'[i].at = "destroy_all" =>
                           i = 1 /\ ~alive' /\ Sweeps(stack[i])'
    BY <2>1 DEF FramesFit, Sweeps
  <2>3. i \in DOMAIN stack /\ stack'[i] = stack[i]
    BY <2>1
  <2> QED
    BY <2>2, <2>3 DEF Shape, FramesFit, Sweeps
<1> QED
  BY <1>1, <1>2 DEF Shape

LEMMA RunningFits ==
  ASSUME Shape, stack # <<>>
  PROVE  /\ Len(stack) \in Nat \ {0} /\ DOMAIN stack = 1 .. Len(stack)
         /\ Len(stack) \in DOMAIN stack
         /\ Running = stack[Len(stack)] /\ Running \in Frames
         /\ Running.at \in {"create", "unwind", "destroy_all"}
         /\ Running.at # "destroy_all" => Running.object \in Objects
         /\ Running.at = "destroy_all" =>
              Len(stack) = 1 /\ ~alive /\ Sweeps(Running)
<1>1. /\ Len(stack) \in Nat \ {0} /\ DOMAIN stack = 1 .. Len(stack)
      /\ Len(stack) \in DOMAIN stack
      /\ Running = stack[Len(stack)] /\ Running \in Frames
  BY FrontOf DEF Shape, TypeOK, Running
<1>2. Running.at \in {"create", "unwind", "destroy_all"}
  BY <1>1 DEF Frames
<1> QED
  BY <1>1, <1>2 DEF Shape, FramesFit

\* The last frame changes to f.
LEMMA ReplaceShape ==
  ASSUME Shape, stack # <<>>, NEW f \in Frames,
         stack' = [stack EXCEPT ![Len(stack)] = f], UNCHANGED <<entries, alive, known>>,
         NEW o, NEW s \in Stages, Become(o, s),
         f.at # "destroy_all" => f.object \in Objects,
         f.at = "destroy_all" =>
           Len(stack) = 1 /\ ~alive /\ Sweeps(f)
  PROVE  Shape'
<1>1. /\ stack' \in Seq(Frames) /\ DOMAIN stack' = DOMAIN stack
      /\ stack'[Len(stack)] = f
      /\ \A i \in DOMAIN stack : i # Len(stack) => stack'[i] = stack[i]
  BY ReplaceLast DEF Shape, TypeOK
<1>2. TypeOK'
  BY <1>1 DEF Shape, TypeOK, Become
<1>3. FramesFit'
  BY <1>1 DEF Shape, TypeOK, FramesFit, Sweeps
<1> QED
  BY <1>2, <1>3 DEF Shape

\* What TypeOK says of the sequences, for the steps below.
LEMMA Sequences ==
  ASSUME Shape
  PROVE  /\ stack \in Seq(Frames) /\ entries \in Seq(Objects)
         /\ Len(entries) \in Nat /\ DOMAIN entries = 1 .. Len(entries)
         /\ \A i \in DOMAIN entries : entries[i] \in Objects
BY DEF Shape, TypeOK

LEMMA CreateShape == ASSUME Shape, NEW o \in Objects, Create(o) PROVE Shape'
<1> DEFINE f == [at |-> "create", object |-> o, index |-> 0]
<1>1. /\ stack \in Seq(Frames) /\ entries \in Seq(Objects) /\ Len(stack) \in Nat
      /\ Len(entries) \in Nat
  BY DEF Shape, TypeOK
<1>2. f \in Frames /\ "constructing" \in Stages
  BY DEF Frames, Stages
<1>3. stack' \in Seq(Frames)
  BY <1>1, <1>2 DEF Create
<1>4. TypeOK'
  BY <1>2, <1>3 DEF Create, Become, Shape, TypeOK
<1>5. ASSUME NEW i \in DOMAIN stack'
      PROVE  \/ i \in DOMAIN stack /\ stack'[i] = stack[i]
             \/ stack'[i] = f
  BY <1>1, <1>2, <1>5 DEF Create
<1>6. FramesFit'
  BY <1>5 DEF Create, Shape, FramesFit, Sweeps
<1> QED
  BY <1>4, <1>6 DEF Shape

LEMMA CreateEndsShape ==
  ASSUME Shape, ConstructorThrows \/ Record \/ Unwound
  PROVE  Shape'
<1>1. stack # <<>> /\ stack' = Front(stack) /\ UNCHANGED alive
  BY DEF ConstructorThrows, Record, Unwound, At
<1>2. \E s \in Stages : Become(Running.object, s)
  BY DEF ConstructorThrows, Record, Unwound, Stages
<1>3. Running.object \in Objects
  BY <1>1, RunningFits DEF ConstructorThrows, Record, Unwound, At
<1>4. /\ entries' \in Seq(Objects) /\ Len(entries') >= Len(entries)
      /\ known' \in [Objects -> SUBSET Objects]
  <2>1. ToSet(entries) \in SUBSET Objects
    BY Sequences DEF ToSet
  <2>2. CASE UNCHANGED <<entries, known>>
    BY <2>2, Sequences DEF Shape, TypeOK
  <2>3. CASE Record
    BY <2>1, <2>3, <1>3, Sequences DEF Record, Shape, TypeOK
  <2> QED
    BY <2>2, <2>3 DEF ConstructorThrows, Unwound
<1> QED
  BY <1>1, <1>2, <1>4, PopShape

LEMMA RecordFailsShape == ASSUME Shape, RecordFails PROVE Shape'
<1>1. stack # <<>> /\ Running.at = "create"
  BY DEF RecordFails, At
<1>2. Running.object \in Objects /\ Running \in Frames /\ Running = stack[Len(stack)]
  BY <1>1, RunningFits
<1> DEFINE f == [stack[Len(stack)] EXCEPT !.at = "unwind"]
<1>3. f \in Frames /\ f.at = "unwind" /\ f.object \in Objects
  BY <1>2 DEF Frames
<1>4. stack' = [stack EXCEPT ![Len(stack)] = f]
  BY DEF RecordFails
<1>5. "ending" \in Stages /\ Become(Running.object, "ending")
  BY DEF RecordFails, Stages
<1> HIDE DEF f
<1> QED
  BY <1>1, <1>3, <1>4, <1>5, ReplaceShape DEF RecordFails

LEMMA TeardownShape ==
  ASSUME Shape, DestroyAll \/ DestroyNext \/ Destroyed \/ Clear
  PROVE  Shape'
<1>1. CASE DestroyAll
  <2> DEFINE f == Destroying(Null, Len(entries))
  <2>1. f \in Frames /\ Len(entries) \in Nat /\ stack' = <<f>>
    BY <1>1, Sequences DEF DestroyAll, Frames, Destroying
  <2>2. stack' \in Seq(Frames) /\ DOMAIN stack' = {1} /\ stack'[1] = f
    BY <2>1
  <2>3. TypeOK'
    BY <1>1, <2>2 DEF DestroyAll, Shape, TypeOK
  <2>4. FramesFit'
    BY <1>1, <2>1, <2>2 DEF DestroyAll, FramesFit, Sweeps, Destroying
  <2> QED
    BY <2>3, <2>4 DEF Shape
<1>2. CASE DestroyNext
  <2>1. /\ stack # <<>> /\ Running.at = "destroy_all" /\ Running.index # 0
        /\ Become(entries[Running.index], "ending")
    BY <1>2 DEF DestroyNext, At
  <2>2. /\ Running \in Frames /\ Running = stack[Len(stack)]
        /\ Len(stack) = 1 /\ ~alive /\ Running.index \in 1 .. Len(entries)
    <3>1. /\ Running \in Frames /\ Running = stack[Len(stack)]
          /\ Len(stack) = 1 /\ ~alive /\ Sweeps(Running)
      BY <2>1, RunningFits
    <3>2. Len(entries) \in Nat
      BY Sequences
    <3> QED
      BY <3>1, <3>2, <2>1 DEF Sweeps
  <2>3. entries[Running.index] \in Objects
    BY <2>2, Sequences
  <2> DEFINE f == Destroying(entries[Running.index], Running.index)
  <2>4. f \in Frames /\ f.at = "destroy_all" /\ Sweeps(f)
    <3>1. Len(entries) \in Nat
      BY Sequences
    <3> QED
      BY <3>1, <2>2, <2>3 DEF Frames, Sweeps, Destroying
  <2>5. stack' = [stack EXCEPT ![Len(stack)] = f] /\ "ending" \in Stages
    BY <1>2 DEF DestroyNext, Stages
  <2> HIDE DEF f
  <2> QED
    BY <1>2, <2>1, <2>2, <2>4, <2>5, ReplaceShape DEF DestroyNext
<1>3. CASE Destroyed
  <2>1. stack # <<>> /\ Running.at = "destroy_all" /\ Running.object # Null
    BY <1>3 DEF Destroyed, At
  <2>2. /\ Running \in Frames /\ Running = stack[Len(stack)]
        /\ Len(stack) = 1 /\ ~alive /\ Running.index \in 1 .. Len(entries)
    <3>1. /\ Running \in Frames /\ Running = stack[Len(stack)]
          /\ Len(stack) = 1 /\ ~alive /\ Sweeps(Running)
      BY <2>1, RunningFits
    <3>2. Len(entries) \in Nat
      BY Sequences
    <3> QED
      BY <3>1, <3>2, <2>1 DEF Sweeps
  <2> DEFINE f == Destroying(Null, Running.index - 1)
  <2>3. f \in Frames /\ f.at = "destroy_all" /\ Sweeps(f)
    <3>1. Len(entries) \in Nat
      BY Sequences
    <3>2. Running.index - 1 \in 0 .. Len(entries) /\ Running.index - 1 \in Nat
      BY <2>2, <3>1
    <3> QED
      BY <3>2 DEF Frames, Sweeps, Destroying
  <2>4. stack' = [stack EXCEPT ![Len(stack)] = f] /\ "freed" \in Stages
    BY <1>3 DEF Destroyed, Stages
  <2> HIDE DEF f
  <2> QED
    BY <1>3, <2>1, <2>2, <2>3, <2>4, ReplaceShape DEF Destroyed
<1>4. CASE Clear
  <2>1. stack # <<>> /\ Running.at = "destroy_all" /\ stack' = Front(stack)
    BY <1>4 DEF Clear, At
  <2>2. Len(stack) = 1 /\ stack \in Seq(Frames)
    BY <2>1, RunningFits, Sequences
  <2>3. stack' \in Seq(Frames) /\ DOMAIN stack' = {}
    BY <2>1, <2>2, FrontOf
  <2>4. TypeOK'
    BY <1>4, <2>3 DEF Clear, Shape, TypeOK
  <2> QED
    BY <2>3, <2>4 DEF Shape, FramesFit
<1> QED
  BY <1>1, <1>2, <1>3, <1>4

LEMMA NextShape == Shape /\ [Next]_vars => Shape'
<1> SUFFICES ASSUME Shape, [Next]_vars PROVE Shape'
  OBVIOUS
<1>1. CASE UNCHANGED vars
  BY <1>1 DEF vars, Shape, TypeOK, FramesFit, Sweeps
<1>2. CASE Next
  BY <1>2, <1>1, CreateShape, CreateEndsShape, RecordFailsShape, TeardownShape
     DEF Next, Finished
<1> QED
  BY <1>1, <1>2

\* Every variable stays in its type, even if destructors call create() on the
\* scope that runs them: destroy_all() never reads outside the ledger.
THEOREM TypeCorrect == Spec => []TypeOK
<1>1. Shape => TypeOK
  BY DEF Shape
<1> QED
  BY <1>1, InitShape, NextShape, PTL DEF Spec

-----------------------------------------------------------------------------
(* The invariant of programs without CreateInTeardown *)

Doing(at) == IF at = "create" THEN "constructing" ELSE "ending"

\* Each object under construction or unwinding has one frame.
Nested ==
  /\ \A i \in DOMAIN stack : stage[stack[i].object] = Doing(stack[i].at)
  /\ \A i, j \in DOMAIN stack : stack[i].object = stack[j].object => i = j
  /\ \A o \in Objects :
       stage[o] \in {"constructing", "ending"} =>
         \E i \in DOMAIN stack : stack[i].object = o

Recorded(o) == \E i \in DOMAIN entries : entries[i] = o

Building == alive => Nested /\ \A o \in Objects : stage[o] = "live" <=> Recorded(o)

\* What the loop of destroy_all(), in frame f, has made of the entry at i.
Swept(f, i) ==
  CASE i < f.index -> "live"
    [] i = f.index /\ f.object = Null -> "live"
    [] i = f.index /\ f.object # Null -> "ending"
    [] OTHER -> "freed"

Sweeping ==
  /\ stack[1].at = "destroy_all"
  /\ stack[1].object # Null => stack[1].object = entries[stack[1].index]
  /\ \A i \in DOMAIN entries : stage[entries[i]] = Swept(stack[1], i)
  /\ \A o \in Objects : stage[o] \in {"unborn", "freed"} \/ Recorded(o)

Released == entries = <<>> /\ \A o \in Objects : stage[o] \in {"unborn", "freed"}

Tearing ==
  ~alive => /\ Len(stack) <= 1
            /\ stack # <<>> => Sweeping
            /\ stack = <<>> => Released

\* No object is recorded twice, and what its constructor could see is recorded
\* before it.
Ordered ==
  /\ \A i, j \in DOMAIN entries : entries[i] = entries[j] => i = j
  /\ ~Gone => \A o \in Objects : \A p \in known[o] :
       \E i, j \in DOMAIN entries : i < j /\ entries[i] = p /\ entries[j] = o

Inv == Shape /\ Building /\ Tearing /\ Ordered

LEMMA InitInv == Init => Inv
<1> SUFFICES ASSUME Init PROVE Inv
  OBVIOUS
<1>1. Shape
  BY InitShape
<1>2. Building /\ Tearing
  BY DEF Init, Building, Tearing, Nested, Recorded
<1>3. Ordered
  BY DEF Init, Ordered
<1> QED
  BY <1>1, <1>2, <1>3 DEF Inv

-----------------------------------------------------------------------------
(* Steps of create() *)

\* Frames of create() are found only while the scope is used.
LEMMA OnlyBuilding ==
  ASSUME Inv, stack # <<>>, Running.at # "destroy_all"
  PROVE  /\ alive /\ Nested
         /\ \A i \in DOMAIN stack : stack[i].at # "destroy_all" /\ stack[i].object \in Objects
<1>1. alive
  <2> SUFFICES ASSUME ~alive PROVE FALSE
    OBVIOUS
  <2>1. Len(stack) \in Nat \ {0} /\ Running = stack[Len(stack)]
    BY RunningFits DEF Inv
  <2>2. Len(stack) = 1 /\ stack[1].at = "destroy_all"
    BY <2>1 DEF Inv, Tearing, Sweeping
  <2> QED
    BY <2>1, <2>2
<1> QED
  BY <1>1 DEF Inv, Building, Shape, FramesFit

LEMMA CreateInv ==
  ASSUME ~CreateInTeardown, Inv, NEW o \in Objects, Create(o)
  PROVE  Inv'
<1>1. alive
  <2> SUFFICES ASSUME ~alive PROVE FALSE
    OBVIOUS
  <2>1. stack # <<>> /\ ~InTeardown
    BY DEF Create, UserCode
  <2>2. 1 \in DOMAIN stack
    BY <2>1, RunningFits DEF Inv
  <2> QED
    BY <2>1, <2>2 DEF Inv, Tearing, Sweeping, InTeardown
<1>2. Shape'
  BY CreateShape DEF Inv
<1> DEFINE f == [at |-> "create", object |-> o, index |-> 0]
<1>3. /\ DOMAIN stack' = DOMAIN stack \union {Len(stack) + 1}
      /\ \A i \in DOMAIN stack : stack'[i] = stack[i] /\ i # Len(stack) + 1
      /\ stack'[Len(stack) + 1] = f
  <2>1. stack \in Seq(Frames) /\ Len(stack) \in Nat
    BY DEF Inv, Shape, TypeOK
  <2>2. f \in Frames
    BY DEF Frames
  <2> QED
    BY <2>1, <2>2 DEF Create
<1>4. \A i \in DOMAIN stack : stack[i].object # o /\ stack[i].object \in Objects
  <2>1. \A i \in DOMAIN stack : stage[stack[i].object] # "unborn"
    BY <1>1 DEF Inv, Building, Nested, Doing
  <2>2. \A i \in DOMAIN stack : stack[i].object \in Objects
    BY <1>1 DEF Inv, Shape, FramesFit
  <2> QED
    BY <2>1, <2>2 DEF Create
<1>5. stage' = [stage EXCEPT ![o] = "constructing"] /\ stage \in [Objects -> Stages]
  BY DEF Create, Become, Inv, Shape, TypeOK
<1>6. Nested'
  <2>1. \A i \in DOMAIN stack' : stage'[stack'[i].object] = Doing(stack'[i].at)
    BY <1>1, <1>3, <1>4, <1>5 DEF Inv, Building, Nested, Doing
  <2>2. \A i, j \in DOMAIN stack' : stack'[i].object = stack'[j].object => i = j
    BY <1>1, <1>3, <1>4 DEF Inv, Building, Nested
  <2>3. \A x \in Objects : stage'[x] \in {"constructing", "ending"} =>
          \E i \in DOMAIN stack' : stack'[i].object = x
    BY <1>1, <1>3, <1>5 DEF Inv, Building, Nested
  <2> QED
    BY <2>1, <2>2, <2>3 DEF Nested
<1>7. entries' = entries /\ alive' /\ known' = known /\ stack' # <<>>
  <2>1. stack' # <<>>
    BY <1>3
  <2> QED
    BY <1>1, <2>1 DEF Create
<1>8. Building'
  BY <1>1, <1>5, <1>6, <1>7 DEF Inv, Building, Recorded, Create
<1>9. Ordered' /\ Tearing'
  BY <1>1, <1>7 DEF Inv, Ordered, Tearing, Gone
<1> QED
  BY <1>2, <1>8, <1>9 DEF Inv

\* The innermost frame ends, and its object is no longer under construction.
LEMMA PopNested ==
  ASSUME Inv, stack # <<>>, Running.at # "destroy_all", stack' = Front(stack),
         NEW s \in {"live", "freed"}, Become(Running.object, s)
  PROVE  /\ Nested'
         /\ Running.object \in Objects /\ stage[Running.object] = Doing(Running.at)
<1>1. /\ Len(stack) \in Nat \ {0} /\ DOMAIN stack = 1 .. Len(stack)
      /\ Running = stack[Len(stack)] /\ Len(stack) \in DOMAIN stack
      /\ Running.object \in Objects
  BY RunningFits DEF Inv
<1>2. /\ Nested
      /\ \A i \in DOMAIN stack : stack[i].object \in Objects
  BY OnlyBuilding
<1>3. /\ DOMAIN stack' = 1 .. Len(stack) - 1
      /\ \A i \in DOMAIN stack' : stack'[i] = stack[i]
  <2>1. stack \in Seq(Frames)
    BY Sequences DEF Inv
  <2> QED
    BY <2>1, FrontOf
<1>4. \A i \in DOMAIN stack' :
        i \in DOMAIN stack /\ stack'[i] = stack[i] /\ stack'[i].object # Running.object
  BY <1>1, <1>2, <1>3 DEF Nested
<1>5. stage' = [stage EXCEPT ![Running.object] = s] /\ stage \in [Objects -> Stages]
  BY DEF Become, Inv, Shape, TypeOK
<1>6. \A i \in DOMAIN stack' : stage'[stack'[i].object] = Doing(stack'[i].at)
  BY <1>2, <1>4, <1>5 DEF Nested
<1>7. \A i, j \in DOMAIN stack' : stack'[i].object = stack'[j].object => i = j
  BY <1>2, <1>4 DEF Nested
<1>8. ASSUME NEW o \in Objects, stage'[o] \in {"constructing", "ending"}
      PROVE  \E i \in DOMAIN stack' : stack'[i].object = o
  <2>1. o # Running.object /\ stage[o] \in {"constructing", "ending"}
    BY <1>1, <1>5, <1>8
  <2>2. PICK i \in DOMAIN stack : stack[i].object = o
    BY <1>2, <2>1 DEF Nested
  <2>3. i \in DOMAIN stack'
    BY <1>1, <1>3, <2>1, <2>2
  <2> QED
    BY <1>3, <2>2, <2>3
<1> QED
  BY <1>1, <1>2, <1>6, <1>7, <1>8 DEF Nested

\* A constructor threw, or an object that could not be recorded is gone.
LEMMA AbandonInv ==
  ASSUME Inv, ConstructorThrows \/ Unwound
  PROVE  Inv'
<1>1. /\ stack # <<>> /\ Running.at # "destroy_all" /\ stack' = Front(stack)
      /\ Become(Running.object, "freed") /\ UNCHANGED <<entries, alive, known>>
  BY DEF ConstructorThrows, Unwound, At
<1>2. /\ Nested'
      /\ Running.object \in Objects /\ stage[Running.object] = Doing(Running.at)
  BY <1>1, PopNested
<1>3. alive /\ Shape'
  BY <1>1, OnlyBuilding, CreateEndsShape DEF Inv
<1>4. \A o \in Objects : stage'[o] = "live" <=> stage[o] = "live"
  BY <1>1, <1>2 DEF Become, Doing, Inv, Shape, TypeOK
<1>5. Building'
  BY <1>1, <1>2, <1>3, <1>4 DEF Building, Inv, Recorded
<1>6. Tearing' /\ Ordered'
  BY <1>1, <1>3 DEF Inv, Tearing, Ordered, Gone
<1> QED
  BY <1>3, <1>5, <1>6 DEF Inv

LEMMA RecordFailsInv == ASSUME Inv, RecordFails PROVE Inv'
<1>1. /\ stack # <<>> /\ Running.at = "create"
      /\ Become(Running.object, "ending") /\ UNCHANGED <<entries, alive, known>>
  BY DEF RecordFails, At
<1>2. /\ Len(stack) \in Nat \ {0} /\ DOMAIN stack = 1 .. Len(stack)
      /\ Running = stack[Len(stack)] /\ Len(stack) \in DOMAIN stack
      /\ Running.object \in Objects /\ Running \in Frames
  BY <1>1, RunningFits DEF Inv
<1>3. alive /\ Nested /\ Shape'
  BY <1>1, OnlyBuilding, RecordFailsShape DEF Inv
<1>4. /\ DOMAIN stack' = DOMAIN stack
      /\ stack'[Len(stack)].at = "unwind"
      /\ stack'[Len(stack)].object = Running.object
      /\ \A i \in DOMAIN stack : i # Len(stack) => stack'[i] = stack[i]
  <2> DEFINE f == [stack[Len(stack)] EXCEPT !.at = "unwind"]
  <2>1. f \in Frames /\ f.at = "unwind" /\ f.object = Running.object
    BY <1>2 DEF Frames
  <2>2. stack' = [stack EXCEPT ![Len(stack)] = f] /\ stack \in Seq(Frames)
    BY Sequences DEF RecordFails, Inv
  <2> HIDE DEF f
  <2> QED
    BY <1>1, <2>1, <2>2, ReplaceLast
<1>5. stage' = [stage EXCEPT ![Running.object] = "ending"] /\ stage \in [Objects -> Stages]
  BY <1>1 DEF Become, Inv, Shape, TypeOK
<1>6. Nested'
  <2>1. \A i \in DOMAIN stack : stack'[i].object = stack[i].object
    BY <1>2, <1>4
  <2>2. \A i, j \in DOMAIN stack' : stack'[i].object = stack'[j].object => i = j
    BY <1>3, <1>4, <2>1 DEF Nested
  <2>3. ASSUME NEW i \in DOMAIN stack'
        PROVE  stage'[stack'[i].object] = Doing(stack'[i].at)
    <3>1. CASE i = Len(stack)
      BY <3>1, <1>2, <1>4, <1>5 DEF Doing
    <3>2. CASE i # Len(stack)
      BY <3>2, <1>2, <1>3, <1>4, <1>5 DEF Nested
    <3> QED
      BY <3>1, <3>2
  <2>4. \A o \in Objects : stage'[o] \in {"constructing", "ending"} =>
          \E i \in DOMAIN stack' : stack'[i].object = o
    BY <1>2, <1>3, <1>4, <1>5, <2>1 DEF Nested
  <2> QED
    BY <2>2, <2>3, <2>4 DEF Nested
<1>7. stage[Running.object] = "constructing"
  BY <1>1, <1>2, <1>3 DEF Nested, Doing
<1>8. Building'
  BY <1>1, <1>3, <1>5, <1>6, <1>7 DEF Building, Inv, Recorded
<1>9. Tearing' /\ Ordered'
  BY <1>1, <1>3 DEF Inv, Tearing, Ordered, Gone
<1> QED
  BY <1>3, <1>8, <1>9 DEF Inv

LEMMA RecordInv == ASSUME Inv, Record PROVE Inv'
<1>1. /\ stack # <<>> /\ Running.at = "create" /\ stack' = Front(stack)
      /\ Become(Running.object, "live") /\ UNCHANGED alive
  BY DEF Record, At
<1> DEFINE o == Running.object
           n == Len(entries) + 1
<1>2. Nested' /\ o \in Objects /\ stage[o] = "constructing"
  BY <1>1, PopNested DEF Doing
<1>3. alive /\ Shape'
  BY <1>1, OnlyBuilding, CreateEndsShape DEF Inv
<1>4. /\ Len(entries) \in Nat /\ DOMAIN entries = 1 .. Len(entries)
      /\ entries' = Append(entries, o) /\ entries \in Seq(Objects)
  BY Sequences DEF Record, Inv
<1>5. /\ DOMAIN entries' = 1 .. n /\ entries'[n] = o /\ n \notin DOMAIN entries
      /\ \A i \in DOMAIN entries : entries'[i] = entries[i] /\ i < n /\ i \in 1 .. n
      /\ \A i \in 1 .. n : i = n \/ i \in DOMAIN entries
      /\ n \in 1 .. n
  BY <1>2, <1>4
<1>6. /\ known' = [known EXCEPT ![o] = ToSet(entries)]
      /\ known \in [Objects -> SUBSET Objects]
      /\ stage' = [stage EXCEPT ![o] = "live"]
      /\ stage \in [Objects -> Stages]
  BY <1>1 DEF Record, Become, Inv, Shape, TypeOK
<1>7. ~Recorded(o)
  BY <1>2, <1>3 DEF Inv, Building
<1>8. \A x \in Objects : Recorded(x)' <=> Recorded(x) \/ x = o
  BY <1>5 DEF Recorded
<1> HIDE DEF o, n
<1>9. Building'
  <2>1. \A x \in Objects : stage'[x] = "live" <=> stage[x] = "live" \/ x = o
    BY <1>2, <1>6
  <2> QED
    BY <1>2, <1>3, <1>8, <2>1 DEF Inv, Building
<1>10. Ordered'
  <2>1. \A i, j \in DOMAIN entries' : entries'[i] = entries'[j] => i = j
    BY <1>5, <1>7 DEF Inv, Ordered, Recorded
  <2>2. ASSUME NEW x \in Objects, NEW p \in known'[x]
        PROVE  \E i, j \in DOMAIN entries' :
                 i < j /\ entries'[i] = p /\ entries'[j] = x
    <3>1. CASE x = o
      <4>1. PICK i \in DOMAIN entries : entries[i] = p
        BY <3>1, <1>2, <1>6 DEF ToSet
      <4> QED
        BY <1>5, <3>1, <4>1
    <3>2. CASE x # o
      <4>1. p \in known[x] /\ ~Gone
        BY <3>2, <1>3, <1>6 DEF Gone
      <4>2. PICK i, j \in DOMAIN entries : i < j /\ entries[i] = p /\ entries[j] = x
        BY <4>1 DEF Inv, Ordered
      <4> QED
        BY <1>5, <4>2
    <3> QED
      BY <3>1, <3>2
  <2> QED
    BY <2>1, <2>2 DEF Ordered
<1>11. Tearing'
  BY <1>1, <1>3 DEF Tearing
<1> QED
  BY <1>3, <1>9, <1>10, <1>11 DEF Inv

-----------------------------------------------------------------------------
(* Steps of ~Scope *)

LEMMA DestroyAllInv == ASSUME Inv, DestroyAll PROVE Inv'
<1>1. /\ stack = <<>> /\ alive /\ alive' = FALSE
      /\ stack' = <<Destroying(Null, Len(entries))>>
      /\ UNCHANGED <<entries, stage, known>>
  BY DEF DestroyAll
<1>2. Shape'
  BY TeardownShape DEF Inv
<1>3. /\ Len(stack') = 1 /\ stack' # <<>>
      /\ stack'[1] = Destroying(Null, Len(entries))
  BY <1>1
<1>4. Nested /\ DOMAIN stack = {} /\ \A o \in Objects : stage[o] = "live" <=> Recorded(o)
  BY <1>1 DEF Inv, Building
<1>5. Sweeping'
  <2>1. stack'[1].at = "destroy_all" /\ stack'[1].object = Null
        /\ stack'[1].index = Len(entries)
    BY <1>3 DEF Destroying
  <2>2. ASSUME NEW i \in DOMAIN entries PROVE stage[entries[i]] = Swept(stack'[1], i)
    <3>1. i \in 1 .. Len(entries) /\ entries[i] \in Objects /\ Len(entries) \in Nat
      BY Sequences DEF Inv
    <3>2. stage[entries[i]] = "live"
      BY <1>4, <3>1 DEF Recorded
    <3> QED
      BY <2>1, <3>1, <3>2 DEF Swept
  <2>3. \A o \in Objects : stage[o] \in {"unborn", "freed"} \/ Recorded(o)
    BY <1>4 DEF Nested, Inv, Shape, TypeOK, Stages
  <2> QED
    BY <1>1, <2>1, <2>2, <2>3 DEF Sweeping, Recorded, Swept
<1>6. Building' /\ Tearing' /\ Ordered'
  BY <1>1, <1>3, <1>5 DEF Building, Tearing, Inv, Ordered, Gone
<1> QED
  BY <1>2, <1>6 DEF Inv

\* The frame of the loop, and what it has done so far.
LEMMA LoopFacts ==
  ASSUME Inv, At("destroy_all")
  PROVE  /\ stack # <<>> /\ ~alive /\ Len(stack) = 1 /\ Running = stack[1]
         /\ stack \in Seq(Frames) /\ Running \in Frames
         /\ Running.at = "destroy_all" /\ Sweeps(Running) /\ Sweeping
         /\ Len(entries) \in Nat /\ DOMAIN entries = 1 .. Len(entries)
         /\ \A i \in DOMAIN entries : entries[i] \in Objects
         /\ Running.index \in Nat
<1>1. stack # <<>> /\ Running.at = "destroy_all"
  BY DEF At
<1>2. Len(stack) = 1 /\ ~alive /\ Sweeps(Running) /\ Running = stack[1] /\ Running \in Frames
  BY <1>1, RunningFits DEF Inv
<1>3. /\ stack \in Seq(Frames) /\ Len(entries) \in Nat /\ DOMAIN entries = 1 .. Len(entries)
      /\ \A i \in DOMAIN entries : entries[i] \in Objects
  BY Sequences DEF Inv
<1>4. Sweeping /\ Running.index \in Nat
  BY <1>1, <1>2 DEF Inv, Tearing, Frames
<1> QED
  BY <1>1, <1>2, <1>3, <1>4

\* The loop's frame becomes f, and the entry at index k takes stage s.
LEMMA SweepInv ==
  ASSUME Inv, Shape', At("destroy_all"), NEW f,
         f.at = "destroy_all",
         f.object # Null => f.object = entries[f.index],
         stack' = [stack EXCEPT ![Len(stack)] = f], f \in Frames,
         NEW k \in DOMAIN entries, NEW s \in Stages, Become(entries[k], s),
         UNCHANGED <<entries, alive, known>>,
         Swept(f, k) = s,
         \A i \in DOMAIN entries : i # k => Swept(f, i) = Swept(Running, i)
  PROVE  Inv'
<1>1. /\ stack # <<>> /\ ~alive /\ Len(stack) = 1 /\ Running = stack[1]
      /\ stack \in Seq(Frames) /\ Sweeping
      /\ \A i \in DOMAIN entries : entries[i] \in Objects
  BY LoopFacts
<1>2. stack'[1] = f /\ Len(stack') = 1 /\ stack' # <<>>
  BY <1>1, ReplaceLast
<1>3. stage' = [stage EXCEPT ![entries[k]] = s] /\ stage \in [Objects -> Stages]
  BY DEF Become, Inv, Shape, TypeOK
<1>4. \A i \in DOMAIN entries : i # k => entries[i] # entries[k]
  BY DEF Inv, Ordered
<1>5. \A i \in DOMAIN entries : stage'[entries[i]] = Swept(f, i)
  BY <1>1, <1>3, <1>4 DEF Sweeping
<1>6. \A o \in Objects : stage'[o] \in {"unborn", "freed"} \/ Recorded(o)
  BY <1>1, <1>3 DEF Sweeping, Recorded
<1>7. Sweeping'
  BY <1>2, <1>5, <1>6 DEF Sweeping, Recorded, Swept
<1>8. Building' /\ Tearing' /\ Ordered'
  BY <1>1, <1>2, <1>7 DEF Building, Tearing, Inv, Ordered, Gone
<1> QED
  BY <1>8 DEF Inv

LEMMA DestroyNextInv == ASSUME Inv, DestroyNext PROVE Inv'
<1>1. /\ At("destroy_all") /\ Running.object = Null /\ Running.index # 0
      /\ Become(entries[Running.index], "ending")
      /\ UNCHANGED <<entries, alive, known>>
  BY DEF DestroyNext
<1> DEFINE k == Running.index
           f == Destroying(entries[k], k)
<1>2. /\ stack' = [stack EXCEPT ![Len(stack)] = f]
      /\ f.at = "destroy_all" /\ f.object = entries[k] /\ f.index = k
  BY DEF DestroyNext, Destroying
<1>3. k \in DOMAIN entries /\ \A i \in DOMAIN entries : i \in Nat /\ k \in Nat
  BY <1>1, LoopFacts DEF Sweeps
<1>4. entries[k] \in Objects /\ entries[k] # Null
  BY <1>1, <1>3, LoopFacts, ScopeAssumption
<1>5. f \in Frames
  BY <1>1, <1>4, LoopFacts DEF Frames, Destroying
<1> HIDE DEF f
<1>6. Swept(f, k) = "ending"
  BY <1>2, <1>3, <1>4 DEF Swept
<1>7. \A i \in DOMAIN entries : i # k => Swept(f, i) = Swept(Running, i)
  BY <1>2, <1>3 DEF Swept
<1>8. Shape' /\ "ending" \in Stages
  BY TeardownShape DEF Inv, Stages
<1> QED
  BY <1>1, <1>2, <1>3, <1>5, <1>6, <1>7, <1>8, SweepInv

LEMMA DestroyedInv == ASSUME Inv, Destroyed PROVE Inv'
<1>1. /\ At("destroy_all") /\ Running.object # Null
      /\ Become(Running.object, "freed")
      /\ UNCHANGED <<entries, alive, known>>
  BY DEF Destroyed
<1> DEFINE k == Running.index
           f == Destroying(Null, k - 1)
<1>2. /\ stack' = [stack EXCEPT ![Len(stack)] = f]
      /\ f.at = "destroy_all" /\ f.object = Null /\ f.index = k - 1
  BY DEF Destroyed, Destroying
<1>3. /\ k \in DOMAIN entries /\ k - 1 \in Nat
      /\ \A i \in DOMAIN entries : i \in Nat /\ k \in Nat
  BY <1>1, LoopFacts DEF Sweeps
<1>4. Running.object = entries[k]
  BY <1>1, LoopFacts DEF Sweeping
<1>5. f \in Frames
  BY <1>3 DEF Frames, Destroying
<1> HIDE DEF f
<1>6. Swept(f, k) = "freed"
  BY <1>2, <1>3 DEF Swept
<1>7. \A i \in DOMAIN entries : i # k => Swept(f, i) = Swept(Running, i)
  BY <1>2, <1>3 DEF Swept
<1>8. Shape' /\ "freed" \in Stages
  BY TeardownShape DEF Inv, Stages
<1> QED
  BY <1>1, <1>2, <1>3, <1>4, <1>5, <1>6, <1>7, <1>8, SweepInv

LEMMA ClearInv == ASSUME Inv, Clear PROVE Inv'
<1>1. /\ At("destroy_all") /\ Running.object = Null /\ Running.index = 0
      /\ entries' = <<>> /\ stack' = Front(stack) /\ UNCHANGED <<stage, alive, known>>
  BY DEF Clear
<1>2. /\ ~alive /\ Len(stack) = 1 /\ stack # <<>> /\ stack \in Seq(Frames)
      /\ Running = stack[1] /\ Sweeping
      /\ DOMAIN entries = 1 .. Len(entries) /\ Len(entries) \in Nat
  BY <1>1, LoopFacts
<1>3. Len(stack') = 0 /\ stack' = <<>>
  <2>1. stack' \in Seq(Frames) /\ Len(stack') = 0
    BY <1>1, <1>2, FrontOf
  <2> QED
    BY <2>1
<1>4. \A o \in Objects : stage[o] \in {"unborn", "freed"}
  <2>1. \A i \in DOMAIN entries : stage[entries[i]] = "freed"
    BY <1>1, <1>2 DEF Sweeping, Swept
  <2> QED
    BY <1>2, <2>1 DEF Sweeping, Recorded
<1>5. Building' /\ Tearing' /\ Ordered'
  BY <1>1, <1>2, <1>3, <1>4 DEF Building, Tearing, Released, Ordered, Gone
<1>6. Shape'
  BY TeardownShape DEF Inv
<1> QED
  BY <1>5, <1>6 DEF Inv

-----------------------------------------------------------------------------

LEMMA NextInv == ASSUME ~CreateInTeardown PROVE Inv /\ [Next]_vars => Inv'
<1> SUFFICES ASSUME Inv, [Next]_vars PROVE Inv'
  OBVIOUS
<1>1. ASSUME UNCHANGED vars PROVE Inv'
  <2>1. /\ entries' = entries /\ stage' = stage /\ stack' = stack
        /\ alive' = alive /\ known' = known
    BY <1>1 DEF vars
  <2>2. Shape'
    BY <2>1 DEF Inv, Shape, TypeOK, FramesFit, Sweeps
  <2>3. Building' /\ Tearing' /\ Ordered'
    BY <2>1 DEF Inv, Building, Nested, Recorded, Tearing, Sweeping, Swept, Released,
                Ordered, Gone
  <2> QED
    BY <2>2, <2>3 DEF Inv
<1>2. CASE Next
  BY <1>1, <1>2, CreateInv, AbandonInv, RecordInv, RecordFailsInv, DestroyAllInv,
     DestroyNextInv, DestroyedInv, ClearInv DEF Next, Finished
<1> QED
  BY <1>1, <1>2

LEMMA Invariance == ASSUME ~CreateInTeardown PROVE Spec => []Inv
BY InitInv, NextInv, PTL DEF Spec

\* What a constructor could see outlives the object: objects are destroyed in
\* the reverse order of their recording, and whatever is refused or thrown
\* while one is constructed, nothing it may depend on goes first.
THEOREM DependenciesOutliveObjects ==
  ASSUME ~CreateInTeardown PROVE Spec => []DependenciesOutlive
<1>1. Inv => DependenciesOutlive
  <2> SUFFICES ASSUME Inv, NEW o \in Objects, stage[o] \in {"live", "ending"},
                      NEW p \in known[o]
               PROVE  stage[p] = "live"
    BY DEF DependenciesOutlive
  <2>1. ~Gone
    BY DEF Inv, Tearing, Released, Gone
  <2>2. PICK i, j \in DOMAIN entries : i < j /\ entries[i] = p /\ entries[j] = o
    BY <2>1 DEF Inv, Ordered
  <2>3. entries[i] \in Objects /\ i \in Nat /\ j \in Nat
    BY Sequences DEF Inv
  <2>4. CASE alive
    BY <2>2, <2>3, <2>4 DEF Inv, Building, Recorded
  <2>5. CASE ~alive
    <3>1. stack # <<>> /\ Sweeping
      BY <2>1, <2>5 DEF Inv, Tearing, Gone
    <3>2. 1 \in DOMAIN stack /\ stack[1] \in Frames
      BY <3>1, RunningFits DEF Inv, Shape, TypeOK
    <3>3. stack[1].index \in Nat
      BY <3>2 DEF Frames
    <3>4. stage[o] = Swept(stack[1], j) /\ stage[p] = Swept(stack[1], i)
      BY <2>2, <3>1 DEF Sweeping
    <3> QED
      BY <2>2, <2>3, <3>3, <3>4 DEF Swept
  <2> QED
    BY <2>4, <2>5
<1> QED
  BY <1>1, Invariance, PTL

\* Each object that lives, or is being ended by the scope, has exactly one
\* entry among those the scope has still to end.
THEOREM LedgerIsExact ==
  ASSUME ~CreateInTeardown PROVE Spec => []LedgerExact
<1>1. Inv => LedgerExact
  <2> SUFFICES ASSUME Inv PROVE LedgerExact
    OBVIOUS
  <2>0. /\ entries \in Seq(Objects) /\ stack \in Seq(Frames)
        /\ Len(entries) \in Nat /\ DOMAIN entries = 1 .. Len(entries)
        /\ \A i \in DOMAIN entries : entries[i] \in Objects
    BY Sequences DEF Inv
  <2>1. CASE alive
    <3>1. ~InTeardown
      BY <2>1 DEF Inv, Shape, FramesFit, InTeardown
    <3> QED
      BY <2>1, <3>1 DEF LedgerExact, Pending, IsInjective, ToSet, Inv, Building,
                        Recorded, Ordered
  <2>2. CASE ~alive /\ stack = <<>>
    <3>1. ~InTeardown /\ entries = <<>>
      BY <2>2 DEF InTeardown, Inv, Tearing, Released
    <3> QED
      BY <2>2, <3>1 DEF LedgerExact, Pending, IsInjective, ToSet, Inv, Tearing, Released
  <2>3. CASE ~alive /\ stack # <<>>
    <3> DEFINE k == stack[1].index
               s == SubSeq(entries, 1, k)
    <3>1. /\ Sweeping /\ 1 \in DOMAIN stack /\ stack[1] \in Frames /\ InTeardown
          /\ k \in Nat /\ k <= Len(entries)
      <4>1. Sweeping /\ 1 \in DOMAIN stack
        BY <2>3, RunningFits DEF Inv, Tearing
      <4>2. stack[1] \in Frames /\ InTeardown
        BY <4>1, <2>0 DEF Sweeping, InTeardown
      <4>3. stack[1].index \in 0 .. Len(entries)
        BY <4>1 DEF Sweeping, Inv, Shape, FramesFit, Sweeps
      <4> QED
        BY <2>0, <4>1, <4>2, <4>3
    <3>2. DOMAIN s = 1 .. k /\ \A i \in 1 .. k : s[i] = entries[i] /\ i \in DOMAIN entries
      BY <2>0, <3>1
    <3>3. IsInjective(s)
      BY <3>2 DEF IsInjective, Inv, Ordered
    <3>4. ASSUME NEW o \in Objects
          PROVE  o \in ToSet(s) <=>
                   \/ stage[o] = "live"
                   \/ stage[o] = "ending" /\ InTeardown /\ stack[1].object = o
      <4>1. ASSUME NEW i \in 1 .. k, s[i] = o
            PROVE  \/ stage[o] = "live"
                   \/ stage[o] = "ending" /\ InTeardown /\ stack[1].object = o
        <5>1. stage[o] = Swept(stack[1], i) /\ i \in DOMAIN entries /\ entries[i] = o
          BY <3>1, <3>2, <4>1 DEF Sweeping
        <5> QED
          BY <3>1, <5>1, <2>0 DEF Swept, Sweeping
      <4>2. ASSUME stage[o] \in {"live", "ending"}
            PROVE  \E i \in 1 .. k : s[i] = o
        <5>1. PICK i \in DOMAIN entries : entries[i] = o
          BY <3>1, <4>2 DEF Sweeping, Recorded
        <5>2. stage[o] = Swept(stack[1], i)
          BY <3>1, <5>1 DEF Sweeping
        <5>3. i \in 1 .. k
          BY <2>0, <3>1, <4>2, <5>2 DEF Swept
        <5> QED
          BY <3>2, <5>1, <5>3
      <4> QED
        BY <3>2, <4>1, <4>2 DEF ToSet
    <3> QED
      BY <3>1, <3>3, <3>4 DEF LedgerExact, Pending
  <2> QED
    BY <2>1, <2>2, <2>3
<1> QED
  BY <1>1, Invariance, PTL

\* When ~Scope has returned, every object that was created is destroyed and its
\* storage given back.
THEOREM EndReleasesEverything ==
  ASSUME ~CreateInTeardown PROVE Spec => []EndReleasesAll
<1>1. Inv => EndReleasesAll
  BY DEF Inv, Tearing, Released, EndReleasesAll, Gone
<1> QED
  BY <1>1, Invariance, PTL
=============================================================================
