------------------------------ MODULE ArcProof ------------------------------
(***************************************************************************)
(* Proofs about Arc, for any number of threads, Arc objects, blocks and     *)
(* operations.  They are about programs that do not move-assign from inside *)
(* the target's payload (~MovesOutOfTarget), which destroys the source too  *)
(* early (run arc_move).                                                    *)
(*                                                                          *)
(* References are counted by place: an Arc object whose pointer is not      *)
(* being replaced, the release a thread is about to make, and the pointer   *)
(* it is about to store.                                                    *)
(***************************************************************************)
EXTENDS Arc, FiniteSetTheorems, TLAPS

Kinds == {"retain", "swing", "release", "free", "store", "take", "use"}
Steps == [do : Kinds, block : Blocks \union {Null, Absent},
          arc : Arcs \union {Null}, observed : 0 .. MaxCount]

-----------------------------------------------------------------------------
(* The steps of one operation                                               *)
(* A nested destruction puts a release and frees in front of what is left,  *)
(* so a release comes first and a store or take comes last.                 *)

NoStep == Step("none", Null, Null, 0)

First(w) == IF w = <<>> THEN NoStep ELSE w[1]
Final(w) == IF w = <<>> THEN NoStep ELSE w[Len(w)]

\* The block released next, and the pointer stored in the end.
Released(w) == IF First(w).do = "release" THEN First(w).block ELSE Null
Stored(w) == IF Final(w).do = "store" THEN Final(w).block ELSE Null
Replaces(w, a) == Final(w).do \in {"store", "take"} /\ Final(w).arc = a
Frees(w) == {w[k].block : k \in {j \in DOMAIN w : w[j].do = "free"}}

Formed(w) ==
  /\ \A k \in DOMAIN w :
       /\ w[k].do \in {"retain", "swing", "use"} => Len(w) = 1
       /\ w[k].do = "release" => k = 1
       /\ w[k].do \in {"store", "take"} => k = Len(w)
       /\ w[k].do \in {"release", "free"} => w[k].block \in Blocks
  /\ \A k, j \in DOMAIN w :
       w[k].do = "free" /\ w[j].do = "free" /\ w[k].block = w[j].block => k = j

LEMMA Constants ==
  /\ Null \notin Blocks /\ Null \notin Arcs /\ Absent \notin Blocks /\ Absent \notin Arcs
  /\ Null # Absent
  /\ Locals \cap Members = {} /\ Arcs = Locals \union Members
  /\ \A m \in Members : Home[m] \in Blocks
  /\ MaxCount \in Nat \ {0} /\ MaxCalls \in Nat
BY NamesAssumption, HomeAssumption, CountAssumption DEF Arcs

LEMMA FirstAndFinal ==
  ASSUME NEW w \in Seq(Steps), w # <<>>
  PROVE  /\ Len(w) \in Nat \ {0} /\ DOMAIN w = 1 .. Len(w)
         /\ 1 \in DOMAIN w /\ Len(w) \in DOMAIN w
         /\ First(w) = w[1] /\ First(w) = Head(w) /\ First(w) \in Steps
         /\ Final(w) = w[Len(w)] /\ Final(w) \in Steps
         /\ \A k \in DOMAIN w : w[k] \in Steps
         /\ Tail(w) \in Seq(Steps) /\ Len(Tail(w)) = Len(w) - 1
         /\ DOMAIN Tail(w) = 1 .. Len(w) - 1
         /\ \A k \in 1 .. Len(w) - 1 : Tail(w)[k] = w[k + 1]
         /\ Tail(w) = <<>> <=> Len(w) = 1
<1>1. Len(w) \in Nat \ {0} /\ DOMAIN w = 1 .. Len(w)
  OBVIOUS
<1>2. Tail(w) \in Seq(Steps) /\ Len(Tail(w)) = Len(w) - 1
  BY <1>1
<1>3. DOMAIN Tail(w) = 1 .. Len(w) - 1
  BY <1>2
<1>4. \A k \in 1 .. Len(w) - 1 : Tail(w)[k] = w[k + 1]
  BY <1>1
<1>5. Tail(w) = <<>> <=> Len(w) = 1
  BY <1>1, <1>2
<1>6. First(w) = w[1] /\ First(w) = Head(w) /\ First(w) \in Steps
  BY <1>1 DEF First
<1>7. Final(w) = w[Len(w)] /\ Final(w) \in Steps /\ \A k \in DOMAIN w : w[k] \in Steps
  BY <1>1 DEF Final
<1> QED
  BY <1>1, <1>2, <1>3, <1>4, <1>5, <1>6, <1>7

\* The first step is done.
LEMMA TailFormed ==
  ASSUME NEW w \in Seq(Steps), w # <<>>, Formed(w)
  PROVE  /\ Tail(w) \in Seq(Steps) /\ Formed(Tail(w))
         /\ Released(Tail(w)) = Null
         /\ Final(Tail(w)) = IF Tail(w) = <<>> THEN NoStep ELSE Final(w)
         /\ Frees(Tail(w)) =
              IF First(w).do = "free" THEN Frees(w) \ {First(w).block} ELSE Frees(w)
         /\ First(w).do \in {"retain", "swing", "use", "store", "take"} =>
              Tail(w) = <<>> /\ Final(w) = First(w)
<1> DEFINE v == Tail(w)
<1>1. /\ Len(w) \in Nat \ {0} /\ DOMAIN w = 1 .. Len(w) /\ 1 \in DOMAIN w
      /\ v \in Seq(Steps) /\ Len(v) = Len(w) - 1 /\ DOMAIN v = 1 .. Len(w) - 1
      /\ \A k \in 1 .. Len(w) - 1 : v[k] = w[k + 1]
      /\ v = <<>> <=> Len(w) = 1
      /\ First(w) = w[1] /\ Final(w) = w[Len(w)]
  BY FirstAndFinal
<1> HIDE DEF v
<1>2. \A k \in DOMAIN v : v[k] = w[k + 1] /\ k + 1 \in DOMAIN w /\ k + 1 # 1 /\ k \in Nat
  BY <1>1
<1>3. Formed(v)
  <2>1. \A k \in DOMAIN v :
          /\ v[k].do \in {"retain", "swing", "use"} => Len(v) = 1
          /\ v[k].do = "release" => k = 1
          /\ v[k].do \in {"store", "take"} => k = Len(v)
          /\ v[k].do \in {"release", "free"} => v[k].block \in Blocks
    BY <1>1, <1>2 DEF Formed
  <2>2. ASSUME NEW k \in DOMAIN v, NEW j \in DOMAIN v,
               v[k].do = "free", v[j].do = "free", v[k].block = v[j].block
        PROVE  k = j
    <3>1. k + 1 = j + 1
      BY <1>2, <2>2 DEF Formed
    <3> QED
      BY <3>1, <1>2
  <2> QED
    BY <2>1, <2>2 DEF Formed
<1>4. \A k \in DOMAIN v : v[k].do # "release"
  BY <1>2 DEF Formed
<1>5. Released(v) = Null
  BY <1>1, <1>4 DEF Released, First, NoStep, Step
<1>6. Final(v) = IF v = <<>> THEN NoStep ELSE Final(w)
  <2>1. CASE v = <<>>
    BY <2>1 DEF Final
  <2>2. CASE v # <<>>
    <3>1. Len(w) - 1 \in 1 .. Len(w) - 1
      BY <1>1, <2>2
    <3>2. v[Len(w) - 1] = w[Len(w) - 1 + 1]
      BY <1>1, <3>1
    <3> QED
      BY <1>1, <2>2, <3>2 DEF Final
  <2> QED
    BY <2>1, <2>2
<1>7. Frees(v) = IF First(w).do = "free" THEN Frees(w) \ {First(w).block} ELSE Frees(w)
  <2>1. ASSUME NEW b PROVE b \in Frees(v) <=>
                \E k \in DOMAIN w : k # 1 /\ w[k].do = "free" /\ w[k].block = b
    <3>1. ASSUME NEW k \in DOMAIN w, k # 1 PROVE k - 1 \in DOMAIN v /\ v[k - 1] = w[k]
      <4>1. k - 1 \in 1 .. Len(w) - 1 /\ (k - 1) + 1 = k
        BY <1>1, <3>1
      <4> QED
        BY <1>1, <4>1
    <3> QED
      BY <1>2, <3>1 DEF Frees
  <2>2. ASSUME NEW b PROVE b \in Frees(w) <=>
                \E k \in DOMAIN w : w[k].do = "free" /\ w[k].block = b
    BY DEF Frees
  <2>3. CASE First(w).do = "free"
    <3>1. \A k \in DOMAIN w :
            w[k].do = "free" => (k # 1 <=> w[k].block # First(w).block)
      BY <1>1, <2>3 DEF Formed
    <3>2. ASSUME NEW b PROVE b \in Frees(v) <=> b \in Frees(w) \ {First(w).block}
      BY <2>1, <2>2, <3>1
    <3> QED
      BY <2>3, <3>2
  <2>4. CASE First(w).do # "free"
    <3>1. \A k \in DOMAIN w : w[k].do = "free" => k # 1
      BY <1>1, <2>4
    <3>2. ASSUME NEW b PROVE b \in Frees(v) <=> b \in Frees(w)
      BY <2>1, <2>2, <3>1
    <3>3. Frees(v) = Frees(w)
      BY <3>2
    <3> QED
      BY <2>4, <3>3
  <2> QED
    BY <2>3, <2>4
<1>8. First(w).do \in {"retain", "swing", "use", "store", "take"} =>
        v = <<>> /\ Final(w) = First(w)
  BY <1>1 DEF Formed
<1> QED
  BY <1>1, <1>3, <1>5, <1>6, <1>7, <1>8 DEF v

\* What is left behind a release.
Leftover(w) == \A k \in DOMAIN w : w[k].do \in {"free", "store", "take"}

LEMMA LeftoverTail ==
  ASSUME NEW w \in Seq(Steps), w # <<>>, Formed(w), First(w).do = "release"
  PROVE  Leftover(Tail(w))
<1>1. /\ Len(w) \in Nat \ {0} /\ DOMAIN w = 1 .. Len(w)
      /\ DOMAIN Tail(w) = 1 .. Len(w) - 1 /\ First(w) = w[1]
      /\ \A k \in 1 .. Len(w) - 1 : Tail(w)[k] = w[k + 1]
      /\ \A k \in DOMAIN w : w[k] \in Steps
  BY FirstAndFinal
<1>2. ASSUME NEW k \in DOMAIN Tail(w) PROVE Tail(w)[k].do \in {"free", "store", "take"}
  <2>1. /\ Tail(w)[k] = w[k + 1] /\ k + 1 \in DOMAIN w /\ k + 1 # 1
        /\ w[k + 1] \in Steps /\ Len(w) # 1
    BY <1>1, <1>2
  <2>2. w[k + 1].do \in Kinds /\ w[k + 1].do \notin {"retain", "swing", "use", "release"}
    BY <2>1 DEF Formed, Steps
  <2> QED
    BY <2>1, <2>2 DEF Kinds
<1> QED
  BY <1>2 DEF Leftover

\* An operation of one step.
LEMMA OneFormed ==
  ASSUME NEW s \in Steps, s.do \in {"release", "free"} => s.block \in Blocks
  PROVE  /\ <<s>> \in Seq(Steps) /\ <<s>> # <<>> /\ Formed(<<s>>)
         /\ First(<<s>>) = s /\ Final(<<s>>) = s
         /\ s.do # "free" => Frees(<<s>>) = {}
         /\ s.do \in {"free", "store", "take"} => Leftover(<<s>>)
<1>1. <<s>> \in Seq(Steps) /\ Len(<<s>>) = 1 /\ DOMAIN <<s>> = {1} /\ <<s>>[1] = s
  OBVIOUS
<1>2. <<s>> # <<>>
  BY <1>1
<1> QED
  BY <1>1, <1>2 DEF Formed, First, Final, Frees, Leftover

\* A release or a free goes in front.
LEMMA Prepend ==
  ASSUME NEW u \in Seq(Steps), NEW s \in Steps, Formed(u), Leftover(u),
         s.do \in {"release", "free"}, s.block \in Blocks,
         s.do = "free" => s.block \notin Frees(u)
  PROVE  LET v == <<s>> \o u IN
         /\ v \in Seq(Steps) /\ v # <<>> /\ Formed(v)
         /\ First(v) = s
         /\ Final(v) = IF u = <<>> THEN s ELSE Final(u)
         /\ Frees(v) = IF s.do = "free" THEN Frees(u) \union {s.block} ELSE Frees(u)
         /\ s.do = "free" => Leftover(v)
<1> DEFINE v == <<s>> \o u
<1>1. /\ Len(u) \in Nat /\ DOMAIN u = 1 .. Len(u)
      /\ v \in Seq(Steps) /\ Len(v) = Len(u) + 1
      /\ DOMAIN v = 1 .. Len(u) + 1 /\ v[1] = s
  OBVIOUS
<1>2. \A k \in 1 .. Len(u) : v[k + 1] = u[k]
  OBVIOUS
<1> HIDE DEF v
<1>3. ASSUME NEW k \in DOMAIN v, k # 1
      PROVE  k - 1 \in DOMAIN u /\ v[k] = u[k - 1] /\ k \in Nat
  <2>1. k - 1 \in 1 .. Len(u) /\ (k - 1) + 1 = k
    BY <1>1, <1>3
  <2> QED
    BY <1>1, <1>2, <2>1
<1>4. ASSUME NEW k \in DOMAIN u
      PROVE  k + 1 \in DOMAIN v /\ v[k + 1] = u[k] /\ k + 1 # 1
  BY <1>1, <1>2, <1>4
<1>5. ASSUME NEW k \in DOMAIN v
      PROVE  /\ v[k].do \in {"retain", "swing", "use"} => Len(v) = 1
             /\ v[k].do = "release" => k = 1
             /\ v[k].do \in {"store", "take"} => k = Len(v)
             /\ v[k].do \in {"release", "free"} => v[k].block \in Blocks
  <2>1. CASE k = 1
    BY <1>1, <2>1
  <2>2. CASE k # 1
    BY <1>1, <1>3, <1>5, <2>2 DEF Formed, Leftover
  <2> QED
    BY <2>1, <2>2
<1>6. \A k \in DOMAIN u : u[k].do = "free" => u[k].block \in Frees(u)
  BY DEF Frees
<1>7. ASSUME NEW k \in DOMAIN v, NEW j \in DOMAIN v,
             v[k].do = "free", v[j].do = "free", v[k].block = v[j].block
      PROVE  k = j
  <2>1. CASE k = 1 \/ j = 1
    BY <1>1, <1>3, <1>6, <1>7, <2>1
  <2>2. CASE k # 1 /\ j # 1
    <3>1. k - 1 = j - 1 /\ k \in Nat /\ j \in Nat
      BY <1>3, <1>7, <2>2 DEF Formed
    <3> QED
      BY <3>1
  <2> QED
    BY <2>1, <2>2
<1>8. Formed(v)
  BY <1>5, <1>7 DEF Formed
<1>9. v # <<>>
  BY <1>1
<1>10. First(v) = s
  BY <1>1, <1>9 DEF First
<1>11. Final(v) = IF u = <<>> THEN s ELSE Final(u)
  <2>1. CASE u = <<>>
    BY <1>1, <1>9, <2>1 DEF Final
  <2>2. CASE u # <<>>
    <3>1. Len(u) \in DOMAIN u
      BY <1>1, <2>2
    <3>2. v[Len(v)] = u[Len(u)]
      BY <1>1, <1>4, <3>1
    <3> QED
      BY <1>9, <2>2, <3>2 DEF Final
  <2> QED
    BY <2>1, <2>2
<1>12. ASSUME NEW b
       PROVE  b \in Frees(v) <=> (s.do = "free" /\ b = s.block) \/ b \in Frees(u)
  <2>1. ASSUME b \in Frees(v) PROVE (s.do = "free" /\ b = s.block) \/ b \in Frees(u)
    <3>1. PICK k \in DOMAIN v : v[k].do = "free" /\ v[k].block = b
      BY <2>1 DEF Frees
    <3> QED
      BY <1>1, <1>3, <1>6, <3>1
  <2>2. ASSUME b \in Frees(u) PROVE b \in Frees(v)
    <3>1. PICK k \in DOMAIN u : u[k].do = "free" /\ u[k].block = b
      BY <2>2 DEF Frees
    <3> QED
      BY <1>4, <3>1 DEF Frees
  <2>3. ASSUME s.do = "free" PROVE s.block \in Frees(v)
    <3>1. 1 \in DOMAIN v
      BY <1>1
    <3> QED
      BY <1>1, <2>3, <3>1 DEF Frees
  <2> QED
    BY <2>1, <2>2, <2>3
<1>13. Frees(v) = IF s.do = "free" THEN Frees(u) \union {s.block} ELSE Frees(u)
  BY <1>12
<1>14. s.do = "free" => Leftover(v)
  BY <1>1, <1>3 DEF Leftover
<1> QED
  BY <1>1, <1>8, <1>9, <1>10, <1>11, <1>13, <1>14 DEF v

\* An assignment begins: release the old pointer, if any, then s.
LEMMA BeginFormed ==
  ASSUME NEW x, NEW s \in Steps, s.do \in {"store", "take"}
  PROVE  LET v == (IF x \in Blocks THEN <<ReleaseOf(x)>> ELSE <<>>) \o <<s>> IN
         /\ v \in Seq(Steps) /\ v # <<>> /\ Formed(v)
         /\ Released(v) = IF x \in Blocks THEN x ELSE Null
         /\ Final(v) = s /\ Frees(v) = {}
<1>1. /\ <<s>> \in Seq(Steps) /\ <<s>> # <<>> /\ Formed(<<s>>) /\ Leftover(<<s>>)
      /\ First(<<s>>) = s /\ Final(<<s>>) = s /\ Frees(<<s>>) = {}
  BY OneFormed
<1>2. CASE x \in Blocks
  <2>1. ReleaseOf(x) \in Steps /\ ReleaseOf(x).do = "release" /\ ReleaseOf(x).block = x
    BY <1>2, Constants DEF ReleaseOf, Step, Steps, Kinds
  <2>2. LET v == <<ReleaseOf(x)>> \o <<s>> IN
        /\ v \in Seq(Steps) /\ v # <<>> /\ Formed(v) /\ First(v) = ReleaseOf(x)
        /\ Final(v) = s /\ Frees(v) = {}
    BY <1>1, <1>2, <2>1, Prepend
  <2> QED
    BY <1>2, <2>1, <2>2 DEF Released
<1>3. CASE x \notin Blocks
  <2>1. <<>> \o <<s>> = <<s>>
    OBVIOUS
  <2> QED
    BY <1>1, <1>3, <2>1 DEF Released
<1> QED
  BY <1>2, <1>3

\* The last release of block b runs ~T, which releases x if it is a block.
LEMMA DestructionFormed ==
  ASSUME NEW w \in Seq(Steps), w # <<>>, Formed(w), First(w).do = "release",
         NEW b \in Blocks, b \notin Frees(w), NEW x
  PROVE  LET v == ((IF x \in Blocks THEN <<ReleaseOf(x)>> ELSE <<>>) \o <<FreeOf(b)>>)
                     \o Tail(w)
         IN
         /\ v \in Seq(Steps) /\ v # <<>> /\ Formed(v)
         /\ Released(v) = IF x \in Blocks THEN x ELSE Null
         /\ Final(v) = IF Tail(w) = <<>> THEN FreeOf(b) ELSE Final(w)
         /\ Frees(v) = Frees(w) \union {b}
<1> DEFINE u == Tail(w)
           f == <<FreeOf(b)>> \o u
<1>1. /\ u \in Seq(Steps) /\ Formed(u) /\ Leftover(u) /\ Frees(u) = Frees(w)
      /\ Final(u) = IF u = <<>> THEN NoStep ELSE Final(w)
  BY TailFormed, LeftoverTail
<1> HIDE DEF u
<1>2. FreeOf(b) \in Steps /\ FreeOf(b).do = "free" /\ FreeOf(b).block = b
  BY Constants DEF FreeOf, Step, Steps, Kinds
<1>3. /\ f \in Seq(Steps) /\ f # <<>> /\ Formed(f) /\ First(f) = FreeOf(b)
      /\ Final(f) = IF u = <<>> THEN FreeOf(b) ELSE Final(u)
      /\ Frees(f) = Frees(u) \union {b} /\ Leftover(f)
  BY <1>1, <1>2, Prepend
<1>4. Final(f) = IF u = <<>> THEN FreeOf(b) ELSE Final(w)
  BY <1>1, <1>3
<1>5. CASE x \in Blocks
  <2>1. ReleaseOf(x) \in Steps /\ ReleaseOf(x).do = "release" /\ ReleaseOf(x).block = x
    BY <1>5, Constants DEF ReleaseOf, Step, Steps, Kinds
  <2>2. (<<ReleaseOf(x)>> \o <<FreeOf(b)>>) \o u = <<ReleaseOf(x)>> \o f
    BY <1>1, <1>2, <2>1
  <2> HIDE DEF f
  <2>3. LET v == <<ReleaseOf(x)>> \o f IN
        /\ v \in Seq(Steps) /\ v # <<>> /\ Formed(v) /\ First(v) = ReleaseOf(x)
        /\ Final(v) = Final(f) /\ Frees(v) = Frees(f)
    BY <1>3, <1>5, <2>1, Prepend
  <2> QED
    BY <1>1, <1>3, <1>4, <1>5, <2>1, <2>2, <2>3 DEF Released, u
<1>6. CASE x \notin Blocks
  <2>1. (<<>> \o <<FreeOf(b)>>) \o u = f
    BY <1>1, <1>2
  <2> HIDE DEF f
  <2> QED
    BY <1>1, <1>2, <1>3, <1>4, <1>6, <2>1 DEF Released, u
<1> QED
  BY <1>5, <1>6

-----------------------------------------------------------------------------
(* Counting references by place *)

Tally(f, D, b) == Cardinality({d \in D : f[d] = b})
One(x, b) == IF x = b THEN 1 ELSE 0
Nowhere(f, D, b) == \A d \in D : f[d] # b
Alike(f, g, D, b) == \A d \in D : g[d] = b <=> f[d] = b

LEMMA TallyFacts ==
  ASSUME NEW D, IsFiniteSet(D), NEW f, NEW b
  PROVE  /\ IsFiniteSet({d \in D : f[d] = b})
         /\ Tally(f, D, b) \in Nat
         /\ Tally(f, D, b) = 0 <=> Nowhere(f, D, b)
<1> DEFINE S == {d \in D : f[d] = b}
<1>1. IsFiniteSet(S)
  BY FS_Subset
<1>2. Cardinality(S) \in Nat /\ (Cardinality(S) = 0 <=> S = {})
  BY <1>1, FS_CardinalityType, FS_EmptySet
<1>3. S = {} <=> Nowhere(f, D, b)
  BY DEF Nowhere
<1> QED
  BY <1>1, <1>2, <1>3 DEF Tally

\* Only place d may gain or lose its reference to b.
LEMMA Recount ==
  ASSUME NEW D, IsFiniteSet(D), NEW f, NEW g, NEW d \in D, NEW b,
         Alike(f, g, D \ {d}, b)
  PROVE  Tally(g, D, b) = Tally(f, D, b) - One(f[d], b) + One(g[d], b)
<1> DEFINE S == {c \in D : f[c] = b}
           R == S \ {d}
           T == {c \in D : g[c] = b}
<1>1. IsFiniteSet(S) /\ Cardinality(S) \in Nat
  <2>1. S \in SUBSET D
    OBVIOUS
  <2> HIDE DEF S
  <2> QED
    BY <2>1, FS_Subset, FS_CardinalityType
<1>2. /\ IsFiniteSet(R) /\ Cardinality(R) \in Nat
      /\ Cardinality(R) = IF d \in S THEN Cardinality(S) - 1 ELSE Cardinality(S)
  BY <1>1, FS_RemoveElement, FS_CardinalityType
<1>3. Cardinality(R) = Cardinality(S) - One(f[d], b)
  BY <1>1, <1>2 DEF One
<1>4. Cardinality(R \union {d}) = Cardinality(R) + 1
  BY <1>2, FS_AddElement
<1>5. T = IF g[d] = b THEN R \union {d} ELSE R
  BY Zenon DEF Alike
<1>6. Cardinality(T) = Cardinality(R) + One(g[d], b)
  <2> HIDE DEF T, R
  <2> QED
    BY <1>2, <1>4, <1>5 DEF One
<1> QED
  BY <1>1, <1>2, <1>3, <1>6 DEF Tally, One

LEMMA SameCount ==
  ASSUME NEW D, NEW f, NEW g, NEW b, Alike(f, g, D, b)
  PROVE  Tally(g, D, b) = Tally(f, D, b)
<1>1. {c \in D : g[c] = b} = {c \in D : f[c] = b}
  BY DEF Alike
<1> QED
  BY <1>1 DEF Tally

-----------------------------------------------------------------------------
(* The invariant *)

\* The reference each place holds.
Held == [a \in Arcs |-> IF \E t \in Threads : Replaces(work[t], a) THEN Null
                        ELSE ctrl[a]]
Letting == [t \in Threads |-> Released(work[t])]
Storing == [t \in Threads |-> Stored(work[t])]
Refs(b) == Tally(Held, Arcs, b) + Tally(Letting, Threads, b) + Tally(Storing, Threads, b)

\* How the last step of an operation uses its Arc objects.
Suits(s, u) ==
  /\ s.do \in {"retain", "swing"} =>
       /\ s.block \in Blocks /\ u.target \in Arcs /\ u.source \in Arcs /\ ~u.moves
       /\ s.observed < MaxCount
  /\ s.do = "use" => s.block \in Blocks /\ u.source \in Arcs /\ ~u.moves
  /\ s.do = "store" =>
       /\ s.arc = u.target /\ u.target \in Arcs /\ ~u.moves
       /\ s.block = Absent => u.target \in Locals
  /\ s.do = "take" =>
       /\ s.arc = u.target /\ u.target \in Arcs /\ u.source \in Arcs
       /\ u.moves /\ u.source # u.target

OperationsFit ==
  \A t \in Threads : Formed(work[t]) /\ Suits(Final(work[t]), use[t])

\* What one thread writes, no other uses.
Exclusive ==
  \A t, u \in Threads : t # u =>
    \A a \in Arcs : a \in Writes(t) => a \notin Writes(u) \union Reads(u)

\* Each block under destruction is freed by one step.
FreesFit ==
  /\ \A t \in Threads : \A b \in Frees(work[t]) : phase[b] = "dying"
  /\ \A t, u \in Threads : t # u => Frees(work[t]) \cap Frees(work[u]) = {}

\* While an operation uses an Arc in a payload, a local Arc keeps the payload
\* alive, and the operation does not write that local before.
Reaches(t, a) ==
  a \in Locals \/ \E v \in use[t].via : ctrl[v] = Home[a]
ReachesPast(t, a) ==
  a \in Locals \/ \E v \in use[t].via : ctrl[v] = Home[a] /\ v # use[t].target
Pinned(t) ==
  LET s == Final(work[t]) IN
  /\ s.do \in {"retain", "swing", "store", "take"} => ReachesPast(t, use[t].target)
  /\ s.do \in {"retain", "swing", "use"} =>
       Reaches(t, use[t].source) /\ ctrl[use[t].source] = s.block
  /\ s.do = "take" => ReachesPast(t, use[t].source) /\ Exists(use[t].source)

\* An Arc in a payload exists as long as the payload.
MembersFit == \A m \in Members : Exists(m) <=> phase[Home[m]] = "live"

Ledger ==
  \A b \in Blocks :
    /\ Refs(b) # 0 => phase[b] = "live"
    /\ phase[b] = "live" => count[b] = Refs(b)

Inv ==
  /\ TypeOK /\ OperationsFit /\ Exclusive /\ FreesFit
  /\ \A t \in Threads : Pinned(t)
  /\ MembersFit /\ Ledger

-----------------------------------------------------------------------------
(* What the invariant says of references *)

\* Only the thread that writes an Arc object replaces its pointer.
LEMMA NotReplaced ==
  ASSUME OperationsFit, NEW u \in Threads, NEW a \in Arcs, a \notin Writes(u)
  PROVE  ~Replaces(work[u], a)
BY Constants DEF OperationsFit, Suits, Replaces, Writes

LEMMA HeldAt ==
  ASSUME OperationsFit, NEW t \in Threads, NEW a \in Arcs,
         \A u \in Threads \ {t} : a \notin Writes(u)
  PROVE  Held[a] = IF Replaces(work[t], a) THEN Null ELSE ctrl[a]
<1>1. \A u \in Threads \ {t} : ~Replaces(work[u], a)
  BY NotReplaced
<1> QED
  BY <1>1 DEF Held

LEMMA HeldAtNext ==
  ASSUME OperationsFit, NEW t \in Threads, NEW a \in Arcs,
         \A u \in Threads \ {t} : a \notin Writes(u),
         \A u \in Threads \ {t} : work'[u] = work[u]
  PROVE  Held'[a] = IF Replaces(work'[t], a) THEN Null ELSE ctrl'[a]
<1>1. \A u \in Threads \ {t} : ~Replaces(work[u], a)
  BY NotReplaced
<1> QED
  BY <1>1 DEF Held

LEMMA HeldSame ==
  ASSUME NEW t \in Threads, NEW a \in Arcs,
         \A u \in Threads \ {t} : work'[u] = work[u],
         Replaces(work'[t], a) <=> Replaces(work[t], a), ctrl'[a] = ctrl[a]
  PROVE  Held'[a] = Held[a]
<1>1. (\E u \in Threads : Replaces(work'[u], a)) <=> \E u \in Threads : Replaces(work[u], a)
  OBVIOUS
<1> QED
  BY <1>1 DEF Held

LEMMA Finite == IsFiniteSet(Arcs) /\ IsFiniteSet(Threads)
BY NamesAssumption

LEMMA RefsFacts ==
  ASSUME NEW b
  PROVE  /\ Refs(b) \in Nat
         /\ Tally(Held, Arcs, b) \in Nat /\ Tally(Letting, Threads, b) \in Nat
         /\ Tally(Storing, Threads, b) \in Nat
<1>1. Tally(Held, Arcs, b) \in Nat /\ Tally(Letting, Threads, b) \in Nat
      /\ Tally(Storing, Threads, b) \in Nat
  BY TallyFacts, Finite
<1> QED
  BY <1>1 DEF Refs

\* A block somebody refers to is alive.
LEMMA HolderLive ==
  ASSUME Ledger, NEW b \in Blocks,
         \/ \E a \in Arcs : Held[a] = b
         \/ \E t \in Threads : Letting[t] = b \/ Storing[t] = b
  PROVE  Refs(b) # 0 /\ phase[b] = "live" /\ count[b] = Refs(b)
<1>1. Tally(Held, Arcs, b) # 0 \/ Tally(Letting, Threads, b) # 0
      \/ Tally(Storing, Threads, b) # 0
  BY TallyFacts, Finite DEF Nowhere
<1>2. Refs(b) # 0
  BY <1>1, RefsFacts DEF Refs
<1> QED
  BY <1>2 DEF Ledger

\* A local Arc that an operation came through and does not write holds its block.
LEMMA PinHolds ==
  ASSUME TypeOK, OperationsFit, Exclusive, Ledger, NEW t \in Threads,
         NEW v \in use[t].via, ~Replaces(work[t], v), ctrl[v] \in Blocks
  PROVE  v \in Locals /\ Held[v] = ctrl[v] /\ phase[ctrl[v]] = "live"
<1>1. v \in Locals /\ v \in Arcs /\ v \in Reads(t)
  BY Constants DEF TypeOK, Uses, Reads
<1>2. \A u \in Threads \ {t} : v \notin Writes(u)
  BY <1>1 DEF Exclusive
<1>3. Held[v] = ctrl[v]
  BY <1>1, <1>2, HeldAt
<1> QED
  BY <1>1, <1>3, HolderLive

LEMMA ReachedLive ==
  ASSUME TypeOK, OperationsFit, Exclusive, Ledger, NEW t \in Threads, NEW m \in Members,
         \/ ReachesPast(t, m)
         \/ Reaches(t, m) /\ Final(work[t]).do \notin {"store", "take"}
  PROVE  /\ phase[Home[m]] = "live"
         /\ \E v \in Locals : Held[v] = Home[m]
<1>1. m \notin Locals /\ Home[m] \in Blocks
  BY Constants
<1>2. PICK v \in use[t].via : ctrl[v] = Home[m] /\ ~Replaces(work[t], v)
  <2>1. CASE ReachesPast(t, m)
    BY <1>1, <2>1 DEF ReachesPast, Replaces, OperationsFit, Suits
  <2>2. CASE Reaches(t, m) /\ Final(work[t]).do \notin {"store", "take"}
    BY <1>1, <2>2 DEF Reaches, Replaces
  <2> QED
    BY <2>1, <2>2
<1> QED
  BY <1>1, <1>2, PinHolds

\* The pointer an operation retains or uses is held by its source.
LEMMA SourceLive ==
  ASSUME TypeOK, OperationsFit, Exclusive, Ledger, NEW t \in Threads, Pinned(t),
         Final(work[t]).do \in {"retain", "swing", "use"}
  PROVE  LET b == Final(work[t]).block IN
         b \in Blocks /\ Refs(b) # 0 /\ phase[b] = "live" /\ count[b] = Refs(b)
<1> DEFINE s == use[t].source
           b == Final(work[t]).block
<1>1. b \in Blocks /\ s \in Arcs /\ ctrl[s] = b
  BY DEF OperationsFit, Suits, Pinned
<1>2. s \in Reads(t)
  BY DEF Reads
<1>3. \A u \in Threads \ {t} : s \notin Writes(u)
  BY <1>1, <1>2 DEF Exclusive
<1>4. ~Replaces(work[t], s)
  BY DEF Replaces
<1>5. Held[s] = b
  BY <1>1, <1>3, <1>4, HeldAt
<1> QED
  BY <1>1, <1>5, HolderLive

-----------------------------------------------------------------------------
(* What one thread's step leaves of the invariant *)

LEMMA OperationsFitFrame ==
  ASSUME OperationsFit, NEW t \in Threads,
         \A u \in Threads \ {t} : work'[u] = work[u] /\ use'[u] = use[u],
         Formed(work'[t]), Suits(Final(work'[t]), use'[t])
  PROVE  OperationsFit'
<1> SUFFICES ASSUME NEW u \in Threads
             PROVE  Formed(work'[u]) /\ Suits(Final(work'[u]), use'[u])
  BY DEF OperationsFit
<1>1. CASE u = t
  BY <1>1
<1>2. CASE u # t
  BY <1>2 DEF OperationsFit
<1> QED
  BY <1>1, <1>2

LEMMA ExclusiveFrame ==
  ASSUME Exclusive, NEW t \in Threads,
         \A u \in Threads \ {t} : use'[u] = use[u], use'[t] \in {use[t], NoUse}
  PROVE  Exclusive'
<1>1. ASSUME NEW u \in Threads, NEW a \in Arcs
      PROVE  /\ a \in Writes(u)' => a \in Writes(u)
             /\ a \in Reads(u)' => a \in Reads(u)
  <2>1. CASE use'[u] = use[u]
    BY <2>1 DEF Writes, Reads
  <2>2. CASE use'[u] = NoUse
    BY <2>2, Constants DEF Writes, Reads, NoUse
  <2> QED
    BY <2>1, <2>2
<1> QED
  BY <1>1 DEF Exclusive

\* An operation begins on target a, reading or moving s, by way of p.
LEMMA ExclusiveBegin ==
  ASSUME Exclusive, NEW t \in Threads,
         NEW a, NEW s, NEW moves \in BOOLEAN, NEW p,
         \A u \in Threads \ {t} : use'[u] = use[u],
         use'[t] = [target |-> a, source |-> s, moves |-> moves, via |-> p],
         a # Null => Writable(t, a),
         IF moves THEN Writable(t, s) ELSE Readable(t, s),
         \A v \in p : Readable(t, v)
  PROVE  Exclusive'
<1>1. \A u \in Threads \ {t} : Writes(u)' = Writes(u) /\ Reads(u)' = Reads(u)
  BY DEF Writes, Reads
<1>2. ASSUME NEW u \in Threads \ {t}, NEW c \in Arcs, c \in Writes(t)'
      PROVE  c \notin Writes(u) \union Reads(u)
  <2>1. (c = a /\ a # Null) \/ (moves /\ c = s)
    BY <1>2 DEF Writes
  <2> QED
    BY <2>1 DEF Writable
<1>3. ASSUME NEW u \in Threads \ {t}, NEW c \in Arcs, c \in Writes(u)
      PROVE  c \notin Writes(t)' \union Reads(t)'
  <2>1. Writable(t, s) \/ Readable(t, s)
    OBVIOUS
  <2>2. c \notin p /\ c # s
    BY <1>3, <2>1 DEF Readable, Writable
  <2>3. c # a
    BY <1>3, Constants DEF Writable
  <2> QED
    BY <2>2, <2>3 DEF Writes, Reads
<1> QED
  BY <1>1, <1>2, <1>3 DEF Exclusive

LEMMA FreesFrame ==
  ASSUME FreesFit, NEW t \in Threads,
         \A u \in Threads \ {t} : work'[u] = work[u],
         Frees(work'[t]) \subseteq Frees(work[t]),
         \A b \in Blocks : phase'[b] # phase[b] =>
           b \notin Frees(work'[t]) /\ \A u \in Threads \ {t} : b \notin Frees(work[u]),
         \A u \in Threads : Frees(work[u]) \subseteq Blocks
  PROVE  FreesFit'
<1>1. ASSUME NEW u \in Threads PROVE Frees(work'[u]) \subseteq Frees(work[u])
  BY DEF FreesFit
<1>2. ASSUME NEW u \in Threads, NEW b \in Frees(work'[u])
      PROVE  phase'[b] = "dying"
  BY <1>1, <1>2 DEF FreesFit
<1>3. \A u, v \in Threads : u # v => Frees(work'[u]) \cap Frees(work'[v]) = {}
  BY <1>1 DEF FreesFit
<1> QED
  BY <1>2, <1>3 DEF FreesFit

LEMMA FreesBlocks ==
  ASSUME OperationsFit, NEW u \in Threads
  PROVE  Frees(work[u]) \subseteq Blocks
BY DEF OperationsFit, Formed, Frees

\* An operation still reaches its Arc objects if nothing it reads is written.
LEMMA PinnedKept ==
  ASSUME TypeOK, NEW u \in Threads, Pinned(u),
         use'[u] = use[u],
         Final(work'[u]) = Final(work[u]),
         \A v \in use[u].via : ctrl'[v] = ctrl[v],
         Final(work[u]).do \in {"retain", "swing", "use", "take"} =>
           ctrl'[use[u].source] = ctrl[use[u].source]
  PROVE  Pinned(u)'
<1>1. \A a : ReachesPast(u, a)' <=> ReachesPast(u, a)
  BY DEF ReachesPast
<1>2. \A a : Reaches(u, a)' <=> Reaches(u, a)
  BY DEF Reaches
<1> QED
  BY <1>1, <1>2 DEF Pinned, Exists

\* The Arc objects an operation still has to reach something through.
Needs(u) ==
  use[u].via \union
  (IF Final(work[u]).do \in {"retain", "swing", "use", "take"} THEN {use[u].source} ELSE {})

LEMMA NeedsRead ==
  ASSUME TypeOK, OperationsFit, NEW u \in Threads
  PROVE  Needs(u) \subseteq Arcs /\ Needs(u) \subseteq Reads(u)
<1>1. use[u].via \subseteq Arcs
  BY Constants DEF TypeOK, Uses
<1>2. Final(work[u]).do \in {"retain", "swing", "use", "take"} => use[u].source \in Arcs
  BY DEF OperationsFit, Suits
<1> QED
  BY <1>1, <1>2 DEF Needs, Reads

\* Others keep their way to what they use.
LEMMA OthersPinned ==
  ASSUME TypeOK, OperationsFit, \A u \in Threads : Pinned(u),
         NEW t \in Threads,
         \A u \in Threads \ {t} : work'[u] = work[u] /\ use'[u] = use[u],
         \A u \in Threads \ {t} : \A a \in Needs(u) : ctrl'[a] = ctrl[a]
  PROVE  \A u \in Threads \ {t} : Pinned(u)'
<1> SUFFICES ASSUME NEW u \in Threads \ {t} PROVE Pinned(u)'
  OBVIOUS
<1>1. \A v \in use[u].via : ctrl'[v] = ctrl[v]
  BY DEF Needs
<1>2. Final(work[u]).do \in {"retain", "swing", "use", "take"} =>
           ctrl'[use[u].source] = ctrl[use[u].source]
  BY DEF Needs
<1>3. use'[u] = use[u] /\ Final(work'[u]) = Final(work[u]) /\ Pinned(u)
  OBVIOUS
<1> QED
  BY <1>1, <1>2, <1>3, PinnedKept

\* What a step of t does to the references to b.
LEMMA Balance ==
  ASSUME NEW t \in Threads, NEW b,
         \A u \in Threads \ {t} : work'[u] = work[u]
  PROVE  Refs(b)' = Tally(Held', Arcs, b)
           + Tally(Letting, Threads, b) - One(Released(work[t]), b)
           + One(Released(work'[t]), b)
           + Tally(Storing, Threads, b) - One(Stored(work[t]), b)
           + One(Stored(work'[t]), b)
<1>1. Tally(Letting', Threads, b) = Tally(Letting, Threads, b) - One(Letting[t], b) + One(Letting'[t], b)
  <2>1. Alike(Letting, Letting', Threads \ {t}, b)
    BY DEF Letting, Alike
  <2>2. IsFiniteSet(Threads)
    BY Finite
  <2> QED
    BY <2>1, <2>2, Recount
<1>2. Tally(Storing', Threads, b) = Tally(Storing, Threads, b) - One(Storing[t], b) + One(Storing'[t], b)
  <2>1. Alike(Storing, Storing', Threads \ {t}, b)
    BY DEF Storing, Alike
  <2>2. IsFiniteSet(Threads)
    BY Finite
  <2> QED
    BY <2>1, <2>2, Recount
<1>3. Letting[t] = Released(work[t]) /\ Letting'[t] = Released(work'[t])
      /\ Storing[t] = Stored(work[t]) /\ Storing'[t] = Stored(work'[t])
  BY DEF Letting, Storing
<1>4. Refs(b)' = Tally(Held', Arcs, b) + Tally(Letting', Threads, b) + Tally(Storing', Threads, b)
  BY DEF Refs
<1>5. Tally(Held', Arcs, b) \in Nat
  BY TallyFacts, Finite
<1> QED
  BY <1>1, <1>2, <1>3, <1>4, <1>5, RefsFacts DEF One

\* Nothing that refers to b changed.
LEMMA SameRefs ==
  ASSUME NEW t \in Threads, NEW b,
         \A u \in Threads \ {t} : work'[u] = work[u],
         \A a \in Arcs : Held'[a] = Held[a],
         Released(work'[t]) = Released(work[t]), Stored(work'[t]) = Stored(work[t])
  PROVE  Refs(b)' = Refs(b)
<1>1. Tally(Held', Arcs, b) = Tally(Held, Arcs, b)
  <2>1. Alike(Held, Held', Arcs, b)
    BY DEF Alike
  <2> QED
    BY <2>1, SameCount
<1> QED
  BY <1>1, Balance, RefsFacts DEF Refs, One

\* The references of an operation that is about to replace nothing.
LEMMA Quiet ==
  ASSUME NEW w, Final(w).do \notin {"store", "take"}
  PROVE  Stored(w) = Null /\ \A a : ~Replaces(w, a)
BY DEF Stored, Replaces

LEMMA Idle == /\ Final(<<>>) = NoStep /\ Final(<<>>).do = "none" /\ Released(<<>>) = Null
              /\ Frees(<<>>) = {} /\ Formed(<<>>) /\ <<>> \in Seq(Steps)
              /\ \A u : Suits(NoStep, u)
BY DEF Final, NoStep, Step, Released, First, Frees, Formed, Suits

\* An assignment to a begins: the reference a holds becomes the release ahead.
LEMMA Assigning ==
  ASSUME OperationsFit, NEW t \in Threads, NEW a \in Arcs,
         \A u \in Threads \ {t} : a \notin Writes(u),
         \A u \in Threads \ {t} : work'[u] = work[u],
         Final(work[t]).do \notin {"store", "take"}, Released(work[t]) = Null,
         Final(work'[t]).do \in {"store", "take"}, Final(work'[t]).arc = a,
         Released(work'[t]) = IF ctrl[a] \in Blocks THEN ctrl[a] ELSE Null,
         ctrl' = ctrl, NEW b \in Blocks
  PROVE  Refs(b)' = Refs(b) + One(Stored(work'[t]), b)
<1>1. \A c : ~Replaces(work[t], c) /\ (Replaces(work'[t], c) <=> c = a)
  BY DEF Replaces
<1>2. Held[a] = ctrl[a] /\ Held'[a] = Null
  <2>1. Held[a] = IF Replaces(work[t], a) THEN Null ELSE ctrl[a]
    BY HeldAt
  <2>2. Held'[a] = IF Replaces(work'[t], a) THEN Null ELSE ctrl'[a]
    BY HeldAtNext
  <2> QED
    BY <1>1, <2>1, <2>2
<1>3. Alike(Held, Held', Arcs \ {a}, b)
  <2>1. ASSUME NEW c \in Arcs \ {a} PROVE Held'[c] = Held[c]
    BY <1>1, HeldSame
  <2> QED
    BY <2>1 DEF Alike
<1>4. Tally(Held', Arcs, b) = Tally(Held, Arcs, b) - One(Held[a], b) + One(Held'[a], b)
  BY <1>3, Finite, Recount
<1>5. Stored(work[t]) = Null
  BY Quiet
<1>6. Null # b
  BY Constants
<1>7. One(Released(work'[t]), b) = One(Held[a], b)
  BY <1>2, <1>6 DEF One
<1>8. One(Null, b) = 0
  BY <1>6 DEF One
<1>9. \A x : One(x, b) \in Nat
  BY DEF One
<1>10. Refs(b)' = Tally(Held', Arcs, b)
           + Tally(Letting, Threads, b) - One(Released(work[t]), b)
           + One(Released(work'[t]), b)
           + Tally(Storing, Threads, b) - One(Stored(work[t]), b)
           + One(Stored(work'[t]), b)
  BY Balance
<1>11. Refs(b)' = (Tally(Held, Arcs, b) - One(Held[a], b) + 0)
           + Tally(Letting, Threads, b) - 0 + One(Held[a], b)
           + Tally(Storing, Threads, b) - 0 + One(Stored(work'[t]), b)
  BY <1>2, <1>4, <1>5, <1>7, <1>8, <1>10
<1> QED
  BY <1>9, <1>11, RefsFacts DEF Refs

-----------------------------------------------------------------------------
(* Calls *)

Usage(a, s, moves, via) ==
  [target |-> a, source |-> s, moves |-> moves, via |-> via]

LEMMA Types ==
  ASSUME TypeOK
  PROVE  /\ count \in [Blocks -> 0 .. MaxCount] /\ phase \in [Blocks -> Phases]
         /\ ctrl \in [Arcs -> Blocks \union {Null, Absent}]
         /\ use \in [Threads -> Uses] /\ work \in [Threads -> Seq(Steps)]
         /\ outcome \in [Threads -> Outcomes] /\ calls \in [Threads -> 0 .. MaxCalls]
BY DEF TypeOK, Steps, Kinds

LEMMA TypesSuffice ==
  ASSUME count \in [Blocks -> 0 .. MaxCount], phase \in [Blocks -> Phases],
         ctrl \in [Arcs -> Blocks \union {Null, Absent}],
         use \in [Threads -> Uses], work \in [Threads -> Seq(Steps)],
         outcome \in [Threads -> Outcomes], calls \in [Threads -> 0 .. MaxCalls]
  PROVE  TypeOK
BY DEF TypeOK, Steps, Kinds

\* The way to an Arc in a payload is a local nobody writes.
LEMMA RoutesReach ==
  ASSUME NEW t \in Threads, NEW a \in Arcs, NEW p \in Routes(t, a)
  PROVE  /\ p \subseteq Locals /\ \A v \in p : Readable(t, v)
         /\ a \in Locals \/ \E v \in p : ctrl[v] = Home[a] /\ v # a
BY Constants DEF Routes

LEMMA Starting ==
  ASSUME TypeOK, NEW t \in Threads, Start(t)
  PROVE  work[t] = <<>> /\ calls' \in [Threads -> 0 .. MaxCalls]
BY Types, CountAssumption DEF Start, Busy

Unwritten(t, p) == \A v \in p : Readable(t, v)

Began(t, a, s, moves, p, steps) ==
  /\ TypeOK' /\ OperationsFit' /\ Exclusive' /\ FreesFit'
  /\ work[t] = <<>> /\ work'[t] = steps
  /\ use'[t] = Usage(a, s, moves, p)
  /\ \A u \in Threads \ {t} : work'[u] = work[u] /\ use'[u] = use[u]
  /\ \A u \in Threads \ {t} : a \notin Writes(u) /\ a \notin Reads(u)
  /\ moves = TRUE /\ s # Null =>
       \A u \in Threads \ {t} : s \notin Writes(u) /\ s \notin Reads(u)
  /\ a \in Locals \/ Exists(a)
  /\ count' = count /\ phase' = phase

\* An operation starts: everything but what it will replace.
LEMMA Operating ==
  ASSUME Inv, NEW t \in Threads, NEW a \in Arcs, NEW s \in Arcs \union {Null},
         NEW moves, NEW p, NEW steps,
         steps \in Seq(Steps), Formed(steps), Frees(steps) = {},
         Usage(a, s, moves, p) \in Uses,
         Suits(Final(steps), Usage(a, s, moves, p)),
         Unwritten(t, p),
         Operate(t, a, s, moves, p, steps),
         ctrl' \in [Arcs -> Blocks \union {Null, Absent}]
  PROVE  Began(t, a, s, moves, p, steps)
<1>0. moves \in BOOLEAN /\ p \in SUBSET Locals
  BY DEF Usage, Uses
<1>1. /\ TypeOK /\ OperationsFit /\ Exclusive /\ FreesFit
  BY DEF Inv
<1>2. /\ Start(t) /\ (a \in Locals \/ Exists(a))
      /\ Writable(t, a) /\ (IF moves THEN Writable(t, s) ELSE Readable(t, s))
      /\ use' = [use EXCEPT ![t] = Usage(a, s, moves, p)]
      /\ work' = [work EXCEPT ![t] = steps]
      /\ outcome' = [outcome EXCEPT ![t] = "ok"]
      /\ count' = count /\ phase' = phase
  BY DEF Operate, Report, Usage
<1>3. /\ use \in [Threads -> Uses] /\ work \in [Threads -> Seq(Steps)]
      /\ outcome \in [Threads -> Outcomes]
      /\ count \in [Blocks -> 0 .. MaxCount] /\ phase \in [Blocks -> Phases]
  BY <1>1, Types
<1>4. /\ work'[t] = steps /\ use'[t] = Usage(a, s, moves, p)
      /\ \A u \in Threads \ {t} : work'[u] = work[u] /\ use'[u] = use[u]
  BY <1>2, <1>3
<1>5. work[t] = <<>> /\ calls' \in [Threads -> 0 .. MaxCalls]
  BY <1>1, <1>2, Starting
<1>6. TypeOK'
  <2>1. use' \in [Threads -> Uses]
    BY <1>2, <1>3
  <2>2. work' \in [Threads -> Seq(Steps)]
    BY <1>2, <1>3
  <2>3. outcome' \in [Threads -> Outcomes]
    BY <1>2, <1>3 DEF Outcomes
  <2>4. count' \in [Blocks -> 0 .. MaxCount] /\ phase' \in [Blocks -> Phases]
    BY <1>2, <1>3
  <2> QED
    BY <1>5, <2>1, <2>2, <2>3, <2>4 DEF TypeOK, Steps, Kinds
<1>7. OperationsFit'
  BY <1>1, <1>4, OperationsFitFrame
<1>8. Exclusive'
  <2>1. use'[t] = [target |-> a, source |-> s, moves |-> moves, via |-> p]
    BY <1>4 DEF Usage
  <2> QED
    BY <1>0, <1>1, <1>2, <1>4, <2>1, ExclusiveBegin DEF Unwritten
<1>9. FreesFit'
  <2>1. \A u \in Threads \ {t} : work'[u] = work[u]
    BY <1>4
  <2>2. Frees(work'[t]) \subseteq Frees(work[t])
    BY <1>4
  <2>3. \A b \in Blocks : phase'[b] # phase[b] =>
           b \notin Frees(work'[t]) /\ \A u \in Threads \ {t} : b \notin Frees(work[u])
    BY <1>2
  <2>4. \A u \in Threads : Frees(work[u]) \subseteq Blocks
    BY <1>1, FreesBlocks
  <2> QED
    BY <1>1, <2>1, <2>2, <2>3, <2>4, FreesFrame
<1>10. \A u \in Threads \ {t} : a \notin Writes(u) /\ a \notin Reads(u)
  BY <1>2 DEF Writable
<1>11. moves = TRUE /\ s # Null =>
              \A u \in Threads \ {t} : s \notin Writes(u) /\ s \notin Reads(u)
  BY <1>2 DEF Writable
<1> QED
  BY <1>2, <1>4, <1>5, <1>6, <1>7, <1>8, <1>9, <1>10, <1>11 DEF Began

\* A call that leaves the pointers alone keeps the members and everybody's pins
\* but its own; and if it keeps all references, the ledger.
LEMMA CallKeeps ==
  ASSUME Inv, NEW t \in Threads,
         \A u \in Threads \ {t} : work'[u] = work[u] /\ use'[u] = use[u],
         ctrl' = ctrl, count' = count, phase' = phase,
         Pinned(t)', \A b \in Blocks : Refs(b)' = Refs(b)
  PROVE  (\A u \in Threads : Pinned(u)') /\ MembersFit' /\ Ledger'
<1>1. \A u \in Threads \ {t} : Pinned(u)'
  <2>1. TypeOK /\ OperationsFit /\ \A u \in Threads : Pinned(u)
    BY DEF Inv
  <2>2. \A u \in Threads \ {t} : \A a \in Needs(u) : ctrl'[a] = ctrl[a]
    OBVIOUS
  <2> QED
    BY <2>1, <2>2, OthersPinned
<1>2. \A u \in Threads : Pinned(u)'
  BY <1>1
<1>3. MembersFit'
  BY DEF Inv, MembersFit, Exists
<1>4. Ledger'
  BY DEF Inv, Ledger
<1> QED
  BY <1>2, <1>3, <1>4

LEMMA StepKinds ==
  /\ \A b \in Blocks \union {Null, Absent} :
       /\ RetainOf(b) \in Steps /\ ReleaseOf(b) \in Steps /\ UseOf(b) \in Steps
       /\ \A a \in Arcs : StoreOf(a, b) \in Steps
  /\ \A a \in Arcs : TakeOf(a) \in Steps
  /\ \A b : /\ RetainOf(b).do = "retain" /\ RetainOf(b).block = b
            /\ RetainOf(b).observed = 0
            /\ ReleaseOf(b).do = "release" /\ ReleaseOf(b).block = b
            /\ UseOf(b).do = "use" /\ UseOf(b).block = b
            /\ \A a : /\ StoreOf(a, b).do = "store" /\ StoreOf(a, b).block = b
                      /\ StoreOf(a, b).arc = a
  /\ \A a : TakeOf(a).do = "take" /\ TakeOf(a).arc = a
BY Constants DEF Steps, Kinds, RetainOf, ReleaseOf, UseOf, StoreOf, TakeOf, Step

\* The steps of an assignment of x to a.
LEMMA AssignFormed ==
  ASSUME NEW a \in Arcs, NEW x \in Blocks \union {Null, Absent}
  PROVE  /\ Assign(a, x) \in Seq(Steps) /\ Assign(a, x) # <<>> /\ Formed(Assign(a, x))
         /\ Released(Assign(a, x)) = IF ctrl[a] \in Blocks THEN ctrl[a] ELSE Null
         /\ Final(Assign(a, x)) = StoreOf(a, x) /\ Stored(Assign(a, x)) = x
         /\ Frees(Assign(a, x)) = {}
<1>1. StoreOf(a, x) \in Steps /\ StoreOf(a, x).do = "store" /\ StoreOf(a, x).block = x
  BY StepKinds
<1>2. LET v == (IF ctrl[a] \in Blocks THEN <<ReleaseOf(ctrl[a])>> ELSE <<>>)
                  \o <<StoreOf(a, x)>>
      IN /\ v \in Seq(Steps) /\ v # <<>> /\ Formed(v)
         /\ Released(v) = IF ctrl[a] \in Blocks THEN ctrl[a] ELSE Null
         /\ Final(v) = StoreOf(a, x) /\ Frees(v) = {}
  BY <1>1, BeginFormed
<1> QED
  BY <1>1, <1>2 DEF Assign, Stored

LEMMA CopyStep ==
  ASSUME Inv, NEW t \in Threads, Copy(t)
  PROVE  Inv'
<1>1. TypeOK /\ OperationsFit /\ ctrl \in [Arcs -> Blocks \union {Null, Absent}]
  BY Types DEF Inv
<1>a. PICK a, s \in Arcs : \E p \in Routes(t, a), q \in Routes(t, s) :
        /\ a # s /\ Exists(s)
        /\ Operate(t, a, s, FALSE, p \union q,
             IF ctrl[s] \in Blocks THEN <<RetainOf(ctrl[s])>> ELSE Assign(a, Null))
        /\ ctrl' = ctrl
  BY DEF Copy
<1>2. PICK p \in Routes(t, a), q \in Routes(t, s) :
        /\ a # s /\ Exists(s)
        /\ Operate(t, a, s, FALSE, p \union q,
             IF ctrl[s] \in Blocks THEN <<RetainOf(ctrl[s])>> ELSE Assign(a, Null))
        /\ ctrl' = ctrl
  BY <1>a
<1> DEFINE via == p \union q
<1>3. /\ via \in SUBSET Locals /\ \A v \in via : Readable(t, v)
      /\ a \in Locals \/ \E v \in via : ctrl[v] = Home[a] /\ v # a
      /\ s \in Locals \/ \E v \in via : ctrl[v] = Home[s]
  BY RoutesReach
<1> HIDE DEF via
<1>4. PICK w : w = IF ctrl[s] \in Blocks THEN <<RetainOf(ctrl[s])>> ELSE Assign(a, Null)
  OBVIOUS
<1>5. Operate(t, a, s, FALSE, via, w)
  BY <1>2, <1>4 DEF via
<1>6. /\ w \in Seq(Steps) /\ Formed(w) /\ Frees(w) = {}
      /\ Suits(Final(w), Usage(a, s, FALSE, via))
      /\ ctrl[s] \in Blocks =>
           Final(w) = RetainOf(ctrl[s]) /\ Released(w) = Null
      /\ ctrl[s] \notin Blocks =>
           /\ Final(w) = StoreOf(a, Null) /\ Stored(w) = Null
           /\ Released(w) = IF ctrl[a] \in Blocks THEN ctrl[a] ELSE Null
  <2>1. CASE ctrl[s] \in Blocks
    <3>1. /\ RetainOf(ctrl[s]) \in Steps /\ RetainOf(ctrl[s]).do = "retain"
          /\ RetainOf(ctrl[s]).block = ctrl[s] /\ RetainOf(ctrl[s]).observed = 0
      BY <2>1, StepKinds
    <3>2. /\ w \in Seq(Steps) /\ Formed(w) /\ Frees(w) = {}
          /\ First(w) = RetainOf(ctrl[s]) /\ Final(w) = RetainOf(ctrl[s])
      BY <1>4, <2>1, <3>1, OneFormed
    <3> QED
      BY <2>1, <3>1, <3>2, Constants DEF Suits, Usage, Released
  <2>2. CASE ctrl[s] \notin Blocks
    <3>1. /\ w \in Seq(Steps) /\ Formed(w) /\ Frees(w) = {}
          /\ Released(w) = IF ctrl[a] \in Blocks THEN ctrl[a] ELSE Null
          /\ Final(w) = StoreOf(a, Null) /\ Stored(w) = Null
      BY <1>4, <2>2, AssignFormed
    <3>2. /\ StoreOf(a, Null).do = "store" /\ StoreOf(a, Null).block = Null
          /\ StoreOf(a, Null).arc = a
      BY StepKinds
    <3> QED
      BY <2>2, <3>1, <3>2, Constants DEF Suits, Usage
  <2> QED
    BY <2>1, <2>2
<1>7. /\ TypeOK' /\ OperationsFit' /\ Exclusive' /\ FreesFit'
      /\ work[t] = <<>> /\ work'[t] = w
      /\ use'[t] = Usage(a, s, FALSE, via)
      /\ \A u \in Threads \ {t} : work'[u] = work[u] /\ use'[u] = use[u]
      /\ \A u \in Threads \ {t} : a \notin Writes(u) /\ a \notin Reads(u)
      /\ count' = count /\ phase' = phase
  <2>1. ctrl' \in [Arcs -> Blocks \union {Null, Absent}]
    BY <1>1, <1>2
  <2>2. Unwritten(t, via)
    BY <1>3 DEF Unwritten
  <2>3. Usage(a, s, FALSE, via) \in Uses
    BY <1>3 DEF Usage, Uses
  <2>4. Began(t, a, s, FALSE, via, w)
    BY <1>5, <1>6, <2>1, <2>2, <2>3, Operating
  <2> QED
    BY <2>4 DEF Began
<1>8. /\ Final(work[t]).do \notin {"store", "take"} /\ Released(work[t]) = Null
      /\ Stored(work[t]) = Null
  BY <1>7, Idle, Quiet
<1>9. Pinned(t)'
  <2>1. a \in Arcs /\ (a \in Locals \/ \E v \in via : ctrl'[v] = Home[a] /\ v # a)
    BY <1>2, <1>3
  <2>2. s \in Locals \/ \E v \in via : ctrl'[v] = Home[s]
    BY <1>2, <1>3
  <2>3. /\ use'[t].target = a /\ use'[t].source = s /\ use'[t].via = via
    BY <1>7 DEF Usage
  <2>4. ReachesPast(t, use[t].target)'
    BY <2>1, <2>3 DEF ReachesPast
  <2>5. Reaches(t, use[t].source)'
    BY <2>2, <2>3 DEF Reaches
  <2>6. Final(work'[t]).do = "retain" => ctrl'[use'[t].source] = Final(work'[t]).block
    <3>1. CASE ctrl[s] \in Blocks
      BY <1>2, <1>6, <1>7, <2>3, <3>1, StepKinds
    <3>2. CASE ctrl[s] \notin Blocks
      BY <1>6, <1>7, <3>2, StepKinds
    <3> QED
      BY <3>1, <3>2
  <2>7. Final(work'[t]).do \in {"retain", "store"}
    BY <1>6, <1>7, StepKinds
  <2> QED
    BY <2>4, <2>5, <2>6, <2>7 DEF Pinned
<1>10. ASSUME NEW b \in Blocks PROVE Refs(b)' = Refs(b)
  <2>1. CASE ctrl[s] \in Blocks
    <3>1. Final(work'[t]).do \notin {"store", "take"} /\ Released(work'[t]) = Null
      BY <1>6, <1>7, <2>1, StepKinds
    <3>2. Stored(work'[t]) = Null /\ \A c : ~Replaces(work'[t], c) /\ ~Replaces(work[t], c)
      BY <1>8, <3>1, Quiet
    <3>3. \A c \in Arcs : Held'[c] = Held[c]
      BY <1>2, <1>7, <3>2, HeldSame
    <3> QED
      BY <1>7, <1>8, <3>1, <3>2, <3>3, SameRefs
  <2>2. CASE ctrl[s] \notin Blocks
    <3>1. /\ Final(work'[t]).do \in {"store", "take"} /\ Final(work'[t]).arc = a
          /\ Released(work'[t]) = IF ctrl[a] \in Blocks THEN ctrl[a] ELSE Null
          /\ Stored(work'[t]) = Null
      BY <1>6, <1>7, <2>2, StepKinds
    <3>2. Refs(b)' = Refs(b) + One(Stored(work'[t]), b)
      BY <1>1, <1>2, <1>7, <1>8, <3>1, Assigning
    <3> QED
      BY <3>1, <3>2, RefsFacts, Constants DEF One
  <2> QED
    BY <2>1, <2>2
<1>11. (\A u \in Threads : Pinned(u)') /\ MembersFit' /\ Ledger'
  BY <1>2, <1>7, <1>9, <1>10, CallKeeps
<1> QED
  BY <1>7, <1>11 DEF Inv

\* A call starts an assignment to a that stores no reference.
LEMMA AssigningCall ==
  ASSUME Inv, NEW t \in Threads, NEW a \in Arcs, NEW s, NEW moves, NEW p, NEW w,
         Began(t, a, s, moves, p, w), ctrl' = ctrl,
         Final(w).do \in {"store", "take"}, Final(w).arc = a,
         Released(w) = IF ctrl[a] \in Blocks THEN ctrl[a] ELSE Null,
         Stored(w) \notin Blocks, Pinned(t)'
  PROVE  Inv'
<1>1. /\ TypeOK' /\ OperationsFit' /\ Exclusive' /\ FreesFit'
      /\ work[t] = <<>> /\ work'[t] = w
      /\ \A u \in Threads \ {t} : work'[u] = work[u] /\ use'[u] = use[u]
      /\ \A u \in Threads \ {t} : a \notin Writes(u)
      /\ count' = count /\ phase' = phase
  BY DEF Began
<1>2. Final(work[t]).do \notin {"store", "take"} /\ Released(work[t]) = Null
  BY <1>1, Idle
<1>3. ASSUME NEW b \in Blocks PROVE Refs(b)' = Refs(b)
  <2>1. OperationsFit
    BY DEF Inv
  <2>2. /\ Final(work'[t]).do \in {"store", "take"} /\ Final(work'[t]).arc = a
        /\ Released(work'[t]) = IF ctrl[a] \in Blocks THEN ctrl[a] ELSE Null
    BY <1>1
  <2>3. Refs(b)' = Refs(b) + One(Stored(work'[t]), b)
    BY <1>1, <1>2, <2>1, <2>2, Assigning
  <2>4. One(Stored(work'[t]), b) = 0
    BY <1>1 DEF One
  <2> QED
    BY <2>3, <2>4, RefsFacts
<1>4. (\A u \in Threads : Pinned(u)') /\ MembersFit' /\ Ledger'
  BY <1>1, <1>3, CallKeeps
<1> QED
  BY <1>1, <1>4 DEF Inv

LEMMA MoveStep ==
  ASSUME Inv, ~MovesOutOfTarget, NEW t \in Threads, Move(t)
  PROVE  Inv'
<1>1. ctrl \in [Arcs -> Blocks \union {Null, Absent}]
  BY Types DEF Inv
<1>2. PICK a, s \in Arcs : \E p \in Routes(t, a), q \in Routes(t, s) :
        /\ a # s /\ Exists(s) /\ (a \in q => MovesOutOfTarget)
        /\ Operate(t, a, s, TRUE, p \union q,
             (IF ctrl[a] \in Blocks THEN <<ReleaseOf(ctrl[a])>> ELSE <<>>)
               \o <<TakeOf(a)>>)
        /\ ctrl' = ctrl
  BY DEF Move
<1>3. PICK p \in Routes(t, a), q \in Routes(t, s) :
        /\ a # s /\ Exists(s) /\ a \notin q
        /\ Operate(t, a, s, TRUE, p \union q,
             (IF ctrl[a] \in Blocks THEN <<ReleaseOf(ctrl[a])>> ELSE <<>>)
               \o <<TakeOf(a)>>)
        /\ ctrl' = ctrl
  BY <1>2
<1> DEFINE via == p \union q
<1>4. /\ via \in SUBSET Locals /\ Unwritten(t, via)
      /\ a \in Locals \/ \E v \in via : ctrl[v] = Home[a] /\ v # a
      /\ s \in Locals \/ \E v \in via : ctrl[v] = Home[s] /\ v # a
  BY <1>3, RoutesReach DEF Unwritten
<1> HIDE DEF via
<1>5. PICK w : w = (IF ctrl[a] \in Blocks THEN <<ReleaseOf(ctrl[a])>> ELSE <<>>)
                     \o <<TakeOf(a)>>
  OBVIOUS
<1>6. Operate(t, a, s, TRUE, via, w)
  BY <1>3, <1>5 DEF via
<1>7. TakeOf(a) \in Steps /\ TakeOf(a).do = "take" /\ TakeOf(a).arc = a
  BY StepKinds
<1>8. /\ w \in Seq(Steps) /\ Formed(w) /\ Frees(w) = {} /\ Final(w) = TakeOf(a)
      /\ Released(w) = IF ctrl[a] \in Blocks THEN ctrl[a] ELSE Null
  <2>1. LET v == (IF ctrl[a] \in Blocks THEN <<ReleaseOf(ctrl[a])>> ELSE <<>>)
                   \o <<TakeOf(a)>>
        IN /\ v \in Seq(Steps) /\ v # <<>> /\ Formed(v)
           /\ Released(v) = IF ctrl[a] \in Blocks THEN ctrl[a] ELSE Null
           /\ Final(v) = TakeOf(a) /\ Frees(v) = {}
    BY <1>7, BeginFormed
  <2> QED
    BY <1>5, <2>1
<1>9. Stored(w) \notin Blocks
  BY <1>7, <1>8, Constants DEF Stored
<1>10. Suits(Final(w), Usage(a, s, TRUE, via))
  BY <1>3, <1>7, <1>8 DEF Suits, Usage
<1>11. Began(t, a, s, TRUE, via, w)
  <2>1. ctrl' \in [Arcs -> Blocks \union {Null, Absent}]
    BY <1>1, <1>3
  <2>2. Usage(a, s, TRUE, via) \in Uses /\ s \in Arcs \union {Null}
    BY <1>4 DEF Usage, Uses
  <2> QED
    BY <1>4, <1>6, <1>8, <1>10, <2>1, <2>2, Operating
<1>12. Pinned(t)'
  <2>1. use'[t].target = a /\ use'[t].source = s /\ use'[t].via = via /\ work'[t] = w
    BY <1>11 DEF Began, Usage
  <2>2. ReachesPast(t, use[t].target)'
    BY <1>3, <1>4, <2>1 DEF ReachesPast
  <2>3. ReachesPast(t, use[t].source)'
    BY <1>3, <1>4, <2>1 DEF ReachesPast
  <2>4. Exists(use[t].source)'
    BY <1>3, <2>1 DEF Exists
  <2>5. Final(work'[t]).do = "take"
    BY <1>7, <1>8, <2>1
  <2> QED
    BY <2>2, <2>3, <2>4, <2>5 DEF Pinned
<1>13. Final(w).do \in {"store", "take"} /\ Final(w).arc = a /\ ctrl' = ctrl
  BY <1>3, <1>7, <1>8
<1> QED
  BY <1>8, <1>9, <1>11, <1>12, <1>13, AssigningCall

LEMMA DropStep ==
  ASSUME Inv, NEW t \in Threads, Drop(t)
  PROVE  Inv'
<1>1. ctrl \in [Arcs -> Blocks \union {Null, Absent}]
  BY Types DEF Inv
<1>2. PICK a \in Locals :
        Operate(t, a, Null, FALSE, {}, Assign(a, Absent)) /\ ctrl' = ctrl
  BY DEF Drop
<1>3. PICK w : w = Assign(a, Absent)
  OBVIOUS
<1>4. a \in Arcs
  BY Constants
<1>5. /\ w \in Seq(Steps) /\ Formed(w) /\ Frees(w) = {} /\ Final(w) = StoreOf(a, Absent)
      /\ Released(w) = IF ctrl[a] \in Blocks THEN ctrl[a] ELSE Null
      /\ Stored(w) = Absent
  BY <1>3, <1>4, AssignFormed
<1>6. /\ StoreOf(a, Absent).do = "store" /\ StoreOf(a, Absent).arc = a
      /\ StoreOf(a, Absent).block = Absent
  BY StepKinds
<1>7. Suits(Final(w), Usage(a, Null, FALSE, {}))
  BY <1>4, <1>5, <1>6 DEF Suits, Usage
<1>8. Began(t, a, Null, FALSE, {}, w)
  <2>1. ctrl' \in [Arcs -> Blocks \union {Null, Absent}]
    BY <1>1, <1>2
  <2>2. Usage(a, Null, FALSE, {}) \in Uses /\ Null \in Arcs \union {Null}
    BY <1>4 DEF Usage, Uses
  <2>3. Unwritten(t, {}) /\ Operate(t, a, Null, FALSE, {}, w)
    BY <1>2, <1>3 DEF Unwritten
  <2> QED
    BY <1>4, <1>5, <1>7, <2>1, <2>2, <2>3, Operating
<1>9. Pinned(t)'
  <2>1. use'[t].target = a /\ work'[t] = w
    BY <1>8 DEF Began, Usage
  <2>2. ReachesPast(t, use[t].target)'
    BY <2>1 DEF ReachesPast
  <2>3. Final(work'[t]).do = "store"
    BY <1>5, <1>6, <2>1
  <2> QED
    BY <2>2, <2>3 DEF Pinned
<1>10. Final(w).do \in {"store", "take"} /\ Final(w).arc = a /\ Stored(w) \notin Blocks
  BY <1>5, <1>6, Constants
<1>11. Released(w) = IF ctrl[a] \in Blocks THEN ctrl[a] ELSE Null
  BY <1>5
<1> QED
  BY <1>2, <1>4, <1>8, <1>9, <1>10, <1>11, AssigningCall

LEMMA ResetStep ==
  ASSUME Inv, NEW t \in Threads, Reset(t)
  PROVE  Inv'
<1>1. /\ TypeOK /\ OperationsFit /\ MembersFit /\ Ledger
      /\ ctrl \in [Arcs -> Blocks \union {Null, Absent}]
      /\ \A u \in Threads : Pinned(u)
  BY Types DEF Inv
<1>2. PICK a \in Arcs : \E p \in Routes(t, a) :
        /\ ctrl[a] \in Blocks
        /\ Operate(t, a, Null, FALSE, p, <<ReleaseOf(ctrl[a])>>)
        /\ ctrl' = [ctrl EXCEPT ![a] = Null]
  BY DEF Reset
<1>3. PICK p \in Routes(t, a) :
        /\ ctrl[a] \in Blocks
        /\ Operate(t, a, Null, FALSE, p, <<ReleaseOf(ctrl[a])>>)
        /\ ctrl' = [ctrl EXCEPT ![a] = Null]
  BY <1>2
<1>4. PICK w : w = <<ReleaseOf(ctrl[a])>>
  OBVIOUS
<1>5. /\ w \in Seq(Steps) /\ Formed(w) /\ Frees(w) = {}
      /\ Final(w).do = "release" /\ Released(w) = ctrl[a]
  <2>1. /\ ReleaseOf(ctrl[a]) \in Steps /\ ReleaseOf(ctrl[a]).do = "release"
        /\ ReleaseOf(ctrl[a]).block = ctrl[a]
    BY <1>3, StepKinds
  <2>2. /\ w \in Seq(Steps) /\ Formed(w) /\ Frees(w) = {}
        /\ First(w) = ReleaseOf(ctrl[a]) /\ Final(w) = ReleaseOf(ctrl[a])
    BY <1>3, <1>4, <2>1, OneFormed
  <2> QED
    BY <2>1, <2>2 DEF Released
<1>6. p \in SUBSET Locals /\ Unwritten(t, p)
  BY RoutesReach DEF Unwritten
<1>7. Began(t, a, Null, FALSE, p, w)
  <2>1. ctrl' \in [Arcs -> Blocks \union {Null, Absent}]
    BY <1>1, <1>3
  <2>2. Usage(a, Null, FALSE, p) \in Uses /\ Null \in Arcs \union {Null}
    BY <1>6 DEF Usage, Uses
  <2>3. Operate(t, a, Null, FALSE, p, w)
    BY <1>3, <1>4
  <2>4. Suits(Final(w), Usage(a, Null, FALSE, p))
    BY <1>5 DEF Suits
  <2> QED
    BY <1>5, <1>6, <2>1, <2>2, <2>3, <2>4, Operating
<1>8. /\ TypeOK' /\ OperationsFit' /\ Exclusive' /\ FreesFit'
      /\ work[t] = <<>> /\ work'[t] = w
      /\ \A u \in Threads \ {t} : work'[u] = work[u] /\ use'[u] = use[u]
      /\ \A u \in Threads \ {t} : a \notin Writes(u) /\ a \notin Reads(u)
      /\ count' = count /\ phase' = phase
  BY <1>7 DEF Began
<1>9. ctrl'[a] = Null /\ \A c \in Arcs \ {a} : ctrl'[c] = ctrl[c]
  BY <1>1, <1>3
<1>10. \A u \in Threads : Pinned(u)'
  <2>1. \A u \in Threads \ {t} : \A c \in Needs(u) : ctrl'[c] = ctrl[c]
    BY <1>1, <1>8, <1>9, NeedsRead
  <2>2. \A u \in Threads \ {t} : Pinned(u)'
    BY <1>1, <1>8, <2>1, OthersPinned
  <2>3. Pinned(t)'
    BY <1>5, <1>8 DEF Pinned
  <2> QED
    BY <2>2, <2>3
<1>11. MembersFit'
  <2>1. \A m \in Members : Exists(m)' <=> Exists(m)
    BY <1>3, <1>9, Constants DEF Exists
  <2> QED
    BY <1>1, <1>8, <2>1 DEF MembersFit
<1>12. ASSUME NEW b \in Blocks PROVE Refs(b)' = Refs(b)
  <2>1. /\ Released(work[t]) = Null /\ Stored(work[t]) = Null /\ Stored(work'[t]) = Null
        /\ Released(work'[t]) = ctrl[a]
        /\ \A c : ~Replaces(work[t], c) /\ ~Replaces(work'[t], c)
    BY <1>5, <1>8, Idle, Quiet
  <2>2. Held[a] = ctrl[a] /\ Held'[a] = Null
    BY <1>1, <1>8, <1>9, <2>1, HeldAt, HeldAtNext
  <2>3. Alike(Held, Held', Arcs \ {a}, b)
    <3>1. ASSUME NEW c \in Arcs \ {a} PROVE Held'[c] = Held[c]
      BY <1>8, <1>9, <2>1, HeldSame
    <3> QED
      BY <3>1 DEF Alike
  <2>4. Tally(Held', Arcs, b) = Tally(Held, Arcs, b) - One(Held[a], b) + One(Held'[a], b)
    BY <2>3, Finite, Recount
  <2>5. One(Null, b) = 0 /\ One(ctrl[a], b) \in Nat
    BY Constants DEF One
  <2>6. Refs(b)' = Tally(Held', Arcs, b)
           + Tally(Letting, Threads, b) - One(Released(work[t]), b)
           + One(Released(work'[t]), b)
           + Tally(Storing, Threads, b) - One(Stored(work[t]), b)
           + One(Stored(work'[t]), b)
    BY <1>8, Balance
  <2>7. Refs(b)' = (Tally(Held, Arcs, b) - One(ctrl[a], b) + 0)
           + Tally(Letting, Threads, b) - 0 + One(ctrl[a], b)
           + Tally(Storing, Threads, b) - 0 + 0
    BY <2>1, <2>2, <2>4, <2>5, <2>6
  <2> QED
    BY <2>5, <2>7, RefsFacts DEF Refs
<1>13. Ledger'
  BY <1>1, <1>8, <1>12 DEF Ledger
<1> QED
  BY <1>8, <1>10, <1>11, <1>13 DEF Inv

LEMMA DereferenceStep ==
  ASSUME Inv, NEW t \in Threads, Dereference(t)
  PROVE  Inv'
<1>1. /\ TypeOK /\ OperationsFit /\ Exclusive /\ FreesFit /\ MembersFit /\ Ledger
      /\ \A u \in Threads : Pinned(u)
  BY DEF Inv
<1>2. /\ ctrl \in [Arcs -> Blocks \union {Null, Absent}]
      /\ use \in [Threads -> Uses] /\ work \in [Threads -> Seq(Steps)]
      /\ outcome \in [Threads -> Outcomes]
      /\ count \in [Blocks -> 0 .. MaxCount] /\ phase \in [Blocks -> Phases]
  BY <1>1, Types
<1>3. PICK s \in Arcs : \E q \in Routes(t, s) :
        /\ Start(t) /\ Exists(s) /\ Readable(t, s)
        /\ IF ctrl[s] \in Blocks
           THEN /\ use' = [use EXCEPT ![t] = Usage(Null, s, FALSE, q)]
                /\ work' = [work EXCEPT ![t] = <<UseOf(ctrl[s])>>]
                /\ Report(t, "ok")
           ELSE Report(t, "null") /\ UNCHANGED <<use, work>>
        /\ UNCHANGED <<count, phase, ctrl>>
  BY DEF Dereference, Usage
<1>4. PICK q \in Routes(t, s) :
        /\ Start(t) /\ Exists(s) /\ Readable(t, s)
        /\ IF ctrl[s] \in Blocks
           THEN /\ use' = [use EXCEPT ![t] = Usage(Null, s, FALSE, q)]
                /\ work' = [work EXCEPT ![t] = <<UseOf(ctrl[s])>>]
                /\ Report(t, "ok")
           ELSE Report(t, "null") /\ UNCHANGED <<use, work>>
        /\ UNCHANGED <<count, phase, ctrl>>
  BY <1>3
<1>5. work[t] = <<>> /\ calls' \in [Threads -> 0 .. MaxCalls]
  BY <1>1, <1>4, Starting
<1>6. count' = count /\ phase' = phase /\ ctrl' = ctrl
  BY <1>4
<1>7. outcome' \in [Threads -> Outcomes]
  BY <1>2, <1>4 DEF Report, Outcomes
<1>8. q \in SUBSET Locals /\ (\A v \in q : Readable(t, v))
      /\ (s \in Locals \/ \E v \in q : ctrl[v] = Home[s])
  BY RoutesReach
<1>9. PICK w : w = IF ctrl[s] \in Blocks THEN <<UseOf(ctrl[s])>> ELSE <<>>
  OBVIOUS
<1>10. PICK n : n = IF ctrl[s] \in Blocks THEN Usage(Null, s, FALSE, q) ELSE use[t]
  OBVIOUS
<1>11. work' = [work EXCEPT ![t] = w] /\ use' = [use EXCEPT ![t] = n]
  <2>1. CASE ctrl[s] \in Blocks
    BY <1>4, <1>9, <1>10, <2>1
  <2>2. CASE ctrl[s] \notin Blocks
    BY <1>2, <1>4, <1>5, <1>9, <1>10, <2>2
  <2> QED
    BY <2>1, <2>2
<1>12. work'[t] = w /\ use'[t] = n
       /\ \A u \in Threads \ {t} : work'[u] = work[u] /\ use'[u] = use[u]
  BY <1>2, <1>11
<1>13. /\ w \in Seq(Steps) /\ Formed(w) /\ Frees(w) = {} /\ Released(w) = Null
       /\ Final(w).do \in {"none", "use"}
       /\ ctrl[s] \in Blocks => Final(w).do = "use" /\ Final(w).block = ctrl[s]
       /\ ctrl[s] \notin Blocks => Final(w).do = "none"
  <2>1. CASE ctrl[s] \in Blocks
    <3>1. /\ UseOf(ctrl[s]) \in Steps /\ UseOf(ctrl[s]).do = "use"
          /\ UseOf(ctrl[s]).block = ctrl[s]
      BY <2>1, StepKinds
    <3>2. /\ w \in Seq(Steps) /\ Formed(w) /\ Frees(w) = {}
          /\ First(w) = UseOf(ctrl[s]) /\ Final(w) = UseOf(ctrl[s])
      BY <1>9, <2>1, <3>1, OneFormed
    <3> QED
      BY <2>1, <3>1, <3>2 DEF Released
  <2>2. CASE ctrl[s] \notin Blocks
    BY <1>9, <2>2, Idle
  <2> QED
    BY <2>1, <2>2
<1>14. n \in Uses
  BY <1>2, <1>8, <1>10 DEF Usage, Uses
<1>15. TypeOK'
  <2>1. use' \in [Threads -> Uses] /\ work' \in [Threads -> Seq(Steps)]
    BY <1>2, <1>11, <1>13, <1>14
  <2> QED
    BY <1>2, <1>5, <1>6, <1>7, <2>1 DEF TypeOK, Steps, Kinds
<1>16. OperationsFit'
  <2>1. Suits(Final(w), n)
    <3>1. CASE ctrl[s] \in Blocks
      BY <1>10, <1>13, <3>1 DEF Suits, Usage
    <3>2. CASE ctrl[s] \notin Blocks
      BY <1>13, <3>2 DEF Suits
    <3> QED
      BY <3>1, <3>2
  <2>2. Formed(work'[t]) /\ Suits(Final(work'[t]), use'[t])
    BY <1>12, <1>13, <2>1
  <2> QED
    BY <1>1, <1>12, <2>2, OperationsFitFrame
<1>17. Exclusive'
  <2>1. CASE ctrl[s] \in Blocks
    <3>1. use'[t] = [target |-> Null, source |-> s, moves |-> FALSE, via |-> q]
      BY <1>10, <1>12, <2>1 DEF Usage
    <3>2. \A u \in Threads \ {t} : use'[u] = use[u]
      BY <1>12
    <3>3. Readable(t, s) /\ \A v \in q : Readable(t, v)
      BY <1>4, <1>8
    <3> QED
      BY <1>1, <3>1, <3>2, <3>3, ExclusiveBegin
  <2>2. CASE ctrl[s] \notin Blocks
    <3>1. use'[t] \in {use[t], NoUse}
      BY <1>10, <1>12, <2>2
    <3> QED
      BY <1>1, <1>12, <3>1, ExclusiveFrame
  <2> QED
    BY <2>1, <2>2
<1>18. FreesFit'
  <2>1. Frees(work'[t]) \subseteq Frees(work[t])
    BY <1>12, <1>13
  <2>2. \A b \in Blocks : phase'[b] # phase[b] =>
           b \notin Frees(work'[t]) /\ \A u \in Threads \ {t} : b \notin Frees(work[u])
    BY <1>6
  <2>3. \A u \in Threads : Frees(work[u]) \subseteq Blocks
    BY <1>1, FreesBlocks
  <2> QED
    BY <1>1, <1>12, <2>1, <2>2, <2>3, FreesFrame
<1>19. Pinned(t)'
  <2>1. CASE ctrl[s] \in Blocks
    <3>1. use'[t].source = s /\ use'[t].via = q
      BY <1>10, <1>12, <2>1 DEF Usage
    <3>2. Reaches(t, use[t].source)'
      BY <1>6, <1>8, <3>1 DEF Reaches
    <3> QED
      BY <1>6, <1>12, <1>13, <2>1, <3>1, <3>2 DEF Pinned
  <2>2. CASE ctrl[s] \notin Blocks
    BY <1>12, <1>13, <2>2 DEF Pinned
  <2> QED
    BY <2>1, <2>2
<1>20. ASSUME NEW b \in Blocks PROVE Refs(b)' = Refs(b)
  <2>1. /\ Released(work[t]) = Null /\ Stored(work[t]) = Null
        /\ Released(work'[t]) = Null /\ Stored(work'[t]) = Null
        /\ \A c : ~Replaces(work[t], c) /\ ~Replaces(work'[t], c)
    BY <1>5, <1>12, <1>13, Idle, Quiet
  <2>2. \A c \in Arcs : Held'[c] = Held[c]
    BY <1>6, <1>12, <2>1, HeldSame
  <2> QED
    BY <1>12, <2>1, <2>2, SameRefs
<1>21. (\A u \in Threads : Pinned(u)') /\ MembersFit' /\ Ledger'
  BY <1>6, <1>12, <1>19, <1>20, CallKeeps
<1> QED
  BY <1>15, <1>16, <1>17, <1>18, <1>21 DEF Inv

LEMMA ConstructStep ==
  ASSUME Inv, NEW t \in Threads, Construct(t)
  PROVE  Inv'
<1>1. /\ TypeOK /\ OperationsFit /\ Exclusive /\ FreesFit /\ MembersFit /\ Ledger
      /\ \A u \in Threads : Pinned(u)
  BY DEF Inv
<1>2. /\ ctrl \in [Arcs -> Blocks \union {Null, Absent}]
      /\ outcome \in [Threads -> Outcomes]
      /\ use \in [Threads -> Uses] /\ work \in [Threads -> Seq(Steps)]
      /\ count \in [Blocks -> 0 .. MaxCount] /\ phase \in [Blocks -> Phases]
  BY <1>1, Types
<1>3. PICK a \in Locals, b \in Blocks :
        /\ Start(t) /\ ~Exists(a) /\ Writable(t, a) /\ phase[b] = "fresh"
        /\ count' = [count EXCEPT ![b] = 1]
        /\ phase' = [phase EXCEPT ![b] = "live"]
        /\ ctrl' = [c \in Arcs |->
                      IF c = a THEN b
                      ELSE IF c \in Members /\ Home[c] = b THEN Null ELSE ctrl[c]]
        /\ Report(t, "ok")
        /\ UNCHANGED <<use, work>>
  BY DEF Construct
<1>4. work[t] = <<>> /\ calls' \in [Threads -> 0 .. MaxCalls]
  BY <1>1, <1>3, Starting
<1>5. work' = work /\ use' = use /\ a \in Arcs /\ a \notin Members /\ ctrl[a] = Absent
  BY <1>3, Constants DEF Exists
<1>6. TypeOK'
  <2>1. outcome' \in [Threads -> Outcomes]
    BY <1>2, <1>3 DEF Report, Outcomes
  <2>2. 1 \in 0 .. MaxCount
    BY Constants
  <2>3. count' \in [Blocks -> 0 .. MaxCount] /\ phase' \in [Blocks -> Phases]
    BY <1>2, <1>3, <2>2 DEF Phases
  <2>4. ctrl' \in [Arcs -> Blocks \union {Null, Absent}]
    BY <1>2, <1>3
  <2> QED
    BY <1>2, <1>4, <1>5, <2>1, <2>3, <2>4 DEF TypeOK, Steps, Kinds
<1>7. OperationsFit' /\ Exclusive'
  BY <1>1, <1>5 DEF OperationsFit, Exclusive, Writes, Reads
<1>8. \A d \in Blocks : phase'[d] = IF d = b THEN "live" ELSE phase[d]
  BY <1>2, <1>3
<1>9. FreesFit'
  <2>1. \A u \in Threads : b \notin Frees(work[u])
    BY <1>1, <1>3 DEF FreesFit
  <2>2. \A u \in Threads : Frees(work[u]) \subseteq Blocks
    BY <1>1, FreesBlocks
  <2> QED
    BY <1>1, <1>5, <1>8, <2>1, <2>2 DEF FreesFit
<1>10. \A m \in Members : Home[m] = b => ctrl[m] = Absent
  BY <1>1, <1>3 DEF MembersFit, Exists
<1>11. \A u \in Threads : Pinned(u)'
  <2>1. ASSUME NEW u \in Threads \ {t}, NEW c \in Needs(u) PROVE ctrl'[c] = ctrl[c]
    <3>1. c \in Arcs /\ c # a
      BY <1>1, <1>3, NeedsRead DEF Writable
    <3>2. CASE c \in use[u].via
      <4>1. c \in Locals
        BY <1>1, <3>2 DEF TypeOK, Uses
      <4> QED
        BY <1>3, <3>1, <4>1, Constants
    <3>3. CASE c \notin use[u].via
      <4>1. /\ c = use[u].source
            /\ Final(work[u]).do \in {"retain", "swing", "use", "take"}
        BY <2>1, <3>3 DEF Needs
      <4>2. ctrl[c] # Absent
        BY <1>1, <4>1, Constants DEF Pinned, Exists, OperationsFit, Suits
      <4> QED
        BY <1>3, <1>10, <3>1, <4>2
    <3> QED
      BY <3>2, <3>3
  <2>2. \A u \in Threads \ {t} : work'[u] = work[u] /\ use'[u] = use[u]
    BY <1>5
  <2>3. \A u \in Threads \ {t} : Pinned(u)'
    BY <1>1, <2>1, <2>2, OthersPinned
  <2>4. Pinned(t)'
    BY <1>4, <1>5, Idle DEF Pinned
  <2> QED
    BY <2>3, <2>4
<1>12. MembersFit'
  <2>1. ASSUME NEW m \in Members PROVE Exists(m)' <=> phase'[Home[m]] = "live"
    <3>1. m \in Arcs /\ m # a /\ Home[m] \in Blocks
      BY <1>5, Constants
    <3>2. CASE Home[m] = b
      BY <1>3, <1>8, <3>1, <3>2, Constants DEF Exists
    <3>3. CASE Home[m] # b
      BY <1>1, <1>3, <1>8, <3>1, <3>3 DEF Exists, MembersFit
    <3> QED
      BY <3>2, <3>3
  <2> QED
    BY <2>1 DEF MembersFit
<1>13. ASSUME NEW d \in Blocks PROVE Refs(d)' = Refs(d) + One(b, d)
  <2>1. \A u \in Threads \ {t} : a \notin Writes(u)
    BY <1>3 DEF Writable
  <2>2. ~Replaces(work[t], a)
    BY <1>4, Idle DEF Replaces
  <2>3. Held[a] = Absent /\ Held'[a] = b
    BY <1>1, <1>3, <1>5, <2>1, <2>2, HeldAt, HeldAtNext
  <2>4. Alike(Held, Held', Arcs \ {a}, d)
    <3>1. ASSUME NEW c \in Arcs \ {a} PROVE Held'[c] = d <=> Held[c] = d
      <4>1. CASE c \in Members /\ Home[c] = b
        <5>1. ctrl[c] = Absent /\ ctrl'[c] = Null
          BY <1>3, <1>10, <3>1, <4>1
        <5>2. Held[c] \in {Null, ctrl[c]} /\ Held'[c] \in {Null, ctrl'[c]}
          BY DEF Held
        <5> QED
          BY <5>1, <5>2, Constants
      <4>2. CASE ~(c \in Members /\ Home[c] = b)
        <5>1. ctrl'[c] = ctrl[c]
          BY <1>3, <3>1, <4>2
        <5> QED
          BY <1>5, <5>1 DEF Held
      <4> QED
        BY <4>1, <4>2
    <3> QED
      BY <3>1 DEF Alike
  <2>5. Tally(Held', Arcs, d) = Tally(Held, Arcs, d) - One(Held[a], d) + One(Held'[a], d)
    BY <1>5, <2>4, Finite, Recount
  <2>6. One(Absent, d) = 0 /\ One(b, d) \in Nat
    BY Constants DEF One
  <2>7. Tally(Letting', Threads, d) = Tally(Letting, Threads, d)
        /\ Tally(Storing', Threads, d) = Tally(Storing, Threads, d)
    BY <1>5 DEF Letting, Storing
  <2>8. Refs(d)' = Tally(Held', Arcs, d) + Tally(Letting', Threads, d)
                     + Tally(Storing', Threads, d)
    BY DEF Refs
  <2> QED
    BY <2>3, <2>5, <2>6, <2>7, <2>8, RefsFacts DEF Refs
<1>14. Ledger'
  <2>1. ASSUME NEW d \in Blocks
        PROVE  /\ Refs(d)' # 0 => phase'[d] = "live"
               /\ phase'[d] = "live" => count'[d] = Refs(d)'
    <3>1. CASE d = b
      <4>1. Refs(b) = 0
        BY <1>1, <1>3 DEF Ledger
      <4>2. Refs(d)' = 1
        BY <1>13, <3>1, <4>1 DEF One
      <4> QED
        BY <1>2, <1>3, <3>1, <4>2
    <3>2. CASE d # b
      <4>1. Refs(d)' = Refs(d)
        BY <1>13, <3>2, RefsFacts DEF One
      <4>2. count'[d] = count[d] /\ phase'[d] = phase[d]
        BY <1>2, <1>3, <3>2
      <4> QED
        BY <1>1, <4>1, <4>2 DEF Ledger
    <3> QED
      BY <3>1, <3>2
  <2> QED
    BY <2>1 DEF Ledger
<1> QED
  BY <1>6, <1>7, <1>9, <1>11, <1>12, <1>14 DEF Inv

LEMMA CallStep ==
  ASSUME Inv, ~MovesOutOfTarget, NEW t \in Threads, Call(t)
  PROVE  Inv'
BY ConstructStep, CopyStep, MoveStep, ResetStep, DropStep, DereferenceStep DEF Call

-----------------------------------------------------------------------------
(* The steps of operations *)

Went(t, rest) ==
  /\ OperationsFit' /\ Exclusive'
  /\ use' \in [Threads -> Uses] /\ work' \in [Threads -> Seq(Steps)]
  /\ work'[t] = rest /\ (rest # <<>> => use'[t] = use[t])
  /\ \A u \in Threads \ {t} : work'[u] = work[u] /\ use'[u] = use[u]

LEMMA Continuing ==
  ASSUME TypeOK, OperationsFit, Exclusive, NEW t \in Threads, NEW rest,
         rest \in Seq(Steps), Formed(rest),
         rest # <<>> => Suits(Final(rest), use[t]), Continue(t, rest)
  PROVE  Went(t, rest)
<1>1. use \in [Threads -> Uses] /\ work \in [Threads -> Seq(Steps)]
  BY Types
<1>2. /\ work'[t] = rest
      /\ \A u \in Threads \ {t} : work'[u] = work[u]
      /\ work' \in [Threads -> Seq(Steps)]
  BY <1>1 DEF Continue
<1>3. NoUse \in Uses
  BY DEF NoUse, Uses
<1>4. /\ use' \in [Threads -> Uses]
      /\ use'[t] = IF rest = <<>> THEN NoUse ELSE use[t]
      /\ \A u \in Threads \ {t} : use'[u] = use[u]
  <2>1. CASE rest = <<>>
    <3>1. use' = [use EXCEPT ![t] = NoUse]
      BY <2>1 DEF Continue
    <3> QED
      BY <1>1, <1>3, <2>1, <3>1
  <2>2. CASE rest # <<>>
    <3>1. use' = use
      BY <2>2 DEF Continue
    <3> QED
      BY <1>1, <2>2, <3>1
  <2> QED
    BY <2>1, <2>2
<1>5. Suits(Final(rest), use'[t])
  <2>1. CASE rest = <<>>
    BY <2>1, Idle
  <2>2. CASE rest # <<>>
    BY <1>4, <2>2
  <2> QED
    BY <2>1, <2>2
<1>6. OperationsFit'
  <2>1. Formed(work'[t]) /\ Suits(Final(work'[t]), use'[t])
    BY <1>2, <1>5
  <2>2. \A u \in Threads \ {t} : work'[u] = work[u] /\ use'[u] = use[u]
    BY <1>2, <1>4
  <2> QED
    BY <2>1, <2>2, OperationsFitFrame
<1>7. Exclusive'
  <2>1. use'[t] \in {use[t], NoUse}
    BY <1>4
  <2> QED
    BY <1>4, <2>1, ExclusiveFrame
<1> QED
  BY <1>2, <1>4, <1>6, <1>7 DEF Went

\* An operation with one step left, which replaces and releases nothing.
LEMMA OneLeft ==
  ASSUME TypeOK, OperationsFit, NEW t \in Threads, work[t] # <<>>,
         Head(work[t]).do \in {"retain", "swing", "use", "store", "take"}
  PROVE  /\ Tail(work[t]) = <<>> /\ Final(work[t]) = Head(work[t])
         /\ Head(work[t]) \in Steps /\ Released(work[t]) = Null
         /\ Frees(work[t]) = {}
<1>1. work[t] \in Seq(Steps) /\ Formed(work[t])
  BY Types DEF OperationsFit
<1>2. First(work[t]) = Head(work[t]) /\ Head(work[t]) \in Steps
  BY <1>1, FirstAndFinal
<1>3. /\ Tail(work[t]) = <<>> /\ Final(work[t]) = First(work[t])
      /\ Frees(Tail(work[t])) = IF First(work[t]).do = "free"
           THEN Frees(work[t]) \ {First(work[t]).block} ELSE Frees(work[t])
  BY <1>1, <1>2, TailFormed
<1>4. Released(work[t]) = Null
  BY <1>2 DEF Released
<1>5. Frees(work[t]) = {}
  <2>1. First(work[t]).do # "free"
    BY <1>2
  <2>2. Frees(Tail(work[t])) = Frees(work[t])
    BY <1>3, <2>1
  <2> QED
    BY <1>3, <2>2, Idle
<1> QED
  BY <1>2, <1>3, <1>4, <1>5

Retargeted(t, x) ==
  /\ OperationsFit' /\ Exclusive' /\ FreesFit' /\ MembersFit'
  /\ use' \in [Threads -> Uses] /\ work' \in [Threads -> Seq(Steps)]
  /\ \A u \in Threads : Pinned(u)'
  /\ \A b \in Blocks : Refs(b)' = Refs(b) + One(x, b)

\* A retaining operation goes on to assign x to its target.
LEMMA Retargeting ==
  ASSUME Inv, NEW t \in Threads, NEW x \in Blocks \union {Null},
         Final(work[t]).do \in {"retain", "swing"}, Released(work[t]) = Null,
         Frees(work[t]) = {},
         Continue(t, Assign(use[t].target, x)), ctrl' = ctrl, phase' = phase
  PROVE  Retargeted(t, x)
<1> DEFINE a == use[t].target
           rest == Assign(a, x)
<1>1. /\ TypeOK /\ OperationsFit /\ Exclusive /\ FreesFit /\ MembersFit
      /\ \A u \in Threads : Pinned(u)
  BY DEF Inv
<1>2. a \in Arcs /\ ~use[t].moves
  BY <1>1 DEF OperationsFit, Suits
<1>3. /\ rest \in Seq(Steps) /\ rest # <<>> /\ Formed(rest) /\ Frees(rest) = {}
      /\ Released(rest) = IF ctrl[a] \in Blocks THEN ctrl[a] ELSE Null
      /\ Final(rest) = StoreOf(a, x) /\ Stored(rest) = x
  BY <1>2, AssignFormed
<1>4. /\ StoreOf(a, x).do = "store" /\ StoreOf(a, x).arc = a
      /\ StoreOf(a, x).block = x /\ x # Absent
  BY StepKinds, Constants
<1> HIDE DEF rest
<1>5. Suits(Final(rest), use[t])
  BY <1>2, <1>3, <1>4 DEF Suits
<1>6. Went(t, rest)
  <2>1. Continue(t, rest)
    BY DEF rest
  <2> QED
    BY <1>1, <1>3, <1>5, <2>1, Continuing
<1>7. /\ work'[t] = rest /\ use'[t] = use[t]
      /\ \A u \in Threads \ {t} : work'[u] = work[u] /\ use'[u] = use[u]
  BY <1>3, <1>6 DEF Went
<1>8. FreesFit'
  <2>1. Frees(work'[t]) \subseteq Frees(work[t])
    BY <1>3, <1>7
  <2>2. \A b \in Blocks : phase'[b] # phase[b] =>
           b \notin Frees(work'[t]) /\ \A u \in Threads \ {t} : b \notin Frees(work[u])
    OBVIOUS
  <2>3. \A u \in Threads : Frees(work[u]) \subseteq Blocks
    BY <1>1, FreesBlocks
  <2> QED
    BY <1>1, <1>7, <2>1, <2>2, <2>3, FreesFrame
<1>9. MembersFit'
  BY <1>1 DEF MembersFit, Exists
<1>10. \A u \in Threads : Pinned(u)'
  <2>1. \A u \in Threads \ {t} : \A c \in Needs(u) : ctrl'[c] = ctrl[c]
    OBVIOUS
  <2>2. \A u \in Threads \ {t} : Pinned(u)'
    BY <1>1, <1>7, <2>1, OthersPinned
  <2>3. ReachesPast(t, use[t].target)
    BY <1>1 DEF Pinned
  <2>4. ReachesPast(t, use[t].target)'
    BY <1>7, <2>3 DEF ReachesPast
  <2>5. Pinned(t)'
    BY <1>3, <1>4, <1>7, <2>4 DEF Pinned
  <2> QED
    BY <2>2, <2>5
<1>11. ASSUME NEW b \in Blocks PROVE Refs(b)' = Refs(b) + One(x, b)
  <2>1. a \in Writes(t)
    BY <1>2, Constants DEF Writes
  <2>2. \A u \in Threads \ {t} : a \notin Writes(u)
    BY <1>1, <1>2, <2>1 DEF Exclusive
  <2>3. /\ Final(work'[t]).do \in {"store", "take"} /\ Final(work'[t]).arc = a
        /\ Released(work'[t]) = IF ctrl[a] \in Blocks THEN ctrl[a] ELSE Null
        /\ Stored(work'[t]) = x
    BY <1>3, <1>4, <1>7
  <2>4. \A u \in Threads \ {t} : work'[u] = work[u]
    BY <1>7
  <2>5. Final(work[t]).do \notin {"store", "take"}
    OBVIOUS
  <2> HIDE DEF a
  <2>6. Refs(b)' = Refs(b) + One(Stored(work'[t]), b)
    BY <1>1, <1>2, <2>2, <2>3, <2>4, <2>5, Assigning
  <2> QED
    BY <2>3, <2>6
<1> QED
  BY <1>6, <1>8, <1>9, <1>10, <1>11 DEF Retargeted, Went

\* An operation goes on without touching a reference.
LEMMA Resting ==
  ASSUME Inv, NEW t \in Threads, NEW rest,
         Final(work[t]).do \notin {"store", "take"}, Released(work[t]) = Null,
         Final(rest).do \notin {"store", "take"}, Released(rest) = Null,
         Frees(rest) = {}, Went(t, rest),
         count' = count, phase' = phase, ctrl' = ctrl,
         outcome' \in [Threads -> Outcomes], calls' = calls, Pinned(t)'
  PROVE  Inv'
<1>1. /\ TypeOK /\ FreesFit /\ OperationsFit
  BY DEF Inv
<1>2. /\ OperationsFit' /\ Exclusive'
      /\ use' \in [Threads -> Uses] /\ work' \in [Threads -> Seq(Steps)]
      /\ work'[t] = rest
      /\ \A u \in Threads \ {t} : work'[u] = work[u] /\ use'[u] = use[u]
  BY DEF Went
<1>3. TypeOK'
  <2>1. /\ count' \in [Blocks -> 0 .. MaxCount] /\ phase' \in [Blocks -> Phases]
        /\ ctrl' \in [Arcs -> Blocks \union {Null, Absent}]
        /\ calls' \in [Threads -> 0 .. MaxCalls]
    BY <1>1, Types
  <2> QED
    BY <1>2, <2>1 DEF TypeOK, Steps, Kinds
<1>4. FreesFit'
  <2>1. Frees(work'[t]) \subseteq Frees(work[t])
    BY <1>2
  <2>2. \A b \in Blocks : phase'[b] # phase[b] =>
           b \notin Frees(work'[t]) /\ \A u \in Threads \ {t} : b \notin Frees(work[u])
    OBVIOUS
  <2>3. \A u \in Threads : Frees(work[u]) \subseteq Blocks
    BY <1>1, FreesBlocks
  <2> QED
    BY <1>1, <1>2, <2>1, <2>2, <2>3, FreesFrame
<1>5. ASSUME NEW b \in Blocks PROVE Refs(b)' = Refs(b)
  <2>1. /\ Released(work'[t]) = Released(work[t]) /\ Stored(work'[t]) = Stored(work[t])
        /\ \A c : ~Replaces(work[t], c) /\ ~Replaces(work'[t], c)
    BY <1>2, Quiet
  <2>2. \A c \in Arcs : Held'[c] = Held[c]
    BY <1>2, <2>1, HeldSame
  <2> QED
    BY <1>2, <2>1, <2>2, SameRefs
<1>6. (\A u \in Threads : Pinned(u)') /\ MembersFit' /\ Ledger'
  BY <1>2, <1>5, CallKeeps
<1> QED
  BY <1>2, <1>3, <1>4, <1>6 DEF Inv

\* The loop of retain_strong() has loaded the count.
LEMMA ExamineStep ==
  ASSUME Inv, NEW t \in Threads, work[t] # <<>>,
         Head(work[t]).do \in {"retain", "swing"},
         Examine(t, Head(work[t]).block),
         count' = count, phase' = phase, ctrl' = ctrl, calls' = calls
  PROVE  Inv'
<1> DEFINE b == Head(work[t]).block
<1>1. /\ TypeOK /\ OperationsFit /\ Exclusive /\ FreesFit /\ Ledger /\ MembersFit
      /\ Pinned(t)
  BY DEF Inv
<1>2. /\ Final(work[t]) = Head(work[t]) /\ Released(work[t]) = Null
      /\ Frees(work[t]) = {} /\ Final(work[t]).do \in {"retain", "swing"}
  BY <1>1, OneLeft
<1>3. /\ b \in Blocks /\ use[t].target \in Arcs /\ use[t].source \in Arcs
      /\ ~use[t].moves
  BY <1>1, <1>2 DEF OperationsFit, Suits
<1>4. outcome \in [Threads -> Outcomes] /\ count[b] \in 0 .. MaxCount
  BY <1>1, <1>3, Types
<1> HIDE DEF b
<1>5. ASSUME Report(t, "exhausted"), Continue(t, <<>>)
      PROVE  Inv'
  <2>1. /\ Final(<<>>).do \notin {"store", "take"} /\ Released(<<>>) = Null
        /\ Frees(<<>>) = {} /\ <<>> \in Seq(Steps) /\ Formed(<<>>)
    BY Idle
  <2>2. Went(t, <<>>)
    BY <1>1, <1>5, <2>1, Continuing
  <2>3. Pinned(t)'
    BY <2>2, Idle DEF Went, Pinned
  <2>4. outcome' \in [Threads -> Outcomes]
    BY <1>4, <1>5 DEF Report, Outcomes
  <2> QED
    BY <1>2, <2>1, <2>2, <2>3, <2>4, Resting
<1>6. ASSUME Report(t, "exhausted"), Continue(t, Assign(use[t].target, Null))
      PROVE  Inv'
  <2>1. Retargeted(t, Null)
    BY <1>2, <1>6, Retargeting
  <2>2. outcome' \in [Threads -> Outcomes]
    BY <1>4, <1>6 DEF Report, Outcomes
  <2>3. /\ count' \in [Blocks -> 0 .. MaxCount] /\ phase' \in [Blocks -> Phases]
        /\ ctrl' \in [Arcs -> Blocks \union {Null, Absent}]
        /\ calls' \in [Threads -> 0 .. MaxCalls]
    BY <1>1, Types
  <2>4. TypeOK'
    BY <2>1, <2>2, <2>3 DEF Retargeted, TypeOK, Steps, Kinds
  <2>5. \A d \in Blocks : Refs(d)' = Refs(d)
    BY <2>1, RefsFacts, Constants DEF Retargeted, One
  <2>6. Ledger'
    BY <1>1, <2>5 DEF Ledger
  <2> QED
    BY <2>1, <2>4, <2>6 DEF Retargeted, Inv
<1>7. ASSUME count[b] # MaxCount, Continue(t, <<SwingOf(b, count[b])>>), outcome' = outcome
      PROVE  Inv'
  <2> DEFINE s == SwingOf(b, count[b])
  <2>1. /\ s \in Steps /\ s.do = "swing" /\ s.block = b /\ s.observed < MaxCount
    BY <1>3, <1>4, <1>7, Constants DEF SwingOf, Step, Steps, Kinds
  <2> HIDE DEF s
  <2>2. /\ <<s>> \in Seq(Steps) /\ <<s>> # <<>> /\ Formed(<<s>>) /\ First(<<s>>) = s
        /\ Final(<<s>>) = s /\ Frees(<<s>>) = {}
    BY <2>1, OneFormed
  <2>3. Suits(Final(<<s>>), use[t])
    BY <1>3, <2>1, <2>2 DEF Suits
  <2>4. Went(t, <<s>>)
    <3>1. Continue(t, <<s>>)
      BY <1>7 DEF s
    <3> QED
      BY <1>1, <2>2, <2>3, <3>1, Continuing
  <2>5. use'[t] = use[t] /\ work'[t] = <<s>>
    BY <2>2, <2>4 DEF Went
  <2>6. Pinned(t)'
    <3>1. ReachesPast(t, use[t].target) /\ Reaches(t, use[t].source)
          /\ ctrl[use[t].source] = b
      BY <1>1, <1>2 DEF Pinned, b
    <3>2. ReachesPast(t, use[t].target)' /\ Reaches(t, use[t].source)'
      BY <2>5, <3>1 DEF ReachesPast, Reaches
    <3>3. Final(work'[t]).do = "swing" /\ ctrl'[use'[t].source] = Final(work'[t]).block
      BY <2>1, <2>2, <2>5, <3>1
    <3> QED
      BY <3>2, <3>3 DEF Pinned
  <2>7. /\ Final(<<s>>).do \notin {"store", "take"} /\ Released(<<s>>) = Null
    BY <2>1, <2>2 DEF Released
  <2>8. outcome' \in [Threads -> Outcomes]
    BY <1>4, <1>7
  <2> QED
    BY <1>2, <2>2, <2>4, <2>6, <2>7, <2>8, Resting
<1>8. Examine(t, b)
  BY DEF b
<1> QED
  BY <1>5, <1>6, <1>7, <1>8 DEF Examine, Exhausted

LEMMA RetainLoadStep ==
  ASSUME Inv, NEW t \in Threads, RetainLoad(t)
  PROVE  Inv'
<1>1. /\ work[t] # <<>> /\ Head(work[t]).do \in {"retain", "swing"}
      /\ Examine(t, Head(work[t]).block)
      /\ count' = count /\ phase' = phase /\ ctrl' = ctrl /\ calls' = calls
  BY DEF RetainLoad, Doing
<1> QED
  BY <1>1, ExamineStep

LEMMA RetainRetryStep ==
  ASSUME Inv, NEW t \in Threads, RetainRetry(t)
  PROVE  Inv'
<1>1. /\ work[t] # <<>> /\ Head(work[t]).do \in {"retain", "swing"}
      /\ Examine(t, Head(work[t]).block)
      /\ count' = count /\ phase' = phase /\ ctrl' = ctrl /\ calls' = calls
  BY DEF RetainRetry, Doing
<1> QED
  BY <1>1, ExamineStep

LEMMA UsePayloadStep ==
  ASSUME Inv, NEW t \in Threads, UsePayload(t)
  PROVE  Inv'
<1>1. /\ work[t] # <<>> /\ Head(work[t]).do = "use" /\ Continue(t, Tail(work[t]))
      /\ count' = count /\ phase' = phase /\ ctrl' = ctrl /\ calls' = calls
      /\ outcome' = outcome
  BY DEF UsePayload, Doing
<1>2. /\ TypeOK /\ OperationsFit /\ Exclusive
  BY DEF Inv
<1>3. /\ Tail(work[t]) = <<>> /\ Final(work[t]).do = "use" /\ Released(work[t]) = Null
  BY <1>1, <1>2, OneLeft
<1>4. /\ Final(<<>>).do \notin {"store", "take"} /\ Released(<<>>) = Null
      /\ Frees(<<>>) = {} /\ <<>> \in Seq(Steps) /\ Formed(<<>>)
  BY Idle
<1>5. Continue(t, <<>>)
  BY <1>1, <1>3
<1>6. Went(t, <<>>)
  BY <1>2, <1>4, <1>5, Continuing
<1>7. Pinned(t)'
  BY <1>6, Idle DEF Went, Pinned
<1>8. outcome' \in [Threads -> Outcomes]
  BY <1>1, <1>2, Types
<1>9. Final(work[t]).do \notin {"store", "take"}
  BY <1>3
<1> QED
  BY <1>1, <1>3, <1>4, <1>6, <1>7, <1>8, <1>9, Resting

LEMMA RetainSwingStep ==
  ASSUME Inv, NEW t \in Threads, RetainSwing(t)
  PROVE  Inv'
<1> DEFINE b == Head(work[t]).block
           c == Head(work[t]).observed
<1>1. /\ work[t] # <<>> /\ Head(work[t]).do = "swing" /\ count[b] = c
      /\ count' = [count EXCEPT ![b] = c + 1]
      /\ Continue(t, Assign(use[t].target, b))
      /\ phase' = phase /\ ctrl' = ctrl /\ outcome' = outcome /\ calls' = calls
  BY DEF RetainSwing, Doing
<1>2. /\ TypeOK /\ OperationsFit /\ Exclusive /\ Ledger /\ Pinned(t)
  BY DEF Inv
<1>3. /\ Final(work[t]) = Head(work[t]) /\ Released(work[t]) = Null
      /\ Frees(work[t]) = {} /\ Final(work[t]).do = "swing"
  BY <1>1, <1>2, OneLeft
<1>4. b \in Blocks /\ c < MaxCount
  BY <1>2, <1>3 DEF OperationsFit, Suits
<1>5. Refs(b) # 0 /\ phase[b] = "live" /\ count[b] = Refs(b)
  BY <1>2, <1>3, SourceLive
<1>6. /\ count \in [Blocks -> 0 .. MaxCount] /\ phase \in [Blocks -> Phases]
      /\ ctrl \in [Arcs -> Blocks \union {Null, Absent}]
      /\ outcome \in [Threads -> Outcomes] /\ calls \in [Threads -> 0 .. MaxCalls]
  BY <1>2, Types
<1> HIDE DEF b, c
<1>7. Retargeted(t, b)
  BY <1>1, <1>3, <1>4, Retargeting
<1>8. c \in 0 .. MaxCount /\ c + 1 \in 0 .. MaxCount
  BY <1>1, <1>4, <1>6, Constants
<1>9. TypeOK'
  <2>1. count' \in [Blocks -> 0 .. MaxCount]
    BY <1>1, <1>6, <1>8
  <2> QED
    BY <1>1, <1>6, <1>7, <2>1 DEF Retargeted, TypeOK, Steps, Kinds
<1>10. Ledger'
  <2>1. ASSUME NEW d \in Blocks
        PROVE  /\ Refs(d)' # 0 => phase'[d] = "live"
               /\ phase'[d] = "live" => count'[d] = Refs(d)'
    <3>1. Refs(d)' = Refs(d) + One(b, d)
      BY <1>7 DEF Retargeted
    <3>2. CASE d = b
      <4>1. Refs(d)' = Refs(b) + 1 /\ count'[d] = c + 1
        BY <1>1, <1>4, <1>6, <3>1, <3>2 DEF One
      <4> QED
        BY <1>1, <1>5, <3>2, <4>1
    <3>3. CASE d # b
      <4>1. Refs(d)' = Refs(d)
        BY <3>1, <3>3, RefsFacts DEF One
      <4>2. count'[d] = count[d]
        BY <1>1, <1>6, <3>3
      <4> QED
        BY <1>1, <1>2, <4>1, <4>2 DEF Ledger
    <3> QED
      BY <3>2, <3>3
  <2> QED
    BY <2>1 DEF Ledger
<1> QED
  BY <1>7, <1>9, <1>10 DEF Retargeted, Inv

LEMMA StorePointerStep ==
  ASSUME Inv, NEW t \in Threads, StorePointer(t)
  PROVE  Inv'
<1> DEFINE s == Head(work[t])
           a == s.arc
           x == s.block
<1>1. /\ work[t] # <<>> /\ s.do = "store" /\ Continue(t, Tail(work[t]))
      /\ ctrl' = [ctrl EXCEPT ![a] = x]
      /\ count' = count /\ phase' = phase /\ calls' = calls /\ outcome' = outcome
  BY DEF StorePointer, Doing
<1>2. /\ TypeOK /\ OperationsFit /\ Exclusive /\ FreesFit /\ MembersFit /\ Ledger
      /\ \A u \in Threads : Pinned(u)
  BY DEF Inv
<1>3. /\ Tail(work[t]) = <<>> /\ Final(work[t]) = s /\ Released(work[t]) = Null
      /\ Frees(work[t]) = {} /\ s \in Steps
  BY <1>1, <1>2, OneLeft
<1>4. /\ a \in Arcs /\ a = use[t].target /\ x \in Blocks \union {Null, Absent}
      /\ x = Absent => a \in Locals
  BY <1>1, <1>2, <1>3 DEF OperationsFit, Suits, Steps
<1>5. /\ count \in [Blocks -> 0 .. MaxCount] /\ phase \in [Blocks -> Phases]
      /\ ctrl \in [Arcs -> Blocks \union {Null, Absent}]
      /\ outcome \in [Threads -> Outcomes] /\ calls \in [Threads -> 0 .. MaxCalls]
  BY <1>2, Types
<1>6. Stored(work[t]) = x /\ \A c : Replaces(work[t], c) <=> c = a
  BY <1>1, <1>3 DEF Stored, Replaces
<1>7. a \in Locals \/ ReachesPast(t, a)
  BY <1>1, <1>2, <1>3, <1>4 DEF Pinned
<1> HIDE DEF s, a, x
<1>8. Went(t, <<>>)
  <2>1. Continue(t, <<>>)
    BY <1>1, <1>3
  <2> QED
    BY <1>2, <2>1, Idle, Continuing
<1>9. /\ OperationsFit' /\ Exclusive'
      /\ use' \in [Threads -> Uses] /\ work' \in [Threads -> Seq(Steps)]
      /\ work'[t] = <<>>
      /\ \A u \in Threads \ {t} : work'[u] = work[u] /\ use'[u] = use[u]
  BY <1>8 DEF Went
<1>10. ctrl'[a] = x /\ \A c \in Arcs \ {a} : ctrl'[c] = ctrl[c]
  BY <1>1, <1>4, <1>5
<1>11. TypeOK'
  <2>1. ctrl' \in [Arcs -> Blocks \union {Null, Absent}]
    BY <1>1, <1>4, <1>5
  <2> QED
    BY <1>1, <1>5, <1>9, <2>1 DEF TypeOK, Steps, Kinds
<1>12. FreesFit'
  <2>1. Frees(work'[t]) \subseteq Frees(work[t])
    BY <1>9, Idle
  <2>2. \A b \in Blocks : phase'[b] # phase[b] =>
           b \notin Frees(work'[t]) /\ \A u \in Threads \ {t} : b \notin Frees(work[u])
    BY <1>1
  <2>3. \A u \in Threads : Frees(work[u]) \subseteq Blocks
    BY <1>2, FreesBlocks
  <2> QED
    BY <1>2, <1>9, <2>1, <2>2, <2>3, FreesFrame
<1>13. \A u \in Threads \ {t} : a \notin Writes(u) /\ a \notin Reads(u)
  <2>1. a \in Writes(t)
    BY <1>4, Constants DEF Writes
  <2> QED
    BY <1>2, <1>4, <2>1 DEF Exclusive
<1>14. \A u \in Threads : Pinned(u)'
  <2>1. \A u \in Threads \ {t} : \A c \in Needs(u) : ctrl'[c] = ctrl[c]
    BY <1>2, <1>10, <1>13, NeedsRead
  <2>2. \A u \in Threads \ {t} : Pinned(u)'
    BY <1>2, <1>9, <2>1, OthersPinned
  <2>3. Pinned(t)'
    BY <1>9, Idle DEF Pinned
  <2> QED
    BY <2>2, <2>3
<1>15. MembersFit'
  <2>1. ASSUME NEW m \in Members PROVE Exists(m)' <=> Exists(m)
    <3>1. CASE m = a
      <4>1. phase[Home[m]] = "live"
        BY <1>2, <1>7, <3>1, ReachedLive, Constants
      <4>2. Exists(m)
        BY <1>2, <4>1 DEF MembersFit
      <4>3. x # Absent
        BY <1>4, <3>1, Constants
      <4> QED
        BY <1>10, <3>1, <4>2, <4>3 DEF Exists
    <3>2. CASE m # a
      BY <1>10, <3>2, Constants DEF Exists
    <3> QED
      BY <3>1, <3>2
  <2> QED
    BY <1>1, <1>2, <2>1 DEF MembersFit
<1>16. ASSUME NEW b \in Blocks PROVE Refs(b)' = Refs(b)
  <2>1. /\ Stored(work'[t]) = Null /\ Released(work'[t]) = Null
        /\ \A c : ~Replaces(work'[t], c)
    BY <1>9, Idle, Quiet
  <2>2. \A u \in Threads \ {t} : a \notin Writes(u)
    BY <1>13
  <2>3. \A u \in Threads \ {t} : work'[u] = work[u]
    BY <1>9
  <2>4. Held[a] = Null
    BY <1>2, <1>4, <1>6, <2>2, HeldAt
  <2>5. Held'[a] = x
    BY <1>2, <1>4, <1>10, <2>1, <2>2, <2>3, HeldAtNext
  <2>6. Alike(Held, Held', Arcs \ {a}, b)
    <3>1. ASSUME NEW c \in Arcs \ {a} PROVE Held'[c] = Held[c]
      BY <1>6, <1>10, <2>1, <2>3, HeldSame
    <3> QED
      BY <3>1 DEF Alike
  <2>7. Tally(Held', Arcs, b) = Tally(Held, Arcs, b) - One(Held[a], b) + One(Held'[a], b)
    <3>1. a \in Arcs /\ IsFiniteSet(Arcs)
      BY <1>4, Finite
    <3> QED
      BY <2>6, <3>1, Recount
  <2>8. One(Null, b) = 0 /\ One(x, b) \in Nat
    BY Constants DEF One
  <2>9. Refs(b)' = Tally(Held', Arcs, b)
           + Tally(Letting, Threads, b) - One(Released(work[t]), b)
           + One(Released(work'[t]), b)
           + Tally(Storing, Threads, b) - One(Stored(work[t]), b)
           + One(Stored(work'[t]), b)
    BY <2>3, Balance
  <2>10. Refs(b)' = (Tally(Held, Arcs, b) - 0 + One(x, b))
           + Tally(Letting, Threads, b) - 0 + 0
           + Tally(Storing, Threads, b) - One(x, b) + 0
    BY <1>3, <1>6, <2>1, <2>4, <2>5, <2>7, <2>8, <2>9
  <2> QED
    BY <2>8, <2>10, RefsFacts DEF Refs
<1>17. Ledger'
  BY <1>1, <1>2, <1>16 DEF Ledger
<1> QED
  BY <1>9, <1>11, <1>12, <1>14, <1>15, <1>17 DEF Inv

LEMMA TakePointerStep ==
  ASSUME Inv, NEW t \in Threads, TakePointer(t)
  PROVE  Inv'
<1> DEFINE a == Head(work[t]).arc
           s == use[t].source
<1>1. /\ work[t] # <<>> /\ Head(work[t]).do = "take" /\ Continue(t, Tail(work[t]))
      /\ ctrl' = [ctrl EXCEPT ![a] = ctrl[s], ![s] = Null]
      /\ count' = count /\ phase' = phase /\ calls' = calls /\ outcome' = outcome
  BY DEF TakePointer, Doing
<1>2. /\ TypeOK /\ OperationsFit /\ Exclusive /\ FreesFit /\ MembersFit /\ Ledger
      /\ \A u \in Threads : Pinned(u)
  BY DEF Inv
<1>3. /\ Tail(work[t]) = <<>> /\ Final(work[t]) = Head(work[t])
      /\ Released(work[t]) = Null /\ Frees(work[t]) = {}
  BY <1>1, <1>2, OneLeft
<1>4. /\ a \in Arcs /\ s \in Arcs /\ a # s /\ a = use[t].target /\ use[t].moves
  BY <1>1, <1>2, <1>3 DEF OperationsFit, Suits
<1>5. /\ count \in [Blocks -> 0 .. MaxCount] /\ phase \in [Blocks -> Phases]
      /\ ctrl \in [Arcs -> Blocks \union {Null, Absent}]
      /\ outcome \in [Threads -> Outcomes] /\ calls \in [Threads -> 0 .. MaxCalls]
  BY <1>2, Types
<1>6. Stored(work[t]) = Null /\ \A c : Replaces(work[t], c) <=> c = a
  BY <1>1, <1>3 DEF Stored, Replaces
<1>7. ReachesPast(t, a) /\ ReachesPast(t, s) /\ Exists(s)
  BY <1>1, <1>2, <1>3, <1>4 DEF Pinned
<1> HIDE DEF s, a
<1>8. Went(t, <<>>)
  <2>1. Continue(t, <<>>)
    BY <1>1, <1>3
  <2> QED
    BY <1>2, <2>1, Idle, Continuing
<1>9. /\ OperationsFit' /\ Exclusive'
      /\ use' \in [Threads -> Uses] /\ work' \in [Threads -> Seq(Steps)]
      /\ work'[t] = <<>>
      /\ \A u \in Threads \ {t} : work'[u] = work[u] /\ use'[u] = use[u]
  BY <1>8 DEF Went
<1>10. /\ ctrl'[a] = ctrl[s] /\ ctrl'[s] = Null
       /\ \A c \in Arcs \ {a, s} : ctrl'[c] = ctrl[c]
  BY <1>1, <1>4, <1>5
<1>11. TypeOK'
  <2>1. ctrl' \in [Arcs -> Blocks \union {Null, Absent}]
    BY <1>1, <1>4, <1>5
  <2> QED
    BY <1>1, <1>5, <1>9, <2>1 DEF TypeOK, Steps, Kinds
<1>12. FreesFit'
  <2>1. Frees(work'[t]) \subseteq Frees(work[t])
    BY <1>9, Idle
  <2>2. \A b \in Blocks : phase'[b] # phase[b] =>
           b \notin Frees(work'[t]) /\ \A u \in Threads \ {t} : b \notin Frees(work[u])
    BY <1>1
  <2>3. \A u \in Threads : Frees(work[u]) \subseteq Blocks
    BY <1>2, FreesBlocks
  <2> QED
    BY <1>2, <1>9, <2>1, <2>2, <2>3, FreesFrame
<1>13. \A u \in Threads \ {t} : /\ a \notin Writes(u) /\ a \notin Reads(u)
                                 /\ s \notin Writes(u) /\ s \notin Reads(u)
  <2>1. a \in Writes(t) /\ s \in Writes(t)
    BY <1>4, Constants DEF Writes, s
  <2> QED
    BY <1>2, <1>4, <2>1 DEF Exclusive
<1>14. \A u \in Threads : Pinned(u)'
  <2>1. \A u \in Threads \ {t} : \A c \in Needs(u) : ctrl'[c] = ctrl[c]
    BY <1>2, <1>10, <1>13, NeedsRead
  <2>2. \A u \in Threads \ {t} : Pinned(u)'
    BY <1>2, <1>9, <2>1, OthersPinned
  <2>3. Pinned(t)'
    BY <1>9, Idle DEF Pinned
  <2> QED
    BY <2>2, <2>3
<1>15. MembersFit'
  <2>1. ASSUME NEW m \in Members PROVE Exists(m)' <=> Exists(m)
    <3>1. CASE m = a
      <4>1. phase[Home[m]] = "live"
        BY <1>2, <1>7, <3>1, ReachedLive, Constants
      <4>2. Exists(m)
        BY <1>2, <4>1 DEF MembersFit
      <4> QED
        BY <1>7, <1>10, <3>1, <4>2 DEF Exists
    <3>2. CASE m = s
      BY <1>7, <1>10, <3>2, Constants DEF Exists
    <3>3. CASE m # a /\ m # s
      BY <1>10, <3>3, Constants DEF Exists
    <3> QED
      BY <3>1, <3>2, <3>3
  <2> QED
    BY <1>1, <1>2, <2>1 DEF MembersFit
<1>16. ASSUME NEW b \in Blocks PROVE Refs(b)' = Refs(b)
  <2>1. /\ Stored(work'[t]) = Null /\ Released(work'[t]) = Null
        /\ \A c : ~Replaces(work'[t], c)
    BY <1>9, Idle, Quiet
  <2>2. \A u \in Threads \ {t} : a \notin Writes(u) /\ s \notin Writes(u)
    BY <1>13
  <2>3. \A u \in Threads \ {t} : work'[u] = work[u]
    BY <1>9
  <2>4. Held[a] = Null /\ Held[s] = ctrl[s]
    BY <1>2, <1>4, <1>6, <2>2, HeldAt
  <2>5. Held'[a] = ctrl[s] /\ Held'[s] = Null
    BY <1>2, <1>4, <1>10, <2>1, <2>2, <2>3, HeldAtNext
  <2>6. ASSUME NEW c \in Arcs \ {a, s} PROVE Held'[c] = Held[c]
    BY <1>6, <1>10, <2>1, <2>3, <2>6, HeldSame
  <2>7. PICK h : h = [c \in Arcs |-> IF c = a THEN ctrl[s] ELSE Held[c]]
    OBVIOUS
  <2>8. h[a] = ctrl[s] /\ h[s] = ctrl[s] /\ \A c \in Arcs \ {a} : h[c] = Held[c]
    BY <1>4, <2>4, <2>7
  <2>9. Tally(h, Arcs, b) = Tally(Held, Arcs, b) - One(Held[a], b) + One(h[a], b)
    <3>1. Alike(Held, h, Arcs \ {a}, b)
      BY <2>8 DEF Alike
    <3>2. a \in Arcs /\ IsFiniteSet(Arcs)
      BY <1>4, Finite
    <3> QED
      BY <3>1, <3>2, Recount
  <2>10. Tally(Held', Arcs, b) = Tally(h, Arcs, b) - One(h[s], b) + One(Held'[s], b)
    <3>1. Alike(h, Held', Arcs \ {s}, b)
      <4>1. ASSUME NEW c \in Arcs \ {s} PROVE Held'[c] = h[c]
        BY <2>5, <2>6, <2>8
      <4> QED
        BY <4>1 DEF Alike
    <3>2. s \in Arcs /\ IsFiniteSet(Arcs)
      BY <1>4, Finite
    <3> QED
      BY <3>1, <3>2, Recount
  <2>11. One(Null, b) = 0 /\ One(ctrl[s], b) \in Nat
    BY Constants DEF One
  <2>12. Tally(Held', Arcs, b) = Tally(Held, Arcs, b)
    <3>1. Tally(Held', Arcs, b)
            = (Tally(Held, Arcs, b) - 0 + One(ctrl[s], b)) - One(ctrl[s], b) + 0
      BY <2>4, <2>5, <2>8, <2>9, <2>10, <2>11
    <3> QED
      BY <2>11, <3>1, RefsFacts
  <2>13. Refs(b)' = Tally(Held', Arcs, b)
           + Tally(Letting, Threads, b) - One(Released(work[t]), b)
           + One(Released(work'[t]), b)
           + Tally(Storing, Threads, b) - One(Stored(work[t]), b)
           + One(Stored(work'[t]), b)
    BY <2>3, Balance
  <2> QED
    BY <1>3, <1>6, <2>1, <2>11, <2>12, <2>13, RefsFacts DEF Refs
<1>17. Ledger'
  BY <1>1, <1>2, <1>16 DEF Ledger
<1> QED
  BY <1>9, <1>11, <1>12, <1>14, <1>15, <1>17 DEF Inv

\* A release or a free is done, and what the operation stores stays.
LEMMA TailKeeps ==
  ASSUME NEW w \in Seq(Steps), w # <<>>, Formed(w), First(w).do \in {"release", "free"}
  PROVE  /\ Tail(w) \in Seq(Steps) /\ Formed(Tail(w)) /\ Released(Tail(w)) = Null
         /\ Stored(Tail(w)) = Stored(w)
         /\ \A a : Replaces(Tail(w), a) <=> Replaces(w, a)
         /\ Tail(w) # <<>> => Final(Tail(w)) = Final(w)
         /\ Tail(w) = <<>> => Final(w) = First(w)
<1>1. /\ Tail(w) \in Seq(Steps) /\ Formed(Tail(w)) /\ Released(Tail(w)) = Null
      /\ Final(Tail(w)) = IF Tail(w) = <<>> THEN NoStep ELSE Final(w)
  BY TailFormed
<1>2. Tail(w) = <<>> => Final(w) = First(w)
  <2>1. /\ Tail(w) = <<>> <=> Len(w) = 1
        /\ First(w) = w[1] /\ Final(w) = w[Len(w)]
    BY FirstAndFinal
  <2> QED
    BY <2>1
<1>3. CASE Tail(w) = <<>>
  <2>1. Final(Tail(w)) = NoStep /\ Final(w) = First(w)
    BY <1>1, <1>2, <1>3
  <2>2. /\ Final(Tail(w)).do \notin {"store", "take"}
        /\ Final(w).do \notin {"store", "take"}
    BY <2>1 DEF NoStep, Step
  <2>3. /\ Stored(Tail(w)) = Null /\ Stored(w) = Null
        /\ \A a : ~Replaces(Tail(w), a) /\ ~Replaces(w, a)
    BY <2>2, Quiet
  <2> QED
    BY <1>1, <1>2, <1>3, <2>3
<1>4. CASE Tail(w) # <<>>
  <2>1. Final(Tail(w)) = Final(w)
    BY <1>1, <1>4
  <2>2. Stored(Tail(w)) = Stored(w) /\ \A a : Replaces(Tail(w), a) <=> Replaces(w, a)
    BY <2>1 DEF Stored, Replaces
  <2> QED
    BY <1>1, <1>4, <2>1, <2>2
<1> QED
  BY <1>3, <1>4

\* The first step of an operation that has one.
LEMMA Leading ==
  ASSUME TypeOK, OperationsFit, NEW t \in Threads, work[t] # <<>>
  PROVE  /\ work[t] \in Seq(Steps) /\ Formed(work[t])
         /\ First(work[t]) = Head(work[t]) /\ Head(work[t]) \in Steps
         /\ Head(work[t]).do \in {"release", "free"} => Head(work[t]).block \in Blocks
         /\ Head(work[t]).do = "free" => Head(work[t]).block \in Frees(work[t])
<1>1. work[t] \in Seq(Steps) /\ Formed(work[t])
  BY Types DEF OperationsFit
<1>2. /\ First(work[t]) = Head(work[t]) /\ Head(work[t]) \in Steps
      /\ First(work[t]) = work[t][1] /\ 1 \in DOMAIN work[t]
  BY <1>1, FirstAndFinal
<1>3. Head(work[t]).do \in {"release", "free"} => Head(work[t]).block \in Blocks
  BY <1>1, <1>2 DEF Formed
<1>4. Head(work[t]).do = "free" => Head(work[t]).block \in Frees(work[t])
  BY <1>2 DEF Frees
<1> QED
  BY <1>1, <1>2, <1>3, <1>4

LEMMA FreeStep ==
  ASSUME Inv, NEW t \in Threads, Free(t)
  PROVE  Inv'
<1> DEFINE w == work[t]
           b == Head(work[t]).block
<1>1. /\ w # <<>> /\ Head(w).do = "free" /\ Continue(t, Tail(w))
      /\ phase' = [phase EXCEPT ![b] = "freed"]
      /\ count' = count /\ ctrl' = ctrl /\ calls' = calls /\ outcome' = outcome
  BY DEF Free, Doing
<1>2. /\ TypeOK /\ OperationsFit /\ Exclusive /\ FreesFit /\ MembersFit /\ Ledger
      /\ \A u \in Threads : Pinned(u)
  BY DEF Inv
<1>3. /\ w \in Seq(Steps) /\ Formed(w) /\ First(w) = Head(w)
      /\ b \in Blocks /\ b \in Frees(w)
  BY <1>1, <1>2, Leading
<1>4. phase[b] = "dying" /\ \A u \in Threads \ {t} : b \notin Frees(work[u])
  BY <1>2, <1>3 DEF FreesFit
<1>5. /\ Tail(w) \in Seq(Steps) /\ Formed(Tail(w)) /\ Released(Tail(w)) = Null
      /\ Stored(Tail(w)) = Stored(w)
      /\ \A a : Replaces(Tail(w), a) <=> Replaces(w, a)
      /\ Tail(w) # <<>> => Final(Tail(w)) = Final(w)
  BY <1>1, <1>3, TailKeeps
<1>6. Frees(Tail(w)) = Frees(w) \ {b}
  <2>1. Frees(Tail(w)) = IF First(w).do = "free" THEN Frees(w) \ {First(w).block} ELSE Frees(w)
    BY <1>1, <1>3, TailFormed
  <2> QED
    BY <1>1, <1>3, <2>1
<1>7. Released(w) = Null
  BY <1>1, <1>3 DEF Released
<1>8. Suits(Final(w), use[t])
  BY <1>2 DEF OperationsFit
<1>9. /\ count \in [Blocks -> 0 .. MaxCount] /\ phase \in [Blocks -> Phases]
      /\ ctrl \in [Arcs -> Blocks \union {Null, Absent}]
      /\ outcome \in [Threads -> Outcomes] /\ calls \in [Threads -> 0 .. MaxCalls]
  BY <1>2, Types
<1> HIDE DEF w, b
<1>10. PICK rest : rest = Tail(w)
  OBVIOUS
<1>11. Went(t, rest)
  <2>1. rest # <<>> => Suits(Final(rest), use[t])
    BY <1>5, <1>8, <1>10
  <2>2. rest \in Seq(Steps) /\ Formed(rest) /\ Continue(t, rest)
    BY <1>1, <1>5, <1>10
  <2> QED
    BY <1>2, <2>1, <2>2, Continuing
<1>12. /\ OperationsFit' /\ Exclusive'
       /\ use' \in [Threads -> Uses] /\ work' \in [Threads -> Seq(Steps)]
       /\ work'[t] = rest /\ (rest # <<>> => use'[t] = use[t])
       /\ \A u \in Threads \ {t} : work'[u] = work[u] /\ use'[u] = use[u]
  BY <1>11 DEF Went
<1>13. phase'[b] = "freed" /\ \A d \in Blocks \ {b} : phase'[d] = phase[d]
  BY <1>1, <1>3, <1>9
<1>14. TypeOK'
  <2>1. phase' \in [Blocks -> Phases]
    BY <1>1, <1>9 DEF Phases
  <2> QED
    BY <1>1, <1>9, <1>12, <2>1 DEF TypeOK, Steps, Kinds
<1>15. FreesFit'
  <2>1. Frees(work'[t]) \subseteq Frees(work[t]) /\ b \notin Frees(work'[t])
    BY <1>6, <1>10, <1>12 DEF w
  <2>2. \A d \in Blocks : phase'[d] # phase[d] =>
           d \notin Frees(work'[t]) /\ \A u \in Threads \ {t} : d \notin Frees(work[u])
    BY <1>4, <1>13, <2>1
  <2>3. \A u \in Threads : Frees(work[u]) \subseteq Blocks
    BY <1>2, FreesBlocks
  <2> QED
    BY <1>2, <1>12, <2>1, <2>2, <2>3, FreesFrame
<1>16. \A u \in Threads : Pinned(u)'
  <2>1. \A u \in Threads \ {t} : \A c \in Needs(u) : ctrl'[c] = ctrl[c]
    BY <1>1
  <2>2. \A u \in Threads \ {t} : Pinned(u)'
    BY <1>2, <1>12, <2>1, OthersPinned
  <2>3. Pinned(t)'
    <3>1. CASE rest = <<>>
      BY <1>12, <3>1, Idle DEF Pinned
    <3>2. CASE rest # <<>>
      <4>1. Final(work'[t]) = Final(work[t]) /\ use'[t] = use[t]
        BY <1>5, <1>10, <1>12, <3>2 DEF w
      <4>2. \A v \in use[t].via : ctrl'[v] = ctrl[v]
        BY <1>1
      <4>3. Final(work[t]).do \in {"retain", "swing", "use", "take"} =>
              ctrl'[use[t].source] = ctrl[use[t].source]
        BY <1>1
      <4>4. Pinned(t)
        BY <1>2
      <4> QED
        BY <1>2, <4>1, <4>2, <4>3, <4>4, PinnedKept
    <3> QED
      BY <3>1, <3>2
  <2> QED
    BY <2>2, <2>3
<1>17. MembersFit'
  BY <1>1, <1>2, <1>4, <1>13, Constants DEF MembersFit, Exists
<1>18. ASSUME NEW d \in Blocks PROVE Refs(d)' = Refs(d)
  <2>1. /\ Released(work'[t]) = Released(work[t]) /\ Stored(work'[t]) = Stored(work[t])
        /\ \A c : Replaces(work'[t], c) <=> Replaces(work[t], c)
    BY <1>5, <1>7, <1>10, <1>12 DEF w
  <2>2. \A c \in Arcs : Held'[c] = Held[c]
    BY <1>1, <1>12, <2>1, HeldSame
  <2> QED
    BY <1>12, <2>1, <2>2, SameRefs
<1>19. Ledger'
  <2>1. ASSUME NEW d \in Blocks
        PROVE  /\ Refs(d)' # 0 => phase'[d] = "live"
               /\ phase'[d] = "live" => count'[d] = Refs(d)'
    BY <1>1, <1>2, <1>4, <1>13, <1>18 DEF Ledger
  <2> QED
    BY <2>1 DEF Ledger
<1> QED
  BY <1>12, <1>14, <1>15, <1>16, <1>17, <1>19 DEF Inv

\* The reference a thread is about to release is counted.
LEMMA ReleasedLive ==
  ASSUME Inv, NEW t \in Threads, NEW b \in Blocks, Released(work[t]) = b
  PROVE  /\ phase[b] = "live" /\ count[b] = Refs(b) /\ count[b] \in 1 .. MaxCount
         /\ \A u \in Threads : b \notin Frees(work[u])
         /\ (count[b] - 1) % (MaxCount + 1) = count[b] - 1
<1>1. TypeOK /\ Ledger /\ FreesFit
  BY DEF Inv
<1>2. Letting[t] = b
  BY DEF Letting
<1>3. Refs(b) # 0 /\ phase[b] = "live" /\ count[b] = Refs(b)
  BY <1>1, <1>2, HolderLive
<1>4. count[b] \in 0 .. MaxCount
  BY <1>1, Types
<1>5. count[b] \in 1 .. MaxCount
  BY <1>3, <1>4, Constants
<1>6. \A u \in Threads : b \notin Frees(work[u])
  BY <1>1, <1>3 DEF FreesFit
<1>7. (count[b] - 1) % (MaxCount + 1) = count[b] - 1
  BY <1>5, Constants
<1> QED
  BY <1>3, <1>5, <1>6, <1>7

\* The last reference to b is being released: nobody is on the way to an Arc in
\* its payload.
LEMMA LastReleased ==
  ASSUME Inv, NEW t \in Threads, NEW b \in Blocks, Released(work[t]) = b,
         count[b] = 1, NEW m \in Members, Home[m] = b
  PROVE  \A u \in Threads : m \notin Needs(u) /\ ~Replaces(work[u], m)
<1>1. /\ TypeOK /\ OperationsFit /\ Exclusive /\ Ledger
      /\ \A u \in Threads : Pinned(u)
  BY DEF Inv
<1>2. Refs(b) = 1
  BY ReleasedLive
<1>3. Letting[t] = b
  BY DEF Letting
<1>4. Tally(Letting, Threads, b) # 0
  <2>1. IsFiniteSet(Threads)
    BY Finite
  <2>2. Tally(Letting, Threads, b) = 0 <=> Nowhere(Letting, Threads, b)
    BY <2>1, TallyFacts
  <2> QED
    BY <1>3, <2>2 DEF Nowhere
<1>5. Tally(Held, Arcs, b) = 0
  BY <1>2, <1>4, RefsFacts DEF Refs
<1>6. \A c \in Arcs : Held[c] # b
  <2>1. IsFiniteSet(Arcs)
    BY Finite
  <2>2. Tally(Held, Arcs, b) = 0 <=> Nowhere(Held, Arcs, b)
    BY <2>1, TallyFacts
  <2> QED
    BY <1>5, <2>2 DEF Nowhere
<1>7. ASSUME NEW u \in Threads PROVE m \notin Needs(u) /\ ~Replaces(work[u], m)
  <2>1. /\ ~ReachesPast(u, m)
        /\ Reaches(u, m) => Final(work[u]).do \in {"store", "take"}
    BY <1>1, <1>6, ReachedLive, Constants
  <2>2. ~Replaces(work[u], m)
    <3>1. ASSUME Replaces(work[u], m) PROVE FALSE
      <4>1. Final(work[u]).do \in {"store", "take"} /\ m = use[u].target
        BY <1>1, <3>1 DEF Replaces, OperationsFit, Suits
      <4>2. ReachesPast(u, m)
        BY <1>1, <4>1 DEF Pinned
      <4> QED
        BY <2>1, <4>2
    <3> QED
      BY <3>1
  <2>3. m \notin use[u].via
    BY <1>1, Constants DEF TypeOK, Uses
  <2>4. ASSUME m \in Needs(u) PROVE FALSE
    <3>1. /\ m = use[u].source
          /\ Final(work[u]).do \in {"retain", "swing", "use", "take"}
      BY <2>3, <2>4 DEF Needs
    <3> QED
      BY <1>1, <2>1, <3>1 DEF Pinned
  <2> QED
    BY <2>2, <2>4
<1> QED
  BY <1>7

\* The payload of b dies with the Arc in it; x is what that Arc referred to.
Dead(b, x) ==
  /\ \A m \in Members : Home[m] = b => (ctrl[m] \in Blocks => ctrl[m] = x)
  /\ x \in Blocks => \E m \in Members : Home[m] = b /\ ctrl[m] = x
  /\ \A m \in Members : Home[m] = b => ctrl'[m] = Absent
  /\ \A c \in Arcs : ~(c \in Members /\ Home[c] = b) => ctrl'[c] = ctrl[c]

LEMMA DeadTally ==
  ASSUME Inv, NEW t \in Threads, NEW b \in Blocks, Released(work[t]) = b,
         count[b] = 1, NEW x, Dead(b, x),
         \A u \in Threads \ {t} : work'[u] = work[u],
         \A c : Replaces(work'[t], c) <=> Replaces(work[t], c), NEW d \in Blocks
  PROVE  Tally(Held', Arcs, d) = Tally(Held, Arcs, d) - One(x, d)
<1>1. ASSUME NEW u \in Threads, NEW c PROVE Replaces(work'[u], c) <=> Replaces(work[u], c)
  BY <1>1
<1>2. ASSUME NEW m \in Members, Home[m] = b PROVE Held[m] = ctrl[m] /\ Held'[m] = Absent
  <2>1. \A u \in Threads : ~Replaces(work[u], m) /\ ~Replaces(work'[u], m)
    BY <1>1, <1>2, LastReleased
  <2>2. m \in Arcs /\ ctrl'[m] = Absent
    BY <1>2, Constants DEF Dead
  <2> QED
    BY <2>1, <2>2 DEF Held
<1>3. ASSUME NEW c \in Arcs, ~(c \in Members /\ Home[c] = b) PROVE Held'[c] = Held[c]
  <2>1. ctrl'[c] = ctrl[c]
    BY <1>3 DEF Dead
  <2> QED
    BY <1>3, <2>1, HeldSame
<1>4. CASE x \in Blocks
  <2>1. PICK m \in Members : Home[m] = b /\ ctrl[m] = x
    BY <1>4 DEF Dead
  <2>2. m \in Arcs /\ IsFiniteSet(Arcs)
    BY Constants, Finite
  <2>3. Alike(Held, Held', Arcs \ {m}, d)
    <3>1. ASSUME NEW c \in Arcs \ {m} PROVE Held'[c] = Held[c]
      BY <1>3, <2>1, <3>1, HomeAssumption
    <3> QED
      BY <3>1 DEF Alike
  <2>4. Tally(Held', Arcs, d) = Tally(Held, Arcs, d) - One(Held[m], d) + One(Held'[m], d)
    BY <2>2, <2>3, Recount
  <2>5. Held[m] = x /\ One(Held'[m], d) = 0
    BY <1>2, <2>1, Constants DEF One
  <2>6. One(x, d) \in Nat
    BY DEF One
  <2> QED
    BY <2>4, <2>5, <2>6, RefsFacts
<1>5. CASE x \notin Blocks
  <2>1. Alike(Held, Held', Arcs, d)
    <3>1. ASSUME NEW c \in Arcs PROVE Held'[c] = d <=> Held[c] = d
      <4>1. CASE c \in Members /\ Home[c] = b
        <5>1. Held[c] = ctrl[c] /\ Held'[c] = Absent /\ ctrl[c] \notin Blocks
          BY <1>2, <1>5, <4>1 DEF Dead
        <5> QED
          BY <5>1, Constants
      <4>2. CASE ~(c \in Members /\ Home[c] = b)
        BY <1>3, <4>2
      <4> QED
        BY <4>1, <4>2
    <3> QED
      BY <3>1 DEF Alike
  <2>2. Tally(Held', Arcs, d) = Tally(Held, Arcs, d)
    BY <2>1, SameCount
  <2>3. One(x, d) = 0
    BY <1>5 DEF One
  <2> QED
    BY <2>2, <2>3, RefsFacts
<1> QED
  BY <1>4, <1>5

\* A release that is not the last one.
LEMMA ReleaseOneStep ==
  ASSUME Inv, NEW t \in Threads, Release(t), count[Head(work[t]).block] # 1
  PROVE  Inv'
<1> DEFINE w == work[t]
           b == Head(work[t]).block
<1>1. /\ w # <<>> /\ Head(w).do = "release" /\ Continue(t, Tail(w))
      /\ count' = [count EXCEPT ![b] = (count[b] - 1) % (MaxCount + 1)]
      /\ phase' = phase /\ ctrl' = ctrl /\ calls' = calls /\ outcome' = outcome
  BY DEF Release, Doing, LastReference
<1>2. /\ TypeOK /\ OperationsFit /\ Exclusive /\ FreesFit /\ MembersFit /\ Ledger
      /\ \A u \in Threads : Pinned(u)
  BY DEF Inv
<1>3. /\ w \in Seq(Steps) /\ Formed(w) /\ First(w) = Head(w) /\ b \in Blocks
  BY <1>1, <1>2, Leading
<1>4. Released(w) = b
  BY <1>1, <1>3 DEF Released
<1>5. /\ phase[b] = "live" /\ count[b] = Refs(b) /\ count[b] \in 1 .. MaxCount
      /\ (count[b] - 1) % (MaxCount + 1) = count[b] - 1
  BY <1>3, <1>4, ReleasedLive
<1>6. /\ Tail(w) \in Seq(Steps) /\ Formed(Tail(w)) /\ Released(Tail(w)) = Null
      /\ Stored(Tail(w)) = Stored(w)
      /\ \A a : Replaces(Tail(w), a) <=> Replaces(w, a)
      /\ Tail(w) # <<>> => Final(Tail(w)) = Final(w)
  BY <1>1, <1>3, TailKeeps
<1>7. Frees(Tail(w)) = Frees(w)
  <2>1. Frees(Tail(w)) = IF First(w).do = "free" THEN Frees(w) \ {First(w).block} ELSE Frees(w)
    BY <1>1, <1>3, TailFormed
  <2>2. First(w).do # "free"
    BY <1>1, <1>3
  <2> QED
    BY <2>1, <2>2
<1>8. Suits(Final(w), use[t])
  BY <1>2 DEF OperationsFit
<1>9. /\ count \in [Blocks -> 0 .. MaxCount] /\ phase \in [Blocks -> Phases]
      /\ ctrl \in [Arcs -> Blocks \union {Null, Absent}]
      /\ outcome \in [Threads -> Outcomes] /\ calls \in [Threads -> 0 .. MaxCalls]
  BY <1>2, Types
<1> HIDE DEF w, b
<1>10. PICK rest : rest = Tail(w)
  OBVIOUS
<1>11. Went(t, rest)
  <2>1. rest # <<>> => Suits(Final(rest), use[t])
    BY <1>6, <1>8, <1>10
  <2>2. rest \in Seq(Steps) /\ Formed(rest) /\ Continue(t, rest)
    BY <1>1, <1>6, <1>10
  <2> QED
    BY <1>2, <2>1, <2>2, Continuing
<1>12. /\ OperationsFit' /\ Exclusive'
       /\ use' \in [Threads -> Uses] /\ work' \in [Threads -> Seq(Steps)]
       /\ work'[t] = rest /\ (rest # <<>> => use'[t] = use[t])
       /\ \A u \in Threads \ {t} : work'[u] = work[u] /\ use'[u] = use[u]
  BY <1>11 DEF Went
<1>13. /\ count'[b] = count[b] - 1 /\ count[b] - 1 \in 0 .. MaxCount
       /\ \A d \in Blocks \ {b} : count'[d] = count[d]
  <2>1. /\ count'[b] = (count[b] - 1) % (MaxCount + 1)
        /\ \A d \in Blocks \ {b} : count'[d] = count[d]
    BY <1>1, <1>3, <1>9
  <2>2. count[b] - 1 \in 0 .. MaxCount
    BY <1>5, Constants
  <2> QED
    BY <1>5, <2>1, <2>2
<1>14. TypeOK'
  <2>1. count' \in [Blocks -> 0 .. MaxCount]
    BY <1>1, <1>5, <1>9, <1>13
  <2> QED
    BY <1>1, <1>9, <1>12, <2>1 DEF TypeOK, Steps, Kinds
<1>15. FreesFit'
  <2>1. Frees(work'[t]) \subseteq Frees(work[t])
    BY <1>7, <1>10, <1>12 DEF w
  <2>2. \A d \in Blocks : phase'[d] # phase[d] =>
           d \notin Frees(work'[t]) /\ \A u \in Threads \ {t} : d \notin Frees(work[u])
    BY <1>1
  <2>3. \A u \in Threads : Frees(work[u]) \subseteq Blocks
    BY <1>2, FreesBlocks
  <2> QED
    BY <1>2, <1>12, <2>1, <2>2, <2>3, FreesFrame
<1>16. \A u \in Threads : Pinned(u)'
  <2>1. \A u \in Threads \ {t} : \A c \in Needs(u) : ctrl'[c] = ctrl[c]
    BY <1>1
  <2>2. \A u \in Threads \ {t} : Pinned(u)'
    BY <1>2, <1>12, <2>1, OthersPinned
  <2>3. Pinned(t)'
    <3>1. CASE rest = <<>>
      BY <1>12, <3>1, Idle DEF Pinned
    <3>2. CASE rest # <<>>
      <4>1. Final(work'[t]) = Final(work[t]) /\ use'[t] = use[t]
        BY <1>6, <1>10, <1>12, <3>2 DEF w
      <4>2. \A v \in use[t].via : ctrl'[v] = ctrl[v]
        BY <1>1
      <4>3. Final(work[t]).do \in {"retain", "swing", "use", "take"} =>
              ctrl'[use[t].source] = ctrl[use[t].source]
        BY <1>1
      <4>4. Pinned(t)
        BY <1>2
      <4> QED
        BY <1>2, <4>1, <4>2, <4>3, <4>4, PinnedKept
    <3> QED
      BY <3>1, <3>2
  <2> QED
    BY <2>2, <2>3
<1>17. MembersFit'
  BY <1>1, <1>2 DEF MembersFit, Exists
<1>18. ASSUME NEW d \in Blocks PROVE Refs(d)' = Refs(d) - One(b, d)
  <2>1. /\ Released(work'[t]) = Null /\ Released(work[t]) = b
        /\ Stored(work'[t]) = Stored(work[t])
        /\ \A c : Replaces(work'[t], c) <=> Replaces(work[t], c)
    BY <1>4, <1>6, <1>10, <1>12 DEF w
  <2>2. Alike(Held, Held', Arcs, d)
    <3>1. \A c \in Arcs : Held'[c] = Held[c]
      BY <1>1, <1>12, <2>1, HeldSame
    <3> QED
      BY <3>1 DEF Alike
  <2>3. Tally(Held', Arcs, d) = Tally(Held, Arcs, d)
    BY <2>2, SameCount
  <2>4. One(Null, d) = 0 /\ One(b, d) \in Nat /\ One(Stored(work[t]), d) \in Nat
    BY Constants DEF One
  <2>5. Refs(d)' = Tally(Held', Arcs, d)
           + Tally(Letting, Threads, d) - One(Released(work[t]), d)
           + One(Released(work'[t]), d)
           + Tally(Storing, Threads, d) - One(Stored(work[t]), d)
           + One(Stored(work'[t]), d)
    BY <1>12, Balance
  <2> QED
    BY <2>1, <2>3, <2>4, <2>5, RefsFacts DEF Refs
<1>19. Ledger'
  <2>1. ASSUME NEW d \in Blocks
        PROVE  /\ Refs(d)' # 0 => phase'[d] = "live"
               /\ phase'[d] = "live" => count'[d] = Refs(d)'
    <3>1. CASE d = b
      <4>1. Refs(d)' = Refs(b) - 1
        BY <1>18, <3>1 DEF One
      <4> QED
        BY <1>1, <1>5, <1>13, <3>1, <4>1
    <3>2. CASE d # b
      <4>1. Refs(d)' = Refs(d)
        BY <1>18, <3>2, RefsFacts DEF One
      <4> QED
        BY <1>1, <1>2, <1>13, <3>2, <4>1 DEF Ledger
    <3> QED
      BY <3>1, <3>2
  <2> QED
    BY <2>1 DEF Ledger
<1> QED
  BY <1>12, <1>14, <1>15, <1>16, <1>17, <1>19 DEF Inv

\* The last release runs ~T and goes on to free the block.
LEMMA ReleaseLastStep ==
  ASSUME Inv, NEW t \in Threads, Release(t), count[Head(work[t]).block] = 1
  PROVE  Inv'
<1> DEFINE w == work[t]
           b == Head(work[t]).block
           dying == {m \in Members : Home[m] = b /\ ctrl[m] \in Blocks}
<1>1. /\ w # <<>> /\ Head(w).do = "release" /\ Continue(t, Destruction(b) \o Tail(w))
      /\ count' = [count EXCEPT ![b] = (count[b] - 1) % (MaxCount + 1)]
      /\ phase' = [phase EXCEPT ![b] = "dying"]
      /\ ctrl' = [a \in Arcs |-> IF a \in Members /\ Home[a] = b THEN Absent ELSE ctrl[a]]
      /\ calls' = calls /\ outcome' = outcome
  BY DEF Release, Doing, LastReference
<1>2. /\ TypeOK /\ OperationsFit /\ Exclusive /\ FreesFit /\ MembersFit /\ Ledger
      /\ \A u \in Threads : Pinned(u)
  BY DEF Inv
<1>3. /\ w \in Seq(Steps) /\ Formed(w) /\ First(w) = Head(w) /\ b \in Blocks
  BY <1>1, <1>2, Leading
<1>4. Released(w) = b /\ First(w).do = "release"
  BY <1>1, <1>3 DEF Released
<1>5. /\ phase[b] = "live" /\ count[b] = Refs(b)
      /\ (count[b] - 1) % (MaxCount + 1) = count[b] - 1
      /\ \A u \in Threads : b \notin Frees(work[u])
  BY <1>3, <1>4, ReleasedLive
<1>6. count[b] = 1 /\ b \notin Frees(w)
  BY <1>5
<1>7. /\ Stored(Tail(w)) = Stored(w)
      /\ \A a : Replaces(Tail(w), a) <=> Replaces(w, a)
      /\ Tail(w) # <<>> => Final(Tail(w)) = Final(w)
      /\ Tail(w) = <<>> => Final(w) = First(w)
  BY <1>1, <1>3, <1>4, TailKeeps
<1>8. Suits(Final(w), use[t])
  BY <1>2 DEF OperationsFit
<1>9. /\ count \in [Blocks -> 0 .. MaxCount] /\ phase \in [Blocks -> Phases]
      /\ ctrl \in [Arcs -> Blocks \union {Null, Absent}]
      /\ outcome \in [Threads -> Outcomes] /\ calls \in [Threads -> 0 .. MaxCalls]
  BY <1>2, Types
<1>10. PICK x : x = IF dying = {} THEN Null ELSE ctrl[CHOOSE m \in dying : TRUE]
  OBVIOUS
<1>11. Destruction(b) = (IF x \in Blocks THEN <<ReleaseOf(x)>> ELSE <<>>) \o <<FreeOf(b)>>
  <2>1. CASE dying = {}
    BY <1>10, <2>1, Constants DEF Destruction
  <2>2. CASE dying # {}
    <3>1. (CHOOSE m \in dying : TRUE) \in dying
      BY <2>2
    <3> QED
      BY <1>10, <2>2, <3>1 DEF Destruction
  <2> QED
    BY <2>1, <2>2
<1>12. Dead(b, x)
  <2>1. \A m \in Members : Home[m] = b => m \in Arcs
    BY Constants
  <2>2. \A c \in Arcs : ctrl'[c] = IF c \in Members /\ Home[c] = b THEN Absent ELSE ctrl[c]
    BY <1>1
  <2>3. CASE dying = {}
    BY <1>10, <2>1, <2>2, <2>3, Constants DEF Dead
  <2>4. CASE dying # {}
    <3>1. PICK m \in dying : x = ctrl[m]
      BY <1>10, <2>4
    <3>2. \A n \in Members : Home[n] = b => n = m
      BY <3>1, HomeAssumption
    <3> QED
      BY <2>1, <2>2, <3>1, <3>2 DEF Dead
  <2> QED
    BY <2>3, <2>4
<1> HIDE DEF w, b, dying
<1>13. PICK rest : rest = ((IF x \in Blocks THEN <<ReleaseOf(x)>> ELSE <<>>) \o <<FreeOf(b)>>)
                            \o Tail(w)
  OBVIOUS
<1>14. /\ rest \in Seq(Steps) /\ rest # <<>> /\ Formed(rest)
       /\ Released(rest) = IF x \in Blocks THEN x ELSE Null
       /\ Final(rest) = IF Tail(w) = <<>> THEN FreeOf(b) ELSE Final(w)
       /\ Frees(rest) = Frees(w) \union {b}
  <2>1. LET v == ((IF x \in Blocks THEN <<ReleaseOf(x)>> ELSE <<>>) \o <<FreeOf(b)>>)
                   \o Tail(w)
        IN /\ v \in Seq(Steps) /\ v # <<>> /\ Formed(v)
           /\ Released(v) = IF x \in Blocks THEN x ELSE Null
           /\ Final(v) = IF Tail(w) = <<>> THEN FreeOf(b) ELSE Final(w)
           /\ Frees(v) = Frees(w) \union {b}
    BY <1>1, <1>3, <1>4, <1>6, DestructionFormed
  <2> QED
    BY <1>13, <2>1
<1>16. /\ Stored(rest) = Stored(w)
       /\ \A c : Replaces(rest, c) <=> Replaces(w, c)
  <2>1. CASE Tail(w) = <<>>
    <3>1. Final(rest).do = "free" /\ Final(w).do = "release"
      BY <1>4, <1>7, <1>14, <2>1 DEF FreeOf, Step
    <3>2. Final(rest).do \notin {"store", "take"} /\ Final(w).do \notin {"store", "take"}
      BY <3>1
    <3> QED
      BY <3>2, Quiet
  <2>2. CASE Tail(w) # <<>>
    BY <1>14, <2>2 DEF Stored, Replaces
  <2> QED
    BY <2>1, <2>2
<1>17. Suits(Final(rest), use[t])
  <2>1. CASE Tail(w) = <<>>
    BY <1>14, <2>1 DEF FreeOf, Step, Suits
  <2>2. CASE Tail(w) # <<>>
    BY <1>8, <1>14, <2>2
  <2> QED
    BY <2>1, <2>2
<1>18. Went(t, rest)
  <2>1. Continue(t, rest)
    BY <1>1, <1>11, <1>13
  <2> QED
    BY <1>2, <1>14, <1>17, <2>1, Continuing
<1>19. /\ OperationsFit' /\ Exclusive'
       /\ use' \in [Threads -> Uses] /\ work' \in [Threads -> Seq(Steps)]
       /\ work'[t] = rest /\ use'[t] = use[t]
       /\ \A u \in Threads \ {t} : work'[u] = work[u] /\ use'[u] = use[u]
  BY <1>14, <1>18 DEF Went
<1>20. /\ phase'[b] = "dying" /\ \A d \in Blocks \ {b} : phase'[d] = phase[d]
       /\ \A d \in Blocks \ {b} : count'[d] = count[d]
  BY <1>1, <1>3, <1>9
<1>21. TypeOK'
  <2>1. 1 - 1 \in 0 .. MaxCount
    BY Constants
  <2>2. count' \in [Blocks -> 0 .. MaxCount]
    BY <1>1, <1>5, <1>6, <1>9, <2>1
  <2>3. phase' \in [Blocks -> Phases]
    BY <1>1, <1>9 DEF Phases
  <2>4. ctrl' \in [Arcs -> Blocks \union {Null, Absent}]
    BY <1>1, <1>9
  <2> QED
    BY <1>1, <1>9, <1>19, <2>2, <2>3, <2>4 DEF TypeOK, Steps, Kinds
<1>22. FreesFit'
  <2>1. \A u \in Threads : Frees(work'[u]) = IF u = t THEN Frees(work[u]) \union {b}
                                             ELSE Frees(work[u])
    BY <1>14, <1>19 DEF w
  <2>2. \A u \in Threads : Frees(work[u]) \subseteq Blocks
    BY <1>2, FreesBlocks
  <2>3. ASSUME NEW u \in Threads, NEW d \in Frees(work'[u]) PROVE phase'[d] = "dying"
    BY <1>2, <1>20, <2>1, <2>2, <2>3 DEF FreesFit
  <2>4. \A u, v \in Threads : u # v => Frees(work'[u]) \cap Frees(work'[v]) = {}
    BY <1>2, <1>5, <2>1 DEF FreesFit
  <2> QED
    BY <2>3, <2>4 DEF FreesFit
<1>23. ASSUME NEW u \in Threads, NEW c \in Needs(u) PROVE ctrl'[c] = ctrl[c]
  <2>1. c \in Arcs
    BY <1>2, <1>23, NeedsRead
  <2>2. ~(c \in Members /\ Home[c] = b)
    BY <1>3, <1>4, <1>6, <1>23, LastReleased DEF w
  <2> QED
    BY <1>12, <2>1, <2>2 DEF Dead
<1>24. \A u \in Threads : Pinned(u)'
  <2>1. \A u \in Threads \ {t} : \A c \in Needs(u) : ctrl'[c] = ctrl[c]
    BY <1>23
  <2>2. \A u \in Threads \ {t} : Pinned(u)'
    BY <1>2, <1>19, <2>1, OthersPinned
  <2>3. Pinned(t)'
    <3>1. CASE Tail(w) = <<>>
      BY <1>14, <1>19, <3>1 DEF Pinned, FreeOf, Step
    <3>2. CASE Tail(w) # <<>>
      <4>1. Final(work'[t]) = Final(work[t]) /\ use'[t] = use[t]
        BY <1>14, <1>19, <3>2 DEF w
      <4>2. \A v \in use[t].via : ctrl'[v] = ctrl[v]
        BY <1>23 DEF Needs
      <4>3. Final(work[t]).do \in {"retain", "swing", "use", "take"} =>
              ctrl'[use[t].source] = ctrl[use[t].source]
        BY <1>23 DEF Needs
      <4>4. Pinned(t)
        BY <1>2
      <4> QED
        BY <1>2, <4>1, <4>2, <4>3, <4>4, PinnedKept
    <3> QED
      BY <3>1, <3>2
  <2> QED
    BY <2>2, <2>3
<1>25. MembersFit'
  <2>1. ASSUME NEW m \in Members PROVE Exists(m)' <=> phase'[Home[m]] = "live"
    <3>1. m \in Arcs /\ Home[m] \in Blocks
      BY Constants
    <3>2. CASE Home[m] = b
      BY <1>12, <1>20, <3>2 DEF Dead, Exists
    <3>3. CASE Home[m] # b
      BY <1>2, <1>12, <1>20, <3>1, <3>3 DEF Dead, Exists, MembersFit
    <3> QED
      BY <3>2, <3>3
  <2> QED
    BY <2>1 DEF MembersFit
<1>26. ASSUME NEW d \in Blocks PROVE Refs(d)' = Refs(d) - One(b, d)
  <2>1. /\ Released(work[t]) = b /\ Stored(work'[t]) = Stored(work[t])
        /\ \A c : Replaces(work'[t], c) <=> Replaces(work[t], c)
        /\ \A u \in Threads \ {t} : work'[u] = work[u]
    BY <1>4, <1>16, <1>19 DEF w
  <2>2. Tally(Held', Arcs, d) = Tally(Held, Arcs, d) - One(x, d)
    BY <1>3, <1>6, <1>12, <2>1, DeadTally
  <2>3. One(Released(work'[t]), d) = One(x, d)
    BY <1>14, <1>19, Constants DEF One
  <2>4. One(x, d) \in Nat /\ One(b, d) \in Nat /\ One(Stored(work[t]), d) \in Nat
    BY DEF One
  <2>5. Refs(d)' = Tally(Held', Arcs, d)
           + Tally(Letting, Threads, d) - One(Released(work[t]), d)
           + One(Released(work'[t]), d)
           + Tally(Storing, Threads, d) - One(Stored(work[t]), d)
           + One(Stored(work'[t]), d)
    BY <2>1, Balance
  <2> QED
    BY <2>1, <2>2, <2>3, <2>4, <2>5, RefsFacts DEF Refs
<1>27. Ledger'
  <2>1. ASSUME NEW d \in Blocks
        PROVE  /\ Refs(d)' # 0 => phase'[d] = "live"
               /\ phase'[d] = "live" => count'[d] = Refs(d)'
    <3>1. CASE d = b
      <4>1. Refs(d) = 1 /\ One(b, d) = 1
        BY <1>5, <1>6, <3>1 DEF One
      <4>2. Refs(d)' = Refs(d) - One(b, d)
        BY <1>26
      <4>3. Refs(d)' = 0
        BY <4>1, <4>2
      <4> QED
        BY <1>20, <3>1, <4>3
    <3>2. CASE d # b
      <4>1. Refs(d)' = Refs(d)
        BY <1>26, <3>2, RefsFacts DEF One
      <4> QED
        BY <1>2, <1>20, <3>2, <4>1 DEF Ledger
    <3> QED
      BY <3>1, <3>2
  <2> QED
    BY <2>1 DEF Ledger
<1> QED
  BY <1>19, <1>21, <1>22, <1>24, <1>25, <1>27 DEF Inv

LEMMA ProceedStep ==
  ASSUME Inv, NEW t \in Threads, Proceed(t)
  PROVE  Inv'
<1>1. Release(t) => Inv'
  BY ReleaseOneStep, ReleaseLastStep
<1> QED
  BY <1>1, RetainLoadStep, RetainSwingStep, RetainRetryStep, FreeStep,
     StorePointerStep, TakePointerStep, UsePayloadStep
  DEF Proceed

-----------------------------------------------------------------------------
(* The invariant holds *)

LEMMA InitInv ==
  ASSUME Init
  PROVE  Inv
<1>1. /\ \A t \in Threads : work[t] = <<>> /\ use[t] = NoUse
      /\ \A a \in Arcs : ctrl[a] = Absent
      /\ \A b \in Blocks : phase[b] = "fresh"
  BY DEF Init
<1>2. TypeOK
  <2>1. /\ NoUse \in Uses /\ <<>> \in Seq(Steps)
        /\ 0 \in 0 .. MaxCount /\ 0 \in 0 .. MaxCalls
    BY Constants DEF NoUse, Uses
  <2> QED
    BY <2>1 DEF Init, TypeOK, Steps, Kinds, Phases, Outcomes
<1>3. OperationsFit
  BY <1>1, Idle DEF OperationsFit
<1>4. Exclusive
  BY <1>1, Constants DEF Exclusive, Writes, Reads, NoUse
<1>5. FreesFit
  BY <1>1, Idle DEF FreesFit
<1>6. \A t \in Threads : Pinned(t)
  BY <1>1, Idle DEF Pinned
<1>7. MembersFit
  BY <1>1, Constants DEF MembersFit, Exists
<1>8. Ledger
  <2>1. ASSUME NEW b \in Blocks PROVE Refs(b) = 0
    <3>1. \A t \in Threads : Letting[t] = Null /\ Storing[t] = Null
      BY <1>1, Idle DEF Letting, Storing, Stored
    <3>2. \A a \in Arcs : Held[a] \in {Null, Absent}
      BY <1>1 DEF Held
    <3>3. Nowhere(Held, Arcs, b) /\ Nowhere(Letting, Threads, b) /\ Nowhere(Storing, Threads, b)
      BY <3>1, <3>2, Constants DEF Nowhere
    <3>4. /\ Tally(Held, Arcs, b) = 0 /\ Tally(Letting, Threads, b) = 0
          /\ Tally(Storing, Threads, b) = 0
      BY <3>3, Finite, TallyFacts
    <3> QED
      BY <3>4 DEF Refs
  <2> QED
    BY <1>1, <2>1 DEF Ledger
<1> QED
  BY <1>2, <1>3, <1>4, <1>5, <1>6, <1>7, <1>8 DEF Inv

LEMMA NextInv ==
  ASSUME Inv, ~MovesOutOfTarget, [Next]_vars
  PROVE  Inv'
<1>1. CASE \E t \in Threads : Call(t) \/ Proceed(t)
  BY <1>1, CallStep, ProceedStep
<1>2. CASE UNCHANGED vars
  <2>1. /\ count' = count /\ phase' = phase /\ ctrl' = ctrl /\ use' = use
        /\ work' = work /\ outcome' = outcome /\ calls' = calls
    BY <1>2 DEF vars
  <2>2. TypeOK' /\ OperationsFit' /\ Exclusive' /\ FreesFit' /\ MembersFit'
    BY <2>1 DEF Inv, TypeOK, OperationsFit, Exclusive, Writes, Reads, FreesFit,
                MembersFit, Exists
  <2>3. \A t \in Threads : Pinned(t)'
    BY <2>1 DEF Inv, Pinned, ReachesPast, Reaches, Exists
  <2>4. \A b \in Blocks : Refs(b)' = Refs(b)
    BY <2>1 DEF Refs, Held, Letting, Storing
  <2>5. Ledger'
    BY <2>1, <2>4 DEF Inv, Ledger
  <2> QED
    BY <2>2, <2>3, <2>5 DEF Inv
<1> QED
  BY <1>1, <1>2 DEF Next, Finished

LEMMA Invariance ==
  ASSUME ~MovesOutOfTarget
  PROVE  Spec => []Inv
<1>1. Init => Inv
  BY InitInv
<1>2. Inv /\ [Next]_vars => Inv'
  BY NextInv
<1> QED
  BY <1>1, <1>2, PTL DEF Spec

-----------------------------------------------------------------------------
(* Counting by place counts the references                                  *)

LEMMA Placed ==
  ASSUME NEW R, IsFiniteSet(R), NEW g
  PROVE  /\ IsFiniteSet({<<t, g[t]>> : t \in R})
         /\ Cardinality({<<t, g[t]>> : t \in R}) = Cardinality(R)
<1> DEFINE P == {<<t, g[t]>> : t \in R}
           f == [t \in R |-> <<t, g[t]>>]
<1>1. f \in [R -> P]
  OBVIOUS
<1>2. \A t, u \in R : f[t] = f[u] => t = u
  OBVIOUS
<1>3. \A p \in P : \E t \in R : f[t] = p
  OBVIOUS
<1> HIDE DEF P, f
<1>4. f \in Bijection(R, P)
  BY <1>1, <1>2, <1>3 DEF Bijection, Injection, Surjection, IsInjective
<1>5. ExistsBijection(R, P)
  BY <1>4 DEF ExistsBijection
<1>6. IsFiniteSet(P) /\ Cardinality(P) = Cardinality(R)
  BY <1>5, FS_Bijection
<1> QED
  BY <1>6 DEF P

LEMMA HoldersCounted ==
  ASSUME TypeOK, OperationsFit, NEW b \in Blocks
  PROVE  Cardinality(Holders(b)) = Tally(Held, Arcs, b)
<1>1. ASSUME NEW a \in Arcs
      PROVE  Replaced(a) <=> \E t \in Threads : Replaces(work[t], a)
  <2>1. ASSUME NEW t \in Threads
        PROVE  (\E k \in DOMAIN work[t] :
                  work[t][k].do \in {"store", "take"} /\ work[t][k].arc = a)
               <=> Replaces(work[t], a)
    <3>1. work[t] \in Seq(Steps) /\ Formed(work[t])
      BY Types DEF OperationsFit
    <3>2. CASE work[t] = <<>>
      <4>1. DOMAIN work[t] = {} /\ ~Replaces(work[t], a)
        BY <3>2, Idle, Quiet
      <4> QED
        BY <4>1
    <3>3. CASE work[t] # <<>>
      <4>1. Len(work[t]) \in DOMAIN work[t] /\ Final(work[t]) = work[t][Len(work[t])]
        BY <3>1, <3>3, FirstAndFinal
      <4>2. \A k \in DOMAIN work[t] : work[t][k].do \in {"store", "take"} => k = Len(work[t])
        BY <3>1 DEF Formed
      <4> QED
        BY <4>1, <4>2 DEF Replaces
    <3> QED
      BY <3>2, <3>3
  <2> QED
    BY <2>1 DEF Replaced
<1>2. Holders(b) = {a \in Arcs : Held[a] = b}
  <2>1. ASSUME NEW a \in Arcs PROVE Held[a] = b <=> ctrl[a] = b /\ ~Replaced(a)
    BY <1>1, Constants DEF Held
  <2> QED
    BY <2>1 DEF Holders
<1> QED
  BY <1>2 DEF Tally

LEMMA ObligationsCounted ==
  ASSUME TypeOK, OperationsFit, NEW b \in Blocks
  PROVE  /\ IsFiniteSet(Obligations(b))
         /\ Cardinality(Obligations(b))
              = Tally(Letting, Threads, b) + Tally(Storing, Threads, b)
<1> DEFINE R == {t \in Threads : Letting[t] = b}
           S == {t \in Threads : Storing[t] = b}
           OfR == {<<t, [u \in Threads |-> 1][t]>> : t \in R}
           OfS == {<<t, [u \in Threads |-> Len(work[u])][t]>> : t \in S}
<1>1. ASSUME NEW t \in Threads
      PROVE  /\ Letting[t] = b => /\ work[t] # <<>> /\ 1 \in DOMAIN work[t]
                                  /\ work[t][1].do = "release" /\ work[t][1].block = b
             /\ Storing[t] = b => /\ work[t] # <<>> /\ Len(work[t]) \in DOMAIN work[t]
                                  /\ work[t][Len(work[t])].do = "store"
                                  /\ work[t][Len(work[t])].block = b
             /\ \A k \in DOMAIN work[t] :
                  /\ work[t][k].do = "release" /\ work[t][k].block = b =>
                       k = 1 /\ Letting[t] = b
                  /\ work[t][k].do = "store" /\ work[t][k].block = b =>
                       k = Len(work[t]) /\ Storing[t] = b
  <2>1. work[t] \in Seq(Steps) /\ Formed(work[t])
    BY Types DEF OperationsFit
  <2>2. CASE work[t] = <<>>
    <3>1. DOMAIN work[t] = {} /\ Letting[t] = Null /\ Storing[t] = Null
      BY <2>2, Idle, Quiet DEF Letting, Storing
    <3> QED
      BY <3>1, Constants
  <2>3. CASE work[t] # <<>>
    <3>1. /\ 1 \in DOMAIN work[t] /\ First(work[t]) = work[t][1]
          /\ Len(work[t]) \in DOMAIN work[t] /\ Final(work[t]) = work[t][Len(work[t])]
      BY <2>1, <2>3, FirstAndFinal
    <3>2. /\ Letting[t] = Released(work[t]) /\ Storing[t] = Stored(work[t])
      BY DEF Letting, Storing
    <3>3. /\ Released(work[t]) = IF work[t][1].do = "release" THEN work[t][1].block ELSE Null
          /\ Stored(work[t]) = IF work[t][Len(work[t])].do = "store"
                               THEN work[t][Len(work[t])].block ELSE Null
      BY <3>1 DEF Released, Stored
    <3>4. \A k \in DOMAIN work[t] : /\ work[t][k].do = "release" => k = 1
                                    /\ work[t][k].do = "store" => k = Len(work[t])
      BY <2>1 DEF Formed
    <3> QED
      BY <2>3, <3>1, <3>2, <3>3, <3>4, Constants
  <2> QED
    BY <2>2, <2>3
<1>2. Obligations(b) = OfR \union OfS
  <2>1. ASSUME NEW o \in Obligations(b) PROVE o \in OfR \union OfS
    <3>1. PICK t \in Threads : \E k \in DOMAIN work[t] :
            /\ o = <<t, k>>
            /\ work[t][k].do \in {"release", "store"} /\ work[t][k].block = b
      BY <2>1 DEF Obligations
    <3>2. PICK k \in DOMAIN work[t] :
            /\ o = <<t, k>>
            /\ work[t][k].do \in {"release", "store"} /\ work[t][k].block = b
      BY <3>1
    <3>3. (k = 1 /\ t \in R) \/ (k = Len(work[t]) /\ t \in S)
      BY <1>1, <3>2
    <3> QED
      BY <3>2, <3>3
  <2>2. ASSUME NEW o \in OfR PROVE o \in Obligations(b)
    <3>1. PICK t \in R : o = <<t, 1>>
      BY <2>2
    <3> QED
      BY <1>1, <3>1 DEF Obligations
  <2>3. ASSUME NEW o \in OfS PROVE o \in Obligations(b)
    <3>1. PICK t \in S : o = <<t, Len(work[t])>>
      BY <2>3
    <3> QED
      BY <1>1, <3>1 DEF Obligations
  <2> QED
    BY <2>1, <2>2, <2>3
<1>3. OfR \cap OfS = {}
  <2>1. ASSUME NEW t \in R, NEW u \in S, <<t, 1>> = <<u, Len(work[u])>> PROVE FALSE
    BY <1>1, <2>1
  <2> QED
    BY <2>1
<1>4. IsFiniteSet(R) /\ IsFiniteSet(S)
  <2>1. R \in SUBSET Threads /\ S \in SUBSET Threads
    OBVIOUS
  <2> HIDE DEF R, S
  <2> QED
    BY <2>1, Finite, FS_Subset
<1>5. /\ IsFiniteSet(OfR) /\ Cardinality(OfR) = Cardinality(R)
      /\ IsFiniteSet(OfS) /\ Cardinality(OfS) = Cardinality(S)
  <2> HIDE DEF R, S
  <2> QED
    BY <1>4, Placed
<1> HIDE DEF OfR, OfS
<1>6. /\ IsFiniteSet(OfR \union OfS)
      /\ Cardinality(OfR \union OfS)
           = Cardinality(OfR) + Cardinality(OfS) - Cardinality(OfR \cap OfS)
  BY <1>5, FS_Union
<1>7. Cardinality(OfR \cap OfS) = 0
  BY <1>3, FS_EmptySet
<1>8. Cardinality(OfR) = Tally(Letting, Threads, b) /\ Cardinality(OfS) = Tally(Storing, Threads, b)
  BY <1>5 DEF Tally
<1> QED
  BY <1>2, <1>6, <1>7, <1>8, RefsFacts

-----------------------------------------------------------------------------
(* Theorems *)

\* Every field of an Arc keeps its type, and no count passes its limit or wraps
\* ("The count never wraps", sync.hpp:824).
THEOREM TypeCorrect ==
  ASSUME ~MovesOutOfTarget
  PROVE  Spec => []TypeOK
<1>1. Inv => TypeOK
  BY DEF Inv
<1> QED
  BY <1>1, Invariance, PTL

\* strong_count_ counts exactly the references that exist (retain_strong,
\* release_strong, sync.hpp:831-878).
THEOREM CountIsExact ==
  ASSUME ~MovesOutOfTarget
  PROVE  Spec => []CountExact
<1>1. ASSUME Inv PROVE CountExact
  <2>1. TypeOK /\ OperationsFit /\ Ledger
    BY <1>1 DEF Inv
  <2>2. ASSUME NEW b \in Blocks, phase[b] = "live"
        PROVE  count[b] = Cardinality(Holders(b)) + Cardinality(Obligations(b))
    <3>1. Cardinality(Holders(b)) = Tally(Held, Arcs, b)
      BY <2>1, HoldersCounted
    <3>2. Cardinality(Obligations(b))
            = Tally(Letting, Threads, b) + Tally(Storing, Threads, b)
      BY <2>1, ObligationsCounted
    <3>3. count[b] = Refs(b)
      BY <2>1, <2>2 DEF Ledger
    <3> QED
      BY <3>1, <3>2, <3>3, RefsFacts DEF Refs
  <2> QED
    BY <2>2 DEF CountExact
<1>2. Inv => CountExact
  BY <1>1
<1> QED
  BY <1>2, Invariance, PTL

\* A payload is destroyed only when nobody owns a reference any more, and nobody
\* gains one afterwards ("Exactly one caller observes the transition from one to
\* zero", sync.hpp:863).
THEOREM DestroyedBlocksAreUnowned ==
  ASSUME ~MovesOutOfTarget
  PROVE  Spec => []DestroyedUnowned
<1>1. ASSUME Inv PROVE DestroyedUnowned
  <2>1. TypeOK /\ OperationsFit /\ Ledger
    BY <1>1 DEF Inv
  <2>2. ASSUME NEW b \in Blocks, phase[b] \in {"dying", "freed"}
        PROVE  Holders(b) = {} /\ Obligations(b) = {}
    <3>1. Refs(b) = 0
      BY <2>1, <2>2 DEF Ledger
    <3>2. Tally(Held, Arcs, b) = 0 /\ Tally(Letting, Threads, b) + Tally(Storing, Threads, b) = 0
      BY <3>1, RefsFacts DEF Refs
    <3>3. Cardinality(Holders(b)) = 0 /\ Cardinality(Obligations(b)) = 0
      BY <2>1, <3>2, HoldersCounted, ObligationsCounted
    <3>4. IsFiniteSet(Obligations(b))
      BY <2>1, ObligationsCounted
    <3>5. IsFiniteSet(Holders(b))
      <4>1. Holders(b) \in SUBSET Arcs
        BY DEF Holders
      <4> QED
        BY <4>1, Finite, FS_Subset
    <3> QED
      BY <3>3, <3>4, <3>5, FS_EmptySet
  <2> QED
    BY <2>2 DEF DestroyedUnowned, Owned
<1>2. Inv => DestroyedUnowned
  BY <1>1
<1> QED
  BY <1>2, Invariance, PTL

\* No step touches a block that is destroyed, or an Arc that died with its
\* payload (operator=, sync.hpp:1889-1920; require_value, 2095).
THEOREM AccessesAreAlive ==
  ASSUME ~MovesOutOfTarget
  PROVE  Spec => []AccessesAlive
<1>1. ASSUME Inv PROVE AccessesAlive
  <2>1. /\ TypeOK /\ OperationsFit /\ Exclusive /\ FreesFit /\ MembersFit /\ Ledger
        /\ \A t \in Threads : Pinned(t)
    BY <1>1 DEF Inv
  <2>2. ASSUME NEW t \in Threads, NEW s, work[t] # <<>>, s = Head(work[t])
        PROVE  /\ s.do \in {"retain", "swing", "release", "use"} => phase[s.block] = "live"
               /\ s.do = "free" => phase[s.block] = "dying"
               /\ s.do \in {"store", "take"} => s.arc \in Locals \/ Exists(s.arc)
               /\ s.do = "take" => Exists(use[t].source)
    <3>1. /\ work[t] \in Seq(Steps) /\ Formed(work[t]) /\ First(work[t]) = s
          /\ s.do \in {"release", "free"} => s.block \in Blocks
          /\ s.do = "free" => s.block \in Frees(work[t])
      BY <2>1, <2>2, Leading
    <3>2. s.do = "release" => phase[s.block] = "live"
      <4>1. s.do = "release" => Released(work[t]) = s.block
        BY <3>1 DEF Released
      <4> QED
        BY <1>1, <3>1, <4>1, ReleasedLive
    <3>3. s.do = "free" => phase[s.block] = "dying"
      BY <2>1, <3>1 DEF FreesFit
    <3>4. s.do \in {"retain", "swing", "use", "store", "take"} => Final(work[t]) = s
      BY <2>1, <2>2, OneLeft
    <3>5. s.do \in {"retain", "swing", "use"} => phase[s.block] = "live"
      BY <2>1, <3>4, SourceLive
    <3>6. s.do \in {"store", "take"} => s.arc \in Locals \/ Exists(s.arc)
      <4>1. ASSUME s.do \in {"store", "take"}, s.arc \notin Locals PROVE Exists(s.arc)
        <5>1. /\ s.arc = use[t].target /\ s.arc \in Arcs /\ ReachesPast(t, s.arc)
          BY <2>1, <3>4, <4>1 DEF OperationsFit, Suits, Pinned
        <5>2. s.arc \in Members
          BY <4>1, <5>1, Constants
        <5>3. phase[Home[s.arc]] = "live"
          BY <2>1, <5>1, <5>2, ReachedLive
        <5> QED
          BY <2>1, <5>2, <5>3 DEF MembersFit
      <4> QED
        BY <4>1
    <3>7. s.do = "take" => Exists(use[t].source)
      BY <2>1, <3>4 DEF Pinned
    <3> QED
      BY <3>2, <3>3, <3>5, <3>6, <3>7
  <2> QED
    BY <2>2 DEF AccessesAlive
<1>2. Inv => AccessesAlive
  BY <1>1
<1> QED
  BY <1>2, Invariance, PTL
=============================================================================
