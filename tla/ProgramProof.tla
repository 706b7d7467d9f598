---------------------------- MODULE ProgramProof ----------------------------
(***************************************************************************)
(* The configuration and the violation policy of a unit, proved for every   *)
(* set of translation units whose source leaves the compiler's own macros   *)
(* alone, and for any number of threads, handlers and reports.              *)
(***************************************************************************)
EXTENDS Program, SequenceTheorems, TLAPS

\* Every header includes only headers below it.
Rank == [h \in Headers |->
           CASE h \in {"config", "backend", "violation"} -> 0
             [] h \in {"handle", "owner", "scope"} -> 1
             [] h = "sync" -> 2
             [] h = "memsafe" -> 3]

\* The headers whose macros the text of h uses.
Needed(h) == CASE h \in {"handle", "owner", "sync"} -> {"backend", "violation"}
               [] h = "scope" -> {"config"}
               [] OTHER -> {}

LEMMA Ranks == Rank \in [Headers -> 0 .. 3]
BY DEF Rank, Headers

LEMMA IncludesFit ==
  ASSUME NEW h \in Headers
  PROVE  /\ Includes(h) \in Seq(Headers)
         /\ \A i \in 1 .. Len(Includes(h)) : Rank[Includes(h)[i]] < Rank[h]
         /\ \A g \in Needed(h) : \E i \in 1 .. Len(Includes(h)) : Includes(h)[i] = g
<1> USE DEF Headers, Rank, Needed
<1>1. CASE h = "handle"
  <2> DEFINE s == <<"backend", "config", "violation">>
  <2>1. Includes(h) = s
    BY <1>1 DEF Includes
  <2>2. s \in Seq(Headers) /\ Len(s) = 3 /\ s[1] = "backend" /\ s[2] = "config"
        /\ s[3] = "violation"
    OBVIOUS
  <2> HIDE DEF s
  <2> QED
    BY <1>1, <2>1, <2>2
<1>2. CASE h = "owner"
  <2> DEFINE s == <<"config", "backend", "violation">>
  <2>1. Includes(h) = s
    BY <1>2 DEF Includes
  <2>2. s \in Seq(Headers) /\ Len(s) = 3 /\ s[1] = "config" /\ s[2] = "backend"
        /\ s[3] = "violation"
    OBVIOUS
  <2> HIDE DEF s
  <2> QED
    BY <1>2, <2>1, <2>2
<1>3. CASE h = "scope"
  <2> DEFINE s == <<"config">>
  <2>1. Includes(h) = s
    BY <1>3 DEF Includes
  <2>2. s \in Seq(Headers) /\ Len(s) = 1 /\ s[1] = "config"
    OBVIOUS
  <2> HIDE DEF s
  <2> QED
    BY <1>3, <2>1, <2>2
<1>4. CASE h = "sync"
  <2> DEFINE s == <<"config", "backend", "owner", "violation">>
  <2>1. Includes(h) = s
    BY <1>4 DEF Includes
  <2>2. s \in Seq(Headers) /\ Len(s) = 4 /\ s[1] = "config" /\ s[2] = "backend"
        /\ s[3] = "owner" /\ s[4] = "violation"
    OBVIOUS
  <2> HIDE DEF s
  <2> QED
    BY <1>4, <2>1, <2>2
<1>5. CASE h = "memsafe"
  <2> DEFINE s == <<"config", "violation", "backend", "owner", "handle", "scope", "sync">>
  <2>1. Includes(h) = s
    BY <1>5 DEF Includes
  <2>2. s \in Seq(Headers) /\ Len(s) = 7 /\ s[1] = "config" /\ s[2] = "violation"
        /\ s[3] = "backend" /\ s[4] = "owner" /\ s[5] = "handle" /\ s[6] = "scope"
        /\ s[7] = "sync"
    OBVIOUS
  <2> HIDE DEF s
  <2> QED
    BY <1>5, <2>1, <2>2
<1>6. CASE h \in {"config", "backend", "violation"}
  <2>1. Includes(h) = <<>>
    BY <1>6 DEF Includes
  <2> QED
    BY <1>6, <2>1
<1> QED
  BY <1>1, <1>2, <1>3, <1>4, <1>5, <1>6

-----------------------------------------------------------------------------
\* The unit is one of those explored, and what is read of it is its own.
UnitFits ==
  /\ unit \in Units /\ source \subseteq unit.source
  /\ opened \subseteq Headers /\ DOMAIN seen \subseteq opened

Entries == [part : {"guard", "text"}, header : Headers]

\* The headers being read are nested by rank: the text of one waits behind
\* headers of lower rank only, and behind the headers it needs unless these
\* have been read.
IncludeOrder ==
  /\ todo \in Seq(Entries)
  /\ \A k \in 1 .. Len(todo) : todo[k].part = "text" =>
       /\ todo[k].header \in opened \ DOMAIN seen
       /\ \A j \in 1 .. k - 1 : Rank[todo[j].header] < Rank[todo[k].header]
       /\ \A g \in Needed(todo[k].header) :
            g \in DOMAIN seen \/ \E j \in 1 .. k - 1 : todo[j].header = g
  /\ \A h \in opened :
       h \in DOMAIN seen \/ \E k \in 1 .. Len(todo) : todo[k] = Entry("text", h)
  /\ \A h \in DOMAIN seen : Needed(h) \subseteq DOMAIN seen

LEMMA HeadOfTodo ==
  ASSUME UnitFits, IncludeOrder, NEW part, Reading(part)
  PROVE  /\ Len(todo) \in Nat /\ Len(todo) >= 1
         /\ todo[1] = Head(todo) /\ todo[1] \in Entries /\ todo[1].header \in Headers
         /\ todo[1].part = part
         /\ Tail(todo) \in Seq(Entries) /\ Len(Tail(todo)) = Len(todo) - 1
         /\ \A k \in 1 .. Len(todo) - 1 : Tail(todo)[k] = todo[k + 1]
         /\ \A k \in 1 .. Len(todo) : todo[k] \in Entries
<1>1. todo \in Seq(Entries) /\ todo # <<>>
  BY DEF IncludeOrder, Reading
<1>2. Len(todo) \in Nat /\ Len(todo) >= 1 /\ todo[1] = Head(todo)
  BY <1>1
<1>3. Tail(todo) \in Seq(Entries) /\ Len(Tail(todo)) = Len(todo) - 1
  BY <1>1
<1>4. \A k \in 1 .. Len(todo) - 1 : Tail(todo)[k] = todo[k + 1]
  BY <1>1, <1>2
<1>5. \A k \in 1 .. Len(todo) : todo[k] \in Entries
  BY <1>1
<1> QED
  BY <1>1, <1>2, <1>3, <1>4, <1>5 DEF Entries, Reading

\* The text of a header is read when the headers it needs have been.
LEMMA NeededFirst ==
  ASSUME UnitFits, IncludeOrder, Reading("text")
  PROVE  LET h == Head(todo).header IN
           h \in Headers /\ h \notin DOMAIN seen /\ Needed(h) \subseteq DOMAIN seen
<1>1. /\ Len(todo) \in Nat /\ Len(todo) >= 1 /\ todo[1] = Head(todo)
      /\ todo[1].part = "text" /\ todo[1].header \in Headers
  BY HeadOfTodo
<1>2. 1 \in 1 .. Len(todo)
  BY <1>1
<1> QED
  BY <1>1, <1>2 DEF IncludeOrder

LEMMA TextKeepsOrder ==
  ASSUME UnitFits, IncludeOrder, HeaderText
  PROVE  UnitFits' /\ IncludeOrder'
<1> DEFINE h == Head(todo).header
           n == Len(todo)
<1>1. /\ n \in Nat /\ n >= 1 /\ todo[1] = Head(todo) /\ h \in Headers
      /\ todo[1].part = "text" /\ todo[1] \in Entries
      /\ Tail(todo) \in Seq(Entries) /\ Len(Tail(todo)) = n - 1
      /\ \A k \in 1 .. n - 1 : Tail(todo)[k] = todo[k + 1]
      /\ \A k \in 1 .. n : todo[k] \in Entries
  BY HeadOfTodo DEF HeaderText
<1>2. /\ DOMAIN seen' = DOMAIN seen \union {h} /\ todo' = Tail(todo)
      /\ UNCHANGED <<unit, source, opened>>
  BY DEF HeaderText, Define
<1>3. h \in opened /\ h \notin DOMAIN seen /\ Needed(h) \subseteq DOMAIN seen
  <2>1. 1 \in 1 .. n
    BY <1>1
  <2> QED
    BY <1>1, <2>1 DEF IncludeOrder
<1>4. UnitFits'
  BY <1>2, <1>3 DEF UnitFits
<1>5. Rank \in [Headers -> Int] /\ \A k \in 1 .. n : todo[k].header \in Headers
  BY <1>1, Ranks DEF Entries
<1> HIDE DEF n, h
<1>6. ASSUME NEW k \in 1 .. n - 1, todo'[k].part = "text"
      PROVE  /\ todo'[k].header \in opened' \ DOMAIN seen'
             /\ \A j \in 1 .. k - 1 : Rank[todo'[j].header] < Rank[todo'[k].header]
             /\ \A g \in Needed(todo'[k].header) :
                  g \in DOMAIN seen' \/ \E j \in 1 .. k - 1 : todo'[j].header = g
  <2>1. k + 1 \in 1 .. n /\ todo'[k] = todo[k + 1] /\ k \in Nat
    BY <1>1, <1>2
  <2>2. /\ todo[k + 1].header \in opened \ DOMAIN seen
        /\ \A j \in 1 .. k : Rank[todo[j].header] < Rank[todo[k + 1].header]
        /\ \A g \in Needed(todo[k + 1].header) :
             g \in DOMAIN seen \/ \E j \in 1 .. k : todo[j].header = g
    <3>1. todo[k + 1].part = "text" /\ (k + 1) - 1 = k
      BY <1>6, <2>1
    <3> QED
      BY <2>1, <3>1 DEF IncludeOrder, n
  <2>3. 1 \in 1 .. k /\ \A j \in 1 .. k - 1 : j + 1 \in 1 .. k /\ todo'[j] = todo[j + 1]
    BY <1>1, <1>2, <2>1
  <2>4. \A j \in 1 .. k : j = 1 \/ (j - 1 \in 1 .. k - 1 /\ todo'[j - 1] = todo[j])
    <3>1. \A j \in 1 .. k : j = 1 \/ (j - 1 \in 1 .. k - 1 /\ (j - 1) + 1 = j)
      BY <2>1
    <3> QED
      BY <2>3, <3>1
  <2>5. todo[1].header = h
    BY <1>1 DEF h
  <2>6. todo[k + 1].header # h
    <3>1. Rank[h] < Rank[todo[k + 1].header] /\ Rank[h] \in Int
      BY <1>1, <1>5, <2>2, <2>3, <2>5
    <3> QED
      BY <3>1
  <2>7. todo'[k].header \in opened' \ DOMAIN seen'
    BY <1>2, <2>1, <2>2, <2>6
  <2>8. \A j \in 1 .. k - 1 : Rank[todo'[j].header] < Rank[todo'[k].header]
    BY <2>1, <2>2, <2>3
  <2>9. ASSUME NEW g \in Needed(todo'[k].header)
        PROVE  g \in DOMAIN seen' \/ \E j \in 1 .. k - 1 : todo'[j].header = g
    <3>1. g \in DOMAIN seen \/ \E j \in 1 .. k : todo[j].header = g
      BY <2>1, <2>2
    <3> QED
      BY <1>2, <2>4, <2>5, <3>1
  <2> QED
    BY <2>7, <2>8, <2>9
<1>7. ASSUME NEW g \in opened'
      PROVE  g \in DOMAIN seen' \/ \E k \in 1 .. n - 1 : todo'[k] = Entry("text", g)
  <2>1. g \in DOMAIN seen \/ \E k \in 1 .. n : todo[k] = Entry("text", g)
    BY <1>2 DEF IncludeOrder, n
  <2>2. ASSUME NEW k \in 1 .. n, todo[k] = Entry("text", g), k # 1
        PROVE  k - 1 \in 1 .. n - 1 /\ todo'[k - 1] = Entry("text", g)
    <3>1. k - 1 \in 1 .. n - 1 /\ (k - 1) + 1 = k
      BY <1>1, <2>2
    <3> QED
      BY <1>1, <1>2, <2>2, <3>1
  <2>3. todo[1] = Entry("text", g) => g = h
    BY <1>1 DEF Entry, h
  <2> QED
    BY <1>2, <2>1, <2>2, <2>3
<1>8. \A g \in DOMAIN seen' : Needed(g) \subseteq DOMAIN seen'
  BY <1>2, <1>3 DEF IncludeOrder
<1>9. todo' \in Seq(Entries) /\ Len(todo') = n - 1
  BY <1>1, <1>2
<1> QED
  BY <1>4, <1>6, <1>7, <1>8, <1>9 DEF IncludeOrder

\* An include guard opens a header in front of what is left, or passes it over.
LEMMA GuardKeepsOrder ==
  ASSUME UnitFits, IncludeOrder, IncludeGuard
  PROVE  UnitFits' /\ IncludeOrder'
<1> PICK h : h = Head(todo).header
  OBVIOUS
<1> PICK m : m = Len(todo)
  OBVIOUS
<1>1. /\ m \in Nat /\ m >= 1 /\ todo[1] = Head(todo) /\ h \in Headers /\ todo[1].header = h
      /\ todo[1].part = "guard" /\ todo[1] \in Entries
      /\ Tail(todo) \in Seq(Entries) /\ Len(Tail(todo)) = m - 1
      /\ \A k \in 1 .. m - 1 : Tail(todo)[k] = todo[k + 1]
      /\ \A k \in 1 .. m : todo[k] \in Entries
  BY HeadOfTodo DEF IncludeGuard
<1>2. UNCHANGED <<unit, source, seen>>
  BY DEF IncludeGuard
<1>3. Rank \in [Headers -> Int] /\ \A k \in 1 .. m : todo[k].header \in Headers
  BY <1>1, Ranks DEF Entries
<1>4. \A k \in 1 .. m : todo[k].part = "text" =>
        /\ todo[k].header \in opened \ DOMAIN seen
        /\ \A j \in 1 .. k - 1 : Rank[todo[j].header] < Rank[todo[k].header]
        /\ \A g \in Needed(todo[k].header) :
             g \in DOMAIN seen \/ \E j \in 1 .. k - 1 : todo[j].header = g
  BY DEF IncludeOrder
<1>5. \A g \in opened : g \in DOMAIN seen \/ \E k \in 1 .. m : todo[k] = Entry("text", g)
  BY DEF IncludeOrder
<1>6. \A g \in DOMAIN seen' : Needed(g) \subseteq DOMAIN seen'
  BY <1>2 DEF IncludeOrder
<1>7. ASSUME NEW k \in 2 .. m, todo[k].part = "text"
      PROVE  Rank[h] < Rank[todo[k].header] /\ todo[k].header # h
  <2>1. k \in 1 .. m /\ 1 \in 1 .. k - 1
    BY <1>1
  <2>2. Rank[h] < Rank[todo[k].header] /\ Rank[h] \in Int
    BY <1>1, <1>3, <1>4, <1>7, <2>1
  <2> QED
    BY <2>2
<1>8. CASE h \in opened
  <2>1. todo' = Tail(todo) /\ opened' = opened
    BY <1>8 DEF IncludeGuard
  <2>2. h \in DOMAIN seen
    <3>1. SUFFICES ASSUME NEW k \in 1 .. m, todo[k] = Entry("text", h) PROVE FALSE
      BY <1>5, <1>8
    <3>2. k = 1 \/ k \in 2 .. m
      BY <1>1
    <3> QED
      BY <1>1, <1>7, <3>1, <3>2 DEF Entry
  <2>3. ASSUME NEW k \in 1 .. m - 1, todo'[k].part = "text"
        PROVE  /\ todo'[k].header \in opened' \ DOMAIN seen'
               /\ \A j \in 1 .. k - 1 : Rank[todo'[j].header] < Rank[todo'[k].header]
               /\ \A g \in Needed(todo'[k].header) :
                    g \in DOMAIN seen' \/ \E j \in 1 .. k - 1 : todo'[j].header = g
    <3>1. k + 1 \in 1 .. m /\ todo'[k] = todo[k + 1] /\ k \in Nat /\ (k + 1) - 1 = k
      BY <1>1, <2>1
    <3>2. /\ todo[k + 1].header \in opened \ DOMAIN seen
          /\ \A j \in 1 .. k : Rank[todo[j].header] < Rank[todo[k + 1].header]
          /\ \A g \in Needed(todo[k + 1].header) :
               g \in DOMAIN seen \/ \E j \in 1 .. k : todo[j].header = g
      BY <1>4, <2>3, <3>1
    <3>3. \A j \in 1 .. k - 1 : j + 1 \in 1 .. k /\ todo'[j] = todo[j + 1]
      BY <1>1, <2>1, <3>1
    <3>4. \A j \in 1 .. k : j = 1 \/ (j - 1 \in 1 .. k - 1 /\ todo'[j - 1] = todo[j])
      <4>1. \A j \in 1 .. k : j = 1 \/ (j - 1 \in 1 .. k - 1 /\ (j - 1) + 1 = j)
        BY <3>1
      <4> QED
        BY <3>3, <4>1
    <3>5. \A j \in 1 .. k - 1 : Rank[todo'[j].header] < Rank[todo'[k].header]
      BY <3>1, <3>2, <3>3
    <3>6. ASSUME NEW g \in Needed(todo'[k].header)
          PROVE  g \in DOMAIN seen' \/ \E j \in 1 .. k - 1 : todo'[j].header = g
      <4>1. g \in DOMAIN seen \/ \E j \in 1 .. k : todo[j].header = g
        BY <3>1, <3>2
      <4> QED
        BY <1>1, <1>2, <2>2, <3>4, <4>1
    <3> QED
      BY <1>2, <2>1, <3>1, <3>2, <3>5, <3>6
  <2>4. ASSUME NEW g \in opened'
        PROVE  g \in DOMAIN seen' \/ \E k \in 1 .. m - 1 : todo'[k] = Entry("text", g)
    <3>1. g \in DOMAIN seen \/ \E k \in 1 .. m : todo[k] = Entry("text", g)
      BY <1>5, <2>1
    <3>2. ASSUME NEW k \in 1 .. m, todo[k] = Entry("text", g)
          PROVE  k - 1 \in 1 .. m - 1 /\ todo'[k - 1] = Entry("text", g)
      <4>1. k # 1
        BY <1>1, <3>2 DEF Entry
      <4>2. k - 1 \in 1 .. m - 1 /\ (k - 1) + 1 = k
        BY <1>1, <4>1
      <4> QED
        BY <1>1, <2>1, <3>2, <4>2
    <3> QED
      BY <1>2, <3>1, <3>2
  <2>5. todo' \in Seq(Entries) /\ Len(todo') = m - 1
    BY <1>1, <2>1
  <2>6. UnitFits'
    BY <1>2, <2>1 DEF UnitFits
  <2> QED
    BY <1>6, <2>3, <2>4, <2>5, <2>6 DEF IncludeOrder
<1>9. CASE h \notin opened
  <2>0. h \notin DOMAIN seen
    <3>1. DOMAIN seen \subseteq opened
      BY DEF UnitFits
    <3> QED
      BY <1>9, <3>1
  <2> PICK n : n = Len(Includes(h))
    OBVIOUS
  <2> DEFINE inner == [i \in 1 .. n |-> Entry("guard", Includes(h)[i])]
  <2>1. /\ n \in Nat /\ \A i \in 1 .. n : Includes(h)[i] \in Headers
        /\ \A i \in 1 .. n : Rank[Includes(h)[i]] < Rank[h]
        /\ \A g \in Needed(h) : \E i \in 1 .. n : Includes(h)[i] = g
    BY <1>1, IncludesFit
  <2>2. opened' = opened \union {h} /\ todo' = inner \o <<Entry("text", h)>> \o Tail(todo)
    BY <1>9 DEF IncludeGuard
  <2>a. h \in opened' \ DOMAIN seen'
    <3>1. \A o, s : h \in o /\ h \notin s => h \in o \ s
      OBVIOUS
    <3>2. h \in opened'
      BY <2>2
    <3>3. h \notin DOMAIN seen'
      BY <1>2, <2>0
    <3> QED
      BY <3>1, <3>2, <3>3
  <2>3. inner \in Seq(Entries) /\ Len(inner) = n
    <3>1. \A i \in 1 .. n : Entry("guard", Includes(h)[i]) \in Entries
      BY <2>1 DEF Entry, Entries
    <3> QED
      BY <2>1, <3>1
  <2>4. \A i \in 1 .. n : inner[i].part = "guard" /\ inner[i].header = Includes(h)[i]
    BY DEF Entry
  <2>5. <<Entry("text", h)>> \in Seq(Entries) /\ Len(<<Entry("text", h)>>) = 1
        /\ <<Entry("text", h)>>[1] = Entry("text", h)
    BY <1>1 DEF Entry, Entries
  <2> HIDE DEF inner
  <2>f. PICK front : front = inner \o <<Entry("text", h)>>
    OBVIOUS
  <2>6. /\ front \in Seq(Entries) /\ Len(front) = n + 1
        /\ \A i \in 1 .. n : front[i] = inner[i]
        /\ front[n + 1] = Entry("text", h)
    <3>1. PICK end : end = <<Entry("text", h)>>
      OBVIOUS
    <3>2. inner \in Seq(Entries) /\ end \in Seq(Entries) /\ Len(end) = 1
          /\ end[1] = Entry("text", h)
      BY <2>3, <2>5, <3>1
    <3>3. /\ inner \o end \in Seq(Entries) /\ Len(inner \o end) = Len(inner) + Len(end)
          /\ \A i \in 1 .. Len(inner) + Len(end) :
               (inner \o end)[i] = IF i <= Len(inner) THEN inner[i] ELSE end[i - Len(inner)]
      BY <3>2, ConcatProperties
    <3>4. /\ Len(inner \o end) = n + 1
          /\ \A i \in 1 .. n + 1 :
               (inner \o end)[i] = IF i <= n THEN inner[i] ELSE end[i - n]
      BY <2>3, <3>2, <3>3
    <3>5. /\ \A i \in 1 .. n : i \in 1 .. n + 1 /\ i <= n
          /\ n + 1 \in 1 .. n + 1 /\ ~(n + 1 <= n) /\ (n + 1) - n = 1
      BY <2>1
    <3>6. front = inner \o end
      BY <2>f, <3>1
    <3> QED
      BY <3>2, <3>3, <3>4, <3>5, <3>6
  <2>7. /\ todo' \in Seq(Entries) /\ Len(todo') = n + m
        /\ \A i \in 1 .. n + 1 : todo'[i] = front[i]
        /\ \A i \in n + 2 .. n + m : todo'[i] = Tail(todo)[i - (n + 1)]
    <3>0. PICK rest : rest = Tail(todo)
      OBVIOUS
    <3>1. todo' = front \o rest
      BY <2>2, <2>f, <3>0
    <3>2. /\ n \in Nat /\ m \in Nat /\ front \in Seq(Entries) /\ rest \in Seq(Entries)
          /\ Len(front) = n + 1 /\ Len(rest) = m - 1
      BY <1>1, <2>1, <2>6, <3>0
    <3>3. /\ front \o rest \in Seq(Entries) /\ Len(front \o rest) = n + m
          /\ \A i \in 1 .. n + m : (front \o rest)[i] =
               IF i <= n + 1 THEN front[i] ELSE rest[i - (n + 1)]
      <4>1. front \in Seq(Entries) /\ rest \in Seq(Entries)
        BY <3>2
      <4>2. /\ front \o rest \in Seq(Entries)
            /\ Len(front \o rest) = Len(front) + Len(rest)
            /\ \A i \in 1 .. Len(front) + Len(rest) : (front \o rest)[i] =
                 IF i <= Len(front) THEN front[i] ELSE rest[i - Len(front)]
        BY <4>1, ConcatProperties
      <4>3. Len(front) + Len(rest) = n + m
        <5>1. n \in Int /\ m \in Int /\ Len(front) = n + 1 /\ Len(rest) = m - 1
          BY <3>2
        <5>2. (n + 1) + (m - 1) = n + m
          BY <5>1
        <5> QED
          BY <5>1, <5>2
      <4>4. Len(front) = n + 1
        BY <3>2
      <4>5. \A i \in 1 .. n + m : i \in 1 .. Len(front) + Len(rest)
        BY <4>3
      <4>6. ASSUME NEW i \in 1 .. n + m
            PROVE  (front \o rest)[i] = IF i <= n + 1 THEN front[i] ELSE rest[i - (n + 1)]
        BY <4>2, <4>4, <4>5
      <4> QED
        BY <4>2, <4>3, <4>6
    <3>4. \A i \in 1 .. n + 1 : i \in 1 .. n + m /\ i <= n + 1
      BY <1>1, <3>2
    <3>5. \A i \in n + 2 .. n + m : i \in 1 .. n + m /\ ~(i <= n + 1)
      BY <3>2
    <3>6. \A i \in 1 .. n + 1 : (front \o rest)[i] = front[i]
      BY <3>3, <3>4
    <3>7. \A i \in n + 2 .. n + m : (front \o rest)[i] = rest[i - (n + 1)]
      BY <3>3, <3>5
    <3> QED
      BY <3>0, <3>1, <3>3, <3>6, <3>7
  <2>8. \A i \in n + 2 .. n + m : i - n \in 2 .. m /\ todo'[i] = todo[i - n]
    <3>1. \A i \in n + 2 .. n + m : /\ i - (n + 1) \in 1 .. m - 1 /\ i - n \in 2 .. m
                                    /\ (i - (n + 1)) + 1 = i - n
      BY <1>1, <2>1
    <3>2. ASSUME NEW i \in n + 2 .. n + m
          PROVE  todo'[i] = todo[i - n]
      <4>1. todo'[i] = Tail(todo)[i - (n + 1)]
        BY <2>7
      <4>2. Tail(todo)[i - (n + 1)] = todo[(i - (n + 1)) + 1]
        BY <1>1, <3>1
      <4> QED
        BY <3>1, <4>1, <4>2
    <3> QED
      BY <3>1, <3>2
  <2>9. /\ \A i \in 1 .. n : todo'[i].part = "guard" /\ todo'[i].header = Includes(h)[i]
        /\ todo'[n + 1].part = "text" /\ todo'[n + 1].header = h
        /\ todo'[n + 1] = Entry("text", h)
    BY <2>1, <2>4, <2>6, <2>7 DEF Entry
  <2>10. \A k \in 2 .. m : k + n \in n + 2 .. n + m /\ todo'[k + n] = todo[k]
    <3>1. \A k \in 2 .. m : k + n \in n + 2 .. n + m /\ (k + n) - n = k
      BY <1>1, <2>1
    <3> QED
      BY <2>8, <3>1
  <2>11. ASSUME NEW k \in 1 .. n + m, todo'[k].part = "text"
         PROVE  /\ todo'[k].header \in opened' \ DOMAIN seen'
                /\ \A j \in 1 .. k - 1 : Rank[todo'[j].header] < Rank[todo'[k].header]
                /\ \A g \in Needed(todo'[k].header) :
                     g \in DOMAIN seen' \/ \E j \in 1 .. k - 1 : todo'[j].header = g
    <3>1. k = n + 1 \/ k \in n + 2 .. n + m
      <4>0. n \in Nat /\ m \in Nat /\ k \in 1 .. n + m
        BY <1>1, <2>1
      <4>1. k \in 1 .. n \/ k = n + 1 \/ k \in n + 2 .. n + m
        BY <4>0
      <4> QED
        BY <2>9, <2>11, <4>1
    <3>2. CASE k = n + 1
      <4>1. k - 1 = n /\ todo'[k].header = h
        <5>1. \A l \in Nat : (l + 1) - 1 = l
          OBVIOUS
        <5> QED
          BY <2>1, <2>9, <3>2, <5>1
      <4> QED
        <5>1. todo'[k].header \in opened' \ DOMAIN seen'
          BY <2>a, <4>1, Zenon
        <5>2. \A j \in 1 .. k - 1 : Rank[todo'[j].header] < Rank[todo'[k].header]
          BY <2>1, <2>9, <4>1
        <5>3. \A g \in Needed(todo'[k].header) : \E j \in 1 .. k - 1 : todo'[j].header = g
          BY <2>1, <2>9, <4>1
        <5> QED
          BY <5>1, <5>2, <5>3, Zenon
    <3>3. CASE k \in n + 2 .. n + m
      <4> PICK i : i = k - n
        OBVIOUS
      <4>1. /\ i \in 2 .. m /\ i \in 1 .. m /\ todo'[k] = todo[i] /\ k = i + n
            /\ todo[i].part = "text"
        <5>1. i \in 2 .. m /\ todo'[k] = todo[i]
          BY <2>8, <3>3
        <5>2. i \in 1 .. m /\ k = i + n
          <6>1. n \in Nat /\ m \in Nat
            BY <1>1, <2>1
          <6>2. n + i = k
            BY <3>3, <6>1
          <6> QED
            BY <5>1, <6>1, <6>2
        <5> QED
          BY <2>11, <5>1, <5>2
      <4>2. /\ todo[i].header \in opened \ DOMAIN seen
            /\ \A j \in 1 .. i - 1 : Rank[todo[j].header] < Rank[todo[i].header]
            /\ \A g \in Needed(todo[i].header) :
                 g \in DOMAIN seen \/ \E j \in 1 .. i - 1 : todo[j].header = g
        BY <1>4, <4>1
      <4>3. Rank[h] < Rank[todo[i].header]
        BY <1>7, <4>1
      <4>4. ASSUME NEW j \in 1 .. k - 1
            PROVE  Rank[todo'[j].header] < Rank[todo'[k].header]
        <5>0. n \in Nat /\ m \in Nat /\ i \in 2 .. m /\ k = i + n /\ j \in 1 .. k - 1
          BY <1>1, <2>1, <4>1
        <5>1. j \in 1 .. n \/ j = n + 1 \/ (j \in n + 2 .. n + m /\ j - n \in 1 .. i - 1)
          BY <5>0
        <5>2. CASE j \in 1 .. n
          <6>1. Rank[todo'[j].header] < Rank[h] /\ todo'[j].header \in Headers
            BY <2>1, <2>9, <5>2
          <6>2. Rank[todo'[j].header] \in Int /\ Rank[h] \in Int
                /\ Rank[todo'[k].header] \in Int
            BY <1>1, <1>3, <4>1, <6>1
          <6>3. Rank[h] < Rank[todo'[k].header]
            BY <4>1, <4>3
          <6> QED
            BY <6>1, <6>2, <6>3
        <5>3. CASE j = n + 1
          BY <2>9, <4>1, <4>3, <5>3
        <5>4. CASE j \in n + 2 .. n + m /\ j - n \in 1 .. i - 1
          BY <2>8, <4>1, <4>2, <5>4
        <5> QED
          BY <5>1, <5>2, <5>3, <5>4
      <4>5. ASSUME NEW g \in Needed(todo'[k].header)
            PROVE  g \in DOMAIN seen' \/ \E j \in 1 .. k - 1 : todo'[j].header = g
        <5>1. g \in DOMAIN seen \/ \E j \in 1 .. i - 1 : todo[j].header = g
          BY <4>1, <4>2
        <5>2. ASSUME NEW j \in 1 .. i - 1, todo[j].header = g
              PROVE  \E l \in 1 .. k - 1 : todo'[l].header = g
          <6>1. CASE j = 1
            <7>1. n + 1 \in 1 .. k - 1
              <8>1. n \in Nat /\ m \in Nat
                BY <1>1, <2>1
              <8>2. i \in 2 .. m /\ k = i + n
                BY <4>1
              <8> QED
                BY <8>1, <8>2
            <7> QED
              BY <1>1, <2>9, <5>2, <6>1, <7>1
          <6>2. CASE j # 1
            <7>1. j \in 2 .. m /\ j + n \in 1 .. k - 1
              BY <1>1, <2>1, <4>1, <6>2
            <7> QED
              BY <2>10, <5>2, <7>1
          <6> QED
            BY <6>1, <6>2
        <5> QED
          BY <1>2, <5>1, <5>2
      <4> QED
        BY <1>2, <2>2, <4>1, <4>2, <4>4, <4>5
    <3> QED
      BY <3>1, <3>2, <3>3
  <2>12. ASSUME NEW g \in opened'
         PROVE  g \in DOMAIN seen' \/ \E k \in 1 .. n + m : todo'[k] = Entry("text", g)
    <3>1. CASE g = h
      <4>1. n + 1 \in 1 .. n + m
        BY <1>1, <2>1
      <4> QED
        BY <2>9, <3>1, <4>1
    <3>2. CASE g # h
      <4>1. g \in DOMAIN seen \/ \E k \in 1 .. m : todo[k] = Entry("text", g)
        BY <1>5, <2>2, <3>2
      <4>2. ASSUME NEW k \in 1 .. m, todo[k] = Entry("text", g)
            PROVE  \E l \in 1 .. n + m : todo'[l] = Entry("text", g)
        <5>1. k # 1
          BY <1>1, <4>2 DEF Entry
        <5>2. k \in 2 .. m /\ k + n \in 1 .. n + m
          BY <1>1, <2>1, <5>1
        <5> QED
          BY <2>10, <4>2, <5>2
      <4> QED
        BY <1>2, <4>1, <4>2
    <3> QED
      BY <3>1, <3>2
  <2>13. UnitFits'
    BY <1>1, <1>2, <2>2 DEF UnitFits
  <2> QED
    BY <1>6, <2>7, <2>11, <2>12, <2>13 DEF IncludeOrder
<1> QED
  BY <1>8, <1>9

-----------------------------------------------------------------------------
(* The directives *)

\* The table u is t with macros of N added and macros of M redefined or dropped.
Changes(t, u, M, N) ==
  /\ DOMAIN t \ M \subseteq DOMAIN u /\ DOMAIN u \subseteq DOMAIN t \union N
  /\ \A m \in DOMAIN t \ M : u[m] = t[m]

LEMMA ChangesTwice ==
  ASSUME NEW t, NEW u, NEW w, NEW M, NEW N, NEW P, NEW Q,
         Changes(t, u, M, N), Changes(u, w, P, Q)
  PROVE  Changes(t, w, M \union P, N \union Q)
BY DEF Changes

LEMMA DefineChanges ==
  ASSUME NEW t, NEW m, NEW v
  PROVE  /\ Changes(t, Define(t, m, v), {m}, {m})
         /\ m \in DOMAIN Define(t, m, v) /\ Define(t, m, v)[m] = v
BY DEF Define, Changes

LEMMA MissingChanges ==
  ASSUME NEW t, NEW m, NEW v
  PROVE  /\ Changes(t, DefineIfMissing(t, m, v), {}, {m})
         /\ m \in DOMAIN DefineIfMissing(t, m, v)
         /\ m \notin DOMAIN t => DefineIfMissing(t, m, v)[m] = v
<1>1. CASE m \in DOMAIN t
  BY <1>1 DEF DefineIfMissing, Defined, Changes
<1>2. CASE m \notin DOMAIN t
  <2>1. DefineIfMissing(t, m, v) = Define(t, m, v)
    BY <1>2 DEF DefineIfMissing, Defined
  <2> QED
    BY <1>2, <2>1, DefineChanges DEF Changes
<1> QED
  BY <1>1, <1>2

LEMMA UndefineChanges ==
  ASSUME NEW t, NEW m
  PROVE  Changes(t, Undefine(t, m), {m}, {})
BY DEF Undefine, Changes

\* What the compiler says of itself survives every other macro.
LEMMA ProbesKept ==
  ASSUME NEW t, NEW u, NEW M, NEW N, Changes(t, u, M, N),
         M \cap Reserved = {}, N \cap Reserved = {}
  PROVE  /\ \A m \in Reserved : m \in DOMAIN t <=> m \in DOMAIN u
         /\ \A m \in Reserved \cap DOMAIN t : u[m] = t[m]
BY DEF Changes

LEMMA ReportedKept ==
  ASSUME NEW t, NEW u, NEW M, NEW N, Changes(t, u, M, N), "__cplusplus" \in DOMAIN t,
         M \cap Reserved = {}, N \cap Reserved = {}
  PROVE  Reported(u) = Reported(t)
<1>1. "_MSVC_LANG" \in Reserved /\ "__cplusplus" \in Reserved
  BY DEF Reserved
<1> QED
  BY <1>1, ProbesKept DEF Reported, Defined

LEMMA HasIncludeKept ==
  ASSUME NEW t, NEW u, NEW M, NEW N, Changes(t, u, M, N),
         M \cap Reserved = {}, N \cap Reserved = {}
  PROVE  HasInclude(u, "source_location") <=> HasInclude(t, "source_location")
<1>1. "__has_include" \in Reserved
  BY DEF Reserved
<1>2. "__has_include" \in DOMAIN t <=> "__has_include" \in DOMAIN u
  BY <1>1, ProbesKept
<1> QED
  BY <1>2 DEF HasInclude, Defined

LEMMA HasConceptsText ==
  ASSUME NEW t
  PROVE  /\ Changes(t, HasConcepts(t), {"HAS_CONCEPTS"}, {"HAS_CONCEPTS"})
         /\ "HAS_CONCEPTS" \in DOMAIN HasConcepts(t)
         /\ t["CXX17_COMPAT"] = 0 \/ HasConcepts(t)["HAS_CONCEPTS"] = 0
<1> DEFINE v == Flag(/\ t["CXX17_COMPAT"] = 0
                     /\ Defined(t, "__cpp_concepts") /\ t["__cpp_concepts"] >= 201907)
<1>1. HasConcepts(t) = Define(t, "HAS_CONCEPTS", v)
  BY SMT DEF HasConcepts, Flag
<1>2. t["CXX17_COMPAT"] = 0 \/ v = 0
  BY DEF Flag
<1> HIDE DEF v
<1>3. /\ Changes(t, Define(t, "HAS_CONCEPTS", v), {"HAS_CONCEPTS"}, {"HAS_CONCEPTS"})
      /\ "HAS_CONCEPTS" \in DOMAIN Define(t, "HAS_CONCEPTS", v)
      /\ Define(t, "HAS_CONCEPTS", v)["HAS_CONCEPTS"] = v
  BY DefineChanges
<1> QED
  BY <1>1, <1>2, <1>3

LEMMA HasSourceLocationText ==
  ASSUME NEW t
  PROVE  /\ Changes(t, HasSourceLocation(t), {"HAS_SOURCE_LOCATION"},
                    {"HAS_SOURCE_LOCATION"})
         /\ "HAS_SOURCE_LOCATION" \in DOMAIN HasSourceLocation(t)
         /\ t["CXX17_COMPAT"] = 0 \/ HasSourceLocation(t)["HAS_SOURCE_LOCATION"] = 0
         /\ HasSourceLocation(t)["HAS_SOURCE_LOCATION"] = 1
              <=> /\ t["CXX17_COMPAT"] = 0 /\ t["LANG_VERSION"] >= 202002
                  /\ HasInclude(t, "source_location")
<1> DEFINE v == Flag(/\ t["CXX17_COMPAT"] = 0 /\ t["LANG_VERSION"] >= 202002
                     /\ HasInclude(t, "source_location"))
<1>1. HasSourceLocation(t) = Define(t, "HAS_SOURCE_LOCATION", v)
  BY SMT DEF HasSourceLocation, Flag
<1>2. /\ t["CXX17_COMPAT"] = 0 \/ v = 0
      /\ v = 1 <=> /\ t["CXX17_COMPAT"] = 0 /\ t["LANG_VERSION"] >= 202002
                   /\ HasInclude(t, "source_location")
  BY DEF Flag
<1> HIDE DEF v
<1>3. /\ Changes(t, Define(t, "HAS_SOURCE_LOCATION", v), {"HAS_SOURCE_LOCATION"},
                 {"HAS_SOURCE_LOCATION"})
      /\ "HAS_SOURCE_LOCATION" \in DOMAIN Define(t, "HAS_SOURCE_LOCATION", v)
      /\ Define(t, "HAS_SOURCE_LOCATION", v)["HAS_SOURCE_LOCATION"] = v
  BY DefineChanges
<1> QED
  BY <1>1, <1>2, <1>3

ConfigMacros == {"LANG_VERSION", "CXX17_COMPAT", "HAS_CONCEPTS", "HAS_SOURCE_LOCATION"}

\* Compatibility mode wins over the compiler; otherwise the language version
\* the compiler reports decides, unless the build gives another.
LEMMA ConfigText ==
  ASSUME NEW t, "__cplusplus" \in DOMAIN t
  PROVE  /\ Changes(t, ConfigHpp(t), {"HAS_CONCEPTS", "HAS_SOURCE_LOCATION"}, ConfigMacros)
         /\ ConfigMacros \subseteq DOMAIN ConfigHpp(t)
         /\ ConfigHpp(t)["CXX17_COMPAT"] # 0 =>
              ConfigHpp(t)["HAS_CONCEPTS"] = 0 /\ ConfigHpp(t)["HAS_SOURCE_LOCATION"] = 0
         /\ "LANG_VERSION" \notin DOMAIN t =>
              (ConfigHpp(t)["HAS_SOURCE_LOCATION"] = 1
                 <=> /\ ConfigHpp(t)["CXX17_COMPAT"] = 0 /\ Reported(t) >= 202002
                     /\ HasInclude(t, "source_location"))
<1>1. PICK a : a = LangVersion(t)
  OBVIOUS
<1>2. PICK b : b = Cxx17Compat(a)
  OBVIOUS
<1>3. PICK c : c = HasConcepts(b)
  OBVIOUS
<1>4. PICK d : d = HasSourceLocation(c)
  OBVIOUS
<1>5. d = ConfigHpp(t)
  BY <1>1, <1>2, <1>3, <1>4 DEF ConfigHpp
<1>6. /\ Changes(t, a, {}, {"LANG_VERSION"}) /\ "LANG_VERSION" \in DOMAIN a
      /\ "LANG_VERSION" \notin DOMAIN t => a["LANG_VERSION"] = Reported(t)
  BY <1>1, MissingChanges DEF LangVersion
<1>7. Changes(a, b, {}, {"CXX17_COMPAT"}) /\ "CXX17_COMPAT" \in DOMAIN b
  BY <1>2, MissingChanges DEF Cxx17Compat
<1>8. /\ Changes(b, c, {"HAS_CONCEPTS"}, {"HAS_CONCEPTS"}) /\ "HAS_CONCEPTS" \in DOMAIN c
      /\ b["CXX17_COMPAT"] = 0 \/ c["HAS_CONCEPTS"] = 0
  BY <1>3, HasConceptsText
<1>9. /\ Changes(c, d, {"HAS_SOURCE_LOCATION"}, {"HAS_SOURCE_LOCATION"})
      /\ "HAS_SOURCE_LOCATION" \in DOMAIN d
      /\ c["CXX17_COMPAT"] = 0 \/ d["HAS_SOURCE_LOCATION"] = 0
      /\ d["HAS_SOURCE_LOCATION"] = 1
           <=> /\ c["CXX17_COMPAT"] = 0 /\ c["LANG_VERSION"] >= 202002
               /\ HasInclude(c, "source_location")
  BY <1>4, HasSourceLocationText
<1>10. /\ d["CXX17_COMPAT"] = c["CXX17_COMPAT"] /\ c["CXX17_COMPAT"] = b["CXX17_COMPAT"]
       /\ c["LANG_VERSION"] = a["LANG_VERSION"] /\ d["HAS_CONCEPTS"] = c["HAS_CONCEPTS"]
  BY <1>6, <1>7, <1>8, <1>9 DEF Changes
<1>11. Changes(t, c, {"HAS_CONCEPTS"}, {"LANG_VERSION", "CXX17_COMPAT", "HAS_CONCEPTS"})
  BY <1>6, <1>7, <1>8 DEF Changes
<1>12. HasInclude(c, "source_location") <=> HasInclude(t, "source_location")
  <2>1. /\ {"HAS_CONCEPTS"} \cap Reserved = {}
        /\ {"LANG_VERSION", "CXX17_COMPAT", "HAS_CONCEPTS"} \cap Reserved = {}
    BY DEF Reserved
  <2> QED
    BY <1>11, <2>1, HasIncludeKept
<1>13. Changes(t, d, {"HAS_CONCEPTS", "HAS_SOURCE_LOCATION"}, ConfigMacros)
  BY <1>9, <1>11 DEF Changes, ConfigMacros
<1>14. ConfigMacros \subseteq DOMAIN d
  BY <1>6, <1>7, <1>8, <1>9 DEF Changes, ConfigMacros
<1>15. d["CXX17_COMPAT"] # 0 => d["HAS_CONCEPTS"] = 0 /\ d["HAS_SOURCE_LOCATION"] = 0
  BY <1>8, <1>9, <1>10
<1>16. "LANG_VERSION" \notin DOMAIN t =>
         (d["HAS_SOURCE_LOCATION"] = 1
            <=> /\ d["CXX17_COMPAT"] = 0 /\ Reported(t) >= 202002
                /\ HasInclude(t, "source_location"))
  BY <1>6, <1>9, <1>10, <1>12
<1> QED
  BY <1>5, <1>13, <1>14, <1>15, <1>16

\* The header's own probe decides, except where it fails and the build has
\* predefined its result.
LEMMA LocationProbeText ==
  ASSUME NEW t
  PROVE  LET d == "DETAIL_HAS_SOURCE_LOCATION" IN
         /\ Changes(t, DetailHasSourceLocation(t), {d}, {d})
         /\ d \in DOMAIN DetailHasSourceLocation(t)
         /\ DetailHasSourceLocation(t)[d] # 0
              <=> \/ /\ t["CXX17_COMPAT"] = 0 /\ Reported(t) >= 202002
                     /\ HasInclude(t, "source_location")
                  \/ d \in DOMAIN t /\ t[d] # 0
<1> DEFINE d == "DETAIL_HAS_SOURCE_LOCATION"
           found == /\ t["CXX17_COMPAT"] = 0 /\ Reported(t) >= 202002
                    /\ HasInclude(t, "source_location")
<1>1. PICK u : u = DetailHasSourceLocation(t)
  OBVIOUS
<1>2. CASE found
  <2>1. u = Define(t, d, 1)
    BY <1>1, <1>2 DEF DetailHasSourceLocation
  <2>2. Changes(t, u, {d}, {d}) /\ d \in DOMAIN u /\ u[d] = 1
    BY <2>1, DefineChanges
  <2> QED
    BY <1>1, <1>2, <2>2
<1>3. CASE ~found
  <2>1. u = DefineIfMissing(t, d, 0)
    BY <1>1, <1>3 DEF DetailHasSourceLocation
  <2>2. /\ Changes(t, u, {}, {d}) /\ d \in DOMAIN u
        /\ d \notin DOMAIN t => u[d] = 0
    BY <2>1, MissingChanges
  <2>3. Changes(t, u, {d}, {d}) /\ (d \in DOMAIN t => u[d] = t[d])
    BY <2>2 DEF Changes
  <2> QED
    BY <1>1, <1>3, <2>2, <2>3
<1> QED
  BY <1>2, <1>3

ViolationMacros == {"ON_VIOLATION", "RELEASE_CHECKS", "CXX17_COMPAT", "VIOLATE"}
Dropped == {"VIOLATE", "DETAIL_HAS_SOURCE_LOCATION"}

\* The policy is the unit's own value or "abort"; the location macro follows
\* the compiler's own language version and compatibility mode, unless the build
\* defines the probe's result.
LEMMA ViolationText ==
  ASSUME NEW t, "__cplusplus" \in DOMAIN t
  PROVE  /\ Changes(t, ViolationHpp(t), Dropped, ViolationMacros)
         /\ ViolationMacros \subseteq DOMAIN ViolationHpp(t)
         /\ "ON_VIOLATION" \notin DOMAIN t => ViolationHpp(t)["ON_VIOLATION"] = 1
         /\ ViolationHpp(t)["VIOLATE"] \in {"source_location", "file_line_func"}
         /\ ViolationHpp(t)["VIOLATE"] = "source_location"
              <=> \/ /\ ViolationHpp(t)["CXX17_COMPAT"] = 0 /\ Reported(t) >= 202002
                     /\ HasInclude(t, "source_location")
                  \/ /\ "DETAIL_HAS_SOURCE_LOCATION" \in DOMAIN t
                     /\ t["DETAIL_HAS_SOURCE_LOCATION"] # 0
<1> DEFINE x == "DETAIL_HAS_SOURCE_LOCATION"
<1>1. PICK a : a = OnViolation(t)
  OBVIOUS
<1>2. PICK b : b = ReleaseChecks(a)
  OBVIOUS
<1>3. PICK c : c = Cxx17Compat(b)
  OBVIOUS
<1>4. PICK p : p = DetailHasSourceLocation(c)
  OBVIOUS
<1>5. PICK v : v = Violate(p)
  OBVIOUS
<1>6. PICK d : d = Undefine(v, x)
  OBVIOUS
<1>7. d = ViolationHpp(t)
  BY <1>1, <1>2, <1>3, <1>4, <1>5, <1>6 DEF ViolationHpp
<1>8. /\ Changes(t, a, {}, {"ON_VIOLATION"}) /\ "ON_VIOLATION" \in DOMAIN a
      /\ "ON_VIOLATION" \notin DOMAIN t => a["ON_VIOLATION"] = PolicyValues["abort"]
  BY <1>1, MissingChanges DEF OnViolation
<1>9. Changes(a, b, {}, {"RELEASE_CHECKS"}) /\ "RELEASE_CHECKS" \in DOMAIN b
  BY <1>2, MissingChanges DEF ReleaseChecks
<1>10. Changes(b, c, {}, {"CXX17_COMPAT"}) /\ "CXX17_COMPAT" \in DOMAIN c
  BY <1>3, MissingChanges DEF Cxx17Compat
<1>11. /\ Changes(c, p, {x}, {x}) /\ x \in DOMAIN p
       /\ p[x] # 0 <=> \/ /\ c["CXX17_COMPAT"] = 0 /\ Reported(c) >= 202002
                          /\ HasInclude(c, "source_location")
                       \/ x \in DOMAIN c /\ c[x] # 0
  BY <1>4, LocationProbeText
<1>12. /\ Changes(p, v, {"VIOLATE"}, {"VIOLATE"}) /\ "VIOLATE" \in DOMAIN v
       /\ v["VIOLATE"] = IF p[x] # 0 THEN "source_location" ELSE "file_line_func"
  BY <1>5, DefineChanges DEF Violate
<1>13. Changes(v, d, {x}, {}) /\ DOMAIN d = DOMAIN v \ {x}
  BY <1>6, UndefineChanges DEF Undefine
<1>14. Changes(t, c, {}, {"ON_VIOLATION", "RELEASE_CHECKS", "CXX17_COMPAT"})
  BY <1>8, <1>9, <1>10 DEF Changes
<1>15. /\ "ON_VIOLATION" \in DOMAIN c /\ "RELEASE_CHECKS" \in DOMAIN c
       /\ c["ON_VIOLATION"] = a["ON_VIOLATION"]
  BY <1>8, <1>9, <1>10 DEF Changes
<1>16. Changes(c, d, Dropped, {"VIOLATE"})
  BY <1>11, <1>12, <1>13 DEF Changes, Dropped
<1>17. /\ d["CXX17_COMPAT"] = c["CXX17_COMPAT"] /\ d["ON_VIOLATION"] = c["ON_VIOLATION"]
       /\ d["VIOLATE"] = v["VIOLATE"]
  <2>1. d["VIOLATE"] = v["VIOLATE"]
    BY <1>12, <1>13 DEF Changes
  <2> QED
    BY <1>10, <1>15, <1>16, <2>1 DEF Changes, Dropped
<1>18. Changes(t, d, Dropped, ViolationMacros)
  BY <1>14, <1>16 DEF Changes, ViolationMacros
<1>19. ViolationMacros \subseteq DOMAIN d
  <2>1. "VIOLATE" \in DOMAIN d
    BY <1>12, <1>13
  <2> QED
    BY <1>10, <1>15, <1>16, <2>1 DEF Changes, ViolationMacros, Dropped
<1>20. "ON_VIOLATION" \notin DOMAIN t => d["ON_VIOLATION"] = 1
  BY <1>8, <1>15, <1>17 DEF PolicyValues
<1>21. /\ HasInclude(c, "source_location") <=> HasInclude(t, "source_location")
       /\ Reported(c) = Reported(t)
  <2>1. /\ {} \cap Reserved = {}
        /\ {"ON_VIOLATION", "RELEASE_CHECKS", "CXX17_COMPAT"} \cap Reserved = {}
    BY DEF Reserved
  <2> QED
    BY <1>14, <2>1, HasIncludeKept, ReportedKept
<1>22. (x \in DOMAIN c <=> x \in DOMAIN t) /\ (x \in DOMAIN t => c[x] = t[x])
  BY <1>14 DEF Changes
<1>23. /\ d["VIOLATE"] \in {"source_location", "file_line_func"}
       /\ d["VIOLATE"] = "source_location"
            <=> \/ /\ d["CXX17_COMPAT"] = 0 /\ Reported(t) >= 202002
                   /\ HasInclude(t, "source_location")
                \/ x \in DOMAIN t /\ t[x] # 0
  <2>1. d["VIOLATE"] = IF p[x] # 0 THEN "source_location" ELSE "file_line_func"
    BY <1>12, <1>17
  <2>2. p[x] # 0 <=> \/ /\ d["CXX17_COMPAT"] = 0 /\ Reported(t) >= 202002
                        /\ HasInclude(t, "source_location")
                     \/ x \in DOMAIN t /\ t[x] # 0
    BY <1>11, <1>17, <1>21, <1>22
  <2> HIDE DEF x
  <2> QED
    BY <2>1, <2>2
<1> QED
  BY <1>7, <1>18, <1>19, <1>20, <1>23

-----------------------------------------------------------------------------
(* The back-end macros *)

Switches == {Switch[b] : b \in Backends}
Annotations == {"LIFETIMEBOUND", "CORO_LIFETIMEBOUND", "OWNED", "POINTER", "LOCK_HELD"}

LEMMA SwitchNames ==
  /\ Switches = {"BACKEND_CLANG", "BACKEND_GCC", "BACKEND_MSVC", "BACKEND_RUSTY_CPP",
                 "BACKEND_CHERI"}
  /\ \A b, c \in Backends : Switch[b] = Switch[c] => b = c
  /\ Switches \cap Reserved = {}
BY DEF Switches, Switch, Backends, Reserved

\* A selection is kept; without one a known compiler selects its own back end.
LEMMA AutodetectSelects ==
  ASSUME NEW t
  PROVE  LET tool == DOMAIN t IN
         /\ Changes(t, Autodetect(t), {}, Switches)
         /\ Selected(t) # {} => Selected(Autodetect(t)) = Selected(t)
         /\ Selected(t) = {} => Selected(Autodetect(t)) =
              CASE "__clang__" \in tool -> {"CLANG"}
                [] "__clang__" \notin tool /\ "__GNUC__" \in tool -> {"GCC"}
                [] {"__clang__", "__GNUC__"} \cap tool = {} /\ "_MSC_VER" \in tool ->
                     {"MSVC"}
                [] OTHER -> {}
<1>1. CASE Selected(t) # {}
  BY <1>1 DEF Autodetect, Changes
<1>2. CASE Selected(t) = {}
  <2>1. Autodetect(t) = DetectFamily(t)
    BY <1>2 DEF Autodetect
  <2>2. ASSUME NEW b \in Backends
        PROVE  /\ Changes(t, Define(t, Switch[b], 1), {}, Switches)
               /\ Selected(Define(t, Switch[b], 1)) = {b}
    <3>1. Switch[b] \notin DOMAIN t /\ Switch[b] \in Switches
      BY <1>2 DEF Selected, Defined, Switches
    <3>2. /\ Changes(t, Define(t, Switch[b], 1), {Switch[b]}, {Switch[b]})
          /\ Switch[b] \in DOMAIN Define(t, Switch[b], 1)
      BY DefineChanges
    <3>3. Changes(t, Define(t, Switch[b], 1), {}, Switches)
      BY <3>1, <3>2 DEF Changes
    <3>4. ASSUME NEW c \in Backends
          PROVE  Switch[c] \in DOMAIN Define(t, Switch[b], 1) <=> c = b
      <4>1. Switch[c] \notin DOMAIN t
        BY <1>2 DEF Selected, Defined
      <4> QED
        BY <3>2, <4>1, SwitchNames DEF Changes
    <3> QED
      BY <3>3, <3>4 DEF Selected, Defined
  <2>3. "CLANG" \in Backends /\ "GCC" \in Backends /\ "MSVC" \in Backends
    BY DEF Backends
  <2>4. CASE "__clang__" \in DOMAIN t
    <3>1. DetectFamily(t) = Define(t, Switch["CLANG"], 1)
      BY <2>4 DEF DetectFamily, Defined
    <3> QED
      BY <1>2, <2>1, <2>2, <2>3, <2>4, <3>1
  <2>5. CASE "__clang__" \notin DOMAIN t /\ "__GNUC__" \in DOMAIN t
    <3>1. DetectFamily(t) = Define(t, Switch["GCC"], 1)
      BY <2>5 DEF DetectFamily, Defined
    <3> QED
      BY <1>2, <2>1, <2>2, <2>3, <2>5, <3>1
  <2>6. CASE {"__clang__", "__GNUC__"} \cap DOMAIN t = {} /\ "_MSC_VER" \in DOMAIN t
    <3>1. DetectFamily(t) = Define(t, Switch["MSVC"], 1)
      BY <2>6 DEF DetectFamily, Defined
    <3> QED
      BY <1>2, <2>1, <2>2, <2>3, <2>6, <3>1
  <2>7. CASE {"__clang__", "__GNUC__", "_MSC_VER"} \cap DOMAIN t = {}
    <3>1. DetectFamily(t) = t
      BY <2>7 DEF DetectFamily, Defined
    <3>2. Changes(t, t, {}, Switches)
      BY DEF Changes
    <3> QED
      BY <1>2, <2>1, <2>7, <3>1, <3>2
  <2>8. \/ "__clang__" \in DOMAIN t
        \/ "__clang__" \notin DOMAIN t /\ "__GNUC__" \in DOMAIN t
        \/ {"__clang__", "__GNUC__"} \cap DOMAIN t = {} /\ "_MSC_VER" \in DOMAIN t
        \/ {"__clang__", "__GNUC__", "_MSC_VER"} \cap DOMAIN t = {}
    OBVIOUS
  <2> QED
    BY ONLY <2>4, <2>5, <2>6, <2>7, <2>8
<1> QED
  BY <1>1, <1>2

Spelled(s) == {s[i] : i \in DOMAIN s}

\* An attribute is emitted under its own probe.
LEMMA FirstProbedSupported ==
  ASSUME NEW S, NEW s \in Seq(S), Len(s) <= 3, FirstProbed(s) # NoAttribute
  PROVE  FirstProbed(s) \in Spelled(s) \cap unit.attributes
<1> DEFINE known == {i \in DOMAIN s : s[i] \in unit.attributes}
<1>1. \A n \in Nat : n <= 3 => 1 .. n \subseteq {1, 2, 3}
  OBVIOUS
<1>2. DOMAIN s \subseteq {1, 2, 3}
  <2>1. Len(s) \in Nat /\ DOMAIN s = 1 .. Len(s)
    OBVIOUS
  <2> QED
    BY <1>1, <2>1
<1>3. known \subseteq {1, 2, 3} /\ known \subseteq DOMAIN s
      /\ \A i \in known : s[i] \in unit.attributes
  BY <1>2
<1>4. /\ known # {}
      /\ FirstProbed(s) = s[CHOOSE i \in known : \A j \in known : i <= j]
  BY DEF FirstProbed
<1> HIDE DEF known
<1>5. \E i \in known : \A j \in known : i <= j
  <2>1. CASE 1 \in known
    BY <1>3, <2>1
  <2>2. CASE 1 \notin known /\ 2 \in known
    BY <1>3, <2>2
  <2>3. CASE 1 \notin known /\ 2 \notin known
    <3>1. known = {3}
      BY <1>3, <1>4, <2>3
    <3> QED
      BY <3>1
  <2> QED
    BY <2>1, <2>2, <2>3
<1>6. PICK k : k = CHOOSE i \in known : \A j \in known : i <= j
  OBVIOUS
<1>7. k \in known
  BY <1>5, <1>6
<1> QED
  BY <1>3, <1>4, <1>6, <1>7 DEF Spelled

\* And under a back end that is selected.
LEMMA VendorSupported ==
  ASSUME NEW S, NEW R, NEW C, NEW t, NEW probe,
         NEW clang \in Seq(S), NEW rusty \in Seq(R), NEW cheri \in Seq(C),
         Len(clang) <= 3, Len(rusty) <= 3, Len(cheri) <= 3,
         NEW a, a = ByVendor(t, probe, clang, rusty, cheri), a # NoAttribute
  PROVE  /\ a \in unit.attributes
         /\ \/ ClangBackend(t) /\ a \in Spelled(clang)
            \/ "RUSTY_CPP" \in Selected(t) /\ a \in Spelled(rusty)
            \/ "CHERI" \in Selected(t) /\ a \in Spelled(cheri)
<1>1. /\ Defined(t, Switch["RUSTY_CPP"]) => "RUSTY_CPP" \in Selected(t)
      /\ Defined(t, Switch["CHERI"]) => "CHERI" \in Selected(t)
  BY DEF Selected, Backends
<1>2. \/ ClangBackend(t) /\ a = FirstProbed(clang)
      \/ Defined(t, Switch["RUSTY_CPP"]) /\ a = FirstProbed(rusty)
      \/ Defined(t, Switch["CHERI"]) /\ a = FirstProbed(cheri)
  BY DEF ByVendor
<1>3. \A s \in {clang, rusty, cheri} : a = FirstProbed(s) =>
        a \in Spelled(s) \cap unit.attributes
  BY FirstProbedSupported
<1> QED
  BY <1>1, <1>2, <1>3

\* The fallback spellings of the CHERI branch are asked about on Clang only.
LEMMA CheriSpellings ==
  ASSUME NEW S, NEW t, NEW x \in S, NEW f \in Seq(S), Len(f) <= 2
  PROVE  /\ <<x>> \o OnClang(t, f) \in Seq(S) /\ Len(<<x>> \o OnClang(t, f)) <= 3
         /\ \A a \in Spelled(<<x>> \o OnClang(t, f)) :
              a = x \/ (Defined(t, "__clang__") /\ a \in Spelled(f))
<1>1. PICK g : g = OnClang(t, f)
  BY Zenon
<1>2. PICK e : e = <<x>>
  OBVIOUS
<1>3. /\ g \in Seq(S) /\ Len(g) <= 2 /\ Len(g) \in Nat
      /\ \A i \in 1 .. Len(g) : Defined(t, "__clang__") /\ g[i] \in Spelled(f)
  <2>1. CASE Defined(t, "__clang__")
    <3>1. g = f
      BY <1>1, <2>1 DEF OnClang
    <3> QED
      BY <2>1, <3>1 DEF Spelled
  <2>2. CASE ~Defined(t, "__clang__")
    <3>1. g = <<>>
      BY <1>1, <2>2 DEF OnClang
    <3> QED
      BY <3>1
  <2> QED
    BY <2>1, <2>2
<1>4. e \in Seq(S) /\ Len(e) = 1 /\ e[1] = x
  BY <1>2
<1>5. /\ e \o g \in Seq(S) /\ Len(e \o g) = Len(e) + Len(g)
      /\ \A i \in 1 .. Len(e) + Len(g) :
           (e \o g)[i] = IF i <= Len(e) THEN e[i] ELSE g[i - Len(e)]
  BY <1>3, <1>4, ConcatProperties
<1>6. Len(e \o g) <= 3
  <2>1. \A n \in Nat : n <= 2 => 1 + n <= 3
    OBVIOUS
  <2>2. 1 + Len(g) <= 3
    BY <1>3, <2>1
  <2> QED
    BY <1>4, <1>5, <2>2
<1>7. DOMAIN (e \o g) = 1 .. Len(e) + Len(g)
  BY <1>5
<1>8. ASSUME NEW i \in 1 .. Len(e) + Len(g)
      PROVE  (e \o g)[i] = x \/ (Defined(t, "__clang__") /\ (e \o g)[i] \in Spelled(f))
  <2>1. \A n \in Nat : \A j \in 1 .. 1 + n : j = 1 \/ (~(j <= 1) /\ j - 1 \in 1 .. n)
    OBVIOUS
  <2>2. i = 1 \/ (~(i <= Len(e)) /\ i - Len(e) \in 1 .. Len(g))
    BY <1>3, <1>4, <2>1
  <2>3. CASE i = 1
    <3>1. i <= Len(e) /\ e[i] = x
      BY <1>4, <2>3
    <3>2. (e \o g)[i] = e[i]
      BY <1>5, <3>1, Zenon
    <3> QED
      BY <3>1, <3>2
  <2>4. CASE ~(i <= Len(e)) /\ i - Len(e) \in 1 .. Len(g)
    BY <1>3, <1>5, <2>4
  <2> QED
    BY <2>2, <2>3, <2>4
<1>9. \A a \in Spelled(e \o g) : a = x \/ (Defined(t, "__clang__") /\ a \in Spelled(f))
  BY <1>7, <1>8 DEF Spelled
<1> QED
  BY <1>1, <1>2, <1>5, <1>6, <1>9

\* What an annotation macro of the table t may expand to.
Justified(t, a) ==
  a # NoAttribute =>
    /\ a \in unit.attributes
    /\ \E b \in Selected(t) : a \in SpellingsOf(b)
    /\ a \in ClangSpellings \union CheriFallbacks => Defined(t, "__clang__")

\* The annotation macros do not decide what they may expand to.
LEMMA SelectedKept ==
  ASSUME NEW t, NEW u, NEW N, Changes(t, u, N, N),
         N \subseteq Annotations \union {"ACTIVE"}
  PROVE  /\ Selected(u) = Selected(t)
         /\ \A p \in Reserved : Defined(u, p) <=> Defined(t, p)
         /\ \A a : Justified(t, a) => Justified(u, a)
<1>1. (Annotations \union {"ACTIVE"}) \cap (Reserved \union Switches) = {}
  BY SwitchNames DEF Annotations, Reserved
<1>2. \A m \in Reserved \union Switches : m \in DOMAIN u <=> m \in DOMAIN t
  BY <1>1 DEF Changes
<1>3. \A b \in Backends : Switch[b] \in Switches
  BY DEF Switches
<1>4. Selected(u) = Selected(t)
  BY <1>2, <1>3 DEF Selected, Defined
<1>5. \A p \in Reserved : Defined(u, p) <=> Defined(t, p)
  BY <1>2 DEF Defined
<1>6. "__clang__" \in Reserved
  BY DEF Reserved
<1> QED
  BY <1>4, <1>5, <1>6 DEF Justified

LEMMA LifetimeboundText ==
  ASSUME NEW t
  PROVE  LET m == {"LIFETIMEBOUND", "CORO_LIFETIMEBOUND"} IN
         /\ Changes(t, Lifetimebound(t), m, m)
         /\ \A n \in m : n \in DOMAIN Lifetimebound(t) /\ Justified(t, Lifetimebound(t)[n])
<1> DEFINE emits(a) == IF ClangBackend(t) /\ Defined(t, "__has_cpp_attribute")
                       THEN Probed(a) ELSE NoAttribute
<1>1. \A a \in {"clang::lifetimebound", "clang::coro_lifetimebound"} : Justified(t, emits(a))
  BY DEF Justified, Probed, ClangBackend, Selected, Backends, SpellingsOf, ClangSpellings
<1>2. PICK v : v = emits("clang::lifetimebound")
  OBVIOUS
<1>3. PICK w : w = emits("clang::coro_lifetimebound")
  OBVIOUS
<1>4. Lifetimebound(t) =
        Define(Define(t, "LIFETIMEBOUND", v), "CORO_LIFETIMEBOUND", w)
  BY <1>2, <1>3 DEF Lifetimebound
<1>5. Justified(t, v) /\ Justified(t, w)
  BY <1>1, <1>2, <1>3
<1> HIDE DEF emits
<1>6. PICK u : u = Define(t, "LIFETIMEBOUND", v)
  OBVIOUS
<1>7. /\ Changes(t, u, {"LIFETIMEBOUND"}, {"LIFETIMEBOUND"})
      /\ "LIFETIMEBOUND" \in DOMAIN u /\ u["LIFETIMEBOUND"] = v
  BY <1>6, DefineChanges
<1>8. PICK x : x = Define(u, "CORO_LIFETIMEBOUND", w)
  OBVIOUS
<1>9. /\ Changes(u, x, {"CORO_LIFETIMEBOUND"}, {"CORO_LIFETIMEBOUND"})
      /\ "CORO_LIFETIMEBOUND" \in DOMAIN x /\ x["CORO_LIFETIMEBOUND"] = w
  BY <1>8, DefineChanges
<1>10. x = Lifetimebound(t)
  BY <1>4, <1>6, <1>8
<1>11. Changes(t, x, {"LIFETIMEBOUND", "CORO_LIFETIMEBOUND"},
               {"LIFETIMEBOUND", "CORO_LIFETIMEBOUND"})
       /\ "LIFETIMEBOUND" \in DOMAIN x /\ x["LIFETIMEBOUND"] = v
  BY <1>7, <1>9 DEF Changes
<1> QED
  BY <1>5, <1>9, <1>10, <1>11

\* The three branches of an annotation macro.
LEMMA VendorJustified ==
  ASSUME NEW t, NEW probe,
         NEW clang \in Seq(ClangSpellings), Len(clang) <= 3,
         NEW rusty \in SpellingsOf("RUSTY_CPP"),
         NEW cheri \in SpellingsOf("CHERI") \ CheriFallbacks,
         NEW more \in Seq(SpellingsOf("CHERI")), Len(more) <= 2,
         Spelled(more) \subseteq CheriFallbacks
  PROVE  Justified(t, ByVendor(t, probe, clang, <<rusty>>, <<cheri>> \o OnClang(t, more)))
<1>1. PICK r : r = <<rusty>>
  BY Zenon
<1>2. PICK c : c = <<cheri>> \o OnClang(t, more)
  BY Zenon
<1>3. PICK v : v = ByVendor(t, probe, clang, r, c)
  BY Zenon
<1>4. Spelled(clang) \subseteq ClangSpellings
  BY DEF Spelled
<1>5. r \in Seq(SpellingsOf("RUSTY_CPP")) /\ Len(r) <= 3 /\ Spelled(r) = {rusty}
  BY <1>1 DEF Spelled
<1>6. /\ c \in Seq(SpellingsOf("CHERI")) /\ Len(c) <= 3
      /\ \A a \in Spelled(c) : a = cheri \/ (Defined(t, "__clang__") /\ a \in Spelled(more))
  BY <1>2, CheriSpellings
<1>7. SUFFICES ASSUME v # NoAttribute
               PROVE  /\ v \in unit.attributes
                      /\ \E b \in Selected(t) : v \in SpellingsOf(b)
                      /\ v \in ClangSpellings \union CheriFallbacks =>
                           Defined(t, "__clang__")
  BY <1>1, <1>2, <1>3 DEF Justified
<1>8. /\ v \in unit.attributes
      /\ \/ ClangBackend(t) /\ v \in Spelled(clang)
         \/ "RUSTY_CPP" \in Selected(t) /\ v \in Spelled(r)
         \/ "CHERI" \in Selected(t) /\ v \in Spelled(c)
  BY <1>3, <1>5, <1>6, <1>7, VendorSupported
<1>9. CASE ClangBackend(t) /\ v \in Spelled(clang)
  BY <1>4, <1>8, <1>9 DEF ClangBackend, Selected, Backends, SpellingsOf
<1>10. CASE "RUSTY_CPP" \in Selected(t) /\ v \in Spelled(r)
  <2>1. v \in SpellingsOf("RUSTY_CPP")
    BY <1>5, <1>10
  <2>2. SpellingsOf("RUSTY_CPP") \cap (ClangSpellings \union CheriFallbacks) = {}
    BY DEF SpellingsOf, ClangSpellings, CheriFallbacks
  <2> QED
    BY <1>8, <1>10, <2>1, <2>2
<1>11. CASE "CHERI" \in Selected(t) /\ v \in Spelled(c)
  <2>1. v = cheri \/ (Defined(t, "__clang__") /\ v \in CheriFallbacks)
    BY <1>6, <1>11
  <2>2. /\ CheriFallbacks \subseteq SpellingsOf("CHERI")
        /\ (SpellingsOf("CHERI") \ CheriFallbacks) \cap ClangSpellings = {}
    BY DEF SpellingsOf, ClangSpellings, CheriFallbacks
  <2> QED
    BY <1>8, <1>11, <2>1, <2>2
<1> QED
  BY <1>8, <1>9, <1>10, <1>11

LEMMA OwnedText ==
  ASSUME NEW t
  PROVE  /\ Changes(t, Owned(t), {"OWNED"}, {"OWNED"}) /\ "OWNED" \in DOMAIN Owned(t)
         /\ Justified(t, Owned(t)["OWNED"])
<1>1. PICK clang : clang = <<"clang::owner", "gsl::Owner">>
  BY Zenon
<1>2. PICK more : more = <<"clang::annotate">>
  BY Zenon
<1>3. PICK v : v = ByVendor(t, "__has_cpp_attribute", clang, <<"rusty::owned">>,
                            <<"cheri::owner">> \o OnClang(t, more))
  BY Zenon
<1>4. Owned(t) = Define(t, "OWNED", v)
  BY <1>1, <1>2, <1>3, Zenon DEF Owned
<1>5. clang \in Seq(ClangSpellings) /\ Len(clang) <= 3
  BY <1>1 DEF ClangSpellings
<1>6. /\ "rusty::owned" \in SpellingsOf("RUSTY_CPP")
      /\ "cheri::owner" \in SpellingsOf("CHERI") \ CheriFallbacks
  BY DEF SpellingsOf, CheriFallbacks
<1>7. /\ more \in Seq(SpellingsOf("CHERI")) /\ Len(more) <= 2
      /\ Spelled(more) \subseteq CheriFallbacks
  BY <1>2 DEF Spelled, SpellingsOf, CheriFallbacks
<1>8. Justified(t, v)
  BY <1>3, <1>5, <1>6, <1>7, VendorJustified
<1> QED
  BY <1>4, <1>8, DefineChanges

LEMMA PointerText ==
  ASSUME NEW t
  PROVE  /\ Changes(t, Pointer(t), {"POINTER"}, {"POINTER"}) /\ "POINTER" \in DOMAIN Pointer(t)
         /\ Justified(t, Pointer(t)["POINTER"])
<1>1. PICK clang : clang = <<"clang::pointer", "gsl::Pointer">>
  BY Zenon
<1>2. PICK more : more = <<"clang::annotate">>
  BY Zenon
<1>3. PICK v : v = ByVendor(t, "__has_cpp_attribute", clang, <<"rusty::borrowed">>,
                            <<"cheri::pointer">> \o OnClang(t, more))
  BY Zenon
<1>4. Pointer(t) = Define(t, "POINTER", v)
  BY <1>1, <1>2, <1>3, Zenon DEF Pointer
<1>5. clang \in Seq(ClangSpellings) /\ Len(clang) <= 3
  BY <1>1 DEF ClangSpellings
<1>6. /\ "rusty::borrowed" \in SpellingsOf("RUSTY_CPP")
      /\ "cheri::pointer" \in SpellingsOf("CHERI") \ CheriFallbacks
  BY DEF SpellingsOf, CheriFallbacks
<1>7. /\ more \in Seq(SpellingsOf("CHERI")) /\ Len(more) <= 2
      /\ Spelled(more) \subseteq CheriFallbacks
  BY <1>2 DEF Spelled, SpellingsOf, CheriFallbacks
<1>8. Justified(t, v)
  BY <1>3, <1>5, <1>6, <1>7, VendorJustified
<1> QED
  BY <1>4, <1>8, DefineChanges

LEMMA LockHeldText ==
  ASSUME NEW t
  PROVE  /\ Changes(t, LockHeld(t), {"LOCK_HELD"}, {"LOCK_HELD"}) /\ "LOCK_HELD" \in DOMAIN LockHeld(t)
         /\ Justified(t, LockHeld(t)["LOCK_HELD"])
<1>1. PICK clang : clang = <<"requires_capability">>
  BY Zenon
<1>2. PICK more : more = <<"requires_capability", "annotate">>
  BY Zenon
<1>3. PICK v : v = ByVendor(t, "__has_attribute", clang, <<"rusty_lock_held">>,
                            <<"cheri_requires_capability">> \o OnClang(t, more))
  BY Zenon
<1>4. LockHeld(t) = Define(t, "LOCK_HELD", v)
  BY <1>1, <1>2, <1>3, Zenon DEF LockHeld
<1>5. clang \in Seq(ClangSpellings) /\ Len(clang) <= 3
  BY <1>1 DEF ClangSpellings
<1>6. /\ "rusty_lock_held" \in SpellingsOf("RUSTY_CPP")
      /\ "cheri_requires_capability" \in SpellingsOf("CHERI") \ CheriFallbacks
  BY DEF SpellingsOf, CheriFallbacks
<1>7. /\ more \in Seq(SpellingsOf("CHERI")) /\ Len(more) <= 2
      /\ Spelled(more) \subseteq CheriFallbacks
  BY <1>2 DEF Spelled, SpellingsOf, CheriFallbacks
<1>8. Justified(t, v)
  BY <1>3, <1>5, <1>6, <1>7, VendorJustified
<1> QED
  BY <1>4, <1>8, DefineChanges

\* The back end that is active is the one selected, or else the compiler's
\* own; and every annotation emits what that back end may.
LEMMA BackendText ==
  ASSUME NEW t
  PROVE  LET u == BackendHpp(t)
             names == Annotations \union {"ACTIVE"} IN
         /\ Changes(t, u, names, names \union Switches)
         /\ names \subseteq DOMAIN u
         /\ u["ACTIVE"] = Selected(Autodetect(t)) /\ Selected(u) = u["ACTIVE"]
         /\ \A m \in Annotations : Justified(u, u[m])
<1> DEFINE names == Annotations \union {"ACTIVE"}
<1>1. PICK a : a = Autodetect(t)
  OBVIOUS
<1>2. PICK b : b = Active(a)
  OBVIOUS
<1>3. PICK c : c = Lifetimebound(b)
  OBVIOUS
<1>4. PICK d : d = Owned(c)
  OBVIOUS
<1>5. PICK e : e = Pointer(d)
  OBVIOUS
<1>6. PICK f : f = LockHeld(e)
  OBVIOUS
<1>7. f = BackendHpp(t)
  BY <1>1, <1>2, <1>3, <1>4, <1>5, <1>6 DEF BackendHpp
<1>8. Changes(t, a, {}, Switches)
  BY <1>1, AutodetectSelects
<1>9. /\ Changes(a, b, {"ACTIVE"}, {"ACTIVE"}) /\ "ACTIVE" \in DOMAIN b
      /\ b["ACTIVE"] = Selected(a)
  BY <1>2, DefineChanges DEF Active
<1>10. /\ Changes(b, c, {"LIFETIMEBOUND", "CORO_LIFETIMEBOUND"},
                  {"LIFETIMEBOUND", "CORO_LIFETIMEBOUND"})
       /\ "LIFETIMEBOUND" \in DOMAIN c /\ Justified(b, c["LIFETIMEBOUND"])
       /\ "CORO_LIFETIMEBOUND" \in DOMAIN c /\ Justified(b, c["CORO_LIFETIMEBOUND"])
  BY <1>3, LifetimeboundText
<1>11. /\ Changes(c, d, {"OWNED"}, {"OWNED"}) /\ "OWNED" \in DOMAIN d
       /\ Justified(c, d["OWNED"])
  BY <1>4, OwnedText
<1>12. /\ Changes(d, e, {"POINTER"}, {"POINTER"}) /\ "POINTER" \in DOMAIN e
       /\ Justified(d, e["POINTER"])
  BY <1>5, PointerText
<1>13. /\ Changes(e, f, {"LOCK_HELD"}, {"LOCK_HELD"}) /\ "LOCK_HELD" \in DOMAIN f
       /\ Justified(e, f["LOCK_HELD"])
  BY <1>6, LockHeldText
<1>14. /\ Changes(a, f, names, names) /\ Changes(b, f, Annotations, Annotations)
       /\ Changes(c, f, {"OWNED", "POINTER", "LOCK_HELD"}, {"OWNED", "POINTER", "LOCK_HELD"})
       /\ Changes(d, f, {"POINTER", "LOCK_HELD"}, {"POINTER", "LOCK_HELD"})
  BY <1>9, <1>10, <1>11, <1>12, <1>13 DEF Changes, Annotations
<1>15. /\ Selected(f) = Selected(a)
       /\ \A x : Justified(b, x) => Justified(f, x)
       /\ \A x : Justified(c, x) => Justified(f, x)
       /\ \A x : Justified(d, x) => Justified(f, x)
       /\ \A x : Justified(e, x) => Justified(f, x)
  <2>1. /\ names \subseteq Annotations \union {"ACTIVE"}
        /\ Annotations \subseteq Annotations \union {"ACTIVE"}
        /\ {"OWNED", "POINTER", "LOCK_HELD"} \subseteq Annotations \union {"ACTIVE"}
        /\ {"POINTER", "LOCK_HELD"} \subseteq Annotations \union {"ACTIVE"}
        /\ {"LOCK_HELD"} \subseteq Annotations \union {"ACTIVE"}
    BY DEF Annotations
  <2> HIDE DEF names
  <2> QED
    BY <1>13, <1>14, <2>1, SelectedKept
<1>16. /\ f["ACTIVE"] = b["ACTIVE"] /\ f["LIFETIMEBOUND"] = c["LIFETIMEBOUND"]
       /\ f["CORO_LIFETIMEBOUND"] = c["CORO_LIFETIMEBOUND"]
       /\ f["OWNED"] = d["OWNED"] /\ f["POINTER"] = e["POINTER"]
  BY <1>9, <1>10, <1>11, <1>12, <1>13, <1>14 DEF Changes, Annotations
<1>17. Changes(t, f, names, names \union Switches)
  BY <1>8, <1>14 DEF Changes
<1>18. names \subseteq DOMAIN f
  BY <1>9, <1>10, <1>11, <1>12, <1>13 DEF Changes, Annotations
<1>19. \A m \in Annotations : Justified(f, f[m])
  BY <1>10, <1>11, <1>12, <1>13, <1>15, <1>16 DEF Annotations
<1>20. f["ACTIVE"] = Selected(Autodetect(t)) /\ Selected(f) = f["ACTIVE"]
  BY <1>1, <1>9, <1>15, <1>16
<1> QED
  BY <1>7, <1>17, <1>18, <1>19, <1>20

-----------------------------------------------------------------------------
(* What each step does to the tables *)

\* The macros the text of a header redefines or drops, and those it may add.
Redefined(h) ==
  CASE h = "config" -> {"HAS_CONCEPTS", "HAS_SOURCE_LOCATION"}
    [] h = "backend" -> Annotations \union {"ACTIVE"}
    [] h = "violation" -> Dropped
    [] OTHER -> {}
Added(h) ==
  CASE h = "config" -> ConfigMacros
    [] h = "backend" -> (Annotations \union {"ACTIVE"}) \union Switches
    [] h = "violation" -> ViolationMacros
    [] OTHER -> {}

LEMMA TextChanges ==
  ASSUME NEW h, NEW t, "__cplusplus" \in DOMAIN t
  PROVE  /\ Changes(t, Text(h, t), Redefined(h), Added(h))
         /\ Added(h) \cap Reserved = {} /\ Redefined(h) \cap Reserved = {}
<1>1. CASE h = "config"
  <2>1. Added(h) \cap Reserved = {} /\ Redefined(h) \cap Reserved = {}
    BY <1>1 DEF Added, Redefined, ConfigMacros, Reserved
  <2> QED
    BY <1>1, <2>1, ConfigText DEF Text, Added, Redefined
<1>2. CASE h = "backend"
  <2>1. Added(h) \cap Reserved = {} /\ Redefined(h) \cap Reserved = {}
    BY <1>2, SwitchNames DEF Added, Redefined, Annotations, Reserved
  <2> QED
    BY <1>2, <2>1, BackendText DEF Text, Added, Redefined
<1>3. CASE h = "violation"
  <2>1. Added(h) \cap Reserved = {} /\ Redefined(h) \cap Reserved = {}
    BY <1>3 DEF Added, Redefined, ViolationMacros, Dropped, Reserved
  <2> QED
    BY <1>3, <2>1, ViolationText DEF Text, Added, Redefined
<1>4. CASE h \notin {"config", "backend", "violation"}
  <2>1. Text(h, t) = t /\ Redefined(h) = {} /\ Added(h) = {}
    BY <1>4 DEF Text, Redefined, Added
  <2> QED
    BY <2>1 DEF Changes
<1> QED
  BY <1>1, <1>2, <1>3, <1>4

\* The table t holds the compiler's own macros as the toolchain gave them.
HoldsProbes(t) ==
  \A m \in Reserved : /\ m \in DOMAIN t <=> m \in DOMAIN unit.predefined
                      /\ m \in DOMAIN t => t[m] = unit.predefined[m]
ProbesHold == HoldsProbes(macros) /\ \A h \in DOMAIN seen : HoldsProbes(seen[h])

\* The compiler offers std::source_location.
Locates ==
  Reported(unit.predefined) >= 202002 /\ HasInclude(unit.predefined, "source_location")

LEMMA ProbesDecide ==
  ASSUME UnitFits, NEW t, HoldsProbes(t)
  PROVE  /\ "__cplusplus" \in DOMAIN t
         /\ Reported(t) = Reported(unit.predefined)
         /\ HasInclude(t, "source_location") <=> HasInclude(unit.predefined, "source_location")
<1>1. "__cplusplus" \in DOMAIN unit.predefined
  BY UnitsAssumption DEF UnitFits
<1>2. /\ "__cplusplus" \in Reserved /\ "_MSVC_LANG" \in Reserved
      /\ "__has_include" \in Reserved
  BY DEF Reserved
<1>3. "__cplusplus" \in DOMAIN t
  BY <1>1, <1>2 DEF HoldsProbes
<1>4. Reported(t) = Reported(unit.predefined)
  BY <1>1, <1>2, <1>3 DEF HoldsProbes, Reported, Defined
<1>5. HasInclude(t, "source_location") <=> HasInclude(unit.predefined, "source_location")
  BY <1>2 DEF HoldsProbes, HasInclude, Defined
<1> QED
  BY <1>3, <1>4, <1>5

LEMMA HoldsProbesKept ==
  ASSUME NEW t, NEW u, NEW M, NEW N, HoldsProbes(t), Changes(t, u, M, N),
         M \cap Reserved = {}, N \cap Reserved = {}
  PROVE  HoldsProbes(u)
BY ProbesKept DEF HoldsProbes

\* A definition of the unit's source adds one macro, which is not the
\* compiler's, and reads nothing.
LEMMA DefineStep ==
  ASSUME UnitFits, UserDefine
  PROVE  /\ \E m : m \notin Reserved /\ Changes(macros, macros', {}, {m})
         /\ UNCHANGED <<unit, opened, todo, seen, failed, complete, answers, early>>
         /\ source' \subseteq source
<1>1. PICK d \in source : /\ d.kind = "define" /\ source' = source \ {d}
                          /\ macros' = DefineIfMissing(macros, d.name, d.value)
  BY DEF UserDefine
<1>2. d.name \notin Reserved
  BY <1>1, UnitsAssumption DEF UnitFits
<1>3. Changes(macros, macros', {}, {d.name})
  BY <1>1, MissingChanges
<1> QED
  BY <1>1, <1>2, <1>3 DEF UserDefine

\* The text of a header is read once, over the table its code was compiled with.
LEMMA TextStep ==
  ASSUME UnitFits, IncludeOrder, ProbesHold, HeaderText
  PROVE  \E h \in Headers \ DOMAIN seen :
           /\ Needed(h) \subseteq DOMAIN seen
           /\ DOMAIN seen' = DOMAIN seen \union {h} /\ seen'[h] = macros
           /\ \A g \in DOMAIN seen : seen'[g] = seen[g]
           /\ macros' = Text(h, macros) /\ (failed' <=> Rejects(h, macros')) /\ ~failed
           /\ Changes(macros, macros', Redefined(h), Added(h))
           /\ Added(h) \cap Reserved = {} /\ Redefined(h) \cap Reserved = {}
           /\ UNCHANGED <<unit, source, opened, complete, answers, early>>
<1>1. PICK h : h = Head(todo).header
  OBVIOUS
<1>2. Reading("text")
  BY DEF HeaderText
<1>3. h \in Headers \ DOMAIN seen /\ Needed(h) \subseteq DOMAIN seen
  BY <1>1, <1>2, NeededFirst
<1>4. /\ DOMAIN seen' = DOMAIN seen \union {h} /\ seen'[h] = macros
      /\ \A g \in DOMAIN seen : seen'[g] = seen[g]
  BY <1>1, <1>3 DEF HeaderText, Define
<1>5. /\ macros' = Text(h, macros) /\ (failed' <=> Rejects(h, macros')) /\ ~failed
      /\ UNCHANGED <<unit, source, opened, complete, answers, early>>
  BY <1>1 DEF HeaderText, Reading
<1>6. "__cplusplus" \in DOMAIN macros
  BY ProbesDecide DEF ProbesHold
<1>7. /\ Changes(macros, macros', Redefined(h), Added(h))
      /\ Added(h) \cap Reserved = {} /\ Redefined(h) \cap Reserved = {}
  BY <1>5, <1>6, TextChanges
<1> QED
  BY <1>3, <1>4, <1>5, <1>7

-----------------------------------------------------------------------------
(* What stays true of the tables *)

\* Once read, config.hpp's selectors are fixed.
ConfigRead ==
  "config" \in DOMAIN seen =>
    /\ ConfigMacros \subseteq DOMAIN macros
    /\ macros["CXX17_COMPAT"] # 0 =>
         macros["HAS_CONCEPTS"] = 0 /\ macros["HAS_SOURCE_LOCATION"] = 0
    /\ "LANG_VERSION" \notin DOMAIN seen["config"] =>
         (macros["HAS_SOURCE_LOCATION"] = 1 <=> macros["CXX17_COMPAT"] = 0 /\ Locates)

\* Once read, violation.hpp's policy is the unit's or "abort", and its location
\* macro follows the probe, or the build that overrides it.
ViolationRead ==
  "violation" \in DOMAIN seen =>
    /\ ViolationMacros \subseteq DOMAIN macros
    /\ IF "ON_VIOLATION" \in DOMAIN seen["violation"]
       THEN macros["ON_VIOLATION"] = seen["violation"]["ON_VIOLATION"]
       ELSE macros["ON_VIOLATION"] = 1
    /\ ~failed => KnownPolicy(macros)
    /\ macros["VIOLATE"] \in {"source_location", "file_line_func"}
    /\ macros["VIOLATE"] = "source_location"
         <=> (macros["CXX17_COMPAT"] = 0 /\ Locates) \/ ProbeOverridden

\* What an annotation macro may expand to under the active back end.
Emits(a) ==
  a # NoAttribute =>
    /\ a \in unit.attributes
    /\ \E b \in macros["ACTIVE"] : a \in SpellingsOf(b)
    /\ a \in ClangSpellings \union CheriFallbacks => Defined(macros, "__clang__")

\* Once read, backend.hpp's choice is fixed, and so are its annotations.
BackendRead ==
  "backend" \in DOMAIN seen =>
    /\ Annotations \union {"ACTIVE"} \subseteq DOMAIN macros
    /\ macros["ACTIVE"] = Selected(Autodetect(seen["backend"]))
    /\ Cardinality(macros["ACTIVE"]) > 1 => failed
    /\ \A m \in Annotations : Emits(macros[m])

\* What the code of a header was compiled with still holds.
Settled ==
  \A h \in DOMAIN seen : \A m \in Reads(h) :
    m \in DOMAIN seen[h] /\ m \in DOMAIN macros /\ macros[m] = seen[h][m]

\* An #error has a cause that stays.
Rejected ==
  failed => \/ "backend" \in DOMAIN seen /\ Cardinality(macros["ACTIVE"]) > 1
            \/ "violation" \in DOMAIN seen /\ ~KnownPolicy(macros)

Tables ==
  ProbesHold /\ ConfigRead /\ ViolationRead /\ BackendRead /\ Settled /\ Rejected

LEMMA TablesAtFirst == Init => UnitFits /\ IncludeOrder /\ Tables
<1> SUFFICES ASSUME Init PROVE UnitFits /\ IncludeOrder /\ Tables
  OBVIOUS
<1>1. DOMAIN seen = {} /\ opened = {} /\ todo = <<>> /\ macros = unit.predefined
      /\ unit \in Units /\ source = unit.source
  BY DEF Init
<1>2. UnitFits
  BY <1>1 DEF UnitFits
<1>3. IncludeOrder
  BY <1>1 DEF IncludeOrder
<1>4. ProbesHold /\ ~failed
  BY <1>1 DEF ProbesHold, HoldsProbes, Init
<1> QED
  BY <1>1, <1>2, <1>3, <1>4 DEF Tables, ConfigRead, ViolationRead, BackendRead, Settled,
                              Rejected

LEMMA DefineKeepsTables ==
  ASSUME UnitFits, IncludeOrder, Tables, UserDefine
  PROVE  UnitFits' /\ IncludeOrder' /\ Tables'
<1>1. PICK m : m \notin Reserved /\ Changes(macros, macros', {}, {m})
  BY DefineStep
<1>2. UNCHANGED <<unit, opened, todo, seen, failed>> /\ source' \subseteq source
  BY DefineStep
<1>3. \A n \in DOMAIN macros : n \in DOMAIN macros' /\ macros'[n] = macros[n]
  BY <1>1 DEF Changes
<1>4. UnitFits' /\ IncludeOrder'
  BY <1>2 DEF UnitFits, IncludeOrder
<1>5. ProbesHold'
  <2>1. {} \cap Reserved = {} /\ {m} \cap Reserved = {}
    BY <1>1
  <2>2. HoldsProbes(macros')
    BY <1>1, <2>1, HoldsProbesKept DEF Tables, ProbesHold
  <2> QED
    BY <1>2, <2>2 DEF Tables, ProbesHold, HoldsProbes
<1>6. ConfigRead'
  <2>1. Locates' <=> Locates
    BY <1>2 DEF Locates, Reported, HasInclude, Defined
  <2>2. "CXX17_COMPAT" \in ConfigMacros /\ "HAS_CONCEPTS" \in ConfigMacros
        /\ "HAS_SOURCE_LOCATION" \in ConfigMacros
    BY DEF ConfigMacros
  <2> QED
    BY <1>2, <1>3, <2>1, <2>2 DEF Tables, ConfigRead
<1>7. ViolationRead'
  <2>1. Locates' <=> Locates
    BY <1>2 DEF Locates, Reported, HasInclude, Defined
  <2>2. "CXX17_COMPAT" \in ViolationMacros /\ "ON_VIOLATION" \in ViolationMacros
        /\ "VIOLATE" \in ViolationMacros
    BY DEF ViolationMacros
  <2>3. SUFFICES ASSUME "violation" \in DOMAIN seen
                 PROVE  ViolationRead'
    BY <1>2 DEF ViolationRead
  <2>4. /\ macros'["ON_VIOLATION"] = macros["ON_VIOLATION"]
        /\ macros'["VIOLATE"] = macros["VIOLATE"]
        /\ macros'["CXX17_COMPAT"] = macros["CXX17_COMPAT"]
        /\ ViolationMacros \subseteq DOMAIN macros'
    BY <1>3, <2>2, <2>3 DEF Tables, ViolationRead
  <2>5. KnownPolicy(macros') <=> KnownPolicy(macros)
    BY <2>4 DEF KnownPolicy
  <2>6. ProbeOverridden' <=> ProbeOverridden
    BY <1>2 DEF ProbeOverridden, Defined
  <2> QED
    BY <1>2, <2>1, <2>3, <2>4, <2>5, <2>6 DEF Tables, ViolationRead
<1>8. BackendRead'
  <2>1. SUFFICES ASSUME "backend" \in DOMAIN seen
                 PROVE  BackendRead'
    BY <1>2 DEF BackendRead
  <2>2. /\ Annotations \union {"ACTIVE"} \subseteq DOMAIN macros'
        /\ macros'["ACTIVE"] = macros["ACTIVE"]
        /\ \A n \in Annotations : macros'[n] = macros[n]
    BY <1>3, <2>1 DEF Tables, BackendRead
  <2>3. Selected(Autodetect(seen["backend"]))' = Selected(Autodetect(seen["backend"]))
    BY <1>2 DEF Selected, Autodetect, DetectFamily, Define, Defined
  <2>4. Defined(macros, "__clang__") => Defined(macros', "__clang__")
    BY <1>3 DEF Defined
  <2>5. \A a : Emits(a) => Emits(a)'
    BY <1>2, <2>2, <2>4 DEF Emits
  <2> QED
    BY <1>2, <2>1, <2>2, <2>3, <2>5 DEF Tables, BackendRead
<1>9. Settled'
  BY <1>2, <1>3 DEF Tables, Settled
<1>10. Rejected'
  BY <1>2 DEF Rejected, UserDefine, AtDirective
<1> QED
  BY <1>4, <1>5, <1>6, <1>7, <1>8, <1>9, <1>10 DEF Tables

LEMMA IncludeKeepsOrder ==
  ASSUME UnitFits, IncludeOrder, UserInclude
  PROVE  UnitFits' /\ IncludeOrder'
<1>1. PICK d \in source : /\ AtDirective /\ d.kind = "include"
                          /\ source' = source \ {d} /\ todo' = <<Entry("guard", d.name)>>
                          /\ UNCHANGED <<unit, opened, seen>>
  BY DEF UserInclude
<1>2. d.name \in Headers
  BY <1>1, UnitsAssumption DEF UnitFits
<1>3. UnitFits'
  BY <1>1 DEF UnitFits
<1>4. PICK e : e = Entry("guard", d.name)
  OBVIOUS
<1>5. e \in Entries /\ e.part = "guard"
  BY <1>2, <1>4 DEF Entry, Entries
<1>6. todo' \in Seq(Entries) /\ Len(todo') = 1 /\ todo'[1] = e
  BY <1>1, <1>4, <1>5
<1>7. \A k \in 1 .. Len(todo') : todo'[k].part # "text"
  BY <1>5, <1>6
<1>8. \A h \in opened : h \in DOMAIN seen
  BY <1>1 DEF IncludeOrder, AtDirective
<1>9. \A h \in DOMAIN seen : Needed(h) \subseteq DOMAIN seen
  BY DEF IncludeOrder
<1> QED
  BY <1>1, <1>3, <1>6, <1>7, <1>8, <1>9 DEF IncludeOrder

\* A step that reads no text and defines nothing.
LEMMA TablesUntouched ==
  ASSUME Tables, UNCHANGED <<unit, macros, seen, failed>>
  PROVE  Tables'
<1>1. Locates' <=> Locates
  BY DEF Locates, Reported, HasInclude, Defined
<1>2. \A t : Selected(Autodetect(t))' = Selected(Autodetect(t))
  BY DEF Selected, Autodetect, DetectFamily, Define, Defined
<1>3. ProbesHold' /\ Settled' /\ Rejected'
  BY DEF Tables, ProbesHold, HoldsProbes, Settled, Rejected, KnownPolicy
<1>4. ConfigRead' /\ ViolationRead'
  BY <1>1 DEF Tables, ConfigRead, ViolationRead, ProbeOverridden, Defined
<1>5. BackendRead'
  BY DEF Tables, BackendRead, Emits
<1> QED
  BY <1>3, <1>4, <1>5 DEF Tables

LEMMA TextKeepsTables ==
  ASSUME UnitFits, IncludeOrder, Tables, HeaderText
  PROVE  Tables'
<1>1. PICK h \in Headers \ DOMAIN seen :
        /\ Needed(h) \subseteq DOMAIN seen
        /\ DOMAIN seen' = DOMAIN seen \union {h} /\ seen'[h] = macros
        /\ \A g \in DOMAIN seen : seen'[g] = seen[g]
        /\ macros' = Text(h, macros) /\ (failed' <=> Rejects(h, macros')) /\ ~failed
        /\ Changes(macros, macros', Redefined(h), Added(h))
        /\ Added(h) \cap Reserved = {} /\ Redefined(h) \cap Reserved = {}
        /\ UNCHANGED <<unit, source, opened, complete, answers, early>>
  BY TextStep DEF Tables
<1>2. /\ "__cplusplus" \in DOMAIN macros
      /\ Reported(macros) = Reported(unit.predefined)
      /\ HasInclude(macros, "source_location") <=>
           HasInclude(unit.predefined, "source_location")
  BY ProbesDecide DEF Tables, ProbesHold
<1>3. /\ DOMAIN macros \ Redefined(h) \subseteq DOMAIN macros'
      /\ \A m \in DOMAIN macros \ Redefined(h) : macros'[m] = macros[m]
  BY <1>1 DEF Changes
<1>4. Locates' <=> Locates
  BY <1>1 DEF Locates, Reported, HasInclude, Defined
<1>5. ProbesHold'
  <2>1. HoldsProbes(macros')
    BY <1>1, HoldsProbesKept DEF Tables, ProbesHold
  <2>2. \A g \in DOMAIN seen' : HoldsProbes(seen'[g])
    BY <1>1 DEF Tables, ProbesHold
  <2>3. \A t : HoldsProbes(t) => HoldsProbes(t)'
    BY <1>1 DEF HoldsProbes
  <2> QED
    BY <2>1, <2>2, <1>1 DEF ProbesHold, HoldsProbes
<1>6. ConfigRead'
  <2>1. CASE h = "config"
    <3>1. macros' = ConfigHpp(macros)
      BY <1>1, <2>1 DEF Text
    <3>2. /\ ConfigMacros \subseteq DOMAIN macros'
          /\ macros'["CXX17_COMPAT"] # 0 =>
               macros'["HAS_CONCEPTS"] = 0 /\ macros'["HAS_SOURCE_LOCATION"] = 0
          /\ "LANG_VERSION" \notin DOMAIN macros =>
               (macros'["HAS_SOURCE_LOCATION"] = 1
                  <=> /\ macros'["CXX17_COMPAT"] = 0 /\ Reported(macros) >= 202002
                      /\ HasInclude(macros, "source_location"))
      BY <1>2, <3>1, ConfigText
    <3>3. Locates <=> /\ Reported(macros) >= 202002
                      /\ HasInclude(macros, "source_location")
      BY <1>2 DEF Locates
    <3>4. seen'["config"] = macros
      BY <1>1, <2>1
    <3> QED
      BY <1>4, <3>2, <3>3, <3>4 DEF ConfigRead
  <2>2. CASE h # "config" /\ "config" \in DOMAIN seen
    <3>1. ConfigMacros \cap Redefined(h) = {}
      BY <2>2 DEF ConfigMacros, Redefined, Annotations, Dropped
    <3>2. /\ ConfigMacros \subseteq DOMAIN macros'
          /\ \A m \in ConfigMacros : macros'[m] = macros[m]
      BY <1>3, <2>2, <3>1 DEF Tables, ConfigRead
    <3>3. /\ macros'["CXX17_COMPAT"] = macros["CXX17_COMPAT"]
          /\ macros'["HAS_CONCEPTS"] = macros["HAS_CONCEPTS"]
          /\ macros'["HAS_SOURCE_LOCATION"] = macros["HAS_SOURCE_LOCATION"]
      BY <3>2 DEF ConfigMacros
    <3>4. seen'["config"] = seen["config"]
      BY <1>1, <2>2
    <3> QED
      BY <1>4, <2>2, <3>2, <3>3, <3>4 DEF Tables, ConfigRead
  <2>3. CASE h # "config" /\ "config" \notin DOMAIN seen
    BY <1>1, <2>3 DEF ConfigRead
  <2> QED
    BY <2>1, <2>2, <2>3
<1>7. ViolationRead'
  <2>1. CASE h = "violation"
    <3>1. macros' = ViolationHpp(macros)
      BY <1>1, <2>1 DEF Text
    <3>2. /\ Changes(macros, macros', Dropped, ViolationMacros)
          /\ ViolationMacros \subseteq DOMAIN macros'
          /\ "ON_VIOLATION" \notin DOMAIN macros => macros'["ON_VIOLATION"] = 1
          /\ macros'["VIOLATE"] \in {"source_location", "file_line_func"}
          /\ macros'["VIOLATE"] = "source_location"
               <=> \/ /\ macros'["CXX17_COMPAT"] = 0 /\ Reported(macros) >= 202002
                      /\ HasInclude(macros, "source_location")
                   \/ /\ "DETAIL_HAS_SOURCE_LOCATION" \in DOMAIN macros
                      /\ macros["DETAIL_HAS_SOURCE_LOCATION"] # 0
      BY <1>2, <3>1, ViolationText
    <3>3. Locates <=> /\ Reported(macros) >= 202002
                      /\ HasInclude(macros, "source_location")
      BY <1>2 DEF Locates
    <3>4. seen'["violation"] = macros
      BY <1>1, <2>1
    <3>5. "ON_VIOLATION" \in DOMAIN macros =>
            macros'["ON_VIOLATION"] = macros["ON_VIOLATION"]
      BY <3>2 DEF Changes, Dropped
    <3>6. ~failed' => KnownPolicy(macros')
      BY <1>1, <2>1 DEF Rejects
    <3>7. ProbeOverridden' <=> /\ "DETAIL_HAS_SOURCE_LOCATION" \in DOMAIN macros
                               /\ macros["DETAIL_HAS_SOURCE_LOCATION"] # 0
      BY <3>4 DEF ProbeOverridden, Defined
    <3> QED
      BY <1>4, <3>2, <3>3, <3>4, <3>5, <3>6, <3>7 DEF ViolationRead
  <2>2. CASE h # "violation" /\ "violation" \in DOMAIN seen
    <3>1. ViolationMacros \cap Redefined(h) = {}
      BY <2>2 DEF ViolationMacros, Redefined, Annotations
    <3>2. /\ ViolationMacros \subseteq DOMAIN macros'
          /\ \A m \in ViolationMacros : macros'[m] = macros[m]
      BY <1>3, <2>2, <3>1 DEF Tables, ViolationRead
    <3>3. /\ macros'["CXX17_COMPAT"] = macros["CXX17_COMPAT"]
          /\ macros'["ON_VIOLATION"] = macros["ON_VIOLATION"]
          /\ macros'["VIOLATE"] = macros["VIOLATE"]
      BY <3>2 DEF ViolationMacros
    <3>4. seen'["violation"] = seen["violation"]
      BY <1>1, <2>2
    <3>5. KnownPolicy(macros') <=> KnownPolicy(macros)
      BY <3>3 DEF KnownPolicy
    <3>6. ProbeOverridden' <=> ProbeOverridden
      BY <3>4 DEF ProbeOverridden, Defined
    <3> QED
      BY <1>1, <1>4, <2>2, <3>2, <3>3, <3>4, <3>5, <3>6 DEF Tables, ViolationRead
  <2>3. CASE h # "violation" /\ "violation" \notin DOMAIN seen
    BY <1>1, <2>3 DEF ViolationRead
  <2> QED
    BY <2>1, <2>2, <2>3
<1>8. BackendRead'
  <2> PICK names : names = Annotations \union {"ACTIVE"}
    OBVIOUS
  <2>1. CASE h = "backend"
    <3>1. macros' = BackendHpp(macros)
      BY <1>1, <2>1 DEF Text
    <3>2. /\ names \subseteq DOMAIN macros'
          /\ macros'["ACTIVE"] = Selected(Autodetect(macros))
          /\ Selected(macros') = macros'["ACTIVE"]
          /\ \A m \in Annotations : Justified(macros', macros'[m])
      BY <3>1, BackendText
    <3>3. \A a : Justified(macros', a) => Emits(a)'
      BY <1>1, <3>2 DEF Justified, Emits
    <3>4. seen'["backend"] = macros
      BY <1>1, <2>1
    <3>5. Cardinality(macros'["ACTIVE"]) > 1 => failed'
      BY <1>1, <2>1 DEF Rejects, ActiveCount
    <3>6. Selected(Autodetect(macros)) = Selected(Autodetect(seen["backend"]))'
      BY <3>4 DEF Selected, Autodetect, DetectFamily, Define, Defined
    <3> QED
      BY <3>2, <3>3, <3>5, <3>6 DEF BackendRead
  <2>2. CASE h # "backend" /\ "backend" \in DOMAIN seen
    <3>1. names \cap Redefined(h) = {} /\ "__clang__" \notin Redefined(h)
      BY <2>2 DEF Redefined, Annotations, Dropped
    <3>2. names \subseteq DOMAIN macros' /\ \A m \in names : macros'[m] = macros[m]
      BY <1>3, <2>2, <3>1 DEF Tables, BackendRead
    <3>3. "ACTIVE" \in names /\ Annotations \subseteq names
      OBVIOUS
    <3>4. Defined(macros, "__clang__") => Defined(macros', "__clang__")
      BY <1>3, <3>1 DEF Defined
    <3>5. \A a : Emits(a) => Emits(a)'
      BY <1>1, <3>2, <3>3, <3>4 DEF Emits
    <3>6. Selected(Autodetect(seen["backend"]))' = Selected(Autodetect(seen["backend"]))
      <4>1. seen'["backend"] = seen["backend"]
        BY <1>1, <2>2
      <4> QED
        BY <4>1 DEF Selected, Autodetect, DetectFamily, Define, Defined
    <3>7. Cardinality(macros'["ACTIVE"]) > 1 => failed'
      BY <1>1, <2>2, <3>2, <3>3 DEF Tables, BackendRead
    <3>8. /\ macros'["ACTIVE"] = Selected(Autodetect(seen["backend"]))
          /\ \A m \in Annotations : Emits(macros[m])
      BY <2>2, <3>2, <3>3 DEF Tables, BackendRead
    <3>9. \A m \in Annotations : Emits(macros[m])'
      BY <3>2, <3>3, <3>5, <3>8 DEF Emits
    <3> QED
      BY <3>2, <3>6, <3>7, <3>8, <3>9 DEF BackendRead
  <2>3. CASE h # "backend" /\ "backend" \notin DOMAIN seen
    BY <1>1, <2>3 DEF BackendRead
  <2> QED
    BY <2>1, <2>2, <2>3
<1>9. Settled'
  <2>1. ASSUME NEW g \in DOMAIN seen, NEW m \in Reads(g)
        PROVE  m \in DOMAIN seen'[g] /\ m \in DOMAIN macros' /\ macros'[m] = seen'[g][m]
    <3>1. m \in DOMAIN seen[g] /\ m \in DOMAIN macros /\ macros[m] = seen[g][m]
      BY DEF Tables, Settled
    <3>2. m \notin Redefined(h)
      <4>1. Needed(g) \subseteq DOMAIN seen
        BY DEF IncludeOrder
      <4> QED
        BY <1>1, <4>1 DEF Reads, Needed, Redefined, Annotations, Dropped
    <3> QED
      BY <1>1, <1>3, <3>1, <3>2
  <2>2. ASSUME NEW m \in Reads(h)
        PROVE  m \in DOMAIN seen'[h] /\ m \in DOMAIN macros' /\ macros'[m] = seen'[h][m]
    <3>1. Redefined(h) = {}
      BY DEF Reads, Redefined
    <3>2. m \in DOMAIN macros
      <4>1. CASE h = "scope"
        <5>1. "config" \in DOMAIN seen /\ m \in ConfigMacros
          BY <1>1, <2>2, <4>1 DEF Needed, Reads, ConfigMacros
        <5> QED
          BY <5>1 DEF Tables, ConfigRead
      <4>2. CASE h \in {"handle", "owner", "sync"}
        <5>1. /\ "backend" \in DOMAIN seen /\ "violation" \in DOMAIN seen
              /\ m \in ViolationMacros \union Annotations
          BY <1>1, <2>2, <4>2 DEF Needed, Reads, ViolationMacros, Annotations
        <5> QED
          BY <5>1 DEF Tables, ViolationRead, BackendRead
      <4> QED
        BY <2>2, <4>1, <4>2 DEF Reads
    <3> QED
      BY <1>1, <1>3, <3>1, <3>2
  <2> QED
    BY <1>1, <2>1, <2>2 DEF Settled
<1>10. Rejected'
  BY <1>1 DEF Rejected, Rejects, ActiveCount
<1> QED
  BY <1>5, <1>6, <1>7, <1>8, <1>9, <1>10 DEF Tables

-----------------------------------------------------------------------------
(* The traits *)

\* An answer given when the type was complete is exact, and so stays.
TraitsKnown ==
  /\ DOMAIN answers # {} /\ ~early => complete
  /\ TraitAnswersSound

\* Instantiating a trait keeps the answers there are, and adds those values.
LEMMA InstantiateKeeps ==
  ASSUME TraitsKnown, NEW trait, NEW values, Instantiate(trait, values),
         \A q \in DOMAIN values \ DOMAIN answers :
           /\ values[q] => Accepted(q)
           /\ ~early /\ complete => values[q] = Accepted(q)
  PROVE  TraitsKnown'
<1>1. /\ DOMAIN answers' = DOMAIN answers \union DOMAIN values
      /\ \A q \in DOMAIN answers : answers'[q] = answers[q]
      /\ \A q \in DOMAIN values \ DOMAIN answers : answers'[q] = values[q]
  BY DEF Instantiate
<1>2. (early' <=> early \/ ~complete) /\ complete' = complete /\ unit' = unit
  BY DEF Instantiate
<1>3. \A q : Accepted(q)' = Accepted(q)
  BY <1>2 DEF Accepted
<1>4. ASSUME NEW q \in DOMAIN answers'
      PROVE  /\ answers'[q] => Accepted(q)
             /\ ~early' => answers'[q] = Accepted(q)
  <2>1. CASE q \in DOMAIN answers
    BY <1>1, <1>2, <2>1 DEF TraitsKnown, TraitAnswersSound
  <2>2. CASE q \in DOMAIN values \ DOMAIN answers
    BY <1>1, <1>2, <2>2
  <2> QED
    BY <1>1, <2>1, <2>2
<1>5. TraitAnswersSound'
  BY <1>3, <1>4 DEF TraitAnswersSound
<1> QED
  BY <1>2, <1>5 DEF TraitsKnown

LEMMA TraitStepsKeep ==
  ASSUME TraitsKnown,
         \/ CompleteType \/ IsComplete \/ IsCompleteObject
         \/ IsConstructibleObject \/ IsScopeConstructibleObject
  PROVE  TraitsKnown'
<1>1. CASE CompleteType
  <2>1. /\ complete' = TRUE /\ ~complete /\ UNCHANGED <<unit, answers, early>>
    BY <1>1 DEF CompleteType
  <2>2. \A q \in DOMAIN answers : early /\ ~answers[q]
    BY <2>1 DEF TraitsKnown, TraitAnswersSound, Accepted
  <2>3. TraitAnswersSound'
    BY <2>1, <2>2 DEF TraitsKnown, TraitAnswersSound, Accepted
  <2> QED
    BY <2>1, <2>3 DEF TraitsKnown
<1>2. CASE IsComplete
  <2> DEFINE values == [is_complete |-> Sizeof]
  <2>1. \A q \in DOMAIN values : q = "is_complete" /\ values[q] = Sizeof
    OBVIOUS
  <2>2. Sizeof = Accepted("is_complete")
    BY DEF Sizeof, Accepted
  <2>3. Instantiate("is_complete", values)
    BY <1>2 DEF IsComplete
  <2> HIDE DEF values
  <2> QED
    BY <2>1, <2>2, <2>3, InstantiateKeeps
<1>3. CASE IsCompleteObject
  <2>1. PICK sized : sized = IF Defined(answers, "is_complete")
                             THEN answers["is_complete"] ELSE Sizeof
    OBVIOUS
  <2>0. PICK single : single = (sized /\ SingleObject)
    OBVIOUS
  <2> DEFINE values == [is_complete |-> sized, is_complete_object |-> single]
  <2>2. /\ values["is_complete_object"] = single
        /\ values["is_complete"] = sized
        /\ DOMAIN values = {"is_complete", "is_complete_object"}
    OBVIOUS
  <2>3. Instantiate("is_complete_object", values)
    BY <1>3, <2>0, <2>1 DEF IsCompleteObject
  <2> HIDE DEF values
  <2>4. /\ sized => Accepted("is_complete")
        /\ ~early /\ complete => sized = Accepted("is_complete")
    BY <2>1 DEF TraitsKnown, TraitAnswersSound, Sizeof, Accepted, Defined
  <2>5. (Accepted("is_complete") /\ SingleObject) = Accepted("is_complete_object")
    BY DEF Accepted, SingleObject
  <2>6. /\ single => Accepted("is_complete_object")
        /\ ~early /\ complete => single = Accepted("is_complete_object")
    BY <2>0, <2>4, <2>5
  <2> QED
    BY <2>2, <2>3, <2>4, <2>6, InstantiateKeeps
<1>4. CASE IsConstructibleObject
  <2> DEFINE values == [is_constructible_object |->
                          Sizeof /\ SingleObject /\ unit.type.constructible]
  <2>1. \A q \in DOMAIN values :
          /\ q = "is_constructible_object"
          /\ values[q] = (Sizeof /\ SingleObject /\ unit.type.constructible)
    OBVIOUS
  <2>2. (Sizeof /\ SingleObject /\ unit.type.constructible)
          = Accepted("is_constructible_object")
    BY DEF Sizeof, SingleObject, Accepted
  <2>3. Instantiate("is_constructible_object", values)
    BY <1>4 DEF IsConstructibleObject
  <2> HIDE DEF values
  <2> QED
    BY <2>1, <2>2, <2>3, InstantiateKeeps
<1>5. CASE IsScopeConstructibleObject
  <2>1. PICK nothrow : nothrow = (/\ Sizeof /\ SingleObject /\ unit.type.constructible
                                  /\ unit.type.nothrowDestructible)
    OBVIOUS
  <2> DEFINE values == [is_scope_constructible_object |-> nothrow]
  <2>2. \A q \in DOMAIN values : q = "is_scope_constructible_object" /\ values[q] = nothrow
    OBVIOUS
  <2>3. nothrow = Accepted("is_scope_constructible_object")
    BY <2>1 DEF Sizeof, SingleObject, Accepted
  <2>4. Instantiate("is_scope_constructible_object", values)
    BY <1>5, <2>1 DEF IsScopeConstructibleObject
  <2> HIDE DEF values
  <2> QED
    BY <2>2, <2>3, <2>4, InstantiateKeeps
<1> QED
  BY <1>1, <1>2, <1>3, <1>4, <1>5

LEMMA TraitsAtFirst == Init => TraitsKnown
BY DEF Init, TraitsKnown, TraitAnswersSound

-----------------------------------------------------------------------------
(* What is known of a unit while it is read *)

UnitKnown == UnitFits /\ IncludeOrder /\ Tables /\ TraitsKnown

\* A step of the preprocessor, or of the instantiation of a trait.
LEMMA NextKeeps ==
  ASSUME UnitKnown, [Next]_vars
  PROVE  UnitKnown'
<1> USE DEF UnitKnown
<1>1. CASE UserDefine
  <2>1. UnitFits' /\ IncludeOrder' /\ Tables'
    BY <1>1, DefineKeepsTables
  <2>2. UNCHANGED <<unit, complete, answers, early>>
    BY <1>1, DefineStep
  <2> QED
    BY <2>1, <2>2 DEF TraitsKnown, TraitAnswersSound, Accepted
<1>2. CASE UserInclude
  <2>1. UnitFits' /\ IncludeOrder'
    BY <1>2, IncludeKeepsOrder
  <2>2. UNCHANGED <<unit, macros, seen, failed, complete, answers, early>>
    BY <1>2 DEF UserInclude
  <2>3. Tables'
    BY <2>2, TablesUntouched
  <2> QED
    BY <2>1, <2>2, <2>3 DEF TraitsKnown, TraitAnswersSound, Accepted
<1>3. CASE IncludeGuard
  <2>1. UnitFits' /\ IncludeOrder'
    BY <1>3, GuardKeepsOrder
  <2>2. UNCHANGED <<unit, macros, seen, failed, complete, answers, early>>
    BY <1>3 DEF IncludeGuard
  <2>3. Tables'
    BY <2>2, TablesUntouched
  <2> QED
    BY <2>1, <2>2, <2>3 DEF TraitsKnown, TraitAnswersSound, Accepted
<1>4. CASE HeaderText
  <2>1. UnitFits' /\ IncludeOrder'
    BY <1>4, TextKeepsOrder
  <2>2. Tables'
    BY <1>4, TextKeepsTables
  <2>3. UNCHANGED <<unit, complete, answers, early>>
    BY <1>4 DEF HeaderText
  <2> QED
    BY <2>1, <2>2, <2>3 DEF TraitsKnown, TraitAnswersSound, Accepted
<1>5. CASE \/ CompleteType \/ IsComplete \/ IsCompleteObject
           \/ IsConstructibleObject \/ IsScopeConstructibleObject
  <2>1. UNCHANGED <<unit, macros, source, opened, todo, seen, failed>>
    BY <1>5 DEF CompleteType, IsComplete, IsCompleteObject, IsConstructibleObject,
                IsScopeConstructibleObject, Instantiate
  <2>2. UnitFits' /\ IncludeOrder'
    BY <2>1 DEF UnitFits, IncludeOrder
  <2>3. Tables'
    BY <2>1, TablesUntouched
  <2>4. TraitsKnown'
    BY <1>5, TraitStepsKeep
  <2> QED
    BY <2>2, <2>3, <2>4
<1>6. CASE UNCHANGED vars
  <2>1. UNCHANGED <<unit, macros, source, opened, todo, seen, failed>>
        /\ UNCHANGED <<complete, answers, early>>
    BY <1>6 DEF vars
  <2>2. UnitFits' /\ IncludeOrder'
    BY <2>1 DEF UnitFits, IncludeOrder
  <2>3. Tables'
    BY <2>1, TablesUntouched
  <2> QED
    BY <2>1, <2>2, <2>3 DEF TraitsKnown, TraitAnswersSound, Accepted
<1> QED
  BY <1>1, <1>2, <1>3, <1>4, <1>5, <1>6 DEF Next, Finished

\* The program's own steps leave the unit alone.
LEMMA UnitIsKnown == ProgramSpec => []UnitKnown
<1>1. ProgramInit => UnitKnown
  BY TablesAtFirst, TraitsAtFirst DEF ProgramInit, UnitKnown
<1>2. UnitKnown /\ [ProgramNext]_<<vars, runtime>> => UnitKnown'
  <2>1. [ProgramNext]_<<vars, runtime>> => [Next]_vars
    BY DEF ProgramNext, Preprocess, Run
  <2> QED
    BY <2>1, NextKeeps
<1> QED
  BY <1>1, <1>2, PTL DEF ProgramSpec

\* Whatever the order of the includes and of the definitions between them, the
\* headers of a unit are compiled with the same switches, and none of these is
\* undefined (the include directives of handle.hpp:66, owner.hpp:51,
\* scope.hpp:42, sync.hpp:82 and memsafe.hpp:43).
THEOREM HeadersAreCompiledAlike == ProgramSpec => []HeadersAgree
<1>1. UnitKnown => HeadersAgree
  BY DEF UnitKnown, Tables, Settled, HeadersAgree, Defined
<1> QED
  BY <1>1, UnitIsKnown, PTL

\* Compatibility mode wins over the compiler and over the selectors a build
\* predefines, and the two probes of std::source_location agree; except that
\* violation.hpp keeps a nonzero MEMSAFE_DETAIL_HAS_SOURCE_LOCATION the build
\* predefines, which then wins (config.hpp:22-29, 201-208, violation.hpp:174-191).
THEOREM CompatibilityModeWins == ProgramSpec => []SelectorsAuthoritative
<1>1. UnitKnown => SelectorsAuthoritative
  <2> SUFFICES ASSUME UnitKnown PROVE SelectorsAuthoritative
    OBVIOUS
  <2>1. ConfigRead /\ ViolationRead
    BY DEF UnitKnown, Tables
  <2>2. ASSUME Done("config"), macros["CXX17_COMPAT"] # 0
        PROVE  macros["HAS_CONCEPTS"] = 0 /\ macros["HAS_SOURCE_LOCATION"] = 0
    BY <2>1, <2>2 DEF ConfigRead, Done, Defined
  <2>3. ASSUME Done("violation"), ~ProbeOverridden, macros["CXX17_COMPAT"] # 0
        PROVE  macros["VIOLATE"] = "file_line_func"
    BY <2>1, <2>3 DEF ViolationRead, Done, Defined
  <2>4. ASSUME Done("config"), Done("violation"), ~ProbeOverridden,
               ~Defined(seen["config"], "LANG_VERSION")
        PROVE  macros["HAS_SOURCE_LOCATION"] = 1 <=> macros["VIOLATE"] = "source_location"
    BY <2>1, <2>4 DEF ConfigRead, ViolationRead, Done, Defined
  <2>5. ASSUME Done("violation"), ProbeOverridden
        PROVE  macros["VIOLATE"] = "source_location"
    BY <2>1, <2>5 DEF ViolationRead, Done, Defined
  <2> QED
    BY <2>2, <2>3, <2>4, <2>5 DEF SelectorsAuthoritative
<1> QED
  BY <1>1, UnitIsKnown, PTL

\* The back end a user has selected before backend.hpp is read is the only
\* active one, without a selection a known compiler gets its own and an unknown
\* one none, and the unit is rejected exactly when two are selected, or for its
\* policy by violation.hpp (backend.hpp:28-34, 366-369, 380-382).
THEOREM SelectionIsTheBackend == ProgramSpec => []BackendAuthoritative
<1>1. UnitKnown => BackendAuthoritative
  <2> SUFFICES ASSUME UnitKnown, "backend" \in DOMAIN seen PROVE BackendAuthoritative
    BY DEF BackendAuthoritative, Defined
  <2>1. /\ macros["ACTIVE"] = Selected(Autodetect(seen["backend"]))
        /\ failed <=> \/ Cardinality(macros["ACTIVE"]) > 1
                      \/ Defined(seen, "violation") /\ ~KnownPolicy(macros)
    BY DEF UnitKnown, Tables, BackendRead, ViolationRead, Rejected, Defined
  <2>2. PICK t : t = seen["backend"]
    OBVIOUS
  <2>3. /\ Selected(t) # {} => Selected(Autodetect(t)) = Selected(t)
        /\ Selected(t) = {} => Selected(Autodetect(t)) =
             CASE "__clang__" \in DOMAIN t -> {"CLANG"}
               [] "__clang__" \notin DOMAIN t /\ "__GNUC__" \in DOMAIN t -> {"GCC"}
               [] {"__clang__", "__GNUC__"} \cap DOMAIN t = {}
                    /\ "_MSC_VER" \in DOMAIN t -> {"MSVC"}
               [] OTHER -> {}
    BY AutodetectSelects
  <2> QED
    BY <2>1, <2>2, <2>3 DEF BackendAuthoritative, Defined
<1> QED
  BY <1>1, UnitIsKnown, PTL

\* Every annotation a unit uses is one its compiler has been asked about, of a
\* back end that is active (backend.hpp:50-54, 414-419).
THEOREM AnnotationsAreSupported == ProgramSpec => []AnnotationsSupported
<1>1. UnitKnown => AnnotationsSupported
  <2> SUFFICES ASSUME UnitKnown, Done("backend") PROVE AnnotationsSupported
    BY DEF AnnotationsSupported
  <2>1. \A m \in Annotations : Emits(macros[m])
    BY DEF UnitKnown, Tables, BackendRead, Done, Defined
  <2>2. \A a \in Borrows(macros) \union
               {macros["OWNED"], macros["POINTER"], macros["LOCK_HELD"]} :
          \E m \in Annotations : a = macros[m]
    BY DEF Borrows, Annotations
  <2> QED
    BY <2>1, <2>2 DEF Emits, AnnotationsSupported
<1> QED
  BY <1>1, UnitIsKnown, PTL

\* A payload type is accepted only if it deserves it, at whatever moments its
\* traits are instantiated (config.hpp:374-380, 422-427, 484-489).
THEOREM TraitAnswersAreSound == ProgramSpec => []TraitAnswersSound
<1>1. UnitKnown => TraitAnswersSound
  BY DEF UnitKnown, TraitsKnown
<1> QED
  BY <1>1, UnitIsKnown, PTL

-----------------------------------------------------------------------------
(* The program's reports *)

Slots == Handlers \union {Null}
Frames == [at : {"log", "logging", "dispatch", "handling"},
           callee : Slots \union Hooks, held : SUBSET Slots]

\* The reports a thread may have in progress: one about to be dispatched has
\* noted the handler installed now, and one that calls a handler took it from
\* those noted, under the policy "handler".
Reports ==
  {r \in Frames :
     /\ r.at = "dispatch" => handler \in r.held
     /\ r.at = "handling" => /\ policy = "handler"
                             /\ r.callee \in Handlers /\ r.callee \in r.held \ {Null}}

\* A report is in progress or has ended only in a program that was built.
ReportsKnown ==
  /\ handler \in Slots /\ hook \in Hooks \union {Null}
  /\ reports \in [Threads -> Seq(Reports)]
  /\ (\E t \in Threads : reports[t] # <<>>) \/ ended # {} => Built
  /\ V!PolicyDecides

LEMMA InnermostReport ==
  ASSUME NEW S, NEW s \in Seq(S), s # <<>>
  PROVE  /\ V!Front(s) \in Seq(S) /\ V!Last(s) \in S
         /\ \A r \in S : Append(V!Front(s), r) \in Seq(S)
<1>1. Len(s) \in Nat /\ Len(s) >= 1 /\ \A i \in 1 .. Len(s) : s[i] \in S
  BY EmptySeq
<1>2. V!Last(s) \in S
  BY <1>1 DEF V!Last
<1>3. V!Front(s) \in Seq(S)
  <2>1. Len(s) - 1 \in Int /\ \A i \in 1 .. Len(s) - 1 : i \in 1 .. Len(s)
    BY <1>1
  <2>2. \A i \in 1 .. Len(s) - 1 : s[i] \in S
    BY <1>1, <2>1
  <2> QED
    BY <2>1, <2>2, SubSeqProperties DEF V!Front
<1> QED
  BY <1>2, <1>3, AppendProperties

\* Storing a handler notes it in the reports that will load it.
LEMMA StoreKeeps ==
  ASSUME ReportsKnown, NEW t \in Threads, NEW h \in Slots, V!SetViolationHandler(t, h),
         policy' = policy
  PROVE  handler' \in Slots /\ reports' \in [Threads -> Seq(Reports')]
<1>1. /\ handler' = h
      /\ reports' = [u \in Threads |-> [i \in DOMAIN reports[u] |->
           IF reports[u][i].at = "dispatch"
           THEN [reports[u][i] EXCEPT !.held = @ \union {h}] ELSE reports[u][i]]]
  BY DEF V!SetViolationHandler
<1>2. ASSUME NEW r \in Reports
      PROVE  (IF r.at = "dispatch" THEN [r EXCEPT !.held = @ \union {h}] ELSE r) \in Reports'
  <2>1. CASE r.at = "dispatch"
    <3>1. PICK f : f = [r EXCEPT !.held = @ \union {h}]
      OBVIOUS
    <3>2. f \in Frames /\ f.at = "dispatch" /\ h \in f.held
      BY <2>1, <3>1 DEF Reports, Frames
    <3> QED
      BY <1>1, <2>1, <3>1, <3>2 DEF Reports
  <2>2. CASE r.at # "dispatch"
    BY <2>2 DEF Reports
  <2> QED
    BY <2>1, <2>2
<1>3. ASSUME NEW u \in Threads
      PROVE  reports'[u] \in Seq(Reports')
  <2>1. reports[u] \in Seq(Reports)
    BY DEF ReportsKnown
  <2>2. PICK n \in Nat : DOMAIN reports[u] = 1 .. n /\ \A i \in 1 .. n : reports[u][i] \in Reports
    BY <2>1
  <2>3. reports'[u] = [i \in 1 .. n |->
          IF reports[u][i].at = "dispatch"
          THEN [reports[u][i] EXCEPT !.held = @ \union {h}] ELSE reports[u][i]]
    BY <1>1, <2>2
  <2>4. \A i \in 1 .. n :
          (IF reports[u][i].at = "dispatch"
           THEN [reports[u][i] EXCEPT !.held = @ \union {h}] ELSE reports[u][i]) \in Reports'
    BY <1>2, <2>2
  <2>5. reports'[u] \in [1 .. n -> Reports']
    BY <2>3, <2>4
  <2> QED
    BY <2>5
<1> QED
  BY <1>1, <1>3

\* The innermost report of a thread that is at one.
LEMMA CurrentReport ==
  ASSUME ReportsKnown, NEW t \in Threads, NEW label, V!At(t, label)
  PROVE  /\ reports[t] \in Seq(Reports) /\ reports[t] # <<>>
         /\ V!Current(t) \in Reports /\ V!Current(t).at = label
         /\ V!Front(reports[t]) \in Seq(Reports)
         /\ \A r \in Reports : Append(V!Front(reports[t]), r) \in Seq(Reports)
<1>1. reports[t] \in Seq(Reports) /\ reports[t] # <<>> /\ V!Current(t).at = label
  BY DEF ReportsKnown, V!At
<1> QED
  BY <1>1, InnermostReport DEF V!Current

\* A step of one thread that stores no handler and changes only its own stack.
LEMMA StackStep ==
  ASSUME ReportsKnown, Built', policy' = policy, handler' = handler,
         hook' \in Hooks \union {Null},
         NEW t \in Threads, NEW s \in Seq(Reports), reports' = [reports EXCEPT ![t] = s],
         V!PolicyDecides'
  PROVE  ReportsKnown'
<1>1. Reports' = Reports
  BY DEF Reports
<1>2. reports' \in [Threads -> Seq(Reports)]
  BY DEF ReportsKnown
<1> QED
  BY <1>1, <1>2 DEF ReportsKnown

LEMMA CallKeeps ==
  ASSUME ReportsKnown, Built', policy' = policy, NEW t \in Threads, V!Call(t)
  PROVE  ReportsKnown'
<1>1. CASE \E h \in Handlers \union {Null} : V!SetViolationHandler(t, h)
  <2>1. PICK h \in Slots : V!SetViolationHandler(t, h)
    BY <1>1 DEF Slots
  <2>2. handler' \in Slots /\ reports' \in [Threads -> Seq(Reports')]
    BY <2>1, StoreKeeps
  <2>3. hook' = hook /\ ended' = ended
    BY <2>1 DEF V!SetViolationHandler
  <2>4. V!PolicyDecides'
    BY <2>3 DEF ReportsKnown, V!PolicyDecides
  <2> QED
    BY <2>2, <2>3, <2>4 DEF ReportsKnown
<1>2. CASE \E k \in Hooks \union {Null} : V!SetViolationLogHook(t, k)
  <2>1. hook' \in Hooks \union {Null} /\ UNCHANGED <<handler, reports, ended>>
    BY <1>2 DEF V!SetViolationLogHook
  <2>2. Reports' = Reports /\ V!PolicyDecides'
    BY <2>1 DEF Reports, ReportsKnown, V!PolicyDecides
  <2> QED
    BY <2>1, <2>2 DEF ReportsKnown
<1>3. CASE V!ReportViolation(t)
  <2>1. PICK f : f = V!Frame("log", Null, {})
    OBVIOUS
  <2>2. f \in Reports
    BY <2>1 DEF V!Frame, Reports, Frames, Slots
  <2>3. /\ reports' = [reports EXCEPT ![t] = Append(reports[t], f)]
        /\ UNCHANGED <<handler, hook, ended>>
    BY <1>3, <2>1 DEF V!ReportViolation
  <2>4. Append(reports[t], f) \in Seq(Reports)
    BY <2>2, AppendProperties DEF ReportsKnown
  <2>5. V!PolicyDecides' /\ hook' \in Hooks \union {Null}
    BY <2>3 DEF ReportsKnown, V!PolicyDecides
  <2> QED
    BY <2>3, <2>4, <2>5, StackStep
<1> QED
  BY <1>1, <1>2, <1>3 DEF V!Call

LEMMA ProceedKeeps ==
  ASSUME ReportsKnown, Built', policy' = policy, NEW t \in Threads, V!Proceed(t)
  PROVE  ReportsKnown'
<1>1. handler \in Slots /\ hook \in Hooks \union {Null} /\ V!PolicyDecides
  BY DEF ReportsKnown
<1>2. V!Frame("dispatch", Null, {handler}) \in Reports
  BY <1>1 DEF V!Frame, Reports, Frames, Slots
<1>3. CASE V!NotifyLogHook(t)
  <2>1. PICK f : f = IF hook = Null THEN V!Frame("dispatch", Null, {handler})
                     ELSE V!Frame("logging", hook, {})
    OBVIOUS
  <2>2. f \in Reports
    <3>1. hook # Null => V!Frame("logging", hook, {}) \in Reports
      BY <1>1 DEF V!Frame, Reports, Frames, Slots
    <3> QED
      BY <1>2, <2>1, <3>1
  <2>3. /\ V!At(t, "log")
        /\ reports' = [reports EXCEPT ![t] = Append(V!Front(reports[t]), f)]
        /\ UNCHANGED <<handler, hook, ended>>
    BY <1>3, <2>1 DEF V!NotifyLogHook, V!Become
  <2>4. Append(V!Front(reports[t]), f) \in Seq(Reports)
    BY <2>2, <2>3, CurrentReport
  <2>5. V!PolicyDecides' /\ hook' \in Hooks \union {Null}
    BY <1>1, <2>3 DEF V!PolicyDecides
  <2> QED
    BY <2>3, <2>4, <2>5, StackStep
<1>4. CASE V!HookEnds(t)
  <2>1. PICK f : f = V!Frame("dispatch", Null, {handler})
    OBVIOUS
  <2>2. /\ V!At(t, "logging")
        /\ reports' = [reports EXCEPT ![t] = Append(V!Front(reports[t]), f)]
        /\ UNCHANGED <<handler, hook, ended>>
    BY <1>4, <2>1 DEF V!HookEnds, V!Become
  <2>3. Append(V!Front(reports[t]), f) \in Seq(Reports)
    BY <1>2, <2>1, <2>2, CurrentReport
  <2>4. V!PolicyDecides' /\ hook' \in Hooks \union {Null}
    BY <1>1, <2>2 DEF V!PolicyDecides
  <2> QED
    BY <2>2, <2>3, <2>4, StackStep
<1>5. CASE V!Dispatch(t)
  <2>1. V!At(t, "dispatch") /\ UNCHANGED <<handler, hook>>
    BY <1>5 DEF V!Dispatch
  <2>2. CASE policy = "throw"
    <3>1. /\ reports' = [reports EXCEPT ![t] = V!Front(reports[t])]
          /\ ended' = ended \union {[how |-> "threw", by |-> Null]}
      BY <1>5, <2>2 DEF V!Dispatch, V!EndReport
    <3>2. V!Front(reports[t]) \in Seq(Reports)
      BY <2>1, CurrentReport
    <3>3. V!PolicyDecides' /\ hook' \in Hooks \union {Null}
      BY <1>1, <2>1, <2>2, <3>1 DEF V!PolicyDecides
    <3> QED
      BY <2>1, <3>1, <3>2, <3>3, StackStep
  <2>3. CASE policy = "handler" /\ handler # Null
    <3>1. PICK f : f = V!Frame("handling", handler, V!Current(t).held)
      OBVIOUS
    <3>2. V!Current(t) \in Reports /\ V!Current(t).at = "dispatch"
      BY <2>1, CurrentReport
    <3>3. f \in Reports
      BY <1>1, <2>3, <3>1, <3>2 DEF V!Frame, Reports, Frames, Slots
    <3>4. /\ reports' = [reports EXCEPT ![t] = Append(V!Front(reports[t]), f)]
          /\ ended' = ended
      BY <1>5, <2>3, <3>1 DEF V!Dispatch, V!Become
    <3>5. Append(V!Front(reports[t]), f) \in Seq(Reports)
      BY <2>1, <3>3, CurrentReport
    <3>6. V!PolicyDecides' /\ hook' \in Hooks \union {Null}
      BY <1>1, <2>1, <3>4 DEF V!PolicyDecides
    <3> QED
      BY <2>1, <3>4, <3>5, <3>6, StackStep
  <2>4. CASE ~(policy = "throw") /\ ~(policy = "handler" /\ handler # Null)
    <3>1. UNCHANGED <<reports, ended>>
      BY <1>5, <2>4 DEF V!Dispatch, V!AbortWith
    <3>2. Reports' = Reports /\ V!PolicyDecides'
      BY <1>1, <2>1, <3>1 DEF Reports, V!PolicyDecides
    <3> QED
      BY <2>1, <3>1, <3>2 DEF ReportsKnown
  <2> QED
    BY <2>2, <2>3, <2>4
<1>6. CASE V!HandlerEnds(t)
  <2>1. PICK how : /\ V!At(t, "handling") /\ UNCHANGED <<handler, hook>>
                   /\ reports' = [reports EXCEPT ![t] = V!Front(reports[t])]
                   /\ ended' = ended \union {[how |-> how, by |-> V!Current(t).callee]}
    BY <1>6 DEF V!HandlerEnds, V!EndReport
  <2>2. /\ V!Front(reports[t]) \in Seq(Reports)
        /\ V!Current(t) \in Reports /\ V!Current(t).at = "handling"
    BY <2>1, CurrentReport
  <2>3. policy = "handler" /\ V!Current(t).callee \in Handlers
    BY <2>2 DEF Reports
  <2>4. V!PolicyDecides' /\ hook' \in Hooks \union {Null}
    BY <1>1, <2>1, <2>3 DEF V!PolicyDecides
  <2> QED
    BY <2>1, <2>2, <2>4, StackStep
<1> QED
  BY <1>3, <1>4, <1>5, <1>6 DEF V!Proceed

\* Nothing is reported until the unit is built, and its policy is then fixed.
LEMMA PreprocessKeepsReports ==
  ASSUME ReportsKnown, [Next]_vars, UNCHANGED runtime
  PROVE  ReportsKnown'
<1>1. UNCHANGED <<handler, hook, reports, ended>>
  BY DEF runtime
<1>2. CASE Built
  <2>1. UNCHANGED <<unit, macros, source, todo, seen, failed>>
    BY <1>2 DEF Built, Next, vars, UserDefine, UserInclude, IncludeGuard, HeaderText,
                Reading, CompleteType, IsComplete, IsCompleteObject, IsConstructibleObject,
                IsScopeConstructibleObject, Instantiate, Finished
  <2>2. policy' = policy
    BY <2>1 DEF policy, Defined, KnownPolicy
  <2>3. Built'
    BY <1>2, <2>1 DEF Built, Defined
  <2>4. Reports' = Reports /\ V!PolicyDecides'
    BY <1>1, <2>2 DEF Reports, ReportsKnown, V!PolicyDecides
  <2> QED
    BY <1>1, <2>3, <2>4 DEF ReportsKnown
<1>3. CASE ~Built
  <2>1. (\A t \in Threads : reports[t] = <<>>) /\ ended = {}
    BY <1>3 DEF ReportsKnown
  <2>2. reports' \in [Threads -> Seq(Reports')]
    <3>1. \A S : <<>> \in Seq(S)
      OBVIOUS
    <3>2. \A t \in Threads : reports[t] \in Seq(Reports')
      BY <2>1, <3>1, Zenon
    <3> QED
      BY <1>1, <3>2 DEF ReportsKnown
  <2>3. V!PolicyDecides'
    BY <1>1, <2>1 DEF V!PolicyDecides
  <2> QED
    BY <1>1, <2>1, <2>2, <2>3 DEF ReportsKnown
<1> QED
  BY <1>2, <1>3

LEMMA ReportsAreKnown == ProgramSpec => []ReportsKnown
<1>1. ProgramInit => ReportsKnown
  <2> SUFFICES ASSUME ProgramInit PROVE ReportsKnown
    OBVIOUS
  <2>1. /\ handler = Null /\ hook = Null /\ ended = {}
        /\ reports = [t \in Threads |-> <<>>]
    BY DEF ProgramInit, V!SlotsEmpty
  <2>2. reports \in [Threads -> Seq(Reports)]
    BY <2>1
  <2> QED
    BY <2>1, <2>2 DEF ReportsKnown, Slots, V!PolicyDecides
<1>2. ReportsKnown /\ [ProgramNext]_<<vars, runtime>> => ReportsKnown'
  <2> SUFFICES ASSUME ReportsKnown, [ProgramNext]_<<vars, runtime>>
               PROVE  ReportsKnown'
    OBVIOUS
  <2>1. CASE Preprocess \/ UNCHANGED <<vars, runtime>>
    BY <2>1, PreprocessKeepsReports DEF Preprocess
  <2>2. CASE Run
    <3>1. Built /\ UNCHANGED vars /\ V!Next
      BY <2>2 DEF Run
    <3>2. Built' /\ policy' = policy
      BY <3>1 DEF vars, Built, policy, Defined, KnownPolicy
    <3>3. CASE \E t \in Threads : V!Call(t) \/ V!Proceed(t)
      BY <3>2, <3>3, CallKeeps, ProceedKeeps
    <3>4. CASE V!Stopped
      <4>1. UNCHANGED <<handler, hook, reports, ended>>
        BY <3>4 DEF V!Stopped, V!vars
      <4>2. Reports' = Reports /\ V!PolicyDecides'
        BY <3>2, <4>1 DEF Reports, ReportsKnown, V!PolicyDecides
      <4> QED
        BY <3>2, <4>1, <4>2 DEF ReportsKnown
    <3> QED
      BY <3>1, <3>3, <3>4 DEF V!Next
  <2> QED
    BY <2>1, <2>2 DEF ProgramNext
<1> QED
  BY <1>1, <1>2, PTL DEF ProgramSpec

\* A report calls a handler, never null, and one the slot held after the
\* logging hook was done, whatever is stored meanwhile (violation.hpp:1087-1088).
THEOREM ReportsCallInstalledHandlers == ProgramSpec => []CallsInstalledHandler
<1>1. ReportsKnown => CallsInstalledHandler
  <2> SUFFICES ASSUME ReportsKnown, NEW t \in Threads, NEW i \in DOMAIN reports[t],
                      reports[t][i].at = "handling"
               PROVE  reports[t][i].callee \in reports[t][i].held \ {Null}
    BY DEF CallsInstalledHandler, V!CallsInstalledHandler
  <2>1. reports[t] \in Seq(Reports)
    BY DEF ReportsKnown
  <2>2. reports[t][i] \in Reports
    BY <2>1
  <2> QED
    BY <2>2 DEF Reports
<1> QED
  BY <1>1, ReportsAreKnown, PTL

\* Every report that ends does so by the policy the unit asked for before
\* violation.hpp was read (violation.hpp:116-117, 1042, 1063-1074).
THEOREM RequestedPolicyDecides == ProgramSpec => []PolicyDecides
<1>1. UnitKnown /\ ReportsKnown => PolicyDecides
  <2> SUFFICES ASSUME UnitKnown, ReportsKnown, ended # {}
               PROVE  RequestedPolicy = {policy}
    BY DEF PolicyDecides, ReportsKnown
  <2>1. Built /\ ViolationRead
    BY DEF ReportsKnown, UnitKnown, Tables
  <2>2. /\ "ON_VIOLATION" \in DOMAIN macros /\ KnownPolicy(macros)
        /\ IF "ON_VIOLATION" \in DOMAIN seen["violation"]
           THEN macros["ON_VIOLATION"] = seen["violation"]["ON_VIOLATION"]
           ELSE macros["ON_VIOLATION"] = 1
    BY <2>1 DEF Built, Defined, ViolationRead, ViolationMacros
  <2>3. PICK p \in DOMAIN PolicyValues : macros["ON_VIOLATION"] = PolicyValues[p]
    BY <2>2 DEF KnownPolicy
  <2>4. \A q \in DOMAIN PolicyValues : PolicyValues[q] = PolicyValues[p] => q = p
    BY DEF PolicyValues
  <2>5. policy = p
    BY <2>2, <2>3, <2>4 DEF policy, Defined
  <2>6. CASE "ON_VIOLATION" \in DOMAIN seen["violation"]
    BY <2>2, <2>3, <2>4, <2>5, <2>6 DEF RequestedPolicy, Defined
  <2>7. CASE "ON_VIOLATION" \notin DOMAIN seen["violation"]
    <3>1. p = "abort"
      BY <2>2, <2>3, <2>7 DEF PolicyValues
    <3> QED
      BY <2>5, <2>7, <3>1 DEF RequestedPolicy, Defined
  <2> QED
    BY <2>6, <2>7
<1> QED
  BY <1>1, UnitIsKnown, ReportsAreKnown, PTL
=============================================================================
