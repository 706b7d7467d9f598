----------------------- MODULE SlotMapOwnershipProof -----------------------
(***************************************************************************)
(* The safety of SlotMap, proved for any number of threads, slots and       *)
(* calls, of behaviors in which no 32-bit counter makes a full turn and     *)
(* every handle comes from this map.                                        *)
(***************************************************************************)
EXTENDS SlotMapProof, FiniteSetTheorems

USE DEF map, list, cells, locals, history

\* No counter is at its last value.
BelowWidth ==
  /\ head.aba < AbaMod - 1
  /\ \A i \in Slots : generation[i] < GenMod - 1

\* What the handles that went out say about the generations: this is why a
\* bump makes a slot's handle stale for good.
HandleHistory ==
  /\ retired \subseteq issued
  /\ \A h \in issued : h.index \in Active /\ h.generation <= generation[h.index]
  /\ \A h \in retired : h.generation < generation[h.index]

\* What a thread knows from the steps it has made.
Knowledge ==
  \A t \in Threads :
    /\ pc[t] # "idle" => alive /\ teardown # "loop"
    /\ pc[t] \in {"getOccupied", "freeOccupied", "bump"} => handle[t] \in issued
    /\ pc[t] \in {"publish", "countUp"} =>
         handle[t].generation = generation[handle[t].index]
    /\ pc[t] = "pushSwing" => nextFree[handle[t].index] = observed[t].index

\* A head word seen before is still the head, with the link read then, if its
\* ABA counter is.
Observations ==
  \A t \in Threads :
    pc[t] \in {"popNext", "popSwing", "pushLink", "pushSwing"} =>
      /\ observed[t].aba <= head.aba
      /\ observed[t].aba = head.aba => observed[t] = head
      /\ observed[t] = head /\ pc[t] = "popSwing" => link[t] = nextFree[head.index]

Inv == /\ TypeInv /\ HandleHistory /\ Knowledge /\ Observations
       /\ ExclusiveOwnership /\ FreeListIntact

\* The head of the list is a free slot, or there is none.
LEMMA HeadFree ==
  ASSUME TypeInv, FreeListIntact, alive, head.index # InvalidIndex
  PROVE  head.index \in Active /\ Free(head.index)
<1>1. PICK s \in FreeStacks :
        IsFreeList(s) /\ {s[k] : k \in DOMAIN s} = {i \in Active : Free(i)}
  BY DEF FreeListIntact
<1>2. 1 \in DOMAIN s /\ head.index = s[1]
  BY <1>1 DEF IsFreeList
<1> QED
  BY <1>1, <1>2

\* A step that moves no slot between the list, the calls and the holders.
Quiet ==
  /\ alive' = alive /\ capacity' = capacity
  /\ \A i \in Slots : Live(i)' <=> Live(i)
  /\ \A t \in Threads, i \in Slots : Holds(t, i)' <=> Holds(t, i)

\* It stays on one side of the border, with the same slot in its hands.
Local(t) ==
  /\ UNCHANGED <<map, generation, issued, retired>>
  /\ \A u \in Threads \ {t} : pc'[u] = pc[u] /\ handle'[u] = handle[u]
  /\ pc'[t] \in Working <=> pc[t] \in Working
  /\ pc[t] \in Working => handle'[t].index = handle[t].index

LEMMA LocalQuiet == ASSUME NEW t \in Threads, Local(t) PROVE Quiet
BY DEF Local, Quiet, Live, Holds

\* Only these steps move a slot.
Moves(t) == PopSwing(t) \/ CountUp(t) \/ (Bump(t) /\ BumpSucceeds(t)) \/ PushSwing(t)

LEMMA QuietSteps ==
  ASSUME TypeInv, NEW t \in Threads, Call(t) \/ Continue(t), ~Moves(t)
  PROVE  Local(t)
<1> USE DEF TypeInv, TypeOK, Local, Goto, Working, Allocating, Retiring, Pushing
<1>1. CASE PopReadNext(t)
  BY <1>1 DEF PopReadNext
<1>2. CASE PopClear(t)
  BY <1>2 DEF PopClear
<1>3. CASE Construct(t)
  BY <1>3 DEF Construct
<1>4. CASE ConstructThrows(t)
  BY <1>4 DEF ConstructThrows
<1>5. CASE ReadGeneration(t)
  BY <1>5 DEF ReadGeneration
<1>6. CASE Publish(t)
  BY <1>6 DEF Publish
<1>7. CASE GetCheckOccupied(t)
  BY <1>7 DEF GetCheckOccupied, Return
<1>8. CASE ClearOccupied(t)
  BY <1>8 DEF ClearOccupied
<1>9. CASE Destroy(t)
  BY <1>9 DEF Destroy
<1>10. CASE CountDown(t)
  BY <1>10 DEF CountDown
<1>11. CASE PushLoad(t)
  BY <1>11 DEF PushLoad
<1>12. CASE PushLink(t)
  BY <1>12 DEF PushLink
<1>13. CASE PushRetry(t)
  BY <1>13 DEF PushRetry
<1>14. CASE PopRetry(t)
  <2>1. CASE head.index = InvalidIndex
    BY <1>14, <2>1 DEF PopRetry, Return
  <2>2. CASE ~(head.index = InvalidIndex)
    BY <1>14, <2>2 DEF PopRetry, Return
  <2> QED
    BY <2>1, <2>2
<1>15. CASE FreeCheckOccupied(t)
  <2>1. CASE occupied[handle[t].index]
    BY <1>15, <2>1 DEF FreeCheckOccupied, Return
  <2>2. CASE ~(occupied[handle[t].index])
    BY <1>15, <2>2 DEF FreeCheckOccupied, Return
  <2> QED
    BY <2>1, <2>2
<1>16. CASE AllocateCall(t)
  <2>1. CASE head.index = InvalidIndex
    BY <1>16, <2>1 DEF AllocateCall, Start, Return
  <2>2. CASE ~(head.index = InvalidIndex)
    BY <1>16, <2>2 DEF AllocateCall, Start, Return
  <2> QED
    BY <2>1, <2>2
<1>17. CASE Bump(t)
  BY <1>17 DEF Bump, Return, Moves
<1>18. ASSUME NEW op, NEW label \in {"getOccupied", "freeOccupied"},
             CheckedCall(t, op, label)
       PROVE Local(t)
  BY <1>18 DEF CheckedCall, Start, Return
<1> QED
  BY <1>1, <1>2, <1>3, <1>4, <1>5, <1>6, <1>7, <1>8, <1>9, <1>10, <1>11, <1>12, <1>13, <1>14, <1>15, <1>16, <1>17, <1>18 DEF Call, Continue, GetCall, DeallocateCall, Moves

\* The four steps that move a slot, and where they move it.
LEMMA PopMoves ==
  ASSUME Inv, NEW t \in Threads, PopSwing(t)
  PROVE  /\ alive /\ UNCHANGED <<map, nextFree, generation>>
         /\ head.index \in Active /\ Free(head.index)
         /\ \A j \in Slots : Live(j)' <=> Live(j)
         /\ \A u \in Threads, j \in Slots :
              Holds(u, j)' <=> Holds(u, j) \/ (u = t /\ j = head.index)
<1> USE DEF Inv, TypeInv
<1>1. alive /\ head.index # InvalidIndex /\ observed[t] = head
  BY Types DEF PopSwing, SwingHead, Knowledge, RegistersInRange
<1>2. head.index \in Active /\ Free(head.index)
  BY <1>1, HeadFree
<1>3. \A j \in Slots : Live(j)' <=> Live(j)
  BY DEF PopSwing, Live
<1>4. \A u \in Threads, j \in Slots :
        Holds(u, j)' <=> Holds(u, j) \/ (u = t /\ j = head.index)
  BY <1>1 DEF PopSwing, Goto, Holds, Working, Allocating, Retiring, Pushing, TypeOK
<1> QED
  BY <1>1, <1>2, <1>3, <1>4 DEF PopSwing

LEMMA IssueMoves ==
  ASSUME Inv, NEW t \in Threads, CountUp(t)
  PROVE  /\ alive /\ UNCHANGED <<map, list, generation>>
         /\ handle[t].index \in Slots /\ handle[t] \notin issued
         /\ Holds(t, handle[t].index)
         /\ \A j \in Slots : Live(j)' <=> Live(j) \/ j = handle[t].index
         /\ \A u \in Threads, j \in Slots : Holds(u, j)' <=> Holds(u, j) /\ u # t
<1> USE DEF Inv, TypeInv
<1> DEFINE i == handle[t].index
<1>1. alive /\ i \in Slots /\ Holds(t, i) /\ handle[t] \in HandleSet
  BY DEF CountUp, Knowledge, RegistersInRange, TypeOK, Holds, Working, Allocating
<1>2. handle[t] = [index |-> i, generation |-> generation[i]]
  BY <1>1 DEF CountUp, Knowledge, HandleSet
<1>3. handle[t] \notin retired
  BY <1>1, <1>2 DEF HandleHistory, TypeOK
<1>4. ~Live(i)
  BY <1>1 DEF ExclusiveOwnership
<1>5. handle[t] \notin issued
  BY <1>2, <1>3, <1>4 DEF Live
<1>6. \A j \in Slots : Live(j)' <=> Live(j) \/ j = i
  BY <1>1, <1>2, <1>3 DEF CountUp, Live
<1>7. \A u \in Threads, j \in Slots : Holds(u, j)' <=> Holds(u, j) /\ u # t
  BY DEF CountUp, Return, Holds, Working, Allocating, Retiring, Pushing, TypeOK
<1> QED
  BY <1>1, <1>5, <1>6, <1>7 DEF CountUp

LEMMA RetireMoves ==
  ASSUME Inv, BelowWidth, NEW t \in Threads, Bump(t), BumpSucceeds(t)
  PROVE  /\ alive /\ UNCHANGED <<map, list>>
         /\ handle[t].index \in Active /\ handle[t] \notin retired
         /\ Live(handle[t].index)
         /\ generation' = [generation EXCEPT ![handle[t].index] = @ + 1]
         /\ \A j \in Slots : Live(j)' <=> Live(j) /\ j # handle[t].index
         /\ \A u \in Threads, j \in Slots :
              Holds(u, j)' <=> Holds(u, j) \/ (u = t /\ j = handle[t].index)
<1> USE DEF Inv, TypeInv
<1> DEFINE i == handle[t].index
<1>1. /\ alive /\ i \in Slots /\ i \in Active
      /\ handle[t] \in issued /\ handle[t] \in HandleSet
  BY DEF Bump, Knowledge, RegistersInRange, TypeOK, HandleHistory
<1>2. handle[t] = [index |-> i, generation |-> generation[i]]
  BY <1>1 DEF BumpSucceeds, HandleSet
<1>3. handle[t] \notin retired
  BY <1>1, <1>2 DEF HandleHistory, TypeOK
<1>4. Live(i)
  BY <1>1, <1>2, <1>3 DEF Live
<1>5. generation[i] \in 1 .. GenMod - 1 /\ generation[i] < GenMod - 1
  BY <1>1 DEF TypeOK, BelowWidth
<1>6. NextGeneration(generation[i]) = generation[i] + 1
  BY <1>5, WidthAssumption DEF NextGeneration
<1>7. generation' = [generation EXCEPT ![i] = generation[i] + 1]
  BY <1>6 DEF Bump
<1>8. [index |-> i, generation |-> generation[i] + 1] \notin issued
  BY <1>1, <1>5 DEF HandleHistory
<1>9. \A j \in Slots : Live(j)' <=> Live(j) /\ j # i
  BY <1>1, <1>2, <1>7, <1>8 DEF Bump, Live, TypeOK
<1>10. \A u \in Threads, j \in Slots :
         Holds(u, j)' <=> Holds(u, j) \/ (u = t /\ j = i)
  BY DEF Bump, Goto, Holds, Working, Allocating, Retiring, Pushing, TypeOK
<1> QED
  BY <1>1, <1>3, <1>4, <1>7, <1>9, <1>10 DEF Bump

LEMMA PushMoves ==
  ASSUME Inv, NEW t \in Threads, PushSwing(t)
  PROVE  /\ alive /\ UNCHANGED <<map, nextFree, generation>>
         /\ handle[t].index \in Slots /\ Holds(t, handle[t].index)
         /\ head'.index = handle[t].index /\ nextFree[handle[t].index] = head.index
         /\ \A j \in Slots : Live(j)' <=> Live(j)
         /\ \A u \in Threads, j \in Slots : Holds(u, j)' <=> Holds(u, j) /\ u # t
<1> USE DEF Inv, TypeInv
<1>1. /\ alive /\ handle[t].index \in Slots /\ Holds(t, handle[t].index)
      /\ nextFree[handle[t].index] = head.index
  BY DEF PushSwing, SwingHead, Knowledge, RegistersInRange, Holds, Working, Pushing
<1>2. \A j \in Slots : Live(j)' <=> Live(j)
  BY DEF PushSwing, Live
<1>3. \A u \in Threads, j \in Slots : Holds(u, j)' <=> Holds(u, j) /\ u # t
  BY DEF PushSwing, Return, Holds, Working, Allocating, Retiring, Pushing, TypeOK
<1> QED
  BY <1>1, <1>2, <1>3 DEF PushSwing, SwingHead

\* Active slots are slots, and handles that went out carry numbers.
LEMMA ActiveSlots ==
  ASSUME TypeInv
  PROVE  Active \subseteq Slots /\ \A h \in issued : h.generation \in Nat
<1>1. Active \subseteq Slots
  BY CapacityAssumption DEF TypeInv, TypeOK, Active, Slots
<1>2. \A h \in issued : h.generation \in Nat
  BY Types, WidthAssumption DEF TypeInv, TypeOK
<1> QED
  BY <1>1, <1>2

\* A step of one thread leaves the registers of the others alone, writes only
\* its own slot's link, and moves the head with a new ABA value.
Contained(t) ==
  /\ (alive /\ teardown # "loop") \/ pc[t] # "idle"
  /\ UNCHANGED map /\ issued \subseteq issued'
  /\ \A u \in Threads \ {t} : /\ pc'[u] = pc[u] /\ handle'[u] = handle[u]
                              /\ observed'[u] = observed[u] /\ link'[u] = link[u]
  /\ \A i \in Slots : nextFree'[i] = nextFree[i] \/ Holds(t, i)
  /\ head' = head \/ head'.aba = NextAba(head.aba)

LEMMA ContainedSteps ==
  ASSUME TypeInv, NEW t \in Threads, Call(t) \/ Continue(t)
  PROVE  Contained(t)
<1> USE DEF TypeInv, TypeOK, Contained, Goto, Return
<1>1. CASE PopReadNext(t)
  BY <1>1 DEF PopReadNext
<1>2. CASE Construct(t)
  BY <1>2 DEF Construct
<1>3. CASE ConstructThrows(t)
  BY <1>3 DEF ConstructThrows
<1>4. CASE ReadGeneration(t)
  BY <1>4 DEF ReadGeneration
<1>5. CASE Publish(t)
  BY <1>5 DEF Publish
<1>6. CASE CountUp(t)
  BY <1>6 DEF CountUp
<1>7. CASE GetCheckOccupied(t)
  BY <1>7 DEF GetCheckOccupied
<1>8. CASE ClearOccupied(t)
  BY <1>8 DEF ClearOccupied
<1>9. CASE Destroy(t)
  BY <1>9 DEF Destroy
<1>10. CASE CountDown(t)
  BY <1>10 DEF CountDown
<1>11. CASE PushLoad(t)
  BY <1>11 DEF PushLoad
<1>12. CASE PushRetry(t)
  BY <1>12 DEF PushRetry
<1>13. CASE PopSwing(t)
  BY <1>13 DEF PopSwing, SwingHead
<1>14. CASE PushSwing(t)
  BY <1>14 DEF PushSwing, SwingHead
<1>15. CASE PopClear(t)
  BY <1>15 DEF PopClear, Holds, Working, Allocating, Pushing
<1>16. CASE PushLink(t)
  BY <1>16 DEF PushLink, Holds, Working, Allocating, Pushing
<1>17. CASE PopRetry(t)
  BY <1>17 DEF PopRetry
<1>18. CASE FreeCheckOccupied(t)
  BY <1>18 DEF FreeCheckOccupied
<1>19. CASE AllocateCall(t)
  BY <1>19 DEF AllocateCall, Start, MayCall
<1>20. CASE Bump(t)
  BY <1>20 DEF Bump
<1>21. ASSUME NEW op, NEW label \in {"getOccupied", "freeOccupied"},
             CheckedCall(t, op, label)
       PROVE Contained(t)
  BY <1>21 DEF CheckedCall, Start, MayCall
<1> QED
  BY <1>1, <1>2, <1>3, <1>4, <1>5, <1>6, <1>7, <1>8, <1>9, <1>10, <1>11, <1>12, <1>13, <1>14, <1>15, <1>16, <1>17, <1>18, <1>19, <1>20, <1>21 DEF Call, Continue, GetCall, DeallocateCall

-----------------------------------------------------------------------------
\* Ownership stays exclusive: a slot leaves the list, a call or a live handle
\* for exactly one of the others.
LEMMA OwnershipStep ==
  ASSUME Inv, BelowWidth, NEW t \in Threads, Call(t) \/ Continue(t)
  PROVE  ExclusiveOwnership'
<1> SUFFICES ASSUME alive', NEW u \in Threads, NEW i \in Slots, Holds(u, i)'
             PROVE  /\ i < capacity' /\ ~Live(i)'
                    /\ \A v \in Threads \ {u} : ~Holds(v, i)'
  BY DEF ExclusiveOwnership
<1>0. alive => \A v \in Threads, j \in Slots :
                 Holds(v, j) => /\ j < capacity /\ ~Live(j)
                                /\ \A w \in Threads \ {v} : ~Holds(w, j)
  BY DEF Inv, ExclusiveOwnership
<1>1. CASE ~Moves(t)
  BY <1>0, <1>1, QuietSteps, LocalQuiet DEF Quiet, Inv
<1>2. CASE PopSwing(t)
  <2>1. capacity' = capacity /\ Free(head.index) /\ head.index \in Active
    BY <1>2, PopMoves
  <2>2. head.index < capacity
    BY <2>1 DEF Active, Inv, TypeInv, TypeOK
  <2>3. /\ alive /\ ~Live(i)
        /\ \A v \in Threads : Holds(v, i)' <=> Holds(v, i) \/ (v = t /\ i = head.index)
        /\ ~Live(i)' <=> ~Live(i)
    BY <1>0, <1>2, <2>1, PopMoves DEF Free
  <2> QED
    BY <1>0, <2>1, <2>2, <2>3 DEF Free
<1>3. CASE CountUp(t)
  <2>1. /\ capacity' = capacity /\ alive
        /\ Holds(t, handle[t].index)
        /\ Live(i)' <=> Live(i) \/ i = handle[t].index
        /\ \A v \in Threads : Holds(v, i)' <=> Holds(v, i) /\ v # t
    BY <1>3, IssueMoves
  <2>2. Holds(u, i) /\ u # t
    BY <2>1
  <2>3. /\ i < capacity /\ ~Live(i)
        /\ \A w \in Threads \ {u} : ~Holds(w, i)
    BY <1>0, <2>1, <2>2
  <2>4. i # handle[t].index
    BY <2>1, <2>2, <2>3
  <2> QED
    BY <2>1, <2>3, <2>4
<1>4. CASE Bump(t) /\ BumpSucceeds(t)
  <2>1. capacity' = capacity /\ Live(handle[t].index) /\ handle[t].index \in Active
    BY <1>4, RetireMoves
  <2>2. handle[t].index < capacity
    BY <2>1 DEF Active, Inv, TypeInv, TypeOK
  <2> QED
    BY <1>0, <1>4, <2>1, <2>2, RetireMoves
<1>5. CASE PushSwing(t)
  <2>1. /\ capacity' = capacity /\ alive
        /\ Live(i)' <=> Live(i)
        /\ \A v \in Threads : Holds(v, i)' <=> Holds(v, i) /\ v # t
    BY <1>5, PushMoves
  <2> QED
    BY <1>0, <2>1
<1> QED
  BY <1>1, <1>2, <1>3, <1>4, <1>5 DEF Moves

-----------------------------------------------------------------------------
\* The history of the handles keeps agreeing with the generations.
LEMMA HistoryStep ==
  ASSUME Inv, BelowWidth, NEW t \in Threads, Call(t) \/ Continue(t)
  PROVE  HandleHistory'
<1> SUFFICES ASSUME HandleHistory PROVE HandleHistory'
  BY DEF Inv
<1>0. generation \in [Slots -> Nat]
  BY DEF Inv, TypeInv, TypeOK
<1>1. CASE ~Moves(t)
  <2>1. UNCHANGED <<map, generation, issued, retired>>
    BY <1>1, QuietSteps DEF Local, Inv
  <2> QED
    BY <2>1 DEF HandleHistory, Active
<1>2. CASE PopSwing(t) \/ PushSwing(t)
  BY <1>2 DEF PopSwing, PushSwing, HandleHistory, Active
<1>3. CASE CountUp(t)
  <2>1. /\ handle[t].index \in Active
        /\ handle[t].generation = generation[handle[t].index]
    BY <1>3, IssueMoves DEF Inv, ExclusiveOwnership, Knowledge, CountUp, Active,
       TypeInv, TypeOK, Slots
  <2>2. generation[handle[t].index] \in Nat
    BY <1>0, <1>3, IssueMoves
  <2> QED
    BY <1>3, <2>1, <2>2 DEF CountUp, HandleHistory, Active
<1>4. CASE Bump(t) /\ BumpSucceeds(t)
  <2>1. /\ generation' = [generation EXCEPT ![handle[t].index] = @ + 1]
        /\ handle[t] \in issued /\ issued' = issued /\ capacity' = capacity
        /\ retired' = retired \union {handle[t]}
    BY <1>4, RetireMoves DEF Bump, Knowledge, Inv
  <2>2. generation[handle[t].index] = handle[t].generation
    BY <1>4 DEF BumpSucceeds
  <2>3. \A h \in issued : h.index \in Slots /\ h.generation \in Nat
    BY ActiveSlots DEF Inv, HandleHistory
  <2> QED
    BY <1>0, <2>1, <2>2, <2>3 DEF HandleHistory, Active
<1> QED
  BY <1>1, <1>2, <1>3, <1>4 DEF Moves

\* What the threads know stays true: only a slot's owner writes its
\* generation and its link.
LEMMA KnowledgeStep ==
  ASSUME Inv, ForeignHandles = {}, BelowWidth,
         NEW t \in Threads, Call(t) \/ Continue(t)
  PROVE  Knowledge'
<1> DEFINE K(u) ==
      /\ pc[u] # "idle" => alive /\ teardown # "loop"
      /\ pc[u] \in {"getOccupied", "freeOccupied", "bump"} => handle[u] \in issued
      /\ pc[u] \in {"publish", "countUp"} =>
           handle[u].generation = generation[handle[u].index]
      /\ pc[u] = "pushSwing" => nextFree[handle[u].index] = observed[u].index
<1>1. \A u \in Threads : K(u)
  BY DEF Inv, Knowledge
<1>2. SUFFICES ASSUME NEW u \in Threads PROVE K(u)'
  BY DEF Knowledge
<1>3. pc \in [Threads -> Labels] /\ generation \in [Slots -> 1 .. GenMod - 1]
      /\ nextFree \in [Slots -> Indices] /\ handle \in [Threads -> HandleSet]
      /\ observed \in [Threads -> Heads]
  BY DEF Inv, TypeInv, TypeOK
<1>4. CASE u # t
  <2>1. Contained(t)
    BY ContainedSteps DEF Inv
  <2>2. \A i \in Slots : generation'[i] = generation[i] \/ Live(i)
    <3>1. CASE ~Moves(t)
      BY <3>1, QuietSteps DEF Local, Inv
    <3>2. CASE Bump(t) /\ BumpSucceeds(t)
      BY <1>3, <3>2, RetireMoves
    <3> QED
      BY <3>1, <3>2, PopMoves, PushMoves, IssueMoves DEF Moves
  <2>3. pc[u] # "idle" /\ pc[u] \in Working => handle[u].index \in Slots
    BY DEF Inv, TypeInv, RegistersInRange, Working, Allocating, Retiring, Pushing
  <2>4. alive /\ pc[u] \in Working => ~Live(handle[u].index) /\ ~Holds(t, handle[u].index)
    <3>1. pc[u] \in Working => Holds(u, handle[u].index)
      BY DEF Holds
    <3> QED
      BY <1>4, <2>3, <3>1 DEF Inv, ExclusiveOwnership, Working, Allocating, Retiring,
         Pushing
  <2>5. CASE pc[u] \in Working
    BY <1>1, <1>4, <2>1, <2>2, <2>3, <2>4, <2>5 DEF Contained, Working, Allocating,
       Retiring, Pushing
  <2>6. CASE pc[u] \notin Working
    BY <1>1, <1>4, <2>1, <2>6 DEF Contained, Working, Allocating, Retiring, Pushing
  <2> QED
    BY <2>5, <2>6
<1>5. ASSUME u = t, UNCHANGED <<map, generation, issued, retired>> PROVE K(u)'
  <2> USE <1>1, <1>3, <1>5 DEF Goto, Return
  <2>1. CASE PopReadNext(t)
    BY <2>1 DEF PopReadNext
  <2>2. CASE PopSwing(t)
    BY <2>2 DEF PopSwing
  <2>3. CASE PopRetry(t)
    BY <2>3 DEF PopRetry
  <2>4. CASE PopClear(t)
    BY <2>4 DEF PopClear
  <2>5. CASE Construct(t)
    BY <2>5 DEF Construct
  <2>6. CASE ConstructThrows(t)
    BY <2>6 DEF ConstructThrows
  <2>7. CASE ReadGeneration(t)
    BY <2>7 DEF ReadGeneration
  <2>8. CASE Publish(t)
    BY <2>8 DEF Publish
  <2>9. CASE GetCheckOccupied(t)
    BY <2>9 DEF GetCheckOccupied
  <2>10. CASE FreeCheckOccupied(t)
    BY <2>10 DEF FreeCheckOccupied
  <2>11. CASE Bump(t)
    BY <2>11 DEF Bump
  <2>12. CASE ClearOccupied(t)
    BY <2>12 DEF ClearOccupied
  <2>13. CASE Destroy(t)
    BY <2>13 DEF Destroy
  <2>14. CASE CountDown(t)
    BY <2>14 DEF CountDown
  <2>15. CASE PushLoad(t)
    BY <2>15 DEF PushLoad
  <2>16. CASE PushLink(t)
    <3>1. handle[t].index \in Slots
      BY <2>16 DEF PushLink, Inv, TypeInv, RegistersInRange
    <3> QED
      BY <2>16, <3>1 DEF PushLink
  <2>17. CASE PushSwing(t)
    BY <2>17 DEF PushSwing
  <2>18. CASE PushRetry(t)
    BY <2>18 DEF PushRetry
  <2>19. CASE AllocateCall(t)
    BY <2>19 DEF AllocateCall, Start, MayCall
  <2>20. ASSUME NEW op, NEW label \in {"getOccupied", "freeOccupied"},
             CheckedCall(t, op, label)
         PROVE K(u)'
    <3>1. PICK a \in Arguments :
            /\ Start(t, op, a.origin)
            /\ IF Matches(a.handle)
               THEN handle' = [handle EXCEPT ![t] = a.handle] /\ Goto(t, label)
               ELSE Return(t, Rejected)
      BY <2>20 DEF CheckedCall
    <3>2. Matches(a.handle) => a.handle \in issued
      BY DEF Arguments, LiveHandles, SweptHandles, Matches, InRange, IsValid, DefaultHandle, Inv, HandleHistory
    <3> QED
      BY <3>1, <3>2 DEF Start, MayCall
  <2>21. CASE CountUp(t)
    BY <2>21 DEF CountUp
  <2> QED
    BY <2>1, <2>2, <2>3, <2>4, <2>5, <2>6, <2>7, <2>8, <2>9, <2>10, <2>11, <2>12, <2>13,
       <2>14, <2>15, <2>16, <2>17, <2>18, <2>19, <2>20, <2>21
    DEF Call, Continue, GetCall, DeallocateCall
<1>6. CASE u = t /\ ~Moves(t)
  BY <1>5, <1>6, QuietSteps DEF Local, Inv
<1>7. CASE u = t /\ Moves(t)
  BY <1>1, <1>3, <1>7 DEF Moves, PopSwing, PushSwing, CountUp, Bump, Goto, Return
<1> QED
  BY <1>4, <1>6, <1>7

\* Observations stay true: the head moves only with its ABA counter, and the
\* link of the slot at the head is written by nobody while it is there.
LEMMA ObservationsStep ==
  ASSUME Inv, BelowWidth, NEW t \in Threads, Call(t) \/ Continue(t)
  PROVE  Observations'
<1> DEFINE O(u) ==
      pc[u] \in {"popNext", "popSwing", "pushLink", "pushSwing"} =>
        /\ observed[u].aba <= head.aba
        /\ observed[u].aba = head.aba => observed[u] = head
        /\ observed[u] = head /\ pc[u] = "popSwing" => link[u] = nextFree[head.index]
<1>1. \A u \in Threads : O(u)
  BY DEF Inv, Observations
<1>2. SUFFICES ASSUME NEW u \in Threads PROVE O(u)'
  BY DEF Observations
<1>3. /\ pc \in [Threads -> Labels] /\ handle \in [Threads -> HandleSet]
      /\ observed \in [Threads -> Heads] /\ link \in [Threads -> Indices]
      /\ head \in Heads
  BY DEF Inv, TypeInv, TypeOK
<1>4. head.aba \in Nat /\ \A v \in Threads : observed[v].aba \in Nat
  BY <1>3, Types, WidthAssumption
<1>5. NextAba(head.aba) = head.aba + 1
  BY <1>4, WidthAssumption DEF NextAba, BelowWidth
<1>6. CASE u # t
  <2>1. Contained(t)
    BY ContainedSteps DEF Inv
  <2>2. pc[u] = "popSwing" /\ observed[u] = head => nextFree'[head.index] = nextFree[head.index]
    <3>1. SUFFICES ASSUME pc[u] = "popSwing", observed[u] = head
                   PROVE  nextFree'[head.index] = nextFree[head.index]
      OBVIOUS
    <3>2. alive /\ head.index \in Slots
      BY <3>1 DEF Inv, TypeInv, RegistersInRange, Knowledge
    <3>3. head.index # InvalidIndex
      BY <3>2, Types
    <3>4. ~Holds(t, head.index)
      BY <3>2, <3>3, HeadFree DEF Inv, Free
    <3> QED
      BY <2>1, <3>2, <3>4 DEF Contained
  <2>3. CASE head' = head
    BY <1>1, <1>6, <2>1, <2>2, <2>3 DEF Contained
  <2>4. CASE head'.aba = head.aba + 1
    BY <1>1, <1>4, <1>6, <2>1, <2>4 DEF Contained
  <2> QED
    BY <1>5, <2>1, <2>3, <2>4 DEF Contained
<1>7. CASE u = t
  <2> USE <1>1, <1>3, <1>4, <1>7 DEF Goto, Return
  <2>1. CASE PopReadNext(t)
    BY <2>1 DEF PopReadNext
  <2>2. CASE PopSwing(t)
    BY <2>2 DEF PopSwing
  <2>3. CASE PopRetry(t)
    BY <2>3 DEF PopRetry
  <2>4. CASE PopClear(t)
    BY <2>4 DEF PopClear
  <2>5. CASE Construct(t)
    BY <2>5 DEF Construct
  <2>6. CASE ConstructThrows(t)
    BY <2>6 DEF ConstructThrows
  <2>7. CASE ReadGeneration(t)
    BY <2>7 DEF ReadGeneration
  <2>8. CASE Publish(t)
    BY <2>8 DEF Publish
  <2>9. CASE CountUp(t)
    BY <2>9 DEF CountUp
  <2>10. CASE GetCheckOccupied(t)
    BY <2>10 DEF GetCheckOccupied
  <2>11. CASE FreeCheckOccupied(t)
    BY <2>11 DEF FreeCheckOccupied
  <2>12. CASE Bump(t)
    BY <2>12 DEF Bump
  <2>13. CASE ClearOccupied(t)
    BY <2>13 DEF ClearOccupied
  <2>14. CASE Destroy(t)
    BY <2>14 DEF Destroy
  <2>15. CASE CountDown(t)
    BY <2>15 DEF CountDown
  <2>16. CASE PushLoad(t)
    BY <2>16 DEF PushLoad
  <2>17. CASE PushLink(t)
    BY <2>17 DEF PushLink
  <2>18. CASE PushSwing(t)
    BY <2>18 DEF PushSwing
  <2>19. CASE PushRetry(t)
    BY <2>19 DEF PushRetry
  <2>20. CASE AllocateCall(t)
    BY <2>20 DEF AllocateCall
  <2>21. ASSUME NEW op, NEW label \in {"getOccupied", "freeOccupied"},
             CheckedCall(t, op, label)
         PROVE O(u)'
    BY <2>21 DEF CheckedCall
  <2> QED
    BY <2>1, <2>2, <2>3, <2>4, <2>5, <2>6, <2>7, <2>8, <2>9, <2>10, <2>11, <2>12, <2>13, <2>14, <2>15, <2>16, <2>17, <2>18, <2>19, <2>20, <2>21
    DEF Call, Continue, GetCall, DeallocateCall
<1> QED
  BY <1>6, <1>7

-----------------------------------------------------------------------------
\* A step that moves neither the head, nor a link in the list, nor a slot into
\* or out of the list leaves the list intact.
LEMMA ListFrame ==
  ASSUME FreeListIntact, alive, head' = head, capacity' = capacity,
         \A i \in Active : Free(i)' <=> Free(i),
         \A i \in Active : Free(i) => nextFree'[i] = nextFree[i]
  PROVE  FreeListIntact'
<1>1. PICK s \in FreeStacks :
        IsFreeList(s) /\ {s[k] : k \in DOMAIN s} = {i \in Active : Free(i)}
  BY DEF FreeListIntact
<1>2. s \in FreeStacks' /\ Active' = Active
  BY DEF FreeStacks, Active
<1>3. \A k \in DOMAIN s : s[k] \in Active /\ Free(s[k])
  BY <1>1
<1>4. IsFreeList(s)'
  BY <1>1, <1>3 DEF IsFreeList
<1>5. {i \in Active : Free(i)}' = {i \in Active : Free(i)}
  BY <1>2
<1> QED
  BY <1>1, <1>2, <1>4, <1>5 DEF FreeListIntact

\* A list without a slot twice is one of those FreeListIntact looks for.
LEMMA IsFreeStack ==
  ASSUME NEW n \in 0 .. capacity, NEW s \in [1 .. n -> Active],
         \A j, k \in 1 .. n : s[j] = s[k] => j = k
  PROVE  s \in FreeStacks
BY DEF FreeStacks

\* Taking the first slot off the list.
LEMMA ListPop ==
  ASSUME TypeInv, FreeListIntact, alive, head.index # InvalidIndex, capacity' = capacity,
         nextFree' = nextFree, head'.index = nextFree[head.index],
         \A i \in Active : Free(i)' <=> Free(i) /\ i # head.index
  PROVE  FreeListIntact'
<1>1. PICK s \in FreeStacks :
        IsFreeList(s) /\ {s[k] : k \in DOMAIN s} = {i \in Active : Free(i)}
  BY DEF FreeListIntact
<1>2. PICK n \in 0 .. capacity :
        s \in [1 .. n -> Active] /\ \A j, k \in 1 .. n : s[j] = s[k] => j = k
  BY <1>1 DEF FreeStacks
<1>3. capacity \in Nat /\ n \in Nat
  BY CapacityAssumption DEF TypeInv, TypeOK
<1>4. 1 \in 1 .. n /\ s[1] = head.index
  BY <1>1, <1>2 DEF IsFreeList
<1> DEFINE r == [k \in 1 .. n - 1 |-> s[k + 1]]
<1>5. n - 1 \in 0 .. capacity /\ \A k \in 1 .. n - 1 : k + 1 \in 1 .. n
  BY <1>3, <1>4
<1>6. r \in [1 .. n - 1 -> Active] /\ \A j, k \in 1 .. n - 1 : r[j] = r[k] => j = k
  BY <1>2, <1>3, <1>5
<1>7. r \in FreeStacks'
  <2>1. FreeStacks' = FreeStacks
    BY DEF FreeStacks, Active
  <2>2. r \in FreeStacks
    <3> HIDE DEF r
    <3> QED
      BY <1>5, <1>6, IsFreeStack
  <2> QED
    BY <2>1, <2>2
<1>8. IsFreeList(r)'
  <2>1. head'.index = IF 1 \in DOMAIN r THEN r[1] ELSE InvalidIndex
    BY <1>1, <1>2, <1>3, <1>4 DEF IsFreeList
  <2>2. ASSUME NEW k \in DOMAIN r
        PROVE  nextFree[r[k]] = IF k + 1 \in DOMAIN r THEN r[k + 1] ELSE InvalidIndex
    BY <1>1, <1>2, <1>3, <1>5 DEF IsFreeList
  <2> QED
    BY <2>1, <2>2 DEF IsFreeList
<1>9. {r[k] : k \in DOMAIN r} = {i \in Active : Free(i)}'
  <2>1. \A i \in Active : Free(i)' <=> \E k \in 1 .. n : k # 1 /\ s[k] = i
    BY <1>1, <1>2, <1>4
  <2>2. \A i \in Active : Free(i)' <=> \E k \in 1 .. n - 1 : r[k] = i
    <3>1. \A k \in 1 .. n : k # 1 => k - 1 \in 1 .. n - 1 /\ r[k - 1] = s[k]
      BY <1>3
    <3>2. \A k \in 1 .. n - 1 : k + 1 \in 1 .. n /\ k + 1 # 1 /\ r[k] = s[k + 1]
      BY <1>3, <1>5
    <3> HIDE DEF r
    <3> QED
      BY <2>1, <3>1, <3>2
  <2>3. DOMAIN r = 1 .. n - 1 /\ \A k \in 1 .. n - 1 : r[k] \in Active
    BY <1>6
  <2>4. Active' = Active
    BY DEF Active
  <2> HIDE DEF r
  <2> QED
    BY <2>2, <2>3, <2>4
<1> QED
  BY <1>7, <1>8, <1>9 DEF FreeListIntact

\* Putting a slot that is not free in front of the list.
LEMMA ListPush ==
  ASSUME TypeInv, FreeListIntact, alive, capacity' = capacity, nextFree' = nextFree,
         NEW x \in Active, ~Free(x), nextFree[x] = head.index, head'.index = x,
         \A i \in Active : Free(i)' <=> Free(i) \/ i = x
  PROVE  FreeListIntact'
<1>1. PICK s \in FreeStacks :
        IsFreeList(s) /\ {s[k] : k \in DOMAIN s} = {i \in Active : Free(i)}
  BY DEF FreeListIntact
<1>2. PICK n \in 0 .. capacity :
        s \in [1 .. n -> Active] /\ \A j, k \in 1 .. n : s[j] = s[k] => j = k
  BY <1>1 DEF FreeStacks
<1>3. capacity \in Nat /\ n \in Nat
  BY CapacityAssumption DEF TypeInv, TypeOK
<1>4. \A k \in 1 .. n : s[k] # x
  BY <1>1, <1>2
<1> DEFINE r == [k \in 1 .. n + 1 |-> IF k = 1 THEN x ELSE s[k - 1]]
<1>5. \A k \in 1 .. n + 1 : k = 1 \/ k - 1 \in 1 .. n
  BY <1>3
<1>6. r \in [1 .. n + 1 -> Active] /\ \A j, k \in 1 .. n + 1 : r[j] = r[k] => j = k
  BY <1>2, <1>3, <1>4, <1>5
<1>7. n + 1 \in 0 .. capacity
  <2>1. /\ IsFiniteSet(1 .. n + 1) /\ Cardinality(1 .. n + 1) = n + 1
        /\ IsFiniteSet(Active) /\ Cardinality(Active) = capacity
    <3>1. 1 \in Int /\ n + 1 \in Int /\ ~(1 > n + 1) /\ (n + 1) - 1 + 1 = n + 1
      BY <1>3
    <3>2. 0 \in Int /\ capacity - 1 \in Int /\ (capacity - 1) - 0 + 1 = capacity
          /\ (0 > capacity - 1 => capacity = 0)
      BY <1>3
    <3>3. IsFiniteSet(1 .. n + 1) /\ Cardinality(1 .. n + 1) = n + 1
      BY <3>1, FS_Interval
    <3>4. IsFiniteSet(0 .. capacity - 1) /\ Cardinality(0 .. capacity - 1) = capacity
      BY <3>2, FS_Interval
    <3> QED
      BY <3>3, <3>4 DEF Active
  <2>2. ASSUME capacity < n + 1 PROVE FALSE
    <3>1. \E j, k \in 1 .. n + 1 : j # k /\ r[j] = r[k]
      <4> HIDE DEF r
      <4> QED
        BY <1>6, <2>1, <2>2, FS_PigeonHole
    <3> QED
      BY <1>6, <3>1
  <2> QED
    BY <1>3, <2>2
<1>8. r \in FreeStacks'
  <2>1. FreeStacks' = FreeStacks
    BY DEF FreeStacks, Active
  <2>2. r \in FreeStacks
    <3> HIDE DEF r
    <3> QED
      BY <1>6, <1>7, IsFreeStack
  <2> QED
    BY <2>1, <2>2
<1>9. IsFreeList(r)'
  <2>1. head'.index = IF 1 \in DOMAIN r THEN r[1] ELSE InvalidIndex
    BY <1>3
  <2>2. ASSUME NEW k \in DOMAIN r
        PROVE  nextFree[r[k]] = IF k + 1 \in DOMAIN r THEN r[k + 1] ELSE InvalidIndex
    <3>1. head.index = IF 1 \in 1 .. n THEN s[1] ELSE InvalidIndex
      BY <1>1, <1>2 DEF IsFreeList
    <3>2. CASE k = 1
      BY <1>3, <3>1, <3>2
    <3>3. CASE k # 1
      <4>1. k - 1 \in 1 .. n /\ r[k] = s[k - 1] /\ k \in Nat
        BY <1>3, <1>5, <3>3
      <4>2. nextFree[s[k - 1]] = IF k \in 1 .. n THEN s[k] ELSE InvalidIndex
        <5>1. (k - 1) + 1 = k
          BY <4>1
        <5> QED
          BY <1>1, <1>2, <4>1, <5>1 DEF IsFreeList
      <4>3. k \in 1 .. n <=> k + 1 \in 1 .. n + 1
        BY <1>3, <4>1
      <4>4. k \in 1 .. n => r[k + 1] = s[k]
        BY <1>3, <4>1, <4>3
      <4> QED
        BY <4>1, <4>2, <4>3, <4>4
    <3> QED
      BY <3>2, <3>3
  <2> QED
    BY <2>1, <2>2 DEF IsFreeList
<1>10. {r[k] : k \in DOMAIN r} = {i \in Active : Free(i)}'
  <2>1. \A i \in Active : Free(i)' <=> i = x \/ \E k \in 1 .. n : s[k] = i
    BY <1>1, <1>2
  <2>2. \A i \in Active : Free(i)' <=> \E k \in 1 .. n + 1 : r[k] = i
    <3>1. \A k \in 1 .. n : k + 1 \in 1 .. n + 1 /\ r[k + 1] = s[k]
      BY <1>3
    <3>2. 1 \in 1 .. n + 1 /\ r[1] = x
      BY <1>3
    <3>3. \A k \in 1 .. n + 1 : k = 1 \/ (k - 1 \in 1 .. n /\ r[k] = s[k - 1])
      BY <1>5
    <3> HIDE DEF r
    <3> QED
      BY <2>1, <3>1, <3>2, <3>3
  <2>3. DOMAIN r = 1 .. n + 1 /\ \A k \in 1 .. n + 1 : r[k] \in Active
    BY <1>6
  <2>4. Active' = Active
    BY DEF Active
  <2> HIDE DEF r
  <2> QED
    BY <2>2, <2>3, <2>4
<1> QED
  BY <1>8, <1>9, <1>10 DEF FreeListIntact

\* Only a successful pop or push moves the head.
LEMMA QuietHead ==
  ASSUME NEW t \in Threads, Call(t) \/ Continue(t), ~Moves(t)
  PROVE  head' = head
BY DEF Moves, Call, Continue, AllocateCall, GetCall, DeallocateCall, CheckedCall,
   PopReadNext, PopRetry, PopClear, Construct, ConstructThrows, ReadGeneration, Publish,
   GetCheckOccupied, FreeCheckOccupied, Bump, ClearOccupied, Destroy, CountDown, PushLoad,
   PushLink, PushRetry

\* Every step of a call keeps the free list intact.
LEMMA FreeListStep ==
  ASSUME Inv, BelowWidth, NEW t \in Threads, Call(t) \/ Continue(t)
  PROVE  FreeListIntact'
<1>1. /\ TypeInv /\ FreeListIntact /\ Active \subseteq Slots
      /\ alive /\ Contained(t)
  BY ActiveSlots, ContainedSteps DEF Inv, Knowledge, Contained
<1>2. \A i \in Slots : Holds(t, i) => ~Free(i)
  BY DEF Free
<1>3. CASE ~Moves(t)
  <2>1. Quiet /\ head' = head
    BY <1>1, <1>3, QuietSteps, LocalQuiet, QuietHead
  <2>2. \A i \in Active : Free(i)' <=> Free(i)
    BY <1>1, <2>1 DEF Quiet, Free
  <2> QED
    BY <1>1, <1>2, <2>1, <2>2, ListFrame DEF Contained, Quiet
<1>4. CASE PopSwing(t)
  <2>1. /\ head.index \in Active /\ capacity' = capacity /\ nextFree' = nextFree
        /\ Free(head.index)
    BY <1>4, PopMoves
  <2>2. head.index # InvalidIndex /\ head'.index = nextFree[head.index]
    BY <1>1, <1>4, <2>1, Types DEF PopSwing, SwingHead, Inv, Observations
  <2>3. \A i \in Active : Free(i)' <=> Free(i) /\ i # head.index
    BY <1>1, <1>4, PopMoves DEF Free
  <2> QED
    BY <1>1, <2>1, <2>2, <2>3, ListPop
<1>5. CASE CountUp(t)
  <2>0. \A i \in Active : Holds(t, i) => i = handle[t].index
    BY DEF Holds
  <2>1. \A i \in Active : Free(i)' <=> Free(i)
    BY <1>1, <1>5, <2>0, IssueMoves DEF Free
  <2> QED
    BY <1>1, <1>5, <2>1, IssueMoves, ListFrame
<1>6. CASE Bump(t) /\ BumpSucceeds(t)
  <2>1. \A i \in Active : Free(i)' <=> Free(i)
    BY <1>1, <1>6, RetireMoves DEF Free
  <2> QED
    BY <1>1, <1>6, <2>1, RetireMoves, ListFrame
<1>7. CASE PushSwing(t)
  <2> DEFINE x == handle[t].index
  <2>1. x \in Active /\ ~Free(x) /\ ~Live(x) /\ \A u \in Threads \ {t} : ~Holds(u, x)
    <3>1. x \in Slots /\ Holds(t, x)
      BY <1>7, PushMoves
    <3>2. x < capacity /\ ~Live(x) /\ \A u \in Threads \ {t} : ~Holds(u, x)
      BY <1>1, <3>1 DEF Inv, ExclusiveOwnership
    <3>3. x \in Active
      BY <3>1, <3>2 DEF Active, Slots, Inv, TypeInv, TypeOK
    <3> QED
      BY <1>2, <3>1, <3>2, <3>3
  <2>2. \A i \in Active : Holds(t, i) => i = x
    BY DEF Holds
  <2>3. \A i \in Active : Free(i)' <=> Free(i) \/ i = x
    BY <1>1, <1>7, <2>1, <2>2, PushMoves DEF Free
  <2> HIDE DEF x
  <2>4. nextFree[x] = head.index /\ head'.index = x /\ capacity' = capacity
        /\ nextFree' = nextFree
    BY <1>7, PushMoves DEF x
  <2> QED
    BY <1>1, <2>1, <2>3, <2>4, ListPush
<1> QED
  BY <1>3, <1>4, <1>5, <1>6, <1>7 DEF Moves

-----------------------------------------------------------------------------
LEMMA InitInv == Init => Inv
<1> SUFFICES ASSUME Init PROVE Inv
  OBVIOUS
<1>1. TypeInv
  BY InitTypeInv
<1>2. capacity \in Nat
  BY <1>1, CapacityAssumption DEF TypeInv, TypeOK
<1>3. HandleHistory /\ Knowledge /\ Observations /\ ExclusiveOwnership
  BY DEF Init, HandleHistory, Knowledge, Observations, ExclusiveOwnership, Holds, Working,
     Allocating, Retiring, Pushing
<1>4. FreeListIntact
  <2> DEFINE s == [k \in 1 .. capacity |-> k - 1]
  <2>1. s \in {f \in [1 .. capacity -> Active] :
                \A j, k \in 1 .. capacity : f[j] = f[k] => j = k}
    BY <1>2 DEF Active
  <2>2. s \in FreeStacks
    <3>1. capacity \in 0 .. capacity
      BY <1>2
    <3> QED
      BY <2>1, <3>1 DEF FreeStacks
  <2>3. IsFreeList(s)
    <3>1. head.index = IF 1 \in DOMAIN s THEN s[1] ELSE InvalidIndex
      BY <1>2 DEF Init, InitializeFreeList
    <3>2. ASSUME NEW k \in 1 .. capacity
          PROVE  nextFree[s[k]] = IF k + 1 \in 1 .. capacity THEN s[k + 1] ELSE InvalidIndex
      <4>1. s[k] = k - 1 /\ k - 1 \in Slots /\ (k - 1) + 1 = k
        BY <1>1, <1>2, CapacityAssumption DEF Slots, TypeInv, TypeOK
      <4>2. nextFree[k - 1] = IF k < capacity THEN k ELSE InvalidIndex
        BY <4>1 DEF Init, InitializeFreeList
      <4> QED
        BY <1>2, <4>1, <4>2
    <3> QED
      BY <3>1, <3>2 DEF IsFreeList
  <2>4. {s[k] : k \in DOMAIN s} = {i \in Active : Free(i)}
    <3>1. \A i : Free(i)
      BY DEF Init, Free, Live, Holds, Working, Allocating, Retiring, Pushing
    <3>2. \A i \in Active : i + 1 \in 1 .. capacity /\ s[i + 1] = i
      BY <1>2 DEF Active
    <3>3. \A k \in 1 .. capacity : s[k] \in Active
      BY <2>1
    <3> HIDE DEF s
    <3>4. DOMAIN s = 1 .. capacity
      BY <2>1
    <3> QED
      BY <3>1, <3>2, <3>3, <3>4
  <2> QED
    BY <2>2, <2>3, <2>4 DEF FreeListIntact
<1> QED
  BY <1>1, <1>3, <1>4 DEF Inv

\* ~SlotMap() runs while no call is under way, and leaves the handles and, until
\* it ends, the list as they are.
LEMMA TeardownSteps ==
  ASSUME Inv, Teardown
  PROVE  /\ alive /\ AllIdle /\ AllIdle'
         /\ UNCHANGED <<capacity, nextFree, generation, pc, locals, outcome, history>>
         /\ alive' => UNCHANGED <<list, liveCount>>
<1>1. alive /\ (teardown = "loop" \/ AllIdle)
  BY DEF Teardown, TeardownBegins, SweepSlot, SkipSlot, SweepReturns, SweepThrows,
     TeardownEnds
<1>2. AllIdle
  BY <1>1 DEF Inv, Knowledge, AllIdle
<1>3. /\ UNCHANGED <<capacity, nextFree, generation, pc, locals, outcome, history>>
      /\ alive' => UNCHANGED <<list, liveCount>>
  BY DEF Teardown, TeardownBegins, SweepSlot, SkipSlot, SweepReturns, SweepThrows,
     TeardownEnds
<1> QED
  BY <1>1, <1>2, <1>3 DEF AllIdle

\* The invariant is inductive.
LEMMA NextInv ==
  ASSUME Inv, BelowWidth, ForeignHandles = {}, [Next]_vars
  PROVE  Inv'
<1>1. TypeInv'
  BY NextTypeInv DEF Inv
<1>2. ASSUME NEW t \in Threads, Call(t) \/ Continue(t) PROVE Inv'
  BY <1>1, <1>2, HistoryStep, KnowledgeStep, ObservationsStep, OwnershipStep, FreeListStep
  DEF Inv
<1>3. CASE UNCHANGED vars
  BY <1>1, <1>3 DEF vars, Inv, HandleHistory, Knowledge, Observations, ExclusiveOwnership,
     FreeListIntact, FreeStacks, IsFreeList, Active, Free, Live, Holds
<1>4. CASE Teardown
  <2>1. /\ alive /\ AllIdle'
        /\ UNCHANGED <<capacity, nextFree, generation, pc, locals, history>>
        /\ alive' => head' = head
    BY <1>4, TeardownSteps
  <2>2. Knowledge' /\ Observations' /\ ExclusiveOwnership'
    BY <2>1 DEF AllIdle, Knowledge, Observations, ExclusiveOwnership, Holds, Working,
       Allocating, Retiring, Pushing
  <2>3. HandleHistory'
    BY <2>1 DEF Inv, HandleHistory, Active
  <2>4. FreeListIntact'
    BY <2>1 DEF Inv, FreeListIntact, FreeStacks, IsFreeList, Active, Free, Live, Holds
  <2> QED
    BY <1>1, <2>2, <2>3, <2>4 DEF Inv
<1> QED
  BY <1>2, <1>3, <1>4 DEF Next, Finished

\* Behaviors in which no counter reaches its last value.
BoundedSpec == Spec /\ []BelowWidth

LEMMA Invariance ==
  ASSUME ForeignHandles = {} PROVE BoundedSpec => []Inv
<1>1. Inv /\ BelowWidth /\ [Next]_vars => Inv'
  BY NextInv
<1> QED
  BY <1>1, InitInv, PTL DEF Spec, BoundedSpec

\* No slot has two owners, whatever the threads do (allocate(), deallocate()).
THEOREM OwnershipIsExclusive ==
  ASSUME ForeignHandles = {} PROVE BoundedSpec => []ExclusiveOwnership
<1>1. Inv => ExclusiveOwnership
  BY DEF Inv
<1> QED
  BY <1>1, Invariance, PTL

\* Every slot without an owner is on the free list, exactly once
\* (pop_free_index(), push_free_index()).
THEOREM FreeListIsIntact ==
  ASSUME ForeignHandles = {} PROVE BoundedSpec => []FreeListIntact
<1>1. Inv => FreeListIntact
  BY DEF Inv
<1> QED
  BY <1>1, Invariance, PTL

\* deallocate() retires a handle at most once (try_bump_generation_from()).
THEOREM HandlesAreRetiredOnce ==
  ASSUME ForeignHandles = {} PROVE BoundedSpec => RetiredOnce
<1>1. Inv /\ BelowWidth /\ [Next]_vars =>
        [\A t \in Threads :
           pc[t] = "bump" /\ pc'[t] = "clearOccupied" => handle[t] \notin retired]_vars
  <2>1. SUFFICES ASSUME Inv, BelowWidth, Next, NEW t \in Threads,
                        pc[t] = "bump", pc'[t] = "clearOccupied"
                 PROVE  handle[t] \notin retired
    OBVIOUS
  <2>2. pc \in [Threads -> Labels]
    BY <2>1 DEF Inv, TypeInv, TypeOK
  <2>3. Call(t) \/ Continue(t)
    <3>1. pc'[t] # pc[t]
      BY <2>1
    <3>2. ~(Teardown \/ Finished)
      BY <2>1, <3>1, TeardownSteps DEF Finished, vars
    <3>3. PICK u \in Threads : Call(u) \/ Continue(u)
      BY <2>1, <3>2 DEF Next
    <3>4. u = t
      BY <2>1, <3>1, <3>3, ContainedSteps DEF Contained, Inv
    <3> QED
      BY <3>3, <3>4
  <2>4. Bump(t) /\ BumpSucceeds(t)
    BY <2>1, <2>2, <2>3
    DEF Call, AllocateCall, GetCall, DeallocateCall, CheckedCall, Start, Goto, Return,
       Continue, PopReadNext, PopSwing, PopRetry, PopClear, Construct, ConstructThrows,
       ReadGeneration, Publish, CountUp, GetCheckOccupied, FreeCheckOccupied, Bump,
       ClearOccupied, Destroy, CountDown, PushLoad, PushLink, PushSwing, PushRetry
  <2> QED
    BY <2>1, <2>4, RetireMoves
<1> QED
  BY <1>1, Invariance, PTL DEF RetiredOnce, BoundedSpec, Spec

\* allocate() never returns a handle a second time (finish_deallocation()).
THEOREM HandlesAreUnique ==
  ASSUME ForeignHandles = {} PROVE BoundedSpec => HandlesUnique
<1>1. Inv /\ [Next]_vars =>
        [\A t \in Threads :
           pc[t] = "countUp" /\ pc'[t] = "idle" => handle[t] \notin issued]_vars
  <2>1. SUFFICES ASSUME Inv, Next, NEW t \in Threads, pc[t] = "countUp", pc'[t] = "idle"
                 PROVE  handle[t] \notin issued
    OBVIOUS
  <2>2. Call(t) \/ Continue(t)
    <3>1. pc'[t] # pc[t]
      BY <2>1
    <3>2. ~(Teardown \/ Finished)
      BY <2>1, <3>1, TeardownSteps DEF Finished, vars
    <3>3. PICK u \in Threads : Call(u) \/ Continue(u)
      BY <2>1, <3>2 DEF Next
    <3>4. u = t
      BY <2>1, <3>1, <3>3, ContainedSteps DEF Contained, Inv
    <3> QED
      BY <3>3, <3>4
  <2>3. CountUp(t)
    BY <2>1, <2>2
    DEF Call, AllocateCall, GetCall, DeallocateCall, CheckedCall, Start,
       Continue, PopReadNext, PopSwing, PopRetry, PopClear, Construct, ConstructThrows,
       ReadGeneration, Publish, CountUp, GetCheckOccupied, FreeCheckOccupied, Bump,
       ClearOccupied, Destroy, CountDown, PushLoad, PushLink, PushSwing, PushRetry
  <2> QED
    BY <2>1, <2>3, IssueMoves
<1> QED
  BY <1>1, Invariance, PTL DEF HandlesUnique, BoundedSpec, Spec

-----------------------------------------------------------------------------
\* Where, in its owner's hands, a slot holds a payload and is occupied.
Constructed == {"readGeneration", "publish", "countUp", "clearOccupied", "destroy"}
Published == {"countUp", "clearOccupied"}

\* A slot is in the state its owner's place in the code says, and a slot with
\* a live handle is full until ~SlotMap() has been there.
Full(i) == payload[i] /\ occupied[i]
Empty(i) == ~payload[i] /\ ~occupied[i]
Swept(i) == Empty(i) /\ Visited(i)
InHand(t) == pc[t] \in Working =>
               /\ payload[handle[t].index] <=> pc[t] \in Constructed
               /\ occupied[handle[t].index] <=> pc[t] \in Published

\* The CAS that retires a handle finds its slot occupied, as it was checked.
Checked(t) == pc[t] = "bump" /\ BumpSucceeds(t) => occupied[handle[t].index]

Lifetimes ==
  alive => /\ \A i \in Slots : (Live(i) => Full(i) \/ Swept(i)) /\ (Free(i) => Empty(i))
           /\ \A t \in Threads : InHand(t) /\ Checked(t)

\* A step writes no payload or flag but those of the slot in its hands.
LEMMA PayloadFrame ==
  ASSUME TypeInv, NEW t \in Threads, Call(t) \/ Continue(t),
         NEW i \in Slots, ~Holds(t, i)
  PROVE  payload'[i] = payload[i] /\ occupied'[i] = occupied[i]
<1>1. CASE Construct(t)
  BY <1>1 DEF Construct, Holds, Working, Allocating, TypeInv, TypeOK
<1>2. CASE Publish(t)
  BY <1>2 DEF Publish, Holds, Working, Allocating, TypeInv, TypeOK
<1>3. CASE ClearOccupied(t)
  BY <1>3 DEF ClearOccupied, Holds, Working, Retiring, TypeInv, TypeOK
<1>4. CASE Destroy(t)
  BY <1>4 DEF Destroy, Holds, Working, Retiring, TypeInv, TypeOK
<1> QED
  BY <1>1, <1>2, <1>3, <1>4
  DEF Call, Continue, AllocateCall, GetCall, DeallocateCall, CheckedCall, PopReadNext,
      PopSwing, PopRetry, PopClear, ConstructThrows, ReadGeneration, CountUp,
      GetCheckOccupied, FreeCheckOccupied, Bump, CountDown, PushLoad, PushLink, PushSwing,
      PushRetry

\* The owner of a slot leaves it as its next label says.
LEMMA OwnPayload ==
  ASSUME TypeInv, NEW t \in Threads, Call(t) \/ Continue(t), ~Moves(t), InHand(t)
  PROVE  InHand(t)'
<1> USE DEF TypeInv, TypeOK, RegistersInRange, InHand, Goto, Return, Constructed, Published,
            Working, Allocating, Retiring, Pushing
<1>1. CASE PopReadNext(t)
  BY <1>1 DEF PopReadNext
<1>2. CASE PopRetry(t)
  BY <1>2 DEF PopRetry
<1>3. CASE PopClear(t)
  BY <1>3 DEF PopClear
<1>4. CASE Construct(t)
  BY <1>4 DEF Construct
<1>5. CASE ConstructThrows(t)
  BY <1>5 DEF ConstructThrows
<1>6. CASE ReadGeneration(t)
  BY <1>6 DEF ReadGeneration
<1>7. CASE Publish(t)
  BY <1>7 DEF Publish
<1>8. CASE GetCheckOccupied(t)
  BY <1>8 DEF GetCheckOccupied
<1>9. CASE FreeCheckOccupied(t)
  BY <1>9 DEF FreeCheckOccupied
<1>10. CASE Bump(t)
  BY <1>10 DEF Bump, Moves
<1>11. CASE ClearOccupied(t)
  BY <1>11 DEF ClearOccupied
<1>12. CASE Destroy(t)
  BY <1>12 DEF Destroy
<1>13. CASE CountDown(t)
  BY <1>13 DEF CountDown
<1>14. CASE PushLoad(t)
  BY <1>14 DEF PushLoad
<1>15. CASE PushLink(t)
  BY <1>15 DEF PushLink
<1>16. CASE PushRetry(t)
  BY <1>16 DEF PushRetry
<1>17. CASE AllocateCall(t)
  BY <1>17 DEF AllocateCall
<1>18. ASSUME NEW op, NEW label \in {"getOccupied", "freeOccupied"},
             CheckedCall(t, op, label)
       PROVE InHand(t)'
  BY <1>18 DEF CheckedCall
<1> QED
  BY <1>1, <1>2, <1>3, <1>4, <1>5, <1>6, <1>7, <1>8, <1>9, <1>10, <1>11, <1>12, <1>13,
     <1>14, <1>15, <1>16, <1>17, <1>18
  DEF Call, Continue, Moves, GetCall, DeallocateCall

\* A handle of this map that still has its slot's generation is live.
LEMMA MatchedLive ==
  ASSUME Inv, NEW t \in Threads, pc[t] \in {"getOccupied", "freeOccupied", "bump"},
         BumpSucceeds(t)
  PROVE  handle[t].index \in Slots /\ Live(handle[t].index)
<1>1. handle[t] \in issued /\ handle[t].index \in Slots /\ handle[t] \in HandleSet
  BY DEF Inv, TypeInv, TypeOK, RegistersInRange, Knowledge
<1>2. handle[t] = [index |-> handle[t].index, generation |-> generation[handle[t].index]]
  BY <1>1 DEF BumpSucceeds, HandleSet
<1>3. handle[t] \notin retired
  BY <1>1, <1>2 DEF Inv, HandleHistory, TypeInv, TypeOK
<1> QED
  BY <1>1, <1>2, <1>3 DEF Live

\* A checked slot stays occupied until a CAS retires its handle.
LEMMA CheckedStep ==
  ASSUME Inv, BelowWidth, Lifetimes, NEW t \in Threads, Call(t) \/ Continue(t),
         NEW u \in Threads
  PROVE  Checked(u)'
<1>1. /\ TypeInv /\ ExclusiveOwnership /\ HandleHistory /\ alive /\ Contained(t)
  BY ContainedSteps DEF Inv, Knowledge, Contained
<1>2. Checked(u)
  BY <1>1 DEF Lifetimes
<1>3. SUFFICES ASSUME pc'[u] = "bump", BumpSucceeds(u)' PROVE occupied'[handle'[u].index]
  BY DEF Checked
<1>4. pc \in [Threads -> Labels] /\ handle \in [Threads -> HandleSet]
      /\ generation \in [Slots -> 1 .. GenMod - 1]
  BY <1>1 DEF TypeInv, TypeOK
<1>5. CASE u = t
  <2>1. FreeCheckOccupied(t)
    BY <1>3, <1>4, <1>5
    DEF Call, AllocateCall, GetCall, DeallocateCall, CheckedCall, Start, Goto, Return,
       Continue, PopReadNext, PopSwing, PopRetry, PopClear, Construct, ConstructThrows,
       ReadGeneration, Publish, CountUp, GetCheckOccupied, FreeCheckOccupied, Bump,
       ClearOccupied, Destroy, CountDown, PushLoad, PushLink, PushSwing, PushRetry
  <2>2. CASE occupied[handle[t].index]
    BY <1>5, <2>1, <2>2 DEF FreeCheckOccupied
  <2>3. CASE ~occupied[handle[t].index]
    BY <1>3, <1>4, <1>5, <2>1, <2>3 DEF FreeCheckOccupied, Return
  <2> QED
    BY <2>2, <2>3
<1>6. CASE u # t
  <2> DEFINE i == handle[u].index
  <2>1. pc[u] = "bump" /\ handle'[u] = handle[u]
    BY <1>1, <1>3, <1>6 DEF Contained
  <2>2. i \in Slots /\ handle[u] \in issued /\ handle[u].generation <= generation[i]
        /\ handle[u].generation \in Nat /\ generation[i] \in Nat
    BY <1>1, <1>4, <2>1, ActiveSlots DEF Inv, Knowledge, HandleHistory, TypeInv,
       RegistersInRange
  <2>3. generation'[i] = handle[u].generation
    BY <1>3, <2>1 DEF BumpSucceeds
  <2>4. generation'[i] = generation[i] \/ generation'[i] = generation[i] + 1
    <3>1. CASE ~Moves(t)
      BY <1>1, <3>1, QuietSteps DEF Local
    <3>2. CASE Bump(t) /\ BumpSucceeds(t)
      <4>1. handle[t].index \in Active /\ Active \subseteq Slots
            /\ generation' = [generation EXCEPT ![handle[t].index] = @ + 1]
        BY <1>1, <3>2, RetireMoves, ActiveSlots
      <4> QED
        BY <1>4, <2>2, <4>1
    <3> QED
      BY <3>1, <3>2, PopMoves, PushMoves, IssueMoves DEF Moves
  <2>5. generation[i] = handle[u].generation
    BY <2>2, <2>3, <2>4
  <2>6. BumpSucceeds(u) /\ occupied[i]
    BY <1>2, <2>1, <2>5 DEF Checked, BumpSucceeds
  <2>7. Live(i)
    BY <2>1, <2>6, MatchedLive
  <2>8. ~Holds(t, i)
    BY <1>1, <2>2, <2>7 DEF ExclusiveOwnership
  <2>9. occupied'[i] = occupied[i]
    BY <1>1, <2>2, <2>8, PayloadFrame
  <2> QED
    BY <2>1, <2>6, <2>9
<1> QED
  BY <1>5, <1>6

\* A payload lives from its construction to its destruction, wherever its
\* slot goes.
LEMMA LifetimesStep ==
  ASSUME Inv, BelowWidth, Lifetimes, NEW t \in Threads, Call(t) \/ Continue(t)
  PROVE  Lifetimes'
<1>1. /\ TypeInv /\ ExclusiveOwnership /\ alive /\ Contained(t) /\ alive'
  BY ContainedSteps DEF Inv, Knowledge, Contained
<1>2. /\ \A i \in Slots : (Live(i) => Full(i) \/ Swept(i)) /\ (Free(i) => Empty(i))
      /\ \A u \in Threads : InHand(u) /\ Checked(u)
      /\ \A i \in Slots : Visited(i)' <=> Visited(i)
      /\ \A u \in Threads : Checked(u)'
  BY <1>1, CheckedStep DEF Lifetimes, Contained, Visited
<1>3. \A i \in Slots : ~Holds(t, i) => payload'[i] = payload[i] /\ occupied'[i] = occupied[i]
  BY <1>1, PayloadFrame
<1>4. \A i \in Slots : Holds(t, i) => ~Live(i) /\ \A u \in Threads \ {t} : ~Holds(u, i)
  BY <1>1 DEF ExclusiveOwnership
<1>5. \A u \in Threads : pc[u] \in Working =>
        handle[u].index \in Slots /\ Holds(u, handle[u].index)
  BY <1>1 DEF Holds, TypeInv, RegistersInRange, Working, Allocating, Retiring, Pushing
<1>6. ASSUME NEW u \in Threads \ {t} PROVE InHand(u)'
  <2>1. pc'[u] = pc[u] /\ handle'[u] = handle[u]
    BY <1>1 DEF Contained
  <2>2. ASSUME pc[u] \in Working
        PROVE  /\ payload'[handle[u].index] = payload[handle[u].index]
               /\ occupied'[handle[u].index] = occupied[handle[u].index]
    <3>1. handle[u].index \in Slots /\ ~Holds(t, handle[u].index)
      BY <1>4, <1>5, <2>2
    <3> QED
      BY <1>3, <3>1
  <2> QED
    BY <1>2, <2>1, <2>2 DEF InHand
<1>7. CASE ~Moves(t)
  <2>1. Quiet
    BY <1>1, <1>7, QuietSteps, LocalQuiet
  <2>2. InHand(t)'
    BY <1>1, <1>2, <1>7, OwnPayload
  <2>3. ASSUME NEW i \in Slots
        PROVE  (Live(i)' => Full(i)' \/ Swept(i)') /\ (Free(i)' => Empty(i)')
    <3>1. (Live(i)' <=> Live(i)) /\ (Free(i)' <=> Free(i))
      BY <2>1 DEF Quiet, Free
    <3> QED
      BY <1>2, <1>3, <1>4, <3>1 DEF Full, Empty, Swept, Free
  <2> QED
    BY <1>1, <1>2, <1>6, <2>2, <2>3 DEF Lifetimes
<1>8. ASSUME Moves(t), payload' = payload, occupied' = occupied, InHand(t)',
             \A i \in Slots : /\ Live(i)' => Live(i) \/ Full(i)
                              /\ Free(i)' => Free(i) \/ Empty(i)
      PROVE  Lifetimes'
  BY <1>1, <1>2, <1>6, <1>8 DEF Lifetimes, Full, Empty, Swept
<1>9. pc \in [Threads -> Labels] /\ handle \in [Threads -> HandleSet]
  BY <1>1 DEF TypeInv, TypeOK
<1>10. CASE PopSwing(t)
  <2>1. head.index \in Active /\ head.index \in Slots /\ Free(head.index)
    BY <1>1, <1>10, PopMoves, ActiveSlots
  <2>2. observed[t] = head /\ payload' = payload /\ occupied' = occupied
    BY <1>10 DEF PopSwing, SwingHead
  <2>3. InHand(t)'
    <3>1. pc'[t] = "popClear" /\ handle'[t].index = head.index
      BY <1>9, <1>10, <2>2 DEF PopSwing, Goto
    <3> QED
      BY <1>2, <2>1, <2>2, <3>1 DEF InHand, Empty, Constructed, Published
  <2>4. \A i \in Slots : (Live(i)' => Live(i)) /\ (Free(i)' => Free(i))
    BY <1>10, PopMoves DEF Free
  <2> QED
    BY <1>8, <1>10, <2>2, <2>3, <2>4 DEF Moves
<1>11. CASE CountUp(t)
  <2>1. payload' = payload /\ occupied' = occupied /\ pc[t] = "countUp" /\ pc'[t] = "idle"
    BY <1>9, <1>11 DEF CountUp, Return
  <2>2. InHand(t)'
    BY <2>1 DEF InHand, Working, Allocating, Retiring, Pushing
  <2>3. Full(handle[t].index)
    BY <1>2, <2>1 DEF InHand, Working, Allocating, Constructed, Published, Full
  <2>4. ASSUME NEW i \in Slots PROVE (Live(i)' => Live(i) \/ Full(i)) /\ (Free(i)' => Free(i))
    <3>1. (Live(i)' <=> Live(i) \/ i = handle[t].index) /\ (Holds(t, i) => i = handle[t].index)
          /\ \A u \in Threads : Holds(u, i)' <=> Holds(u, i) /\ u # t
      BY <1>11, IssueMoves DEF Holds
    <3> QED
      BY <2>3, <3>1 DEF Free
  <2> QED
    BY <1>8, <1>11, <2>1, <2>2, <2>4 DEF Moves
<1>12. CASE Bump(t) /\ BumpSucceeds(t)
  <2>1. /\ handle[t].index \in Active /\ Live(handle[t].index)
        /\ handle[t].index \in Slots
    BY <1>1, <1>12, RetireMoves, ActiveSlots
  <2>2. /\ payload' = payload /\ occupied' = occupied
        /\ pc'[t] = "clearOccupied" /\ handle' = handle
    BY <1>9, <1>12 DEF Bump, Goto
  <2>3. InHand(t)'
    <3>1. occupied[handle[t].index]
      BY <1>2, <1>12 DEF Checked, Bump
    <3>2. Full(handle[t].index)
      BY <1>2, <2>1, <3>1 DEF Swept, Empty
    <3> QED
      BY <2>2, <3>2 DEF InHand, Full, Constructed, Published
  <2>4. \A i \in Slots : (Live(i)' => Live(i)) /\ (Free(i)' => Free(i))
    BY <1>12, RetireMoves DEF Free
  <2> QED
    BY <1>8, <1>12, <2>2, <2>3, <2>4 DEF Moves
<1>13. CASE PushSwing(t)
  <2>1. payload' = payload /\ occupied' = occupied /\ pc[t] = "pushSwing" /\ pc'[t] = "idle"
    BY <1>9, <1>13 DEF PushSwing, Return
  <2>2. InHand(t)'
    BY <2>1 DEF InHand, Working, Allocating, Retiring, Pushing
  <2>3. Empty(handle[t].index)
    BY <1>2, <2>1 DEF InHand, Working, Pushing, Constructed, Published, Empty
  <2>4. ASSUME NEW i \in Slots PROVE (Live(i)' => Live(i)) /\ (Free(i)' => Free(i) \/ Empty(i))
    <3>1. (Live(i)' <=> Live(i)) /\ (Holds(t, i) => i = handle[t].index)
          /\ \A u \in Threads : Holds(u, i)' <=> Holds(u, i) /\ u # t
      BY <1>13, PushMoves DEF Holds
    <3> QED
      BY <2>3, <3>1 DEF Free
  <2> QED
    BY <1>8, <1>13, <2>1, <2>2, <2>4 DEF Moves
<1> QED
  BY <1>7, <1>10, <1>11, <1>12, <1>13 DEF Moves

LEMMA InitLifetimes == Init => Lifetimes
BY DEF Init, Lifetimes, Live, Empty, InHand, Checked, Working, Allocating, Retiring, Pushing

\* ~SlotMap() empties only slots with a live handle, as it comes to them.
LEMMA LifetimesTeardown ==
  ASSUME Inv, Lifetimes, Teardown PROVE Lifetimes'
<1> SUFFICES ASSUME alive' PROVE Lifetimes'
  BY DEF Lifetimes
<1>1. /\ alive /\ AllIdle /\ AllIdle'
      /\ UNCHANGED <<capacity, generation, pc, handle, issued, retired>>
  BY TeardownSteps
<1>2. /\ TypeInv /\ position \in Nat /\ capacity \in Nat /\ Slots \subseteq Nat
      /\ Active \subseteq Slots
  BY CapacityAssumption, ActiveSlots DEF Inv, TypeInv, TypeOK, Slots
<1>3. \A i \in Slots : (Live(i)' <=> Live(i)) /\ (Free(i)' <=> Free(i))
  BY <1>1 DEF Live, Free, Holds
<1>4. \A i \in Slots : Live(i) \/ Free(i)
  BY <1>1 DEF Free, Holds, AllIdle, Working, Allocating, Retiring, Pushing
<1>5. \A t \in Threads : InHand(t)' /\ Checked(t)'
  BY <1>1 DEF AllIdle, InHand, Checked, Working, Allocating, Retiring, Pushing
<1>6. \A i \in Slots : (Live(i) => Full(i) \/ Swept(i)) /\ (Free(i) => Empty(i))
  BY <1>1 DEF Lifetimes
<1>7. SUFFICES \A i \in Slots : (Live(i) => Full(i)' \/ Swept(i)') /\ (Free(i) => Empty(i)')
  BY <1>3, <1>5 DEF Lifetimes
<1>8. ASSUME payload' = payload, occupied' = occupied,
             \A i \in Slots : Visited(i) => Visited(i)'
      PROVE  \A i \in Slots : (Live(i) => Full(i)' \/ Swept(i)') /\ (Free(i) => Empty(i)')
  BY <1>6, <1>8 DEF Full, Empty, Swept
<1>9. CASE TeardownBegins
  <2>1. \A i \in Slots : ~Visited(i)
    BY <1>2, <1>9 DEF TeardownBegins, TypeInv, SweepInRange, Visited
  <2> QED
    BY <1>8, <1>9, <2>1 DEF TeardownBegins
<1>10. CASE SweepSlot
  <2>1. position \in Slots /\ Live(position)
    <3>1. position \in Slots
      BY <1>2, <1>10 DEF SweepSlot, Active
    <3>2. ~Free(position)
      BY <1>6, <1>10, <3>1 DEF SweepSlot, Empty
    <3> QED
      BY <1>4, <3>1, <3>2
  <2>2. /\ occupied' = [occupied EXCEPT ![position] = FALSE]
        /\ payload' = [payload EXCEPT ![position] = FALSE]
        /\ occupied \in [Slots -> BOOLEAN] /\ payload \in [Slots -> BOOLEAN]
    BY <1>2, <1>10 DEF SweepSlot, TypeInv, TypeOK
  <2>3. \A i \in Slots : Visited(i) \/ i = position => Visited(i)'
    BY <1>10 DEF SweepSlot, Visited
  <2>4. ASSUME NEW i \in Slots
        PROVE  (Live(i) => Full(i)' \/ Swept(i)') /\ (Free(i) => Empty(i)')
    <3>1. CASE i = position
      BY <2>1, <2>2, <2>3, <3>1 DEF Swept, Empty, Free
    <3>2. CASE i # position
      BY <1>6, <2>2, <2>3, <3>2 DEF Full, Swept, Empty
    <3> QED
      BY <3>1, <3>2
  <2> QED
    BY <2>4
<1>11. CASE SkipSlot
  <2>1. \A i \in Slots : Visited(i) => Visited(i)'
    BY <1>2, <1>11 DEF SkipSlot, Visited
  <2> QED
    BY <1>8, <1>11, <2>1 DEF SkipSlot
<1>12. CASE SweepReturns
  <2>1. \A i \in Slots : Visited(i) => Visited(i)'
    BY <1>2, <1>12 DEF SweepReturns, Visited
  <2> QED
    BY <1>8, <1>12, <2>1 DEF SweepReturns
<1>13. CASE SweepThrows \/ TeardownEnds
  BY <1>13 DEF SweepThrows, TeardownEnds
<1> QED
  BY <1>9, <1>10, <1>11, <1>12, <1>13 DEF Teardown

LEMMA LifetimesInvariance ==
  ASSUME ForeignHandles = {} PROVE BoundedSpec => []Lifetimes
<1>1. ASSUME Inv, BelowWidth, Lifetimes, [Next]_vars PROVE Lifetimes'
  <2>1. CASE \E t \in Threads : Call(t) \/ Continue(t)
    BY <1>1, <2>1, LifetimesStep
  <2>2. CASE Teardown
    BY <1>1, <2>2, LifetimesTeardown
  <2>3. CASE UNCHANGED vars
    <3>1. /\ alive' = alive /\ payload' = payload /\ occupied' = occupied /\ pc' = pc
          /\ handle' = handle /\ generation' = generation
          /\ issued' = issued /\ retired' = retired
          /\ position' = position /\ teardown' = teardown
      BY <2>3 DEF vars
    <3>2. \A i \in Slots : (Live(i)' <=> Live(i)) /\ (Free(i)' <=> Free(i))
      BY <3>1 DEF Live, Free, Holds
    <3> QED
      BY <1>1, <3>1, <3>2
      DEF Lifetimes, Full, Empty, Swept, Visited, InHand, Checked, BumpSucceeds
  <2> QED
    BY <1>1, <2>1, <2>2, <2>3 DEF Next, Finished
<1> QED
  BY <1>1, Invariance, InitLifetimes, PTL DEF BoundedSpec, Spec

\* A payload lives exactly while a live handle names it, until ~SlotMap() comes
\* to it, or its constructing or retiring call still needs it
\* (Slot::construct(), Slot::destroy()).
THEOREM PayloadsLiveWithTheirHandles ==
  ASSUME ForeignHandles = {} PROVE BoundedSpec => []PayloadLifetimes
<1>1. Inv /\ Lifetimes => PayloadLifetimes
  <2>1. SUFFICES ASSUME Inv, Lifetimes, alive PROVE PayloadLifetimes
    BY DEF PayloadLifetimes
  <2>2. Active \subseteq Slots
    BY <2>1, ActiveSlots DEF Inv
  <2>3. \A i \in Active :
          Live(i) => payload[i] = occupied[i] /\ (occupied[i] \/ Visited(i))
    <3>1. \A i \in Active : payload[i] \in BOOLEAN /\ occupied[i] \in BOOLEAN
      BY <2>1, <2>2 DEF Inv, TypeInv, TypeOK
    <3> QED
      BY <2>1, <2>2, <3>1 DEF Lifetimes, Full, Swept, Empty
  <2>4. \A i \in Active : Free(i) => ~payload[i] /\ ~occupied[i]
    BY <2>1, <2>2 DEF Lifetimes, Empty
  <2>5. \A t \in Threads :
          /\ pc[t] = "destroy" => payload[handle[t].index]
          /\ pc[t] \in {"construct"} \union Pushing =>
               ~payload[handle[t].index] /\ ~occupied[handle[t].index]
    BY <2>1 DEF Lifetimes, InHand, Constructed, Published, Working, Allocating, Retiring,
       Pushing
  <2> QED
    BY <2>3, <2>4, <2>5 DEF PayloadLifetimes
<1> QED
  BY <1>1, Invariance, LifetimesInvariance, PTL

-----------------------------------------------------------------------------
\* A payload whose destructor ~SlotMap() ran before its loop came further, with
\* its slot, is gone: no call under teardown constructs another one there.
Filling == {"popNext", "popSwing"} \union Allocating

SweptBehind ==
  /\ teardown # "none" =>
       /\ \A t \in Threads : pc[t] \notin Filling
       /\ \A i \in Slots : Visited(i) => ~payload[i]
  /\ ~alive => \A i \in Slots : ~payload[i]

\* Destructors that allocate nothing construct nothing.
LEMMA NothingFilled ==
  ASSUME TypeInv, "allocate" \notin TeardownCalls, teardown # "none",
         NEW t \in Threads, pc[t] \notin Filling, Call(t) \/ Continue(t)
  PROVE  pc'[t] \notin Filling /\ \A i \in Slots : payload'[i] => payload[i]
<1>1. pc \in [Threads -> Labels] /\ payload \in [Slots -> BOOLEAN]
  BY DEF TypeInv, TypeOK
<1>2. ~AllocateCall(t)
  BY DEF AllocateCall, Start, MayCall
<1>3. ~Construct(t)
  BY DEF Construct, Filling, Allocating
<1>4. pc'[t] \notin Filling
  BY <1>1, <1>2, <1>3
  DEF Filling, Allocating, Call, GetCall, DeallocateCall, CheckedCall, Goto, Return,
     Continue, PopReadNext, PopSwing, PopRetry, PopClear, ConstructThrows,
     ReadGeneration, Publish, CountUp, GetCheckOccupied, FreeCheckOccupied, Bump,
     ClearOccupied, Destroy, CountDown, PushLoad, PushLink, PushSwing, PushRetry
<1>5. CASE Destroy(t)
  BY <1>1, <1>4, <1>5 DEF Destroy
<1>6. CASE ~Destroy(t)
  <2>1. payload' = payload
    BY <1>2, <1>3, <1>6
    DEF Call, GetCall, DeallocateCall, CheckedCall, Continue, PopReadNext, PopSwing,
       PopRetry, PopClear, ConstructThrows, ReadGeneration, Publish, CountUp,
       GetCheckOccupied, FreeCheckOccupied, Bump, ClearOccupied, CountDown, PushLoad,
       PushLink, PushSwing, PushRetry
  <2> QED
    BY <1>4, <2>1
<1> QED
  BY <1>5, <1>6

LEMMA SweptBehindTeardown ==
  ASSUME Inv, Lifetimes, SweptBehind, Teardown, ~DestructorMayThrow PROVE SweptBehind'
<1>1. /\ alive /\ AllIdle /\ AllIdle' /\ capacity' = capacity
  BY TeardownSteps
<1>2. /\ TypeInv /\ position \in Nat /\ capacity \in Nat /\ Slots \subseteq Nat
      /\ Active \subseteq Slots /\ payload \in [Slots -> BOOLEAN]
  BY CapacityAssumption, ActiveSlots DEF Inv, TypeInv, TypeOK, Slots
<1>3. \A t \in Threads : pc'[t] \notin Filling
  BY <1>1 DEF AllIdle, Filling, Allocating
<1>4. \A i \in Slots : Live(i) \/ Free(i)
  BY <1>1 DEF Free, Holds, AllIdle, Working, Allocating, Retiring, Pushing
<1>5. \A i \in Slots : ~occupied[i] => ~payload[i]
  BY <1>1, <1>4 DEF Lifetimes, Full, Swept, Empty
<1>6. CASE TeardownBegins
  <2>1. \A i \in Slots : ~Visited(i)'
    BY <1>2, <1>6 DEF TeardownBegins, Visited
  <2> QED
    BY <1>1, <1>3, <1>6, <2>1 DEF TeardownBegins, SweptBehind
<1>7. CASE SweepSlot
  <2>1. /\ payload' = [payload EXCEPT ![position] = FALSE] /\ alive'
        /\ \A i \in Slots : Visited(i)' => Visited(i) \/ i = position
    BY <1>7 DEF SweepSlot, Visited
  <2>2. teardown # "none"
    BY <1>7 DEF SweepSlot
  <2> QED
    BY <1>2, <1>3, <2>1, <2>2 DEF SweptBehind
<1>8. CASE SkipSlot
  <2>1. /\ payload' = payload /\ alive' /\ teardown # "none" /\ ~occupied[position]
        /\ \A i \in Slots : Visited(i)' => Visited(i) \/ i = position
    BY <1>2, <1>8 DEF SkipSlot, Visited
  <2> QED
    BY <1>3, <1>5, <2>1 DEF SweptBehind
<1>9. CASE SweepReturns
  <2>1. /\ payload' = payload /\ alive' /\ teardown # "none"
        /\ \A i \in Slots : Visited(i)' => Visited(i)
    BY <1>2, <1>9 DEF SweepReturns, Visited
  <2> QED
    BY <1>3, <2>1 DEF SweptBehind
<1>10. CASE SweepThrows
  BY <1>10 DEF SweepThrows
<1>11. CASE TeardownEnds
  <2>1. payload' = payload /\ teardown' = teardown /\ position' = position
        /\ teardown # "none" /\ position = capacity
    BY <1>11 DEF TeardownEnds
  <2>2. ASSUME NEW i \in Slots PROVE ~payload[i]
    <3>1. CASE i < capacity
      BY <2>1, <3>1 DEF SweptBehind, Visited
    <3>2. CASE ~(i < capacity)
      <4>1. i \notin Active
        BY <1>2, <3>2 DEF Active
      <4>2. ~Live(i)
        BY <4>1 DEF Live, Inv, HandleHistory
      <4> QED
        BY <1>1, <1>4, <4>2 DEF Lifetimes, Empty
    <3> QED
      BY <3>1, <3>2
  <2> QED
    BY <1>3, <2>1, <2>2 DEF SweptBehind
<1> QED
  BY <1>6, <1>7, <1>8, <1>9, <1>10, <1>11 DEF Teardown

\* Destroying the map ends every payload's lifetime, one destructor after the
\* other, when T's destructor does not throw and, run by ~SlotMap(), does not
\* allocate from the map, whatever else it calls there (destroy_live_slots()).
THEOREM TeardownEndsEveryLifetime ==
  ASSUME ForeignHandles = {}, ~DestructorMayThrow, "allocate" \notin TeardownCalls
  PROVE  BoundedSpec => []TeardownEndsLifetimes
<1>1. Init => SweptBehind
  BY DEF Init, SweptBehind
<1>2. ASSUME Inv, Lifetimes, SweptBehind, [Next]_vars PROVE SweptBehind'
  <2>1. ASSUME NEW t \in Threads, Call(t) \/ Continue(t) PROVE SweptBehind'
    <3>1. /\ TypeInv /\ alive /\ Contained(t)
      BY <1>2, <2>1, ContainedSteps DEF Inv, Knowledge, Contained
    <3>2. /\ alive' = alive /\ teardown' = teardown /\ position' = position
          /\ \A u \in Threads \ {t} : pc'[u] = pc[u]
      BY <3>1 DEF Contained
    <3>3. CASE teardown = "none"
      BY <3>1, <3>2, <3>3 DEF SweptBehind
    <3>4. CASE teardown # "none"
      <4>1. pc'[t] \notin Filling /\ \A i \in Slots : payload'[i] => payload[i]
        BY <1>2, <2>1, <3>1, <3>4, NothingFilled DEF SweptBehind
      <4> QED
        BY <1>2, <3>1, <3>2, <3>4, <4>1 DEF SweptBehind, Visited
    <3> QED
      BY <3>3, <3>4
  <2>2. CASE Teardown
    BY <1>2, <2>2, SweptBehindTeardown
  <2>3. CASE UNCHANGED vars
    BY <1>2, <2>3 DEF vars, SweptBehind, Visited
  <2> QED
    BY <1>2, <2>1, <2>2, <2>3 DEF Next, Finished
<1>3. SweptBehind => TeardownEndsLifetimes
  BY DEF SweptBehind, TeardownEndsLifetimes
<1> QED
  BY <1>1, <1>2, <1>3, Invariance, LifetimesInvariance, PTL DEF BoundedSpec, Spec

-----------------------------------------------------------------------------
\* ~SlotMap() has ended the payload of slot i, and the slot is off the list.
Gone(i) == Live(i) /\ ~occupied[i]

\* A call that names a retired handle ends where it begins; one that names a
\* swept handle may get past the generation, but not past the occupied flag.
StaleCallsEnd ==
  \A t \in Threads :
    /\ origin[t] = "retired" => pc[t] = "idle" /\ outcome[t] = Rejected
    /\ origin[t] = "swept" =>
         \/ pc[t] = "idle" /\ outcome[t] = Rejected
         \/ pc[t] \in {"getOccupied", "freeOccupied"} /\ Gone(handle[t].index)

\* A slot that is gone is never filled again.
LEMMA GonePersists ==
  ASSUME Inv, BelowWidth, Lifetimes, NEW t \in Threads, Call(t) \/ Continue(t),
         NEW i \in Slots, Gone(i)
  PROVE  Gone(i)'
<1>1. TypeInv /\ ExclusiveOwnership /\ alive
  BY ContainedSteps DEF Inv, Knowledge, Contained
<1>2. ~Holds(t, i)
  BY <1>1 DEF Gone, ExclusiveOwnership
<1>3. occupied'[i] = occupied[i]
  BY <1>1, <1>2, PayloadFrame
<1>4. Live(i)'
  <2>1. CASE ~Moves(t)
    BY <1>1, <2>1, QuietSteps, LocalQuiet DEF Quiet, Gone
  <2>2. CASE Bump(t) /\ BumpSucceeds(t)
    <3>1. occupied[handle[t].index]
      BY <1>1, <2>2 DEF Lifetimes, Checked, Bump
    <3> QED
      BY <2>2, <3>1, RetireMoves DEF Gone
  <2> QED
    BY <2>1, <2>2, PopMoves, PushMoves, IssueMoves DEF Moves, Gone
<1> QED
  BY <1>3, <1>4 DEF Gone

LEMMA StaleCallStep ==
  ASSUME Inv, BelowWidth, Lifetimes, StaleCallsEnd,
         NEW t \in Threads, Call(t) \/ Continue(t)
  PROVE  StaleCallsEnd'
<1>1. /\ pc \in [Threads -> Labels] /\ origin \in [Threads -> Origins]
      /\ outcome \in [Threads -> Outcomes] /\ handle \in [Threads -> HandleSet]
  BY DEF Inv, TypeInv, TypeOK
<1>2. \A u \in Threads \ {t} :
        /\ pc'[u] = pc[u] /\ handle'[u] = handle[u]
        /\ outcome'[u] = outcome[u] /\ origin'[u] = origin[u]
  <2>1. \A u \in Threads \ {t} : pc'[u] = pc[u] /\ handle'[u] = handle[u]
    BY ContainedSteps DEF Inv, Contained
  <2>2. \A u \in Threads \ {t} : outcome'[u] = outcome[u] /\ origin'[u] = origin[u]
    BY <1>1
    DEF Call, AllocateCall, GetCall, DeallocateCall, CheckedCall, Start, Goto, Return,
       Continue, PopReadNext, PopSwing, PopRetry, PopClear, Construct, ConstructThrows,
       ReadGeneration, Publish, CountUp, GetCheckOccupied, FreeCheckOccupied, Bump,
       ClearOccupied, Destroy, CountDown, PushLoad, PushLink, PushSwing, PushRetry
  <2> QED
    BY <2>1, <2>2
<1> DEFINE Ended(u) == pc[u] = "idle" /\ outcome[u] = Rejected
           Doomed(u) == pc[u] \in {"getOccupied", "freeOccupied"} /\ Gone(handle[u].index)
<1>3. ASSUME NEW u \in Threads \ {t}
      PROVE  /\ origin'[u] = "retired" => Ended(u)'
             /\ origin'[u] = "swept" => Ended(u)' \/ Doomed(u)'
  <2>1. CASE pc[u] \in {"getOccupied", "freeOccupied"} /\ Gone(handle[u].index)
    <3>1. handle[u].index \in Slots
      BY <2>1 DEF Inv, TypeInv, RegistersInRange
    <3>2. Gone(handle[u].index)'
      <4>1. \A i \in Slots : Gone(i) => Gone(i)'
        BY GonePersists
      <4> QED
        BY <1>2, <2>1, <3>1, <4>1 DEF Gone, Live
    <3> QED
      BY <1>2, <2>1, <3>2 DEF StaleCallsEnd
  <2>2. CASE ~(pc[u] \in {"getOccupied", "freeOccupied"} /\ Gone(handle[u].index))
    BY <1>2, <2>2 DEF StaleCallsEnd
  <2> QED
    BY <2>1, <2>2
<1>4. SUFFICES /\ origin'[t] = "retired" => Ended(t)'
               /\ origin'[t] = "swept" => Ended(t)' \/ Doomed(t)'
  BY <1>3 DEF StaleCallsEnd
<1>5. CASE Continue(t)
  <2>1. origin' = origin /\ pc[t] # "idle"
    BY <1>5
    DEF Continue, PopReadNext, PopSwing, PopRetry, PopClear, Construct, ConstructThrows,
       ReadGeneration, Publish, CountUp, GetCheckOccupied, FreeCheckOccupied, Bump,
       ClearOccupied, Destroy, CountDown, PushLoad, PushLink, PushSwing, PushRetry
  <2>2. SUFFICES ASSUME origin[t] = "swept" PROVE Ended(t)'
    BY <2>1 DEF StaleCallsEnd
  <2>3. pc[t] \in {"getOccupied", "freeOccupied"} /\ ~occupied[handle[t].index]
    BY <2>1, <2>2 DEF StaleCallsEnd, Gone
  <2>4. GetCheckOccupied(t) \/ FreeCheckOccupied(t)
    BY <1>5, <2>3
    DEF Continue, PopReadNext, PopSwing, PopRetry, PopClear, Construct, ConstructThrows,
       ReadGeneration, Publish, CountUp, GetCheckOccupied, FreeCheckOccupied, Bump,
       ClearOccupied, Destroy, CountDown, PushLoad, PushLink, PushSwing, PushRetry
  <2>5. Return(t, Rejected)
    BY <2>3, <2>4 DEF GetCheckOccupied, FreeCheckOccupied
  <2> QED
    BY <1>1, <2>5 DEF Return
<1>6. CASE AllocateCall(t)
  <2>1. origin'[t] = "none"
    BY <1>1, <1>6 DEF AllocateCall, Start
  <2> QED
    BY <2>1
<1>7. ASSUME NEW op, NEW label \in {"getOccupied", "freeOccupied"},
             CheckedCall(t, op, label)
      PROVE  /\ origin'[t] = "retired" => Ended(t)'
             /\ origin'[t] = "swept" => Ended(t)' \/ Doomed(t)'
  <2>1. PICK a \in Arguments :
          /\ origin' = [origin EXCEPT ![t] = a.origin]
          /\ IF Matches(a.handle)
             THEN handle' = [handle EXCEPT ![t] = a.handle] /\ Goto(t, label)
             ELSE Return(t, Rejected)
          /\ UNCHANGED <<list, cells, issued, retired>>
    BY <1>7 DEF CheckedCall, Start
  <2>2. CASE ~Matches(a.handle)
    BY <1>1, <2>1, <2>2 DEF Return
  <2>3. CASE Matches(a.handle)
    <3>1. /\ origin'[t] = a.origin /\ pc'[t] = label /\ handle'[t] = a.handle
      BY <1>1, <2>1, <2>3 DEF Goto
    <3>2. a.origin # "retired"
      BY <2>3, ActiveSlots DEF Arguments, LiveHandles, SweptHandles, Matches, Inv,
         HandleHistory
    <3>3. ASSUME a.origin = "swept" PROVE Gone(a.handle.index)
      <4>1. /\ a.handle \in issued \ retired /\ ~occupied[a.handle.index]
            /\ a.handle \in HandleSet
        BY <3>3 DEF Arguments, LiveHandles, SweptHandles, Inv, TypeInv, TypeOK
      <4>2. a.handle = [index |-> a.handle.index,
                        generation |-> generation[a.handle.index]]
        BY <2>3, <4>1 DEF Matches, HandleSet
      <4> QED
        BY <4>1, <4>2 DEF Gone, Live
    <3>4. Gone(a.handle.index) => Gone(a.handle.index)'
      BY <2>1, <3>1 DEF Gone, Live
    <3> QED
      BY <3>1, <3>2, <3>3, <3>4 DEF Gone, Live
  <2> QED
    BY <2>2, <2>3
<1> QED
  BY <1>5, <1>6, <1>7 DEF Call, GetCall, DeallocateCall

LEMMA StaleCallsInvariance ==
  ASSUME ForeignHandles = {} PROVE BoundedSpec => []StaleCallsEnd
<1>1. Init => StaleCallsEnd
  BY DEF Init, StaleCallsEnd
<1>2. ASSUME Inv, BelowWidth, Lifetimes, StaleCallsEnd, [Next]_vars PROVE StaleCallsEnd'
  <2>1. CASE \E t \in Threads : Call(t) \/ Continue(t)
    BY <1>2, <2>1, StaleCallStep
  <2>2. CASE Teardown
    <3>1. AllIdle /\ UNCHANGED <<pc, outcome, origin>>
      BY <1>2, <2>2, TeardownSteps
    <3> QED
      BY <1>2, <3>1 DEF StaleCallsEnd, AllIdle
  <2>3. CASE UNCHANGED vars
    BY <1>2, <2>3 DEF vars, StaleCallsEnd, Gone, Live
  <2> QED
    BY <1>2, <2>1, <2>2, <2>3 DEF Next, Finished
<1> QED
  BY <1>1, <1>2, Invariance, LifetimesInvariance, PTL DEF BoundedSpec, Spec

\* A handle whose payload was ended before a call began is never accepted by
\* it (checked_index()).
THEOREM StaleHandlesAreRejected ==
  ASSUME ForeignHandles = {} PROVE BoundedSpec => []StaleHandleRejected
<1>1. StaleCallsEnd => StaleHandleRejected
  BY DEF StaleCallsEnd, StaleHandleRejected, Accepted, Retiring, Pushing, Rejected
<1> QED
  BY <1>1, StaleCallsInvariance, PTL

-----------------------------------------------------------------------------
\* What size() counts: live handles, and payloads under destruction.
LiveSlots == {i \in Active : Live(i)}
Retirers == {t \in Threads : pc[t] \in Retiring}

\* Both are finite: each retiring thread has a slot of its own.
LEMMA CountedAreFinite ==
  ASSUME Inv, alive
  PROVE  IsFiniteSet(LiveSlots) /\ IsFiniteSet(Retirers)
<1>1. TypeInv /\ capacity \in Nat /\ Active \subseteq Slots
  BY CapacityAssumption, ActiveSlots DEF Inv, TypeInv, TypeOK
<1>2. IsFiniteSet(Active) /\ IsFiniteSet(Slots)
  <2>1. 0 \in Int /\ capacity - 1 \in Int /\ Capacity - 1 \in Int
    BY <1>1, CapacityAssumption
  <2> QED
    BY <2>1, FS_Interval DEF Active, Slots
<1>3. LiveSlots \in SUBSET Active
  BY DEF LiveSlots
<1>4. IsFiniteSet(LiveSlots)
  BY <1>2, <1>3, FS_Subset
<1> DEFINE slot == [t \in Retirers |-> handle[t].index]
<1>5. \A t \in Retirers : handle[t].index \in Slots /\ Holds(t, handle[t].index) /\ t \in Threads
  BY <1>1 DEF Retirers, Holds, Working, Retiring, TypeInv, RegistersInRange
<1>6. slot \in Injection(Retirers, Slots)
  <2>1. slot \in [Retirers -> Slots]
    BY <1>5
  <2>2. ASSUME NEW t \in Retirers, NEW u \in Retirers, slot[t] = slot[u] PROVE t = u
    BY <1>5, <2>2 DEF Inv, ExclusiveOwnership
  <2> QED
    BY <2>1, <2>2 DEF Injection, IsInjective
<1>7. IsFiniteSet(Retirers)
  BY <1>2, <1>6, FS_Injection
<1> QED
  BY <1>4, <1>7

Counted == alive => liveCount = Cardinality(LiveSlots) + Cardinality(Retirers)

LEMMA CountedStep ==
  ASSUME Inv, BelowWidth, Counted, NEW t \in Threads, Call(t) \/ Continue(t)
  PROVE  Counted'
<1>1. /\ TypeInv /\ alive /\ Contained(t) /\ alive' /\ Active' = Active /\ Active \subseteq Slots
  BY ContainedSteps, ActiveSlots DEF Inv, Knowledge, Contained, Active
<1>2. IsFiniteSet(LiveSlots) /\ IsFiniteSet(Retirers)
  BY <1>1, CountedAreFinite
<1>3. /\ liveCount = Cardinality(LiveSlots) + Cardinality(Retirers)
      /\ Cardinality(LiveSlots) \in Nat /\ Cardinality(Retirers) \in Nat
  BY <1>1, <1>2, FS_CardinalityType DEF Counted
<1>4. pc \in [Threads -> Labels] /\ \A u \in Threads \ {t} : pc'[u] = pc[u]
  BY <1>1 DEF TypeInv, TypeOK, Contained
<1>5. Retirers' = IF pc'[t] \in Retiring THEN Retirers \union {t} ELSE Retirers \ {t}
  BY <1>4 DEF Retirers
<1>6. CASE CountUp(t)
  <2> DEFINE i == handle[t].index
  <2>1. i \in Slots /\ Holds(t, i) /\ \A j \in Slots : Live(j)' <=> Live(j) \/ j = i
    BY <1>6, IssueMoves
  <2>2. ~Live(i) /\ i < capacity
    BY <1>1, <2>1 DEF Inv, ExclusiveOwnership
  <2>3. i \in Active
    BY <2>1, <2>2 DEF Active, Slots, Inv, TypeInv, TypeOK
  <2>4. i \notin LiveSlots /\ LiveSlots' = LiveSlots \union {i}
    BY <1>1, <2>1, <2>2, <2>3 DEF LiveSlots
  <2>5. pc[t] = "countUp" /\ pc'[t] = "idle" /\ liveCount' = liveCount + 1
    BY <1>4, <1>6 DEF CountUp, Return
  <2>6. Retirers' = Retirers
    BY <1>5, <2>5 DEF Retirers, Retiring
  <2> HIDE DEF i
  <2>7. Cardinality(LiveSlots') = Cardinality(LiveSlots) + 1
    BY <1>2, <2>4, FS_AddElement
  <2> QED
    BY <1>3, <2>5, <2>6, <2>7 DEF Counted
<1>7. CASE Bump(t) /\ BumpSucceeds(t)
  <2> DEFINE i == handle[t].index
  <2>1. i \in Active /\ Live(i) /\ \A j \in Slots : Live(j)' <=> Live(j) /\ j # i
    BY <1>7, RetireMoves
  <2>2. i \in LiveSlots /\ LiveSlots' = LiveSlots \ {i}
    BY <1>1, <2>1 DEF LiveSlots
  <2>3. pc[t] = "bump" /\ pc'[t] = "clearOccupied" /\ liveCount' = liveCount
    BY <1>4, <1>7 DEF Bump, Goto
  <2>4. t \notin Retirers /\ Retirers' = Retirers \union {t}
    BY <1>5, <2>3 DEF Retirers, Retiring
  <2> HIDE DEF i
  <2>5. Cardinality(LiveSlots') = Cardinality(LiveSlots) - 1
    BY <1>2, <2>2, FS_RemoveElement
  <2>6. Cardinality(Retirers') = Cardinality(Retirers) + 1
    BY <1>2, <2>4, FS_AddElement
  <2> QED
    BY <1>3, <2>3, <2>5, <2>6 DEF Counted
<1>8. ASSUME ~CountUp(t), ~(Bump(t) /\ BumpSucceeds(t)) PROVE LiveSlots' = LiveSlots
  <2>1. \A j \in Slots : Live(j)' <=> Live(j)
    <3>1. CASE ~Moves(t)
      BY <1>1, <3>1, QuietSteps DEF Local, Live
    <3>2. CASE PopSwing(t)
      BY <3>2, PopMoves
    <3>3. CASE PushSwing(t)
      BY <3>3, PushMoves
    <3> QED
      BY <1>8, <3>1, <3>2, <3>3 DEF Moves
  <2> QED
    BY <1>1, <2>1 DEF LiveSlots
<1>9. CASE CountDown(t)
  <2>1. pc[t] = "countDown" /\ pc'[t] = "pushLoad" /\ liveCount' = liveCount - 1
    BY <1>4, <1>9 DEF CountDown, Goto
  <2>2. t \in Retirers /\ Retirers' = Retirers \ {t}
    BY <1>5, <2>1 DEF Retirers, Retiring
  <2>3. LiveSlots' = LiveSlots
    BY <1>8, <2>1 DEF CountUp, Bump
  <2>4. Cardinality(Retirers') = Cardinality(Retirers) - 1
    BY <1>2, <2>2, FS_RemoveElement
  <2> QED
    BY <1>3, <2>1, <2>3, <2>4 DEF Counted
<1>10. CASE ~CountUp(t) /\ ~(Bump(t) /\ BumpSucceeds(t)) /\ ~CountDown(t)
  <2>1. LiveSlots' = LiveSlots
    BY <1>8, <1>10
  <2>2. liveCount' = liveCount
    BY <1>10
    DEF Call, Continue, AllocateCall, GetCall, DeallocateCall, CheckedCall, PopReadNext,
        PopSwing, PopRetry, PopClear, Construct, ConstructThrows, ReadGeneration, Publish,
        GetCheckOccupied, FreeCheckOccupied, Bump, ClearOccupied, Destroy, PushLoad,
        PushLink, PushSwing, PushRetry
  <2>3. pc'[t] \in Retiring <=> pc[t] \in Retiring
    BY <1>4, <1>10
    DEF Call, Continue, AllocateCall, GetCall, DeallocateCall, CheckedCall, Start,
        PopReadNext, PopSwing, PopRetry, PopClear, Construct, ConstructThrows,
        ReadGeneration, Publish, GetCheckOccupied, FreeCheckOccupied, Bump, ClearOccupied,
        Destroy, PushLoad, PushLink, PushSwing, PushRetry, Goto, Return, Retiring
  <2>4. Retirers' = Retirers
    BY <1>5, <2>3 DEF Retirers
  <2> QED
    BY <1>3, <2>1, <2>2, <2>4 DEF Counted
<1> QED
  BY <1>6, <1>7, <1>9, <1>10

\* size() is the number of live handles plus the retired payloads whose
\* destruction is not accounted for: it never wraps and never exceeds what the
\* calls in progress explain (live_count_).
THEOREM LiveCountIsExact ==
  ASSUME ForeignHandles = {} PROVE BoundedSpec => []LiveCountExact
<1>1. Init => Counted
  <2>1. SUFFICES ASSUME Init PROVE LiveSlots = {} /\ Retirers = {} /\ liveCount = 0
    BY FS_EmptySet DEF Counted
  <2> QED
    BY <2>1 DEF Init, LiveSlots, Retirers, Live, Retiring
<1>2. ASSUME Inv, BelowWidth, Counted, [Next]_vars PROVE Counted'
  <2>1. CASE \E t \in Threads : Call(t) \/ Continue(t)
    BY <1>2, <2>1, CountedStep
  <2>2. CASE Teardown
    <3>1. /\ alive /\ UNCHANGED <<capacity, generation, pc, issued, retired>>
          /\ alive' => liveCount' = liveCount
      BY <1>2, <2>2, TeardownSteps
    <3>2. LiveSlots' = LiveSlots /\ Retirers' = Retirers
      BY <3>1 DEF LiveSlots, Retirers, Active, Live
    <3> QED
      BY <1>2, <3>1, <3>2 DEF Counted
  <2>3. CASE UNCHANGED vars
    <3>1. LiveSlots' = LiveSlots /\ Retirers' = Retirers /\ alive' = alive
          /\ liveCount' = liveCount
      BY <2>3 DEF vars, LiveSlots, Retirers, Active, Live
    <3> QED
      BY <1>2, <3>1 DEF Counted
  <2> QED
    BY <1>2, <2>1, <2>2, <2>3 DEF Next, Finished
<1>3. Counted => LiveCountExact
  BY DEF Counted, LiveCountExact, LiveSlots, Retirers
<1> QED
  BY <1>1, <1>2, <1>3, Invariance, PTL DEF BoundedSpec, Spec
=============================================================================
