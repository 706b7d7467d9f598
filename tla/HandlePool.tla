----------------------------- MODULE HandlePool -----------------------------
(***************************************************************************)
(* What SlotMap promises to the threads that share it (class comment and    *)
(* the contracts of allocate(), get() and deallocate() in handle.hpp): a    *)
(* slot passes from the pool to one caller and back; allocation fails only  *)
(* at an instant when no slot is in the pool; a handle is minted once and   *)
(* retired once; a call accepts a handle only if it was live at some        *)
(* instant of the call, and refuses it only if at some instant it was not;  *)
(* the end of the map takes the handles that are left, one at a time.       *)
(***************************************************************************)
EXTENDS Naturals

CONSTANTS Threads, Slots, Generations, InPool, Issued, Absent

VARIABLES
  owner,  \* owner[i]: InPool, Issued, Absent, or the thread that has slot i
  live,   \* handles out and not retired
  spent,  \* handles whose payload was ended
  call    \* what each thread asked for, and how its last call ended

vars == <<owner, live, spent, call>>

Handles == [index : Slots, generation : Generations]
NoHandle == [index |-> InPool, generation |-> 0]

\* wants: what is still to be decided about the handle; fresh: the handle was
\* live when the call began.
Call(wants, handle, fresh, result) ==
  [wants |-> wants, handle |-> handle, fresh |-> fresh, result |-> result]
Pending(t) == call[t].result = "pending"
Becomes(t, c) == call' = [call EXCEPT ![t] = c]
Ends(t, result) == Becomes(t, Call("nothing", NoHandle, call[t].fresh, result))

Init ==
  /\ \E active \in SUBSET Slots :
       owner = [i \in Slots |-> IF i \in active THEN InPool ELSE Absent]
  /\ live = {} /\ spent = {}
  /\ call = [t \in Threads |-> Call("nothing", NoHandle, FALSE, "none")]

BeginAllocate(t) ==
  /\ ~Pending(t)
  /\ Becomes(t, Call("nothing", NoHandle, FALSE, "pending"))
  /\ UNCHANGED <<owner, live, spent>>

\* A call that names a handle of the map.
BeginWith(t) ==
  /\ ~Pending(t)
  /\ \E wants \in {"get", "deallocate"}, handle \in live \union spent :
       Becomes(t, Call(wants, handle, handle \in live, "pending"))
  /\ UNCHANGED <<owner, live, spent>>

\* A call whose handle is not live may be refused at once.
RefuseStale(t) ==
  /\ ~Pending(t)
  /\ Becomes(t, Call("nothing", NoHandle, FALSE, "refused"))
  /\ UNCHANGED <<owner, live, spent>>

Reserve(t) ==
  /\ Pending(t) /\ call[t].wants = "nothing"
  /\ \A i \in Slots : owner[i] # t
  /\ \E i \in Slots : owner[i] = InPool /\ owner' = [owner EXCEPT ![i] = t]
  /\ UNCHANGED <<live, spent, call>>

Exhausted(t) ==
  /\ call[t].wants = "nothing"
  /\ \A i \in Slots : owner[i] \notin {t, InPool}
  /\ Becomes(t, Call("nothing", NoHandle, FALSE, "exhausted"))
  /\ UNCHANGED <<owner, live, spent>>

\* allocate() returns a handle nobody has seen.
Issue(t, handle) ==
  /\ owner[handle.index] = t
  /\ handle \notin live \union spent
  /\ owner' = [owner EXCEPT ![handle.index] = Issued]
  /\ live' = live \union {handle}
  /\ Ends(t, "ok")
  /\ UNCHANGED spent

\* The handle was live when get() began.
Lookup(t) ==
  /\ call[t].wants = "get" /\ call[t].fresh /\ Ends(t, "ok")
  /\ UNCHANGED <<owner, live, spent>>

\* The payload was ended, by another call after this one began or before it.
Refuse(t) ==
  /\ call[t].handle \in spent /\ Ends(t, "refused")
  /\ UNCHANGED <<owner, live, spent>>

Retire(t) ==
  LET handle == call[t].handle IN
  /\ call[t].wants = "deallocate" /\ handle \in live
  /\ live' = live \ {handle} /\ spent' = spent \union {handle}
  /\ owner' = [owner EXCEPT ![handle.index] = t]
  /\ Becomes(t, Call("nothing", NoHandle, call[t].fresh, "pending"))

\* The slot goes back: at the end of deallocate(), or of an allocate() whose
\* constructor threw.
Recycle(t) ==
  /\ \E i \in Slots : owner[i] = t /\ owner' = [owner EXCEPT ![i] = InPool]
  /\ \E result \in {"ok", "threw"} : Ends(t, result)
  /\ UNCHANGED <<live, spent>>

\* The map ends a payload whose handle is still out; its slot does not go back.
Discard(handle) ==
  /\ handle \in live
  /\ live' = live \ {handle} /\ spent' = spent \union {handle}
  /\ owner' = [owner EXCEPT ![handle.index] = Absent]
  /\ UNCHANGED call

Next ==
  \/ \E handle \in Handles : Discard(handle)
  \/ \E t \in Threads :
       \/ BeginAllocate(t) \/ BeginWith(t) \/ RefuseStale(t)
       \/ Reserve(t) \/ Exhausted(t) \/ Lookup(t) \/ Refuse(t)
       \/ Retire(t) \/ Recycle(t)
       \/ \E handle \in Handles : Issue(t, handle)

Spec == Init /\ [][Next]_vars
=============================================================================
