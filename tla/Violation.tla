----------------------------- MODULE Violation -----------------------------
(***************************************************************************)
(* The violation policy (include/memsafe/violation.hpp): two atomic slots   *)
(* that any thread may replace at any time, and report_violation().  Hooks   *)
(* and handlers are user code: they may replace the slots, report again or    *)
(* throw, so each thread has a stack of reports in progress.                 *)
(* The policy is chosen when the program is built; module Program instantiates *)
(* this one for the translation unit that builds it.                          *)
(***************************************************************************)
EXTENDS Integers, Sequences, SequencesExt

CONSTANTS
  Threads,   \* threads of the program
  Handlers,  \* handler functions
  Hooks,     \* logging hook functions
  Null,      \* the null function pointer
  Policies,  \* values of MEMSAFE_ON_VIOLATION explored
  MaxDepth,  \* bound: reports inside reports of one thread
  MaxCalls   \* bound: operations one thread starts

VARIABLES
  policy,   \* MEMSAFE_ON_VIOLATION
  handler,  \* handler_slot()
  hook,     \* log_hook_slot()
  reports,  \* the reports in progress on every thread, innermost last
  aborted,  \* the process has been aborted
  ended,    \* history: how finished reports ended
  calls     \* operations each thread has started

vars == <<policy, handler, hook, reports, aborted, ended, calls>>

\* A report, its payload left out: where it is, the function it calls, and (history) the handlers the
\* slot has held since the logging hook was done with.
Frame(at, callee, held) == [at |-> at, callee |-> callee, held |-> held]

Current(t) == Last(reports[t])
At(t, label) == ~aborted /\ reports[t] # <<>> /\ Current(t).at = label
Become(t, frame) == reports' = [reports EXCEPT ![t] = Append(Front(@), frame)]

\* The innermost report ends and its caller goes on.
EndReport(t, how, by) ==
  /\ reports' = [reports EXCEPT ![t] = Front(@)]
  /\ ended' = ended \union {[how |-> how, by |-> by]}

\* The thread runs the program, or the body of a hook or of a handler.
UserCode(t) ==
  /\ ~aborted /\ calls[t] < MaxCalls
  /\ reports[t] # <<>> => Current(t).at \in {"logging", "handling"}
  /\ calls' = [calls EXCEPT ![t] = @ + 1]

\* active_violation_policy() is a constant of each build.
ActivePolicy == policy \in Policies

\* The slots start empty and nothing is reported.
SlotsEmpty ==
  /\ handler = Null /\ hook = Null
  /\ reports = [t \in Threads |-> <<>>]
  /\ aborted = FALSE
  /\ ended = {}
  /\ calls = [t \in Threads |-> 0]

Init == ActivePolicy /\ SlotsEmpty

-----------------------------------------------------------------------------
SetViolationHandler(t, h) ==
  /\ UserCode(t)
  /\ handler' = h
  /\ reports' = [u \in Threads |-> [i \in DOMAIN reports[u] |->
       IF reports[u][i].at = "dispatch"
       THEN [reports[u][i] EXCEPT !.held = @ \union {h}] ELSE reports[u][i]]]
  /\ UNCHANGED <<policy, hook, aborted, ended>>

SetViolationLogHook(t, k) ==
  /\ UserCode(t)
  /\ hook' = k
  /\ UNCHANGED <<policy, handler, reports, aborted, ended>>

ReportViolation(t) ==
  /\ UserCode(t) /\ Len(reports[t]) < MaxDepth
  /\ reports' = [reports EXCEPT ![t] = Append(@, Frame("log", Null, {}))]
  /\ UNCHANGED <<policy, handler, hook, aborted, ended>>

\* notify_log_hook(): the slot is loaded once.
NotifyLogHook(t) ==
  /\ At(t, "log")
  /\ Become(t, IF hook = Null THEN Frame("dispatch", Null, {handler})
               ELSE Frame("logging", hook, {}))
  /\ UNCHANGED <<policy, handler, hook, aborted, ended, calls>>

\* The hook returns, or throws and the exception is dropped.
HookThrows(t) ==
  /\ At(t, "logging")
  /\ \/ /\ Become(t, Frame("dispatch", Null, {handler}))
        /\ UNCHANGED ended
     \/ EndReport(t, "hook threw", Null)
  /\ UNCHANGED <<policy, handler, hook, aborted, calls>>
HookEnds(t) ==
  /\ At(t, "logging")
  /\ Become(t, Frame("dispatch", Null, {handler}))
  /\ UNCHANGED <<policy, handler, hook, aborted, ended, calls>>

\* abort_with(): the report is printed and the process ends.
AbortWith == aborted' = TRUE /\ UNCHANGED <<reports, ended>>

\* The policy: the handler slot is loaded once, tested and called.
LoadsTwice(t) ==
  /\ UNCHANGED <<policy, handler, hook, calls>>
  /\ \/ /\ At(t, "dispatch") /\ policy = "throw"
        /\ EndReport(t, "threw", Null) /\ UNCHANGED aborted
     \/ /\ At(t, "dispatch") /\ policy = "abort"
        /\ AbortWith
     \/ /\ At(t, "dispatch") /\ policy = "handler" /\ handler = Null
        /\ AbortWith
     \/ /\ At(t, "dispatch") /\ policy = "handler" /\ handler # Null
        /\ Become(t, Frame("tested", Null, Current(t).held))
        /\ UNCHANGED <<aborted, ended>>
     \/ /\ At(t, "tested")
        /\ Become(t, Frame("handling", handler, Current(t).held))
        /\ UNCHANGED <<aborted, ended>>
Dispatch(t) ==
  /\ At(t, "dispatch")
  /\ CASE policy = "throw" ->
            EndReport(t, "threw", Null) /\ UNCHANGED aborted
       [] policy = "handler" /\ handler # Null ->
            /\ Become(t, Frame("handling", handler, Current(t).held))
            /\ UNCHANGED <<aborted, ended>>
       [] OTHER -> AbortWith
  /\ UNCHANGED <<policy, handler, hook, calls>>

HandlerEnds(t) ==
  /\ At(t, "handling")
  /\ \E how \in {"returned", "threw"} : EndReport(t, how, Current(t).callee)
  /\ UNCHANGED <<policy, handler, hook, aborted, calls>>

-----------------------------------------------------------------------------
Call(t) ==
  \/ \E h \in Handlers \union {Null} : SetViolationHandler(t, h)
  \/ \E k \in Hooks \union {Null} : SetViolationLogHook(t, k)
  \/ ReportViolation(t)
Proceed(t) ==
  NotifyLogHook(t) \/ HookEnds(t) \/ Dispatch(t) \/ HandlerEnds(t)

\* The program may stop outside reports, and an aborted one does nothing more.
Stopped == (aborted \/ \A t \in Threads : reports[t] = <<>>) /\ UNCHANGED vars

Next == (\E t \in Threads : Call(t) \/ Proceed(t)) \/ Stopped

Spec == Init /\ [][Next]_vars

-----------------------------------------------------------------------------
(* Properties *)

\* Nothing but the policy ends a report: "hook exceptions are caught and
\* discarded so logging integration cannot change ABORT, THROW, or HANDLER
\* policy outcomes", and a report that returns has been handled
\* (violation.hpp:1042, 1063-1074).
PolicyDecides ==
  \A e \in ended :
    \/ policy = "throw" /\ e.how = "threw"
    \/ policy = "handler" /\ e.by \in Handlers

\* Whatever other threads and the hooks store meanwhile, a report calls a
\* handler, never null, and one that the slot held after the logging hook was
\* done: the slot is loaded once for the test and the call
\* (violation.hpp:1087-1088).
CallsInstalledHandler ==
  \A t \in Threads : \A i \in DOMAIN reports[t] :
    LET r == reports[t][i] IN
      r.at = "handling" => r.callee \in r.held \ {Null}

=============================================================================
