------------------------------ MODULE Program ------------------------------
(***************************************************************************)
(* A program of one translation unit: first the preprocessor reads the unit *)
(* (Configuration), then the program it describes reports violations        *)
(* (Violation) under the policy that was in force when violation.hpp was    *)
(* read.  The units whose field runs is FALSE are only preprocessed.        *)
(***************************************************************************)
EXTENDS Configuration

CONSTANTS
  Threads, Handlers, Hooks, Null, MaxDepth, MaxCalls   \* those of Violation

ASSUME RuntimeAssumption ==
  Null \notin Handlers \union Hooks /\ MaxDepth \in Nat /\ MaxCalls \in Nat

VARIABLES handler, hook, reports, aborted, ended, calls

runtime == <<handler, hook, reports, aborted, ended, calls>>

\* The branch of report_violation() that was compiled.
policy ==
  IF Defined(macros, "ON_VIOLATION") /\ KnownPolicy(macros)
  THEN CHOOSE p \in DOMAIN PolicyValues : macros["ON_VIOLATION"] = PolicyValues[p]
  ELSE "none"

V == INSTANCE Violation WITH Policies <- DOMAIN PolicyValues

Built ==
  /\ unit.runs /\ source = {} /\ todo = <<>>
  /\ Defined(seen, "violation") /\ ~failed

ProgramInit == Init /\ V!SlotsEmpty

Preprocess == Next /\ UNCHANGED runtime
Run == Built /\ UNCHANGED vars /\ V!Next

ProgramNext == Preprocess \/ Run

ProgramSpec == ProgramInit /\ [][ProgramNext]_<<vars, runtime>>

-----------------------------------------------------------------------------
(* Properties *)

\* What the unit asked for: its own value of ON_VIOLATION, or "abort".
RequestedPolicy ==
  IF Defined(seen["violation"], "ON_VIOLATION")
  THEN {p \in DOMAIN PolicyValues :
          seen["violation"]["ON_VIOLATION"] = PolicyValues[p]}
  ELSE {"abort"}

\* Nothing but the policy the unit asked for ends a report: "hook exceptions
\* are caught and discarded so logging integration cannot change ABORT, THROW,
\* or HANDLER policy outcomes", and a report that returns has been handled
\* (violation.hpp:116-117, 1042, 1063-1074).
PolicyDecides ==
  /\ V!PolicyDecides
  /\ ended # {} => RequestedPolicy = {policy}

\* Whatever other threads and the hooks store meanwhile, a report calls a
\* handler, never null, and one that the slot held after the logging hook was
\* done (violation.hpp:1087-1088).
CallsInstalledHandler == V!CallsInstalledHandler
=============================================================================
