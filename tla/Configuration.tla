--------------------------- MODULE Configuration ---------------------------
(***************************************************************************)
(* What the preprocessor makes of a translation unit that includes memsafe  *)
(* headers: include/memsafe/config.hpp, backend.hpp, the configuration part *)
(* of violation.hpp, and the include directives of the feature headers.     *)
(*                                                                          *)
(* A unit is a toolchain, what its command line defines, and a source: a    *)
(* set of #include and #define directives, taken in any order, so that the  *)
(* behaviours are all the orders.  Macro names lose the prefix MEMSAFE_, and *)
(* MEMSAFE_DETAIL_ except where two names would become one; an annotation   *)
(* macro expands to the name of the attribute it emits, or to NoAttribute.  *)
(***************************************************************************)
EXTENDS Integers, FiniteSets, Sequences

CONSTANTS
  Units   \* the translation units explored

Headers == {"config", "backend", "violation", "handle", "owner", "scope",
            "sync", "memsafe"}
Backends == {"CLANG", "GCC", "MSVC", "RUSTY_CPP", "CHERI"}
Traits == {"is_complete", "is_complete_object", "is_constructible_object",
           "is_scope_constructible_object"}
NoAttribute == ""

\* The names the compiler alone defines: a program may not touch them.
Reserved == {"__cplusplus", "_MSVC_LANG", "_MSC_VER", "__clang__", "__GNUC__",
             "__has_include", "__has_attribute", "__has_cpp_attribute",
             "__cpp_concepts"}

ASSUME UnitsAssumption ==
  \A u \in Units :
    /\ "__cplusplus" \in DOMAIN u.predefined
    /\ \A d \in u.source : /\ d.kind = "include" => d.name \in Headers
                           /\ d.kind = "define" => d.name \notin Reserved
    /\ u.traits \subseteq Traits

VARIABLES
  unit,      \* the translation unit
  macros,    \* the macros defined, and what they expand to
  source,    \* directives of the unit not reached yet
  opened,    \* headers whose include guard is defined
  todo,      \* what is left of the headers being read, innermost first
  seen,      \* history: the macros each header read found defined
  failed,    \* an #error has been reached
  complete,  \* the unit has defined the type it asks traits about
  answers,   \* the traits instantiated, with their values
  early      \* history: a trait was instantiated before the type was complete

vars ==
  <<unit, macros, source, opened, todo, seen, failed, complete, answers, early>>

-----------------------------------------------------------------------------
(* Directives, as functions from macro table to macro table *)

Defined(t, m) == m \in DOMAIN t
Define(t, m, v) == [n \in DOMAIN t \union {m} |-> IF n = m THEN v ELSE t[n]]
Undefine(t, m) == [n \in DOMAIN t \ {m} |-> t[n]]
DefineIfMissing(t, m, v) == IF Defined(t, m) THEN t ELSE Define(t, m, v)
Flag(b) == IF b THEN 1 ELSE 0

\* The language mode the compiler reports.
Reported(t) == IF Defined(t, "_MSVC_LANG") THEN t["_MSVC_LANG"]
               ELSE t["__cplusplus"]
HasInclude(t, header) == Defined(t, "__has_include") /\ header \in unit.library

-----------------------------------------------------------------------------
(* config.hpp *)

LangVersion(t) == DefineIfMissing(t, "LANG_VERSION", Reported(t))

Cxx17Compat(t) == DefineIfMissing(t, "CXX17_COMPAT", 0)

\* The value a build predefines is kept.
KeepsPredefined(t) ==
  DefineIfMissing(t, "HAS_CONCEPTS",
         Flag(Defined(t, "__cpp_concepts") /\ t["__cpp_concepts"] >= 201907))

\* The value a build predefines is dropped.
HasConcepts(t) ==
  Define(t, "HAS_CONCEPTS",
         Flag(/\ t["CXX17_COMPAT"] = 0
              /\ Defined(t, "__cpp_concepts") /\ t["__cpp_concepts"] >= 201907))

HasSourceLocation(t) ==
  Define(t, "HAS_SOURCE_LOCATION",
         Flag(/\ t["CXX17_COMPAT"] = 0 /\ t["LANG_VERSION"] >= 202002
              /\ HasInclude(t, "source_location")))

ConfigHpp(t) ==
  HasSourceLocation(HasConcepts(Cxx17Compat(LangVersion(t))))

-----------------------------------------------------------------------------
(* backend.hpp *)

Switch == [CLANG |-> "BACKEND_CLANG", GCC |-> "BACKEND_GCC",
           MSVC |-> "BACKEND_MSVC", RUSTY_CPP |-> "BACKEND_RUSTY_CPP",
           CHERI |-> "BACKEND_CHERI"]
Selected(t) == {b \in Backends : Defined(t, Switch[b])}

\* Clang also defines __GNUC__, and clang-cl _MSC_VER.
DetectFamily(t) ==
  CASE Defined(t, "__clang__") -> Define(t, Switch["CLANG"], 1)
    [] ~Defined(t, "__clang__") /\ Defined(t, "__GNUC__") ->
         Define(t, Switch["GCC"], 1)
    [] Defined(t, "_MSC_VER")
         /\ {"__clang__", "__GNUC__"} \cap DOMAIN t = {} ->
         Define(t, Switch["MSVC"], 1)
    [] OTHER -> t

\* A vendor backend does not suppress the detection.
DetectBesideVendor(t) ==
  IF Selected(t) \subseteq {"RUSTY_CPP", "CHERI"} THEN DetectFamily(t) ELSE t
Autodetect(t) == IF Selected(t) = {} THEN DetectFamily(t) ELSE t

Active(t) == Define(t, "ACTIVE", Selected(t))
ActiveCount(t) == Cardinality(t["ACTIVE"])

\* An attribute under its feature probe, else nothing.
Probed(attribute) ==
  IF attribute \in unit.attributes THEN attribute ELSE NoAttribute
FirstProbed(spellings) ==
  LET known == {i \in DOMAIN spellings : spellings[i] \in unit.attributes}
  IN IF known = {} THEN NoAttribute
     ELSE spellings[CHOOSE i \in known : \A j \in known : i <= j]

ClangBackend(t) == Defined(t, Switch["CLANG"]) /\ Defined(t, "__clang__")
OnClang(t, spellings) == IF Defined(t, "__clang__") THEN spellings ELSE <<>>

Lifetimebound(t) ==
  LET emits(a) == IF ClangBackend(t) /\ Defined(t, "__has_cpp_attribute")
                  THEN Probed(a) ELSE NoAttribute
  IN Define(Define(t, "LIFETIMEBOUND", emits("clang::lifetimebound")),
            "CORO_LIFETIMEBOUND", emits("clang::coro_lifetimebound"))

\* BORROWS(x) expands where it is used.
Borrows(t) == {t["LIFETIMEBOUND"], t["CORO_LIFETIMEBOUND"]}

\* The three vendor branches of an annotation macro.
ByVendor(t, probe, clang, rusty, cheri) ==
  IF ~Defined(t, probe) THEN NoAttribute
  ELSE IF ClangBackend(t) THEN FirstProbed(clang)
  ELSE IF Defined(t, Switch["RUSTY_CPP"]) THEN FirstProbed(rusty)
  ELSE IF Defined(t, Switch["CHERI"]) THEN FirstProbed(cheri)
  ELSE NoAttribute

\* The fallback spelling is emitted without a probe of its own.
OwnedUnprobed(t) ==
  LET attribute ==
        ByVendor(t, "__has_cpp_attribute", <<"clang::owner", "gsl::Owner">>,
                 <<"rusty::owned">>,
                 <<"cheri::owner">> \o OnClang(t, <<"clang::annotate">>))
  IN Define(t, "OWNED", IF ClangBackend(t) /\ attribute = NoAttribute
                        THEN "gsl::Owner" ELSE attribute)
Owned(t) ==
  Define(t, "OWNED",
         ByVendor(t, "__has_cpp_attribute", <<"clang::owner", "gsl::Owner">>,
                  <<"rusty::owned">>,
                  <<"cheri::owner">> \o OnClang(t, <<"clang::annotate">>)))

Pointer(t) ==
  Define(t, "POINTER",
         ByVendor(t, "__has_cpp_attribute", <<"clang::pointer", "gsl::Pointer">>,
                  <<"rusty::borrowed">>,
                  <<"cheri::pointer">> \o OnClang(t, <<"clang::annotate">>)))

LockHeld(t) ==
  Define(t, "LOCK_HELD",
         ByVendor(t, "__has_attribute", <<"requires_capability">>,
                  <<"rusty_lock_held">>,
                  <<"cheri_requires_capability">>
                    \o OnClang(t, <<"requires_capability", "annotate">>)))

\* MEMSAFE_NODISCARD is [[nodiscard]] for every backend and is left out.
BackendHpp(t) ==
  LockHeld(Pointer(Owned(Lifetimebound(Active(Autodetect(t))))))

-----------------------------------------------------------------------------
(* violation.hpp *)

PolicyValues == [abort |-> 1, throw |-> 2, handler |-> 3]

OnViolation(t) == DefineIfMissing(t, "ON_VIOLATION", PolicyValues["abort"])
KnownPolicy(t) ==
  \E p \in DOMAIN PolicyValues : t["ON_VIOLATION"] = PolicyValues[p]
ReleaseChecks(t) == DefineIfMissing(t, "RELEASE_CHECKS", 1)

\* The header's own probe, over its own reading of the language version; a value
\* the build predefines is kept where the probe fails.
DetailHasSourceLocation(t) ==
  IF /\ t["CXX17_COMPAT"] = 0 /\ Reported(t) >= 202002
     /\ HasInclude(t, "source_location")
  THEN Define(t, "DETAIL_HAS_SOURCE_LOCATION", 1)
  ELSE DefineIfMissing(t, "DETAIL_HAS_SOURCE_LOCATION", 0)

\* VIOLATE names std::source_location or __FILE__, __LINE__ and __func__, as do
\* the overloads it calls.
Violate(t) ==
  Define(t, "VIOLATE", IF t["DETAIL_HAS_SOURCE_LOCATION"] # 0
                       THEN "source_location" ELSE "file_line_func")

ViolationHpp(t) ==
  Undefine(Violate(DetailHasSourceLocation(
             Cxx17Compat(ReleaseChecks(OnViolation(t))))),
           "DETAIL_HAS_SOURCE_LOCATION")

-----------------------------------------------------------------------------
(* Reading a unit *)

\* A vendor header that relies on the user to include violation.hpp.
IncludesNoViolation(h) ==
  CASE h = "handle" -> <<"backend", "config", "violation">>
    [] h = "owner" -> <<"config", "backend">>
    [] h = "scope" -> <<"config">>
    [] h = "sync" -> <<"config", "backend", "owner", "violation">>
    [] h = "memsafe" -> <<"config", "violation", "backend", "owner", "handle",
                          "scope", "sync">>
    [] OTHER -> <<>>

\* The memsafe headers a header includes, in order, before its own text.
Includes(h) ==
  CASE h = "handle" -> <<"backend", "config", "violation">>
    [] h = "owner" -> <<"config", "backend", "violation">>
    [] h = "scope" -> <<"config">>
    [] h = "sync" -> <<"config", "backend", "owner", "violation">>
    [] h = "memsafe" -> <<"config", "violation", "backend", "owner", "handle",
                          "scope", "sync">>
    [] OTHER -> <<>>

Text(h, t) ==
  CASE h = "config" -> ConfigHpp(t)
    [] h = "backend" -> BackendHpp(t)
    [] h = "violation" -> ViolationHpp(t)
    [] OTHER -> t

\* The two #error directives.
Rejects(h, t) ==
  \/ h = "backend" /\ ActiveCount(t) > 1
  \/ h = "violation" /\ ~KnownPolicy(t)

Entry(part, h) == [part |-> part, header |-> h]
AtDirective == todo = <<>> /\ ~failed

Init ==
  /\ unit \in Units
  /\ macros = unit.predefined
  /\ source = unit.source
  /\ opened = {} /\ todo = <<>> /\ failed = FALSE
  /\ seen = [h \in {} |-> unit.predefined]
  /\ complete = unit.type.complete
  /\ answers = [q \in {} |-> FALSE]
  /\ early = FALSE

\* #ifndef m / #define m v / #endif in the source.
UserDefine ==
  \E d \in source :
    /\ AtDirective /\ d.kind = "define"
    /\ source' = source \ {d}
    /\ macros' = DefineIfMissing(macros, d.name, d.value)
    /\ UNCHANGED <<unit, opened, todo, seen, failed, complete, answers, early>>

UserInclude ==
  \E d \in source :
    /\ AtDirective /\ d.kind = "include"
    /\ source' = source \ {d}
    /\ todo' = <<Entry("guard", d.name)>>
    /\ UNCHANGED <<unit, macros, opened, seen, failed, complete, answers, early>>

Reading(part) == ~failed /\ todo # <<>> /\ Head(todo).part = part

\* The include guard: a header opened before adds nothing.
IncludeGuard ==
  /\ Reading("guard")
  /\ LET h == Head(todo).header
         inner == [i \in 1 .. Len(Includes(h)) |-> Entry("guard", Includes(h)[i])]
     IN IF h \in opened
        THEN todo' = Tail(todo) /\ UNCHANGED opened
        ELSE /\ opened' = opened \union {h}
             /\ todo' = inner \o <<Entry("text", h)>> \o Tail(todo)
  /\ UNCHANGED <<unit, macros, source, seen, failed, complete, answers, early>>

HeaderText ==
  /\ Reading("text")
  /\ LET h == Head(todo).header IN
       /\ seen' = Define(seen, h, macros)
       /\ macros' = Text(h, macros)
       /\ failed' = Rejects(h, macros')
  /\ todo' = Tail(todo)
  /\ UNCHANGED <<unit, source, opened, complete, answers, early>>

-----------------------------------------------------------------------------
(* The payload traits of config.hpp.  A class template is instantiated once  *)
(* per unit: the first use of a trait fixes its value.                       *)

\* sizeof(T) is valid where the trait is instantiated.
Sizeof == complete /\ unit.type.sizeable

\* The unit defines the class it had declared.
CompleteType ==
  /\ AtDirective /\ unit.traits # {} /\ ~complete
  /\ complete' = TRUE
  /\ UNCHANGED <<unit, macros, source, opened, todo, seen, failed, answers, early>>

\* Instantiates the trait; values are those of every template it needs.
Instantiate(trait, values) ==
  /\ AtDirective /\ Defined(seen, "config")
  /\ trait \in unit.traits /\ ~Defined(answers, trait)
  /\ answers' = [q \in DOMAIN answers \union DOMAIN values |->
                  IF q \in DOMAIN answers THEN answers[q] ELSE values[q]]
  /\ early' = (early \/ ~complete)
  /\ UNCHANGED <<unit, macros, source, opened, todo, seen, failed, complete>>

IsComplete == Instantiate("is_complete", [is_complete |-> Sizeof])

SingleObject == unit.type.object /\ ~unit.type.array

IsCompleteObject ==
  LET sized == IF Defined(answers, "is_complete")
               THEN answers["is_complete"] ELSE Sizeof
  IN Instantiate("is_complete_object",
       [is_complete |-> sized, is_complete_object |-> sized /\ SingleObject])

IsConstructibleObject ==
  Instantiate("is_constructible_object",
    [is_constructible_object |->
       Sizeof /\ SingleObject /\ unit.type.constructible])

\* The destructor is not asked about.
IgnoresDestructor ==
  Instantiate("is_scope_constructible_object",
    [is_scope_constructible_object |->
       Sizeof /\ SingleObject /\ unit.type.constructible])
IsScopeConstructibleObject ==
  Instantiate("is_scope_constructible_object",
    [is_scope_constructible_object |->
       /\ Sizeof /\ SingleObject /\ unit.type.constructible
       /\ unit.type.nothrowDestructible])

-----------------------------------------------------------------------------
\* The whole source has been read, or an #error has stopped the compiler.
Finished ==
  /\ failed \/ (source = {} /\ todo = <<>>)
  /\ UNCHANGED vars

Next ==
  \/ UserDefine \/ UserInclude \/ IncludeGuard \/ HeaderText
  \/ CompleteType \/ IsComplete \/ IsCompleteObject
  \/ IsConstructibleObject \/ IsScopeConstructibleObject
  \/ Finished

Spec == Init /\ [][Next]_vars

-----------------------------------------------------------------------------
(* Properties *)

\* The configuration macros the code of each header is compiled under.
Reads(h) ==
  CASE h \in {"handle", "owner", "sync"} ->
         {"RELEASE_CHECKS", "ON_VIOLATION", "VIOLATE", "CXX17_COMPAT",
          "LIFETIMEBOUND", "CORO_LIFETIMEBOUND"}
    [] h = "scope" -> {"CXX17_COMPAT"}
    [] OTHER -> {}

\* Whatever the order of the includes and of the definitions between them, no
\* header is compiled with a switch undefined (an undefined RELEASE_CHECKS
\* would silently remove the checks), and all headers of a unit are compiled
\* with the same switches (the include directives at handle.hpp:66,
\* owner.hpp:51, scope.hpp:42, sync.hpp:82 and memsafe.hpp:43).
HeadersAgree ==
  \A h, k \in DOMAIN seen : \A m \in Reads(h) \cap Reads(k) :
    /\ Defined(seen[h], m) /\ Defined(seen[k], m)
    /\ seen[h][m] = seen[k][m]

Done(h) == Defined(seen, h) /\ ~failed

\* The build has defined violation.hpp's internal selector itself.
ProbeOverridden ==
  /\ Defined(seen["violation"], "DETAIL_HAS_SOURCE_LOCATION")
  /\ seen["violation"]["DETAIL_HAS_SOURCE_LOCATION"] # 0

\* In config.hpp compatibility mode wins over compiler support and over
\* predefined selectors.  In violation.hpp, whose independent probe keeps a
\* predefined MEMSAFE_DETAIL_HAS_SOURCE_LOCATION, it wins over compiler support
\* but not over that macro, against violation.hpp:152-153, 929 and 1283; and the
\* two probes agree, unless the build overrides that macro, or the language
\* version, which only config.hpp reads (config.hpp:22-29, 201-208,
\* violation.hpp:174-191).
SelectorsAuthoritative ==
  /\ Done("config") /\ macros["CXX17_COMPAT"] # 0 =>
       macros["HAS_CONCEPTS"] = 0 /\ macros["HAS_SOURCE_LOCATION"] = 0
  /\ Done("violation") /\ ~ProbeOverridden /\ macros["CXX17_COMPAT"] # 0 =>
       macros["VIOLATE"] = "file_line_func"
  /\ Done("violation") /\ ProbeOverridden =>
       macros["VIOLATE"] = "source_location"
  /\ Done("config") /\ Done("violation") /\ ~ProbeOverridden
       /\ ~Defined(seen["config"], "LANG_VERSION") =>
         (macros["HAS_SOURCE_LOCATION"] = 1
            <=> macros["VIOLATE"] = "source_location")

\* A backend the user has selected before the header is read is the only
\* active one; without a selection a known compiler gets exactly its own, and
\* an unknown one none; and the unit is rejected exactly when two are selected,
\* or for its policy by violation.hpp, however late other switches are defined
\* (backend.hpp:28-34, 366-369, 380-382; violation.hpp:162-166).
BackendAuthoritative ==
  Defined(seen, "backend") =>
    LET chosen == Selected(seen["backend"])
        tool == DOMAIN seen["backend"]
    IN /\ chosen # {} => macros["ACTIVE"] = chosen
       /\ chosen = {} => macros["ACTIVE"] =
            CASE "__clang__" \in tool -> {"CLANG"}
              [] "__clang__" \notin tool /\ "__GNUC__" \in tool -> {"GCC"}
              [] {"__clang__", "__GNUC__"} \cap tool = {} /\ "_MSC_VER" \in tool ->
                   {"MSVC"}
              [] OTHER -> {}
       /\ failed <=> \/ Cardinality(macros["ACTIVE"]) > 1
                     \/ Defined(seen, "violation") /\ ~KnownPolicy(macros)

ClangSpellings ==
  {"clang::lifetimebound", "clang::coro_lifetimebound", "clang::owner",
   "gsl::Owner", "clang::pointer", "gsl::Pointer", "requires_capability"}
CheriFallbacks == {"clang::annotate", "requires_capability", "annotate"}
SpellingsOf(b) ==
  CASE b = "CLANG" -> ClangSpellings
    [] b = "RUSTY_CPP" -> {"rusty::owned", "rusty::borrowed", "rusty_lock_held"}
    [] b = "CHERI" -> {"cheri::owner", "cheri::pointer",
                       "cheri_requires_capability"} \union CheriFallbacks
    [] OTHER -> {}

\* No annotation macro emits an attribute that the compiler has not been asked
\* about and supports, that belongs to a backend not selected, or that is a
\* Clang spelling on another compiler (backend.hpp:50-54, 414-419).
AnnotationsSupported ==
  Done("backend") =>
    \A a \in Borrows(macros) \union
             {macros["OWNED"], macros["POINTER"], macros["LOCK_HELD"]} :
      a # NoAttribute =>
        /\ a \in unit.attributes
        /\ \E b \in macros["ACTIVE"] : a \in SpellingsOf(b)
        /\ a \in ClangSpellings \union CheriFallbacks =>
             Defined(macros, "__clang__")

\* The documented meaning of the traits.
Accepted(trait) ==
  /\ complete /\ unit.type.sizeable
  /\ trait # "is_complete" => unit.type.object /\ ~unit.type.array
  /\ trait \in {"is_constructible_object", "is_scope_constructible_object"} =>
       unit.type.constructible
  /\ trait = "is_scope_constructible_object" => unit.type.nothrowDestructible

\* A payload type is accepted only if it deserves it, at whatever moments its
\* traits were instantiated; the answers are exact when the type was complete
\* at the first of them, while one given too early stays false
\* (config.hpp:374-380, 422-427, 484-489).
TraitAnswersSound ==
  \A q \in DOMAIN answers :
    (answers[q] => Accepted(q)) /\ (~early => answers[q] = Accepted(q))

=============================================================================
