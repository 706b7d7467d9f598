----------------------------- MODULE MCProgram -----------------------------
(***************************************************************************)
(* The translation units of the run, in five families: selectors, backends, *)
(* include orders, traits, and the units whose program also runs.           *)
(***************************************************************************)
EXTENDS Program, TLC

ProgramSymmetry ==
  Permutations(Threads) \union Permutations(Handlers) \union Permutations(Hooks)

-----------------------------------------------------------------------------
Probes == [q \in {"__has_include", "__has_cpp_attribute"} |-> 1]
Gnu == Probes @@ ("__GNUC__" :> 1) @@ ("__has_attribute" :> 1)
Clang == Gnu @@ ("__clang__" :> 1)
Msvc(lang) == Probes @@ ("_MSC_VER" :> 1) @@ ("_MSVC_LANG" :> lang)
              @@ ("__cplusplus" :> 199711)
Std(lang) == ("__cplusplus" :> lang)
Concepts == ("__cpp_concepts" :> 201907)

\* Clang, GCC and MSVC in both language modes, clang-cl, an older GCC with
\* an early concepts draft, and a compiler without any probe.
Toolchains ==
  {Clang @@ Std(201703), Clang @@ Std(202002) @@ Concepts,
   Gnu @@ Std(201703), Gnu @@ Std(202002) @@ Concepts,
   Gnu @@ Std(202002) @@ ("__cpp_concepts" :> 201507),
   Msvc(201703), Msvc(202002) @@ Concepts,
   Msvc(202002) @@ ("__clang__" :> 1) @@ Concepts,
   Std(202002)}
Reference == Gnu @@ Std(202002) @@ Concepts

Attributes == ClangSpellings \union SpellingsOf("CHERI") \union SpellingsOf("RUSTY_CPP")
FullLibrary == {"source_location"}

Object == [object |-> TRUE, array |-> FALSE, sizeable |-> TRUE, complete |-> TRUE,
           constructible |-> TRUE, nothrowDestructible |-> TRUE]
NoDefinitions == [m \in {} |-> 0]
Defs(m, values) == {NoDefinitions} \union {m :> v : v \in values}
Include(h) == [kind |-> "include", name |-> h, value |-> 0]
Definition(m, v) == [kind |-> "define", name |-> m, value |-> v]

\* A unit of one family; what the command line defines goes first.
Unit(tool, definitions, src) ==
  [predefined |-> definitions @@ tool, library |-> FullLibrary,
   attributes |-> Attributes, source |-> src, type |-> Object, traits |-> {},
   runs |-> FALSE]

Selectors ==
  {[Unit(tool, c @@ k @@ l @@ v, {Include("config"), Include("violation")})
      EXCEPT !.library = lib] :
     tool \in Toolchains, lib \in {{}, FullLibrary},
     c \in Defs("CXX17_COMPAT", {0, 1}), k \in Defs("HAS_CONCEPTS", {1}),
     l \in Defs("HAS_SOURCE_LOCATION", {1}),
     v \in Defs("LANG_VERSION", {201703, 202002})}
    \union
  {Unit(tool, c @@ d, {Include("config"), Include("violation")}) :
     tool \in Toolchains, c \in Defs("CXX17_COMPAT", {0, 1}),
     d \in Defs("DETAIL_HAS_SOURCE_LOCATION", {0, 1})}

AttributeSets ==
  {{}, Attributes} \union {{a} : a \in Attributes}
    \union {Attributes \ {a} : a \in Attributes}
Selections == {{}} \union {{b, c} : b, c \in Backends}
BackendUnits ==
  {[Unit(tool, [m \in {Switch[b] : b \in sel} |-> 1], {Include("backend")})
      EXCEPT !.attributes = attrs] :
     tool \in Toolchains, sel \in Selections, attrs \in AttributeSets}

Orders ==
  {Unit(Reference, p @@ r,
        {Include(h) : h \in {"handle", "owner", "scope", "sync", "memsafe"}}
          \union {Definition("RELEASE_CHECKS", 0), Definition("CXX17_COMPAT", 1),
                  Definition(Switch["CHERI"], 1), Definition("ON_VIOLATION", 7)}) :
     p \in Defs("ON_VIOLATION", {2}), r \in Defs("RELEASE_CHECKS", {1})}

Types ==
  {Object,
   [Object EXCEPT !.array = TRUE],                              \* int[2]
   [Object EXCEPT !.array = TRUE, !.sizeable = FALSE],          \* int[]
   [Object EXCEPT !.object = FALSE],                            \* int&
   [Object EXCEPT !.object = FALSE, !.sizeable = FALSE],        \* void
   [Object EXCEPT !.constructible = FALSE],
   [Object EXCEPT !.complete = FALSE],                          \* class T;
   [Object EXCEPT !.complete = FALSE, !.constructible = FALSE],
   [Object EXCEPT !.complete = FALSE, !.nothrowDestructible = FALSE]}
TraitUnits ==
  {[Unit(Reference, NoDefinitions, {Include("config")})
      EXCEPT !.type = type, !.traits = Traits] : type \in Types}

Running ==
  {[Unit(Reference, p, {Include("memsafe")}) EXCEPT !.runs = TRUE] :
     p \in Defs("ON_VIOLATION", {2, 3})}

AllUnits == Selectors \union BackendUnits \union Orders \union TraitUnits \union Running
=============================================================================
