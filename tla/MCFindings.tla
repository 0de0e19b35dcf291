----------------------------- MODULE MCFindings -----------------------------
(***************************************************************************)
(* Programs of an entry and two modules in which the generated scripts do  *)
(* not do what the documentation and the validator say.                    *)
(***************************************************************************)
EXTENDS Program

CONSTANTS main, a, b, std, f, pMain, pA, pB, pStd, oMain, oA, oB, oStd, oBundle

MCPath == {main, a, b, std}
MCOutOf == (main :> oMain) @@ (a :> oA) @@ (b :> oB) @@ (std :> oStd)

\* The prefixes of a.bsh and b.bsh, and those of x-y.bsh and x_y.bsh.
DistinctPrefixes == (main :> pMain) @@ (a :> pA) @@ (b :> pB) @@ (std :> pStd)
SharedPrefix == [DistinctPrefixes EXCEPT ![b] = pA]

Import1(p, ns) == [kind |-> "besht", path |-> p, names |-> ns]
Having(S) == [p \in Path |-> IF p \in S THEN {f} ELSE {}]

TreeOf(imports, exporting, calling) ==
  [content |-> [p \in Path |-> IF p = std THEN "missing" ELSE "code"],
   imports |-> imports @@ [p \in Path |-> << >>],
   defs |-> Having(exporting), exports |-> Having(exporting),
   declares |-> Having({}), calls |-> Having(calling)]

\* a.bsh imports the entry that imports it.
EntryCycle == TreeOf((main :> <<Import1(a, {})>>) @@ (a :> <<Import1(main, {})>>), {}, {})

\* The entry imports two modules.
TwoModules == TreeOf((main :> <<Import1(a, {}), Import1(b, {})>>), {}, {})

\* a.bsh exports f; b.bsh calls f and imports nothing.
CallWithoutImport == TreeOf((main :> <<Import1(a, {}), Import1(b, {})>>), {a}, {b})

MCTrees == {EntryCycle, TwoModules, CallWithoutImport}
EntryCycleJobs == {<<EntryCycle, "split", FALSE>>}
TwoModulesJobs == {<<TwoModules, "split", FALSE>>}
CallWithoutImportJobs == {<<CallWithoutImport, m, FALSE>> : m \in {"bundle", "split"}}

=============================================================================
