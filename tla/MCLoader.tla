------------------------------ MODULE MCLoader ------------------------------
(***************************************************************************)
(* Small source trees for the loader: an entry, two modules, an automatic  *)
(* declaration file and a raw shell file.                                  *)
(***************************************************************************)
EXTENDS Loader, TLC

CONSTANTS main, a, b, std, sh, f, pMain, pA, pB, pStd, pSh

MCPath == {main, a, b, std, sh}
MCPrefixOf == (main :> pMain) @@ (a :> pA) @@ (b :> pB) @@ (std :> pStd) @@ (sh :> pSh)

Besht == {main, a, b, std}

\* Import lists of at most n distinct targets.
ListsOf(targets, n) ==
  UNION {{s \in [1..k -> targets] : \A i, j \in 1..k : i # j => s[i] # s[j]} : k \in 0..n}

BeshtImport(p, ns) == [kind |-> "besht", path |-> p, names |-> ns]
ShellImport(p, ns) == [kind |-> "shell", path |-> p, names |-> ns]
Malformed(p) == [kind |-> "malformed", path |-> p, names |-> {}]

Nothing == [p \in Path |-> {}]
AllCode == [p \in Path |-> "code"]

GraphTree(imports, content) ==
  [content |-> content, imports |-> imports,
   defs |-> Nothing, exports |-> Nothing, declares |-> Nothing, calls |-> Nothing]

\* Every import graph over the Besht files, lists of up to two imports.
GraphTrees ==
  LET lists == ListsOf({BeshtImport(p, {}) : p \in {main, a, b}}, 2)
  IN {GraphTree((main :> l1) @@ (a :> l2) @@ (b :> l3) @@ (std :> l4) @@ (sh :> << >>), AllCode) :
        l1, l2, l3 \in lists, l4 \in {<< >>, <<BeshtImport(a, {})>>}}

\* One file at fault, or no stdlib.d.bsh, and up to one import per file.
FaultTrees ==
  LET lists == ListsOf({BeshtImport(p, {}) : p \in {a, b, std}}, 1)
      faults == {"outside", "missing", "directory", "unparsable", "invalid", "empty"}
  IN {GraphTree((main :> l1) @@ (a :> l2) @@ (b :> l3) @@ (std :> << >>) @@ (sh :> << >>),
                [AllCode EXCEPT ![pc[1]] = pc[2]]) :
        l1, l2, l3 \in lists, pc \in {a, b, std} \X faults \ {<<std, "outside">>}}

\* Shell imports that exist, are missing, no file or outside, and one rejected
\* by its form.
ShellTrees ==
  LET lists == ListsOf({BeshtImport(a, {}), ShellImport(sh, {f}), Malformed(sh)}, 2)
  IN {[GraphTree((main :> l1) @@ (a :> l2) @@ (b :> << >>) @@ (std :> << >>) @@ (sh :> << >>),
                 [AllCode EXCEPT ![sh] = c]) EXCEPT !.calls[a] = u] :
        l1, l2 \in lists, c \in {"code", "missing", "directory", "outside"}, u \in {{}, {f}}}

\* Who defines, exports, declares and calls the one name f.
Roles == {"none", "defines", "exports", "declares", "calls"}
NameTrees ==
  LET lists == ListsOf({BeshtImport(p, {f}) : p \in {main, a, b, std}}, 1)
      role(r, k) == [p \in Path |-> IF r[p] = k THEN {f} ELSE {}]
  IN {[content |-> AllCode,
       imports |-> (main :> l1) @@ (a :> l2) @@ (b :> l3) @@ (std :> << >>) @@ (sh :> << >>),
       defs |-> [p \in Path |-> IF r[p] \in {"defines", "exports"} THEN {f} ELSE {}],
       exports |-> role(r, "exports"), declares |-> role(r, "declares"), calls |-> role(r, "calls")] :
        l1 \in ListsOf({BeshtImport(p, {f}) : p \in {a, b, std}}, 2), l2, l3 \in lists,
        r \in {x \in [Path -> Roles] : x[sh] = "none" /\ x[main] \in {"calls", "exports"}
                                       /\ x[std] \in {"none", "declares"}}}

MCTrees == GraphTrees \cup FaultTrees \cup ShellTrees \cup NameTrees

=============================================================================
