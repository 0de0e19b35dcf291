----------------------------- MODULE MCProgram ------------------------------
(***************************************************************************)
(* Small programs, compiled and run both ways: an entry, two modules, an   *)
(* automatic declaration file and a raw shell file that defines f.         *)
(***************************************************************************)
EXTENDS Program

CONSTANTS main, a, b, std, sh, f, pMain, pA, pB, pStd, pSh, oMain, oA, oB, oStd, oSh, oBundle

MCPath == {main, a, b, std, sh}
MCPrefixOf == (main :> pMain) @@ (a :> pA) @@ (b :> pB) @@ (std :> pStd) @@ (sh :> pSh)
MCOutOf == (main :> oMain) @@ (a :> oA) @@ (b :> oB) @@ (std :> oStd) @@ (sh :> oSh)

ListsOf(targets, n) ==
  UNION {{s \in [1..k -> targets] : \A i, j \in 1..k : i # j => s[i] # s[j]} : k \in 0..n}

BeshtImport(p) == [kind |-> "besht", path |-> p, names |-> {f}]
ShellImport(p) == [kind |-> "shell", path |-> p, names |-> {f}]

Having(S) == [p \in Path |-> IF p \in S THEN {f} ELSE {}]
Imports(l1, l2, l3) == (main :> l1) @@ (a :> l2) @@ (b :> l3) @@ [p \in Path |-> << >>]

\* Import graphs over the entry, two modules, one of them perhaps empty, and
\* the shell file; nobody calls anything.
GraphTrees(targets) ==
  LET lists == ListsOf(targets, 2)
  IN {[content |-> [p \in Path |-> IF p = std THEN "missing" ELSE IF p = a THEN c ELSE "code"],
       imports |-> Imports(l1, l2, l3),
       defs |-> Having({sh}), exports |-> Having({}), declares |-> Having({}), calls |-> Having({})] :
        l1, l2 \in lists, l3 \in ListsOf(targets, 1), c \in {"code", "empty"}}

\* Who defines, exports and declares f, and who imports it from where; the
\* entry calls it, and so does every module that imports it.
Roles == {"none", "defines", "exports", "declares"}
NameTrees ==
  {[content |-> [p \in Path |-> "code"],
    imports |-> Imports(l1, l2, l3),
    defs |-> Having({p \in Path : p = sh \/ r[p] \in {"defines", "exports"}}),
    exports |-> Having({p \in Path : r[p] = "exports"}),
    declares |-> Having({p \in Path : r[p] = "declares"}),
    calls |-> Having({main} \cup {p \in {a, b} : Imports(l1, l2, l3)[p] # << >>})] :
     l1 \in ListsOf({BeshtImport(a), BeshtImport(b), ShellImport(sh)}, 2),
     l2 \in ListsOf({BeshtImport(b), ShellImport(sh)}, 1),
     l3 \in ListsOf({BeshtImport(a)}, 1),
     r \in {x \in [Path -> Roles] : x[sh] = "none" /\ x[std] \in {"none", "declares"}
                                    /\ x[main] \in {"none", "defines"}}}

\* Bundled, a module may import the entry back; split, it may not: the entry
\* script has no guard.
BundleTrees == GraphTrees({BeshtImport(p) : p \in {main, a, b}})
SplitTrees == GraphTrees({BeshtImport(a), BeshtImport(b), ShellImport(sh)})

MCTrees == BundleTrees \cup SplitTrees \cup NameTrees
MCJobs == BundleTrees \X {"bundle"} \X {FALSE}
          \cup SplitTrees \X {"split"} \X {FALSE}
          \cup NameTrees \X {"bundle", "split"} \X {FALSE}

=============================================================================
