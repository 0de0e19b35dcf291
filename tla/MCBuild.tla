------------------------------ MODULE MCBuild -------------------------------
(***************************************************************************)
(* Compilations of small programs: an entry, the modules a.bsh and a.ts,   *)
(* which share the output a.sh, a raw shell file a.sh of that very name,   *)
(* another raw shell file, and a stdlib.d.bsh that may exist.              *)
(***************************************************************************)
EXTENDS Build

CONSTANTS main, a, ats, std, ash, sh, f, pMain, pA, pStd, pSh, oMain, oA, oStd, oSh, oBundle

MCPath == {main, a, ats, std, ash, sh}
MCPrefixOf == (main :> pMain) @@ (a :> pA) @@ (ats :> pA) @@ (std :> pStd) @@ (ash :> pA) @@ (sh :> pSh)
MCOutOf == (main :> oMain) @@ (a :> oA) @@ (ats :> oA) @@ (std :> oStd) @@ (ash :> oA) @@ (sh :> oSh)

ListsOf(targets, n) ==
  UNION {{s \in [1..k -> targets] : \A i, j \in 1..k : i # j => s[i] # s[j]} : k \in 0..n}

BeshtImport(p) == [kind |-> "besht", path |-> p, names |-> {}]
ShellImport(p) == [kind |-> "shell", path |-> p, names |-> {f}]

Nothing == [p \in Path |-> {}]

\* Up to two imports in the entry and in a.bsh, one in a.ts, and what the
\* files are like.
MCTrees ==
  LET mainLists == ListsOf({BeshtImport(a), BeshtImport(ats), ShellImport(sh), ShellImport(ash)}, 2)
      aLists == ListsOf({BeshtImport(main), ShellImport(sh)}, 1)
      contents == {(main :> c1) @@ (a :> c2) @@ (ats :> c3) @@ (sh :> c4)
                   @@ (std :> "missing") @@ (ash :> "code") :
                    c1 \in {"code", "badcheck", "badgen"}, c2 \in {"code", "badcmd", "empty"},
                    c3 \in {"code", "badgen", "unparsable"}, c4 \in {"code", "outside"}}
  IN {[content |-> c, imports |-> (main :> l1) @@ (a :> l2) @@ [p \in Path |-> << >>],
       defs |-> Nothing, exports |-> Nothing, declares |-> Nothing, calls |-> Nothing] :
        l1 \in mainLists, l2 \in aLists, c \in contents}

MCJobs == MCTrees \X Modes \X BOOLEAN

=============================================================================
