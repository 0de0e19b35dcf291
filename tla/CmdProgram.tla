----------------------------- MODULE CmdProgram -----------------------------
(***************************************************************************)
(* Besht programs that build, run and read commands, as the parser hands   *)
(* them to the command analysis: a sequence of statements, some of them in *)
(* the body of an if, a loop or a callback.  Besides the shape of programs *)
(* this module says which command object each statement is about.          *)
(***************************************************************************)
EXTENDS Naturals, Sequences, FiniteSetsExt

CONSTANTS
  Variable,       \* names of variables
  NoVar,          \* no name
  MaxStatements   \* bound on the length of a program

ASSUME VariableAssumption == NoVar \notin Variable /\ MaxStatements \in Nat

(***************************************************************************)
(*   literal   let x = $(..)          run       y.run()                    *)
(*   clone     let x = y.clone()      runClone  y.clone().run()            *)
(*   chain     let x = y.workdir(..)  stdout    console.log(y.readStdout())*)
(*   fetch     let x = $(..).run().readStdout()                            *)
(*   take      let x = y.run().readStdout()                                *)
(*   stderr    console.log(y.readStderr())                                 *)
(*   status    console.log(y.exitCode())                                   *)
(*   print     console.log(y)                                              *)
(*   for       for (l in $(..).readStdoutLines())                          *)
(*   forRun    for (l in $(..).run().readStdoutLines())                    *)
(***************************************************************************)
Binders == {"literal", "clone", "chain", "fetch", "take"}
Reads   == {"stdout", "stderr", "status"}
Using   == {"clone", "chain", "take", "run", "runClone", "print"} \cup Reads
Rooted  == {"literal", "fetch", "for", "forRun"}   \* statements that hold a $() of their own
Op      == Binders \cup Using \cup Rooted

Statement ==
  {s \in [op : Op, x : Variable \cup {NoVar}, y : Variable \cup {NoVar}, block : BOOLEAN] :
     /\ (s.x # NoVar) <=> (s.op \in Binders)
     /\ (s.y # NoVar) <=> (s.op \in Using)}

\* Statements k to n of p are in one block.
SameBlock(p, k, n) == \A j \in k..n : p[j].block

BlockStart(p, n) == Min({k \in 1..n : SameBlock(p, k, n)})
BlockEnd(p, n)   == Max({k \in n..Len(p) : SameBlock(p, n, k)})

\* The declaration that name v denotes in statement n: the innermost, latest one.
Declarations(p, v, n) ==
  {k \in 1..(n - 1) : p[k].op \in Binders /\ p[k].x = v /\ (p[k].block => SameBlock(p, k, n))}

DeclOf(p, v, n) ==
  LET all == Declarations(p, v, n)
      inner == {k \in all : p[k].block}
  IN IF inner # {} THEN Max(inner) ELSE IF all # {} THEN Max(all) ELSE 0

\* A program the validator lets through: names are declared, command methods
\* are called on commands and strings are printed.
Extends(p, s) ==
  LET q == Append(p, s)
      d == DeclOf(q, s.y, Len(q))
  IN s.op \in Using => /\ d # 0
                       /\ (s.op = "print") <=> (q[d].op \in {"fetch", "take"})

\* The command object a statement is about, named by the statement that makes it.
Object(p) ==
  LET obj[n \in 0..Len(p)] ==
        IF n = 0 THEN 0
        ELSE IF p[n].op \in Rooted \cup {"clone", "runClone"} THEN n
        ELSE obj[DeclOf(p, p[n].y, n)]
  IN obj

RunOps == {"run", "runClone", "take", "fetch", "for", "forRun"}

\* Two places of the program that run the same object.
RunsTwice(p) ==
  LET obj == Object(p)
  IN \E i, j \in 1..Len(p) : i < j /\ {p[i].op, p[j].op} \subseteq RunOps /\ obj[i] = obj[j]

\* Commands that no statement runs or clones.
Idle(p) ==
  LET obj == Object(p)
  IN {n \in 1..Len(p) :
        /\ p[n].op \in {"literal", "clone"}
        /\ \A k \in 1..Len(p) : obj[k] = n => p[k].op \notin RunOps
        /\ \A k \in 1..Len(p) :
             p[k].op \in {"clone", "runClone"} => obj[DeclOf(p, p[k].y, k)] # n}

(***************************************************************************)
(* The way of using commands that the README and the tests show.           *)
(***************************************************************************)
NamesOnce(p) == \A i, j \in 1..Len(p) : p[i].x = p[j].x => i = j \/ p[i].x = NoVar

\* A read follows a run of the command in the text.
ReadsFollowRuns(p) ==
  LET obj == Object(p)
  IN \A n \in 1..Len(p) : p[n].op \in Reads =>
       \E k \in 1..(n - 1) : p[k].op \in {"run", "take"} /\ obj[k] = obj[n]

\* A command is read for its output or for its errors, not for both.
OneStream(p) ==
  LET obj == Object(p)
  IN \A i, j \in 1..Len(p) : p[i].op \in {"stdout", "take"} /\ p[j].op = "stderr" => obj[i] # obj[j]

\* Chains extend a literal command, outside of blocks.
ChainsAtTop(p) ==
  \A n \in 1..Len(p) : p[n].op = "chain" => ~p[n].block /\ p[Object(p)[n]].op = "literal"

Documented(p) ==
  /\ NamesOnce(p) /\ ReadsFollowRuns(p) /\ OneStream(p) /\ ChainsAtTop(p)
  /\ \A n \in 1..Len(p) : p[n].op \notin {"runClone", "forRun"}

=============================================================================
