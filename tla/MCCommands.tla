----------------------------- MODULE MCCommands -----------------------------
(***************************************************************************)
(* All programs of a few statements, over a few names.                     *)
(***************************************************************************)
EXTENDS Commands, TLC

CONSTANTS a, b, c

Names == {a, b, c}

\* Names are interchangeable.
NameSymmetry == Permutations(Names)

\* Programs that use commands as documented, and those that may besides read
\* both streams of one run.
DocumentedPrograms == pass = "write" => Documented(prog)

ReadsBothStreams(p) ==
  /\ NamesOnce(p) /\ ReadsFollowRuns(p) /\ ChainsAtTop(p)
  /\ \A n \in 1..Len(p) : p[n].op \notin {"runClone", "forRun"}
BothStreamPrograms == pass = "write" => ReadsBothStreams(prog)

\* The message of the analysis: "command already run on line %d"
\* (cmdanalysis.go:590).  The README loops over $(..).run().readStdoutLines().
RejectsOnlyReruns == pass = "rejected" => RunsTwice(prog)

\* The comment on CaptureVarName: the variable is for "capturing this command's
\* stdout", so readStdout gives what the command wrote to its output.
StdoutIsStdout == ReadsBothStreams(prog) => did.shown = meant.shown

=============================================================================
