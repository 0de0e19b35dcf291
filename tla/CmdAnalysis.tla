---------------------------- MODULE CmdAnalysis -----------------------------
(***************************************************************************)
(* AnalyzeProgram (internal/codegen/cmdanalysis.go): a first walk over the *)
(* program gives every $() an identity, a second one follows the variables *)
(* that hold it, records what is read from it and finds a second run, and  *)
(* warnings are made of what is left.                                      *)
(***************************************************************************)
EXTENDS CmdProgram

VARIABLES
  prog,     \* the program
  pass,     \* how far its compilation and its execution are
  pc,       \* the statement the pass is at
  scope,    \* cmdScope: the program's variables, and those of the block being walked
  ids,      \* Identities
  rooted,   \* nodeToID: identity of the $() in a statement
  cloned,   \* exprToID: identity of the clone() that a let binds
  rerun,    \* Errors: some command is run a second time
  warned    \* Warnings: the identities declared and never run

analysisVars == <<prog, pass, pc, scope, ids, rooted, cloned, rerun, warned>>

NoId == 0   \* identities count from 1 here, from 0 in the code, where -1 is none
Index == 0..MaxStatements
Id == Nat

Identity ==
  [root : Index, name : Variable \cup {NoVar}, hasRun : BOOLEAN, text : BOOLEAN,
   stderr : BOOLEAN, status : BOOLEAN, usedByClone : BOOLEAN]

NewIdentity(root, name, hasRun) ==
  [root |-> root, name |-> name, hasRun |-> hasRun, text |-> FALSE,
   stderr |-> FALSE, status |-> FALSE, usedByClone |-> FALSE]

Unbound == [v \in Variable |-> NoId]
NoScope == [outer |-> Unbound, inner |-> Unbound]

Lookup(v) == IF scope.inner[v] # NoId THEN scope.inner[v] ELSE scope.outer[v]

Define(sc, s, id) ==
  IF id = NoId THEN sc
  ELSE IF s.block THEN [sc EXCEPT !.inner[s.x] = id]
  ELSE [sc EXCEPT !.outer[s.x] = id]

\* The scope of a block is dropped where the block ends; the program's stays,
\* and the second walk starts with what the first one left in it.
Leave(sc) ==
  IF pc < Len(prog) /\ prog[pc].block /\ prog[pc + 1].block
  THEN sc ELSE [sc EXCEPT !.inner = Unbound]

Advance(from, to) ==
  IF pc < Len(prog) THEN pc' = pc + 1 /\ pass' = from ELSE pc' = 1 /\ pass' = to

-----------------------------------------------------------------------------
AnalysisInit ==
  /\ prog = << >> /\ pass = "write" /\ pc = 1
  /\ scope = NoScope /\ ids = << >>
  /\ rooted = [n \in Index |-> NoId] /\ cloned = [n \in Index |-> NoId]
  /\ rerun = FALSE /\ warned = {}

\* The program is chosen one statement at a time.
Write ==
  /\ pass = "write" /\ Len(prog) < MaxStatements
  /\ \E s \in Statement : Extends(prog, s) /\ prog' = Append(prog, s)
  /\ UNCHANGED <<pass, pc, scope, ids, rooted, cloned, rerun, warned>>

Compile ==
  /\ pass = "write" /\ prog # << >>
  /\ pass' = "allocate"
  /\ UNCHANGED <<prog, pc, scope, ids, rooted, cloned, rerun, warned>>

\* phase1Stmt: a $() gets an identity, named after the variable it is bound to
\* and already run if a for loop iterates over it; a variable denotes the
\* identity of the command its value is rooted in.
Allocate ==
  /\ pass = "allocate"
  /\ LET s == prog[pc]
         new == Len(ids) + 1
         id == IF s.op \in Rooted THEN new
               ELSE IF s.op \in {"clone", "chain", "take"} THEN Lookup(s.y) ELSE NoId
     IN /\ IF s.op \in Rooted
           THEN /\ ids' = Append(ids, NewIdentity(pc, s.x, s.op \in {"for", "forRun"}))
                /\ rooted' = [rooted EXCEPT ![pc] = new]
           ELSE UNCHANGED <<ids, rooted>>
        /\ scope' = Leave(IF s.op \in Binders THEN Define(scope, s, id) ELSE scope)
  /\ Advance("allocate", "scan")
  /\ UNCHANGED <<prog, cloned, rerun, warned>>

\* Mutant of Clones: a clone is another name of the command it is made of.
ClonesAlias(s) == FALSE

\* extractIdentityFromExpr: what a let binds in the second walk.  A clone gets an
\* identity of its own; a chain on a variable and a read bind nothing.
Clones(s) == s.op = "clone" /\ Lookup(s.y) # NoId

Extracted(s) ==
  IF s.op = "literal" THEN rooted[pc] ELSE IF Clones(s) THEN Len(ids) + 1 ELSE NoId

\* Mutant of WithClone: the identity of a clone is bound and not recorded.
UnrecordedClone(s) ==
  IF Clones(s) THEN [ids EXCEPT ![Lookup(s.y)].usedByClone = TRUE] ELSE ids

WithClone(s) ==
  IF Clones(s)
  THEN Append([ids EXCEPT ![Lookup(s.y)].usedByClone = TRUE],
              NewIdentity(ids[Lookup(s.y)].root, NoVar, FALSE))
  ELSE ids

\* The identity whose methods a statement calls.
Receiver(s) ==
  IF s.op \in Rooted THEN rooted[pc]
  ELSE IF s.op \in {"run", "runClone", "take"} \cup Reads THEN Lookup(s.y) ELSE NoId

CallsRun(s) == s.op \in {"run", "runClone", "take", "fetch", "forRun"}

Marked(s, ident) ==
  [ident EXCEPT !.hasRun = @ \/ CallsRun(s),
                !.text = @ \/ s.op \in {"stdout", "take", "fetch", "for", "forRun"},
                !.stderr = @ \/ s.op = "stderr",
                !.status = @ \/ s.op = "status"]

\* phase2Stmt: the variable is bound anew, then the methods called are recorded.
Scan ==
  /\ pass = "scan"
  /\ LET s == prog[pc]
         id == Receiver(s)
     IN /\ scope' = Leave(Define(scope, s, Extracted(s)))
        /\ cloned' = IF Clones(s) THEN [cloned EXCEPT ![pc] = Extracted(s)] ELSE cloned
        /\ ids' = IF id = NoId THEN WithClone(s)
                  ELSE [WithClone(s) EXCEPT ![id] = Marked(s, @)]
        /\ rerun' = (rerun \/ (id # NoId /\ CallsRun(s) /\ ids[id].hasRun))
  /\ Advance("scan", "warn")
  /\ UNCHANGED <<prog, rooted, warned>>

\* Mutant of EmitWarnings: a command that is only cloned is reported.
EmitWarningsForSources ==
  /\ pass = "warn"
  /\ warned' = {i \in DOMAIN ids : ~ids[i].hasRun}
  /\ pass' = IF rerun THEN "rejected" ELSE "generate"
  /\ UNCHANGED <<prog, pc, scope, ids, rooted, cloned, rerun>>

\* emitWarnings, and the end of the compilation if there are errors.
EmitWarnings ==
  /\ pass = "warn"
  /\ warned' = {i \in DOMAIN ids : ~ids[i].hasRun /\ ~ids[i].usedByClone}
  /\ pass' = IF rerun THEN "rejected" ELSE "generate"
  /\ UNCHANGED <<prog, pc, scope, ids, rooted, cloned, rerun>>

AnalysisNext == Write \/ Compile \/ Allocate \/ Scan \/ EmitWarnings

=============================================================================
