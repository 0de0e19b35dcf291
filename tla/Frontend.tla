------------------------------ MODULE Frontend ------------------------------
(***************************************************************************)
(* The front end: a program its author means is written down, lexed,       *)
(* parsed and checked.  The first step is the author's; the others are     *)
(* parser.Parse (Tokenize, then the parser) and semantics.Validate, each   *)
(* of which ends the compilation when it fails.                            *)
(***************************************************************************)
EXTENDS Surfaces, Meaning

CONSTANTS Programs,     \* what authors may mean: trees, with sugar
          Texts,        \* what they may write that need not be a program: written tokens
          OnLines       \* those they may also write on lines, without semicolons

VARIABLES stage,        \* what has been made of the program so far
          meant,        \* the tree the author means, None for a text
          written,      \* the tokens the author writes
          toks,         \* what the lexer made of the text
          tree,         \* what the parser made of the tokens
          verdict       \* what the validator says of the tree, "" when nothing

vars == <<stage, meant, written, toks, tree, verdict>>

Init ==
    /\ \/ meant \in Programs /\ written = <<>>
       \/ meant = None /\ written \in Texts
    /\ stage = "meant" /\ toks = <<>> /\ tree = None /\ verdict = "unchecked"

\* The author writes the program down.
Write ==
    /\ stage = "meant" /\ stage' = "written"
    /\ \E sep \in {Semicolon} \cup {<<NewLine>> : m \in {meant} \cap OnLines} :
          written' = IF meant = None THEN written ELSE ProgramText(meant, sep)
    /\ UNCHANGED <<meant, toks, tree, verdict>>

\* parser.Parse: the lexer first; its failure is the parser's.
Lex ==
    /\ stage = "written"
    /\ LET lexed == Tokenize(Spell(written))
       IN  stage' = (IF lexed.ok THEN "lexed" ELSE "notLexed") /\ toks' = lexed.toks
    /\ UNCHANGED <<meant, written, tree, verdict>>

ParseTokens ==
    /\ stage = "lexed" /\ meant # None
    /\ LET parsed == ParseToks(toks)
       IN  stage' = (IF parsed.ok THEN "parsed" ELSE "notParsed") /\ tree' = parsed.tree
    /\ UNCHANGED <<meant, written, toks, verdict>>

\* The names the loader registers for a file are those its imports list.
Imported(prog) == UNION {{NameOf(Node("", <<>>, <<n.kids[k]>>)) : k \in {k \in DOMAIN n.kids : n.kids[k].kind = "Name"}} :
                         n \in {prog.kids[i] : i \in {i \in DOMAIN prog.kids : prog.kids[i].kind = "Import"}}}
CheckTree ==
    /\ stage = "parsed"
    /\ stage' = "checked" /\ verdict' = Validate(tree, Imported(tree))
    /\ UNCHANGED <<meant, written, toks, tree>>

Next == Write \/ Lex \/ ParseTokens \/ CheckTree
FrontendSpec == Init /\ [][Next]_vars

---------------------------------------------------------------------------
(* What holds of the lexer and the parser.                               *)

\* Every tree the parser makes is a tree of the package ast, which the
\* validator and the generator match on: a node with a child of a kind they do
\* not know would be passed over without a word.
FrontendTypeOK ==
    /\ stage \in {"meant", "written", "lexed", "notLexed", "parsed", "notParsed", "checked"}
    /\ stage \in {"parsed", "checked"} => tree.kind = "Program" /\ IsTree(tree)

\* The lexer gives back the tokens that were written, with no blank between
\* two of them but where JavaScript needs one: the longest operator wins
\* (lexSymbol), a dot after digits belongs to the number only before a digit
\* (lexInt), and escapes give the characters they name (writeEscape).
LexesAsWritten ==
    stage \notin {"meant", "written"} =>
      stage # "notLexed" /\ toks = Append([k \in DOMAIN Lines(written) |-> Meant(Lines(written)[k])], EOFTok)

OnItsLines == written # <<>> /\ Last(written) = NewLine
\* A declare statement takes with it what follows, up to the next statement
\* that begins with one of the keywords that end it; a type alias does so when
\* no semicolon ends it.
StartsWithKeyword(n) == n.kind \in {"Let", "Destructure", "Fn", "Export", "Import", "DeclareFn", "Ambient",
    "If", "ForEach", "ForC", "While", "Switch", "Try", "Return", "Break", "Continue"}
Swallows(n) == \E k \in 1..(Len(n.kids) - 1) :
    /\ n.kids[k].kind = "Ambient" \/ (OnItsLines /\ n.kids[k].kind = "Alias")
    /\ ~StartsWithKeyword(n.kids[k + 1])

\* A program that is parsed is the program that was meant: the precedence
\* chain of the parse functions, their scans for arrows and for the colon of a
\* ternary, and the sugar they rewrite give the tree JavaScript gives, with and
\* without semicolons, and no statement is lost or taken into its neighbour, a
\* declare statement's and a type alias's apart.
ParsesAsMeant ==
    stage \in {"parsed", "checked"} =>
      tree = Spelt(meant) \/ \E p \in Places(meant) : Swallows(Sub(meant, p))

\* Expressions of JavaScript the parser has no function for.
Compares(n) == n.kind = "Binary" /\ Op(n) \in Comparisons
Chained(n) ==
    /\ Compares(n)
    /\ \/ Compares(n.kids[1]) /\ Precedence(n.kids[1]) >= Precedence(n)
       \/ Compares(n.kids[3]) /\ Precedence(n.kids[3]) > Precedence(n)
NestedUnary(n) == n.kind = "Unary" /\ n.kids[2].kind \in {"Unary", "Update"}
\* The scan for a ternary's colon takes the ? of ?. for another ternary.
OptionalInThen(n) == n.kind = "Ternary" /\ \E p \in Places(n.kids[2]) :
    Sub(n.kids[2], p).kind \in {"Optional", "OptionalIndex", "Propagate"}
\* The scan goes on behind the line of a call f()?.
AcrossLines(n) == OnItsLines /\ n.kind = "Propagate"
ArrowInElse(n) == n.kind = "Ternary" /\ n.kids[3].kind = "Arrow"
CallOnCall(n) == n.kind = "ExprStmt" /\ n.kids[1].kind \in {"Method", "Property", "Index"}
                 /\ n.kids[1].kids[1].kind # "Ident"
BareReturn(n) == n.kind = "Return" /\ n.kids = <<>>

\* What the parser does not take is an expression or a statement of those
\* kinds: nothing else that can be meant is a parse error.
TakesWhatIsMeant ==
    stage = "notParsed" =>
      \E p \in Places(meant) : LET n == Sub(meant, p) IN
        Chained(n) \/ NestedUnary(n) \/ ArrowInElse(n) \/ OptionalInThen(n) \/ AcrossLines(n)
        \/ CallOnCall(n) \/ BareReturn(n)

---------------------------------------------------------------------------
(* What holds of the validator.                                          *)

Accepted == stage = "checked" /\ verdict = ""
AtTop(b) == b.scope = <<>>
\* The walk carries one flag for loops and callbacks into what they contain.
MayJump(p) == InLoop(tree, p) \/ \E q \in Above(p) : Sub(tree, q).kind \in Loops \cup {"Arrow"}

\* A write of a name before the constant of an inner scope that it names: the
\* walk takes it for a write of what it finds further out.
WritesEarly(p) == ~AtTop(Binding(tree, p)) /\ ~Later(p, Binding(tree, p).at)

\* An accepted program has no name JavaScript would not find (the names of the
\* file itself may come before their declaration, and a name whose inner
\* declaration comes later may be found further out), writes no constant
\* (one of an inner scope that is declared after the write apart), returns from
\* functions only and jumps out of loops only (or out of what is in a loop or a
\* callback).
AcceptedIsStaticallyRight ==
    Accepted =>
      /\ \A p \in Uses(tree) : /\ \E b \in Candidates(tree, p) : AtTop(b) \/ Ready(tree, p, b)
                               /\ WritesConst(tree, p) => WritesEarly(p)
      /\ \A p \in ReturnsIn(tree) : InFunction(tree, p)
      /\ \A p \in Jumps(tree) : MayJump(p)

\* A name written here is a constant somewhere else in the file.
ConstElsewhere(p) == p \in WritesIn(tree) /\ \E b \in Bindings(tree) : b.const /\ b.name = UsedName(Sub(tree, p))
\* A name of an inner scope used before its declaration, by a function that
\* runs later, or the function of an inner scope itself.
NestedLate(p) == \E b \in Candidates(tree, p) : ~AtTop(b) /\ ~Later(p, b.at)
WritesFn(p) == p \in WritesIn(tree) /\ \E b \in Candidates(tree, p) : b.hoisted
NestedFn(p) == \E b \in Candidates(tree, p) : ~AtTop(b) /\ Sub(tree, b.at).kind = "Fn"

\* A program refused by the walk is wrong in JavaScript, or does one of four
\* things the validator does not follow: it writes a name that is a constant in
\* another scope, or the name of a function, or uses an inner name before its
\* declaration, or the name of an inner function.
RefusedIsWrong ==
    stage = "checked" /\ verdict \in {"undeclared", "const", "loop", "return"} =>
      \/ \E p \in Uses(tree) : \/ ~Resolves(tree, p) \/ WritesConst(tree, p)
                               \/ ConstElsewhere(p) \/ NestedLate(p) \/ NestedFn(p) \/ WritesFn(p)
      \/ \E p \in ReturnsIn(tree) : ~InFunction(tree, p)
      \/ \E p \in Jumps(tree) : ~InLoop(tree, p)

---------------------------------------------------------------------------
(* What holds of the surface checks.                                     *)

\* Statements one after the other, at the top, of values and of operations on
\* objects, lists and responses; a callback only prints what it is given.
StraightKinds == {"Program", "Let", "Assign", "PropertyAssign", "ExprStmt", "Keyword", "Name", "Ident", "Int", "String",
                  "List", "Object", "Field", "Spread", "New", "As", "Builtin", "Group", "Method", "Property"} \cup Types
Prints(n) == n.kind = "Arrow" /\ BuiltinOf(LastKid(n)) = <<"console", "log">> /\ LastKid(LastKid(n)).kind = "Ident"
Straight == \A p \in Places(tree) : LET n == Sub(tree, p) IN
    n.kind \in StraightKinds \/ Prints(n) \/ \E q \in Above(p) : Prints(Sub(tree, q))
\* What the checks are not told: an object goes by two names and one of them
\* is given another value; a value is given to a field by its name alone; a
\* response is held by a name that is given another value.
Rebound == \E k \in DOMAIN tree.kids : tree.kids[k].kind = "Assign" /\ Shares(tree, k, NameOf(tree.kids[k]))
ByName(n) == n.kind \in {"Ident", "Property"}
GivenByName == \E p \in Places(tree) : LET n == Sub(tree, p) IN
    n.kind \in {"Field", "PropertyAssign"} /\ ByName(UnwrapAs(LastKid(n)))
ResponseReplaced == \E k, j \in DOMAIN tree.kids :
    /\ tree.kids[k].kind = "Let" /\ tree.kids[j].kind = "Assign" /\ NameOf(tree.kids[k]) = NameOf(tree.kids[j])
    /\ BuiltinOf(UnwrapAs(LastKid(tree.kids[k]))) = <<"fetch">>

\* An accepted straight line of statements performs no operation the shell has
\* no code for: what the checks know of a name when they read an operation is
\* what the name holds when it runs, through aliases and Object.assign.
AcceptedIsSupported ==
    Accepted /\ Straight /\ ~Rebound /\ ~GivenByName /\ ~ResponseReplaced => Unsupported(tree) = {}

\* Nor is one refused for what it does not do.
RefusedIsUnsupported ==
    stage = "checked" /\ verdict \in {"fetch", "object", "forEach"} /\ Straight /\ ~Rebound /\ ~ResponseReplaced =>
      verdict \in Unsupported(tree)
=============================================================================
