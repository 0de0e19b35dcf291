----------------------------- MODULE JavaScript -----------------------------
(***************************************************************************)
(* What a Besht program says, read as the JavaScript it is written in: how *)
(* a tree is spelled, which binding a name means, and what a straight line *)
(* of statements does to objects.  This is the reference the front end is  *)
(* checked against; nothing here is taken from the compiler.               *)
(***************************************************************************)
EXTENDS Ast

---------------------------------------------------------------------------
(* Spelling tokens.                                                      *)

\* A token of the program to be: its type, its spelling, and its value.
Written(type, spelt, lit) == [type |-> type, spelt |-> spelt, lit |-> lit]
\* A keyword, or a symbol, whose characters Characters gives.
Word(w) == Written(w, <<w>>, <<w>>)
Id(name) == Written("#ident", name, name)
NewLine == Written("blank", <<"\n">>, <<>>)
Comment(text) == Written("blank", text, <<>>)
Meant(w) == Tok(w.type, w.lit)
\* The written tokens that are tokens of the language.
Lines(ws) == SelectSeq(ws, LAMBDA w : w.type # "blank")

\* JavaScript's operators and punctuation, among them some Besht has not.
Punctuators == {<<s>> : s \in {"{", "}", "(", ")", "[", "]", ",", ":", ";", ".", "?", "=", "!", "<", ">",
                               "+", "-", "*", "/", "%", "&", "|"}}
    \cup {<<".", ".", ".">>, <<"=", "=", "=">>, <<"!", "=", "=">>, <<"?", "?">>, <<"?", ".">>, <<"|", "|">>,
          <<"&", "&">>, <<"=", ">">>, <<"=", "=">>, <<"!", "=">>, <<"<", "=">>, <<">", "=">>, <<"+", "+">>,
          <<"+", "=">>, <<"-", "-">>, <<"-", "=">>, <<"*", "=">>, <<"*", "*">>, <<"/", "/">>, <<"/", "*">>}
\* Without a blank, a and b would be read as something else.
NeedsBlank(a, b) ==
    \/ a[Len(a)] \in Words \cup Digits /\ b[1] \in Words \cup Digits
    \/ a[Len(a)] \in Digits /\ b[1] = "."
    \/ \E p \in Punctuators : Len(p) > Len(a) /\ IsPrefix(Append(a, b[1]), p)
LongSymbols == [s \in {Spelling[p] : p \in Pairs \cup Triples} |-> CHOOSE p \in Pairs \cup Triples : Spelling[p] = s]
Characters(w) == IF w.type \in DOMAIN LongSymbols THEN LongSymbols[w.type] ELSE w.spelt
Gap(before, w) == IF before # {} /\ NeedsBlank(CHOOSE s \in before : TRUE, w) THEN <<" ">> ELSE <<>>
Spell(ws) ==
    LET chars(k) == Characters(ws[k])
    IN  FoldLeftDomain(LAMBDA text, k : text \o Gap({chars(j) : j \in {k - 1} \ {0}}, chars(k)) \o chars(k),
                       <<>>, ws)

---------------------------------------------------------------------------
(* Spelling trees, with the parentheses JavaScript needs and no others.  *)

OpLevel == [o \in {"??", "||"} |-> 4] @@ [o \in {"&&"} |-> 5] @@ [o \in {"==", "===", "!=", "!=="} |-> 8]
    @@ [o \in {"<", "<=", ">", ">="} |-> 9] @@ [o \in {"+", "-"} |-> 11] @@ [o \in {"*", "/", "%"} |-> 12]
Op(n) == n.kids[2].lit[1]
Precedence(n) ==
    CASE n.kind \in {"Arrow", "Ternary", "As"} -> 2
      [] n.kind = "Binary" -> OpLevel[Op(n)]
      [] n.kind \in {"Unary", "Update"} -> 14
      [] n.kind = "Propagate" -> 15
      [] OTHER -> 17

Concat(seqs) == FoldLeft(LAMBDA a, b : a \o b, <<>>, seqs)
Sep(seqs, by) == FoldLeftDomain(LAMBDA a, k : (IF k = 1 THEN a ELSE Append(a, by)) \o seqs[k], <<>>, seqs)
Round(ws) == <<Word("(")>> \o ws \o <<Word(")")>>
Square(ws) == <<Word("[")>> \o ws \o <<Word("]")>>
Curly(ws) == <<Word("{")>> \o ws \o <<Word("}")>>
Commas(seqs) == Sep(seqs, Word(","))
KidsIn(n, kinds) == SelectSeq(n.kids, LAMBDA k : k.kind \in kinds)
Mixes(n, op) == n.kind = "Binary" /\ {Op(n), op} \in {{"??", "||"}, {"??", "&&"}}

Semicolon == <<Word(";")>>

\* The precedence child k of n needs to stand there without parentheses.
Least(n, k) ==
    CASE n.kind \in {"Property", "Method", "Index", "OptionalIndex", "Optional"} /\ k = 1 -> 17
      [] n.kind = "Propagate" -> 15
      [] n.kind = "Unary" /\ k = 2 -> 14
      [] n.kind = "Binary" /\ k # 2 -> IF Mixes(n.kids[k], Op(n)) THEN 18
                                      ELSE IF k = 1 THEN OpLevel[Op(n)] ELSE OpLevel[Op(n)] + 1
      [] n.kind = "Ternary" /\ k = 1 -> 4
      [] n.kind = "As" \/ (n.kind = "Ternary" /\ k = 3 /\ n.kids[k].kind = "As") -> 3
      [] OTHER -> 2
Enclosed(n, k, text) == IF Precedence(n.kids[k]) < Least(n, k) THEN Round(text) ELSE text

NameText(n) == IF Len(n.lit) = 1 /\ n.lit[1] \in Keywords THEN <<Word(n.lit[1])>> ELSE <<Id(n.lit)>>
\* Of the texts t of the children of n, those of the children of these kinds.
TextsOf(n, t, kinds) ==
    LET ks == SelectSeq([k \in DOMAIN t |-> k], LAMBDA k : n.kids[k].kind \in kinds) IN [j \in DOMAIN ks |-> t[ks[j]]]
NameIn(n, t) == TextsOf(n, t, {"Name"})[1]
Parameters(n, t) == Round(Commas(TextsOf(n, t, {"Param"})))
Annotation(n, t) == Concat([k \in DOMAIN TextsOf(n, t, Types) |-> <<Word(":")>> \o TextsOf(n, t, Types)[k]])
Arguments(t, k) == Round(Commas(SubSeq(t, k, Len(t))))
\* Nothing need follow a block.
EndsInBlock(n) == n.kind \in {"Fn", "Class", "If", "ForEach", "ForC", "While", "Try", "Switch"}
Followed(n, t, sep) ==
    Concat([k \in DOMAIN t |-> t[k] \o (IF sep = Semicolon /\ EndsInBlock(n.kids[k]) THEN <<>> ELSE sep)])

\* A leaf, and a type, whose children have the texts t.
LeafText(n) ==
    CASE n.kind \in {"String", "Source"} -> <<Written("#string", <<"\"">> \o n.lit \o <<"\"">>, n.lit)>>
      [] n.kind = "Int" -> <<Written("#int", n.lit, n.lit)>>
      [] n.kind = "Float" -> <<Written("#float", n.lit, n.lit)>>
      [] n.kind = "Template" -> <<Written("#template", <<"bq">> \o n.lit \o <<"bq">>, n.lit)>>
      [] n.kind \in {"Bool", "This", "Keyword", "Op", "Static", "DefaultCase"} -> <<Word(n.lit[1])>>
      [] n.kind = "Break" -> <<Word("break")>>
      [] n.kind = "Continue" -> <<Word("continue")>>
      [] n.kind = "Return" -> <<Word("return")>>
      [] OTHER -> NameText(n)
TypeText(n, t) ==
    CASE n.kind = "ListType" -> t[1] \o Square(<<>>)
      [] n.kind = "SetType" -> <<Id(<<"Set">>), Word("<")>> \o t[1] \o <<Word(">")>>
      [] n.kind = "ObjectType" -> <<Id(<<"Record">>), Word("<"), Word("string"), Word(",")>> \o t[1] \o <<Word(">")>>
      [] n.kind = "FunctionType" -> Round(Commas([k \in 1..(Len(t) - 1) |-> <<Id(<<"p">>), Word(":")>> \o t[k]]))
                                    \o <<Word("=>")>> \o t[Len(t)]

ExprText(n, t) ==
    LET last == t[Len(t)]
    IN  CASE n.kind = "List" -> Square(Commas(t))
          [] n.kind = "Object" -> Curly(Commas(t))
          [] n.kind = "Field" -> t[1] \o <<Word(":")>> \o last
          [] n.kind = "Spread" -> <<Word("...")>> \o last
          [] n.kind = "New" -> <<Word("new")>> \o t[1] \o Arguments(t, 2)
          [] n.kind = "Cmd" -> <<Word("$")>> \o Arguments(t, 1)
          [] n.kind = "Call" \/ (n.kind = "Builtin" /\ n.kids[1].kind = "Name") -> t[1] \o Arguments(t, 2)
          [] n.kind = "Property" -> t[1] \o <<Word(".")>> \o last
          [] n.kind \in {"Method", "Builtin"} -> t[1] \o <<Word(".")>> \o t[2] \o Arguments(t, 3)
          [] n.kind = "Index" -> t[1] \o Square(last)
          [] n.kind = "OptionalIndex" -> t[1] \o <<Word("?"), Word(".")>> \o Square(last)
          [] n.kind \in {"Unary", "Update"} -> t[1] \o last
          [] n.kind = "Propagate" -> t[1] \o <<Word("?")>>
          [] n.kind = "As" -> t[1] \o <<Id(<<"as">>)>> \o last
          [] n.kind = "Binary" -> t[1] \o t[2] \o last
          [] n.kind = "Ternary" -> t[1] \o <<Word("?")>> \o t[2] \o <<Word(":")>> \o last
          [] n.kind = "Arrow" -> Parameters(n, t) \o Annotation(n, t) \o <<Word("=>")>> \o 
               (IF n.kids[Len(t)].kind # "Block" /\ last[1] = Word("{") THEN Round(last) ELSE last)

\* Alias, Interface and Ambient stand for a declaration, which does nothing.
BindingText(n, t) ==
    LET last  == t[Len(t)]
        value == <<Word("=")>> \o last
        name  == NameIn(n, t)
        head  == Concat(TextsOf(n, t, {"Keyword"}))
    IN  CASE n.kind = "Let" -> head \o name \o Annotation(n, t) \o value
          [] n.kind = "Destructure" -> head \o Square(Commas(TextsOf(n, t, {"Name"}))) \o value
          [] n.kind = "Assign" -> name \o value
          [] n.kind = "Incr" -> name \o t[2]
          [] n.kind = "Compound" -> name \o t[2] \o last
          [] n.kind = "IndexAssign" -> name \o Square(t[2]) \o value
          [] n.kind = "PropertyAssign" -> t[1] \o <<Word(".")>> \o t[2] \o value
          [] n.kind = "Alias" -> <<Word("type")>> \o name \o value
          [] n.kind = "Interface" -> <<Word("interface")>> \o name \o Curly(<<Id(<<"a">>), Word(":")>> \o last)
          [] n.kind = "Ambient" -> <<Word("declare"), Word("let")>> \o name \o <<Word(":")>> \o last

DeclarationText(n, t, sep) ==
    LET last == t[Len(t)]
        body == n.kids[Len(t)].kind = "Block"
    IN  CASE n.kind = "Param" -> t[1] \o Annotation(n, t)
          [] n.kind = "Fn" -> <<Word("function")>> \o NameIn(n, t) \o Parameters(n, t) \o Annotation(n, t) \o last
          [] n.kind = "DeclareFn" ->
               <<Word("declare"), Word("function")>> \o NameIn(n, t) \o Parameters(n, t) \o Annotation(n, t)
          [] n.kind = "Class" -> <<Word("class")>> \o t[1] \o Curly(Concat(Tail(t)))
          [] n.kind = "Member" ->
               Concat(TextsOf(n, t, {"Static", "Accessor", "Constructor", "Name"}))
                 \o (IF body THEN Parameters(n, t) \o Annotation(n, t) \o last
                     ELSE Annotation(n, t) \o (IF n.kids[Len(t)].kind \in Exprs THEN <<Word("=")>> \o last ELSE <<>>)
                          \o Semicolon)
          [] n.kind = "Export" -> <<Word("export")>> \o t[1]
          [] n.kind = "Default" -> <<Word("default")>> \o t[1]
          [] n.kind = "Import" -> <<Word("import")>> \o Curly(Commas(TextsOf(n, t, {"Name"}))) \o <<Word("from")>> \o last
          [] n.kind \in {"Program", "Bare"} -> Followed(n, t, sep)
          [] n.kind = "Block" -> Curly(Followed(n, t, sep))

\* A body of one statement (Bare) needs no braces.
ControlText(n, t) ==
    CASE n.kind = "If" -> <<Word("if")>> \o Round(t[1]) \o Concat(Tail(t))
      [] n.kind = "ElseIf" -> <<Word("else"), Word("if")>> \o Round(t[1]) \o t[2]
      [] n.kind = "Else" -> <<Word("else")>> \o t[1]
      [] n.kind = "ForEach" ->
           <<Word("for")>> \o Round(<<Word("let")>> \o t[1] \o <<Id(<<"of">>)>> \o t[2]) \o t[3]
      [] n.kind = "ForC" -> <<Word("for")>> \o Round(t[1] \o Semicolon \o t[2] \o Semicolon \o t[3]) \o t[4]
      [] n.kind = "While" -> <<Word("while")>> \o Round(t[1]) \o t[2]
      [] n.kind = "Try" -> <<Word("try")>> \o t[1] \o <<Word("catch")>> \o Round(t[2] \o <<Word(":"), Word("status")>>) \o t[3]
      [] n.kind = "Switch" -> <<Word("switch")>> \o Round(t[1]) \o Curly(Concat(Tail(t)))
      [] n.kind = "Case" -> (IF n.kids[1].kind = "DefaultCase" THEN <<>> ELSE <<Word("case")>>) \o t[1] \o <<Word(":")>>
                            \o SubSeq(t[2], 2, Len(t[2]) - 1)
      [] n.kind = "Return" -> <<Word("return")>> \o t[1]
      [] n.kind = "ExprStmt" -> t[1]

Binders == {"Let", "Destructure", "Assign", "Incr", "Compound", "IndexAssign", "PropertyAssign", "Alias",
             "Interface", "Ambient"}
Declaring == {"Param", "Fn", "DeclareFn", "Class", "Member", "Export", "Default", "Import", "Program", "Bare", "Block"}

RECURSIVE Text(_, _)
\* The text of a tree whose statements are each followed by sep.
Text(n, sep) ==
    LET within == IF n.kind \in {"Arrow", "Member"} THEN Semicolon ELSE sep
        texts(m) == [k \in DOMAIN m.kids |-> Enclosed(m, k, Text(m.kids[k], within))]
        both(m, t) == ExprText(m, <<t[1] \o <<Word("?")>> >> \o Tail(t))
        leaf == n.kind = "Template" \/ (n.kids = <<>> /\ n.kind \notin {"List", "Object", "Cmd", "Program", "Bare", "Block"})
    IN  CASE n.kind = "Optional" -> both(n.kids[1], texts(n.kids[1]))
          [] leaf -> LeafText(n)
          [] n.kind \in Types -> TypeText(n, texts(n))
          [] n.kind \in Exprs \cup {"Field"} -> ExprText(n, texts(n))
          [] n.kind \in Binders -> BindingText(n, texts(n))
          [] n.kind \in Declaring -> DeclarationText(n, texts(n), sep)
          [] OTHER -> ControlText(n, texts(n))

ProgramText(tree, sep) == Text(tree, sep)
=============================================================================
