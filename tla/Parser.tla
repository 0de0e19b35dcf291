------------------------------- MODULE Parser -------------------------------
(***************************************************************************)
(* The parser (internal/parser): tokens become a tree.  Each definition    *)
(* named for a parse function is that function, in the forms of Grammar;   *)
(* Run is how they execute.                                                *)
(***************************************************************************)
EXTENDS Grammar

\* isIdentifierName
Names == {"#ident", "string", "number", "boolean", "status", "Array", "from"}

\* ast.IsBuiltin: the names the lexer can give in one token.
Builtins == {"fetch", "Boolean", "String", "parseInt", "parseFloat", "isFinite", "isNaN"}

Name == Take("Name", Names)
Expr == Ref("parseExpr")
Stmt == Ref("parseStatement")
Body == Ref("parseControlFlowBody")
Type == Ref("parseType")
Args == Ref("parseArgList")
Block == Ref("parseBlock")
Semis == Many(<<On({";"}, Expect({";"}))>>)
TypeAnnot == Opt({":"}, All(<<Expect({":"}), Type>>))
Listed(close, g) == All(<<Until({close, "#eof"}, All(<<g, Skip({","})>>)), Expect({close})>>)
Parens(g) == All(<<Expect({"("}), g, Expect({")"})>>)

---------------------------------------------------------------------------
(* Statements.                                                           *)

ParseProgram == Mk("Program", Until({"#eof"}, All(<<Stmt, Semis>>)))

ParseStatement == Choice(<<
    On({"import"}, Ref("parseImport")),
    On({"let", "const"}, Ref("parseLetDecl")),
    On({"function"}, Ref("parseFnDecl")),
    On({"class"}, Ref("parseClassDecl")),
    On({"export"}, Ref("parseExport")),
    On({"return"}, Ref("parseReturn")),
    On({"if"}, Ref("parseIf")),
    On({"for"}, Ref("parseFor")),
    On({"while"}, Ref("parseWhile")),
    On({"switch"}, Ref("parseSwitch")),
    On({"try"}, Ref("parseTry")),
    On({"declare"}, Ref("parseDeclare")),
    On({"type"}, Ref("parseTypeDecl")),
    On({"interface"}, Ref("parseInterfaceDecl")),
    On({"break"}, Mk("Break", Expect({"break"}))),
    On({"continue"}, Mk("Continue", Expect({"continue"}))),
    On({"#template", "$", "new", "++", "--"}, Mk("ExprStmt", Expr)),
    On({"#ident"}, Ref("parseIdentStmt")),
    On({"this"}, Ref("parseThisStmt"))>>)

Modifiers == Many(<<On({"static"}, Take("Static", {"static"})),
                    On({"private", "public", "protected", "readonly"}, Expect({"#ident"}))>>)

ParseClassDecl == Mk("Class", All(<<
    Expect({"class"}), Name, Expect({"{"}),
    Until({"}", "#eof"}, All(<<Semis, Choice(<<
      On({"}", "#eof"}, Nothing),
      Otherwise(Mk("Member", All(<<Modifiers, Choice(<<
        OnSeq(<<{"get", "set"}, Names, {"("}>>,
              All(<<Take("Accessor", {"#ident"}), Name, Ref("parseParamsOnly"), TypeAnnot, Block>>)),
        OnSeq(<<{"constructor"}, {"("}>>,
              All(<<Take("Constructor", {"#ident"}), Ref("parseParamsOnly"), Block>>)),
        OnSeq(<<Names, {"("}>>,
              All(<<Name, Ref("parseParamsOnly"), TypeAnnot, Block>>)),
        Otherwise(All(<<Name, Expect({":"}), Type,
                        Opt({"="}, All(<<Expect({"="}), Expr>>)), Semis>>))>>)>>)))>>)>>)),
    Expect({"}"})>>))

ParseExport == All(<<Expect({"export"}), Choice(<<
    OnSeq(<<{"declare"}, {"function"}>>, Mk("Export", Ref("parseDeclare"))),
    On({"declare"}, Ref("parseDeclare")),
    On({"type"}, Ref("parseTypeDecl")),
    On({"interface"}, Ref("parseInterfaceDecl")),
    On({"class"}, Mk("Export", Ref("parseClassDecl"))),
    On({"function"}, Mk("Export", Ref("parseFnDecl"))),
    OnSeq(<<{"let", "const"}, {"["}>>, Fail),
    On({"let", "const"}, Mk("Export", Ref("parseLetDecl"))),
    On({"default"}, Mk("Export", Mk("Default", All(<<Expect({"default"}), Expr>>))))>>)>>)

ParseImport == Mk("Import", All(<<
    Expect({"import"}),
    Choice(<<OnSeq(<<{"{"}, {"}"}>>, Fail),
             On({"{"}, Nothing),
             Otherwise(All(<<Take("DefaultName", Names),
                             Opt({","}, All(<<Expect({","}), Need({"{"})>>))>>))>>),
    Opt({"{"}, All(<<Expect({"{"}), Listed("}", Name)>>)),
    Expect({"from"}), Take("Source", {"#string"}),
    Opt({"assert"}, All(<<Expect({"assert"}), Expect({"{"}), Expect({"type"}), Expect({":"}),
                          Choice(<<OnFar("shell", Take("AssertType", {"#string"}))>>),
                          Expect({"}"})>>))>>))

ParseLetDecl == Choice(<<
    OnSeq(<<{"let", "const"}, {"["}>>,
          Mk("Destructure", All(<<Take("Keyword", {"let", "const"}), Expect({"["}),
                                  Listed("]", Name), Expect({"="}), Expr>>))),
    Otherwise(Mk("Let", All(<<Take("Keyword", {"let", "const"}), Name, TypeAnnot,
                              Expect({"="}), Expr>>)))>>)

\* parseFnDecl; parseParamsOnly reads parameters the same way.
ParseParamsOnly == All(<<Expect({"("}),
    Listed(")", Mk("Param", All(<<Name, TypeAnnot>>)))>>)
ParseFnDecl == Mk("Fn", All(<<Expect({"function"}), Name, Ref("parseParamsOnly"), TypeAnnot, Block>>))

ParseBlock == Mk("Block", All(<<Expect({"{"}), Until({"}", "#eof"}, All(<<Stmt, Semis>>)),
                                Expect({"}"})>>))

\* Only the end of the block or of the text says that there is no value.
ParseReturn == Mk("Return", All(<<Expect({"return"}),
                                  Choice(<<On({"}", "#eof"}, Nothing), Otherwise(Expr)>>)>>))

ParseIf == Mk("If", All(<<
    Expect({"if"}), Parens(Expr), Body, Semis,
    Many(<<OnSeq(<<{"else"}, {"if"}>>,
                 Mk("ElseIf", All(<<Expect({"else"}), Expect({"if"}), Parens(Expr), Body, Semis>>)))>>),
    Opt({"else"}, Mk("Else", All(<<Expect({"else"}), Body>>)))>>))

\* Mutant: a single statement is left without a block.
UnwrappedBody == Choice(<<On({"{"}, Block), Otherwise(Stmt)>>)
ParseControlFlowBody == Choice(<<On({"{"}, Block), Otherwise(Mk("Block", Stmt))>>)

ParseFor == Mk("For", All(<<
    Expect({"for"}), Expect({"("}),
    Choice(<<On({"let", "const"}, All(<<Take("Keyword", {"let", "const"}), Name, TypeAnnot>>)),
             On({"#ident"}, Name)>>),
    Choice(<<On({"in", "of"}, All(<<Take("Each", {"in", "#ident"}), Expr>>)),
             Otherwise(All(<<Expect({"="}), Expr, Expect({";"}), Expr, Expect({";"}),
                             Ref("parseCStyleForUpdate")>>))>>),
    Expect({")"}), Body>>))

\* An update is an assignment; ++ and the compound forms are rewritten (Built).
Updates == <<
    OnSeq(<<Names, {"++", "--"}>>, Mk("Incr", All(<<Name, Take("Op", {"++", "--"})>>))),
    OnSeq(<<Names, {"="}>>, Mk("Assign", All(<<Name, Expect({"="}), Expr>>))),
    OnSeq(<<Names, {"+=", "-=", "*="}>>,
          Mk("Compound", All(<<Name, Take("Op", {"+=", "-=", "*="}), Expr>>)))>>
ParseCStyleForUpdate == Choice(Updates)

ParseWhile == Mk("While", All(<<Expect({"while"}), Parens(Expr), Body>>))

ParseTry == Mk("Try", All(<<
    Expect({"try"}), Block, Expect({"catch"}),
    Parens(All(<<Take("Name", {"#ident"}), Expect({":"}), Expect({"status"})>>)), Block>>))

ParseSwitch == Mk("Switch", All(<<
    Expect({"switch"}), Parens(Expr), Expect({"{"}),
    Until({"}", "#eof"}, Mk("Case", All(<<
        Choice(<<On({"case"}, All(<<Expect({"case"}), Expr>>)),
                 On({"default"}, Take("DefaultCase", {"default"}))>>),
        Expect({":"}),
        Mk("Block", Until({"case", "default", "}", "#eof"}, All(<<Stmt, Semis>>)))>>))),
    Expect({"}"})>>))

ParseDeclare == Choice(<<
    OnSeq(<<{"declare"}, {"function"}>>, Ref("parseDeclareFunction")),
    Otherwise(Mk("Declare", All(<<Expect({"declare"}), Do("skipDeclared")>>)))>>)

ParseDeclareFunction == Mk("DeclareFn", All(<<
    Expect({"declare"}), Expect({"function"}), Name, Ref("parseParamsOnly"), TypeAnnot, Skip({";"})>>))

ParseTypeDecl == Mk("Declare", All(<<Expect({"type"}), Do("typeDecl"), Do("skipToStmtBoundary")>>))

ParseInterfaceDecl == Mk("Declare", All(<<Expect({"interface"}), Skip({"#ident"}), Do("skipInterface")>>))

\* A statement that begins with an identifier.  When none of the forms fits,
\* the identifier is passed over and an expression is read after it.
ParseIdentStmt == Choice(<<
    On({"console"} \cup Builtins, Mk("ExprStmt", Expr))>> \o Updates \o <<
    OnSeq(<<{"#ident"}, {"["}, {"]"}>>, Mk("ExprStmt", Expr)),
    OnSeq(<<{"#ident"}, {"["}>>,
          Mk("IndexAssign", All(<<Name, Expect({"["}), Expr, Expect({"]"}), Expect({"="}), Expr>>))),
    OnSeq(<<{"#ident"}, {"."}, Names, {"="}>>,
          Mk("PropertyAssign", All(<<Name, Expect({"."}), Name, Expect({"="}), Expr>>))),
    OnSeq(<<{"#ident"}, {".", "?", "|"}>>, Mk("ExprStmt", Expr)),
    OnSeq(<<{"#ident"}, {"("}>>, Mk("ExprStmt", Mk("Call", All(<<Name, Args>>)))),
    Otherwise(All(<<Expect({"#ident"}), Mk("ExprStmt", Expr)>>))>>)

ParseThisStmt == Choice(<<
    OnSeq(<<{"this"}, {"."}, Names, {"="}>>,
          Mk("PropertyAssign", All(<<Take("Name", {"this"}), Expect({"."}), Name, Expect({"="}), Expr>>))),
    Otherwise(Mk("ExprStmt", Expr))>>)

---------------------------------------------------------------------------
(* Types.                                                                *)

Angles(g) == All(<<Expect({"<"}), g, Expect({">"})>>)
ParamTypes == Choice(<<On({")"}, Nothing), Otherwise(Ref("paramTypes"))>>)
ParamType == All(<<Choice(<<OnSeq(<<Names, {":"}>>, All(<<Expect(Names), Expect({":"})>>)),
                            Otherwise(Nothing)>>),
                   Type, Opt({","}, All(<<Expect({","}), Ref("paramTypes")>>))>>)

\* parseType: an alias known by now stands for its type, an unknown name for
\* string; what follows | is read and forgotten.
ParseType == All(<<
    Choice(<<
      On({"("}, Mk("FunctionType", All(<<Parens(ParamTypes), Expect({"=>"}), Type>>))),
      On({"["}, Mk("TupleType", All(<<Expect({"["}), Listed("]", Type)>>))),
      On({"string", "number", "boolean", "status"},
         Take("Type", {"string", "number", "boolean", "status"})),
      On({"Array"}, Mk("ListType", All(<<Expect({"Array"}), Opt({"<"}, Angles(Type))>>))),
      On({"JSONValue"}, Take("Type", {"#ident"})),
      OnFar("alias", Do("alias")),
      OnSeq(<<{"Set"}, {"<"}>>, Mk("SetType", All(<<Expect({"#ident"}), Angles(Type)>>))),
      OnSeq(<<{"Record"}, {"<"}>>,
            Mk("ObjectType", All(<<Expect({"#ident"}),
                                   Angles(All(<<Drop(Type), Expect({","}), Type>>))>>))),
      On({"object", "void"}, Take("Type", {"#ident"})),
      On({"#ident"}, Do("string"))>>),
    Many(<<On({"|"}, All(<<Expect({"|"}), Drop(Type)>>))>>),
    Many(<<On({"["}, Wrap("ListType", All(<<Expect({"["}), Expect({"]"})>>)))>>)>>)

---------------------------------------------------------------------------
(* Expressions, from the loosest operator to the tightest.               *)

ArrowBody == Choice(<<On({"{"}, Block), Otherwise(Expr)>>)
ParseArrow == Choice(<<
    OnSeq(<<Names, {"=>"}>>, Mk("Arrow", All(<<Mk("Param", Name), Expect({"=>"}), ArrowBody>>))),
    OnFar("parenArrow", Ref("parseParenArrow")),
    Otherwise(Ref("parseAs"))>>)

ArrowParam == All(<<Mk("Param", All(<<Name, TypeAnnot>>)),
                    Opt({","}, All(<<Expect({","}), Ref("arrowParams")>>))>>)
ParseParenArrow == Mk("Arrow", All(<<
    Parens(Choice(<<On({")"}, Nothing), Otherwise(Ref("arrowParams"))>>)),
    TypeAnnot, Expect({"=>"}), ArrowBody>>))

ParseAs == All(<<Ref("parseTernary"), Many(<<On({"as"}, Wrap("As", All(<<Expect({"#ident"}), Type>>)))>>)>>)

\* A ? with no colon to answer it is the postfix ? that propagates a failure.
ParseTernary == All(<<Ref("parseNullish"), Many(<<
    OnFar("ternary", Wrap("Ternary", All(<<Expect({"?"}), Expr, Expect({":"}), Ref("parseTernary")>>))),
    OnFar("propagate", Wrap("Propagate", Expect({"?"})))>>)>>)

Infix(ops, tighter) ==
    All(<<tighter, Many(<<On(ops, Wrap("Binary", All(<<Take("Op", ops), tighter>>)))>>)>>)
ParseNullish == Infix({"??"}, Ref("parseOr"))
ParseOr      == Infix({"||"}, Ref("parseAnd"))
ParseAnd     == Infix({"&&"}, Ref("parseComparison"))
Comparisons  == {"==", "===", "!=", "!==", "<", "<=", ">", ">="}
\* At most one comparison: a second operator is left to the caller.
ParseComparison == All(<<Ref("parseAddSub"),
    Opt(Comparisons, Wrap("Binary", All(<<Take("Op", Comparisons), Ref("parseAddSub")>>)))>>)
\* Mutant: sums group to the right.
RightAddSub  == All(<<Ref("parseMulDiv"),
    Opt({"+", "-"}, Wrap("Binary", All(<<Take("Op", {"+", "-"}), Ref("parseAddSub")>>)))>>)
ParseAddSub  == Infix({"+", "-"}, Ref("parseMulDiv"))
ParseMulDiv  == Infix({"*", "/", "%"}, Ref("parseUnary"))

ParseUnary == Choice(<<
    On({"++", "--"}, Mk("Update", All(<<Take("Op", {"++", "--"}), Name>>))),
    On({"!", "-"}, Mk("Unary", All(<<Take("Op", {"!", "-"}), Ref("parsePostfix")>>))),
    Otherwise(Ref("parsePostfix"))>>)

Member == Choice(<<OnSeq(<<Names, {"("}>>, Wrap("Method", All(<<Name, Args>>))),
                   Otherwise(Wrap("Property", Name))>>)
ParsePostfixLoop == Many(<<
    OnSeq(<<{"?"}, {"."}, {"("}>>, Fail),
    OnSeq(<<{"?"}, {"."}, {"["}>>,
          Wrap("OptionalIndex", All(<<Expect({"?"}), Expect({"."}), Expect({"["}), Expr, Expect({"]"})>>))),
    OnSeq(<<{"?"}, {"."}>>, All(<<Expect({"?"}), Expect({"."}), Member, Wrap("Optional", Nothing)>>)),
    On({"["}, Wrap("Index", All(<<Expect({"["}), Expr, Expect({"]"})>>))),
    On({"."}, All(<<Expect({"."}), Member>>))>>)
ParsePostfix == All(<<Ref("parsePrimary"), ParsePostfixLoop>>)

ParseCmdExpr == Mk("Cmd", All(<<Expect({"$"}), Choice(<<OnSeq(<<{"("}, {")"}>>, Fail), Otherwise(Args)>>)>>))

\* parsePrimary: literals, groups, and the names with a meaning of their own.
Grouped(names, members) ==
    OnSeq(<<names, {"."}, members>>,
          Mk("Builtin", All(<<Take("Group", names), Expect({"."}), Name, Args>>)))
Constants(name, members) ==
    OnSeq(<<{name}, {"."}, members>>,
          Mk("Constant", All(<<Expect({name}), Expect({"."}), Name>>)))
ParseName == <<
    OnSeq(<<{"r"}, {"#string"}>>, Fail),
    On({"undefined", "null"}, Take("Nothing", {"#ident"})),
    OnSeq(<<{"String"}, {"."}, Names>>, Fail),
    OnSeq(<<{"Number"}, {"."}, {"parseInt", "parseFloat", "isFinite", "isInteger", "isSafeInteger", "isNaN"}, {"("}>>,
          Mk("Builtin", All(<<Take("Group", {"#ident"}), Expect({"."}), Name, Args>>))),
    OnSeq(<<{"Number", "Math"}, {"."}, Names, {"("}>>, Take("Ident", {"#ident"})),
    Constants("Number", {"MAX_SAFE_INTEGER", "MIN_SAFE_INTEGER", "EPSILON"}),
    Constants("Math", {"E", "LN2", "LN10", "LOG2E", "LOG10E", "PI", "SQRT1_2", "SQRT2"}),
    Grouped({"Array"}, {"from", "of", "isArray"}),
    Grouped({"JSON"}, {"parse", "stringify"}),
    Grouped({"Object"}, {"keys", "values", "entries", "fromEntries", "hasOwn", "is", "assign"}),
    Grouped({"console"}, {"log", "error"}),
    OnSeq(<<{"console"}, {"."}>>, Fail),
    On(Builtins, Mk("Builtin", All(<<Name, Args>>))),
    OnSeq(<<Names, {"("}>>, Mk("Call", All(<<Name, Args>>))),
    On(Names, Take("Ident", Names))>>
ParsePrimary == Choice(<<
    On({"#int"}, Take("Int", {"#int"})),
    On({"#float"}, Take("Float", {"#float"})),
    On({"#string"}, Take("String", {"#string"})),
    On({"true", "false"}, Take("Bool", {"true", "false"})),
    On({"#template"}, Do("template")),
    On({"..."}, Mk("Spread", All(<<Expect({"..."}), Expr>>))),
    On({"$"}, Ref("parseCmdExpr")),
    On({"new"}, Mk("New", All(<<Expect({"new"}), Name, Ref("parseOptionalTypeArgs"), Args>>))),
    On({"this"}, Take("This", {"this"})),
    On({"["}, Mk("List", All(<<Expect({"["}), Listed("]", Expr)>>))),
    On({"{"}, Ref("parseObjectLit")),
    On({"("}, Parens(Expr))>> \o ParseName)

ParseOptionalTypeArgs == Opt({"<"}, All(<<Expect({"<"}), Listed(">", Type)>>))

ParseObjectLit == Mk("Object", All(<<Expect({"{"}), Listed("}", Choice(<<
    On({"..."}, Mk("Spread", All(<<Expect({"..."}), Expr>>))),
    OnSeq(<<Names \cup {"#string"}, {":"}>>,
          Mk("Field", All(<<Take("Name", Names \cup {"#string"}), Expect({":"}), Expr>>))),
    On({"#ident"}, Mk("Shorthand", Name))>>))>>))

\* parseArgList, and parseArgExpr for each argument.
ParseArgList == All(<<Expect({"("}), Listed(")", Choice(<<
    On({"..."}, Mk("Spread", All(<<Expect({"..."}), Expr>>))), Otherwise(Expr)>>))>>)

---------------------------------------------------------------------------
(* Running a parse function.                                             *)

Functions == [
    parseProgram |-> ParseProgram, parseStatement |-> ParseStatement,
    parseClassDecl |-> ParseClassDecl, parseExport |-> ParseExport,
    parseImport |-> ParseImport, parseLetDecl |-> ParseLetDecl,
    parseParamsOnly |-> ParseParamsOnly, parseFnDecl |-> ParseFnDecl,
    parseBlock |-> ParseBlock, parseReturn |-> ParseReturn, parseIf |-> ParseIf,
    parseControlFlowBody |-> ParseControlFlowBody, parseFor |-> ParseFor,
    parseCStyleForUpdate |-> ParseCStyleForUpdate, parseWhile |-> ParseWhile,
    parseTry |-> ParseTry, parseSwitch |-> ParseSwitch,
    parseDeclare |-> ParseDeclare, parseDeclareFunction |-> ParseDeclareFunction,
    parseTypeDecl |-> ParseTypeDecl, parseInterfaceDecl |-> ParseInterfaceDecl,
    parseIdentStmt |-> ParseIdentStmt, parseThisStmt |-> ParseThisStmt,
    parseType |-> ParseType, parseParenArrow |-> ParseParenArrow,
    parseAs |-> ParseAs, parseTernary |-> ParseTernary,
    parseNullish |-> ParseNullish, parseOr |-> ParseOr, parseAnd |-> ParseAnd,
    parseComparison |-> ParseComparison, parseAddSub |-> ParseAddSub,
    parseMulDiv |-> ParseMulDiv, parseUnary |-> ParseUnary,
    parsePostfix |-> ParsePostfix, parseCmdExpr |-> ParseCmdExpr,
    parsePrimary |-> ParsePrimary, parseOptionalTypeArgs |-> ParseOptionalTypeArgs,
    parseObjectLit |-> ParseObjectLit, parseArgList |-> ParseArgList,
    paramTypes |-> ParamType, arrowParams |-> ArrowParam, parseExpr |-> ParseArrow]

\* The parser's state: the position, the nodes read so far, the type aliases
\* declared so far, and whether it still goes.
Failed(s) == [s EXCEPT !.ok = FALSE]
Move(s, i) == [s EXCEPT !.at = i]
Emit(s, node) == [s EXCEPT !.out = Append(@, node)]

First(toks, i, Stop(_)) == CHOOSE j \in i..Len(toks) :
    Stop(j) /\ \A k \in i..(j - 1) : ~Stop(k)
Count(toks, i, j, S) == Cardinality({k \in i..j : In(toks[k], S)})
\* Groups opened and not closed before j, from i on.
Level(toks, i, j, open, close) == Count(toks, i, j - 1, open) - Count(toks, i, j - 1, close)

RECURSIVE ColonAhead(_, _, _, _), ArrowAfterType(_, _, _)
\* hasTernaryColonAhead: a colon that no other ? claims, before the group,
\* the argument or the statement ends; only a semicolon ends a statement.
ColonAhead(toks, i, group, ternaries) ==
    CASE i > Len(toks) -> FALSE
      [] In(toks[i], {"(", "[", "{"}) -> ColonAhead(toks, i + 1, group + 1, ternaries)
      [] In(toks[i], {")", "]", "}"}) ->
           group # 0 /\ ColonAhead(toks, i + 1, group - 1, ternaries)
      [] group = 0 /\ In(toks[i], {",", ";", "#eof"}) -> FALSE
      [] group = 0 /\ In(toks[i], {"?"}) -> ColonAhead(toks, i + 1, group, ternaries + 1)
      [] group = 0 /\ In(toks[i], {":"}) ->
           ternaries = 0 \/ ColonAhead(toks, i + 1, group, ternaries - 1)
      [] OTHER -> ColonAhead(toks, i + 1, group, ternaries)

ArrowAfterType(toks, i, depth) ==
    CASE i > Len(toks) -> FALSE
      [] In(toks[i], {"(", "[", "<"}) -> ArrowAfterType(toks, i + 1, depth + 1)
      [] In(toks[i], {")", "]", ">"}) -> ArrowAfterType(toks, i + 1, IF depth > 0 THEN depth - 1 ELSE 0)
      [] In(toks[i], {"=>"}) -> depth = 0
      [] depth = 0 /\ In(toks[i], {",", ";", "="}) -> FALSE
      [] OTHER -> ArrowAfterType(toks, i + 1, depth)

\* Mutant: the first ) is taken for the one that closes the group.
FirstParenArrow(toks, i) ==
    LET closes == {j \in i..Len(toks) : In(toks[j], {")"})}
    IN  /\ In(toks[i], {"("}) /\ closes # {}
        /\ In(Peek(toks, 1 + (CHOOSE j \in closes : \A k \in closes : j <= k)), {"=>"})

\* hasParenArrowAhead: the group here is followed by =>, or by a type and =>.
ParenArrowAhead(toks, i) ==
    LET closes == {j \in i..Len(toks) : Level(toks, i, j + 1, {"("}, {")"}) = 0}
        close  == CHOOSE j \in closes : \A k \in closes : j <= k
    IN  /\ In(toks[i], {"("}) /\ closes # {}
        /\ \/ In(Peek(toks, close + 1), {"=>"})
           \/ In(Peek(toks, close + 1), {":"}) /\ ArrowAfterType(toks, close + 2, 0)

Holds(look, toks, s) ==
    CASE look.far = "" ->
           /\ \A k \in 1..Len(look.sets) : In(Peek(toks, s.at + k - 1), look.sets[k])
           /\ ~In(Peek(toks, s.at), look.but)
      [] look.far = "shell" -> Peek(toks, s.at) = Tok("#string", <<"shell">>)
      [] look.far = "alias" -> In(toks[s.at], {"#ident"}) /\ toks[s.at].lit \in DOMAIN s.aliases
      [] look.far = "parenArrow" -> ParenArrowAhead(toks, s.at)
      [] look.far \in {"ternary", "propagate"} ->
           /\ In(Peek(toks, s.at), {"?"}) /\ ~In(Peek(toks, s.at + 1), {"."})
           /\ ColonAhead(toks, s.at + 1, 0, 0) <=> look.far = "ternary"

StmtKeywords == {"let", "const", "function", "export", "import", "declare", "if", "for",
    "while", "switch", "try", "return", "break", "continue"}

\* parseDeclare after its own keyword: the word after it, then everything up
\* to a statement keyword outside braces or the first brace that closes.
SkipDeclared(toks, i) ==
    LET i1 == IF In(toks[i], {"#eof"}) THEN i ELSE i + 1
        level(j) == Level(toks, i1, j, {"{"}, {"}"})
        j == First(toks, i1, LAMBDA k : \/ In(toks[k], {"#eof"})
                                       \/ (level(k) = 0 /\ In(toks[k], StmtKeywords \cup {"}"}))
                                       \/ (level(k) = 1 /\ In(toks[k], {"}"})))
    IN  IF In(toks[j], {"}"}) /\ level(j) = 1 THEN j + 1 ELSE j

SkipInterface(toks, i) ==
    LET j == First(toks, i, LAMBDA k : \/ In(toks[k], {"#eof"})
                                      \/ (In(toks[k], {"}"}) /\ Level(toks, i, k + 1, {"{"}, {"}"}) = 0))
    IN  IF In(toks[j], {"}"}) THEN j + 1 ELSE j

SkipToStmtBoundary(toks, i) ==
    LET level(j) == Level(toks, i, j, {"{"}, {"}"})
        j == First(toks, i, LAMBDA k : \/ In(toks[k], {"#eof"})
                                      \/ (level(k) = 0 /\ In(toks[k], StmtKeywords \cup {"type", "interface", ";", "}"})))
    IN  IF In(toks[j], {";"}) THEN j + 1 ELSE j

\* What the parser makes of a node once it has been read.
Built(kind, kids) ==
    CASE kind \in {"Incr", "Compound"} ->
           LET op == CASE kids[2].lit[1] \in {"++", "+="} -> "+"
                       [] kids[2].lit[1] \in {"--", "-="} -> "-" [] OTHER -> "*"
               by == IF kind = "Incr" THEN Leaf("Int", <<"1">>) ELSE kids[3]
           IN  Node("Assign", <<>>, <<kids[1],
                 Node("Binary", <<>>, <<Leaf("Ident", kids[1].lit), Leaf("Op", <<op>>), by>>)>>)
      [] kind = "Shorthand" -> Node("Field", <<>>, <<kids[1], Leaf("Ident", kids[1].lit)>>)
      [] kind = "For" /\ \E k \in DOMAIN kids : kids[k].kind = "Each" ->
           LET each == CHOOSE k \in DOMAIN kids : kids[k].kind = "Each"
           IN  Node("ForEach", <<>>, SelectSeq(kids, LAMBDA n : n.kind = "Name")
                                     \o SubSeq(kids, each + 1, Len(kids)))
      [] kind = "For" ->
           LET init == SubSeq(kids, 1, Len(kids) - 3)
           IN  Node("ForC", <<>>, <<Node(IF kids[1].kind = "Keyword" THEN "Let" ELSE "Assign", <<>>, init)>>
                                  \o SubSeq(kids, Len(kids) - 2, Len(kids)))
      [] kind = "Class" ->      \* a second constructor takes the place of the first
           LET makes(k) == kids[k].kind = "Member" /\ \E f \in DOMAIN kids[k].kids : kids[k].kids[f].kind = "Constructor"
               stays(k) == makes(k) => \A m \in (k + 1)..Len(kids) : ~makes(m)
           IN  Node("Class", <<>>, FoldLeftDomain(LAMBDA acc, k : IF stays(k) THEN Append(acc, kids[k]) ELSE acc,
                                                  <<>>, kids))
      [] kind = "Program" ->
           Node("Program", <<>>, SelectSeq(kids, LAMBDA n : n.kind = "Import")
                                 \o SelectSeq(kids, LAMBDA n : n.kind # "Import"))
      [] kind = "TupleType" -> Node("ListType", <<>>, IF kids = <<>> THEN <<Leaf("Type", <<"string">>)>>
                                                      ELSE <<kids[1]>>)
      [] kind = "ListType" /\ kids = <<>> -> Node("ListType", <<>>, <<Leaf("Type", <<"string">>)>>)
      [] OTHER -> Node(kind, <<>>, kids)

RECURSIVE Run(_, _, _), RunAll(_, _, _, _), Template(_, _, _, _), Trimmed(_)
Trimmed(text) ==
    CASE text # <<>> /\ Head(text) \in Blanks -> Trimmed(Tail(text))
      [] text # <<>> /\ text[Len(text)] \in Blanks -> Trimmed(SubSeq(text, 1, Len(text) - 1))
      [] OTHER -> text

Start(aliases) == [ok |-> TRUE, at |-> 1, out |-> <<>>, aliases |-> aliases]

\* parseEmbeddedExpr: the text of an interpolation is lexed and parsed anew.
Whole(read, toks) == IF read.ok /\ In(Peek(toks, read.at), {"#eof"}) THEN read.out ELSE <<>>
ParseEmbedded(lexed) ==
    IF lexed.ok THEN Whole(Run(Ref("parseExpr"), lexed.toks, Start(<<>>)), lexed.toks) ELSE <<>>
Embedded(text) == IF text = <<>> THEN <<>> ELSE ParseEmbedded(Tokenize(text))

\* parseTemplateLiteral from position i of the literal: the expressions of the
\* interpolations, or a failure.
Template(lit, i, exprs, ok) ==
    LET j     == FirstAt(lit, i, LAMBDA k : lit[k] = "$" /\ At(lit, k + 1) = "{")
        rest(close, expr) == Template(lit, close + 1, exprs \o expr, ok /\ expr # <<>>)
        inside(from, close) == IF close = 0 THEN [ok |-> FALSE, exprs |-> exprs]
                               ELSE rest(close, Embedded(Trimmed(SubSeq(lit, from, close - 1))))
    IN  IF j = 0 THEN [ok |-> ok, exprs |-> exprs] ELSE inside(j + 2, Closing(lit, j + 2))

Filled(s, lit, t) == IF t.ok THEN Emit(Move(s, s.at + 1), Node("Template", lit, t.exprs)) ELSE Failed(s)
Aliased(s, name, t) == IF t.ok THEN [s EXCEPT !.aliases = (name :> t.out[1]) @@ @] ELSE s

\* The parts of the parser that are more than a form of Grammar.
Perform(what, toks, s) ==
    CASE what = "skipDeclared" -> Move(s, SkipDeclared(toks, s.at))
      [] what = "skipInterface" -> Move(s, SkipInterface(toks, s.at))
      [] what = "skipToStmtBoundary" -> Move(s, SkipToStmtBoundary(toks, s.at))
      [] what = "alias" -> Emit(Move(s, s.at + 1), s.aliases[toks[s.at].lit])
      [] what = "string" -> Emit(Move(s, s.at + 1), Leaf("Type", <<"string">>))
      [] what = "template" ->
           Filled(s, toks[s.at].lit, Template(toks[s.at].lit, 1, <<>>, TRUE))
      [] what = "typeDecl" ->
           \* parseTypeDecl: the alias is read ahead and the position put back
           LET named   == In(toks[s.at], {"#ident"})
               i1      == IF named THEN s.at + 1 ELSE s.at
               generic == In(toks[i1], {"<"})
               i2      == IF ~generic THEN i1
                          ELSE First(toks, i1, LAMBDA k : \/ In(toks[k], {"#eof"})
                                 \/ (In(toks[k], {">"}) /\ Level(toks, i1, k + 1, {"<"}, {">"}) = 0)) + 1
               i3      == First(toks, IF i2 > Len(toks) THEN Len(toks) ELSE i2, LAMBDA k : ~In(toks[k], {";"}))
           IN  IF ~In(toks[i3], {"="}) THEN Move(s, i3)
               ELSE IF ~named \/ generic THEN Move(s, i3 + 1)
               ELSE Aliased(Move(s, i3 + 1), toks[s.at].lit,
                            Run(Type, toks, [Move(s, i3 + 1) EXCEPT !.out = <<>>]))

RunAll(of, k, toks, s) ==
    IF k > Len(of) \/ ~s.ok THEN s ELSE RunAll(of, k + 1, toks, Run(of[k], toks, s))

\* The first alternative that holds, 0 when none does.
Chosen(alts, toks, s) ==
    LET fits == {k \in DOMAIN alts : Holds(alts[k].look, toks, s)}
    IN  IF fits = {} THEN 0 ELSE CHOOSE k \in fits : \A m \in fits : k <= m

Run(form, toks, s) ==
    LET n == Len(s.out)
        inner(g) == Run(g.of, toks, [s EXCEPT !.out = <<>>])
        then(g, k) == Run(g.alts[k].then, toks, s)
    IN  CASE ~s.ok -> s
          [] form.op = "ref" -> Run(Functions[form.name], toks, s)
          [] form.op = "expect" -> IF In(Peek(toks, s.at), form.set) THEN Move(s, s.at + 1) ELSE Failed(s)
          [] form.op = "take" -> IF In(Peek(toks, s.at), form.set)
                                 THEN Emit(Move(s, s.at + 1), Leaf(form.kind, toks[s.at].lit)) ELSE Failed(s)
          [] form.op = "all" -> RunAll(form.of, 1, toks, s)
          [] form.op = "do" -> Perform(form.what, toks, s)
          [] form.op \in {"choice", "many"} ->
               LET k == Chosen(form.alts, toks, s)
               IN  CASE k # 0 /\ form.op = "many" -> Run(form, toks, then(form, k))
                     [] k # 0 -> then(form, k)
                     [] OTHER -> IF form.op = "many" THEN s ELSE Failed(s)
          [] form.op = "drop" -> [inner(form) EXCEPT !.out = s.out]
          [] form.op = "mk" -> [inner(form) EXCEPT !.out = Append(s.out, Built(form.kind, @))]
          [] form.op = "wrap" -> [inner(form) EXCEPT
               !.out = Append(SubSeq(s.out, 1, n - 1), Built(form.kind, <<s.out[n]>> \o @))]

\* Parse, after the lexer: the tree of the tokens, or a failure.
Outcome(read) == IF read.ok THEN [ok |-> TRUE, tree |-> read.out[1]] ELSE [ok |-> FALSE, tree |-> Leaf("None", <<>>)]
ParseToks(toks) == Outcome(Run(Ref("parseProgram"), toks, Start(<<>>)))
=============================================================================
