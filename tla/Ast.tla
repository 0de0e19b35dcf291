--------------------------------- MODULE Ast ---------------------------------
(***************************************************************************)
(* The syntax tree (internal/ast): for every kind of node, the children it *)
(* has.  A field of a Go structure is a child here, or the literal.        *)
(***************************************************************************)
EXTENDS Grammar, TLC

Once(S)  == [of |-> S, least |-> 1, many |-> FALSE]
Maybe(S) == [of |-> S, least |-> 0, many |-> FALSE]
AnyOf(S) == [of |-> S, least |-> 0, many |-> TRUE]

Types == {"Type", "ListType", "SetType", "ObjectType", "FunctionType"}
Exprs == {"Int", "Float", "String", "Template", "Bool", "Nothing", "List", "Object", "Arrow", "Ident",
          "Constant", "New", "This", "Binary", "Ternary", "Unary", "Update", "Cmd", "Call", "Builtin",
          "Propagate", "Index", "OptionalIndex", "Method", "Property", "Optional", "Spread", "As"}
Stmts == {"Let", "Destructure", "Assign", "IndexAssign", "PropertyAssign", "Fn", "Class", "Block", "If",
          "ForEach", "ForC", "While", "Try", "Switch", "Return", "ExprStmt", "Declare", "DeclareFn",
          "Break", "Continue", "Export"}

\* Type: a list's or a set's elements, an object's values, a function's
\* parameters followed by its result.
TypeShapes == [
    ListType     |-> <<Once(Types)>>,
    SetType      |-> <<Once(Types)>>,
    ObjectType   |-> <<Once(Types)>>,
    FunctionType |-> <<AnyOf(Types)>>]

\* Program, imports and the statements that bind or write names.
BindingShapes == [
    Program        |-> <<AnyOf({"Import"}), AnyOf(Stmts)>>,
    Import         |-> <<Maybe({"DefaultName"}), AnyOf({"Name"}), Once({"Source"}), Maybe({"AssertType"})>>,
    Export         |-> <<Once({"DeclareFn", "Class", "Fn", "Let", "Default"})>>,
    Default        |-> <<Once(Exprs)>>,
    Let            |-> <<Maybe({"Keyword"}), Once({"Name"}), Maybe(Types), Once(Exprs)>>,
    Destructure    |-> <<Once({"Keyword"}), AnyOf({"Name"}), Once(Exprs)>>,
    Assign         |-> <<Once({"Name"}), Once(Exprs)>>,
    IndexAssign    |-> <<Once({"Name"}), Once(Exprs), Once(Exprs)>>,
    PropertyAssign |-> <<Once({"Name"}), Once({"Name"}), Once(Exprs)>>,
    Fn             |-> <<Once({"Name"}), AnyOf({"Param"}), Maybe(Types), Once({"Block"})>>,
    DeclareFn      |-> <<Once({"Name"}), AnyOf({"Param"}), Maybe(Types)>>,
    Param          |-> <<Once({"Name"}), Maybe(Types)>>]

\* Classes: fields, methods, the constructor and accessors.
ClassShapes == [
    Class  |-> <<Once({"Name"}), AnyOf({"Member"})>>,
    Member |-> <<AnyOf({"Static"}), Maybe({"Accessor", "Constructor"}), Maybe({"Name"}), AnyOf({"Param"}),
                 Maybe(Types), Maybe({"Block"} \cup Exprs)>>]

\* Blocks and the statements that decide what runs.
ControlShapes == [
    Block    |-> <<AnyOf(Stmts)>>,
    If       |-> <<Once(Exprs), Once({"Block"}), AnyOf({"ElseIf"}), Maybe({"Else"})>>,
    ElseIf   |-> <<Once(Exprs), Once({"Block"})>>,
    Else     |-> <<Once({"Block"})>>,
    ForEach  |-> <<Once({"Name"}), Once(Exprs), Once({"Block"})>>,
    ForC     |-> <<Once({"Let", "Assign"}), Once(Exprs), Once({"Assign"}), Once({"Block"})>>,
    While    |-> <<Once(Exprs), Once({"Block"})>>,
    Try      |-> <<Once({"Block"}), Once({"Name"}), Once({"Block"})>>,
    Switch   |-> <<Once(Exprs), AnyOf({"Case"})>>,
    Case     |-> <<Once({"DefaultCase"} \cup Exprs), Once({"Block"})>>,
    Return   |-> <<Maybe(Exprs)>>,
    ExprStmt |-> <<Once(Exprs)>>]

\* Expressions that stand for a value, literal or built.
ValueShapes == [
    Template |-> <<AnyOf(Exprs)>>,
    List     |-> <<AnyOf(Exprs)>>,
    Object   |-> <<AnyOf({"Field", "Spread"})>>,
    Field    |-> <<Once({"Name"}), Once(Exprs)>>,
    Constant |-> <<Once({"Name"})>>,
    Arrow    |-> <<AnyOf({"Param"}), Maybe(Types), Once(Exprs \cup {"Block"})>>,
    New      |-> <<Once({"Name"}), AnyOf(Types), AnyOf(Exprs)>>]

\* Operators, calls and the ways into a value.
OperatorShapes == [
    Binary        |-> <<Once(Exprs), Once({"Op"}), Once(Exprs)>>,
    Ternary       |-> <<Once(Exprs), Once(Exprs), Once(Exprs)>>,
    Unary         |-> <<Once({"Op"}), Once(Exprs)>>,
    Update        |-> <<Once({"Op"}), Once({"Name"})>>,
    Cmd           |-> <<AnyOf(Exprs)>>,
    Call          |-> <<Once({"Name"}), AnyOf(Exprs)>>,
    Builtin       |-> <<Maybe({"Group"}), Once({"Name"}), AnyOf(Exprs)>>,
    Propagate     |-> <<Once(Exprs)>>,
    Index         |-> <<Once(Exprs), Once(Exprs)>>,
    OptionalIndex |-> <<Once(Exprs), Once(Exprs)>>,
    Method        |-> <<Once(Exprs), Once({"Name"}), AnyOf(Exprs)>>,
    Property      |-> <<Once(Exprs), Once({"Name"})>>,
    Optional      |-> <<Once({"Method", "Property"})>>,
    Spread        |-> <<Once(Exprs)>>,
    As            |-> <<Once(Exprs), Once(Types)>>]

Shapes == TypeShapes @@ BindingShapes @@ ClassShapes @@ ControlShapes @@ ValueShapes @@ OperatorShapes
Leaves == (Types \cup Exprs \cup Stmts \cup {"Name", "DefaultName", "Source", "AssertType", "Keyword", "Op",
           "Static", "Accessor", "Constructor", "DefaultCase", "Group"}) \ DOMAIN Shapes

RECURSIVE Fits(_, _, _, _), IsTree(_)
\* The children from k on fit the parts of a shape from j on.
Fits(kids, k, parts, j) ==
    LET run  == {i \in k..Len(kids) : \A h \in k..i : kids[h].kind \in parts[j].of}
        used == IF parts[j].many \/ run = {} THEN Cardinality(run) ELSE 1
    IN  IF j > Len(parts) THEN k > Len(kids)
        ELSE used >= parts[j].least /\ Fits(kids, k + used, parts, j + 1)

\* n is a tree of the package ast.
IsTree(n) ==
    IF n.kind \in DOMAIN Shapes
    THEN Fits(n.kids, 1, Shapes[n.kind], 1) /\ \A k \in DOMAIN n.kids : IsTree(n.kids[k])
    ELSE n.kind \in Leaves /\ n.kids = <<>>
=============================================================================
