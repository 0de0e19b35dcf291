----------------------------- MODULE Validator -----------------------------
(***************************************************************************)
(* The semantic validator (internal/semantics/validator.go): one walk over *)
(* a tree that carries the scopes, the constants and where it is, and      *)
(* stops at the first error.                                               *)
(***************************************************************************)
EXTENDS Parser, TLC

---------------------------------------------------------------------------
(* Nodes.                                                                *)

KidsOf(n, kinds) == SelectSeq(n.kids, LAMBDA k : k.kind \in kinds)
NameOf(n) == KidsOf(n, {"Name"})[1].lit
TypeKinds == {"Type", "ListType", "SetType", "ObjectType", "FunctionType"}
LastKid(n) == n.kids[Len(n.kids)]
None == Leaf("None", <<>>)
HasType(n) == KidsOf(n, TypeKinds) # <<>>
TypeOf(n) == IF HasType(n) THEN KidsOf(n, TypeKinds)[1] ELSE None
Params(n) == KidsOf(n, {"Param"})
Bare(n) == IF n.kind = "Export" THEN n.kids[1] ELSE n
RECURSIVE UnwrapAs(_), StmtsIn(_)
UnwrapAs(n) == IF n.kind = "As" THEN UnwrapAs(n.kids[1]) ELSE n

\* Arguments of a call of any kind, and a builtin's full name.
ArgsOf(n) == CASE n.kind = "Method" -> SubSeq(n.kids, 3, Len(n.kids))
               [] n.kind = "Builtin" /\ n.kids[1].kind = "Group" -> SubSeq(n.kids, 3, Len(n.kids))
               [] n.kind \in {"Builtin", "Call"} -> Tail(n.kids)
               [] n.kind = "New" -> SelectSeq(Tail(n.kids), LAMBDA k : k.kind \notin TypeKinds)
               [] OTHER -> n.kids
BuiltinOf(n) == IF n.kind # "Builtin" THEN <<>>
                ELSE IF n.kids[1].kind = "Group" THEN n.kids[1].lit \o n.kids[2].lit
                ELSE n.kids[1].lit
Method(n) == IF n.kind = "Method" THEN n.kids[2].lit[1] ELSE ""
IsIdent(n, name) == n.kind = "Ident" /\ n.lit = <<name>>
IsThis(n) == n.kind = "PropertyAssign" /\ n.kids[1].lit = <<"this">>

\* Every statement under n that runs with it: not those of a nested function.
StmtsIn(n) == {n} \cup
    (IF n.kind \in {"Block", "If", "ElseIf", "Else", "ForEach", "ForC", "While", "Try", "Switch", "Case"}
     THEN UNION {StmtsIn(n.kids[k]) : k \in DOMAIN n.kids} ELSE {})
BodyReturnsValue(body) == \E s \in StmtsIn(body) : s.kind = "Return" /\ s.kids # <<>>
BodyMutatesThis(body) == \E s \in StmtsIn(body) : IsThis(s)

---------------------------------------------------------------------------
(* The walk's state: scopes from the outermost in, constants by name for  *)
(* the whole file, signatures of the file's functions, the first error.   *)

Put(f, k, v) == (k :> v) @@ f
Define(e, name, t) == [e EXCEPT !.vars[Len(e.vars)] = Put(@, name, t)]
Known(e, name) == \E k \in DOMAIN e.vars : name \in DOMAIN e.vars[k]
Lookup(e, name) ==
    e.vars[CHOOSE k \in DOMAIN e.vars : /\ name \in DOMAIN e.vars[k]
                                         /\ \A m \in (k + 1)..Len(e.vars) : name \notin DOMAIN e.vars[m]][name]
Push(e) == [e EXCEPT !.vars = Append(@, <<>>)]
\* Mutant: the names of a scope outlive it.
BackLeaking(inner, e) == [inner EXCEPT !.inFunction = e.inFunction, !.inLoop = e.inLoop, !.inCallback = e.inCallback]
\* A scope or a function is left: names and places are as before, constants stay.
Back(inner, e) == [inner EXCEPT !.vars = e.vars, !.inFunction = e.inFunction,
                                !.inLoop = e.inLoop, !.inCallback = e.inCallback]
Demand(e, holds, what) == IF e.err = "" /\ ~holds THEN [e EXCEPT !.err = what] ELSE e

RECURSIVE DefineAll(_, _, _)
DefineAll(e, ns, constant) ==
    IF ns = <<>> THEN e
    ELSE LET n    == Head(ns)
             name == IF n.kind = "Name" THEN n.lit ELSE NameOf(n)
             t    == IF n.kind = "Name" THEN Leaf("Type", <<"string">>) ELSE TypeOf(n)
         IN  DefineAll([Define(e, name, t) EXCEPT !.consts = IF constant THEN @ \cup {name} ELSE @],
                       Tail(ns), constant)
IsConst(n) == KidsOf(n, {"Keyword"}) # <<>> /\ KidsOf(n, {"Keyword"})[1].lit = <<"const">>
\* The name a declaration binds; an export default binds the name default.
Declared(n) == IF n.kind = "Default" THEN <<"default">> ELSE NameOf(n)
Constant(n) == n.kind = "Default" \/ IsConst(n)

---------------------------------------------------------------------------
(* Types.                                                                *)

Basic(name) == Leaf("Type", <<name>>)
ListOf(t) == Node("ListType", <<>>, <<t>>)
KindOf(t) == CASE t.kind = "Type" -> t.lit[1] [] t.kind = "ListType" -> "list"
               [] t.kind = "SetType" -> "set" [] t.kind = "ObjectType" -> "object"
               [] t.kind = "FunctionType" -> "function" [] OTHER -> "nil"
Function(params, ret) == Node("FunctionType", <<>>, Append(params, ret))
OrString(t) == IF t.kind = "None" THEN Basic("string") ELSE t
OrVoid(t) == IF t.kind = "None" THEN Basic("void") ELSE t

BeshtGroup(n) == IF n.kind = "Property" /\ IsIdent(n.kids[1], "Besht")
                    /\ n.kids[2].lit[1] \in {"fs", "strings", "args", "iter"}
                 THEN n.kids[2].lit[1] ELSE ""
BeshtBuiltins == {<<"fs", "isFile">>, <<"fs", "isDir">>, <<"fs", "isReadable">>, <<"fs", "isWritable">>,
                  <<"fs", "isExecutable">>, <<"strings", "isEmpty">>, <<"strings", "isNonEmpty">>,
                  <<"iter", "range">>}

\* What a method of each kind of receiver returns, where it is one type.
Returns == [
    command |-> [readStdout |-> Basic("string"), readStderr |-> Basic("string"),
                 readStdoutLines |-> ListOf(Basic("string")), exitCode |-> Basic("number")],
    fetch   |-> [text |-> Basic("string")],
    set     |-> [has |-> Basic("boolean"), add |-> Basic("void")],
    list    |-> [m \in {"join", "toString", "toLocaleString"} |-> Basic("string")]
                @@ [m \in {"includes", "some", "every"} |-> Basic("boolean")]
                @@ [m \in {"length", "indexOf", "lastIndexOf", "findIndex", "findLastIndex"} |-> Basic("number")],
    string  |-> [m \in {"includes", "startsWith", "endsWith"} |-> Basic("boolean")]
                @@ [m \in {"indexOf", "lastIndexOf", "localeCompare"} |-> Basic("number")]
                @@ [split |-> ListOf(Basic("string"))],
    number  |-> [m \in {"toString", "toLocaleString", "toFixed"} |-> Basic("string")]]
SameList == {"pop", "shift", "push", "unshift", "concat", "slice", "filter", "reverse",
             "toReversed", "sort", "toSorted", "toSpliced", "fill"}

BuiltinType(name) ==
    CASE name = <<"fetch">> -> Basic("fetch")
      [] name \in {<<"Boolean">>, <<"Array", "isArray">>, <<"Object", "hasOwn">>, <<"Object", "is">>,
                   <<"Number", "isFinite">>, <<"Number", "isInteger">>, <<"Number", "isSafeInteger">>,
                   <<"Number", "isNaN">>, <<"isFinite">>, <<"isNaN">>} -> Basic("boolean")
      [] name \in {<<"Number", "parseInt">>, <<"Number", "parseFloat">>, <<"parseInt">>,
                   <<"parseFloat">>} -> Basic("number")
      [] name \in {<<"Array", "from">>, <<"Array", "of">>, <<"Object", "keys">>,
                   <<"Object", "values">>} -> ListOf(Basic("string"))
      [] name = <<"Object", "entries">> -> ListOf(ListOf(Basic("string")))
      [] name \in {<<"Object", "assign">>, <<"Object", "fromEntries">>} -> Basic("object")
      [] name = <<"JSON", "parse">> -> Basic("JSONValue")
      [] name \in {<<"console", "log">>, <<"console", "error">>} -> Basic("void")
      [] OTHER -> Basic("string")

RECURSIVE ExprType(_, _), MethodType(_, _), CallbackType(_, _), BlockType(_, _)
\* blockReturnType: of the first return found, looking into ifs only.
BlockType(n, e) ==
    LET typed == SelectSeq(n.kids, LAMBDA s : \/ s.kind = "Return"
                   \/ (s.kind \in {"If", "ElseIf", "Else", "Block"} /\ BlockType(s, e).kind # "None"))
    IN  CASE typed = <<>> -> None
          [] typed[1].kind = "Return" -> IF typed[1].kids = <<>> THEN Basic("void")
                                         ELSE ExprType(typed[1].kids[1], e)
          [] OTHER -> BlockType(typed[1], e)
\* arrowReturnType
ArrowType(n, e) ==
    IF HasType(n) THEN TypeOf(n)
    ELSE IF LastKid(n).kind = "Block" THEN OrVoid(BlockType(LastKid(n), e))
    ELSE OrString(ExprType(LastKid(n), e))
\* callbackReturnType
CallbackType(n, e) ==
    LET t == ExprType(n, e)
    IN  CASE n.kind = "As" /\ KindOf(n.kids[2]) # "function" -> CallbackType(n.kids[1], e)
          [] n.kind = "Ident" /\ n.lit \in DOMAIN e.fns -> e.fns[n.lit]
          [] KindOf(t) = "function" -> LastKid(t)
          [] OTHER -> None

MethodType(n, e) ==
    LET recv  == n.kids[1]
        group == BeshtGroup(recv)
        m     == Method(n)
        t     == ExprType(recv, e)
        kind  == KindOf(t)
        back  == IF ArgsOf(n) = <<>> THEN None ELSE CallbackType(ArgsOf(n)[1], e)
        elem  == IF KindOf(back) \in {"nil", "void"} THEN Basic("string") ELSE back
    IN  CASE <<group, m>> = <<"iter", "range">> -> ListOf(Basic("number"))
          [] <<group, m>> \in BeshtBuiltins \/ <<group, m>> = <<"args", "flag">> -> Basic("boolean")
          [] <<group, m>> = <<"args", "argv">> -> ListOf(Basic("string"))
          [] IsIdent(recv, "Math") -> Basic("number")
          [] IsIdent(recv, "process") /\ m = "exit" -> Basic("void")
          [] kind \in DOMAIN Returns /\ m \in DOMAIN Returns[kind] -> Returns[kind][m]
          [] kind = "command" \/ (kind = "list" /\ m \in SameList) -> t
          [] kind = "list" /\ m \in {"find", "findLast", "at"} -> LastKid(t)
          [] kind = "list" /\ m = "map" -> ListOf(elem)
          [] kind = "list" /\ m = "flatMap" -> IF KindOf(elem) = "list" THEN elem ELSE ListOf(elem)
          [] kind = "list" /\ m \in {"reduce", "reduceRight"} /\ Len(ArgsOf(n)) = 2 ->
               ExprType(ArgsOf(n)[2], e)
          [] kind = "number" -> Basic("number")
          [] kind \in {"boolean", "status"} /\ m = "valueOf" -> t
          [] OTHER -> Basic("string")

BinaryType(n, e) ==
    LET op    == n.kids[2].lit[1]
        left  == ExprType(n.kids[1], e)
        right == ExprType(n.kids[3], e)
    IN  CASE op \in Comparisons \cup {"&&", "||"} -> Basic("boolean")
          [] op \in {"-", "*", "/", "%"} -> Basic("number")
          [] op = "??" -> IF left.kind = "None" THEN right ELSE left
          [] OTHER -> IF KindOf(left) = "number" /\ KindOf(right) = "number"
                      THEN Basic("number") ELSE Basic("string")

AccessType(n, e) ==
    LET t == ExprType(n.kids[1], e)
        property == n.kind = "Property"
    IN  CASE property /\ IsIdent(n.kids[1], "process") /\ n.kids[2].lit = <<"env">> -> Basic("object")
          [] KindOf(t) = "JSONValue" -> Basic("JSONValue")
          [] property -> IF KindOf(t) \in {"list", "string"} /\ n.kids[2].lit = <<"length">>
                         THEN Basic("number") ELSE None
          [] OTHER -> IF KindOf(t) = "list" THEN LastKid(t) ELSE Basic("string")

\* semanticExprType; None where the code returns nil.
ExprType(n, e) ==
    CASE n.kind = "As" -> n.kids[2]
      [] n.kind \in {"Int", "Float", "Constant", "Update"} -> Basic("number")
      [] n.kind = "Bool" -> Basic("boolean")
      [] n.kind = "Ident" -> IF Known(e, n.lit) THEN Lookup(e, n.lit)
                             ELSE IF n.lit \in DOMAIN e.fns THEN Function(<<>>, e.fns[n.lit])
                             ELSE Basic("string")
      [] n.kind = "List" -> ListOf(IF n.kids = <<>> THEN Basic("string") ELSE OrString(ExprType(n.kids[1], e)))
      [] n.kind = "New" /\ NameOf(n) = <<"Set">> -> Node("SetType", <<>>, <<OrString(TypeOf(n))>>)
      [] n.kind \in {"Object", "This", "New"} -> Basic("object")
      [] n.kind = "Cmd" -> Basic("command")
      [] n.kind \in {"Propagate", "Spread", "Optional"} -> ExprType(n.kids[1], e)
      [] n.kind = "Call" -> IF NameOf(n) \in DOMAIN e.fns THEN e.fns[NameOf(n)]
                            ELSE IF Known(e, NameOf(n)) /\ KindOf(Lookup(e, NameOf(n))) = "function"
                            THEN LastKid(Lookup(e, NameOf(n))) ELSE Basic("string")
      [] n.kind = "Builtin" -> BuiltinType(BuiltinOf(n))
      [] n.kind = "Method" -> MethodType(n, e)
      [] n.kind \in {"Property", "Index", "OptionalIndex"} -> AccessType(n, e)
      [] n.kind = "Binary" -> BinaryType(n, e)
      [] n.kind = "Ternary" -> ExprType(n.kids[2], e)
      [] n.kind = "Unary" -> IF n.kids[1].lit = <<"!">> THEN Basic("boolean") ELSE ExprType(n.kids[2], e)
      [] n.kind = "Arrow" -> Function([k \in DOMAIN Params(n) |-> OrString(TypeOf(Params(n)[k]))], ArrowType(n, e))
      [] OTHER -> Basic("string")

---------------------------------------------------------------------------
(* How many arguments a builtin or a method takes.                       *)

Many9 == 9      \* more arguments than any call has
Exactly(S, k) == [m \in S |-> k..k]
BuiltinArity ==
    Exactly({<<"fetch">>, <<"Boolean">>, <<"String">>, <<"Array", "isArray">>, <<"isFinite">>, <<"isNaN">>,
             <<"Number", "isFinite">>, <<"Number", "isInteger">>, <<"Number", "isSafeInteger">>,
             <<"Number", "isNaN">>, <<"Array", "from">>, <<"Object", "keys">>, <<"Object", "values">>,
             <<"Object", "entries">>, <<"Object", "fromEntries">>, <<"JSON", "parse">>,
             <<"JSON", "stringify">>}, 1)
    @@ Exactly({<<"Object", "hasOwn">>, <<"Object", "is">>}, 2)
    @@ [m \in {<<"parseInt">>, <<"parseFloat">>, <<"Number", "parseInt">>, <<"Number", "parseFloat">>} |-> 1..2]
    @@ [m \in {<<"Object", "assign">>} |-> 1..Many9]

ListArity ==
    Exactly({"push", "unshift", "includes", "indexOf", "lastIndexOf", "join", "at", "concat", "map", "flatMap",
             "filter", "some", "every", "find", "findIndex", "findLast", "findLastIndex", "forEach"}, 1)
    @@ Exactly({"pop", "shift", "reverse", "toReversed", "sort", "toSorted", "toString", "toLocaleString"}, 0)
    @@ Exactly({"reduce", "reduceRight"}, 2)
    @@ [fill |-> 1..3, toSpliced |-> 1..Many9, slice |-> 1..2]
StringArity ==
    Exactly({"toString", "toLocaleString", "valueOf", "trim", "trimStart", "trimEnd", "trimLeft", "trimRight",
             "toUpperCase", "toLowerCase", "toLocaleUpperCase", "toLocaleLowerCase"}, 0)
    @@ Exactly({"split", "repeat", "at", "charAt", "localeCompare"}, 1)
    @@ Exactly({"replace", "replaceAll"}, 2)
    @@ [m \in {"includes", "startsWith", "endsWith", "indexOf", "lastIndexOf", "slice", "substring",
               "substr", "padStart", "padEnd"} |-> 1..2]
    @@ [concat |-> 1..Many9]
NumberArity == Exactly({"toString", "toLocaleString", "valueOf"}, 0) @@ [toFixed |-> 0..1]
CommandArity ==
    Exactly({"run", "readStdout", "readStdoutLines", "readStderr", "exitCode", "clone"}, 0)
    @@ Exactly({"pipe", "stderr", "workdir"}, 1) @@ Exactly({"env"}, 2) @@ [stdout |-> 1..2]
MathArity == Exactly({"min", "max", "pow"}, 2)
    @@ Exactly({"round", "floor", "ceil", "abs", "sqrt", "trunc", "sign"}, 1)
ArgsArity == [argv |-> 0..0, positional |-> 1..1, option |-> 1..2, flag |-> 1..2]

Takes(table, m, n) == m \in DOMAIN table /\ Len(ArgsOf(n)) \in table[m]
\* callbackArrowExpr, isCallbackValue: what a list method accepts as a callback.
CallbackOK(n, m, e) ==
    LET f == UnwrapAs(ArgsOf(n)[1])
    IN  IF f.kind = "Arrow"
        THEN /\ Len(Params(f)) \in (IF m \in {"reduce", "reduceRight"} THEN 2..2 ELSE 1..2)
             /\ m \in {"some", "every", "find", "findIndex", "findLast", "findLastIndex"}
                  => LastKid(f).kind # "Block"
        ELSE IF f.kind = "Ident" THEN f.lit \in DOMAIN e.fns \/ Known(e, f.lit)
        ELSE KindOf(ExprType(f, e)) = "function"
Callbacks == {"map", "flatMap", "filter", "some", "every", "find", "findIndex", "findLast",
              "findLastIndex", "forEach", "reduce", "reduceRight"}

IsShellIdentifier(lit) == /\ lit # <<>> /\ lit[1] \in Words
                          /\ ToSet(lit) \subseteq Words \cup Digits

\* checkMethodArity
MethodOK(n, e) ==
    LET recv  == n.kids[1]
        group == BeshtGroup(recv)
        m     == Method(n)
        kind  == KindOf(ExprType(recv, e))
    IN  CASE <<group, m>> \in BeshtBuiltins -> Len(ArgsOf(n)) = (IF m = "range" THEN 2 ELSE 1)
          [] group = "args" -> Takes(ArgsArity, m, n)
          [] group # "" -> FALSE
          [] IsIdent(recv, "Math") -> Takes(MathArity, m, n)
          [] IsIdent(recv, "process") -> m = "exit" /\ Len(ArgsOf(n)) <= 1
          [] kind = "command" -> Takes(CommandArity, m, n)
                                 /\ (m = "env" => ArgsOf(n)[1].kind = "String" /\ IsShellIdentifier(ArgsOf(n)[1].lit))
          [] kind = "fetch" -> m = "text" /\ ArgsOf(n) = <<>>
          [] kind = "set" -> m \in {"has", "add"} /\ Len(ArgsOf(n)) = 1
          [] kind = "list" -> Takes(ListArity, m, n) /\ (m \in Callbacks => CallbackOK(n, m, e))
          [] kind = "string" -> Takes(StringArity, m, n)
          [] kind = "number" -> Takes(NumberArity, m, n)
          [] kind \in {"boolean", "status"} -> m \in {"toString", "toLocaleString", "valueOf"} /\ ArgsOf(n) = <<>>
          [] OTHER -> TRUE

\* validateJSONStringifyArg
Scalar(t) == KindOf(t) \in {"nil", "string", "number", "boolean"}
StringifyOK(n, e) ==
    LET t == ExprType(n, e)
        o == UnwrapAs(n)
    IN  /\ Scalar(t) \/ KindOf(t) \in {"object", "JSONValue"} \/ (KindOf(t) = "list" /\ Scalar(LastKid(t)))
        /\ o.kind = "Object" => \A k \in DOMAIN o.kids :
             o.kids[k].kind = "Field" => Scalar(ExprType(o.kids[k].kids[2], e))

---------------------------------------------------------------------------
(* The walk.                                                             *)

Globals == {<<"Besht">>, <<"process">>, <<"Math">>, <<"Number">>, <<"Object">>, <<"Array">>,
            <<"Boolean">>, <<"String">>, <<"JSON">>, <<"console">>, <<"Set">>}

\* An assignment to a name: no constant of the file has it, and it is known.
Writes(e, name) == Demand(Demand(e, name \notin e.consts, "const"), Known(e, name), "undeclared")

\* The members of a class: fields, static fields, a constructor, methods, accessors.
MemberSort(m) ==
    CASE LastKid(m).kind # "Block" -> IF KidsOf(m, {"Static"}) = <<>> THEN "field" ELSE "static"
      [] KidsOf(m, {"Constructor"}) # <<>> -> "constructor"
      [] KidsOf(m, {"Accessor"}) # <<>> -> "accessor"
      [] OTHER -> "method"
Members(n, sort) == SelectSeq(n.kids, LAMBDA m : m.kind = "Member" /\ MemberSort(m) = sort)
AccessorKind(m) == KidsOf(m, {"Accessor"})[1].lit
\* The name of the function an accessor becomes, get_x or set_x.
AccessorName(kind, m) == kind \o <<"_">> \o NameOf(m)

\* Accessors are told from the fields, from the methods and from one another.
AccessorsApart(n) ==
    LET accessors == Members(n, "accessor")
        names(sort) == {NameOf(m) : m \in ToSet(Members(n, sort))}
    IN  \A k \in DOMAIN accessors :
          LET a == accessors[k]
          IN  /\ NameOf(a) \notin names("field") \cup names("static")
              /\ {AccessorName(<<kind>>, a) : kind \in {"get", "set"}} \cap names("method") = {}
              /\ \A j \in 1..(k - 1) : NameOf(accessors[j]) = NameOf(a) => AccessorKind(accessors[j]) # AccessorKind(a)
\* What a method or an accessor may be, before its body is walked.
MemberOK(m) ==
    LET kind == AccessorKind(m)
    IN  CASE MemberSort(m) = "method" -> ~(BodyReturnsValue(LastKid(m)) /\ BodyMutatesThis(LastKid(m)))
          [] MemberSort(m) = "accessor" ->
               /\ Len(Params(m)) = (IF kind = <<"get">> THEN 0 ELSE 1)
               /\ kind = <<"set">> => KindOf(TypeOf(m)) \in {"nil", "void"}
               /\ kind = <<"get">> => ~BodyMutatesThis(LastKid(m))
          [] OTHER -> TRUE

RECURSIVE Check(_, _), CheckAll(_, _)
CheckAll(ns, e) == IF ns = <<>> \/ e.err # "" THEN e ELSE CheckAll(Tail(ns), Check(Head(ns), e))
\* checkSemanticBlock, and the body of a function or of a loop in its scope.
CheckBlock(n, e) == Back(CheckAll(n.kids, Push(e)), e)
\* Mutant: the parameters are not defined.
CheckBodyBare(n, params, e) == CheckAll(LastKid(n).kids, Push(e))
CheckBody(n, params, e) == CheckAll(LastKid(n).kids, DefineAll(Push(e), params, FALSE))

\* What runs a block again or in its turn.
CheckFlow(n, e) ==
    CASE n.kind = "ForEach" ->
           LET r == Check(n.kids[2], e)
           IN  Back(CheckBody(n, <<n.kids[1]>>, [r EXCEPT !.inLoop = TRUE]), r)
      [] n.kind = "ForC" ->
           LET init == n.kids[1]
               own  == IF init.kind = "Assign" THEN Define(Push(e), NameOf(init), Basic("number")) ELSE Push(e)
               head == CheckAll(SubSeq(n.kids, 1, 3), own)
           IN  Back(CheckAll(LastKid(n).kids, [head EXCEPT !.inLoop = TRUE]), e)
      [] n.kind = "While" ->
           LET r == Check(n.kids[1], e) IN Back(Check(n.kids[2], [r EXCEPT !.inLoop = TRUE]), e)
      [] n.kind = "Try" ->
           LET r == Check(n.kids[1], e)
           IN  Back(CheckAll(n.kids[3].kids, Define(Push(r), NameOf(n), Basic("status"))), e)
      [] n.kind = "Switch" ->
           LET r == Check(n.kids[1], e) IN Back(CheckAll(Tail(n.kids), [r EXCEPT !.inLoop = TRUE]), e)

\* The members of a class are walked sort by sort.
CheckClass(n, e) ==
    LET fields == CheckAll(Members(n, "field") \o Members(n, "static"), Define(e, NameOf(n), Basic("object")))
    IN  CheckAll(Members(n, "constructor") \o Members(n, "method") \o Members(n, "accessor"),
                 Demand(fields, AccessorsApart(n), "class"))
CheckMember(n, e) ==
    IF LastKid(n).kind # "Block" THEN CheckAll(n.kids, e)
    ELSE Back(CheckBody(n, Params(n), [Demand(e, MemberOK(n), "class") EXCEPT !.inFunction = TRUE]), e)

\* checkSemanticExpr
CheckExpr(n, e) ==
    CASE n.kind = "Ident" -> Demand(e, n.lit \in Globals \/ n.lit \in DOMAIN e.fns \/ Known(e, n.lit), "undeclared")
      [] n.kind = "New" -> CheckAll(ArgsOf(n), Demand(e, NameOf(n) = <<"Set">> => ArgsOf(n) = <<>>, "new"))
      [] n.kind = "Call" -> CheckAll(n.kids,
           Demand(e, NameOf(n) \in DOMAIN e.fns \/ Known(e, NameOf(n)), "undeclared"))
      [] n.kind = "Builtin" ->
           LET name  == BuiltinOf(n)
               args  == ArgsOf(n)
               arity == Demand(e, name \in DOMAIN BuiltinArity => Len(args) \in BuiltinArity[name], "arity")
               fixed == Demand(arity, name = <<"Object", "assign">> /\ UnwrapAs(args[1]).kind = "Ident"
                                        => UnwrapAs(args[1]).lit \notin e.consts, "const")
           IN  IF arity.err # "" THEN arity
               ELSE Demand(CheckAll(args, fixed), name = <<"JSON", "stringify">> => StringifyOK(args[1], e), "json")
      [] n.kind = "Method" -> CheckAll(n.kids, Demand(e, MethodOK(n, e), "method"))
      [] n.kind = "Property" ->
           Demand(Check(n.kids[1], e),
                  /\ IsIdent(n.kids[1], "process") => n.kids[2].lit = <<"env">>
                  /\ IsIdent(n.kids[1], "Besht") => n.kids[2].lit[1] \in {"fs", "strings", "args", "iter"}
                  /\ KindOf(ExprType(n.kids[1], e)) # "fetch", "property")
      [] n.kind = "Cmd" -> CheckAll(n.kids, Demand(e, n.kids[1].kind = "Spread" => Len(n.kids) = 1, "spread"))
      [] n.kind = "Arrow" ->
           LET own == DefineAll(Push([e EXCEPT !.inFunction = TRUE, !.inCallback = TRUE]), Params(n), FALSE)
           IN  Back(Check(LastKid(n), own), e)
      [] OTHER -> CheckAll(n.kids, e)

\* checkSemanticStmt
Check(n, e) ==
    CASE n.kind \in {"Import", "Declare", "DeclareFn"} -> e
      [] n.kind \in {"Break", "Continue"} -> Demand(e, e.inLoop \/ e.inCallback, "loop")
      [] n.kind \in {"Let", "Default"} ->
           LET r == Check(LastKid(n), e)
               t == IF HasType(n) THEN TypeOf(n) ELSE ExprType(LastKid(n), r)
           IN  [Define(r, Declared(n), t) EXCEPT !.consts = IF Constant(n) THEN @ \cup {Declared(n)} ELSE @]
      [] n.kind = "Destructure" -> DefineAll(Check(LastKid(n), e), KidsOf(n, {"Name"}), IsConst(n))
      [] n.kind \in {"Assign", "IndexAssign", "Update"} -> CheckAll(n.kids, Writes(e, NameOf(n)))
      [] n.kind = "PropertyAssign" -> CheckAll(n.kids, IF IsThis(n) THEN e ELSE Writes(e, NameOf(n)))
      [] n.kind = "Fn" -> Back(CheckBody(n, Params(n), [e EXCEPT !.inFunction = TRUE]), e)
      [] n.kind = "Class" -> CheckClass(n, e)
      [] n.kind = "Member" -> CheckMember(n, e)
      [] n.kind = "Block" -> CheckBlock(n, e)
      [] n.kind = "Return" -> CheckAll(n.kids, Demand(e, e.inFunction \/ e.inCallback, "return"))
      [] n.kind \in {"ForEach", "ForC", "While", "Try", "Switch"} -> CheckFlow(n, e)
      [] OTHER -> CheckExpr(n, e)

\* collectFnSigs: return types of the functions, methods and accessors of the
\* file, a later one in the place of an earlier one of its name.
FnSigs(prog) ==
    LET named(n, name, t) == <<NameOf(n) \o name, OrVoid(t)>>
        sigs(c, sort, sig(_)) == [k \in DOMAIN Members(c, sort) |-> sig(Members(c, sort)[k])]
        method(c, m) == named(c, <<"__">> \o NameOf(m), TypeOf(m))
        accessor(c, m) == named(c, <<"__">> \o AccessorName(AccessorKind(m), m),
                                IF AccessorKind(m) = <<"set">> THEN None ELSE TypeOf(m))
        of(n) == CASE n.kind \in {"Fn", "DeclareFn"} -> <<named(n, <<>>, TypeOf(n))>>
                   [] n.kind = "Class" -> sigs(n, "method", LAMBDA m : method(n, m))
                                          \o sigs(n, "accessor", LAMBDA m : accessor(n, m))
                   [] OTHER -> <<>>
    IN  FoldLeft(LAMBDA fns, s : Put(fns, s[1], s[2]), <<>>,
                 FlattenSeq([k \in DOMAIN prog.kids |-> of(Bare(prog.kids[k]))]))

RECURSIVE Predeclare(_, _)
\* predeclareTopLevel: the file's variables are known before they are declared.
Predeclare(ns, e) ==
    IF ns = <<>> THEN e
    ELSE LET n == Bare(Head(ns))
             r == CASE n.kind \in {"Let", "Default"} ->
                         [Define(e, Declared(n), TypeOf(n)) EXCEPT
                            !.consts = IF Constant(n) THEN @ \cup {Declared(n)} ELSE @]
                    [] n.kind = "Destructure" -> DefineAll(e, KidsOf(n, {"Name"}), IsConst(n))
                    [] n.kind = "Class" -> Define(e, NameOf(n), Basic("object"))
                    [] OTHER -> e
         IN  Predeclare(Tail(ns), r)

\* What the imports of the file have registered: names without a type.
Registered(names) == [vars |-> <<[x \in names |-> Basic("string")]>>, consts |-> {}, fns |-> <<>>,
                      inFunction |-> FALSE, inLoop |-> FALSE, inCallback |-> FALSE, err |-> ""]

\* Validate, up to the three surface checks: the walk's state at its end.
Walk(prog, imported) ==
    CheckAll(prog.kids, Predeclare(prog.kids, [Registered(imported) EXCEPT !.fns = FnSigs(prog)]))
=============================================================================
