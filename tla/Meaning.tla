------------------------------- MODULE Meaning -------------------------------
(***************************************************************************)
(* What the names and the objects of a program are, by the rules of        *)
(* JavaScript: the reference for the validator.  A place in a tree is the  *)
(* sequence of child numbers that leads to it.                             *)
(***************************************************************************)
EXTENDS JavaScript

---------------------------------------------------------------------------
(* Names.                                                                *)

RECURSIVE Places(_), Sub(_, _), Spelt(_)
Places(n) == {<<>>} \cup UNION {{<<k>> \o p : p \in Places(n.kids[k])} : k \in DOMAIN n.kids}
Sub(n, p) == IF p = <<>> THEN n ELSE Sub(n.kids[Head(p)], Tail(p))
\* The tree without sugar: what an update or a compound assignment means.
\* Imports take effect before the statements.
Spelt(n) ==
    LET kids == [k \in DOMAIN n.kids |-> Spelt(n.kids[k])]
        self == Leaf("Ident", kids[1].lit)
        does(op, by) == Node("Assign", <<>>, <<kids[1], Node("Binary", <<>>, <<self, Leaf("Op", <<op>>), by>>)>>)
    IN  CASE n.kind = "Incr" -> does(IF kids[2].lit = <<"++">> THEN "+" ELSE "-", Leaf("Int", <<"1">>))
          [] n.kind = "Compound" -> does(CASE kids[2].lit = <<"+=">> -> "+" [] kids[2].lit = <<"-=">> -> "-"
                                           [] OTHER -> "*", kids[3])
          [] n.kind \in {"Alias", "Interface", "Ambient"} -> Leaf("Declare", <<>>)
          [] n.kind = "Bare" -> Node("Block", <<>>, kids)
          [] n.kind = "Program" -> Node(n.kind, <<>>, SelectSeq(kids, LAMBDA k : k.kind = "Import")
                                                      \o SelectSeq(kids, LAMBDA k : k.kind # "Import"))
          [] OTHER -> Node(n.kind, n.lit, kids)

Within(a, b) == IsPrefix(a, b)             \* place b is at or under place a
Above(p) == {SubSeq(p, 1, k) : k \in 0..(Len(p) - 1)}
Scopes == {"Program", "Block", "Fn", "Arrow", "ForEach", "ForC", "Member"}
FunctionKinds == {"Fn", "Arrow", "Member"}
Longest(ps) == CHOOSE p \in ps : \A q \in ps : Len(q) <= Len(p)
ScopeOf(tree, p) == Longest({q \in Above(p) : Sub(tree, q).kind \in Scopes})
FirstName(n) == KidsIn(n, {"Name"})[1].lit

\* A binding: its name, the scope it belongs to, where it is made, whether it
\* may never be written, and whether its whole scope knows it.
Bindings(tree) ==
    LET at(p) == Sub(tree, p)
        own(p, k) == [name |-> at(p).kids[k].lit, scope |-> ScopeOf(tree, p), at |-> p,
                      const |-> at(p).kids[1] = Leaf("Keyword", <<"const">>),
                      hoisted |-> at(p).kind \in {"Fn", "DeclareFn", "Import"}]
        names(p) == {k \in DOMAIN at(p).kids : at(p).kids[k].kind \in {"Name", "DefaultName"}}
        made(p) ==
          CASE at(p).kind \in {"Let", "Destructure", "Fn", "DeclareFn", "Class", "Param", "Import"} ->
                 {own(p, k) : k \in names(p)}
            [] at(p).kind = "ForEach" -> {[own(p, 1) EXCEPT !.scope = p, !.at = Append(p, 1)]}
            [] at(p).kind = "Try" -> {[own(p, 2) EXCEPT !.scope = Append(p, 3), !.at = Append(p, 2)]}
            \* for (x = ...; ...) makes x when nothing else does
            [] at(p).kind = "ForC" /\ at(p).kids[1].kind = "Assign" ->
                 {[name |-> FirstName(at(p).kids[1]), scope |-> p, at |-> Append(p, 1),
                   const |-> FALSE, hoisted |-> FALSE]}
            [] OTHER -> {}
    IN  UNION {made(p) : p \in Places(tree)}

WriteKinds == {"Assign", "IndexAssign", "PropertyAssign", "Update"}
WritesIn(tree) == {p \in Places(tree) : Sub(tree, p).kind \in WriteKinds /\ FirstName(Sub(tree, p)) # <<"this">>}
Uses(tree) == {p \in Places(tree) : Sub(tree, p).kind \in {"Ident", "Call"}} \cup WritesIn(tree)
UsedName(n) == IF n.kind = "Ident" THEN n.lit ELSE FirstName(n)

Candidates(tree, p) == {b \in Bindings(tree) : b.name = UsedName(Sub(tree, p)) /\ Within(b.scope, p)}
Binding(tree, p) == CHOOSE b \in Candidates(tree, p) : \A c \in Candidates(tree, p) : Len(c.scope) <= Len(b.scope)

\* In the order of the text, and after the whole declaration.
Later(p, a) == \E k \in 1..Len(p) : k <= Len(a) /\ SubSeq(p, 1, k - 1) = SubSeq(a, 1, k - 1) /\ p[k] > a[k]
\* A function between the use and the scope runs when the scope is complete.
Deferred(tree, p, b) == \E q \in Above(p) : Within(b.scope, q) /\ q # b.scope /\ Sub(tree, q).kind \in FunctionKinds
Ready(tree, p, b) == b.hoisted \/ p = b.at \/ Later(p, b.at) \/ Deferred(tree, p, b)

\* JavaScript knows the name here.
Resolves(tree, p) == Candidates(tree, p) # {} /\ Ready(tree, p, Binding(tree, p))
\* Constants are constant with all they hold.
WritesConst(tree, p) == p \in WritesIn(tree) /\ Candidates(tree, p) # {} /\ Binding(tree, p).const

Jumps(tree) == {p \in Places(tree) : Sub(tree, p).kind \in {"Break", "Continue"}}
ReturnsIn(tree) == {p \in Places(tree) : Sub(tree, p).kind = "Return"}
InFunction(tree, p) == \E q \in Above(p) : Sub(tree, q).kind \in FunctionKinds
Loops == {"ForEach", "ForC", "While", "Switch"}
InLoop(tree, p) == \E q \in Above(p) :
    /\ Sub(tree, q).kind \in Loops
    /\ \A r \in Above(p) : Within(q, r) => Sub(tree, r).kind \notin FunctionKinds

---------------------------------------------------------------------------
(* Objects: what a straight line of statements does.  A value is a kind    *)
(* and, for an object, its identity; mixed are the objects that hold a     *)
(* value that is no scalar.                                                *)

Value(kind, id) == [kind |-> kind, id |-> id]
NoObject == Value("scalar", 0)
Holding(h, x) == IF x \in DOMAIN h.vars THEN h.vars[x] ELSE NoObject
Complain(h, why, yes) == IF yes THEN [h EXCEPT !.bad = @ \cup {why}] ELSE h
Give(h, v) == [h EXCEPT !.value = v]
Fresh(h, mixed) == [h EXCEPT !.next = @ + 1, !.value = Value("object", h.next),
                             !.mixed = IF mixed THEN @ \cup {h.next} ELSE @]
\* An operation that copies what an object holds wants an object of scalars.
Copies(h, v) == Complain(h, "object", v.kind # "object" \/ v.id \in h.mixed)
Reads(h, v) == Complain(h, "object", v.kind # "object")

RECURSIVE Eval(_, _), EvalAll(_, _)
\* The values of several expressions, in order, are collected in h.values.
EvalAll(ns, h) ==
    IF ns = <<>> THEN h
    ELSE LET r == Eval(Head(ns), h) IN EvalAll(Tail(ns), [r EXCEPT !.values = Append(h.values, r.value)])
Operands(n, from, h) == [EvalAll(SubSeq(n.kids, from, Len(n.kids)), [h EXCEPT !.values = <<>>]) EXCEPT !.value = NoObject]

Eval(n, h) ==
    LET k1   == n.kids[1]
        m    == n.kids[2].lit[1]
        args == Operands(n, 3, h)
        v(k) == args.values[k]
        recv == Eval(k1, h)
        all(Wants(_, _)) == FoldLeft(LAMBDA g, k : Wants(g, args.values[k]), args, [k \in DOMAIN args.values |-> k])
        fields == Operands(Node("List", <<>>, [k \in DOMAIN n.kids |-> Last(n.kids[k].kids)]), 1, h)
        spread(g, k) == IF n.kids[k].kind = "Spread" THEN Copies(g, fields.values[k]) ELSE g
    IN  CASE n.kind = "Ident" -> Give(h, Holding(h, n.lit))
          [] n.kind = "List" -> Give(Operands(n, 1, h), Value("list", 0))
          [] n.kind = "Object" ->
               Fresh(FoldLeft(spread, fields, [k \in DOMAIN n.kids |-> k]),
                     \E k \in DOMAIN n.kids : n.kids[k].kind = "Field" /\ fields.values[k].kind # "scalar")
          [] n.kind = "New" -> Give(h, Value("set", 0))
          [] n.kind \in {"As", "Spread"} -> recv
          [] n.kind = "Builtin" /\ k1.kind = "Group" /\ m \in {"keys", "hasOwn"} ->
               Give(Reads(args, v(1)), IF m = "keys" THEN Value("list", 0) ELSE NoObject)
          [] n.kind = "Builtin" /\ k1.kind = "Group" /\ m \in {"values", "entries"} ->
               Give(Copies(args, v(1)), Value("list", 0))
          [] n.kind = "Builtin" /\ k1.kind = "Group" /\ m = "assign" -> Give(all(Copies), v(1))
          [] n.kind = "Builtin" /\ k1.lit = <<"fetch">> -> Give(h, Value("fetch", 0))
          [] n.kind = "Builtin" -> [Operands(n, IF k1.kind = "Group" THEN 3 ELSE 2, h) EXCEPT !.value = NoObject]
          [] n.kind = "Method" ->
               Give(Complain(Complain(recv, "fetch", recv.value.kind = "fetch" /\ m # "text"),
                             "forEach", recv.value.kind = "list" /\ m = "forEach"),
                    IF recv.value.kind = "list" /\ m = "slice" THEN recv.value ELSE NoObject)
          [] n.kind = "Property" -> Give(Complain(recv, "fetch", recv.value.kind = "fetch"), NoObject)
          [] OTHER -> Give(h, NoObject)

\* One statement.  A forEach in its own statement is no use of its result.
DoStep(h, n) ==
    LET r == Eval(n.kids[Len(n.kids)], h)
        x == FirstName(n)
        obj == Holding(h, x)
    IN  CASE n.kind \in {"Let", "Assign"} -> [r EXCEPT !.vars = (x :> r.value) @@ @]
          [] n.kind = "PropertyAssign" ->
               [Complain(r, "fetch", obj.kind = "fetch") EXCEPT
                  !.mixed = IF obj.kind = "object" /\ r.value.kind # "scalar" THEN @ \cup {obj.id} ELSE @]
          [] n.kind = "ExprStmt" /\ n.kids[1].kind = "Method" /\ n.kids[1].kids[2].lit = <<"forEach">> ->
               [r EXCEPT !.bad = (@ \ {"forEach"}) \cup h.bad]
          [] OTHER -> r

Blank == [vars |-> <<>>, mixed |-> {}, bad |-> {}, next |-> 1, value |-> NoObject, values |-> <<>>]
Performed(tree, k) == FoldLeft(DoStep, Blank, SubSeq(tree.kids, 1, k))
\* The operations of the program the shell has no code for.
Unsupported(tree) == Performed(tree, Len(tree.kids)).bad

\* Names of the same object as x, when statement k is about to run.
Shares(tree, k, x) ==
    LET vars == Performed(tree, k - 1).vars
    IN  \E y \in DOMAIN vars \ {x} : x \in DOMAIN vars /\ vars[x].kind = "object" /\ vars[y] = vars[x]
=============================================================================
