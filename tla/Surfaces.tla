------------------------------ MODULE Surfaces ------------------------------
(***************************************************************************)
(* The surface checks (internal/semantics: fetch_surface, object_surface,  *)
(* foreach_surface).  Each walks the tree once, in the order of the text,  *)
(* keeps what it knows of the names (a response, an object and what it     *)
(* holds, a list, a set) and refuses operations the shell has no code for. *)
(*                                                                         *)
(* One walk is written here, with a parameter for what the three do        *)
(* differently: "fetch", "object" or "forEach".                            *)
(***************************************************************************)
EXTENDS Validator

\* What is known of the names.  roots: the name a named object was first
\* given, which the marks of its contents are kept under.
Knowledge(vars, prog) ==
    LET of(kind) == {x \in DOMAIN vars : KindOf(vars[x]) = kind}
        top == {Bare(prog.kids[k]) : k \in DOMAIN prog.kids}
    IN  [fetch |-> of("fetch"), objects |-> of("object"), lists |-> of("list"), sets |-> of("set"),
         roots |-> <<>>, mixed |-> {}, env |-> {}, statics |-> {}, mixedStatics |-> {},
         returns |-> {NameOf(n) : n \in {n \in top : /\ n.kind \in {"Fn", "DeclareFn"}
                                                      /\ KindOf(TypeOf(n)) = "object"}},
         refused |-> FALSE]

Plain(n) == IF n.kind = "Optional" THEN n.kids[1] ELSE n
IsReduce(n) == Method(n) \in {"reduce", "reduceRight"} /\ Len(ArgsOf(n)) >= 2
StaticName(n) == IF n.kind = "Property" /\ n.kids[1].kind = "Ident"
                 THEN n.kids[1].lit \o <<".">> \o n.kids[2].lit ELSE <<>>
\* Mutant: what was once known of a name stays.
WithSticky(S, x, yes) == IF yes THEN S \cup {x} ELSE S
With(S, x, yes) == IF yes THEN S \cup {x} ELSE S \ {x}

---------------------------------------------------------------------------
(* What an expression is, as far as a check knows.                       *)

RECURSIVE IsFetchResponse(_, _), IsObjectValue(_, _), RootOf(_, _), HoldsMixed(_, _),
          IsListValue(_, _), IsSetValue(_, _)
IsFetchResponse(n, s) ==
    \/ BuiltinOf(n) = <<"fetch">>
    \/ n.kind = "Ident" /\ n.lit \in s.fetch
    \/ n.kind = "As" /\ IsFetchResponse(n.kids[1], s)

IsObjectValue(m, s) == LET n == Plain(m) IN
    \/ n.kind = "Object"
    \/ n.kind = "As" /\ IsObjectValue(n.kids[1], s)
    \/ n.kind = "Ident" /\ n.lit \in s.objects
    \/ n.kind = "Call" /\ NameOf(n) \in s.returns
    \/ BuiltinOf(n) = <<"Object", "assign">> /\ ArgsOf(n) # <<>>
    \/ BuiltinOf(n) = <<"Object", "fromEntries">> /\ Len(ArgsOf(n)) = 1
    \/ StaticName(n) \in s.statics
    \/ IsReduce(n) /\ IsObjectValue(ArgsOf(n)[2], s)

\* Mutant: every name is its own root.
OwnRoot(x, s) == IF x \in s.objects THEN x ELSE <<>>
RootOfName(x, s) == IF x \in DOMAIN s.roots THEN s.roots[x] ELSE IF x \in s.objects THEN x ELSE <<>>
RootOf(m, s) == LET n == Plain(m) IN
    CASE n.kind = "As" -> RootOf(n.kids[1], s)
      [] n.kind = "Ident" -> RootOfName(n.lit, s)
      [] BuiltinOf(n) = <<"Object", "assign">> /\ ArgsOf(n) # <<>> -> RootOf(ArgsOf(n)[1], s)
      [] StaticName(n) \in s.statics -> StaticName(n)
      [] OTHER -> <<>>

\* objectSurfaceValueUnsupported: by its form alone, a value that is no scalar.
MixedMethods == {"map", "filter", "slice", "concat", "reverse", "sort", "push", "pop", "shift",
                 "unshift", "readStdoutLines"}
NotScalar(m) == LET n == UnwrapAs(m) IN
    \/ n.kind \in {"List", "Object", "New", "Cmd"}
    \/ BuiltinOf(n) \in {<<"Object", k>> : k \in {"keys", "values", "entries", "assign", "fromEntries"}}
                        \cup {<<"Array", "from">>, <<"Array", "of">>, <<"fetch">>}
    \/ Method(Plain(n)) \in MixedMethods

\* hasUnsupportedObjectValue: an object that is known to hold such a value.
HoldsMixed(m, s) == LET n == Plain(m) IN
    CASE n.kind = "As" -> HoldsMixed(n.kids[1], s)
      [] n.kind = "Object" -> \E k \in DOMAIN n.kids :
           IF n.kids[k].kind = "Spread" THEN HoldsMixed(n.kids[k].kids[1], s) ELSE NotScalar(n.kids[k].kids[2])
      [] n.kind = "Ident" -> RootOfName(n.lit, s) \in s.mixed
      [] BuiltinOf(n) = <<"Object", "assign">> -> \E k \in DOMAIN ArgsOf(n) : HoldsMixed(ArgsOf(n)[k], s)
      [] n.kind = "Property" -> StaticName(n) \in s.mixedStatics
      [] n.kind = "Method" -> IsReduce(n) /\ HoldsMixed(ArgsOf(n)[2], s)
      [] OTHER -> FALSE

IsProcessEnv(m, s) == LET n == Plain(m) IN
    \/ n.kind = "Property" /\ IsIdent(n.kids[1], "process") /\ n.kids[2].lit = <<"env">>
    \/ n.kind = "Ident" /\ n.lit \in s.env

IsListValue(m, s) == LET n == Plain(m) IN
    \/ n.kind = "As" /\ (KindOf(n.kids[2]) = "list" \/ IsListValue(n.kids[1], s))
    \/ n.kind = "List"
    \/ n.kind = "Ident" /\ n.lit \in s.lists
    \/ BuiltinOf(n) \in {<<"Array", "from">>, <<"Array", "of">>, <<"Object", "keys">>, <<"Object", "values">>,
                         <<"Object", "entries">>}
    \/ Method(n) \in (MixedMethods \ {"sort", "readStdoutLines"}) /\ IsListValue(n.kids[1], s)
IsSetValue(n, s) ==
    \/ n.kind = "As" /\ (KindOf(n.kids[2]) = "set" \/ IsSetValue(n.kids[1], s))
    \/ n.kind = "New" /\ NameOf(n) = <<"Set">>
    \/ n.kind = "Ident" /\ n.lit \in s.sets

---------------------------------------------------------------------------
(* Scopes.                                                               *)

IsMethod(n) == n.kind = "Member" /\ LastKid(n).kind = "Block"
HasThis(n) == IsMethod(n) /\ (KidsOf(n, {"Static"}) = <<>> \/ KidsOf(n, {"Constructor"}) # <<>>)
\* Functions keep what is learnt inside to themselves; for a response, so do
\* blocks and loops.
Opens(v, n) == \/ n.kind \in {"Fn", "Arrow"} \/ IsMethod(n)
               \/ v = "fetch" /\ n.kind \in {"Block", "ForEach", "ForC"}
Forget(s, x) == [s EXCEPT !.fetch = @ \ {x}, !.objects = @ \ {x}, !.mixed = @ \ {x}, !.env = @ \ {x},
                          !.lists = @ \ {x}, !.sets = @ \ {x}, !.roots = [y \in DOMAIN @ \ {x} |-> @[y]]]
AsObject(s, x) == [s EXCEPT !.objects = @ \cup {x}, !.roots = Put(@, x, x)]

RECURSIVE Bind(_, _)
\* A parameter is what its type says, and nothing else is known of it.
Bind(s, params) ==
    IF params = <<>> THEN s
    ELSE LET p    == Head(params)
             x    == NameOf(p)
             kind == KindOf(TypeOf(p))
             own  == Forget(s, x)
         IN  Bind(CASE kind = "object" -> AsObject(own, x)
                    [] kind = "list" -> [own EXCEPT !.lists = @ \cup {x}]
                    [] kind = "set" -> [own EXCEPT !.sets = @ \cup {x}]
                    [] OTHER -> own, Tail(params))
\* How many of its parts are walked before n opens its scope: a loop over a
\* list knows its variable in its body only.
Outside(v, n) == IF v = "fetch" /\ n.kind = "ForEach" THEN Len(n.kids) - 1 ELSE 0
Opened(v, n, s) ==
    LET base == IF HasThis(n) THEN AsObject(s, <<"this">>) ELSE s
    IN  CASE v = "fetch" /\ n.kind = "ForEach" -> Forget(s, NameOf(n))
          [] n.kind \in {"Fn", "Arrow", "Member"} -> Bind(base, Params(n))
          [] OTHER -> s
Left(s, inner) == [s EXCEPT !.refused = inner.refused, !.statics = inner.statics,
                            !.mixedStatics = inner.mixedStatics]

---------------------------------------------------------------------------
(* What a statement tells of a name.                                     *)

\* setVar, trackLet, trackBinding
Track(v, s, x, type, value) ==
    LET named  == [s EXCEPT !.env = With(@, x, IsProcessEnv(value, s))]
        object == [named EXCEPT !.objects = @ \cup {x}]
        root   == IF RootOf(value, object) = <<>> THEN x ELSE RootOf(value, object)
        rooted == [object EXCEPT !.roots = Put(@, x, root)]
    IN  CASE v = "fetch" -> [s EXCEPT !.fetch = With(@, x, IsFetchResponse(value, s))]
          [] v = "forEach" ->
               [s EXCEPT !.lists = With(@, x, KindOf(type) = "list" \/ IsListValue(value, s)),
                         !.sets = With(@, x, KindOf(type) = "set" \/ IsSetValue(value, s))]
          [] v = "object" /\ IsObjectValue(value, named) ->
               [rooted EXCEPT !.mixed = With(@, root, HoldsMixed(value, rooted))]
          [] OTHER -> [named EXCEPT !.objects = @ \ {x}, !.mixed = @ \ {x},
                                    !.roots = [y \in DOMAIN @ \ {x} |-> @[y]]]
\* trackObjectMutation
Mutate(s, x, value) ==
    LET root == RootOfName(x, s)
    IN  IF root # <<>> /\ (NotScalar(value) \/ HoldsMixed(value, s)) THEN [s EXCEPT !.mixed = @ \cup {root}] ELSE s
\* The static fields of a class that are objects, before its members are read.
Statics(s, n) ==
    LET fields == {k \in DOMAIN n.kids : n.kids[k].kind = "Member" /\ KidsOf(n.kids[k], {"Static"}) # <<>>
                                          /\ LastKid(n.kids[k]).kind = "Object"}
        name(k) == NameOf(n) \o <<".">> \o NameOf(n.kids[k])
        mixed(k) == \E f \in DOMAIN LastKid(n.kids[k]).kids :
                      LET field == LastKid(n.kids[k]).kids[f] IN field.kind = "Field" /\ NotScalar(field.kids[2])
    IN  [s EXCEPT !.statics = @ \cup {name(k) : k \in fields},
                  !.mixedStatics = (@ \ {name(k) : k \in fields}) \cup {name(k) : k \in {k \in fields : mixed(k)}}]
Learn(v, n, s) ==
    CASE n.kind = "Let" -> Track(v, s, NameOf(n), TypeOf(n), LastKid(n))
      [] n.kind = "Assign" -> Track(v, s, NameOf(n), None, LastKid(n))
      [] n.kind \in {"IndexAssign", "PropertyAssign"} /\ v = "object" -> Mutate(s, NameOf(n), LastKid(n))
      [] OTHER -> s

---------------------------------------------------------------------------
(* What is refused.                                                      *)

FetchRefuses(n, s) ==
    CASE n.kind \in {"IndexAssign", "PropertyAssign"} -> NameOf(n) \in s.fetch
      [] n.kind \in {"Index", "OptionalIndex", "Property"} -> IsFetchResponse(n.kids[1], s)
      [] n.kind = "Method" -> IsFetchResponse(n.kids[1], s) /\ (Method(n) # "text" \/ ArgsOf(n) # <<>>)
      [] n.kind = "Builtin" -> BuiltinOf(n) = <<"fetch">> /\ Len(ArgsOf(n)) # 1
      [] OTHER -> FALSE

\* A key, as one or more characters: letters, digits and _ .
KeyOK(lit) == lit # <<>> /\ \A k \in DOMAIN lit : lit[k] \in Words \cup Digits
NamedObject(n, s) == IsObjectValue(n, s) /\ ~IsProcessEnv(n, s)
ObjectRefuses(n, s) ==
    LET args == ArgsOf(n)
        name == IF Len(BuiltinOf(n)) = 2 /\ BuiltinOf(n)[1] = "Object" THEN BuiltinOf(n)[2] ELSE ""
    IN  CASE n.kind = "Object" -> \E k \in DOMAIN n.kids :
               IF n.kids[k].kind = "Spread"
               THEN ~NamedObject(n.kids[k].kids[1], s) \/ HoldsMixed(n.kids[k].kids[1], s)
               ELSE ~KeyOK(n.kids[k].kids[1].lit)
          [] name \in {"keys", "hasOwn"} -> ~NamedObject(args[1], s)
          [] name \in {"values", "entries"} -> ~NamedObject(args[1], s) \/ HoldsMixed(args[1], s)
          [] name = "assign" -> \/ UnwrapAs(args[1]).kind = "This"
                                \/ \E k \in DOMAIN args : ~NamedObject(args[k], s) \/ HoldsMixed(args[k], s)
          [] OTHER -> FALSE

IsForEach(n, s) == Method(Plain(n)) = "forEach" /\ IsListValue(Plain(n).kids[1], s)
SideEffect(m, s) == LET n == Plain(m) IN
    \/ BuiltinOf(n) \in {<<"console", "log">>, <<"console", "error">>}
    \/ Method(n) = "run" \/ (Method(n) = "add" /\ IsSetValue(n.kids[1], s))
    \/ (Method(n) = "exit" /\ IsIdent(n.kids[1], "process"))
    \/ n.kind = "Call"

RECURSIVE Visit(_, _, _), VisitAll(_, _, _), Callback(_, _), CallbackAll(_, _)
VisitAll(v, ns, s) == IF ns = <<>> \/ s.refused THEN s ELSE VisitAll(v, Tail(ns), Visit(v, Head(ns), s))

\* forEachCallbackStmt: a statement of the callback itself, or under its ifs.
CallbackAll(ns, s) == IF ns = <<>> \/ s.refused THEN s ELSE CallbackAll(Tail(ns), Callback(Head(ns), s))
Callback(n, s) ==
    CASE n.kind = "ExprStmt" -> IF SideEffect(n.kids[1], s) THEN Visit("forEach", n.kids[1], s)
                                ELSE [s EXCEPT !.refused = TRUE]
      [] n.kind \in {"Return", "Break", "Continue"} -> [s EXCEPT !.refused = TRUE]
      [] n.kind \in {"If", "ElseIf", "Else"} -> CallbackAll(n.kids, s)
      [] n.kind = "Block" -> CallbackAll(n.kids, s)
      [] OTHER -> Visit("forEach", n, s)
\* validateForEachCall
ForEachCall(n, s) ==
    LET args  == ArgsOf(n)
        f     == UnwrapAs(args[1])
        recv  == Visit("forEach", n.kids[1], s)
        body  == LastKid(f)
        inner == Bind(recv, Params(f))
    IN  CASE Len(args) # 1 -> [recv EXCEPT !.refused = TRUE]
          [] f.kind # "Arrow" -> Visit("forEach", args[1], recv)
          [] Len(Params(f)) \notin 1..2 -> [recv EXCEPT !.refused = TRUE]
          [] OTHER -> Left(recv, IF body.kind = "Block" THEN CallbackAll(body.kids, inner)
                                 ELSE Callback(Node("ExprStmt", <<>>, <<body>>), inner))

\* The parts of a node a check walks, in turn.  The accumulator of a reduce
\* that starts with an object is an object in its callback.
Walked(v, n, s) ==
    LET arrow == ArgsOf(n)[1]
        acc   == Node("Param", <<>>, <<Leaf("Name", NameOf(Params(arrow)[1])), Basic("object")>>)
        typed == Node("Arrow", <<>>, <<acc>> \o Tail(arrow.kids))
    IN  CASE v # "fetch" /\ n.kind = "Template" -> <<>>
          [] v = "forEach" /\ n.kind = "Class" -> SelectSeq(n.kids, IsMethod)
          [] /\ v = "object" /\ IsReduce(n) /\ arrow.kind = "Arrow"
             /\ Params(arrow) # <<>> /\ IsObjectValue(ArgsOf(n)[2], s) ->
               <<n.kids[1], n.kids[4], typed>> \o SubSeq(n.kids, 5, Len(n.kids))
          [] OTHER -> n.kids

Refuses(v, n, s) == CASE v = "fetch" -> FetchRefuses(n, s) [] v = "object" -> ObjectRefuses(n, s)
                      [] OTHER -> IsForEach(n, s)

Visit(v, n, s) ==
    LET start  == IF v = "object" /\ n.kind = "Class" THEN Statics(s, n) ELSE s
        parts  == Walked(v, n, start)
        before == VisitAll(v, SubSeq(parts, 1, Outside(v, n)), start)
        inner  == VisitAll(v, SubSeq(parts, Outside(v, n) + 1, Len(parts)), Opened(v, n, before))
        after  == IF Opens(v, n) THEN Left(before, inner) ELSE inner
    IN  CASE v = "forEach" /\ n.kind = "ExprStmt" /\ n.kids[1].kind \in {"Method", "Optional"}
               /\ IsForEach(n.kids[1], s) -> ForEachCall(Plain(n.kids[1]), s)
          [] after.refused \/ Refuses(v, n, after) -> [after EXCEPT !.refused = TRUE]
          [] OTHER -> Learn(v, n, after)

\* The three checks, from the types the validator's walk ended with.
SurfaceRefuses(v, prog, vars) == VisitAll(v, prog.kids, Knowledge(vars, prog)).refused

\* Validate: the walk, then the three checks: the first that refuses.
Validate(prog, imported) ==
    LET walk == Walk(prog, imported)
    IN  CASE walk.err # "" -> walk.err
          [] SurfaceRefuses("fetch", prog, walk.vars[1]) -> "fetch"
          [] SurfaceRefuses("object", prog, walk.vars[1]) -> "object"
          [] SurfaceRefuses("forEach", prog, walk.vars[1]) -> "forEach"
          [] OTHER -> ""
=============================================================================
