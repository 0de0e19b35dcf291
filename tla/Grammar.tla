------------------------------ MODULE Grammar ------------------------------
(***************************************************************************)
(* Grammars as data, and the recursive descent over them that the parser   *)
(* (internal/parser) is written as: a function of the parser looks at the  *)
(* next tokens, decides, and never goes back.                              *)
(*                                                                         *)
(* A syntax tree (internal/ast) is a node with a kind, a literal and its   *)
(* children; positions are left out.                                       *)
(***************************************************************************)
EXTENDS Lexer

Node(kind, lit, kids) == [kind |-> kind, lit |-> lit, kids |-> kids]
Leaf(kind, lit) == Node(kind, lit, <<>>)

---------------------------------------------------------------------------
(* What a parse function can say of the tokens ahead.                    *)

\* The next tokens are, in order, in these sets.  A set holds token types and,
\* for an identifier with a meaning in its place ("of", "as"), its name.
Sees(sets) == [sets |-> sets, far |-> "", but |-> {}]
\* The next token is none of these.
SeesNo(S) == [sets |-> <<>>, far |-> "", but |-> S]
\* One of the parser's own scans of the tokens ahead.
SeesFar(scan) == [sets |-> <<>>, far |-> scan, but |-> {}]

In(tok, S) == tok.type \in S \/ (tok.type = "#ident" /\ Len(tok.lit) = 1 /\ tok.lit[1] \in S)
Peek(toks, i) == IF i <= Len(toks) THEN toks[i] ELSE EOFTok

---------------------------------------------------------------------------
(* The forms of a parse function.                                        *)

Expect(S)       == [op |-> "expect", set |-> S]
Take(kind, S)   == [op |-> "take", set |-> S, kind |-> kind]
All(of)         == [op |-> "all", of |-> of]
Ref(name)       == [op |-> "ref", name |-> name]
Mk(kind, g)     == [op |-> "mk", kind |-> kind, of |-> g]
Wrap(kind, g)   == [op |-> "wrap", kind |-> kind, of |-> g]
Drop(g)         == [op |-> "drop", of |-> g]
Choice(alts)    == [op |-> "choice", alts |-> alts]
Many(alts)      == [op |-> "many", alts |-> alts]
Do(what)        == [op |-> "do", what |-> what]

OnSeq(sets, g)  == [look |-> Sees(sets), then |-> g]
On(S, g)        == OnSeq(<<S>>, g)
OnFar(scan, g)  == [look |-> SeesFar(scan), then |-> g]
Otherwise(g)    == OnSeq(<<>>, g)

Nothing         == All(<<>>)
Fail            == Choice(<<>>)
Need(S)         == Choice(<<On(S, Nothing)>>)
Opt(S, g)       == Choice(<<On(S, g), Otherwise(Nothing)>>)
Until(S, g)     == Many(<<[look |-> SeesNo(S), then |-> g]>>)
Skip(S)         == Opt(S, Expect(S))
=============================================================================
