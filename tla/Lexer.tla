------------------------------- MODULE Lexer -------------------------------
(***************************************************************************)
(* The lexer (internal/lexer): a source text becomes a sequence of tokens. *)
(*                                                                         *)
(* A text is a sequence of characters.  A run of letters that a test does  *)
(* not need to cut counts as one character ('while' is one character that  *)
(* is a letter), so a word token is a sequence of one or more of them.     *)
(* Lines and columns, which only serve messages, are left out.             *)
(***************************************************************************)
EXTENDS Naturals, Sequences, FiniteSets, SequencesExt

CONSTANTS Words,        \* the characters that are letters (or _)
          Digits        \* the characters that are digits

\* Characters no letter and no digit; the backquote is written "bq".
Blanks == {" ", "\t", "\n", "\r"}

Keywords ==
    {"let", "function", "export", "import", "from", "return", "if", "else",
     "for", "in", "while", "switch", "case", "default", "try", "catch",
     "type", "interface", "true", "false", "break", "continue", "const",
     "declare", "class", "new", "this", "static", "string", "number",
     "boolean", "status", "Array"}

\* A token: its type, which is the text itself for keywords and punctuation
\* and a name with # for the others, and its literal, a sequence of characters.
Tok(type, lit) == [type |-> type, lit |-> lit]
EOFTok == Tok("#eof", <<>>)

At(text, i) == IF i \in 1..Len(text) THEN text[i] ELSE "eof"

\* The first position from i on whose character is not in S.
After(text, i, S) ==
    LET stops == {j \in i..Len(text) : text[j] \notin S}
    IN  IF stops = {} THEN Len(text) + 1 ELSE CHOOSE j \in stops : \A k \in stops : j <= k

FirstAt(text, i, Holds(_)) ==
    LET hits == {j \in i..Len(text) : Holds(j)}
    IN  IF hits = {} THEN 0 ELSE CHOOSE j \in hits : \A k \in hits : j <= k

---------------------------------------------------------------------------
(* Symbols: the longest of the operators that starts here.               *)

Symbols == {"{", "}", "(", ")", "[", "]", ",", ":", ";", ".", "?", "$", "|",
            "=", "!", "<", ">", "+", "-", "*", "/", "%"}
Pairs == {<<"?", "?">>, <<"|", "|">>, <<"&", "&">>, <<"=", ">">>, <<"=", "=">>,
          <<"!", "=">>, <<"<", "=">>, <<">", "=">>, <<"+", "+">>, <<"+", "=">>,
          <<"-", "-">>, <<"-", "=">>, <<"*", "=">>}
Triples == {<<".", ".", ".">>, <<"=", "=", "=">>, <<"!", "=", "=">>}

\* The spelling of each of them, which is its token type.
Spelling == [s \in Pairs \cup Triples |->
    CASE s = <<"?", "?">> -> "??" [] s = <<"|", "|">> -> "||" [] s = <<"&", "&">> -> "&&"
      [] s = <<"=", ">">> -> "=>" [] s = <<"=", "=">> -> "==" [] s = <<"!", "=">> -> "!="
      [] s = <<"<", "=">> -> "<=" [] s = <<">", "=">> -> ">=" [] s = <<"+", "+">> -> "++"
      [] s = <<"+", "=">> -> "+=" [] s = <<"-", "-">> -> "--" [] s = <<"-", "=">> -> "-="
      [] s = <<"*", "=">> -> "*=" [] s = <<".", ".", ".">> -> "..."
      [] s = <<"=", "=", "=">> -> "===" [] s = <<"!", "=", "=">> -> "!=="]

\* Mutant: an operator has at most two characters.
LexSymbolShort(text, i) ==
    LET two == SubSeq(text, i, IF i < Len(text) THEN i + 1 ELSE i)
        sym == IF two \in Pairs THEN Spelling[two] ELSE text[i]
    IN  [ok |-> sym \in Symbols \cup {Spelling[p] : p \in Pairs}, tok |-> Tok(sym, <<sym>>),
         at |-> i + (IF two \in Pairs THEN 2 ELSE 1)]

\* lexSymbol: the token and the position after it, or a failure (a lone '&').
LexSymbol(text, i) ==
    LET three == SubSeq(text, i, i + 2)
        two   == SubSeq(text, i, i + 1)
    IN  CASE i + 2 <= Len(text) /\ three \in Triples ->
               [ok |-> TRUE, tok |-> Tok(Spelling[three], <<Spelling[three]>>), at |-> i + 3]
          [] i + 1 <= Len(text) /\ two \in Pairs ->
               [ok |-> TRUE, tok |-> Tok(Spelling[two], <<Spelling[two]>>), at |-> i + 2]
          [] text[i] \in Symbols ->
               [ok |-> TRUE, tok |-> Tok(text[i], <<text[i]>>), at |-> i + 1]
          [] OTHER -> [ok |-> FALSE, tok |-> EOFTok, at |-> i]

---------------------------------------------------------------------------
(* Words and numbers.                                                    *)

LexIdent(text, i) ==
    LET end  == After(text, i, Words \cup Digits)
        word == SubSeq(text, i, end - 1)
    IN  [ok |-> TRUE, at |-> end,
         tok |-> IF Len(word) = 1 /\ word[1] \in Keywords
                 THEN Tok(word[1], word) ELSE Tok("#ident", word)]

\* A dot is part of the number only when a digit follows it.
LexInt(text, i) ==
    LET whole == After(text, i, Digits)
        real  == At(text, whole) = "." /\ At(text, whole + 1) \in Digits
        end   == IF real THEN After(text, whole + 1, Digits) ELSE whole
    IN  [ok |-> TRUE, at |-> end,
         tok |-> Tok(IF real THEN "#float" ELSE "#int", SubSeq(text, i, end - 1))]

---------------------------------------------------------------------------
(* Strings and templates.                                                *)

\* writeEscape's letters and the character each stands for.
Escapes == [c \in {"b", "f", "n", "t", "v", "r"} |->
    CASE c = "b" -> "backspace" [] c = "f" -> "formfeed" [] c = "n" -> "\n"
      [] c = "t" -> "\t" [] c = "v" -> "vtab" [] c = "r" -> "\r"]

HexDigits == Digits \cup {"A", "B", "C", "D", "E", "F", "a", "b", "c", "d", "e", "f"}
Signs == {"+", "-"}
\* strconv.ParseInt(hex, 16, 8) fits 7 bits: the first digit is at most 7.
SmallHex == (HexDigits \cap {"0", "1", "2", "3", "4", "5", "6", "7"}) \cup Signs

\* writeEscape at the backslash: what it writes and the position after it.
\* \xHH is decoded up to 7F and \uXXXX always; what is not decoded leaves its
\* letter, and its digits, as ordinary characters.
WriteEscape(text, i) ==
    LET c == At(text, i + 1)
        hex(n) == SubSeq(text, i + 2, i + 1 + n)
        decodes(n) == i + 1 + n <= Len(text) /\ \A k \in 1..n : hex(n)[k] \in HexDigits \cup (IF k = 1 THEN Signs ELSE {})
        done(out, at) == [out |-> out, at |-> at]
    IN  CASE c = "\n" -> done(<<>>, i + 2)
          [] c = "\r" -> done(<<>>, IF At(text, i + 2) = "\n" THEN i + 3 ELSE i + 2)
          [] c \in DOMAIN Escapes -> done(<<Escapes[c]>>, i + 2)
          [] c = "x" /\ decodes(2) /\ hex(2)[1] \in SmallHex ->
               done(<<"byte">> \o hex(2), i + 4)
          [] c = "u" /\ decodes(4) -> done(<<"rune">> \o hex(4), i + 6)
          [] c = "eof" -> done(<<"nul">>, i + 1)
          [] OTHER -> done(<<c>>, i + 2)

RECURSIVE LexQuoted(_, _, _, _)
\* lexDoubleQuotedString and lexSingleQuotedString, after the opening quote.
LexQuoted(text, i, quote, lit) ==
    CASE i > Len(text) -> [ok |-> FALSE, tok |-> EOFTok, at |-> i]
      [] text[i] = quote -> [ok |-> TRUE, tok |-> Tok("#string", lit), at |-> i + 1]
      [] text[i] = "\\" -> LET e == WriteEscape(text, i)
                           IN  LexQuoted(text, e.at, quote, lit \o e.out)
      [] OTHER -> LexQuoted(text, i + 1, quote, Append(lit, text[i]))

\* Braces opened and not closed in text[i..j].
Depth(text, i, j) ==
    Cardinality({k \in i..j : text[k] = "{"}) - Cardinality({k \in i..j : text[k] = "}"})
Closing(text, i) == FirstAt(text, i, LAMBDA j : Depth(text, i, j) = 0 - 1)

RECURSIVE LexTemplate(_, _, _)
\* lexTemplateLit, after the opening backquote: an interpolation is copied as
\* it stands up to the brace that closes it, whatever lies in between.
LexTemplate(text, i, lit) ==
    CASE i > Len(text) -> [ok |-> FALSE, tok |-> EOFTok, at |-> i]
      [] text[i] = "bq" -> [ok |-> TRUE, tok |-> Tok("#template", lit), at |-> i + 1]
      [] text[i] = "\\" /\ At(text, i + 1) = "$" ->
           LexTemplate(text, i + 2, lit \o <<"\\", "$">>)
      [] text[i] = "\\" -> LET e == WriteEscape(text, i)
                           IN  LexTemplate(text, e.at, lit \o e.out)
      [] text[i] = "$" /\ At(text, i + 1) = "{" ->
           LET close == Closing(text, i + 2)
               end   == IF close = 0 THEN Len(text) ELSE close
           IN  LexTemplate(text, end + 1, lit \o SubSeq(text, i, end))
      [] OTHER -> LexTemplate(text, i + 1, Append(lit, text[i]))

---------------------------------------------------------------------------
(* nextToken and Tokenize.                                               *)

RECURSIVE SkipToToken(_, _)
\* Blanks and comments: the position of the next token, Len(text) + 1 at the
\* end of the text, 0 in a block comment that does not end.
SkipToToken(text, i) ==
    LET j    == After(text, i, Blanks)
        next == At(text, j + 1)
    IN  CASE At(text, j) = "/" /\ next = "/" ->
               LET nl == FirstAt(text, j, LAMBDA k : text[k] = "\n")
               IN  IF nl = 0 THEN Len(text) + 1 ELSE SkipToToken(text, nl)
          [] At(text, j) = "/" /\ next = "*" ->
               LET end == FirstAt(text, j + 2, LAMBDA k : text[k] = "*" /\ At(text, k + 1) = "/")
               IN  IF end = 0 THEN 0 ELSE SkipToToken(text, end + 2)
          [] OTHER -> j

NextToken(text, i) ==
    CASE text[i] \in {"\"", "'"} -> LexQuoted(text, i + 1, text[i], <<>>)
      [] text[i] = "bq" -> LexTemplate(text, i + 1, <<>>)
      [] text[i] \in Digits -> LexInt(text, i)
      [] text[i] \in Words -> LexIdent(text, i)
      [] OTHER -> LexSymbol(text, i)

RECURSIVE Tokens(_, _, _)
Tokens(text, i, toks) ==
    LET j == SkipToToken(text, i)
        t == NextToken(text, j)
    IN  CASE j = 0 -> [ok |-> FALSE, toks |-> <<>>]
          [] j > Len(text) -> [ok |-> TRUE, toks |-> Append(toks, EOFTok)]
          [] ~t.ok -> [ok |-> FALSE, toks |-> <<>>]
          [] OTHER -> Tokens(text, t.at, Append(toks, t.tok))

\* Tokenize: all the tokens of a text, the last of them EOF, or a failure.
Tokenize(text) == Tokens(text, 1, <<>>)
=============================================================================
