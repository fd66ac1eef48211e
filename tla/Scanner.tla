------------------------------ MODULE Scanner ------------------------------
(***************************************************************************)
(* The GraphIt front-end scanner (src/omega/OMEGA_BUILDING/graphit/src/   *)
(* frontend/scanner.cpp): Scanner::lex reads the program stream a         *)
(* character at a time and appends tokens, tracking the line and column   *)
(* of each; getTokenType classifies a word.  One step of the model is one *)
(* iteration of lex's outer loop, an action per branch of it; the inner  *)
(* loops that read a word, a number, a string or a comment are operators  *)
(* over the input.                                                         *)
(*                                                                         *)
(* The input is a sequence of one-character strings.  reportError and    *)
(* Token::addToken are declared in headers outside the repository: every *)
(* call of reportError is followed by more scanning, so it is taken to   *)
(* record the error and return, and addToken(type, line, col, n) to give *)
(* the token the columns col .. col + n - 1.  Error messages are reduced *)
(* to short names; the value strtod gives a float literal is not kept.   *)
(***************************************************************************)
EXTENDS Integers, SequencesExt

CONSTANTS
  Inputs,   \* the program texts lexed
  Keywords  \* getTokenType's keyword table, restricted to the words in play

VARIABLES
  input,   \* the program stream
  p,       \* index of the next character (peek)
  line,    \* lex's line counter
  col,     \* lex's column counter
  sstate,  \* ScanState: "INITIAL", "SLTEST" or "MLTEST"
  tokens,  \* the TokenStream built so far
  errors,  \* the errors reported, [msg, line, col]
  done     \* lex has returned

scanVars == <<input, p, line, col, sstate, tokens, errors, done>>

EOF == "EOF"
VT == "VT"   \* '\v', which a TLA+ string cannot hold

Alpha == {"a", "b", "c", "d", "e", "f", "g", "h", "i", "j", "k", "l", "m",
          "n", "o", "p", "q", "r", "s", "t", "u", "v", "w", "x", "y", "z",
          "A", "B", "C", "D", "E", "F", "G", "H", "I", "J", "K", "L", "M",
          "N", "O", "P", "Q", "R", "S", "T", "U", "V", "W", "X", "Y", "Z"}
Digit == {"0", "1", "2", "3", "4", "5", "6", "7", "8", "9"}
Space == {" ", "\t", "\n", "\r", VT, "\f"}   \* std::isspace

ASSUME Inputs \subseteq Seq(STRING) /\ Keywords \in [DOMAIN Keywords -> STRING]

Peek(i) == IF i <= Len(input) THEN input[i] ELSE EOF

\* The first index from i on whose character is not in S.
RECURSIVE SkipIn(_, _)
SkipIn(S, i) == IF Peek(i) \in S THEN SkipIn(S, i + 1) ELSE i

\* The first index from i on whose character is in S, or at the end.
RECURSIVE SkipUntil(_, _)
SkipUntil(S, i) == IF Peek(i) \in S \cup {EOF} THEN i ELSE SkipUntil(S, i + 1)

\* getTokenType: a keyword's type, or IDENT.
GetTokenType(w) == IF w \in DOMAIN Keywords THEN Keywords[w] ELSE "IDENT"

\* A token as addToken(type, line, col, n) makes it.
Tok(type, l, c, n) ==
  [type |-> type, line |-> l, col |-> c, colEnd |-> c + n - 1, str |-> <<>>,
   num |-> 0, lexeme |-> <<>>]

Err(msg, l, c) == [msg |-> msg, line |-> l, col |-> c]

\* The words a following '=' joins into one reduce operator.
ReduceWords == {<<"m", "i", "n">>, <<"m", "a", "x">>,
                <<"a", "s", "y", "n", "c", "M", "a", "x">>,
                <<"a", "s", "y", "n", "c", "M", "i", "n">>}

DigitVal(d) == CHOOSE n \in 0 .. 9 : <<"0", "1", "2", "3", "4", "5", "6", "7", "8", "9">>[n + 1] = d

\* The value of the longest prefix of s whose digits are below base.
RECURSIVE PrefixValue(_, _, _)
PrefixValue(s, base, acc) ==
  IF s = <<>> \/ DigitVal(s[1]) >= base THEN acc
  ELSE PrefixValue(Tail(s), base, acc * base + DigitVal(s[1]))

\* std::strtol(s, &end, 0) of a string of digits: base 0 reads a leading 0
\* as the octal prefix, and stops at the first digit that is not octal.
StrToL0(s) == IF s[1] = "0" THEN PrefixValue(s, 8, 0) ELSE PrefixValue(s, 10, 0)

----------------------------------------------------------------------------
(***************************************************************************)
(* The branches of the outer loop.  Each consumes the characters of one   *)
(* token, error or blank and moves the counters as the code does.        *)
(***************************************************************************)
Step(p2, l2, c2, toks, errs) ==
  /\ p' = p2 /\ line' = l2 /\ col' = c2
  /\ tokens' = tokens \o toks /\ errors' = errors \o errs

Ready(chars) == ~done /\ Peek(p) \in chars

\* Words: '#' alone, or a letter or '_' and the letters, digits and '_'
\* after it; "min", "max", "asyncMax", "asyncMin" take a following '='.
LexWord ==
  LET e1   == IF Peek(p) = "#" THEN p + 1 ELSE SkipIn(Alpha \cup Digit \cup {"_"}, p + 1)
      glue == SubSeq(input, p, e1 - 1) \in ReduceWords /\ Peek(e1) = "="
      e    == IF glue THEN e1 + 1 ELSE e1
      w    == SubSeq(input, p, e - 1)
      type == GetTokenType(w)
      t    == [Tok(type, line, col, Len(w)) EXCEPT !.str = IF type = "IDENT" THEN w ELSE <<>>]
  IN  /\ Ready(Alpha \cup {"#", "_"})
      /\ Step(e, line, col + Len(w), <<t>>, <<>>)
      /\ UNCHANGED <<input, sstate, done>>

\* The one-character tokens.
Single == ("(" :> "LP") @@ (")" :> "RP") @@ ("[" :> "LB") @@ ("]" :> "RB")
       @@ ("{" :> "LC") @@ ("}" :> "RC") @@ ("," :> "COMMA") @@ (":" :> "COL")
       @@ (";" :> "SEMICOL") @@ ("*" :> "STAR") @@ ("/" :> "SLASH")
       @@ ("\\" :> "BACKSLASH") @@ ("^" :> "EXP") @@ ("'" :> "TRANSPOSE")

LexSingle ==
  /\ Ready(DOMAIN Single)
  /\ Step(p + 1, line, col + 1, <<Tok(Single[Peek(p)], line, col, 1)>>, <<>>)
  /\ UNCHANGED <<input, sstate, done>>

\* '<', '>', '=', '.' and '-': alone, or with the character that follows.
Pair == ("<" :> [alone |-> "LA", with |-> ("=" :> "LE")])
     @@ (">" :> [alone |-> "RA", with |-> ("=" :> "GE")])
     @@ ("=" :> [alone |-> "ASSIGN", with |-> ("=" :> "EQ")])
     @@ ("." :> [alone |-> "PERIOD", with |-> ("*" :> "DOTSTAR") @@ ("/" :> "DOTSLASH")])
     @@ ("-" :> [alone |-> "MINUS", with |-> (">" :> "RARROW")])

LexPair ==
  LET pr == Pair[Peek(p)]
      n  == Peek(p + 1)
  IN  /\ Ready(DOMAIN Pair)
      /\ IF n \in DOMAIN pr.with
         THEN Step(p + 2, line, col + 2, <<Tok(pr.with[n], line, col, 2)>>, <<>>)
         ELSE Step(p + 1, line, col + 1, <<Tok(pr.alone, line, col, 1)>>, <<>>)
      /\ UNCHANGED <<input, sstate, done>>

\* '+', or "+=" (PLUS_REDUCE), after which the column is not moved on.
LexPlus ==
  /\ Ready({"+"})
  /\ IF Peek(p + 1) = "="
     THEN Step(p + 2, line, col, <<Tok("PLUS_REDUCE", line, col, 2)>>, <<>>)
     ELSE Step(p + 1, line, col + 1, <<Tok("PLUS", line, col, 1)>>, <<>>)
  /\ UNCHANGED <<input, sstate, done>>

\* Mutant: the recovery skips nothing.
SkipBadNone(i) == i

\* The recovery after an unexpected symbol: skip to a space or the end,
\* one column per character.
SkipBad(i) == SkipUntil(Space, i)

\* "!=", or an error and the recovery.
LexBang ==
  /\ Ready({"!"})
  /\ IF Peek(p + 1) = "="
     THEN Step(p + 2, line, col + 2, <<Tok("NE", line, col, 2)>>, <<>>)
     ELSE Step(SkipBad(p + 1), line, col + 1 + (SkipBad(p + 1) - (p + 1)), <<>>,
               <<Err("unexpected !", line, col)>>)
  /\ UNCHANGED <<input, sstate, done>>

\* The loop of a "%{" comment from index i: a "%}" closes it; every other
\* character is comment text.  A '%' and the character after it are read
\* together, so a '%' followed by '\n' both counts the line and swallows it.
RECURSIVE BlockComment(_, _, _)
BlockComment(i, l, c) ==
  CASE Peek(i) = EOF -> [i |-> i, line |-> l, col |-> c]
    [] Peek(i) = "%" ->
         LET nl == Peek(i + 1) = "\n"
             l2 == IF nl THEN l + 1 ELSE l
             c2 == IF nl THEN 1 ELSE c + 2
         IN  IF Peek(i + 1) = "}" THEN [i |-> i + 2, line |-> l2, col |-> c2]
             ELSE BlockComment(i + 2, l2, c2)
    [] Peek(i) = "\n" -> BlockComment(i + 1, l + 1, 1)
    [] OTHER -> BlockComment(i + 1, l, c + 1)

\* '%': "%!" opens a one-line test, "%{" a comment (the test for "%{!"
\* reads the '{' again, so a multi-line test is never opened), "%}" closes
\* a multi-line test, and anything else is a comment to the end of the line.
\* After the comment loop, the end of the stream is reported as an unclosed
\* comment, also when "%}" closed it at the very end.
LexPercent ==
  LET n == Peek(p + 1)
  IN  /\ Ready({"%"})
      /\ UNCHANGED <<input, done>>
      /\ CASE n = "!" ->
                Step(p + 2, line, col + 2, <<Tok("TEST", line, col, 2)>>, <<>>)
                /\ sstate' = "SLTEST"
           [] n = "{" /\ Peek(p + 1) = "!" ->
                Step(p + 2, line, col + 2, <<Tok("TEST", line, col, 2)>>, <<>>)
                /\ sstate' = "MLTEST"
           [] n = "{" ->
                LET r == BlockComment(p + 1, line, col + 1)
                IN  Step(r.i, r.line, r.col, <<>>,
                         IF Peek(r.i) = EOF THEN <<Err("unclosed comment", r.line, r.col)>> ELSE <<>>)
                    /\ UNCHANGED sstate
           [] n = "}" ->
                Step(p + 2, line, col + 2, <<>>,
                     IF sstate = "MLTEST" THEN <<>> ELSE <<Err("no !%{", line, col)>>)
                /\ sstate' = IF sstate = "MLTEST" THEN "INITIAL" ELSE sstate
           [] OTHER ->
                LET e == SkipUntil({"\n"}, p + 1)
                IN  Step(e, line, col + (e - (p + 1)) + 1, <<>>, <<>>) /\ UNCHANGED sstate

\* The characters after a backslash that make an escape sequence.
Escapes == {"a", "b", "f", "n", "r", "t", "v", "\\", "'", "\"", "?"}

\* The loop of a string literal from index i to the closing quote or the
\* end: an escape takes two columns, an unknown one is reported and its
\* character read as text; a '\n' in the literal moves only the column.
RECURSIVE StringBody(_, _, _)
StringBody(i, c, errs) ==
  CASE Peek(i) \in {EOF, "\""} -> [i |-> i, col |-> c, errs |-> errs]
    [] Peek(i) = "\\" /\ Peek(i + 1) \in Escapes -> StringBody(i + 2, c + 2, errs)
    [] Peek(i) = "\\" ->
         StringBody(i + 1, c + 1, Append(errs, Err("unrecognized escape", line, c)))
    [] OTHER -> StringBody(i + 1, c + 1, errs)

LexString ==
  LET r == StringBody(p + 1, col + 1, <<>>)
      t == [Tok("STRING_LITERAL", line, col, 1) EXCEPT !.colEnd = r.col]
      closed == Peek(r.i) = "\""
  IN  /\ Ready({"\""})
      /\ Step(IF closed THEN r.i + 1 ELSE r.i, line, IF closed THEN r.col + 1 ELSE r.col,
              <<t>>, r.errs \o IF closed THEN <<>> ELSE <<Err("unclosed string", line, r.col)>>)
      /\ UNCHANGED <<input, sstate, done>>

\* '\r' (with a '\n' after it), '\v', '\f' and '\n' end the line and a
\* one-line test.
LexLineBreak ==
  /\ Ready({"\r", VT, "\f", "\n"})
  /\ Step(IF Peek(p) = "\r" /\ Peek(p + 1) = "\n" THEN p + 2 ELSE p + 1, line + 1, 1, <<>>, <<>>)
  /\ sstate' = IF sstate = "SLTEST" THEN "INITIAL" ELSE sstate
  /\ UNCHANGED <<input, done>>

LexBlank ==
  /\ Ready({" ", "\t"})
  /\ Step(p + 1, line, col + 1, <<>>, <<>>)
  /\ UNCHANGED <<input, sstate, done>>

\* The characters the other branches take; anything else starts a number.
Handled == Alpha \cup {"#", "_"} \cup DOMAIN Single \cup DOMAIN Pair
           \cup {"+", "!", "%", "\"", "\r", VT, "\f", "\n", " ", "\t", EOF}

\* The default branch: a number, its digits, then a '.' and digits, then
\* 'e' or 'E', a sign and digits.  A character that cannot start a number,
\* or a '.' or exponent without a digit after it, is reported and skipped
\* to the next space, and no token is made.  An int literal's value is
\* strtol(tokenString, &end, 0); the lexeme is the tokenString.
LexNumber ==
  LET d1     == SkipIn(Digit, p)
      frac   == Peek(d1) = "."
      fracOk == ~frac \/ Peek(d1 + 1) \in Digit
      d2     == IF frac THEN SkipIn(Digit, d1 + 1) ELSE d1
      expo   == fracOk /\ Peek(d2) \in {"e", "E"}
      s1     == IF Peek(d2 + 1) \in {"+", "-"} THEN d2 + 2 ELSE d2 + 1
      expOk  == ~expo \/ Peek(s1) \in Digit
      d3     == IF expo THEN SkipIn(Digit, s1) ELSE d2
      lex    == SubSeq(input, p, d3 - 1)
      float  == frac \/ expo
      t      == [Tok(IF float THEN "FLOAT_LITERAL" ELSE "INT_LITERAL", line, col, d3 - p)
                 EXCEPT !.num = IF float THEN 0 ELSE StrToL0(lex), !.lexeme = lex]
      \* report at index i (column col + i - p) and skip
      Bad(i) == Step(SkipBad(i), line, col + (SkipBad(i) - p), <<>>,
                     <<Err("unexpected symbol", line, col + (i - p))>>)
  IN  /\ ~done /\ Peek(p) \notin Handled
      /\ CASE Peek(p) \notin Digit -> Bad(p)
           [] ~fracOk -> Bad(d1 + 1)
           [] ~expOk -> Bad(s1)
           [] OTHER -> Step(d3, line, col + (d3 - p), <<t>>, <<>>)
      /\ UNCHANGED <<input, sstate, done>>

\* The end of the stream: an open test is reported, and END is appended.
Finish ==
  /\ ~done /\ Peek(p) = EOF
  /\ Step(p, line, col, <<Tok("END", line, col, 1)>>,
          IF sstate # "INITIAL" THEN <<Err("unclosed test", line, col)>> ELSE <<>>)
  /\ done' = TRUE
  /\ UNCHANGED <<input, sstate>>

ScanInit ==
  /\ input \in Inputs
  /\ p = 1 /\ line = 1 /\ col = 1 /\ sstate = "INITIAL"
  /\ tokens = <<>> /\ errors = <<>> /\ done = FALSE

ScanNext ==
  \/ LexWord \/ LexSingle \/ LexPair \/ LexPlus \/ LexBang \/ LexPercent
  \/ LexString \/ LexLineBreak \/ LexBlank \/ LexNumber \/ Finish

\* lex runs its loop to the end of the stream.
ScanSpec == ScanInit /\ [][ScanNext]_scanVars /\ WF_scanVars(ScanNext)

----------------------------------------------------------------------------
(***************************************************************************)
(* Properties                                                              *)
(***************************************************************************)
\* Every iteration of lex's loop consumes at least one character: the
\* branches that report an unexpected symbol skip it (and what follows it
\* up to a space), and the unknown escape, which leaves its character in
\* the stream, still takes the backslash.  So lex returns on every input.
ScanProgress == [][~done => p' > p \/ (done' /\ p' = p)]_scanVars

\* The decimal value of a string of digits.
DecimalValue(s) == FoldLeft(LAMBDA acc, d : 10 * acc + DigitVal(d), 0, s)

\* Every int literal token carries the value of the digits it was read
\* from: the scanner reads only decimal digits into it.
LiteralValueExact ==
  \A i \in DOMAIN tokens :
    tokens[i].type = "INT_LITERAL" => tokens[i].num = DecimalValue(tokens[i].lexeme)
====
