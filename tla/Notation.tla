------------------------------ MODULE Notation ------------------------------
(***************************************************************************)
(* Text to terms and back: the lexer and the recursive-descent parser of    *)
(* parse.rs, and the emitters of expression/emit.rs.  Text is a sequence   *)
(* of tokens; the lexer, which makes the tokens, works on byte classes.    *)
(***************************************************************************)
EXTENDS Terms, Calls

CONSTANTS CallTable,           \* FUNCTIONS: written name -> <<function, arity>>
          Numerals             \* number token -> the value it is read as

Parsed(t, pos) == [error |-> "none", term |-> t, pos |-> pos]
Unparsed(e)    == [error |-> e]

Punctuation == {"+", "-", "*", "/", "%", "^", "(", ")", ","}
IsName(token) == token \notin Punctuation \cup DOMAIN Numerals
TokenAt(text, pos) == IF pos \in DOMAIN text THEN text[pos] ELSE "end"
Failed(token) == Unparsed(IF token = "end" THEN "unexpected end" ELSE "expected")

SumTerms     == [op \in {"+", "-"} |-> IF op = "+" THEN "Add" ELSE "Subtract"]
ProductTerms == [op \in {"*", "/"} |-> IF op = "*" THEN "Multiply" ELSE "Divide"]

\* a % b is spelled a - b * floor(a / b), the left operand copied.
Remainder(a, b) == Sub(a, Mul(b, Fn("Floor", <<Div(a, b)>>)))

BuildCall(name, args) ==
  IF name \notin DOMAIN CallTable THEN Unparsed("unknown function")
  ELSE IF Len(args) # CallTable[name][2] THEN Unparsed("wrong arity")
  ELSE Parsed(Fn(CallTable[name][1], args), 0)

RECURSIVE ParseExpr(_, _), ParseTerm(_, _), ParseUnary(_, _), ParseArgs(_, _, _),
          ParseSum(_, _), JoinSum(_, _, _), ParseProduct(_, _), JoinProduct(_, _, _)

ParseExpr(text, pos) == ParseSum(text, ParseTerm(text, pos))
ParseTerm(text, pos) == ParseProduct(text, ParseUnary(text, pos))

\* The loops, left-associative: `left` is what has been read so far.
ParseSum(text, left) ==
  IF left.error # "none" \/ TokenAt(text, left.pos) \notin DOMAIN SumTerms THEN left
  ELSE JoinSum(text, left, ParseTerm(text, left.pos + 1))
JoinSum(text, left, right) ==
  IF right.error # "none" THEN right
  ELSE ParseSum(text, Parsed(Fn(SumTerms[TokenAt(text, left.pos)], <<left.term, right.term>>),
                             right.pos))

ParseProduct(text, left) ==
  IF left.error # "none" \/ TokenAt(text, left.pos) \notin DOMAIN ProductTerms \cup {"%"} THEN left
  ELSE JoinProduct(text, left, ParseUnary(text, left.pos + 1))
ProductFor(op, a, b) == IF op = "%" THEN Remainder(a, b) ELSE Fn(ProductTerms[op], <<a, b>>)
JoinProduct(text, left, right) ==
  IF right.error # "none" THEN right
  ELSE ParseProduct(text, Parsed(ProductFor(TokenAt(text, left.pos), left.term, right.term),
                                 right.pos))

Negated(parse) == IF parse.error = "none" THEN Parsed(Neg(parse.term), parse.pos) ELSE parse

\* In brackets, up to the closing one.
Bracketed(text, inner) ==
  IF inner.error # "none" THEN inner
  ELSE IF TokenAt(text, inner.pos) # ")" THEN Failed(TokenAt(text, inner.pos))
  ELSE [inner EXCEPT !.pos = @ + 1]

ParsePrimary(text, pos) ==
  LET token == TokenAt(text, pos)
  IN  CASE token \in DOMAIN Numerals -> Parsed(Num(Numerals[token]), pos + 1)
        [] token = "(" -> Bracketed(text, ParseExpr(text, pos + 1))
        [] token \notin DOMAIN Numerals \cup {"(", "end"} /\ IsName(token) ->
             IF TokenAt(text, pos + 1) = "(" THEN ParseArgs(text, <<token>>, pos + 1)
             ELSE Parsed(Var(token), pos + 1)
        [] OTHER -> Failed(token)

\* The exponent goes back through the signs, which makes ^ right-associative.
PowerOf(base, exponent) ==
  IF exponent.error # "none" THEN exponent
  ELSE Parsed(Pow(base.term, exponent.term), exponent.pos)
ParsePower(text, base) ==
  IF base.error # "none" \/ TokenAt(text, base.pos) # "^" THEN base
  ELSE PowerOf(base, ParseUnary(text, base.pos + 1))

\* A sign wraps the finished power.
ParseUnary(text, pos) ==
  CASE TokenAt(text, pos) = "-" -> Negated(ParseUnary(text, pos + 1))
    [] TokenAt(text, pos) = "+" -> ParseUnary(text, pos + 1)
    [] OTHER -> ParsePower(text, ParsePrimary(text, pos))

\* got: the name, then the arguments read; pos: the "(" or "," before the next.
Closed(call, pos) == IF call.error # "none" THEN call ELSE Parsed(call.term, pos)
AfterArg(text, got, arg) ==
  IF arg.error # "none" THEN arg
  ELSE IF TokenAt(text, arg.pos) = "," THEN ParseArgs(text, Append(got, arg.term), arg.pos)
  ELSE IF TokenAt(text, arg.pos) # ")" THEN Failed(TokenAt(text, arg.pos))
  ELSE Closed(BuildCall(got[1], Append(Tail(got), arg.term)), arg.pos + 1)
ParseArgs(text, got, pos) == AfterArg(text, got, ParseExpr(text, pos + 1))

\* The whole text has to be read.
WholeParse(text, parse) ==
  IF parse.error = "none" /\ parse.pos <= Len(text) THEN Unparsed("trailing input") ELSE parse
ParseExpression(text) ==
  IF text = <<>> THEN Unparsed("empty") ELSE WholeParse(text, ParseExpr(text, 1))

\* The names of a parsed term: bound names and wrappers never come out of it.
RECURSIVE FreeVariables(_)
FreeVariables(t) ==
  IF t.op = "Variable" THEN {t.name}
  ELSE IF t.op = "Function" THEN UNION {FreeVariables(t.kids[k]) : k \in DOMAIN t.kids}
  ELSE {}

-----------------------------------------------------------------------------
(***************************************************************************)
(* The lexer, on classes of bytes: "9" a digit, "." a point, "e" the        *)
(* letter of an exponent, "s" a sign, "o" any other operator, "a" another  *)
(* letter or _, " " a blank, "?" what no token starts with; and the two     *)
(* bytes of a character outside ASCII, "L" then "c", or "m" if the second   *)
(* byte, read as a character of its own, is alphanumeric.                  *)
(***************************************************************************)
Letters  == {"e", "a", "L", "m"}
WordBytes == Letters \cup {"9"}
ByteAt(s, i) == IF i \in DOMAIN s THEN s[i] ELSE "end"

\* The first position from i on whose byte is not in S.
SkipWhile(s, i, S) ==
  CHOOSE j \in i..(Len(s) + 1) :
    /\ \A k \in i..(j - 1) : s[k] \in S
    /\ ByteAt(s, j) \notin S

\* An exponent is taken only if a digit follows the e and its sign.
NumberEnd(s, i) ==
  LET j == SkipWhile(s, i, {"9", "."})
      k == IF ByteAt(s, j) = "e" /\ ByteAt(s, j + 1) = "s" THEN j + 2 ELSE j + 1
  IN  IF ByteAt(s, j) = "e" /\ ByteAt(s, k) = "9" THEN SkipWhile(s, k, {"9"}) ELSE j

\* What f64 reads: some digit, one point at the most.
ReadableNumber(s, i, j) ==
  LET mantissa == {k \in i..(j - 1) : \A l \in i..k : s[l] \in {"9", "."}}
  IN  /\ \E k \in mantissa : s[k] = "9"
      /\ Cardinality({k \in mantissa : s[k] = "."}) <= 1

\* Slicing the text needs both ends on a character.
OnCharacter(s, i) == ByteAt(s, i) \notin {"c", "m"}

LexemeAt(s, i) ==
  LET word == SkipWhile(s, i, WordBytes)
      number == NumberEnd(s, i)
  IN  CASE s[i] \in {"s", "o"} -> [kind |-> "operator", end |-> i + 1]
        [] s[i] \in {"9", "."} ->
             [kind |-> IF ReadableNumber(s, i, number) THEN "number" ELSE "bad number",
              end |-> number]
        [] s[i] \in Letters ->
             [kind |-> IF OnCharacter(s, word) THEN "name" ELSE "panic", end |-> word]
        [] OTHER -> [kind |-> "bad character", end |-> i + 1]

Refused(kind) == kind \in {"bad number", "bad character", "panic"}

RECURSIVE LexFrom(_, _, _)
LexFrom(s, i, got) ==
  LET next == LexemeAt(s, i)
      lexeme == [kind |-> next.kind, from |-> i, upto |-> next.end - 1]
  IN  IF i > Len(s) THEN IF got = <<>> THEN Unparsed("empty")
                         ELSE [error |-> "none", lexemes |-> got]
      ELSE IF s[i] = " " THEN LexFrom(s, i + 1, got)
      ELSE IF Refused(next.kind) THEN Unparsed(next.kind)
      ELSE LexFrom(s, next.end, Append(got, lexeme))

Lex(s) == LexFrom(s, 1, <<>>)

-----------------------------------------------------------------------------
(***************************************************************************)
(* Emission: a fragment is the text of a subterm and how tightly its        *)
(* outermost operator binds.                                               *)
(***************************************************************************)
PrecAdd   == 1
PrecMul   == 2
PrecUnary == 3
PrecPow   == 4
PrecAtom  == 5

Frag(text, prec) == [text |-> text, prec |-> prec]
Atom(text) == Frag(text, PrecAtom)
\* Variant for the mutants: an operator of the level below goes without brackets.
ParenIfLooser(frag, needed) ==
  IF frag.prec + 1 < needed THEN <<"(">> \o frag.text \o <<")">> ELSE frag.text

ParenIf(frag, needed) ==
  IF frag.prec < needed THEN <<"(">> \o frag.text \o <<")">> ELSE frag.text

\* A number is an atom, its sign included; blanks part the words of postfix.
NumeralOf(r) == CHOOSE n \in DOMAIN Numerals : Numerals[n] = r
EmitNumber(r, target) ==
  Atom(IF LtR(r, Zero) /\ target # "EmlRpn" THEN <<"-", NumeralOf(NegR(r))>> ELSE <<NumeralOf(r)>>)

InfixSign == [f \in {"Add", "Subtract", "Multiply", "Divide"} |->
                CASE f = "Add" -> "+" [] f = "Subtract" -> "-"
                  [] f = "Multiply" -> "*" [] f = "Divide" -> "/"]
PrecOf(f) == IF f \in {"Add", "Subtract"} THEN PrecAdd ELSE PrecMul

WrittenName(f) == CHOOSE n \in DOMAIN CallTable : CallTable[n][1] = f
HasSpelling(f) == \E n \in DOMAIN CallTable : CallTable[n][1] = f

RECURSIVE Listing(_)          \* the arguments, separated by commas
Listing(kids) == IF Len(kids) = 1 THEN kids[1].text
                 ELSE kids[1].text \o <<",">> \o Listing(Tail(kids))
Named(name, kids) == Atom(<<name, "(">> \o Listing(kids) \o <<")">>)

\* Infix text, and shader source, where a power is a call.
EmitInfix(f, kids, target) ==
  CASE f \in DOMAIN InfixSign /\ Len(kids) = 2 ->
         Frag(ParenIf(kids[1], PrecOf(f)) \o <<InfixSign[f]>>
              \o ParenIf(kids[2], PrecOf(f) + 1), PrecOf(f))
    [] f = "Negate" -> Frag(<<"-">> \o ParenIf(kids[1], PrecUnary), PrecUnary)
    [] f = "Power" /\ target = "Glsl" -> Named("pow", kids)
    [] f = "Power" /\ target = "Text" ->
         Frag(ParenIf(kids[1], PrecPow + 1) \o <<"^">> \o ParenIf(kids[2], PrecPow + 1),
              PrecPow)
    [] f = "Ln" /\ target = "Glsl" -> Named("log", kids)
    [] OTHER -> Named(WrittenName(f), kids)

\* Postfix, where every fragment is an atom and nothing is bracketed.
RpnWord(f) == CASE f \in DOMAIN InfixSign -> InfixSign[f]
                [] f = "Negate" -> "neg" [] f = "Power" -> "^"
                [] OTHER -> WrittenName(f)
EmitRpn(f, kids) == Atom(FlattenSeq([k \in DOMAIN kids |-> kids[k].text]) \o <<RpnWord(f)>>)

RECURSIVE EmitFrag(_, _)
EmitFrag(t, target) ==
  LET kids == [k \in DOMAIN t.kids |-> EmitFrag(t.kids[k], target)]
  IN  CASE t.op = "Number" -> EmitNumber(t.value, target)
        [] t.op = "Variable" -> Atom(<<t.name>>)
        [] t.op = "Function" -> IF target = "EmlRpn" THEN EmitRpn(t.name, kids)
                                ELSE EmitInfix(t.name, kids, target)

RECURSIVE Emittable(_)
Emittable(t) ==
  /\ t.op \in {"Number", "Variable", "Function"}
  /\ t.op = "Function" => \/ t.name \in DOMAIN InfixSign \cup {"Negate", "Power"}
                          \/ HasSpelling(t.name)
  /\ \A k \in DOMAIN t.kids : Emittable(t.kids[k])

Emit(t, target) ==
  IF ~Emittable(t) THEN Unparsed("no spelling")
  ELSE [error |-> "none", text |-> EmitFrag(t, target).text]
ToText(t) == Emit(t, "Text")
-----------------------------------------------------------------------------
(* The text calls of the core library, which have no Python name. *)

TextCall ==
  /\ Calling("text")
  /\ Reply(CASE Call.op = "lex"            -> Gave(Lex(Call.bytes))
             [] Call.op = "parse"          -> Gave(ParseExpression(Call.tokens))
             [] Call.op = "emit"           -> Gave(Emit(held, Call.target))
             [] Call.op = "free_variables" -> Gave(FreeVariables(held)))
  /\ UNCHANGED held
=============================================================================
