----------------------------- MODULE FacadeCore -----------------------------
(***************************************************************************)
(* Expression, Integer and Variable as Python sees them (pyfacade/core.rs): *)
(* builders, evaluation, LaTeX, the compact list form and decimal strings. *)
(* A Constant keeps its cached value, or Absent, in `value`, a Number that *)
(* is none its kind in `name`, a Limit its variable in `name`, its side    *)
(* (One from the right) in `value` and two kids.                           *)
(***************************************************************************)
EXTENDS Terms, Calls
LOCAL INSTANCE TLC

CONSTANT Radix                 \* 256: the values of a byte

ASSUME RadixAssumption == Radix \in Nat /\ Radix > 1

-----------------------------------------------------------------------------
(* Decimal strings over little-endian bytes. *)

Finite(negative, bytes) == [kind |-> "finite", negative |-> negative, bytes |-> bytes]
NaN == [kind |-> "nan", negative |-> FALSE, bytes |-> <<0>>]
Infinity(negative) == [kind |-> "inf", negative |-> negative, bytes |-> <<0>>]
Digits == {"0", "1", "2", "3", "4", "5", "6", "7", "8", "9"}
DigitValue(d) == CHOOSE v \in 0..9 : <<"0", "1", "2", "3", "4", "5", "6", "7", "8", "9">>[v + 1] = d
DigitText(v) == CHOOSE d \in Digits : DigitValue(d) = v

\* The least significant byte first, zeros at the top dropped.
RECURSIVE Stripped(_)
Stripped(bytes) == IF Len(bytes) > 1 /\ Last(bytes) = 0 THEN Stripped(Front(bytes)) ELSE bytes

\* Long division from the top byte down.
DivideByTen(bytes) ==
  LET Step(acc, k) ==
        LET cur == acc.remainder * Radix + bytes[Len(bytes) + 1 - k]
        IN  [quotient |-> <<cur \div 10>> \o acc.quotient, remainder |-> cur % 10]
  IN  FoldLeft(Step, [quotient |-> <<>>, remainder |-> 0], [k \in DOMAIN bytes |-> k])

RECURSIVE DecimalDigits(_)
DecimalDigits(bytes) ==
  LET d == DivideByTen(bytes)
  IN  IF \A k \in DOMAIN bytes : bytes[k] = 0 THEN <<>>
      ELSE Append(DecimalDigits(Stripped(d.quotient)), DigitText(d.remainder))

ToDecimalString(n) ==
  LET digits == DecimalDigits(n.bytes)
  IN  (IF n.negative THEN <<"-">> ELSE <<>>) \o (IF digits = <<>> THEN <<"0">> ELSE digits)

\* One digit more: every byte times ten plus the carry, which may add a byte.
TimesTenPlus(bytes, digit) ==
  LET Step(acc, k) ==
        LET cur == bytes[k] * 10 + acc.carry
        IN  [bytes |-> Append(acc.bytes, cur % Radix), carry |-> cur \div Radix]
      RECURSIVE Carried(_, _)
      Carried(got, carry) == IF carry = 0 THEN got
                             ELSE Carried(Append(got, carry % Radix), carry \div Radix)
      last == FoldLeft(Step, [bytes |-> <<>>, carry |-> digit], [k \in DOMAIN bytes |-> k])
  IN  Carried(last.bytes, last.carry)

RECURSIVE Trimmed(_)
Trimmed(text) == IF text # <<>> /\ text[1] = " " THEN Trimmed(Tail(text))
                 ELSE IF text # <<>> /\ Last(text) = " " THEN Trimmed(Front(text)) ELSE text

FromDecimalString(text) ==
  LET trimmed == Trimmed(text)
      signed == trimmed # <<>> /\ trimmed[1] \in {"-", "+"}
      digits == IF signed THEN Tail(trimmed) ELSE trimmed
      bytes == Stripped(FoldLeft(TimesTenPlus, <<0>>, [k \in DOMAIN digits |-> DigitValue(digits[k])]))
  IN  IF digits = <<>> \/ \E k \in DOMAIN digits : digits[k] \notin Digits THEN Raised("ValueError")
      ELSE Gave(Finite(trimmed[1] = "-" /\ bytes # <<0>>, bytes))

CompactInteger(n) ==
  CASE n.kind = "nan" -> <<"NaN">>
    [] n.kind = "inf" -> IF n.negative THEN <<"-Inf">> ELSE <<"Inf">>
    [] OTHER -> ToDecimalString(n)
IntegerFromCompact(text) ==
  CASE text = <<"NaN">> -> Gave(NaN)
    [] text \in {<<"Inf">>, <<"+Inf">>} -> Gave(Infinity(FALSE))
    [] text = <<"-Inf">> -> Gave(Infinity(TRUE))
    [] OTHER -> FromDecimalString(text)

-----------------------------------------------------------------------------
(* The compact form.  A Python object is a value under its class: a list or *)
(* tuple of objects, a text, a numeral (a text spelled out), a float, a     *)
(* flag or None.                                                           *)

Item(class, value) == class :> value
Is(item, class) == DOMAIN item = {class}
Content(item) == item[CHOOSE class \in DOMAIN item : TRUE]
PyList(items) == Item("list", items)
Absent == <<>>                  \* the value of None

function_tag ==
  "Add" :> "add" @@ "Subtract" :> "sub" @@ "Multiply" :> "mul" @@ "Divide" :> "div" @@
  "Power" :> "pow" @@ "Negate" :> "neg" @@ "Sqrt" :> "sqrt" @@ "Cbrt" :> "cbrt" @@
  "Exp" :> "exp" @@ "Ln" :> "ln" @@ "Log" :> "log" @@ "Log10" :> "log10" @@ "Log2" :> "log2" @@
  "Sin" :> "sin" @@ "Cos" :> "cos" @@ "Tan" :> "tan" @@ "Cot" :> "cot" @@ "Sec" :> "sec" @@
  "Csc" :> "csc" @@ "Asin" :> "asin" @@ "Acos" :> "acos" @@ "Atan" :> "atan" @@
  "Sinh" :> "sinh" @@ "Cosh" :> "cosh" @@ "Tanh" :> "tanh" @@ "Abs" :> "abs" @@
  "Sign" :> "sign" @@ "Floor" :> "floor" @@ "Ceil" :> "ceil" @@ "Round" :> "round" @@
  "Gamma" :> "gamma" @@ "Erf" :> "erf" @@ "Factorial" :> "factorial"

function_from_tag ==
  "add" :> "Add" @@ "sub" :> "Subtract" @@ "mul" :> "Multiply" @@ "div" :> "Divide" @@
  "pow" :> "Power" @@ "neg" :> "Negate" @@ "sqrt" :> "Sqrt" @@ "cbrt" :> "Cbrt" @@
  "exp" :> "Exp" @@ "ln" :> "Ln" @@ "log" :> "Log" @@ "log10" :> "Log10" @@ "log2" :> "Log2" @@
  "sin" :> "Sin" @@ "cos" :> "Cos" @@ "tan" :> "Tan" @@ "cot" :> "Cot" @@ "sec" :> "Sec" @@
  "csc" :> "Csc" @@ "asin" :> "Asin" @@ "acos" :> "Acos" @@ "atan" :> "Atan" @@
  "sinh" :> "Sinh" @@ "cosh" :> "Cosh" @@ "tanh" :> "Tanh" @@ "abs" :> "Abs" @@
  "sign" :> "Sign" @@ "floor" :> "Floor" @@ "ceil" :> "Ceil" @@ "round" :> "Round" @@
  "gamma" :> "Gamma" @@ "erf" :> "Erf" @@ "factorial" :> "Factorial"

Binders == "Sum" :> "sum" @@ "Product" :> "product"

RECURSIVE BytesOf(_)
BytesOf(n) == IF n < Radix THEN <<n>> ELSE <<n % Radix>> \o BytesOf(n \div Radix)
ValueOfBytes(bytes) == FoldRight(LAMBDA b, v : v * Radix + b, bytes, 0)
IntegerOf(t) ==
  CASE t.name = "nan" -> NaN
    [] t.name = "inf" -> Infinity(t.value[1] < 0)
    [] OTHER          -> Finite(t.value[1] < 0, BytesOf(AbsInt(t.value[1])))
NumberOf(n) ==
  LET sign == IF n.negative THEN -1 ELSE 1
  IN  CASE n.kind = "nan" -> Term("Number", "nan", Zero, <<>>)
        [] n.kind = "inf" -> Term("Number", "inf", Int2Rat(sign), <<>>)
        [] OTHER          -> Lit(sign * ValueOfBytes(n.bytes))

\* An operator without a tag is refused; wrappers are written as what they wrap.
RECURSIVE Taggable(_), ToCompact(_)
Taggable(t) == /\ t.op = "Function" => t.name \in DOMAIN function_tag
               /\ \A k \in DOMAIN t.kids : Taggable(t.kids[k])
ToCompact(t) ==
  LET nodes == [k \in DOMAIN t.kids |-> ToCompact(t.kids[k])]
      Tagged(tag, items) == PyList(<<Item("text", tag)>> \o items)
      name == <<Item("text", t.name)>>
  IN  CASE t.op = "Number"      -> Tagged("num", <<Item("numeral", CompactInteger(IntegerOf(t)))>>)
        [] t.op = "Variable"    -> Tagged("var", name)
        [] t.op = "Constant"    ->
             Tagged("const", Append(name, Item(IF t.value = Absent THEN "None" ELSE "float", t.value)))
        [] t.op = "Function"    -> Tagged("fn", <<Item("text", function_tag[t.name])>> \o nodes)
        [] t.op \in DOMAIN Binders -> Tagged(Binders[t.op], name \o nodes)
        [] t.op = "Limit"       -> Tagged("limit", name \o nodes \o <<Item("flag", t.value)>>)
        [] t.op = "Conditional" -> Tagged("if", nodes)
        [] t.op = "CachedValue" -> nodes[1]

\* What follows each tag; after the operator of an "fn" any number of nodes.
Shapes ==
  "num" :> <<"numeral">> @@ "var" :> <<"text">> @@ "const" :> <<"text", "cached">> @@
  "sum" :> <<"text", "node", "node", "node">> @@ "product" :> <<"text", "node", "node", "node">> @@
  "limit" :> <<"text", "node", "node", "flag">> @@ "if" :> <<"node", "node", "node">>
NodeShape(tag, count) ==
  IF tag = "fn" THEN [k \in 1..(IF count = 0 THEN 1 ELSE count) |-> IF k = 1 THEN "operator" ELSE "node"] ELSE Shapes[tag]

Rebuilt(tag, parts) ==
  CASE tag = "num"   -> NumberOf(parts[1])
    [] tag = "var"   -> Var(parts[1])
    [] tag = "const" -> Term("Constant", parts[1], parts[2], <<>>)
    [] tag = "fn"    -> Fn(parts[1], Tail(parts))
    [] tag = "limit" -> Term("Limit", parts[1], parts[4], <<parts[2], parts[3]>>)
    [] tag = "if"    -> Term("Conditional", "", Zero, parts)
    [] OTHER         -> Term(CHOOSE op \in DOMAIN Binders : Binders[op] = tag, parts[1], Zero, Tail(parts))

\* A node's tag and length come first, then its items from left to right.
RECURSIVE FromCompact(_)
ReadAs(expected, item) ==
  LET Of(classes) == IF DOMAIN item \subseteq classes THEN Gave(Content(item)) ELSE Raised("TypeError")
  IN  CASE expected = "node"     -> FromCompact(item)
        [] expected = "numeral"  -> IF Is(item, "numeral") THEN IntegerFromCompact(item.numeral) ELSE Of({})
        [] expected = "operator" -> IF ~Is(item, "text") THEN Of({})
                                    ELSE IF item.text \notin DOMAIN function_from_tag THEN Raised("ValueError")
                                    ELSE Gave(function_from_tag[item.text])
        [] expected = "cached"   -> Of({"None", "float"})
        [] OTHER                 -> Of({expected})
FromCompact(node) ==
  LET tag == node.list[1].text
      items == Tail(node.list)
      shape == NodeShape(tag, Len(items))
      read == [k \in DOMAIN items |-> ReadAs(shape[k], items[k])]
      bad == {k \in DOMAIN read : read[k].raised # "none"}
  IN  IF ~Is(node, "list") THEN Raised("TypeError")
      ELSE IF \/ node.list = <<>> \/ ~Is(node.list[1], "text")
              \/ tag \notin DOMAIN Shapes \cup {"fn"} \/ Len(items) # Len(shape)
           THEN Raised("ValueError")
      ELSE IF bad # {} THEN read[CHOOSE k \in bad : \A l \in bad : k <= l]
      ELSE Gave(Rebuilt(tag, [k \in DOMAIN read |-> read[k].value]))

-----------------------------------------------------------------------------
(* LaTeX: brackets by the precedence of the child. *)

LatexPrecedence(t) ==
  CASE t.op \in {"Number", "Constant", "Variable"} -> 100
    [] t.op = "Function" -> CASE t.name \in {"Add", "Subtract"} -> 10
                              [] t.name \in {"Multiply", "Divide"} -> 20
                              [] t.name = "Negate" -> 25
                              [] t.name \in {"Power", "Pow"} -> 30
                              [] OTHER -> 90
    [] OTHER -> 50

Group(text) == <<"{">> \o text \o <<"}">>
InParens(text) == <<"(">> \o text \o <<")">>
Joined(texts, sign) ==
  FoldLeft(LAMBDA acc, text : IF acc = <<>> THEN text ELSE acc \o <<sign>> \o text, <<>>, texts)

SymbolLatex(symbol) ==
  CASE symbol = "pi" -> "\\pi" [] symbol = "tau" -> "\\tau" [] symbol = "phi" -> "\\varphi" [] OTHER -> symbol
NumberLatex(n) ==
  CASE n.kind = "nan" -> <<"NaN">>
    [] n.kind = "inf" -> IF n.negative THEN <<"-", "\\infty">> ELSE <<"\\infty">>
    [] OTHER -> ToDecimalString(n)

Commands ==
  "Ln" :> "\\ln" @@ "Log" :> "\\log" @@ "Log10" :> "\\log_{10}" @@ "Log2" :> "\\log_{2}" @@
  "Sin" :> "\\sin" @@ "Cos" :> "\\cos" @@ "Tan" :> "\\tan" @@ "Cot" :> "\\cot" @@ "Sec" :> "\\sec" @@
  "Csc" :> "\\csc" @@ "Asin" :> "\\arcsin" @@ "Acos" :> "\\arccos" @@ "Atan" :> "\\arctan" @@
  "Sinh" :> "\\sinh" @@ "Cosh" :> "\\cosh" @@ "Tanh" :> "\\tanh"
InfixLatex == "Add" :> <<"+", 10>> @@ "Subtract" :> <<"-", 10>> @@ "Multiply" :> <<"\\cdot", 20>>
FixedArity == "Divide" :> 2 @@ "Power" :> 2 @@ "Negate" :> 1 @@ "Sqrt" :> 1 @@ "Cbrt" :> 1 @@
              "Exp" :> 1 @@ "Abs" :> 1

RECURSIVE Latex(_)
Wrapped(t, least) == IF LatexPrecedence(t) < least THEN InParens(Latex(t)) ELSE Latex(t)
FixedLatex(f, args) ==
  LET a == args[1]
      b == args[2]
  IN  CASE f = "Divide" -> <<"\\frac">> \o Group(Latex(a)) \o Group(Latex(b))
        [] f = "Power"  -> Wrapped(a, 31) \o <<"^">> \o Group(Latex(b))
        [] f = "Negate" -> <<"-">> \o Wrapped(a, 25)
        [] f = "Sqrt"   -> <<"\\sqrt">> \o Group(Latex(a))
        [] f = "Cbrt"   -> <<"\\sqrt[3]">> \o Group(Latex(a))
        [] f = "Exp"    -> <<"e", "^">> \o Group(Latex(a))
        [] f = "Abs"    -> <<"|">> \o Latex(a) \o <<"|">>
\* Two operands of a difference bracket the second more readily than a longer list.
FunctionLatex(f, args) ==
  IF f = "Subtract" /\ Len(args) = 2 THEN Wrapped(args[1], 10) \o <<"-">> \o Wrapped(args[2], 11)
  ELSE IF f \in DOMAIN InfixLatex
       THEN Joined([k \in DOMAIN args |-> Wrapped(args[k], InfixLatex[f][2])], InfixLatex[f][1])
  ELSE IF f \in DOMAIN FixedArity
       THEN IF Len(args) = FixedArity[f] THEN FixedLatex(f, args) ELSE <<f, "?">>
  ELSE IF f \in DOMAIN Commands
       THEN <<Commands[f]>> \o InParens(IF Len(args) = 1 THEN Latex(args[1]) ELSE <<"?">>)
  ELSE <<"\\operatorname", f>> \o InParens(Joined([k \in DOMAIN args |-> Latex(args[k])], ","))
Latex(t) ==
  CASE t.op = "Number" -> NumberLatex(IntegerOf(t))
    [] t.op = "Constant" -> <<SymbolLatex(t.name)>>
    [] t.op = "Variable" -> <<t.name>>
    [] t.op = "Function" -> FunctionLatex(t.name, t.kids)
    [] t.op \in DOMAIN Binders -> <<Binders[t.op]>> \o Group(<<t.name, "=">> \o Latex(t.kids[1]))
                                  \o <<"^">> \o Group(Latex(t.kids[2])) \o Latex(t.kids[3])
    [] t.op = "Limit" -> <<"\\lim">> \o Group(<<t.name, "\\to">> \o Latex(t.kids[1])) \o Latex(t.kids[2])
    [] t.op = "Conditional" -> <<"\\begin{cases}">> \o Latex(t.kids[2]) \o <<"&", "if">> \o Latex(t.kids[1])
                               \o <<"\\\\">> \o Latex(t.kids[3]) \o <<"&", "otherwise", "\\end{cases}">>
    [] t.op = "CachedValue" -> Latex(t.kids[1])

-----------------------------------------------------------------------------
(* Evaluation: the first fault met from left to right, or a float, which is *)
(* a number or NaN.  Zeros have no sign, and no point asked for reaches an  *)
(* infinity or an irrational power.                                        *)

Fault(e)   == [fault |-> e, nan |-> FALSE, v |-> Zero]
Float(r)   == [fault |-> "none", nan |-> FALSE, v |-> r]
NotANumber == [fault |-> "none", nan |-> TRUE, v |-> Zero]

\* What there is a numeric rule for, of the functions Python can build.
NumericRules == DOMAIN function_tag \ {"Log", "Cot", "Sec", "Csc", "Gamma", "Erf", "Factorial"}
OperandCount == "Subtract" :> 2 @@ "Divide" :> 2 @@ "Power" :> 2 @@ "Negate" :> 1

UnaryFloat(f, r) ==
  LET Down(q) == Int2Rat(q[1] \div q[2])
  IN  CASE f \in {"Sqrt", "Ln", "Log10", "Log2"} /\ LtR(r, Zero) -> NotANumber
        [] f \in {"Asin", "Acos"} /\ LtR(One, AbsR(r)) -> NotANumber
        [] OTHER -> Float(
             CASE f = "Negate" -> NegR(r)
               [] f = "Abs"    -> AbsR(r)
               [] f = "Sign"   -> IF LtR(r, Zero) THEN NegR(One) ELSE One
               [] f = "Floor"  -> Down(r)
               [] f = "Ceil"   -> NegR(Down(NegR(r)))
               [] f = "Round"  -> IF LtR(r, Zero) THEN NegR(Down(AddR(NegR(r), Half))) ELSE Down(AddR(r, Half))
               [] f = "Sqrt"   -> SquareRoot(r)
               [] f = "Tan"    -> DivR(Elementary("Sin", r), Elementary("Cos", r))
               [] OTHER        -> Elementary(f, r))

\* powf: a zero exponent or a base of one needs no other operand.
PowerFloat(a, b) ==
  IF b = Float(Zero) \/ a = Float(One) THEN Float(One)
  ELSE IF a.nan \/ b.nan \/ b.v[2] # 1 THEN NotANumber
  ELSE Float(PowR(IF b.v[1] < 0 THEN DivR(One, a.v) ELSE a.v, AbsInt(b.v[1])))

BinaryFloat(f, a, b) ==
  IF f = "Power" THEN PowerFloat(a, b)
  ELSE IF f = "Divide" /\ b = Float(Zero) THEN Fault("RuntimeError")
  ELSE IF a.nan \/ b.nan THEN NotANumber
  ELSE Float(IF f = "Subtract" THEN SubR(a.v, b.v) ELSE DivR(a.v, b.v))

\* Other functions read their first operand without counting them.
AppliedTo(f, args) ==
  LET values == [k \in DOMAIN args |-> args[k].v]
  IN  IF f \notin NumericRules \/ (f \in DOMAIN OperandCount /\ Len(args) # OperandCount[f])
      THEN Fault("RuntimeError")
      ELSE IF f \in {"Add", "Multiply"}
      THEN IF \E k \in DOMAIN args : args[k].nan THEN NotANumber
           ELSE Float(IF f = "Add" THEN FoldLeft(AddR, Zero, values) ELSE FoldLeft(MulR, One, values))
      ELSE IF f \in {"Subtract", "Divide", "Power"} THEN BinaryFloat(f, args[1], args[2])
      ELSE IF args = <<>> THEN Fault("PanicException")
      ELSE IF args[1].nan THEN NotANumber ELSE UnaryFloat(f, args[1].v)

\* A condition that is NaN is not zero; both branches are worked out.
RECURSIVE Worked(_, _)
Composed(t, parts) ==
  LET faults == {k \in DOMAIN parts : parts[k].fault # "none"}
  IN  IF faults # {} THEN parts[CHOOSE k \in faults : \A l \in faults : k <= l]
      ELSE CASE t.op = "CachedValue" -> parts[1]
             [] t.op = "Conditional" -> IF parts[1] = Float(Zero) THEN parts[3] ELSE parts[2]
             [] t.op = "Function"    -> AppliedTo(t.name, parts)
Worked(t, env) ==
  CASE t.op = "Number"   -> IF t.name = "nan" THEN NotANumber ELSE Float(t.value)
    [] t.op = "Constant" -> IF t.value = Absent THEN Fault("RuntimeError") ELSE Float(t.value)
    [] t.op = "Variable" -> IF t.name \in DOMAIN env THEN Float(env[t.name]) ELSE Fault("KeyError")
    [] t.op \in DOMAIN Binders \cup {"Limit"} -> Fault("RuntimeError")
    [] OTHER -> Composed(t, [k \in DOMAIN t.kids |-> Worked(t.kids[k], env)])

-----------------------------------------------------------------------------
(* Calls. *)

\* An operand may be a bool, which is the integer it is; the literal may not.
Operand(call) == call.class \in {"Expression", "int", "float", "bool"}

AnswerOperand(built) == Reply(IF Operand(Call) THEN Gave(built) ELSE Raised("TypeError")) /\ UNCHANGED held

\* add, sub, mul, div, pow_ and the operators that call them.
BuilderCall ==
  /\ Calling("expression") /\ Call.op = "binary" /\ ~Call.reflected
  /\ AnswerOperand(Fn(Call.name, <<held, Call.other>>))

\* __radd__ and the like: the expression is on the right.
ReflectedCall ==
  /\ Calling("expression") /\ Call.op = "binary" /\ Call.reflected
  /\ AnswerOperand(Fn(Call.name, <<Call.other, held>>))

\* sin, cos, tan, exp, ln, sqrt.
TranscendentalCall ==
  /\ Calling("expression") /\ Call.op = "unary"
  /\ AnswerOperand(Fn(Call.name, <<Call.other>>))

NegCall == Calling("expression") /\ Call.op = "neg" /\ Reply(Gave(Neg(held))) /\ UNCHANGED held

LeafCall ==
  /\ Calling("expression") /\ Call.op \in {"number", "variable", "constant"}
  /\ Reply(CASE Call.op = "number"   -> IF Call.class \in {"int", "float"} THEN Gave(Call.other)
                                        ELSE Raised("TypeError")
             [] Call.op = "variable" -> Gave(Var(Call.name))
             [] Call.op = "constant" -> Gave(Term("Constant", Call.name, Call.value, <<>>)))
  /\ UNCHANGED held

EvaluateCall ==
  /\ Calling("expression") /\ Call.op = "evaluate"
  /\ Reply(LET w == Worked(held, Call.env)
           IN  IF ~Call.keys \subseteq {"str"} \/ ~Call.values \subseteq {"int", "float", "bool"}
               THEN Raised("TypeError")
               ELSE IF w.fault = "none" THEN Gave(w) ELSE Raised(w.fault))
  /\ UNCHANGED held

\* A form that binds a name is never constant.
RECURSIVE is_constant(_)
is_constant(t) ==
  /\ t.op \notin {"Variable", "Limit"} \cup DOMAIN Binders
  /\ \A k \in DOMAIN t.kids : is_constant(t.kids[k])

ReadCall ==
  /\ Calling("expression") /\ Call.op \in {"to_latex", "children", "is_constant"}
  /\ Reply(Gave(CASE Call.op = "to_latex"    -> Latex(held)
                  [] Call.op = "children"    -> held.kids
                  [] Call.op = "is_constant" -> is_constant(held)))
  /\ UNCHANGED held

CompactCall ==
  /\ Calling("expression") /\ Call.op \in {"to_compact", "from_compact"}
  /\ Reply(IF Call.op = "from_compact" THEN FromCompact(Call.node)
           ELSE IF Taggable(held) THEN Gave(ToCompact(held)) ELSE Raised("ValueError"))
  /\ UNCHANGED held

\* Integer(n) goes through the text Python gives n, which for a bool is no numeral.
IntegerCall ==
  /\ Calling("integer")
  /\ IF Call.op \in {"new", "from_str"}
       THEN LET read == FromDecimalString(Call.text)
            IN  /\ Reply(IF Call.op = "new" /\ Call.class \notin {"int", "bool"} THEN Raised("TypeError") ELSE read)
                /\ held' = IF answers'[Len(answers')].raised = "none" THEN read.value ELSE held
       ELSE Reply(Gave(ToDecimalString(held))) /\ UNCHANGED held       \* to_string, value

-----------------------------------------------------------------------------
(* A Variable is [name, binding]; it is rebuilt around its new binding, and a *)
(* refused one keeps the old.                                              *)

Binding(call) ==
  CASE call.class = "None"       -> Item("None", Absent)
    [] call.class = "Expression" -> Item("Expression", call.binding)
    [] OTHER                     -> Item("float", call.binding)
BindingRefused(call) == call.class \notin {"None", "Expression", "int", "float", "bool"}

VariableBinds ==
  /\ Calling("variable") /\ Call.op \in {"new", "set_binding"}
  /\ Reply(IF BindingRefused(Call) THEN Raised("TypeError") ELSE Gave(Absent))
  /\ held' = IF BindingRefused(Call) THEN held
             ELSE [name |-> IF Call.op = "new" THEN Call.name ELSE held.name, binding |-> Binding(Call)]

VariableReads ==
  /\ Calling("variable") /\ Call.op \in {"name", "is_unbound", "binding", "to_expression"}
  /\ Reply(Gave(CASE Call.op = "name"          -> held.name
                  [] Call.op = "is_unbound"    -> Is(held.binding, "None")
                  [] Call.op = "binding"       -> held.binding
                  [] Call.op = "to_expression" -> Var(held.name)))
  /\ UNCHANGED held

CoreNext ==
  \/ BuilderCall \/ ReflectedCall \/ TranscendentalCall \/ NegCall \/ LeafCall
  \/ EvaluateCall \/ ReadCall \/ CompactCall \/ IntegerCall
  \/ VariableBinds \/ VariableReads
=============================================================================
