-------------------------------- MODULE Calc --------------------------------
(***************************************************************************)
(* calc: getnum, which evaluates an expression from left to right.  It     *)
(* calls itself for the operand of an operator, and goes on as long as the *)
(* operators that follow bind more tightly than the one it is called for.  *)
(*                                                                         *)
(* An expression is a sequence of tokens: skipspace and strtol are left    *)
(* out.  An int has IntBits bits.                                          *)
(***************************************************************************)
EXTENDS Integers, Sequences, Bitwise

CONSTANTS IntBits,         \* 32
          Numerals,        \* the numbers in expressions
          Depth            \* bound: of operators in one another

VARIABLES expression,      \* what is meant: a tree
          result           \* what getnum returns for it

calcVars == <<expression, result>>

INVALID == 1 - 2^(IntBits - 1)

Literal(n) == <<"number", n>>
Op(o) == <<o>>

-----------------------------------------------------------------------------
(* Operators.  Level 0 has the unary ones. *)

Levels == <<{"*", "/", "%"}, {"+", "-"}, {"<<", ">>"}, {"&"}, {"^"}, {"|"}>>
LevelOf(o) == CHOOSE n \in DOMAIN Levels : o \in Levels[n]
Binary == UNION {Levels[n] : n \in DOMAIN Levels}

Wrapped(n) == ((n + 2^(IntBits - 1)) % 2^IntBits) - 2^(IntBits - 1)
Magnitude(n) == IF n < 0 THEN -n ELSE n

\* Towards 0.  Bound: not the least int by -1, which is an exception.
Quotient(n, m) ==
  IF (n < 0) = (m < 0) THEN Magnitude(n) \div Magnitude(m) ELSE -(Magnitude(n) \div Magnitude(m))

Applied(o, n, m) ==
  IF INVALID \in {n, m} \/ (m = 0 /\ o \in {"/", "%", "<<", ">>"}) THEN INVALID
  ELSE CASE o = "+" -> Wrapped(n + m)
         [] o = "-" -> Wrapped(n - m)
         [] o = "*" -> Wrapped(n * m)
         [] o = "/" -> Quotient(n, m)
         [] o = "%" -> n - m * Quotient(n, m)
         [] o = "<<" -> Wrapped(n * 2^(m % IntBits))
         [] o = ">>" -> n \div 2^(m % IntBits)
         [] o = "&" -> Wrapped((n % 2^IntBits) & (m % 2^IntBits))
         [] o = "^" -> Wrapped((n % 2^IntBits) ^^ (m % 2^IntBits))
         [] o = "|" -> Wrapped((n % 2^IntBits) | (m % 2^IntBits))

Signed1(o, n) == IF n = INVALID THEN INVALID
                 ELSE CASE o = "+" -> n [] o = "-" -> Wrapped(-n) [] o = "~" -> -1 - n

\* Mutant: an operator of the same level is left to the operand.
BindsLate(o, priority) == priority >= LevelOf(o)

\* *p == '+' && priority > 2
Binds(o, priority) == priority > LevelOf(o)

-----------------------------------------------------------------------------
(* getnum(p, priority): the value, and where p is then *)

RECURSIVE getnum(_, _), Operators(_, _, _)

\* The unary operators, parentheses and numbers
First(p) ==
  CASE p = <<>> -> <<INVALID, p>>
    [] p # <<>> /\ p[1] \in {Op("+"), Op("-"), Op("~")} ->
         LET r == getnum(Tail(p), 0) IN <<Signed1(p[1][1], r[1]), r[2]>>
    [] p # <<>> /\ p[1] = Op("(") ->
         LET r == getnum(Tail(p), 9)
         IN  IF r[2] # <<>> /\ Head(r[2]) = Op(")") THEN <<r[1], Tail(r[2])>>
             ELSE <<INVALID, r[2]>>
    [] p # <<>> /\ Len(p[1]) = 2 -> <<p[1][2], Tail(p)>>
    [] OTHER -> <<INVALID, p>>

\* for (;;)
Operators(n, p, priority) ==
  IF n = INVALID \/ p = <<>> THEN <<n, p>>
  ELSE IF p[1][1] \in Binary /\ Binds(p[1][1], priority)
    THEN LET r == getnum(Tail(p), LevelOf(p[1][1]))
         IN  Operators(Applied(p[1][1], n, r[1]), r[2], priority)
  ELSE <<n, p>>

getnum(p, priority) == LET f == First(p) IN Operators(f[1], f[2], priority)

-----------------------------------------------------------------------------
(* Expressions: <<"number", n>>, <<"unary", o, e>>, <<"binary", o, e, f>> *)

RECURSIVE Trees(_), Written(_, _), Value(_)

Trees(depth) ==
  IF depth = 0 THEN {Literal(n) : n \in Numerals}
  ELSE LET below == Trees(depth - 1)
       IN  below \cup ({"unary"} \X {"-", "~"} \X below)
             \cup ({"binary"} \X Binary \X below \X below)

\* With parentheses only where they are needed: level is that of the operator
\* outside, below which an operand needs none.
Written(e, level) ==
  CASE e[1] = "number" -> <<e>>
    [] e[1] = "unary" -> <<Op(e[2])>> \o Written(e[3], 1)
    [] e[1] = "binary" ->
         LET n == LevelOf(e[2])
             text == Written(e[3], n + 1) \o <<Op(e[2])>> \o Written(e[4], n)
         IN  IF n < level THEN text ELSE <<Op("(")>> \o text \o <<Op(")")>>

Value(e) ==
  CASE e[1] = "number" -> e[2]
    [] e[1] = "unary" -> Signed1(e[2], Value(e[3]))
    [] e[1] = "binary" -> Applied(e[2], Value(e[3]), Value(e[4]))

CalcInit == expression = Literal(0) /\ result = 0

Calculate(e) ==
  /\ expression' = e
  /\ result' = getnum(Written(e, 9), 9)[1]

CalcNext == expression = Literal(0) /\ \E e \in Trees(Depth) : Calculate(e)

-----------------------------------------------------------------------------
(* Properties *)

\* Operators bind as in C, those of a level from left to right, and an error
\* anywhere is an error of the whole, however operators, signs and parentheses
\* follow one another.
AsInC == result = Value(expression)
=============================================================================
