---------------------------- MODULE PluralForms ----------------------------
(***************************************************************************)
(* gettext/pluralforms: the parser of plural expressions, by precedence    *)
(* climbing, their evaluation for an amount n, and the functions written   *)
(* out for the expressions of the gettext manual.                          *)
(*                                                                         *)
(* An expression is typed lexeme by lexeme, as far as the parser has not   *)
(* met a lexeme it does not expect, and called with growing amounts.       *)
(***************************************************************************)
EXTENDS Integers, Sequences, FiniteSets

CONSTANTS
    Start,          \* expressions to begin with
    Lexemes,        \* what may be typed
    MaxLen,         \* bound on the lexemes of an expression
    MinN, MaxN      \* amounts

VARIABLES expr, n
vars == <<expr, n>>

\* Lexemes: integers, integers that do not fit an int, the amount, symbols.
I(v) == [t |-> "int", v |-> v]
T(t) == [t |-> t, v |-> 0]
Integer == {"int", "huge"}

-----------------------------------------------------------------------------
(* Lexer.                                                                  *)

BinaryOps == {"*", "/", "%", "+", "-", "==", "!=", ">", ">=", "<", "<=", "||", "&&"}
Symbols == BinaryOps \cup {"!", "?", ":"}
\* The ones next returns without looking at what follows.
Single == {"*", "/", "%", "+", "-", "?", ":", "(", ")"}

\* lexer.next at lexeme i: elsewhere symbols that touch are one run, and a run
\* of several is no token.  (Parse removes the spaces between them.)
next(s, i) ==
    IF i > Len(s) THEN T("EOF")
    ELSE IF s[i].t \in Symbols \ Single /\ i < Len(s) /\ s[i + 1].t \in Symbols THEN T("error")
    ELSE s[i]

-----------------------------------------------------------------------------
(* Parser.  A result is a tree and the lexeme after it, or where it failed.*)

precedenceAndFirst ==           \* mutant: && binds as tight as ||
    [o \in BinaryOps |->
        IF o \in {"*", "/", "%"} THEN 5 ELSE IF o \in {"+", "-"} THEN 4
        ELSE IF o \in {"||", "&&"} THEN 2 ELSE 3]

precedence ==
    [o \in BinaryOps |->
        IF o \in {"*", "/", "%"} THEN 5 ELSE IF o \in {"+", "-"} THEN 4
        ELSE IF o = "||" THEN 2 ELSE IF o = "&&" THEN 1 ELSE 3]
precedenceNot == 6

Fail(i) == [ok |-> FALSE, tree |-> <<>>, next |-> i]
Result(tree, i) == [ok |-> TRUE, tree |-> tree, next |-> i]

RECURSIVE parseExpression(_, _, _), climb(_, _, _), parseTernary(_, _)

\* parsePrimary, with newUnaryOpNode and newValueNode.
parsePrimary(s, i) ==
    LET t == next(s, i) IN
    IF t.t = "!" THEN
        LET r == parseExpression(s, precedenceNot, i + 1)
        IN IF r.ok THEN Result(<<"!", r.tree>>, r.next) ELSE r
    ELSE IF t.t = "(" THEN
        LET r == parseExpression(s, 0, i + 1)
        IN IF ~r.ok THEN r
           ELSE IF next(s, r.next).t = ")" THEN Result(r.tree, r.next + 1) ELSE Fail(r.next)
    ELSE IF t.t \in Integer \cup {"n"} THEN Result(<<t.t, t.v>>, i + 1)
    ELSE Fail(i)

\* The loop of parseExpression; every operator is left-associative.
climb(s, prec, left) ==
    LET t == next(s, left.next).t IN
    IF t \notin BinaryOps \/ precedence[t] < prec
    THEN IF prec = 0 /\ t = "?" THEN parseTernary(s, left) ELSE left
    ELSE LET r == parseExpression(s, precedence[t] + 1, left.next + 1)
         IN IF ~r.ok THEN r ELSE climb(s, prec, Result(<<t, left.tree, r.tree>>, r.next))

parseExpression(s, prec, i) ==
    LET p == parsePrimary(s, i) IN IF p.ok THEN climb(s, prec, p) ELSE p

parseTernary(s, cond) ==
    IF next(s, cond.next).t # "?" THEN cond
    ELSE LET r1 == parseExpression(s, 0, cond.next + 1) IN
         IF ~r1.ok THEN r1
         ELSE IF next(s, r1.next).t # ":" THEN Fail(r1.next)
         ELSE LET r2 == parseExpression(s, 0, r1.next + 1) IN
              IF ~r2.ok THEN r2
              ELSE parseTernary(s, Result(<<"?:", cond.tree, r1.tree, r2.tree>>, r2.next))

\* parser.parse
parse(s) ==
    LET r == parseExpression(s, 0, 1)
    IN IF r.ok /\ next(s, r.next).t # "EOF" THEN Fail(r.next) ELSE r

-----------------------------------------------------------------------------
(* Evaluation.                                                             *)

IntV(v) == [k |-> "int", v |-> v]
BoolV(b) == [k |-> "bool", v |-> IF b THEN 1 ELSE 0]
Invalid == [k |-> "invalid", v |-> 0]
Panic == [k |-> "panic", v |-> 0]       \* integer divide by zero

\* Go's / and % truncate toward zero.
Abs(a) == IF a < 0 THEN -a ELSE a
Quo(a, b) == IF (a < 0) = (b < 0) THEN Abs(a) \div Abs(b) ELSE -(Abs(a) \div Abs(b))
Rem(a, b) == a - b * Quo(a, b)

Arithmetic(op, x, y) ==
    CASE op = "*" -> IntV(x * y)
      [] op = "+" -> IntV(x + y)
      [] op = "-" -> IntV(x - y)
      [] op \in {"/", "%"} /\ y = 0 -> Panic
      [] op = "/" /\ y # 0 -> IntV(Quo(x, y))
      [] op = "%" /\ y # 0 -> IntV(Rem(x, y))

Compare(op, x, y) ==
    BoolV(CASE op = ">" -> x > y
            [] op = ">=" -> x >= y
            [] op = "<" -> x < y
            [] op = "<=" -> x <= y
            [] op = "==" -> x = y
            [] op = "!=" -> x # y)

\* What the Eval methods accept: the kinds of both operands.
Operand(op) ==
    IF op \in {"||", "&&"} THEN {"bool"} ELSE IF op \in {"==", "!="} THEN {"int", "bool"} ELSE {"int"}

RECURSIVE Eval(_, _)
\* Both operands of || and && are evaluated, the right one only when the left
\* one is of the right kind.
Binary(op, x, right, ctx) ==
    IF x.k = "panic" THEN Panic
    ELSE IF x.k \notin Operand(op) THEN Invalid
    ELSE LET y == Eval(right, ctx) IN
         IF y.k = "panic" THEN Panic
         ELSE IF y.k # x.k THEN Invalid
         ELSE CASE op = "||" -> BoolV(x.v = 1 \/ y.v = 1)
                [] op = "&&" -> BoolV(x.v = 1 /\ y.v = 1)
                [] op \in {"*", "/", "%", "+", "-"} -> Arithmetic(op, x.v, y.v)
                [] OTHER -> Compare(op, x.v, y.v)

\* The Eval methods of the nodes.
Eval(tree, ctx) ==
    CASE tree[1] = "int" -> IntV(tree[2])
      [] tree[1] = "huge" -> Invalid
      [] tree[1] = "n" -> IntV(ctx)
      [] tree[1] = "!" ->
            LET x == Eval(tree[2], ctx)
            IN IF x.k = "bool" THEN BoolV(x.v = 0) ELSE IF x.k = "panic" THEN x ELSE Invalid
      [] tree[1] = "?:" ->
            LET x == Eval(tree[2], ctx)
            IN IF x.k = "bool" THEN Eval(IF x.v = 1 THEN tree[3] ELSE tree[4], ctx)
               ELSE IF x.k = "panic" THEN x ELSE Invalid
      [] OTHER -> Binary(tree[1], Eval(tree[2], ctx), tree[3], ctx)

\* The function createPluralFunc returns, for an expression that parses.
PluralFunc(s, ctx) ==
    LET x == Eval(parse(s).tree, ctx)
    IN IF x.k = "invalid" THEN IntV(-1) ELSE IF x.k = "panic" THEN x ELSE IntV(x.v)

-----------------------------------------------------------------------------
(* pluralFunc1 to pluralFunc11, the functions written out.                 *)

Mod10(m) == Rem(m, 10)
Mod100(m) == Rem(m, 100)

OneNot11(m) == Mod10(m) = 1 /\ Mod100(m) # 11
NotTeen(m) == Mod100(m) < 10 \/ Mod100(m) >= 20

pluralFunc8Teens(m) ==          \* mutant: 20 to 22 are counted as teens
    IF OneNot11(m) THEN 0
    ELSE IF Mod10(m) \in 2..4 /\ (Mod100(m) < 10 \/ Mod100(m) > 22) THEN 1 ELSE 2
pluralFunc11From1(m) ==         \* mutant: forms are counted from 1
    IF Mod100(m) \in 1..4 THEN Mod100(m) ELSE 4

pluralFunc8(m) ==
    IF OneNot11(m) THEN 0 ELSE IF Mod10(m) \in 2..4 /\ NotTeen(m) THEN 1 ELSE 2
pluralFunc11(m) ==
    IF Mod100(m) = 1 THEN 0 ELSE IF Mod100(m) = 2 THEN 1 ELSE IF Mod100(m) \in {3, 4} THEN 2 ELSE 3

pluralFunc(f, m) ==
    CASE f = 1 -> 0
      [] f = 2 -> IF m = 1 THEN 0 ELSE 1
      [] f = 3 -> IF m > 1 THEN 1 ELSE 0
      [] f = 4 -> IF OneNot11(m) THEN 0 ELSE IF m # 0 THEN 1 ELSE 2
      [] f = 5 -> IF m = 1 THEN 0 ELSE IF m = 2 THEN 1 ELSE 2
      [] f = 6 -> IF m = 1 THEN 0
                  ELSE IF m = 0 \/ (Mod100(m) > 0 /\ Mod100(m) < 20) THEN 1 ELSE 2
      [] f = 7 -> IF OneNot11(m) THEN 0
                  ELSE IF Mod10(m) >= 2 /\ NotTeen(m) THEN 1 ELSE 2
      [] f = 8 -> pluralFunc8(m)
      [] f = 9 -> IF m = 1 THEN 0 ELSE IF m \in 2..4 THEN 1 ELSE 2
      [] f = 10 -> IF m = 1 THEN 0
                   ELSE IF Mod10(m) \in 2..4 /\ NotTeen(m) THEN 1 ELSE 2
      [] f = 11 -> pluralFunc11(m)

-----------------------------------------------------------------------------
(* The expression is typed, the function called.                           *)

Init == expr \in Start /\ n = MinN

\* Two integers that touch are one.
Type(l) ==
    /\ Len(expr) < MaxLen /\ n = MinN
    /\ ~parse(expr).ok => parse(expr).next = Len(expr) + 1
    /\ expr # <<>> => ~(l.t \in Integer /\ expr[Len(expr)].t \in Integer)
    /\ expr' = Append(expr, l)
    /\ UNCHANGED n

\* The expressions begun with are called for all amounts.
Call ==
    /\ n < MaxN
    /\ expr \in Start
    /\ parse(expr).ok
    /\ n' = n + 1
    /\ UNCHANGED expr

Next == (\E l \in Lexemes : Type(l)) \/ Call
Spec == Init /\ [][Next]_vars

-----------------------------------------------------------------------------
(* The grammar, read off the whole expression instead of left to right.    *)

\* The operators by how loosely they bind, loosest first.
Levels == <<{"&&"}, {"||"}, {"==", "!=", ">", ">=", "<", "<="}, {"+", "-"}, {"*", "/", "%"}>>

\* How often t occurs in s up to i.
Count(s, i, t) == Cardinality({j \in 1..i : s[j].t = t})
\* Positions of s outside every parenthesis.
Outside(s) == {i \in 1..Len(s) : Count(s, i, "(") = Count(s, i, ")")}
At(s, ts) == {i \in Outside(s) : s[i].t \in ts}

MaxOf(S) == CHOOSE i \in S : \A j \in S : j <= i
MinOf(S) == CHOOSE i \in S : \A j \in S : j >= i
NoTree == <<>>

\* The ":" of the "?" at i: the first with as many "?" as ":" since.
Else(s, i) == {j \in At(s, {":"}) : j > i /\ Cardinality({k \in At(s, {"?"}) : k \in i..j})
                                           = Cardinality({k \in At(s, {":"}) : k \in i..j})}

RECURSIVE Reads(_)
\* The tree of s: a conditional splits at its first "?", an operation at the
\* last of its loosest operators, then come "!", parentheses and values.
Reads(s) ==
    LET part(i, j) == Reads(SubSeq(s, i, j))
        loosest == {k \in DOMAIN Levels : At(s, Levels[k]) # {}}
    IN
    IF s = <<>> THEN NoTree
    ELSE IF At(s, {"?"}) # {} THEN
        LET i == MinOf(At(s, {"?"})) IN
        IF Else(s, i) = {} THEN NoTree
        ELSE LET j == MinOf(Else(s, i))
                 c == part(1, i - 1)
                 a == part(i + 1, j - 1)
                 b == part(j + 1, Len(s))
             IN IF NoTree \in {c, a, b} THEN NoTree ELSE <<"?:", c, a, b>>
    ELSE IF loosest # {} THEN
        LET i == MaxOf(At(s, Levels[MinOf(loosest)]))
            a == part(1, i - 1)
            b == part(i + 1, Len(s))
        IN IF NoTree \in {a, b} THEN NoTree ELSE <<s[i].t, a, b>>
    ELSE IF s[1].t = "!" THEN LET a == part(2, Len(s)) IN IF a = NoTree THEN NoTree ELSE <<"!", a>>
    ELSE IF s[1].t = "(" /\ At(s, {")"}) = {Len(s)} THEN part(2, Len(s) - 1)
    ELSE IF Len(s) = 1 /\ s[1].t \in Integer \cup {"n"} THEN <<s[1].t, s[1].v>>
    ELSE NoTree

-----------------------------------------------------------------------------
(* Properties.                                                             *)

\* The forms a catalogue declares with each expression (nplurals).
nplurals == <<1, 2, 2, 3, 3, 3, 3, 3, 3, 3, 4>>

\* Precedence climbing returns the tree the precedences describe, operators of
\* one level grouping to the left and conditionals to the right, and it fails
\* on exactly the expressions that have none (symbols that touch are no token).
ParsesAsWritten ==
    LET r == parse(expr)
        touches == \E i \in 1..Len(expr) : next(expr, i).t = "error"
        tree == IF touches THEN NoTree ELSE Reads(expr)
    IN (IF r.ok THEN r.tree ELSE NoTree) = tree

\* Parse may take a function of the table instead of parsing: for every amount
\* it is what the expression evaluates to.
PrecomputedAgrees(exprs) ==
    \A f \in DOMAIN exprs : exprs[f] = expr => PluralFunc(expr, n) = IntV(pluralFunc(f, n))

\* Every function of the table selects one of the forms its catalogues have.
IndexInRange == \A f \in DOMAIN nplurals : pluralFunc(f, n) \in 0..nplurals[f] - 1
=============================================================================
