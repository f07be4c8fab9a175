------------------------------ MODULE CssProofs -----------------------------
(***************************************************************************)
(* Proofs about the CSS scanner, CssScanner, for inputs of any length and  *)
(* any productions of which only that of white space must match.           *)
(***************************************************************************)
EXTENDS CssScanner, FiniteSetTheorems, WellFoundedInduction, TLAPS

-----------------------------------------------------------------------------
(* Numbers and sequences.                                                  *)

\* A set of numbers with a bound has a greatest element.
LEMMA Greatest ==
    ASSUME NEW n \in Nat, NEW T \in SUBSET (0..n), T # {}
    PROVE  \E m \in T : \A j \in T : j <= m
<1> DEFINE U == {k \in Nat : \A j \in T : j <= k}
           R == {ss \in Nat \X Nat : ss[1] < ss[2]}
<1>1. IsWellFoundedOn(R, Nat)
  BY NatLessThanWellFounded DEF OpToRel
<1>2. n \in U
  OBVIOUS
<1>3. PICK m \in U : \A k \in U : <<k, m>> \notin R
  <2> HIDE DEF R
  <2>. QED
    BY Zenon, <1>1, <1>2, WFMin
<1>4. CASE m \in T
  BY <1>3, <1>4
<1>5. CASE m \notin T
  <2>1. m \in Nat /\ \A j \in T : j \in Nat /\ j <= m /\ j # m
    BY <1>3, <1>5
  <2>2. PICK i : i \in T
    OBVIOUS
  <2>3. m - 1 \in Nat /\ \A j \in T : j <= m - 1
    BY <2>1, <2>2
  <2>4. <<m - 1, m>> \in R
    BY <2>1, <2>3
  <2>. QED
    BY <1>3, <2>3, <2>4
<1>. QED
  BY <1>4, <1>5

\* The part of a sequence from a + 1 to b.
LEMMA Part ==
    ASSUME NEW S, NEW s \in Seq(S), NEW a \in 0..Len(s), NEW b \in a..Len(s)
    PROVE  /\ SubSeq(s, a + 1, b) \in Seq(S) /\ Len(SubSeq(s, a + 1, b)) = b - a
           /\ \A j \in 1..(b - a) : SubSeq(s, a + 1, b)[j] = s[a + j]
<1>1. a \in Nat /\ b \in Nat /\ Len(s) \in Nat /\ a <= b /\ b <= Len(s)
  OBVIOUS
<1>2. Len(SubSeq(s, a + 1, b)) = b - a
  BY <1>1
<1>3. SubSeq(s, a + 1, b) \in Seq(S)
  BY <1>1
<1>4. ASSUME NEW j \in 1..(b - a)
      PROVE  SubSeq(s, a + 1, b)[j] = s[a + j]
  BY <1>1
<1>. QED
  BY <1>2, <1>3, <1>4

\* The newlines of a sequence.
LEMMA Newlines ==
    ASSUME NEW S, NEW s \in Seq(S)
    PROVE  /\ newlines(s) \subseteq 1..Len(s) /\ IsFiniteSet(newlines(s))
           /\ Cardinality(newlines(s)) \in Nat /\ (Cardinality(newlines(s)) = 0 <=> newlines(s) = {})
           /\ lastNewline(s) \in newlines(s) \cup {0}
           /\ \A j \in newlines(s) : j <= lastNewline(s)
<1>1. Len(s) \in Nat /\ newlines(s) \subseteq 1..Len(s)
  BY DEF newlines
<1>2. IsFiniteSet(1..Len(s))
  BY <1>1, FS_Interval
<1>3. IsFiniteSet(newlines(s))
  BY <1>1, <1>2, FS_Subset
<1>4. Cardinality(newlines(s)) \in Nat /\ (Cardinality(newlines(s)) = 0 <=> newlines(s) = {})
  BY <1>3, FS_CardinalityType, FS_EmptySet
<1>5. \E n \in newlines(s) \cup {0} : \A j \in newlines(s) : j <= n
  <2>1. newlines(s) \cup {0} \in SUBSET (0..Len(s))
    BY <1>1
  <2>2. PICK m \in newlines(s) \cup {0} : \A j \in newlines(s) \cup {0} : j <= m
    BY Zenon, <1>1, <2>1, Greatest
  <2>. QED
    BY <2>2
<1>6. lastNewline(s) \in newlines(s) \cup {0} /\ \A j \in newlines(s) : j <= lastNewline(s)
  BY <1>5 DEF lastNewline
<1>. QED
  BY <1>1, <1>3, <1>4, <1>6

\* The runes of a text are at least one and at most its bytes, and each byte of
\* an ASCII text is one (RuneCountInString).
LEMMA Runes ==
    ASSUME NEW S, NEW v \in Seq(S), v # <<>>
    PROVE  RuneCount(v) \in 1..Len(v) /\ (isAscii(v) => RuneCount(v) = Len(v))
<1> DEFINE B == {i \in DOMAIN v : \A j \in 1..(i - 1) : j + width(v, j) <= i}
<1>1. Len(v) \in Nat \ {0} /\ DOMAIN v = 1..Len(v)
  OBVIOUS
<1>2. IsFiniteSet(1..Len(v)) /\ Cardinality(1..Len(v)) = Len(v)
  BY <1>1, FS_Interval
<1>3. B \subseteq 1..Len(v)
  BY <1>1
<1>4. 1 \in B
  BY <1>1
<1>5. IsFiniteSet(B) /\ Cardinality(B) <= Len(v)
  BY <1>2, <1>3, FS_Subset
<1>6. Cardinality(B) \in Nat /\ Cardinality(B) # 0
  BY Zenon, <1>4, <1>5, FS_CardinalityType, FS_EmptySet
<1>7. ASSUME isAscii(v)
      PROVE  B = 1..Len(v)
  <2>1. \A j \in 1..Len(v) : width(v, j) = 1
    BY <1>1, <1>7 DEF isAscii, width
  <2>2. ASSUME NEW i \in 1..Len(v), NEW j \in 1..(i - 1)
        PROVE  j + width(v, j) <= i
    <3>1. j \in 1..Len(v) /\ j + 1 <= i
      BY <1>1
    <3>. QED
      BY <2>1, <3>1
  <2>. QED
    BY <1>1, <2>2
<1>8. RuneCount(v) = Cardinality(B)
  BY DEF RuneCount
<1> HIDE DEF B
<1>. QED
  BY <1>1, <1>2, <1>5, <1>6, <1>7, <1>8

\* The newlines of a text are those of its first part and those of the rest.
LEMMA NewlinesAdd ==
    ASSUME NEW S, NEW s \in Seq(S), NEW a \in 0..Len(s), NEW b \in a..Len(s)
    PROVE  Cardinality(newlines(SubSeq(s, 1, b)))
              = Cardinality(newlines(SubSeq(s, 1, a))) + Cardinality(newlines(SubSeq(s, a + 1, b)))
<1> DEFINE v == SubSeq(s, a + 1, b)
           A == {j \in 1..a : s[j] = "\n"}
           V == {j \in 1..(b - a) : s[a + j] = "\n"}
           C == {j \in (a + 1)..b : s[j] = "\n"}
           B == {j \in 1..b : s[j] = "\n"}
<1>1. a \in Nat /\ b \in Nat /\ Len(s) \in Nat /\ a <= b /\ b <= Len(s) /\ 0 \in 0..Len(s)
      /\ a \in 0..Len(s) /\ b \in 0..Len(s) /\ b \in a..Len(s)
  OBVIOUS
<1>2. newlines(SubSeq(s, 1, a)) = A
  <2>1. SubSeq(s, 1, a) \in Seq(S) /\ Len(SubSeq(s, 1, a)) = a /\ \A j \in 1..a : SubSeq(s, 1, a)[j] = s[j]
    BY <1>1
  <2>. QED
    BY <2>1 DEF newlines
<1>3. newlines(SubSeq(s, 1, b)) = B
  <2>1. SubSeq(s, 1, b) \in Seq(S) /\ Len(SubSeq(s, 1, b)) = b /\ \A j \in 1..b : SubSeq(s, 1, b)[j] = s[j]
    BY <1>1
  <2>. QED
    BY <2>1 DEF newlines
<1>4. newlines(v) = V
  <2>1. v \in Seq(S) /\ Len(v) = b - a /\ \A j \in 1..(b - a) : v[j] = s[a + j]
    BY Part
  <2> HIDE DEF v
  <2>. QED
    BY SMTT(30), <2>1 DEF newlines
<1>5. IsFiniteSet(A) /\ IsFiniteSet(V)
  <2>1. IsFiniteSet(1..a) /\ IsFiniteSet(1..(b - a))
    BY <1>1, FS_Interval
  <2>2. A \in SUBSET (1..a) /\ V \in SUBSET (1..(b - a))
    OBVIOUS
  <2> HIDE DEF A, V
  <2>. QED
    BY Zenon, <2>1, <2>2, FS_Subset
<1>6. ExistsBijection(V, C)
  <2> DEFINE f == [j \in V |-> a + j]
  <2>1. f \in [V -> C]
    BY <1>1
  <2>2. \A i, j \in V : f[i] = f[j] => i = j
    BY <1>1
  <2>3. ASSUME NEW c \in C
        PROVE  \E j \in V : f[j] = c
    <3>1. c - a \in V /\ a + (c - a) = c
      BY <1>1
    <3>. QED
      BY Zenon, <3>1
  <2> HIDE DEF f, V, C
  <2>4. f \in Injection(V, C) /\ f \in Surjection(V, C)
    BY <2>1, <2>2, <2>3 DEF Injection, IsInjective, Surjection
  <2>5. f \in Bijection(V, C)
    BY <2>4 DEF Bijection
  <2>. QED
    BY <2>5, Zenon DEF ExistsBijection
<1>7. IsFiniteSet(C) /\ Cardinality(C) = Cardinality(V)
  <2> HIDE DEF V, C
  <2>. QED
    BY <1>5, <1>6, FS_Bijection
<1>8. B = A \cup C /\ A \cap C = {}
  BY <1>1
<1> HIDE DEF A, B, C, V
<1>9. Cardinality(B) = Cardinality(A) + Cardinality(C) - Cardinality({})
  BY <1>5, <1>7, <1>8, FS_Union
<1>10. Cardinality({}) = 0 /\ Cardinality(A) \in Nat /\ Cardinality(V) \in Nat
  BY <1>5, FS_EmptySet, FS_CardinalityType
<1>. QED
  BY <1>2, <1>3, <1>4, <1>7, <1>9, <1>10

\* The last newline is in the rest, if there is one, or else in the first part.
LEMMA LastNewlineAdd ==
    ASSUME NEW S, NEW s \in Seq(S), NEW a \in 0..Len(s), NEW b \in a..Len(s)
    PROVE  lastNewline(SubSeq(s, 1, b))
              = IF newlines(SubSeq(s, a + 1, b)) = {} THEN lastNewline(SubSeq(s, 1, a))
                ELSE a + lastNewline(SubSeq(s, a + 1, b))
<1> DEFINE p == SubSeq(s, 1, a)
           v == SubSeq(s, a + 1, b)
           q == SubSeq(s, 1, b)
<1>1. a \in Nat /\ b \in Nat /\ Len(s) \in Nat /\ a <= b /\ b <= Len(s)
  OBVIOUS
<1>2. p \in Seq(S) /\ Len(p) = a /\ \A j \in 1..a : p[j] = s[j]
  BY <1>1
<1>3. q \in Seq(S) /\ Len(q) = b /\ \A j \in 1..b : q[j] = s[j]
  BY <1>1
<1>4. v \in Seq(S) /\ Len(v) = b - a /\ \A j \in 1..(b - a) : v[j] = s[a + j]
  BY Part
<1> HIDE DEF p, q, v
<1>5. newlines(p) = {j \in 1..a : s[j] = "\n"}
  BY <1>2 DEF newlines
<1>6. newlines(q) = {j \in 1..b : s[j] = "\n"}
  BY <1>3 DEF newlines
<1>7. newlines(v) = {j \in 1..(b - a) : s[a + j] = "\n"}
  BY SMTT(30), <1>4 DEF newlines
<1>8. /\ lastNewline(p) \in newlines(p) \cup {0} /\ \A j \in newlines(p) : j <= lastNewline(p)
      /\ lastNewline(q) \in newlines(q) \cup {0} /\ \A j \in newlines(q) : j <= lastNewline(q)
      /\ lastNewline(v) \in newlines(v) \cup {0} /\ \A j \in newlines(v) : j <= lastNewline(v)
  BY <1>2, <1>3, <1>4, Newlines
<1> HIDE DEF lastNewline
<1>9. CASE newlines(v) = {}
  <2>1. newlines(q) = newlines(p)
    <3>1. ASSUME NEW j \in newlines(q) PROVE j \in 1..a
      <4>1. SUFFICES ASSUME j \notin 1..a PROVE FALSE
        OBVIOUS
      <4>2. j - a \in 1..(b - a) /\ a + (j - a) = j /\ s[j] = "\n"
        BY <1>1, <1>6, <3>1, <4>1
      <4>3. j - a \in newlines(v)
        BY <1>7, <4>2
      <4>. QED
        BY <1>9, <4>3
    <3>. QED
      BY <1>1, <1>5, <1>6, <3>1
  <2>2. lastNewline(q) \in Nat /\ lastNewline(p) \in Nat
    BY <1>1, <1>5, <1>6, <1>8
  <2>. QED
    BY <1>8, <1>9, <2>1, <2>2 DEF p, q, v
<1>10. CASE newlines(v) # {}
  <2>1. PICK m : m \in newlines(v)
    BY <1>10
  <2>2. lastNewline(v) \in newlines(v)
    BY <1>7, <1>8, <2>1
  <2>3. a + lastNewline(v) \in newlines(q)
    BY <1>1, <1>6, <1>7, <2>2
  <2>4. ASSUME NEW j \in newlines(q)
        PROVE  j <= a + lastNewline(v)
    <3>1. CASE j <= a
      BY <1>1, <1>6, <1>7, <2>2, <3>1
    <3>2. CASE j > a
      <4>1. j - a \in newlines(v)
        BY <1>1, <1>6, <1>7, <3>2
      <4>. QED
        BY <1>1, <1>6, <1>7, <1>8, <2>2, <4>1
    <3>. QED
      BY <1>1, <1>6, <3>1, <3>2
  <2>5. lastNewline(q) \in newlines(q)
    BY <1>6, <1>8, <2>3
  <2>6. lastNewline(q) <= a + lastNewline(v) /\ a + lastNewline(v) <= lastNewline(q)
    BY <1>8, <2>3, <2>4, <2>5
  <2>7. lastNewline(q) \in Nat /\ lastNewline(v) \in Nat
    BY <1>1, <1>6, <1>7, <2>2, <2>5
  <2>8. lastNewline(q) = a + lastNewline(v)
    BY <1>1, <2>6, <2>7
  <2>. QED
    BY Zenon, <1>10, <2>8 DEF q, v
<1>. QED
  BY <1>9, <1>10

-----------------------------------------------------------------------------
(* Steps.                                                                  *)

\* The prefixes, which begin with what is no white space and have no newline.
LEMMA PrefixTokens ==
    ASSUME NEW p \in prefixTokens
    PROVE  /\ p[2][1] \in {"~", "|", "^", "$", "*", "<"}
           /\ p[2] \in Seq({"~", "|", "^", "$", "*", "<", "=", "!", "-"}) /\ p[2] # <<>>
<1> DEFINE A == {"~", "|", "^", "$", "*", "<"}
           B == {"~", "|", "^", "$", "*", "<", "=", "!", "-"}
<1>1. (\E a \in A : p[2] = <<a, "=">>) \/ p[2] = <<"<", "!", "-", "-">>
  BY DEF prefixTokens
<1>2. ASSUME NEW a \in A, p[2] = <<a, "=">>
      PROVE  p[2][1] \in A /\ p[2] \in Seq(B) /\ p[2] # <<>>
  BY <1>2
<1>3. ASSUME p[2] = <<"<", "!", "-", "-">>
      PROVE  p[2][1] \in A /\ p[2] \in Seq(B) /\ p[2] # <<>>
  BY <1>3
<1>. QED
  BY <1>1, <1>2, <1>3

\* What Next looks at.
Rest == SubSeq(input, pos + 1, Len(input))

\* What a call of Next may do, by the text it looks at.
LEMMA NextTokenCases ==
    ASSUME NextToken
    PROVE  /\ err = "none" /\ input' = input
           /\ \/ Rest = <<>> /\ fail("EOF")
              \/ pos = 0 /\ HasPrefix(input, BOM) /\ emitSimple("BOM", BOM)
              \/ /\ Rest # <<>> /\ Rest[1] \in WhiteSpace
                 /\ emitToken("S", FindString("S", Rest))
              \/ /\ Rest # <<>> /\ Rest[1] \notin WhiteSpace
                 /\ \/ emitSimple("CHAR", <<Rest[1]>>)
                    \/ \E t \in {"HASH", "ATKEYWORD"} : emitMatchOrChar(t, Rest[1], Rest)
                    \/ \E t \in {"STRING", "COMMENT"} : emitMatchOrFail(t, Rest)
                    \/ \E p \in prefixesFrom(Rest[1]) : emitPrefixOrChar(p[1], p[2], Rest)
                    \/ emitInOrder(Rest)
<1> DEFINE c == Rest[1]
           dot == c = "." /\ Len(Rest) > 1 /\ Rest[2] \notin Digits
           star == Len(Rest) > 1 /\ Rest[2] = "*"
<1>1. err = "none" /\ input' = input
  BY Zenon DEF NextToken
<1>2. CASE Rest = <<>>
  BY <1>1, <1>2 DEF NextToken, Rest
<1>3. CASE pos = 0 /\ HasPrefix(input, BOM) /\ Rest # <<>>
  BY <1>1, <1>3 DEF NextToken, Rest
<1>4. CASE ~(pos = 0 /\ HasPrefix(input, BOM)) /\ Rest # <<>>
  <2>1. (CASE c \in WhiteSpace -> emitToken("S", FindString("S", Rest))
          [] dot -> emitSimple("CHAR", <<c>>)
          [] c = "#" -> emitMatchOrChar("HASH", c, Rest)
          [] c = "@" -> emitMatchOrChar("ATKEYWORD", c, Rest)
          [] c \in CommonChars -> emitSimple("CHAR", <<c>>)
          [] c \in {"\"", "'"} -> emitMatchOrFail("STRING", Rest)
          [] c = "/" -> IF star THEN emitMatchOrFail("COMMENT", Rest) ELSE emitSimple("CHAR", <<c>>)
          [] prefixesFrom(c) # {} -> \E p \in prefixesFrom(c) : emitPrefixOrChar(p[1], p[2], Rest)
          [] OTHER -> emitInOrder(Rest))
    BY Zenon, <1>4 DEF NextToken, Rest
  <2> HIDE DEF c, dot, star
  <2>2. c \in WhiteSpace => /\ ~dot /\ c \notin {"#", "@", "\"", "'", "/"}
                            /\ c \notin CommonChars /\ prefixesFrom(c) = {}
    <3>1. c \in WhiteSpace => c \notin {".", "#", "@", "\"", "'", "/"} /\ c \notin CommonChars
      BY Zenon DEF WhiteSpace, CommonChars
    <3>2. c \in WhiteSpace => c \notin {"~", "|", "^", "$", "*", "<"}
      BY Zenon DEF WhiteSpace
    <3>. QED
      BY Zenon, <3>1, <3>2, PrefixTokens DEF dot, prefixesFrom
  <2>3. CASE c \in WhiteSpace
    <3>1. emitToken("S", FindString("S", Rest))
      BY Zenon, <2>1, <2>2, <2>3
    <3>. QED
      BY <1>1, <1>4, <2>3, <3>1 DEF c
  <2>4. CASE c \notin WhiteSpace
    <3>1. \/ emitSimple("CHAR", <<c>>)
          \/ emitMatchOrChar("HASH", c, Rest) \/ emitMatchOrChar("ATKEYWORD", c, Rest)
          \/ emitMatchOrFail("STRING", Rest) \/ emitMatchOrFail("COMMENT", Rest)
          \/ \E p \in prefixesFrom(c) : emitPrefixOrChar(p[1], p[2], Rest)
          \/ emitInOrder(Rest)
      BY Zenon, <2>1, <2>4
    <3>. QED
      BY <1>1, <1>4, <2>4, <3>1 DEF c
  <2>. QED
    BY <2>3, <2>4
<1>. QED
  BY <1>2, <1>3, <1>4

\* The state of the scanner, in an input in which white space can be matched.
Texts ==
    /\ \E S : input \in Seq(S)
    /\ pos \in 0..Len(input) /\ row \in Nat /\ col \in Nat
    /\ \A i \in DOMAIN input :
          input[i] \in WhiteSpace => FindString("S", SubSeq(input, i, Len(input))) # <<>>

\* v is the text that comes next.
IsNext(v) ==
    /\ \E S : v \in Seq(S)
    /\ v # <<>> /\ pos + Len(v) <= Len(input)
    /\ v = SubSeq(input, pos + 1, pos + Len(v))

LEMMA RestOf ==
    ASSUME Texts, NEW S, input \in Seq(S)
    PROVE  /\ Rest \in Seq(S) /\ Len(Rest) = Len(input) - pos
           /\ \A j \in 1..Len(Rest) : Rest[j] = input[pos + j]
<1>1. Len(input) \in Nat /\ pos \in 0..Len(input) /\ Len(input) \in pos..Len(input)
  BY DEF Texts
<1>. QED
  BY <1>1, Part DEF Rest

\* A prefix of what Next looks at comes next.
LEMMA PrefixIsNext ==
    ASSUME Texts, NEW m \in 1..Len(Rest), Rest # <<>>
    PROVE  IsNext(SubSeq(Rest, 1, m)) /\ Len(SubSeq(Rest, 1, m)) = m
<1>1. PICK S : input \in Seq(S)
  BY DEF Texts
<1>2. Rest \in Seq(S) /\ Len(Rest) = Len(input) - pos /\ \A j \in 1..Len(Rest) : Rest[j] = input[pos + j]
  BY <1>1, RestOf
<1>3. pos \in Nat /\ Len(input) \in Nat /\ pos <= Len(input) /\ m \in Nat /\ pos + m <= Len(input)
      /\ m # 0 /\ m <= Len(Rest)
  BY <1>1, <1>2 DEF Texts
<1> DEFINE v == SubSeq(Rest, 1, m)
           w == SubSeq(input, pos + 1, pos + m)
<1>4. v \in Seq(S) /\ Len(v) = m /\ \A j \in 1..m : v[j] = Rest[j]
  BY <1>2, <1>3
<1>5. w \in Seq(S) /\ Len(w) = m /\ \A j \in 1..m : w[j] = input[pos + j]
  <2>1. pos \in 0..Len(input) /\ pos + m \in pos..Len(input) /\ (pos + m) - pos = m
    BY <1>3
  <2>. QED
    BY <1>1, <2>1, Part
<1> HIDE DEF v, w
<1>6. ASSUME NEW j \in 1..m
      PROVE  v[j] = w[j]
  <2>1. j \in 1..Len(Rest)
    BY <1>2, <1>3
  <2>2. v[j] = Rest[j]
    BY <1>4
  <2>3. w[j] = input[pos + j]
    BY <1>5
  <2>4. Rest[j] = input[pos + j]
    BY <1>2, <2>1
  <2>. QED
    BY <2>2, <2>3, <2>4
<1>7. v = w
  <2>1. v \in [1..m -> S] /\ w \in [1..m -> S]
    BY <1>4, <1>5
  <2>. QED
    BY <1>6, <2>1
<1>8. v # <<>>
  BY <1>3, <1>4
<1>. QED
  BY Zenon, <1>3, <1>4, <1>7, <1>8 DEF IsNext, v, w

\* What a production matches comes next.
LEMMA MatchIsNext ==
    ASSUME Texts, NEW t, FindString(t, Rest) # <<>>
    PROVE  IsNext(FindString(t, Rest))
<1>1. PICK S : input \in Seq(S)
  BY DEF Texts
<1>2. matchLen(t, Rest) \in 1..Len(Rest) /\ FindString(t, Rest) = SubSeq(Rest, 1, matchLen(t, Rest))
  BY DEF FindString
<1>3. Rest # <<>>
  BY <1>1, <1>2, RestOf
<1>. QED
  BY <1>2, <1>3, PrefixIsNext

\* So do a prefix that was found and the first byte.
LEMMA FoundIsNext ==
    ASSUME Texts, NEW T, NEW v \in Seq(T), v # <<>>, HasPrefix(Rest, v)
    PROVE  IsNext(v)
<1>1. PICK S : input \in Seq(S)
  BY DEF Texts
<1>2. Rest \in Seq(S)
  BY <1>1, RestOf
<1>3. Len(v) \in 1..Len(Rest) /\ SubSeq(Rest, 1, Len(v)) = v
  BY <1>2 DEF HasPrefix, HasAt
<1>4. Rest # <<>>
  BY <1>2, <1>3
<1>. QED
  BY Zenon, <1>3, <1>4, PrefixIsNext

LEMMA FirstIsNext ==
    ASSUME Texts, Rest # <<>>
    PROVE  IsNext(<<Rest[1]>>)
<1>1. PICK S : input \in Seq(S)
  BY DEF Texts
<1>2. Rest \in Seq(S)
  BY <1>1, RestOf
<1>3. 1 \in 1..Len(Rest)
  BY <1>2
<1> DEFINE v == SubSeq(Rest, 1, 1)
<1>4. v \in Seq(S) /\ Len(v) = 1 /\ v[1] = Rest[1]
  BY <1>2, <1>3
<1> HIDE DEF v
<1>5. v = <<Rest[1]>>
  BY <1>4
<1>. QED
  BY Zenon, <1>3, <1>5, PrefixIsNext DEF v

\* Where the position p is: its row and its column.
At(p, r, c) ==
    /\ r = 1 + Cardinality(newlines(SubSeq(input, 1, p)))
    /\ c = 1 + p - lastNewline(SubSeq(input, 1, p))

\* A step that reads the text v as a token of type t, and one that does not read.
Counts(v) ==
    /\ pos' = pos + Len(v)
    /\ row' = row + Cardinality(newlines(v))
    /\ col' = IF newlines(v) = {} THEN col + Len(v) ELSE 1 + Len(v) - lastNewline(v)
Reads(t, v) ==
    /\ IsNext(v)
    /\ tokens' = Append(tokens, token(t, v))
    /\ UNCHANGED <<input, err>>
    /\ row' \in Nat /\ col' \in Nat
    /\ pos' \in (pos + 1)..(pos + Len(v)) /\ (isAscii(v) => pos' = pos + Len(v))
    /\ isAscii(input) => Counts(v) \/ (t \in {"HASH", "ATKEYWORD"} /\ newlines(v) # {})
Stops(t) ==
    /\ fail(t) /\ UNCHANGED input
    /\ t # "none" /\ (t = "EOF" => pos = Len(input))

\* The text of an ASCII input is ASCII.
LEMMA NextIsAscii ==
    ASSUME Texts, NEW v, IsNext(v), isAscii(input)
    PROVE  isAscii(v)
<1>1. PICK S : input \in Seq(S)
  BY DEF Texts
<1>2. pos \in Nat /\ Len(input) \in Nat /\ Len(v) \in Nat /\ pos + Len(v) <= Len(input)
      /\ DOMAIN v = 1..Len(v)
  BY <1>1 DEF Texts, IsNext
<1>3. pos \in 0..Len(input) /\ pos + Len(v) \in pos..Len(input) /\ (pos + Len(v)) - pos = Len(v)
  BY <1>2
<1>4. \A j \in 1..Len(v) : v[j] = input[pos + j] /\ pos + j \in DOMAIN input
  BY <1>1, <1>2, <1>3, Part DEF IsNext
<1>. QED
  BY <1>2, <1>4 DEF isAscii

\* updatePosition counts the lines and what is left of the last.
LEMMA EmitToken ==
    ASSUME Texts, NEW t, NEW v, IsNext(v), emitToken(t, v), UNCHANGED input
    PROVE  Reads(t, v)
<1>1. PICK S : v \in Seq(S) /\ v # <<>>
  BY DEF IsNext
<1>2. RuneCount(v) \in 1..Len(v) /\ (isAscii(v) => RuneCount(v) = Len(v)) /\ Len(v) \in Nat /\ pos \in Nat
  BY <1>1, Runes DEF Texts
<1>3. newlines(v) \subseteq 1..Len(v) /\ Cardinality(newlines(v)) \in Nat
      /\ (Cardinality(newlines(v)) = 0 <=> newlines(v) = {})
      /\ lastNewline(v) \in newlines(v) \cup {0} /\ \A j \in newlines(v) : j <= lastNewline(v)
  BY <1>1, Newlines
<1> DEFINE l == SubSeq(v, lastNewline(v), Len(v))
<1>4. tokens' = Append(tokens, token(t, v)) /\ UNCHANGED err /\ pos' = pos + RuneCount(v)
      /\ row' = row + Cardinality(newlines(v))
      /\ col' = IF Cardinality(newlines(v)) = 0 THEN col + RuneCount(v) ELSE RuneCount(l)
  <2> HIDE DEF l
  <2>. QED
    BY Zenon DEF emitToken, emit, l
<1>5. pos' \in (pos + 1)..(pos + Len(v)) /\ (isAscii(v) => pos' = pos + Len(v)) /\ row' \in Nat
  <2>1. row \in Nat
    BY DEF Texts
  <2> HIDE DEF l
  <2>2. row' \in Nat
    BY <1>3, <1>4, <2>1
  <2>3. pos' \in (pos + 1)..(pos + Len(v))
    BY <1>2, <1>4
  <2>. QED
    BY Zenon, <1>2, <1>4, <2>2, <2>3
<1>6. ASSUME newlines(v) # {}
      PROVE  /\ RuneCount(l) \in Nat
             /\ isAscii(v) => RuneCount(l) = 1 + Len(v) - lastNewline(v)
  <2>1. lastNewline(v) \in 1..Len(v)
    <3>1. PICK j : j \in newlines(v)
      BY <1>6
    <3>. QED
      BY <1>2, <1>3, <3>1
  <2> DEFINE a == lastNewline(v) - 1
  <2>2. a \in 0..Len(v) /\ Len(v) \in a..Len(v) /\ a + 1 = lastNewline(v) /\ Len(v) - a \in Nat \ {0}
        /\ Len(v) - a = 1 + Len(v) - lastNewline(v)
    BY <1>2, <2>1
  <2> HIDE DEF a
  <2>3. l \in Seq(S) /\ Len(l) = Len(v) - a /\ \A j \in 1..(Len(v) - a) : l[j] = v[a + j]
    BY <1>1, <2>2, Part
  <2> HIDE DEF l
  <2>4. l # <<>> /\ (isAscii(v) => isAscii(l))
    <3>1. ASSUME NEW j \in DOMAIN l PROVE l[j] = v[a + j] /\ a + j \in DOMAIN v
      BY <1>1, <1>2, <2>2, <2>3
    <3>. QED
      BY <2>2, <2>3, <3>1 DEF isAscii
  <2>5. RuneCount(l) \in 1..Len(l) /\ (isAscii(l) => RuneCount(l) = Len(l))
    BY <2>3, <2>4, Runes
  <2>. QED
    BY <2>2, <2>3, <2>4, <2>5
<1> HIDE DEF l
<1>7. col' \in Nat
  BY SMTT(30), <1>2, <1>3, <1>4, <1>6 DEF Texts
<1>8. ASSUME isAscii(input)
      PROVE  Counts(v)
  <2>1. isAscii(v)
    BY <1>8, NextIsAscii
  <2>. QED
    BY <1>2, <1>3, <1>4, <1>6, <2>1 DEF Counts
<1>. QED
  BY <1>4, <1>5, <1>7, <1>8 DEF Reads

\* emitSimple does as well where there is no line to count.
LEMMA EmitSimple ==
    ASSUME Texts, NEW t, NEW v, IsNext(v), emitSimple(t, v), UNCHANGED input,
           isAscii(input) => newlines(v) = {} \/ t \in {"HASH", "ATKEYWORD"}
    PROVE  Reads(t, v)
<1>1. PICK S : v \in Seq(S) /\ v # <<>>
  BY DEF IsNext
<1>2. Len(v) \in Nat \ {0} /\ pos \in Nat /\ row \in Nat /\ col \in Nat
  BY <1>1 DEF Texts
<1>3. tokens' = Append(tokens, token(t, v)) /\ UNCHANGED err /\ pos' = pos + Len(v)
      /\ row' = row /\ col' = col + Len(v)
  BY DEF emitSimple, emit
<1>4. pos' \in (pos + 1)..(pos + Len(v)) /\ row' \in Nat /\ col' \in Nat
  BY <1>2, <1>3
<1>5. newlines(v) = {} => Counts(v)
  <2>1. newlines(v) = {} => Cardinality(newlines(v)) = 0
    BY ZenonT(60), <1>1, Newlines
  <2>. QED
    BY <1>2, <1>3, <2>1 DEF Counts
<1>. QED
  BY <1>3, <1>4, <1>5 DEF Reads

\* A text of one byte, or of bytes that are no newline, has no line to count.
LEMMA NoNewline ==
    ASSUME NEW S, NEW v \in Seq(S), "\n" \notin S
    PROVE  newlines(v) = {}
  BY DEF newlines

\* Each call of Next reads a token or stops.
LEMMA ReadsOrStops ==
    ASSUME Texts, NextToken
    PROVE  (\E t, v : Reads(t, v)) \/ (\E t : Stops(t))
<1>1. err = "none" /\ UNCHANGED input
  BY NextTokenCases
<1>2. PICK S : input \in Seq(S)
  BY DEF Texts
<1>3. Rest \in Seq(S) /\ Len(Rest) = Len(input) - pos /\ \A j \in 1..Len(Rest) : Rest[j] = input[pos + j]
  BY <1>2, RestOf
<1>4. Len(input) \in Nat /\ pos \in Nat /\ pos <= Len(input)
  BY <1>2 DEF Texts
<1>5. ASSUME Rest = <<>>, fail("EOF")
      PROVE  Stops("EOF")
  BY <1>1, <1>3, <1>4, <1>5 DEF Stops
<1>6. ASSUME pos = 0, HasPrefix(input, BOM), emitSimple("BOM", BOM)
      PROVE  Reads("BOM", BOM)
  <2>1. BOM \in Seq({"M1", "M2", "M3"}) /\ Len(BOM) = 3 /\ BOM # <<>> /\ BOM[1] = "M1"
    BY DEF BOM
  <2>2. 3 <= Len(input) /\ SubSeq(input, 1, 3) = BOM
    BY <1>6, <2>1 DEF HasPrefix, HasAt
  <2>3. IsNext(BOM)
    BY <1>6, <2>1, <2>2 DEF IsNext
  <2>4. ~isAscii(input)
    <3>1. SubSeq(input, 1, 3)[1] = input[1] /\ 1 \in DOMAIN input
      BY <1>2, <2>2
    <3>. QED
      BY <2>1, <2>2, <3>1 DEF isAscii, NonAscii
  <2>. QED
    BY <1>1, <1>6, <2>3, <2>4, EmitSimple
<1>7. ASSUME Rest # <<>>, Rest[1] \in WhiteSpace, emitToken("S", FindString("S", Rest))
      PROVE  \E v : Reads("S", v)
  <2>1. pos + 1 \in DOMAIN input /\ input[pos + 1] \in WhiteSpace
    <3>1. 1 \in 1..Len(Rest)
      BY <1>3, <1>7
    <3>. QED
      BY <1>2, <1>3, <1>4, <1>7, <3>1
  <2>2. FindString("S", Rest) # <<>>
    BY <2>1 DEF Texts, Rest
  <2>. QED
    BY <1>1, <1>7, <2>2, MatchIsNext, EmitToken
<1>8. ASSUME Rest # <<>>, Rest[1] \notin WhiteSpace, NEW t, emitSimple(t, <<Rest[1]>>)
      PROVE  Reads(t, <<Rest[1]>>)
  <2>1. newlines(<<Rest[1]>>) = {}
    <3>1. Rest[1] # "\n"
      BY Zenon, <1>8 DEF WhiteSpace
    <3>. QED
      BY <3>1 DEF newlines
  <2>. QED
    BY <1>1, <1>8, <2>1, FirstIsNext, EmitSimple
<1>9. ASSUME Rest # <<>>, Rest[1] \notin WhiteSpace, NEW t \in {"HASH", "ATKEYWORD"},
             emitMatchOrChar(t, Rest[1], Rest)
      PROVE  \E u, v : Reads(u, v)
  <2>1. CASE FindString(t, Rest) # <<>>
    <3>1. emitSimple(t, FindString(t, Rest))
      BY <1>9, <2>1 DEF emitMatchOrChar
    <3>. QED
      BY <1>1, <1>9, <2>1, <3>1, MatchIsNext, EmitSimple
  <2>2. CASE FindString(t, Rest) = <<>>
    <3>1. emitSimple("CHAR", <<Rest[1]>>)
      BY <1>9, <2>2 DEF emitMatchOrChar
    <3>. QED
      BY <1>8, <1>9, <3>1
  <2>. QED
    BY <2>1, <2>2
<1>10. ASSUME NEW t, emitMatchOrFail(t, Rest)
       PROVE  (\E v : Reads(t, v)) \/ Stops("error")
  <2>1. CASE FindString(t, Rest) # <<>>
    <3>1. emitToken(t, FindString(t, Rest))
      BY <1>10, <2>1 DEF emitMatchOrFail
    <3>. QED
      BY <1>1, <2>1, <3>1, MatchIsNext, EmitToken
  <2>2. CASE FindString(t, Rest) = <<>>
    BY <1>1, <1>10, <2>2 DEF emitMatchOrFail, Stops
  <2>. QED
    BY <2>1, <2>2
<1>11. ASSUME Rest # <<>>, Rest[1] \notin WhiteSpace, NEW p \in prefixesFrom(Rest[1]),
              emitPrefixOrChar(p[1], p[2], Rest)
       PROVE  \E u, v : Reads(u, v)
  <2>1. p[2][1] = Rest[1] /\ p[2] \in Seq({"~", "|", "^", "$", "*", "<", "=", "!", "-"}) /\ p[2] # <<>>
    BY <1>11, PrefixTokens DEF prefixesFrom
  <2>2. CASE HasPrefix(Rest, p[2])
    <3>1. emitSimple(p[1], p[2])
      BY <1>11, <2>2 DEF emitPrefixOrChar
    <3>2. newlines(p[2]) = {}
      BY <2>1, NoNewline
    <3>3. IsNext(p[2])
      BY <2>1, <2>2, FoundIsNext
    <3>. QED
      BY <1>1, <3>1, <3>2, <3>3, EmitSimple
  <2>3. CASE ~HasPrefix(Rest, p[2])
    <3>1. emitSimple("CHAR", <<Rest[1]>>)
      BY <1>11, <2>1, <2>3 DEF emitPrefixOrChar
    <3>. QED
      BY <1>8, <1>11, <3>1
  <2>. QED
    BY <2>2, <2>3
<1>12. ASSUME Rest # <<>>, Rest[1] \notin WhiteSpace, emitInOrder(Rest)
       PROVE  \E u, v : Reads(u, v)
  <2> DEFINE w == width(Rest, 1)
             r == SubSeq(Rest, 1, w)
  <2>1. \/ \E n : FindString(matchOrder[n], Rest) # <<>> /\ emitToken(matchOrder[n], FindString(matchOrder[n], Rest))
        \/ emit("CHAR", r, row, col + w, pos + w)
    BY <1>12 DEF emitInOrder
  <2>2. ASSUME NEW n, FindString(matchOrder[n], Rest) # <<>>,
               emitToken(matchOrder[n], FindString(matchOrder[n], Rest))
        PROVE  \E u, v : Reads(u, v)
    BY <1>1, <2>2, MatchIsNext, EmitToken
  <2>3. ASSUME emit("CHAR", r, row, col + w, pos + w)
        PROVE  Reads("CHAR", r)
    <3>1. w \in 1..Len(Rest) /\ (isAscii(input) => w = 1)
      <4>1. 1 \in 1..Len(Rest) /\ Len(Rest) \in Nat
        BY <1>3, <1>12
      <4>2. isAscii(input) => Rest[1] \notin NonAscii
        BY <1>2, <1>3, <1>4, <4>1 DEF isAscii
      <4>3. Len(<<"B1", "B2">>) = 2 /\ Len(BOM) = 3
        BY DEF BOM
      <4>4. HasAt(Rest, 1, <<"B1", "B2">>) => 2 <= Len(Rest)
        BY <4>1, <4>3 DEF HasAt
      <4>5. HasAt(Rest, 1, BOM) => 3 <= Len(Rest)
        BY <4>1, <4>3 DEF HasAt
      <4>. QED
        BY <4>1, <4>2, <4>4, <4>5 DEF width
    <3> HIDE DEF w
    <3>2. IsNext(r) /\ Len(r) = w
      BY <1>12, <3>1, PrefixIsNext
    <3>3. isAscii(input) => newlines(r) = {}
      <4>1. SUFFICES ASSUME isAscii(input) PROVE newlines(r) = {}
        OBVIOUS
      <4>2. w = 1 /\ r \in Seq(S) /\ Len(r) = 1 /\ r[1] = Rest[1]
        BY <1>3, <3>1, <4>1
      <4>3. Rest[1] # "\n"
        BY Zenon, <1>12 DEF WhiteSpace
      <4> HIDE DEF r
      <4>. QED
        BY <4>2, <4>3 DEF newlines
    <3> HIDE DEF r
    <3>4. emitSimple("CHAR", r)
      BY <2>3, <3>2 DEF emitSimple
    <3>. QED
      BY <1>1, <3>2, <3>3, <3>4, EmitSimple
  <2>. QED
    BY <2>1, <2>2, <2>3
<1>13. \/ Rest = <<>> /\ fail("EOF")
       \/ pos = 0 /\ HasPrefix(input, BOM) /\ emitSimple("BOM", BOM)
       \/ Rest # <<>> /\ Rest[1] \in WhiteSpace /\ emitToken("S", FindString("S", Rest))
       \/ /\ Rest # <<>> /\ Rest[1] \notin WhiteSpace
          /\ \/ emitSimple("CHAR", <<Rest[1]>>)
             \/ \E t \in {"HASH", "ATKEYWORD"} : emitMatchOrChar(t, Rest[1], Rest)
             \/ \E t \in {"STRING", "COMMENT"} : emitMatchOrFail(t, Rest)
             \/ \E p \in prefixesFrom(Rest[1]) : emitPrefixOrChar(p[1], p[2], Rest)
             \/ emitInOrder(Rest)
  BY NextTokenCases
<1>. QED
  BY <1>5, <1>6, <1>7, <1>8, <1>9, <1>10, <1>11, <1>12, <1>13

-----------------------------------------------------------------------------
(* The invariants.                                                         *)

\* The last token ends where the scanner is, or further on where it was not ASCII.
Moved ==
    /\ \E S : tokens \in Seq(S)
    /\ tokens = <<>> => pos = 0
    /\ err = "none" /\ tokens # <<>> =>
          LET k == tokens[Len(tokens)]
          IN  k.from < pos /\ pos <= k.to /\ (isAscii(textOf(k)) => pos = k.to)
    /\ err = "EOF" => pos = Len(input)

\* The row and the column are those of the position, if no line was left out.
RightHere ==
    isAscii(input) /\ (\A m \in DOMAIN tokens : ~UncountedLine(tokens[m])) => At(pos, row, col)

\* The inductive invariant.
ScanInv == Texts /\ Moved /\ NothingSkipped /\ RightHere /\ PositionsRight

\* What is true of a new token, whether it reads or reports the end.
LEMMA NewToken ==
    ASSUME ScanInv, err = "none", NEW k, k.from = pos, k.row = row, k.col = col,
           tokens' = Append(tokens, k), UNCHANGED input, err' = "EOF" => pos' = Len(input)
    PROVE  /\ \E S : tokens' \in Seq(S)
           /\ Len(tokens') \in Nat \ {0} /\ tokens'[Len(tokens')] = k
           /\ NothingSkipped' /\ PositionsRight'
<1>1. PICK S : tokens \in Seq(S)
  BY DEF ScanInv, Moved
<1>2. tokens' \in Seq(S \cup {k}) /\ Len(tokens') = Len(tokens) + 1 /\ tokens'[Len(tokens) + 1] = k
      /\ (\A j \in 1..Len(tokens) : tokens'[j] = tokens[j]) /\ Len(tokens) \in Nat
  BY <1>1
<1>3. DOMAIN tokens = 1..Len(tokens) /\ DOMAIN tokens' = 1..(Len(tokens) + 1)
  BY <1>1, <1>2
<1>4. NothingSkipped'
  <2>1. ASSUME NEW j \in DOMAIN tokens' \ {1}
        PROVE  /\ tokens'[j - 1].from < tokens'[j].from /\ tokens'[j].from <= tokens'[j - 1].to
               /\ isAscii(textOf(tokens'[j - 1])) => tokens'[j].from = tokens'[j - 1].to
    <3>1. CASE j \in DOMAIN tokens
      <4>1. tokens'[j] = tokens[j] /\ tokens'[j - 1] = tokens[j - 1] /\ j \in DOMAIN tokens \ {1}
        BY <1>2, <1>3, <2>1, <3>1
      <4>. QED
        BY <4>1 DEF ScanInv, NothingSkipped
    <3>2. CASE j = Len(tokens) + 1
      <4>1. Len(tokens) # 0 /\ j - 1 = Len(tokens) /\ Len(tokens) \in 1..Len(tokens)
        BY <1>2, <2>1, <3>2
      <4>2. tokens # <<>>
        BY <1>1, <4>1
      <4>3. tokens'[j] = k /\ tokens'[j - 1] = tokens[Len(tokens)]
        BY <1>2, <3>2, <4>1
      <4>. QED
        BY <4>2, <4>3 DEF ScanInv, Moved
    <3>. QED
      BY <1>2, <1>3, <2>1, <3>1, <3>2
  <2>2. tokens'[1].from = 0
    <3>1. CASE tokens = <<>>
      BY <1>1, <1>2, <3>1 DEF ScanInv, Moved
    <3>2. CASE tokens # <<>>
      BY SMTT(30), <1>1, <1>2, <3>2 DEF ScanInv, NothingSkipped
    <3>. QED
      BY <3>1, <3>2
  <2>. QED
    BY <2>1, <2>2 DEF NothingSkipped, textOf
<1>5. PositionsRight'
  <2>1. SUFFICES ASSUME isAscii(input), NEW n \in DOMAIN tokens',
                        \A m \in 1..(n - 1) : ~UncountedLine(tokens'[m])
                 PROVE  At(tokens'[n].from, tokens'[n].row, tokens'[n].col)
    BY ZenonT(60) DEF PositionsRight, At, UncountedLine, textOf
  <2>2. CASE n \in DOMAIN tokens
    <3>1. tokens'[n] = tokens[n] /\ \A m \in 1..(n - 1) : tokens'[m] = tokens[m]
      BY <1>2, <1>3, <2>2
    <3>. QED
      BY SMTT(30), <2>1, <2>2, <3>1 DEF ScanInv, PositionsRight, At
  <2>3. CASE n = Len(tokens) + 1
    <3>1. tokens'[n] = k /\ \A m \in DOMAIN tokens : m \in 1..(n - 1) /\ tokens'[m] = tokens[m]
      BY <1>2, <1>3, <2>3
    <3>. QED
      BY <2>1, <3>1 DEF ScanInv, RightHere
  <2>. QED
    BY <1>2, <1>3, <2>1, <2>2, <2>3
<1>. QED
  BY <1>2, <1>4, <1>5

LEMMA StopsKeep ==
    ASSUME ScanInv, err = "none", NEW t, Stops(t)
    PROVE  ScanInv'
<1>1. tokens' = Append(tokens, token(t, <<>>)) /\ err' = t /\ UNCHANGED <<input, pos, row, col>>
      /\ t # "none" /\ (t = "EOF" => pos = Len(input))
  BY DEF Stops, fail
<1>2. token(t, <<>>).from = pos /\ token(t, <<>>).row = row /\ token(t, <<>>).col = col
  BY DEF token
<1>3. /\ \E S : tokens' \in Seq(S)
      /\ Len(tokens') \in Nat \ {0} /\ NothingSkipped' /\ PositionsRight'
  BY <1>1, <1>2, NewToken
<1>4. Texts'
  BY <1>1 DEF ScanInv, Texts
<1>5. Moved'
  <2>1. tokens' # <<>>
    BY <1>3
  <2>. QED
    BY <1>1, <1>3, <2>1 DEF Moved
<1>6. RightHere'
  <2>1. SUFFICES ASSUME isAscii(input), \A m \in DOMAIN tokens' : ~UncountedLine(tokens'[m])
                 PROVE  At(pos, row, col)
    BY Zenon, <1>1 DEF RightHere, At, UncountedLine, textOf
  <2>2. PICK S : tokens \in Seq(S)
    BY DEF ScanInv, Moved
  <2>3. \A m \in DOMAIN tokens : m \in DOMAIN tokens' /\ tokens'[m] = tokens[m]
    BY <1>1, <2>2
  <2>. QED
    BY <2>1, <2>3 DEF ScanInv, RightHere
<1>. QED
  BY <1>3, <1>4, <1>5, <1>6 DEF ScanInv

\* The position after a text whose lines were counted.
LEMMA CountsKeep ==
    ASSUME Texts, NEW v, IsNext(v), Counts(v), UNCHANGED input, At(pos, row, col)
    PROVE  At(pos', row', col')
<1>1. PICK S : input \in Seq(S)
  BY DEF Texts
<1>2. PICK T : v \in Seq(T)
  BY DEF IsNext
<1> DEFINE b == pos + Len(v)
           p == SubSeq(input, 1, pos)
           q == SubSeq(input, 1, b)
<1>3. pos \in 0..Len(input) /\ b \in pos..Len(input) /\ v = SubSeq(input, pos + 1, b)
      /\ Len(v) \in Nat /\ pos \in Nat
  BY <1>1, <1>2 DEF Texts, IsNext
<1>4. Cardinality(newlines(q)) = Cardinality(newlines(p)) + Cardinality(newlines(v))
  BY Zenon, <1>1, <1>3, NewlinesAdd
<1>5. lastNewline(q) = IF newlines(v) = {} THEN lastNewline(p) ELSE pos + lastNewline(v)
  BY Zenon, <1>1, <1>3, LastNewlineAdd
<1>6. p \in Seq(S) /\ Len(p) = pos
  BY <1>1, <1>3
<1>7. /\ Cardinality(newlines(p)) \in Nat /\ lastNewline(p) \in Nat
      /\ Cardinality(newlines(v)) \in Nat /\ lastNewline(v) \in Nat
  <2>1. newlines(p) \subseteq 1..Len(p) /\ Cardinality(newlines(p)) \in Nat /\ lastNewline(p) \in newlines(p) \cup {0}
    BY Zenon, <1>6, Newlines
  <2>2. newlines(v) \subseteq 1..Len(v) /\ Cardinality(newlines(v)) \in Nat /\ lastNewline(v) \in newlines(v) \cup {0}
    BY <1>2, Newlines
  <2>. QED
    BY <1>3, <1>6, <2>1, <2>2
<1>8. row = 1 + Cardinality(newlines(p)) /\ col = 1 + pos - lastNewline(p)
  BY DEF At
<1>9. pos' = b /\ row' = row + Cardinality(newlines(v))
      /\ col' = IF newlines(v) = {} THEN col + Len(v) ELSE 1 + Len(v) - lastNewline(v)
  BY DEF Counts
<1> HIDE DEF p, q
<1>10. row' = 1 + Cardinality(newlines(q)) /\ col' = 1 + b - lastNewline(q)
  <2>1. Len(v) \in Nat /\ pos \in Nat
    BY <1>3
  <2>2. row' = 1 + Cardinality(newlines(q))
    BY <1>4, <1>7, <1>8, <1>9
  <2>3. CASE newlines(v) = {}
    <3>1. lastNewline(q) = lastNewline(p) /\ col' = col + Len(v)
      BY <1>5, <1>9, <2>3, Zenon
    <3>2. lastNewline(p) \in Nat
      BY <1>7
    <3>3. col' = 1 + b - lastNewline(q)
      BY <1>8, <2>1, <3>1, <3>2
    <3>. QED
      BY Zenon, <2>2, <3>3
  <2>4. CASE newlines(v) # {}
    <3>1. lastNewline(q) = pos + lastNewline(v) /\ col' = 1 + Len(v) - lastNewline(v)
      BY <1>5, <1>9, <2>4, Zenon
    <3>. QED
      BY <1>7, <2>1, <2>2, <3>1
  <2>. QED
    BY <2>3, <2>4
<1>11. q = SubSeq(input, 1, pos')
  BY <1>9 DEF q
<1> HIDE DEF b
<1>. QED
  BY <1>9, <1>10, <1>11, Zenon DEF At

LEMMA ReadsKeep ==
    ASSUME ScanInv, err = "none", NEW t, NEW v, Reads(t, v)
    PROVE  ScanInv'
<1> DEFINE k == token(t, v)
<1>1. tokens' = Append(tokens, k) /\ UNCHANGED <<input, err>> /\ IsNext(v)
      /\ row' \in Nat /\ col' \in Nat
      /\ pos' \in (pos + 1)..(pos + Len(v)) /\ (isAscii(v) => pos' = pos + Len(v))
      /\ (isAscii(input) => Counts(v) \/ (t \in {"HASH", "ATKEYWORD"} /\ newlines(v) # {}))
  BY DEF Reads
<1>2. k.type = t /\ k.from = pos /\ k.to = pos + Len(v) /\ k.row = row /\ k.col = col
  BY DEF token
<1>3. textOf(k) = v
  BY <1>1, <1>2 DEF IsNext, textOf
<1> HIDE DEF k
<1>4. /\ \E S : tokens' \in Seq(S)
      /\ Len(tokens') \in Nat \ {0} /\ tokens'[Len(tokens')] = k
      /\ NothingSkipped' /\ PositionsRight'
  BY <1>1, <1>2, NewToken
<1>5. pos \in Nat /\ Len(v) \in Nat /\ Len(input) \in Nat /\ pos + Len(v) <= Len(input)
  BY <1>1 DEF ScanInv, Texts, IsNext
<1>6. Texts'
  BY SMTT(30), <1>1, <1>5 DEF ScanInv, Texts
<1>7. Moved'
  <2>1. tokens' # <<>>
    BY <1>4
  <2>2. k.from < pos' /\ pos' <= k.to /\ (isAscii(textOf(k)) => pos' = k.to)
    BY <1>1, <1>2, <1>3, <1>5
  <2>3. err' = "none"
    BY <1>1
  <2>. QED
    BY <1>1, <1>4, <2>1, <2>2, <2>3 DEF Moved, textOf
<1>8. RightHere'
  <2>1. SUFFICES ASSUME isAscii(input), \A m \in DOMAIN tokens' : ~UncountedLine(tokens'[m])
                 PROVE  At(pos', row', col')
    BY ZenonT(60), <1>1 DEF RightHere, At, UncountedLine, textOf
  <2>2. PICK S : tokens \in Seq(S)
    BY DEF ScanInv, Moved
  <2>3. \A m \in DOMAIN tokens : m \in DOMAIN tokens' /\ tokens'[m] = tokens[m]
    BY <1>1, <2>2
  <2>4. At(pos, row, col)
    BY <2>1, <2>3 DEF ScanInv, RightHere
  <2>5. ~UncountedLine(k)
    <3>1. Len(tokens') \in DOMAIN tokens'
      BY <1>4
    <3>. QED
      BY <1>4, <2>1, <3>1
  <2>6. Counts(v)
    BY <1>1, <1>2, <1>3, <2>1, <2>5 DEF UncountedLine
  <2>. QED
    BY <1>1, <2>4, <2>6, CountsKeep DEF ScanInv
<1>. QED
  BY <1>4, <1>6, <1>7, <1>8 DEF ScanInv

\* What New makes of the input is a sequence, in which white space matches.
LEMMA NormalizeIsSeq ==
    ASSUME NEW s \in Seq(AnyRune)
    PROVE  \E S : Normalize(s) \in Seq(S)
<1> DEFINE kept == {i \in DOMAIN s : ~HasAt(s, i, <<"\r", "\n">>)}
           e(n) == s[CHOOSE i \in kept : Cardinality({k \in kept : k <= i}) = n]
           N == Cardinality(kept)
<1>1. N \in Nat
  <2>1. Len(s) \in Nat /\ kept \in SUBSET (1..Len(s))
    OBVIOUS
  <2>2. IsFiniteSet(1..Len(s))
    BY <2>1, FS_Interval
  <2> HIDE DEF kept
  <2>. QED
    BY ZenonT(60), <2>1, <2>2, FS_Subset, FS_CardinalityType
<1>2. Normalize(s) = [n \in 1..N |-> e(n)]
  BY DEF Normalize
<1> DEFINE S == {e(n) : n \in 1..N}
           f == [n \in 1..N |-> e(n)]
<1> HIDE DEF N, e
<1>3. f \in [1..N -> S]
  OBVIOUS
<1> HIDE DEF S, f
<1>4. f \in Seq(S)
  BY <1>1, <1>3
<1>. QED
  BY Zenon, <1>2, <1>4 DEF f

LEMMA ScanInit == New => ScanInv
<1> SUFFICES ASSUME New PROVE ScanInv
  OBVIOUS
<1>1. PICK n \in DOMAIN Inputs : \E s \in Inputs[n] : input = Normalize(s)
  BY DEF New
<1>2. PICK s \in Inputs[n] : input = Normalize(s)
  BY <1>1
<1>3. PICK S : input \in Seq(S)
  BY <1>2, InputsAssumption, NormalizeIsSeq
<1>4. pos = 0 /\ row = 1 /\ col = 1 /\ err = "none" /\ tokens = <<>>
  BY DEF New
<1>5. Texts
  BY <1>2, <1>3, <1>4, WhiteSpaceAssumption DEF Texts
<1>6. Moved /\ NothingSkipped /\ PositionsRight
  <2>1. tokens \in Seq({}) /\ DOMAIN tokens = {}
    BY <1>4
  <2>. QED
    BY <1>4, <2>1 DEF Moved, NothingSkipped, PositionsRight
<1>7. At(0, 1, 1)
  <2> DEFINE p == SubSeq(input, 1, 0)
  <2>1. p \in Seq(S) /\ Len(p) = 0
    BY <1>3
  <2> HIDE DEF p
  <2>2. newlines(p) = {}
    BY <2>1 DEF newlines
  <2>3. Cardinality(newlines(p)) = 0 /\ lastNewline(p) = 0
    BY ZenonT(60), <2>1, <2>2, Newlines
  <2>. QED
    BY <2>3 DEF At, p
<1>. QED
  BY <1>4, <1>5, <1>6, <1>7 DEF ScanInv, RightHere

\* The state of the scanner agrees with what it has read, in every input.
THEOREM ScanInvariant == Spec => []ScanInv
<1>1. New => ScanInv
  BY ScanInit
<1>2. ScanInv /\ [Next]_vars => ScanInv'
  <2> SUFFICES ASSUME ScanInv, [Next]_vars PROVE ScanInv'
    OBVIOUS
  <2>1. CASE NextToken
    <3>1. Texts /\ err = "none"
      BY <2>1, NextTokenCases DEF ScanInv
    <3>. QED
      BY <2>1, <3>1, ReadsOrStops, ReadsKeep, StopsKeep
  <2>2. CASE UNCHANGED vars
    <3>1. UNCHANGED input /\ UNCHANGED pos /\ UNCHANGED row /\ UNCHANGED col /\ UNCHANGED err /\ UNCHANGED tokens
      BY <2>2 DEF vars
    <3>2. Texts' /\ Moved'
      BY <3>1 DEF ScanInv, Texts, Moved, textOf
    <3>3. NothingSkipped' /\ RightHere' /\ PositionsRight'
      BY <3>1, Zenon DEF ScanInv, NothingSkipped, RightHere, PositionsRight, At, UncountedLine, textOf
    <3>. QED
      BY <3>2, <3>3 DEF ScanInv
  <2>. QED
    BY <2>1, <2>2 DEF Next, NextAgain
<1>. QED
  BY <1>1, <1>2, PTL DEF Spec

\* No byte of an input is left out of the tokens and every call of Next takes at
\* least one, for every input and whatever the productions match.
THEOREM NothingIsSkipped == Spec => []NothingSkipped
<1>1. ScanInv => NothingSkipped
  BY DEF ScanInv
<1>. QED
  BY <1>1, ScanInvariant, PTL

\* The rows and columns of the tokens of an ASCII input are right (updatePosition,
\* emitSimple), for every input and whatever the productions match.
THEOREM PositionsAreRight == Spec => []PositionsRight
<1>1. ScanInv => PositionsRight
  BY DEF ScanInv
<1>. QED
  BY <1>1, ScanInvariant, PTL
=============================================================================
