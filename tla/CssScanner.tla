----------------------------- MODULE CssScanner -----------------------------
(***************************************************************************)
(* The CSS scanner (css/scanner/scanner.go): an input, the position in it, *)
(* and Next, which emits one token per call until the end or an error.     *)
(*                                                                         *)
(* The input is a sequence of bytes.  An ASCII byte is the character; the  *)
(* bytes of one character that takes two are B1 and B2, those of the byte  *)
(* order mark M1, M2 and M3.  A byte of these that is not part of its      *)
(* character decodes to U+FFFD, which is one of {nonascii} as well.        *)
(*                                                                         *)
(* What the productions match is a parameter here; CssRegexp gives it.     *)
(***************************************************************************)
EXTENDS Naturals, Sequences, FiniteSets

CONSTANTS
    Inputs,         \* the inputs given to New, as a sequence of sets
    matchLen(_, _)  \* the length of what a production matches at the start of a text

VARIABLES input, pos, row, col, err, tokens

vars == <<input, pos, row, col, err, tokens>>

(***************************************************************************)
(* Bytes and runes.                                                        *)
(***************************************************************************)

NonAscii == {"B1", "B2", "M1", "M2", "M3"}
BOM == <<"M1", "M2", "M3">>
Letters == {"a", "u", "r", "l", "U"}
Digits == {"0", "1"}
Ascii == Letters \cup Digits \cup
    {" ", "\t", "\n", "\r", "\f", "\"", "'", "\\", "/", "*", "-", "+", ".", "#", "@", "%", "(", ")",
     "=", "~", "|", "^", "$", "<", ">", "!", "?", ";", ":", ",", "&", "[", "]", "{", "}", "_"}
AnyRune == Ascii \cup NonAscii

WhiteSpace == {"\t", "\n", "\f", "\r", " "}

HasAt(s, i, t) == i + Len(t) - 1 <= Len(s) /\ SubSeq(s, i, i + Len(t) - 1) = t
HasPrefix(s, prefix) == HasAt(s, 1, prefix)

\* DecodeRuneInString, as the number of bytes of the rune at byte i of s.
width(s, i) ==
    IF s[i] \notin NonAscii THEN 1
    ELSE IF HasAt(s, i, <<"B1", "B2">>) THEN 2
    ELSE IF HasAt(s, i, BOM) THEN 3
    ELSE 1

\* RuneCountInString counts the bytes that no rune before them includes.
RuneCount(s) == Cardinality({i \in DOMAIN s : \A j \in 1..(i - 1) : j + width(s, j) <= i})

\* FindString of a regexp that starts with ^: a prefix of the text, "" if it does
\* not match.
FindString(t, s) == IF matchLen(t, s) \in 1..Len(s) THEN SubSeq(s, 1, matchLen(t, s)) ELSE <<>>

matchOrder == <<"URI", "FUNCTION", "RANGE", "IDENT", "DIMENSION", "PERCENTAGE", "NUMBER", "CDC">>

(***************************************************************************)
(* The scanner.                                                            *)
(***************************************************************************)

\* New replaces every "\r\n" by "\n".
Normalize(s) ==
    LET kept == {i \in DOMAIN s : ~HasAt(s, i, <<"\r", "\n">>)}
    IN  [n \in 1..Cardinality(kept) |->
            s[CHOOSE i \in kept : Cardinality({k \in kept : k <= i}) = n]]

ASSUME InputsAssumption == \A n \in DOMAIN Inputs : \A s \in Inputs[n] : s \in Seq(AnyRune)

\* {wc}+ matches wherever there is white space.
ASSUME WhiteSpaceAssumption ==
    \A n \in DOMAIN Inputs : \A s \in Inputs[n] :
        LET t == Normalize(s)
        IN  \A i \in DOMAIN t : t[i] \in WhiteSpace => FindString("S", SubSeq(t, i, Len(t))) # <<>>

New ==
    /\ \E k \in DOMAIN Inputs : \E s \in Inputs[k] : input = Normalize(s)
    /\ pos = 0 /\ row = 1 /\ col = 1
    /\ err = "none"
    /\ tokens = <<>>

\* A token, with the bytes [from, to) of the input that are its value.
token(t, v) == [type |-> t, from |-> pos, to |-> pos + Len(v), row |-> row, col |-> col]

emit(t, v, r, c, p) ==
    /\ tokens' = Append(tokens, token(t, v))
    /\ row' = r /\ col' = c /\ pos' = p
    /\ UNCHANGED err

newlines(v) == {j \in DOMAIN v : v[j] = "\n"}

\* LastIndex, 0 if there is none.
lastNewline(v) == CHOOSE n \in newlines(v) \cup {0} : \A j \in newlines(v) : j <= n

\* The column does not start again after a newline.
emitTokenOneLine(t, v) ==
    LET lines == Cardinality(newlines(v))
    IN  emit(t, v, row + lines, col + RuneCount(v), pos + RuneCount(v))

\* emitToken with updatePosition, which moves by runes.
emitToken(t, v) ==
    LET lines == Cardinality(newlines(v))
        lastLine == SubSeq(v, lastNewline(v), Len(v))
    IN  emit(t, v, row + lines,
             IF lines = 0 THEN col + RuneCount(v) ELSE RuneCount(lastLine),
             pos + RuneCount(v))

\* emitSimple, which moves by bytes.
emitSimple(t, v) == emit(t, v, row, col + Len(v), pos + Len(v))

\* A char is emitted for the prefix, and a byte too many is passed over.
emitPrefixOrCharLong(t, prefix, rest) ==
    IF HasPrefix(rest, prefix) THEN emitSimple(t, prefix)
    ELSE emit("CHAR", <<prefix[1]>>, row, col + Len(prefix), pos + Len(prefix))

emitPrefixOrChar(t, prefix, rest) ==
    IF HasPrefix(rest, prefix) THEN emitSimple(t, prefix) ELSE emitSimple("CHAR", <<prefix[1]>>)

fail(t) ==
    /\ err' = t
    /\ tokens' = Append(tokens, token(t, <<>>))
    /\ UNCHANGED <<pos, row, col>>

\* A production that may match, or else.
emitMatchOrChar(t, c, rest) ==
    LET match == FindString(t, rest)
    IN  IF match # <<>> THEN emitSimple(t, match) ELSE emitSimple("CHAR", <<c>>)

emitMatchOrFail(t, rest) ==
    LET match == FindString(t, rest)
    IN  IF match # <<>> THEN emitToken(t, match) ELSE fail("error")

\* All regexps in order, and a rune if none matches.
emitInOrder(rest) ==
    LET matching == {n \in DOMAIN matchOrder : FindString(matchOrder[n], rest) # <<>>}
        first == {n \in matching : \A m \in matching : n <= m}
        w == width(rest, 1)
    IN  \/ \E n \in first : emitToken(matchOrder[n], FindString(matchOrder[n], rest))
        \/ matching = {} /\ emit("CHAR", SubSeq(rest, 1, w), row, col + w, pos + w)

prefixTokens ==
    {<<"INCLUDES", <<"~", "=">>>>, <<"DASHMATCH", <<"|", "=">>>>, <<"PREFIXMATCH", <<"^", "=">>>>,
     <<"SUFFIXMATCH", <<"$", "=">>>>, <<"SUBSTRINGMATCH", <<"*", "=">>>>,
     <<"CDO", <<"<", "!", "-", "-">>>>}
prefixesFrom(c) == {p \in prefixTokens : p[2][1] = c}

CommonChars == {":", ",", ";", "%", "&", "+", "=", ">", "(", ")", "[", "]", "{", "}"}

NextToken ==
    /\ err = "none"
    /\ LET rest == SubSeq(input, pos + 1, Len(input))
           c == rest[1]
       IN  IF rest = <<>> THEN fail("EOF")
           ELSE IF pos = 0 /\ HasPrefix(input, BOM) THEN emitSimple("BOM", BOM)
           ELSE CASE c \in WhiteSpace ->
                        emitToken("S", FindString("S", rest))
                  [] c = "." /\ Len(rest) > 1 /\ rest[2] \notin Digits -> emitSimple("CHAR", <<c>>)
                  [] c = "#" -> emitMatchOrChar("HASH", c, rest)
                  [] c = "@" -> emitMatchOrChar("ATKEYWORD", c, rest)
                  [] c \in CommonChars -> emitSimple("CHAR", <<c>>)
                  [] c \in {"\"", "'"} -> emitMatchOrFail("STRING", rest)
                  [] c = "/" -> IF Len(rest) > 1 /\ rest[2] = "*"
                                THEN emitMatchOrFail("COMMENT", rest)
                                ELSE emitSimple("CHAR", <<c>>)
                  [] prefixesFrom(c) # {} -> \E p \in prefixesFrom(c) : emitPrefixOrChar(p[1], p[2], rest)
                  [] OTHER -> emitInOrder(rest)
    /\ UNCHANGED input

\* After the end or an error Next returns the same token again.
NextAgain ==
    /\ err # "none"
    /\ UNCHANGED vars

Next == NextToken \/ NextAgain

Spec == New /\ [][Next]_vars

(***************************************************************************)
(* Properties.                                                             *)
(***************************************************************************)

textOf(k) == SubSeq(input, k.from + 1, k.to)
isAscii(s) == \A j \in DOMAIN s : s[j] \notin NonAscii

\* No byte of the input is left out of the tokens and every call of Next takes at
\* least one, so the scan ends; after a token of ASCII text the next one starts
\* exactly where it ends (the positions kept by emitToken, emitSimple and Next).
NothingSkipped ==
    /\ \A j \in DOMAIN tokens \ {1} :
          LET p == tokens[j - 1] IN
          /\ p.from < tokens[j].from /\ tokens[j].from <= p.to
          /\ isAscii(textOf(p)) => tokens[j].from = p.to
    /\ tokens # <<>> => tokens[1].from = 0
    /\ err = "EOF" => pos = Len(input)

\* A token that emitSimple was given although its text has a newline, which ends
\* an escape.
UncountedLine(k) == k.type \in {"HASH", "ATKEYWORD"} /\ newlines(textOf(k)) # {}

\* In an ASCII input every token, the last one included, carries the line and
\* the column its text starts at, however the newlines before it are spread over
\* white space, comments, strings and escapes (updatePosition against emitSimple,
\* which has its way only where its text has no newline).
PositionsRight ==
    isAscii(input) =>
        \A n \in DOMAIN tokens :
            LET k == tokens[n]
                before == SubSeq(input, 1, k.from)
            IN  (\A m \in 1..(n - 1) : ~UncountedLine(tokens[m])) =>
                    /\ k.row = 1 + Cardinality(newlines(before))
                    /\ k.col = 1 + k.from - lastNewline(before)

closesAt(s, j) == j + 1 \in DOMAIN s /\ s[j] = "*" /\ s[j + 1] = "/"

\* A comment token ends at the first "*/" after its start, whatever stars and
\* slashes come before it, and Next reports an error only where there is none, or
\* where no quotation mark closes the string on its line (the productions of
\* comments and strings, and the comment of Next on errors).
ClosedWhereWritten ==
    /\ \A n \in DOMAIN tokens : tokens[n].type = "COMMENT" =>
          LET v == textOf(tokens[n])
          IN  {j \in 3..Len(v) : closesAt(v, j)} = {Len(v) - 1}
    /\ err = "error" =>
          LET q == input[pos + 1]
          IN  IF q = "/" THEN ~\E j \in (pos + 3)..Len(input) : closesAt(input, j)
              ELSE ~\E j \in (pos + 2)..Len(input) :
                      /\ input[j] = q
                      /\ \A i \in (pos + 2)..j : input[i] \notin {"\n", "\r", "\f"}
=============================================================================
