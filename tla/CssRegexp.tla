------------------------------ MODULE CssRegexp -----------------------------
(***************************************************************************)
(* The macros and productions of the CSS scanner (css/scanner/scanner.go), *)
(* over the characters the inputs have.                                    *)
(*                                                                         *)
(* A regular expression is a term; Ends gives the matches in the order in  *)
(* which Go's regexp prefers them (leftmost-first), so the first is the    *)
(* one that FindString finds.                                              *)
(***************************************************************************)
EXTENDS CssScanner, SequencesExt

Chr(S) == [op |-> "chr", set |-> S]
Cat(rs) == [op |-> "cat", args |-> rs]
Alt(rs) == [op |-> "alt", args |-> rs]
Rep(r, lo, hi) == [op |-> "rep", arg |-> r, lo |-> lo, hi |-> hi]
Many == 99  \* more than any input is long
Star(r) == Rep(r, 0, Many)
Plus(r) == Rep(r, 1, Many)
Opt(r) == Rep(r, 0, 1)
Text(s) == Cat([j \in DOMAIN s |-> Chr({s[j]})])

merge(p, q) == p \o SelectSeq(q, LAMBDA x : x \notin ToSet(p))

\* The positions at which a match of r that starts at byte i of s may end, the
\* preferred one first; After: a match that starts at one of the positions is.
RECURSIVE Ends(_, _, _), After(_, _, _)
Ends(r, s, i) ==
    CASE r.op = "chr" -> IF i <= Len(s) /\ s[i] \in r.set THEN <<i + width(s, i)>> ELSE <<>>
      [] r.op = "cat" -> IF r.args = <<>> THEN <<i>>
                         ELSE After(Cat(Tail(r.args)), s, Ends(Head(r.args), s, i))
      [] r.op = "alt" -> IF r.args = <<>> THEN <<>>
                         ELSE merge(Ends(Head(r.args), s, i), Ends(Alt(Tail(r.args)), s, i))
      [] r.op = "rep" ->
            LET less == Rep(r.arg, IF r.lo = 0 THEN 0 ELSE r.lo - 1, r.hi - 1)
                more == IF r.hi = 0 THEN <<>> ELSE After(less, s, Ends(r.arg, s, i))
            IN  IF r.lo = 0 THEN merge(more, <<i>>) ELSE more

After(r, s, is) ==
    IF is = <<>> THEN <<>> ELSE merge(Ends(r, s, Head(is)), After(r, s, Tail(is)))

wc == Chr({"\t", "\n", "\f", "\r", " "})
nl == Alt(<<Chr({"\n", "\r", "\f"}), Text(<<"\r", "\n">>)>>)
nonascii == Chr(NonAscii)
unicode == Cat(<<Chr({"\\"}), Rep(Chr(Digits \cup {"a"}), 1, 6), Opt(wc)>>)
\* The other alternative of {escape}, "\\[..." in an interpreted literal, is the
\* text of the class and not the class: no input here has it.
escape == unicode
nmstart == Alt(<<Chr(Letters \cup {"_"}), nonascii, escape>>)
nmchar == Alt(<<Chr(Letters \cup Digits \cup {"_", "-"}), nonascii, escape>>)
ident == Cat(<<Opt(Chr({"-"})), nmstart, Star(nmchar)>>)
num == Alt(<<Plus(Chr(Digits)), Cat(<<Star(Chr(Digits)), Chr({"."}), Plus(Chr(Digits))>>)>>)
urlchar == Alt(<<Chr(Ascii \ {" ", "\n", "\r", "\f", "\""}), nonascii, escape>>)
stringchar == Alt(<<urlchar, Chr({" "}), Cat(<<Chr({"\\"}), nl>>)>>)
string ==
    LET quoted(q, other) == Cat(<<Chr({q}), Star(Alt(<<stringchar, Chr({other})>>)), Chr({q})>>)
    IN  Alt(<<quoted("\"", "'"), quoted("'", "\"")>>)

\* The loop of a comment may start at a slash.
commentThroughSlash ==
    LET stars == Plus(Chr({"*"}))
        others == Star(Chr(AnyRune \ {"*"}))
    IN  Cat(<<Text(<<"/", "*">>), others, stars,
              Star(Cat(<<Chr(AnyRune), others, stars>>)), Chr({"/"})>>)

\* [^/] lets a star end the comment's loop only before a slash.
comment ==
    LET stars == Plus(Chr({"*"}))
        others == Star(Chr(AnyRune \ {"*"}))
    IN  Cat(<<Text(<<"/", "*">>), others, stars,
              Star(Cat(<<Chr(AnyRune \ {"/"}), others, stars>>)), Chr({"/"})>>)

productions ==
    LET hex == Rep(Chr(Digits \cup {"?"}), 1, 6) IN
    [IDENT |-> ident,
     ATKEYWORD |-> Cat(<<Chr({"@"}), ident>>),
     STRING |-> string,
     HASH |-> Cat(<<Chr({"#"}), Plus(nmchar)>>),
     NUMBER |-> num,
     PERCENTAGE |-> Cat(<<num, Chr({"%"})>>),
     DIMENSION |-> Cat(<<num, ident>>),
     URI |-> Cat(<<Text(<<"u", "r", "l", "(">>), Star(wc), Alt(<<string, Star(urlchar)>>),
                   Star(wc), Chr({")"})>>),
     RANGE |-> Cat(<<Text(<<"U", "+">>), hex,
                     Opt(Cat(<<Chr({"-"}), Rep(Chr(Digits), 1, 6)>>))>>),
     CDC |-> Text(<<"-", "-", ">">>),
     S |-> Plus(wc),
     COMMENT |-> comment,
     FUNCTION |-> Cat(<<ident, Chr({"("})>>)]

\* What matchers[t].FindString finds at the start of s.
findLen(t, s) ==
    LET ends == Ends(productions[t], s, 1) IN IF ends = <<>> THEN 0 ELSE ends[1] - 1
=============================================================================
