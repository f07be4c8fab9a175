----------------------------- MODULE EscapeText -----------------------------
(***************************************************************************)
(* template/escape: text nodes.  A text is a sequence of marks: the        *)
(* characters the transition functions tell apart, and words that stand    *)
(* for the runs of letters they compare with names.  A transition function *)
(* maps a context and a text to the context after some of the text and the *)
(* number of marks consumed.                                               *)
(***************************************************************************)
EXTENDS EscapeContext, Naturals, Sequences, FiniteSetsExt

Words == {"b", "return", "url", "href", "onclick", "script", "style", "title"}
Space == {" ", "\n"}
Quotes == {"\"", "'"}
Marks ==
    Words \cup Space \cup Quotes
      \cup {"<", ">", "/", "=", "!", "--", "\\", "*", "(", ")", "[", "]", "?", "&quot;", "&lt;"}
NonSpace == Marks \ Space
NonWords == Marks \ Words

\* The first position from k on with a mark of the set, or the end of the text.
IndexAny(s, k, set) == Min({Len(s) + 1} \cup {i \in k..Len(s) : s[i] \in set})
eatWhiteSpace(s, i) == IndexAny(s, i, NonSpace)
At(s, i) == IF i \in DOMAIN s THEN s[i] ELSE "end"
All(c, s) == <<c, Len(s)>>

\* eatTagName: the element a name starts.
elementNameMap(name) == IF name \in {<<"script">>, <<"style">>, <<"title">>} THEN name[1] ELSE "None"

CommentAt(s, i) == At(s, i + 1) = "!" /\ At(s, i + 2) = "--"
TagNameAt(s, i) == IF At(s, i + 1) = "/" THEN i + 2 ELSE i + 1

tText(c, s) ==
    LET found == {i \in DOMAIN s : s[i] = "<" /\ (CommentAt(s, i) \/ At(s, TagNameAt(s, i)) \in Words)}
        i == Min(found)
        n == TagNameAt(s, i)
        j == IndexAny(s, n, NonWords)
    IN IF found = {} THEN All(c, s)
       ELSE IF CommentAt(s, i) THEN <<Context("HTMLCmt"), i + 2>>
       ELSE <<[Context("Tag") EXCEPT !.element =
                   IF At(s, i + 1) = "/" THEN "None" ELSE elementNameMap(SubSeq(s, n, j - 1))], j - 1>>

elementContentType(e) ==
    CASE e = "None" -> "Text" [] e = "script" -> "JS" [] e = "style" -> "CSS" [] e = "title" -> "RCDATA"

NameEnd == Space \cup {"=", ">"}
BadInName == Quotes \cup {"<"}
\* eatAttrName, from i: the end of the name, and whether it is an error.
eatAttrName(s, i) == IndexAny(s, i, NameEnd \cup BadInName)
BadName(s, i) == At(s, eatAttrName(s, i)) \in BadInName

attrType(name) ==
    CASE name = <<"href">> -> "URL"
      [] name = <<"style">> -> "Style"
      [] name[1] = "onclick" -> "Script"
      [] \E i \in DOMAIN name : name[i] = "url" -> "URL"
      [] OTHER -> "None"

tTag(c, s) ==
    LET i == eatWhiteSpace(s, 1)
        j == eatAttrName(s, i)
    IN IF i > Len(s) THEN All(c, s)
       ELSE IF s[i] = ">"
       THEN <<[Context(elementContentType(c.element)) EXCEPT !.element = c.element], i>>
       ELSE IF BadName(s, i) \/ i = j THEN All(Error, s)
       ELSE <<[Context(IF j > Len(s) THEN "AttrName" ELSE "AfterName")
                   EXCEPT !.element = c.element, !.attr = attrType(SubSeq(s, i, j - 1))], j - 1>>

tAttrName(c, s) ==
    LET j == eatAttrName(s, 1)
    IN IF BadName(s, 1) THEN All(Error, s)
       ELSE <<IF j > Len(s) THEN c ELSE [c EXCEPT !.state = "AfterName"], j - 1>>

tAfterName(c, s) ==
    LET i == eatWhiteSpace(s, 1)
    IN IF i > Len(s) THEN All(c, s)
       ELSE IF s[i] # "=" THEN <<[c EXCEPT !.state = "Tag"], i - 1>>
       ELSE <<[c EXCEPT !.state = "BeforeValue"], i>>

tBeforeValue(c, s) ==
    LET i == eatWhiteSpace(s, 1)
        value(d) == [c EXCEPT !.state = attrStartStates(c.attr), !.delim = d, !.attr = "None"]
    IN IF i > Len(s) THEN All(c, s)
       ELSE CASE s[i] = "'" -> <<value("SingleQuote"), i>>
              [] s[i] = "\"" -> <<value("DoubleQuote"), i>>
              [] OTHER -> <<value("SpaceOrTagEnd"), i - 1>>

tHTMLCmt(c, s) ==
    LET ends == {i \in DOMAIN s : s[i] = "--" /\ At(s, i + 1) = ">"}
    IN IF ends = {} THEN All(c, s) ELSE <<Context("Text"), Min(ends) + 1>>

tSpecialTagEnd(c, s) ==
    LET ends == {i \in DOMAIN s : s[i] = "<" /\ At(s, i + 1) = "/" /\ At(s, i + 2) = c.element}
    IN IF ends = {} THEN All(c, s) ELSE <<Context("Text"), Min(ends) - 1>>

URLAfter(c, s) ==
    IF \E i \in DOMAIN s : s[i] = "?" THEN [c EXCEPT !.urlPart = "QueryOrFrag"]
    ELSE IF eatWhiteSpace(s, 1) <= Len(s) /\ c.urlPart = "None" THEN [c EXCEPT !.urlPart = "PreQuery"]
    ELSE c
tURL(c, s) == All(URLAfter(c, s), s)

\* nextJSCtx: what a slash after these marks starts.
nextJSCtx(s, preceding) ==
    LET solid == {i \in DOMAIN s : s[i] \notin Space}
        n == Max(solid)
        ident == {i \in 1..n : \A j \in i..n : s[j] \in Words}
    IN IF solid = {} THEN preceding
       ELSE IF \/ s[n] \in {"<", ">", "=", "*", "?", "!", "(", "[", "&quot;"}
               \/ s[n] = "return" /\ ident = {n}
       THEN "Regexp" ELSE "DivOp"

tJS(c, s) ==
    LET i == IndexAny(s, 1, Quotes \cup {"/"})
        n == [c EXCEPT !.jsCtx = nextJSCtx(SubSeq(s, 1, i - 1), c.jsCtx)]
        to(state) == [n EXCEPT !.state = state]
    IN CASE i > Len(s) -> All(n, s)
         [] s[i] = "\"" -> <<[to("JSDqStr") EXCEPT !.jsCtx = "Regexp"], i>>
         [] s[i] = "'" -> <<[to("JSSqStr") EXCEPT !.jsCtx = "Regexp"], i>>
         [] s[i] = "/" /\ At(s, i + 1) = "/" -> <<to("JSLineCmt"), i + 1>>
         [] s[i] = "/" /\ At(s, i + 1) = "*" -> <<to("JSBlockCmt"), i + 1>>
         [] OTHER -> CASE n.jsCtx = "Regexp" -> <<to("JSRegexp"), i>>
                       [] n.jsCtx = "DivOp" -> <<[n EXCEPT !.jsCtx = "Regexp"], i>>
                       [] OTHER -> All(Error, s)

tJSDelimited(c, s) ==
    LET specials == CASE c.state = "JSDqStr" -> {"\\", "\""}
                      [] c.state = "JSSqStr" -> {"\\", "'"}
                      [] OTHER -> {"\\", "/", "[", "]"}
        from[k \in 1..Len(s)+1, inCharset \in BOOLEAN] ==
            LET i == IndexAny(s, k, specials) IN
            CASE i > Len(s) -> All(IF inCharset THEN Error ELSE c, s)
              [] At(s, i) = "\\" -> IF i = Len(s) THEN All(Error, s) ELSE from[i + 2, inCharset]
              [] At(s, i) = "[" -> from[i + 1, TRUE]
              [] At(s, i) = "]" -> from[i + 1, FALSE]
              [] OTHER -> IF inCharset THEN from[i + 1, TRUE]
                          ELSE <<[c EXCEPT !.state = "JS", !.jsCtx = "DivOp"], i>>
    IN from[1, FALSE]

tBlockCmt(c, s) ==
    LET ends == {i \in DOMAIN s : s[i] = "*" /\ At(s, i + 1) = "/"}
    IN IF ends = {} THEN All(c, s) ELSE <<[c EXCEPT !.state = ElidedTo[c.state]], Min(ends) + 1>>

\* The line terminator is not part of the comment.
tLineCmt(c, s) ==
    LET i == IndexAny(s, 1, {"\n"})
    IN IF i > Len(s) THEN All(c, s) ELSE <<[c EXCEPT !.state = ElidedTo[c.state]], i - 1>>

\* endsWithCSSKeyword(s[:i], "url"), spaces trimmed.
AfterUrl(s, i) ==
    LET m == Max({0} \cup {j \in 1..i-1 : s[j] \notin Space})
    IN At(s, m) = "url" /\ At(s, m - 1) \notin Words \cup {"--"}

tCSS(c, s) ==
    LET found == {i \in DOMAIN s : \/ s[i] \in Quotes
                                   \/ s[i] = "(" /\ AfterUrl(s, i)
                                   \/ s[i] = "/" /\ At(s, i + 1) \in {"/", "*"}}
        i == Min(found)
        j == eatWhiteSpace(s, i + 1)
        to(state) == [c EXCEPT !.state = state]
    IN CASE found = {} -> All(c, s)
         [] s[i] = "\"" -> <<to("CSSDqStr"), i>>
         [] s[i] = "'" -> <<to("CSSSqStr"), i>>
         [] s[i] = "/" -> <<to(IF s[i + 1] = "/" THEN "CSSLineCmt" ELSE "CSSBlockCmt"), i + 1>>
         [] OTHER -> CASE At(s, j) = "\"" -> <<to("CSSDqURL"), j>>
                       [] At(s, j) = "'" -> <<to("CSSSqURL"), j>>
                       [] OTHER -> <<to("CSSURL"), j - 1>>

\* An escaped mark stands for itself.
decodeCSS(s) ==
    LET escaping[i \in Nat] == IF i = 0 THEN FALSE ELSE s[i] = "\\" /\ ~escaping[i - 1]
    IN [n \in 1..Cardinality({i \in DOMAIN s : ~escaping[i]}) |->
            s[CHOOSE i \in DOMAIN s : ~escaping[i] /\ Cardinality({j \in 1..i : ~escaping[j]}) = n]]

tCSSStr(c, s) ==
    LET ends == CASE c.state \in {"CSSDqStr", "CSSDqURL"} -> {"\""}
                  [] c.state \in {"CSSSqStr", "CSSSqURL"} -> {"'"}
                  [] OTHER -> Space \cup {")"}
        part(urlPart) == [c EXCEPT !.urlPart = urlPart]
        from[k \in 1..Len(s)+1, urlPart \in UrlParts] ==
            LET i == IndexAny(s, k, ends \cup {"\\"}) IN
            CASE i > Len(s) -> All(URLAfter(part(urlPart), SubSeq(s, k, Len(s))), s)
              [] At(s, i) # "\\" -> <<[part(urlPart) EXCEPT !.state = "CSS"], i>>
              [] i = Len(s) -> All(Error, s)
              [] OTHER -> from[i + 2, URLAfter(part(urlPart), decodeCSS(SubSeq(s, 1, i + 1))).urlPart]
    IN from[1, c.urlPart]

transitionFunc(c, s) ==
    CASE c.state = "Text" -> tText(c, s)
      [] c.state = "Tag" -> tTag(c, s)
      [] c.state = "AttrName" -> tAttrName(c, s)
      [] c.state = "AfterName" -> tAfterName(c, s)
      [] c.state = "BeforeValue" -> tBeforeValue(c, s)
      [] c.state = "HTMLCmt" -> tHTMLCmt(c, s)
      [] c.state = "RCDATA" -> tSpecialTagEnd(c, s)
      [] c.state = "URL" -> tURL(c, s)
      [] c.state = "JS" -> tJS(c, s)
      [] c.state \in {"JSDqStr", "JSSqStr", "JSRegexp"} -> tJSDelimited(c, s)
      [] c.state \in {"JSBlockCmt", "CSSBlockCmt"} -> tBlockCmt(c, s)
      [] c.state \in {"JSLineCmt", "CSSLineCmt"} -> tLineCmt(c, s)
      [] c.state = "CSS" -> tCSS(c, s)
      [] c.state \in CssStrings \cup CssUrls -> tCSSStr(c, s)
      [] OTHER -> All(c, s)             \* tAttr, tError

delimEnds(d) ==
    CASE d = "DoubleQuote" -> {"\""} [] d = "SingleQuote" -> {"'"} [] OTHER -> Space \cup {">"}

\* html.UnescapeString
UnescapeString(s) ==
    [i \in DOMAIN s |-> CASE s[i] = "&quot;" -> "\"" [] s[i] = "&lt;" -> "<" [] OTHER -> s[i]]

\* All of the text is part of the attribute's value.
insideAttribute(c, s) ==
    LET u == UnescapeString(s)
        from[k \in 1..Len(u)+1, d \in Contexts] ==
            IF k > Len(u) THEN d
            ELSE LET r == transitionFunc(d, SubSeq(u, k, Len(u))) IN from[k + r[2], r[1]]
    IN from[1, c]

contextAfterText(c, s) ==
    LET special == tSpecialTagEnd(c, s)
        i == IndexAny(s, 1, delimEnds(c.delim))
        unquoted == c.delim = "SpaceOrTagEnd"
    IN IF c.delim = "None"
       THEN IF special[2] = 0 THEN special ELSE transitionFunc(c, SubSeq(s, 1, special[2]))
       ELSE IF unquoted /\ \E j \in 1..i-1 : s[j] \in Quotes \cup {"<", "="} THEN All(Error, s)
       ELSE IF i > Len(s) THEN All(insideAttribute(c, s), s)
       ELSE <<[Context("Tag") EXCEPT !.element = c.element], IF unquoted THEN i - 1 ELSE i>>

\* Mutant of textEnd: one mark late.
textEndLate(state, i) == i - 1

\* The end of the text in front of a comment whose start ends at i.
textEnd(state, i) == i - (IF state = "HTMLCmt" THEN 3 ELSE 2)

\* One turn of the loop of escapeText, from position t.i, where contextAfterText
\* gave r: "<" that starts no tag is escaped and comments are left out of the text
\* in b.
chunk(s, t, r) ==
    LET c1 == r[1]
        i1 == t.i + r[2]
        lts == {j \in t.i+1..i1 : s[j] = "<"}
        escaped == IF c1.state = t.c.state THEN lts ELSE lts \ {Max({0} \cup lts)}
        raw == t.c.state \in {"Text", "RCDATA"} /\ escaped # {}
        comment == isComment(t.c.state) /\ t.c.delim = "None"
        starts == c1.state # t.c.state /\ isComment(c1.state) /\ c1.delim = "None"
        written == IF raw THEN Max(escaped) ELSE IF comment THEN i1 ELSE t.written
        cs == textEnd(c1.state, i1)
        b == CASE raw -> [j \in 1..written - t.written |->
                             IF t.written + j \in escaped THEN "&lt;" ELSE s[t.written + j]]
               [] comment /\ t.c.state = "JSBlockCmt" ->
                     IF \E j \in t.written+1..i1 : s[j] = "\n" THEN <<"\n">> ELSE <<" ">>
               [] comment /\ t.c.state = "CSSBlockCmt" -> <<" ">>
               [] OTHER -> <<>>
    IN [c |-> c1, i |-> i1,
        written |-> IF starts THEN i1 ELSE written,
        b |-> t.b \o b \o (IF starts THEN SubSeq(s, written + 1, cs) ELSE <<>>),
        panic |-> \/ starts /\ written > cs
                  \/ r[2] = 0 /\ c1.state = t.c.state]

escapeChunk(s, t) == chunk(s, t, contextAfterText(t.c, SubSeq(s, t.i + 1, Len(s))))

RECURSIVE escapeChunks(_, _)
escapeChunks(s, t) == IF t.i = Len(s) \/ t.panic THEN t ELSE escapeChunks(s, escapeChunk(s, t))

\* The context after a text, the text that replaces it and whether that is an edit,
\* when the loop ended with t.
escapedText(s, t) ==
    LET edited == t.written # 0 /\ ~IsError(t.c)
        rest == IF isComment(t.c.state) /\ t.c.delim = "None" THEN <<>> ELSE SubSeq(s, t.written + 1, Len(s))
    IN [c |-> t.c, edited |-> edited, text |-> IF edited THEN t.b \o rest ELSE s, panic |-> t.panic]

escapeText(c, s) ==
    escapedText(s, escapeChunks(s, [c |-> c, i |-> 0, written |-> 0, b |-> <<>>, panic |-> FALSE]))
=============================================================================
