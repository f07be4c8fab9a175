---------------------------- MODULE EscapeContext ----------------------------
(***************************************************************************)
(* template/escape: the contexts.  A context is the state an HTML parser   *)
(* is in where a node's output goes.  An error context is one value: what  *)
(* the error says is left out.                                             *)
(***************************************************************************)

EXTENDS Sequences

CssStrings == {"CSSDqStr", "CSSSqStr"}
CssUrls == {"CSSDqURL", "CSSSqURL", "CSSURL"}
ElidedTo ==         \* comments, and the state of the text around them
    [HTMLCmt |-> "Text", JSBlockCmt |-> "JS", JSLineCmt |-> "JS",
     CSSBlockCmt |-> "CSS", CSSLineCmt |-> "CSS"]
CommentStates == DOMAIN ElidedTo
States ==
    {"Text", "Tag", "AttrName", "AfterName", "BeforeValue", "RCDATA", "Attr", "URL",
     "JS", "JSDqStr", "JSSqStr", "JSRegexp", "CSS", "Error"}
      \cup CssStrings \cup CssUrls \cup CommentStates
Delims == {"None", "DoubleQuote", "SingleQuote", "SpaceOrTagEnd"}
UrlParts == {"None", "PreQuery", "QueryOrFrag", "Unknown"}
JsCtxs == {"Regexp", "DivOp", "Unknown"}
Attrs == {"None", "Script", "Style", "URL"}
Elements == {"None", "script", "style", "title"}        \* textarea is title

Contexts ==
    [state : States, delim : Delims, urlPart : UrlParts, jsCtx : JsCtxs,
     attr : Attrs, element : Elements]

\* context{state: s}; context{} is Context("Text").
Context(s) ==
    [state |-> s, delim |-> "None", urlPart |-> "None", jsCtx |-> "Regexp",
     attr |-> "None", element |-> "None"]
Error == Context("Error")
IsError(c) == c.state = "Error"

isComment(s) == s \in CommentStates

\* A template has a name and the context it is for: the one it was written for,
\* Text, or the one it was derived for.
Named(n) == <<n, Context("Text")>>

\* Mutant of mangle: without the state.
mangleStateless(c, name) == <<name[1], [c EXCEPT !.state = "Text"]>>

mangle(c, name) == IF c.state = "Text" THEN name ELSE <<name[1], c>>

attrStartStates(a) ==
    CASE a = "None" -> "Attr" [] a = "Script" -> "JS" [] a = "Style" -> "CSS" [] a = "URL" -> "URL"

\* The context after the empty transitions.
nudge(c) ==
    CASE c.state = "Tag" -> [c EXCEPT !.state = "AttrName"]
      [] c.state = "BeforeValue" ->
            [c EXCEPT !.state = attrStartStates(c.attr), !.delim = "SpaceOrTagEnd", !.attr = "None"]
      [] c.state = "AfterName" -> [c EXCEPT !.state = "AttrName", !.attr = "None"]
      [] OTHER -> c

\* join, as far as it goes without nudging.
joinUnnudged(a, b) ==
    IF IsError(a) THEN a
    ELSE IF IsError(b) THEN b
    ELSE IF a = b THEN a
    ELSE IF [a EXCEPT !.urlPart = b.urlPart] = b THEN [a EXCEPT !.urlPart = "Unknown"]
    ELSE IF [a EXCEPT !.jsCtx = b.jsCtx] = b THEN [a EXCEPT !.jsCtx = "Unknown"]
    ELSE Error

\* join calls itself with the nudged contexts; as nudge(nudge(c)) = nudge(c),
\* that call does not nudge again.
join(a, b) ==
    IF joinUnnudged(a, b) # Error THEN joinUnnudged(a, b)
    ELSE joinUnnudged(nudge(a), nudge(b))

\* The sanitizers escapeAction adds for a state and the part of a URL.
stateEscapers(c) ==
    CASE c.state \in {"URL"} \cup CssStrings \cup CssUrls ->
            (IF c.urlPart = "None" THEN <<"urlfilter">> ELSE <<>>)
              \o (CASE c.urlPart = "QueryOrFrag" -> <<"urlescaper">>
                    [] c.state \in CssStrings -> <<"cssescaper">>
                    [] OTHER -> <<"urlnormalizer">>)
      [] c.state = "JS" -> <<"jsvalescaper">>
      [] c.state \in {"JSDqStr", "JSSqStr"} -> <<"jsstrescaper">>
      [] c.state = "JSRegexp" -> <<"jsregexpescaper">>
      [] c.state = "CSS" -> <<"cssvaluefilter">>
      [] c.state = "Text" -> <<"htmlescaper">>
      [] c.state = "RCDATA" -> <<"rcdataescaper">>
      [] c.state = "Attr" -> <<>>
      [] c.state = "AttrName" -> <<"htmlnamefilter">>
      [] c.state \in CommentStates -> <<"commentescaper">>

\* ... and for the delimiter of an attribute's value.
escapers(c) ==
    stateEscapers(c) \o (CASE c.delim = "None" -> <<>>
                           [] c.delim = "SpaceOrTagEnd" -> <<"nospaceescaper">>
                           [] OTHER -> <<"attrescaper">>)

\* The context an action leaves behind; an ambiguous URL is an error.
afterAction(c) ==
    LET n == nudge(c) IN
    IF n.state \in {"URL"} \cup CssStrings \cup CssUrls /\ n.urlPart = "Unknown" THEN Error
    ELSE IF n.state = "JS" THEN [n EXCEPT !.jsCtx = "DivOp"]
    ELSE n
==============================================================================
