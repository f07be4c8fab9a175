------------------------------ MODULE MCEscaper ------------------------------
(* Instances of Escaper.                                                   *)
EXTENDS Escaper

Text(t) == [op |-> "text", text |-> t, source |-> t]
Action(p) == [op |-> "action", pipe |-> p]
If(l, m) == [op |-> "if", list |-> l, elseList |-> m]
RangeOver(l) == [op |-> "range", list |-> l, elseList |-> <<>>]
Call(n) == [op |-> "template", name |-> Named(n)]
Dot == Action(<<".">>)

UpTo(S, n) == UNION {[1..k -> S] : k \in 0..n}

\* Two templates: m opens something, has a branch or two leaves in it and closes
\* it; t has a leaf and may call itself.
Leaves(texts) == {Text(t) : t \in texts} \cup {Dot, Call("t")}
Branches(L) == {If(l, m) : l \in UpTo(L, 1), m \in UpTo(L, 1)} \cup {RangeOver(l) : l \in UpTo(L, 2)}
Bodies(L) == UpTo(L, 2) \cup {<<x>> : x \in Branches(L)} \cup {<<x, y>> : x \in Branches(L), y \in L \ {Dot, Call("t")}}
Recurse == If(<<Call("t")>>, <<>>)
Callees(L) ==
    {<<x>> : x \in L \ {Call("t")}} \cup {<<x, Recurse>> : x \in L} \cup {<<Recurse, x>> : x \in L}
      \cup {<<Dot, x, Recurse>> : x \in L} \cup {<<Dot, Recurse, x>> : x \in L}
Between(open, texts, close) ==
    {[m |-> <<Text(open)>> \o b \o close, t |-> c] : b \in Bodies(Leaves(texts)), c \in Callees(Leaves(texts))}

JS == Between(<<"<", "script", ">">>, {<<"b">>, <<"/">>}, <<Text(<<"<", "/", "script", ">">>)>>)
URL == Between(<<"<", "b", " ", "href", "=", "\"">>, {<<"b">>, <<"?">>}, <<Text(<<"\"", ">">>)>>)
Unquoted == Between(<<"<", "b", " ", "href", "=">>, {<<"b">>, <<" ">>}, <<Dot, Text(<<">">>)>>)
Plain == Between(<<"b">>, {<<"<", "b">>, <<">">>}, <<Text(<<"b">>)>>)

\* One template with an action between two texts, inside each of these.
Insides ==
    {<<<<>>, <<>>>>, <<<<"<", "b", " ">>, <<">">>>>, <<<<"<", "b", " ", "href", "=">>, <<" ", ">">>>>,
     <<<<"<", "b", " ", "onclick", "=", "'">>, <<"'", ">">>>>, <<<<"<", "b", " ", "style", "=", "\"">>, <<"\"", ">">>>>,
     <<<<"<", "script", ">">>, <<"<", "/", "script", ">">>>>, <<<<"<", "style", ">">>, <<"<", "/", "style", ">">>>>,
     <<<<"<", "title", ">">>, <<"<", "/", "title", ">">>>>}
Endings == {<<>>, <<"'">>, <<"*", "/", "/">>, <<"--", ">", "<">>, <<"\n", "/">>}
Texts ==
    {[m |-> <<Text(x[1] \o t), Dot, Text(u), Text(x[2])>>] :
        x \in Insides, t \in UpTo(Marks \ {"&lt;", "title", "style", ")"}, 2), u \in Endings}

\* Pipelines, with one or two commands that are no identifiers, in an attribute
\* that is a URL.
Builtins == {"html", "urlquery", "printf", "noescape"}
Pipelines(first) ==
    {[m |-> <<Text(<<"<", "b", " ", "href", "=", "\"">> \o t), [op |-> "block", list |-> <<Action(first \o p)>>],
              [op |-> "decl"], Text(<<"\"", ">">>)>>] :
        t \in {<<>>, <<"b">>, <<"?">>}, p \in UpTo(Builtins, 3)}
AnyProgram == <<JS, URL, Unquoted, Plain, Texts, Pipelines(<<".">>) \cup Pipelines(<<".", ".">>)>>
==============================================================================
