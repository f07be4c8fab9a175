----------------------------- MODULE MCMoFile ------------------------------
EXTENDS MoFile

a == 97
b == 98

\* One source with no context, with an empty one and with one; a longer source;
\* plural messages, one without translations and one with a single source.
MCMessages ==
    {[plural |-> FALSE, Src |-> <<<<a>>>>, Dst |-> <<<<b>>>>, Ctx |-> <<>>, HasCtx |-> FALSE],
     [plural |-> FALSE, Src |-> <<<<a>>>>, Dst |-> <<<<a, b>>>>, Ctx |-> <<>>, HasCtx |-> TRUE],
     [plural |-> FALSE, Src |-> <<<<a>>>>, Dst |-> <<<<>>>>, Ctx |-> <<b>>, HasCtx |-> TRUE],
     [plural |-> FALSE, Src |-> <<<<a, b>>>>, Dst |-> <<<<a>>>>, Ctx |-> <<>>, HasCtx |-> FALSE],
     [plural |-> TRUE, Src |-> <<<<b>>, <<b, b>>>>, Dst |-> <<<<a>>, <<b>>>>,
      Ctx |-> <<a>>, HasCtx |-> TRUE],
     [plural |-> TRUE, Src |-> <<<<a>>, <<b>>>>, Dst |-> <<>>, Ctx |-> <<>>, HasCtx |-> FALSE],
     [plural |-> TRUE, Src |-> <<<<b>>>>, Dst |-> <<<<a>>, <<b>>>>, Ctx |-> <<>>, HasCtx |-> FALSE]}

\* 201 and 202 are header keys, 211 to 213 plural forms, 221 another value.
MCHeaders ==
    {<<>>, 201 :> <<211>>, 201 :> <<212>>, 202 :> <<221>>, 201 :> <<213>>,
     (201 :> <<211>>) @@ (202 :> <<221>>), (201 :> <<212>>) @@ (202 :> <<221>>)}
=============================================================================
