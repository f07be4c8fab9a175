---------------------------- MODULE MCZapParser ----------------------------
EXTENDS ZapParser

Of(types) == [typ : types, val : {""}]
Str == [typ : {"string"}, val : DefNames]
Var == [typ : {"variable"}, val : VarNames]

\* Definitions, children and blocks; pipelines outside definitions.
StructureAndPipelines ==
    [structure |-> [inside |-> Of({"define", "block", "end"}) \cup Str,
                    text |-> {"text"}, max |-> 16, parens |-> FALSE],
     controls |-> [inside |-> Of({"if", "else", "end", "template", "arg"}) \cup Str,
                   text |-> {"text", "space"}, max |-> 11, parens |-> FALSE],
     pipelines |-> [inside |-> Of({"end", "range", "arg", ":=", "pipe"}) \cup Var,
                    text |-> {}, max |-> 10, parens |-> TRUE]]

=============================================================================
