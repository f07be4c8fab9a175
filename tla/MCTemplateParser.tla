-------------------------- MODULE MCTemplateParser --------------------------
EXTENDS TemplateParser

Of(types) == [typ : types, val : {""}]
Str == [typ : {"string"}, val : DefNames]
Var == [typ : {"variable", "fieldvar"}, val : VarNames]

\* Definitions and the controls in them; one definition with pipelines.
Structure == Of(BlockTypes \cup {"define", "if", "else", "end", "template", "arg"}) \cup Str
Pipelines == Of({"define", "end", "range", "arg", ":=", ",", "pipe"}) \cup Str \cup Var
StructureAndPipelines ==
    [structure |-> [inside |-> Structure, text |-> {"text", "space"}, max |-> 14],
     pipelines |-> [inside |-> Pipelines, text |-> {}, max |-> 16]]
=============================================================================
