--------------------------- MODULE MCTemplateExec ---------------------------
(* Instances of TemplateExec.                                              *)
EXTENDS TemplateExec

OneTwo == <<"m", "s">>

\* Variables declared by actions and controls.
Scopes ==
    [ops |-> {"decl", "use", "if", "range", "else", "end", "template"},
     callees |-> {"s", "u"}, blocks |-> {},
     decls |-> {<<>>, <<"x">>, <<"y", "x">>}, callDecls |-> {<<>>},
     vars |-> {"x"}, uses |-> {"x", "y"}, items |-> 7, range |-> 2, depth |-> 3]

\* Blocks, fills and templates that invoke each other.
Fills ==
    [ops |-> {"block", "fill", "template", "end"},
     callees |-> {"m", "s"}, blocks |-> {"b"}, decls |-> {<<>>}, callDecls |-> {<<>>},
     vars |-> {}, uses |-> {}, items |-> 9, range |-> 0, depth |-> 4]

\* Variables declared by blocks and invocations, and "$" of the template they are in.
Blocks ==
    [ops |-> {"use", "block", "range", "template", "end"},
     callees |-> {"s"}, blocks |-> {"b"}, decls |-> {<<>>, <<"x">>}, callDecls |-> {<<>>, <<"x">>},
     vars |-> {}, uses |-> {"x", "$"}, items |-> 7, range |-> 2, depth |-> 3]

ScopesAndFills == [scopes |-> Scopes, fills |-> Fills, blocks |-> Blocks]
=============================================================================
