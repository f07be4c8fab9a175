--------------------------- MODULE MCTemplateSet ---------------------------
EXTENDS TemplateSet, TLC

\* A template that calls another, two at once, one twice, one that fails to parse.
MCTexts ==
    {[delims |-> "default", ok |-> TRUE,
      defs |-> {[name |-> "a", funcs |-> {"f", "len"}, calls |-> {<<"b", 0>>}]}],
     [delims |-> "default", ok |-> TRUE,
      defs |-> {[name |-> "a", funcs |-> {}, calls |-> {}],
                [name |-> "b", funcs |-> {"esc"}, calls |-> {<<"b", 0>>}]}],
     [delims |-> "default", ok |-> TRUE,
      defs |-> {[name |-> "b", funcs |-> {}, calls |-> {}]}],
     [delims |-> "other", ok |-> FALSE, defs |-> {}]}

Symmetry == Permutations(Sets)
=============================================================================
