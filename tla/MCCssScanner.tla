---------------------------- MODULE MCCssScanner ---------------------------
EXTENDS CssRegexp

AllOf(S, n) == UNION {[1..k -> S] : k \in 0..n}

\* Numbers and identifiers; strings; comments; URIs; characters of two bytes and
\* the byte order mark; operators; unicode ranges; line ends; escapes in names.
MCInputs ==
    <<AllOf({"a", "1", "-", ".", "%", "\\"}, 5),
      AllOf({"\"", "'", "\\", "\n", "a", " "}, 5),
      AllOf({"/", "*", "a", "\n"}, 6),
      {<<"u", "r", "l", "(">> \o s : s \in AllOf({")", "'", " ", "a"}, 4)},
      {FlattenSeq(s) : s \in AllOf({<<"B1", "B2">>, BOM, <<"a">>, <<"#">>, <<"@">>, <<"\n">>}, 4)},
      AllOf({"~", "=", "<", "!", "-", ">"}, 4),
      AllOf({"|", "^", "$", "*", "@", "=", "a"}, 3),
      AllOf({"U", "+", "?", "1", "-"}, 4),
      AllOf({"\r", "\n", "\f", "\t", ";"}, 3),
      AllOf({"#", "@", "a", "\\", "\n"}, 5)>>
=============================================================================
