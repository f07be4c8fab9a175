--------------------------- MODULE MCPluralForms ---------------------------
(* Instances of PluralForms.                                               *)
EXTENDS PluralForms

MinusTwoHundred == -200

\* One operator of every level, and the rest of the syntax.
Syntax == {I(1), T("n"), T("*"), T("+"), T("=="), T("||"), T("&&"), T("!"), T("?"), T(":"),
           T("("), T(")")}

\* The expressions of the table.
N == T("n")
Mod(m, op, v) == <<N, T("%"), I(m), T(op), I(v)>>
N0(op, v) == <<N, T(op), I(v)>>
And == <<T("&&")>>
Or == <<T("||")>>
If == <<T("?")>>
Val(v) == <<I(v), T(":")>>
Paren(s) == <<T("(")>> \o s \o <<T(")")>>
OneNot == Mod(10, "==", 1) \o And \o Mod(100, "!=", 11)
NoTeen == Paren(Mod(100, "<", 10) \o Or \o Mod(100, ">=", 20))
TwoToFour == Mod(10, ">=", 2) \o And \o Mod(10, "<=", 4)
OneTwo == Val(1) \o <<I(2)>>

pluralFuncs == <<
    <<I(0)>>,
    N0("!=", 1),
    N0(">", 1),
    OneNot \o If \o Val(0) \o N0("!=", 0) \o If \o OneTwo,
    N0("==", 1) \o If \o Val(0) \o N0("==", 2) \o If \o OneTwo,
    N0("==", 1) \o If \o Val(0)
        \o Paren(N0("==", 0) \o Or \o Paren(Mod(100, ">", 0) \o And \o Mod(100, "<", 20)))
        \o If \o OneTwo,
    OneNot \o If \o Val(0) \o Mod(10, ">=", 2) \o And \o NoTeen \o If \o OneTwo,
    OneNot \o If \o Val(0) \o TwoToFour \o And \o NoTeen \o If \o OneTwo,
    Paren(N0("==", 1)) \o If \o Val(0) \o Paren(N0(">=", 2) \o And \o N0("<=", 4)) \o If \o OneTwo,
    N0("==", 1) \o If \o Val(0) \o TwoToFour \o And \o NoTeen \o If \o OneTwo,
    Mod(100, "==", 1) \o If \o Val(0) \o Mod(100, "==", 2) \o If \o Val(1)
        \o Mod(100, "==", 3) \o Or \o Mod(100, "==", 4) \o If \o Val(2) \o <<I(3)>> >>

NothingAndTable == {<<>>} \cup {pluralFuncs[f] : f \in DOMAIN pluralFuncs}

\* A function of the table is what its expression evaluates to, for every
\* amount: Parse may take the one for the other.
TableAgrees == PrecomputedAgrees(pluralFuncs)
=============================================================================
