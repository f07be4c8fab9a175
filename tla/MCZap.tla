------------------------------- MODULE MCZap -------------------------------
EXTENDS ZapLists, TLC

B1(list) == Block("b1", list)
B2(list) == Block("b2", list)

\* Bodies of roots and of children.  The texts tell them apart.
Roots == {<<Text("r1"), B1(<<Text("r2")>>), B2(<<Text("r3")>>)>>,
          <<Branch(<<B1(<<B2(<<Text("r4")>>), Text("r5")>>)>>, <<<<Text("r6")>>>>)>>}
Children == {<<B1(<<Text("c1"), B2(<<Text("c2")>>)>>)>>, <<B2(<<Text("c3"), B1(<<Text("c4")>>)>>)>>,
             <<B2(<<Text("c5")>>)>>, <<B1(<<Text("space")>>)>>}

Defs == [name : Names, parent : {NoParent}, list : Roots]
        \cup [name : Names, parent : Names, list : Children]

\* One definition, or two.
SmallTexts == {{}} \cup {{d} : d \in Defs}
              \cup {{d, e} : d \in [name : Names, parent : {NoParent}, list : Roots],
                             e \in [name : Names, parent : Names, list : Children]}
Distinct == {t \in SmallTexts : \A d, e \in t : d.name = e.name => d = e}

\* A control without {{else}}.
NoElse == {{[name |-> n, parent |-> NoParent, list |-> <<Branch(<<Text("r1")>>, <<>>)>>]} : n \in Names}

Texts12 == Distinct \cup NoElse

Symmetry == Permutations(Names)
=============================================================================
