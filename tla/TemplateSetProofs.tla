------------------------- MODULE TemplateSetProofs -------------------------
(***************************************************************************)
(* Proofs about TemplateSet, for any sets, names, functions, delimiters    *)
(* and texts.                                                              *)
(***************************************************************************)
EXTENDS TemplateSet, TLAPS

\* A set points to nodes it created itself.
OwnNodes == \A s \in Sets : \A n \in Names : tree[s][n] \in {NoNode, <<s, n>>}

\* The parser knows no function the executor does not.
ParserKnowsLess == \A s \in Sets : parseFuncs[s] \subseteq execFuncs[s]

\* The part of the type invariant about the templates.
TemplatesType ==
    /\ tree \in [Sets -> [Names -> (Sets \X Names) \cup {NoNode}]]
    /\ heap \in [Sets \X Names -> Body]

\* What each operation must keep of the templates.
TemplatesOK == TemplatesType /\ OwnNodes /\ FunctionsResolve /\ EscapedCallsResolve

\* A step leaves the tree of s and the nodes that s created alone.
SameTemplates(s) ==
    \A n \in Names : tree'[s][n] = tree[s][n] /\ heap'[<<s, n>>] = heap[<<s, n>>]

\* FunctionsResolve is inductive only together with what the parser checked the
\* functions against, and EscapedCallsResolve only if nodes are not shared.
IInv == TypeOK /\ OwnNodes /\ ParserKnowsLess /\ FunctionsResolve /\ EscapedCallsResolve

\* The node of a name that is defined has the address made of its set and name.
LEMMA OwnAddress ==
    ASSUME OwnNodes, NEW s \in Sets, NEW n \in Defined(s)
    PROVE  n \in Names /\ tree[s][n] = <<s, n>> /\ Node(s, n) = heap[<<s, n>>]
  BY DEF OwnNodes, Defined, Node

\* Tree.Add of definitions whose functions the parser found keeps the templates of
\* every set in order.
LEMMA AddKeeps ==
    ASSUME TemplatesOK, NEW s \in Sets, NEW D \in SUBSET Definition, Add(s, D),
           \A d \in D : d.funcs \subseteq Builtins \cup execFuncs[s],
           UNCHANGED execFuncs
    PROVE  /\ TemplatesOK'
           /\ \A v \in Sets : v # s => SameTemplates(v)
           /\ \A n \in Defined(s) : (\A d \in D : Plain(d.name) # n) => Node(s, n)' = Node(s, n)
  <1> DEFINE isNew(n) == \E d \in D : Plain(d.name) = n
             new(n) == CHOOSE d \in D : Plain(d.name) = n
             node(n) == [funcs |-> new(n).funcs, calls |-> new(n).calls, escaped |-> FALSE]
  <1>1. tree' = [tree EXCEPT ![s] = [n \in Names |-> IF isNew(n) THEN <<s, n>> ELSE tree[s][n]]]
    BY DEF Add
  <1>2. heap' = [a \in DOMAIN heap |-> IF a[1] = s /\ isNew(a[2]) THEN node(a[2]) ELSE heap[a]]
    BY DEF Add
  <1>3. \A n : isNew(n) => new(n) \in D
    OBVIOUS
  <1>4. \A n : isNew(n) => node(n) \in Body
    BY <1>3 DEF Definition, Body
  <1> HIDE DEF isNew, node
  <1>5. heap \in [Sets \X Names -> Body] /\ tree \in [Sets -> [Names -> (Sets \X Names) \cup {NoNode}]]
    BY DEF TemplatesOK, TemplatesType
  <1>6. TemplatesType'
    <2>1. heap' \in [Sets \X Names -> Body]
      BY <1>2, <1>4, <1>5
    <2>2. tree' \in [Sets -> [Names -> (Sets \X Names) \cup {NoNode}]]
      BY <1>1, <1>5
    <2> QED  BY <2>1, <2>2 DEF TemplatesType
  <1>7. \A t \in Sets : \A n \in Names :
           tree'[t][n] = IF t = s /\ isNew(n) THEN <<t, n>> ELSE tree[t][n]
    BY <1>1, <1>5
  <1>8. OwnNodes'
    BY Zenon, <1>7 DEF OwnNodes, TemplatesOK
  <1>9. ASSUME NEW t \in Sets, NEW n \in Defined(t)'
        PROVE  \/ t = s /\ isNew(n) /\ Node(t, n)' = node(n)
               \/ n \in Defined(t) /\ Node(t, n)' = Node(t, n)
    <2>1. n \in Names /\ tree'[t][n] = <<t, n>> /\ Node(t, n)' = heap'[<<t, n>>]
      BY <1>8, <1>9 DEF OwnNodes, Defined, Node
    <2>2. heap'[<<t, n>>] = IF t = s /\ isNew(n) THEN node(n) ELSE heap[<<t, n>>]
      BY <2>1, <1>2, <1>5
    <2>3. CASE t = s /\ isNew(n)
      BY <2>1, <2>2, <2>3
    <2>4. CASE ~(t = s /\ isNew(n))
      <3>1. tree[t][n] = <<t, n>>
        BY <2>1, <2>4, <1>7
      <3>2. n \in Defined(t) /\ Node(t, n) = heap[<<t, n>>]
        BY <3>1, <2>1, <1>9 DEF Defined, Node
      <3> QED  BY <3>2, <2>1, <2>2, <2>4
    <2> QED  BY <2>3, <2>4
  <1>10. \A t \in Sets : Defined(t) \subseteq Defined(t)'
    <2> SUFFICES ASSUME NEW t \in Sets, NEW n \in Defined(t) PROVE n \in Defined(t)'
      OBVIOUS
    <2>1. n \in Names /\ tree[t][n] # NoNode
      BY DEF Defined
    <2>2. <<t, n>> # NoNode
      BY <2>1, NoNodeAssumption
    <2> QED  BY Zenon, <2>1, <2>2, <1>7 DEF Defined
  <1>11. FunctionsResolve'
    <2> SUFFICES ASSUME NEW t \in Sets, NEW n \in Defined(t)'
                 PROVE  Node(t, n)'.funcs \subseteq Builtins \cup execFuncs[t]
      BY DEF FunctionsResolve
    <2>1. CASE t = s /\ isNew(n) /\ Node(t, n)' = node(n)
      <3>1. node(n).funcs = new(n).funcs
        BY DEF node
      <3> QED  BY <2>1, <3>1, <1>3 DEF isNew
    <2>2. CASE n \in Defined(t) /\ Node(t, n)' = Node(t, n)
      BY <2>2 DEF TemplatesOK, FunctionsResolve
    <2> QED  BY <1>9, <2>1, <2>2
  <1>12. EscapedCallsResolve'
    <2> SUFFICES ASSUME NEW t \in Sets, NEW n \in Defined(t)', Node(t, n)'.escaped
                 PROVE  Node(t, n)'.calls \subseteq Defined(t)'
      BY DEF EscapedCallsResolve
    <2>1. CASE t = s /\ isNew(n) /\ Node(t, n)' = node(n)
      BY <2>1 DEF node
    <2>2. CASE n \in Defined(t) /\ Node(t, n)' = Node(t, n)
      <3>1. Node(t, n).calls \subseteq Defined(t)
        BY <2>2 DEF TemplatesOK, EscapedCallsResolve
      <3> QED  BY <3>1, <2>2, <1>10
    <2> QED  BY <1>9, <2>1, <2>2
  <1>13. \A v \in Sets : v # s => SameTemplates(v)
    <2> SUFFICES ASSUME NEW v \in Sets, v # s, NEW n \in Names
                 PROVE  tree'[v][n] = tree[v][n] /\ heap'[<<v, n>>] = heap[<<v, n>>]
      BY DEF SameTemplates
    <2> QED  BY <1>2, <1>5, <1>7
  <1>14. \A n \in Defined(s) : (\A d \in D : Plain(d.name) # n) => Node(s, n)' = Node(s, n)
    <2> SUFFICES ASSUME NEW n \in Defined(s), \A d \in D : Plain(d.name) # n
                 PROVE  Node(s, n)' = Node(s, n)
      OBVIOUS
    <2>1. ~isNew(n)
      BY DEF isNew
    <2> QED  BY <2>1, <1>9, <1>10
  <1> QED  BY <1>6, <1>8, <1>11, <1>12, <1>13, <1>14 DEF TemplatesOK

\* Tree.CopyTree into a set that takes over the functions as well keeps the
\* templates of every set in order.
LEMMA CopyKeeps ==
    ASSUME TemplatesOK, NEW s \in Sets, NEW t \in Sets, s # t, CopyTree(s, t),
           execFuncs \in [Sets -> SUBSET Funcs],
           execFuncs' = [execFuncs EXCEPT ![t] = execFuncs[s]]
    PROVE  TemplatesOK' /\ \A v \in Sets : v # t => SameTemplates(v)
  <1>1. heap \in [Sets \X Names -> Body] /\ tree \in [Sets -> [Names -> (Sets \X Names) \cup {NoNode}]]
    BY DEF TemplatesOK, TemplatesType
  <1>2. \A u \in Sets : \A n \in Names :
           tree'[u][n] = IF u # t THEN tree[u][n]
                         ELSE IF tree[s][n] = NoNode THEN NoNode ELSE <<t, n>>
    BY <1>1 DEF CopyTree
  <1>3. \A u \in Sets : \A n \in Names :
           heap'[<<u, n>>] = IF u # t THEN heap[<<u, n>>]
                             ELSE IF tree[s][n] = NoNode THEN Blank ELSE Node(s, n)
    BY <1>1 DEF CopyTree
  <1>4. \A n \in Names : tree[s][n] # NoNode => Node(s, n) = heap[<<s, n>>]
    BY DEF TemplatesOK, OwnNodes, Node
  <1>5. TemplatesType'
    <2>1. Blank \in Body
      BY DEF Blank, Body
    <2>2. heap' = [a \in Sets \X Names |->
                     IF a[1] = t THEN IF tree[s][a[2]] = NoNode THEN Blank ELSE Node(s, a[2])
                     ELSE heap[a]]
      BY <1>1 DEF CopyTree
    <2>3. heap' \in [Sets \X Names -> Body]
      BY Zenon, <1>1, <1>4, <2>1, <2>2
    <2>4. tree' \in [Sets -> [Names -> (Sets \X Names) \cup {NoNode}]]
      BY <1>1 DEF CopyTree
    <2> QED  BY Zenon, <2>3, <2>4 DEF TemplatesType
  <1>6. OwnNodes'
    <2>1. ASSUME NEW u \in Sets, NEW n \in Names PROVE tree'[u][n] \in {NoNode, <<u, n>>}
      <3>1. CASE u = t
        BY Zenon, <1>2, <3>1
      <3>2. CASE u # t
        BY Zenon, <1>2, <3>2 DEF OwnNodes, TemplatesOK
      <3> QED  BY <3>1, <3>2
    <2> QED  BY Zenon, <2>1 DEF OwnNodes
  <1>7. ASSUME NEW u \in Sets, NEW n \in Defined(u)'
        PROVE  \/ u # t /\ n \in Defined(u) /\ Node(u, n)' = Node(u, n)
               \/ u = t /\ n \in Defined(s) /\ Node(u, n)' = Node(s, n)
    <2>1. n \in Names /\ tree'[u][n] # NoNode
      BY <1>7 DEF Defined
    <2>2. Node(u, n)' = heap'[<<u, n>>]
      BY <2>1, <1>6 DEF OwnNodes, Node
    <2>3. CASE u # t
      <3>1. tree[u][n] # NoNode
        BY Zenon, <2>1, <2>3, <1>2
      <3>2. n \in Defined(u) /\ Node(u, n) = heap[<<u, n>>]
        BY <3>1, <2>1 DEF Defined, Node, TemplatesOK, OwnNodes
      <3> QED  BY <3>2, <2>1, <2>2, <2>3, <1>3
    <2>4. CASE u = t
      <3>1. tree[s][n] # NoNode
        BY Zenon, <2>1, <2>4, <1>2
      <3> QED  BY <3>1, <2>1, <2>2, <2>4, <1>3 DEF Defined
    <2> QED  BY <2>3, <2>4
  <1>8. (\A u \in Sets : u # t => Defined(u)' = Defined(u)) /\ Defined(t)' = Defined(s)
    <2>1. ASSUME NEW u \in Sets, u # t PROVE Defined(u)' = Defined(u)
      BY Zenon, <1>2, <2>1 DEF Defined
    <2>2. \A n \in Names : <<t, n>> # NoNode
      BY NoNodeAssumption
    <2>3. Defined(t)' = Defined(s)
      BY Zenon, <1>2, <2>2 DEF Defined
    <2> QED  BY <2>1, <2>3
  <1>9. FunctionsResolve'
    <2> SUFFICES ASSUME NEW u \in Sets, NEW n \in Defined(u)'
                 PROVE  Node(u, n)'.funcs \subseteq Builtins \cup execFuncs'[u]
      BY DEF FunctionsResolve
    <2>1. CASE u # t /\ n \in Defined(u) /\ Node(u, n)' = Node(u, n)
      BY <2>1 DEF TemplatesOK, FunctionsResolve
    <2>2. CASE u = t /\ n \in Defined(s) /\ Node(u, n)' = Node(s, n)
      BY <2>2 DEF TemplatesOK, FunctionsResolve
    <2> QED  BY <1>7, <2>1, <2>2
  <1>10. EscapedCallsResolve'
    <2> SUFFICES ASSUME NEW u \in Sets, NEW n \in Defined(u)', Node(u, n)'.escaped
                 PROVE  Node(u, n)'.calls \subseteq Defined(u)'
      BY DEF EscapedCallsResolve
    <2>1. CASE u # t /\ n \in Defined(u) /\ Node(u, n)' = Node(u, n)
      BY <2>1, <1>8 DEF TemplatesOK, EscapedCallsResolve
    <2>2. CASE u = t /\ n \in Defined(s) /\ Node(u, n)' = Node(s, n)
      BY <2>2, <1>8 DEF TemplatesOK, EscapedCallsResolve
    <2> QED  BY <1>7, <2>1, <2>2
  <1>11. \A v \in Sets : v # t => SameTemplates(v)
    BY Zenon, <1>2, <1>3 DEF SameTemplates
  <1> QED  BY <1>5, <1>6, <1>9, <1>10, <1>11 DEF TemplatesOK

\* An escape that fails leaves no template in its set and the others alone.
LEMMA FailKeeps ==
    ASSUME TemplatesOK, NEW s \in Sets, EscapeTreeFails(s),
           execFuncs \in [Sets -> SUBSET Funcs],
           execFuncs' = [execFuncs EXCEPT ![s] = @ \cup EscFuncs]
    PROVE  TemplatesOK' /\ Defined(s)' = {} /\ \A v \in Sets : v # s => SameTemplates(v)
  <1>1. heap \in [Sets \X Names -> Body] /\ tree \in [Sets -> [Names -> (Sets \X Names) \cup {NoNode}]]
    BY DEF TemplatesOK, TemplatesType
  <1>2. \A u \in Sets : \A n \in Names : tree'[u][n] = IF u = s THEN NoNode ELSE tree[u][n]
    BY <1>1 DEF EscapeTreeFails
  <1>3. \A u \in Sets : \A n \in Names : u # s => heap'[<<u, n>>] = heap[<<u, n>>]
    BY <1>1 DEF EscapeTreeFails
  <1>4. TemplatesType'
    <2>1. Blank \in Body
      BY DEF Blank, Body
    <2> QED  BY <1>1, <2>1 DEF EscapeTreeFails, TemplatesType
  <1>5. OwnNodes'
    BY <1>2 DEF OwnNodes, TemplatesOK
  <1>6. ASSUME NEW u \in Sets, NEW n \in Defined(u)'
        PROVE  u # s /\ n \in Defined(u) /\ Node(u, n)' = Node(u, n)
    <2>1. n \in Names /\ tree'[u][n] # NoNode
      BY <1>6 DEF Defined
    <2>2. u # s /\ tree[u][n] # NoNode
      BY <2>1, <1>2
    <2>3. n \in Defined(u) /\ Node(u, n) = heap[<<u, n>>] /\ Node(u, n)' = heap'[<<u, n>>]
      BY <2>1, <2>2, <1>5 DEF Defined, Node, TemplatesOK, OwnNodes
    <2> QED  BY <2>1, <2>2, <2>3, <1>3
  <1>7. \A u \in Sets : u # s => Defined(u)' = Defined(u)
    BY <1>2 DEF Defined
  <1>8. FunctionsResolve'
    <2> SUFFICES ASSUME NEW u \in Sets, NEW n \in Defined(u)'
                 PROVE  Node(u, n)'.funcs \subseteq Builtins \cup execFuncs'[u]
      BY DEF FunctionsResolve
    <2> QED  BY <1>6 DEF TemplatesOK, FunctionsResolve
  <1>9. EscapedCallsResolve'
    <2> SUFFICES ASSUME NEW u \in Sets, NEW n \in Defined(u)', Node(u, n)'.escaped
                 PROVE  Node(u, n)'.calls \subseteq Defined(u)'
      BY DEF EscapedCallsResolve
    <2> QED  BY <1>6, <1>7 DEF TemplatesOK, EscapedCallsResolve
  <1>10. Defined(s)' = {} /\ \A v \in Sets : v # s => SameTemplates(v)
    BY <1>2, <1>3 DEF SameTemplates, Defined
  <1> QED  BY <1>4, <1>5, <1>8, <1>9, <1>10 DEF TemplatesOK

\* An escape that succeeds keeps the templates of every set in order: the calls it
\* rewrites name templates it derives or finds.
LEMMA EscapeKeeps ==
    ASSUME TemplatesOK, NEW s \in Sets, EscapeTree(s),
           execFuncs \in [Sets -> SUBSET Funcs],
           execFuncs' = [execFuncs EXCEPT ![s] = @ \cup EscFuncs]
    PROVE  /\ TemplatesOK'
           /\ \A v \in Sets : v # s => SameTemplates(v)
           /\ \A n \in Defined(s) : Node(s, n)'.escaped
  <1> DEFINE dom == Defined(s)
             called == UNION {Node(s, n).calls : n \in dom}
  <1>1. heap \in [Sets \X Names -> Body] /\ tree \in [Sets -> [Names -> (Sets \X Names) \cup {NoNode}]]
    BY DEF TemplatesOK, TemplatesType
  <1>2. called \subseteq dom /\ \A n \in called : n[2] < MaxMangle
    BY Zenon DEF EscapeTree
  <1>3. PICK derived \in SUBSET {mangle(n) : n \in called} :
          \E inNonText \in [dom \cup derived -> SUBSET called] :
             LET all == dom \cup derived
                 targets == {mangle(c) : c \in UNION {inNonText[n] : n \in all}}
             IN
             /\ \A n \in all : inNonText[n] \subseteq Source(s, n).calls
             /\ derived \subseteq targets
             /\ targets \subseteq all
             /\ tree' = [tree EXCEPT ![s] =
                           [n \in Names |-> IF n \in derived \ dom THEN <<s, n>> ELSE tree[s][n]]]
             /\ heap' = [a \in DOMAIN heap |->
                           IF \E n \in all : a = tree'[s][n]
                           THEN LET n == CHOOSE m \in all : a = tree'[s][m]
                                    src == Source(s, n)
                                IN [funcs |-> src.funcs \cup EscFuncs,
                                    calls |-> (src.calls \ inNonText[n])
                                                 \cup {mangle(c) : c \in inNonText[n]},
                                    escaped |-> TRUE]
                           ELSE heap[a]]
    BY ZenonT(60) DEF EscapeTree
  <1> DEFINE all == dom \cup derived
  <1>4. PICK inNonText \in [all -> SUBSET called] :
          /\ {mangle(c) : c \in UNION {inNonText[n] : n \in all}} \subseteq all
          /\ tree' = [tree EXCEPT ![s] =
                        [n \in Names |-> IF n \in derived \ dom THEN <<s, n>> ELSE tree[s][n]]]
          /\ heap' = [a \in DOMAIN heap |->
                        IF \E n \in all : a = tree'[s][n]
                        THEN LET n == CHOOSE m \in all : a = tree'[s][m]
                                 src == Source(s, n)
                             IN [funcs |-> src.funcs \cup EscFuncs,
                                 calls |-> (src.calls \ inNonText[n])
                                              \cup {mangle(c) : c \in inNonText[n]},
                                 escaped |-> TRUE]
                        ELSE heap[a]]
    BY ZenonT(60), <1>3
  <1> DEFINE edited(n) == [funcs |-> Source(s, n).funcs \cup EscFuncs,
                           calls |-> (Source(s, n).calls \ inNonText[n])
                                        \cup {mangle(c) : c \in inNonText[n]},
                           escaped |-> TRUE]
  <1>5. \A c \in called : c \in Names /\ mangle(c) \in Names /\ unmangle(mangle(c)) = c
    <2> TAKE c \in called
    <2>1. c \in Names
      BY <1>2 DEF Defined
    <2>2. PICK b \in BaseNames, i \in 0..MaxMangle : c = <<b, i>>
      BY <2>1 DEF Names
    <2>3. i < MaxMangle
      BY <1>2, <2>2
    <2>4. i + 1 \in 0..MaxMangle /\ (i + 1) - 1 = i
      BY <2>3, BoundsAssumption
    <2>5. mangle(c) = <<b, i + 1>> /\ unmangle(mangle(c)) = <<b, (i + 1) - 1>>
      BY <2>2 DEF mangle, unmangle
    <2>6. mangle(c) \in Names
      BY <2>4, <2>5 DEF Names
    <2> QED  BY <2>1, <2>2, <2>4, <2>5, <2>6
  <1>6. dom \subseteq Names /\ all \subseteq Names
    BY <1>5 DEF Defined
  <1>7. \A n \in all : \E m \in dom : Source(s, n) = Node(s, m)
    <2> TAKE n \in all
    <2>1. CASE n \in dom
      BY <2>1 DEF Source
    <2>2. CASE n \notin dom
      <3>1. PICK c \in called : n = mangle(c)
        BY Zenon, <2>2
      <3>2. unmangle(n) = c /\ c \in dom
        BY <3>1, <1>5, <1>2
      <3> QED  BY ZenonT(60), <3>2, <2>2 DEF Source
    <2> QED  BY <2>1, <2>2
  <1>8. \A m \in dom : m \in Names /\ Node(s, m) = heap[<<s, m>>] /\ Node(s, m) \in Body
    <2> TAKE m \in dom
    <2>1. m \in Names /\ Node(s, m) = heap[<<s, m>>]
      BY OwnAddress DEF TemplatesOK
    <2> QED  BY Zenon, <2>1, <1>1
  <1>9. \A m \in dom : Node(s, m).calls \subseteq called
    OBVIOUS
  <1> HIDE DEF dom, called, all
  <1>10. \A n \in all : edited(n) \in Body
    <2> TAKE n \in all
    <2>1. PICK m \in dom : Source(s, n) = Node(s, m)
      BY <1>7
    <2>2. Source(s, n).funcs \in SUBSET Funcs /\ Source(s, n).calls \in SUBSET Names
      BY Zenon, <2>1, <1>8 DEF Body
    <2>3. {mangle(c) : c \in inNonText[n]} \subseteq Names
      BY Zenon, <1>4, <1>5
    <2> QED  BY <2>2, <2>3 DEF Body, Funcs
  <1>11. \A u \in Sets : \A n \in Names :
            tree'[u][n] = IF u = s /\ n \in derived \ dom THEN <<u, n>> ELSE tree[u][n]
    BY Zenon, <1>1, <1>4
  <1>12. OwnNodes'
    BY Zenon, <1>11 DEF OwnNodes, TemplatesOK
  <1>13. \A n \in all : n \in Names /\ tree'[s][n] = <<s, n>>
    <2> TAKE n \in all
    <2>1. n \in Names
      BY <1>6
    <2>2. CASE n \in dom
      <3>1. tree[s][n] = <<s, n>>
        BY Zenon, <2>2, OwnAddress DEF dom, TemplatesOK
      <3> QED  BY Zenon, <3>1, <2>1, <1>11
    <2>3. CASE n \notin dom
      BY Zenon, <2>1, <2>3, <1>11 DEF all
    <2> QED  BY <2>1, <2>2, <2>3
  <1>14. \A n \in all : (CHOOSE m \in all : <<s, n>> = tree'[s][m]) = n
    <2> TAKE n \in all
    <2>1. \A m \in all : <<s, n>> = tree'[s][m] <=> m = n
      BY <1>13
    <2> QED  BY <2>1
  <1>15. \A n \in all : heap'[<<s, n>>] = edited(n)
    <2> TAKE n \in all
    <2>1. <<s, n>> \in DOMAIN heap /\ <<s, n>> = tree'[s][n]
      BY Zenon, <1>1, <1>13
    <2> QED  BY ZenonT(60), <2>1, <1>4, <1>14
  <1>16. \A a \in Sets \X Names : (a[1] # s \/ a[2] \notin all) => heap'[a] = heap[a]
    <2> SUFFICES ASSUME NEW a \in Sets \X Names, a[1] # s \/ a[2] \notin all PROVE heap'[a] = heap[a]
      OBVIOUS
    <2>1. ~ \E n \in all : a = tree'[s][n]
      BY <1>13
    <2>2. a \in DOMAIN heap
      BY Zenon, <1>1
    <2> QED  BY ZenonT(60), <2>1, <2>2, <1>4
  <1>17. TemplatesType'
    <2>1. DOMAIN heap' = Sets \X Names
      BY Zenon, <1>1, <1>4
    <2>2. \A a \in Sets \X Names : heap'[a] \in Body
      <3> TAKE a \in Sets \X Names
      <3>1. CASE a[1] = s /\ a[2] \in all
        <4>1. a = <<s, a[2]>>
          BY <3>1
        <4> QED  BY ZenonT(60), <4>1, <3>1, <1>15, <1>10
      <3>2. CASE ~(a[1] = s /\ a[2] \in all)
        BY Zenon, <3>2, <1>16, <1>1
      <3> QED  BY <3>1, <3>2
    <2>3. heap' = [a \in DOMAIN heap' |-> heap'[a]]
      BY Zenon, <1>4
    <2>4. tree' \in [Sets -> [Names -> (Sets \X Names) \cup {NoNode}]]
      BY ZenonT(60), <1>1, <1>4
    <2> QED  BY Zenon, <2>1, <2>2, <2>3, <2>4 DEF TemplatesType
  <1>18. Defined(s)' = all /\ \A u \in Sets : u # s => Defined(u)' = Defined(u)
    <2>1. \A n \in Names : <<s, n>> # NoNode
      BY NoNodeAssumption
    <2>2. \A n \in Names : n \notin all => tree'[s][n] = NoNode
      BY Zenon, <1>11 DEF all, dom, Defined
    <2>3. Defined(s)' = all
      BY Zenon, <2>1, <2>2, <1>13 DEF Defined
    <2>4. ASSUME NEW u \in Sets, u # s PROVE Defined(u)' = Defined(u)
      BY ZenonT(60), <2>4, <1>11 DEF Defined
    <2> QED  BY <2>3, <2>4
  <1>19. ASSUME NEW u \in Sets, NEW n \in Defined(u)'
         PROVE  \/ u = s /\ n \in all /\ Node(u, n)' = edited(n)
                \/ u # s /\ n \in Defined(u) /\ Node(u, n)' = Node(u, n)
    <2>1. n \in Names /\ Node(u, n)' = heap'[<<u, n>>]
      BY Zenon, <1>12, <1>19 DEF OwnNodes, Defined, Node
    <2>2. CASE u = s
      BY Zenon, <2>1, <2>2, <1>15, <1>18, <1>19
    <2>3. CASE u # s
      <3>1. n \in Defined(u) /\ Node(u, n) = heap[<<u, n>>]
        BY <2>3, <1>18, <1>19, OwnAddress DEF TemplatesOK
      <3>2. heap'[<<u, n>>] = heap[<<u, n>>]
        BY Zenon, <2>1, <2>3, <1>16
      <3> QED  BY ZenonT(60), <2>1, <2>3, <3>1, <3>2
    <2> QED  BY ZenonT(60), <2>2, <2>3
  <1>20. FunctionsResolve'
    <2> SUFFICES ASSUME NEW u \in Sets, NEW n \in Defined(u)'
                 PROVE  Node(u, n)'.funcs \subseteq Builtins \cup execFuncs'[u]
      BY Zenon DEF FunctionsResolve
    <2>1. CASE u = s /\ n \in all /\ Node(u, n)' = edited(n)
      <3>1. PICK m \in dom : Source(s, n) = Node(s, m)
        BY Zenon, <2>1, <1>7
      <3>2. Node(s, m).funcs \subseteq Builtins \cup execFuncs[s]
        BY Zenon, <3>1 DEF dom, TemplatesOK, FunctionsResolve
      <3>3. execFuncs'[u] = execFuncs[s] \cup EscFuncs
        BY ZenonT(60), <2>1
      <3>4. edited(n).funcs = Source(s, n).funcs \cup EscFuncs
        BY Zenon
      <3> HIDE DEF edited
      <3>5. Node(u, n)'.funcs = Source(s, n).funcs \cup EscFuncs
        BY Zenon, <2>1, <3>4
      <3> QED  BY ZenonT(60), <3>1, <3>2, <3>3, <3>5
    <2>2. CASE u # s /\ n \in Defined(u) /\ Node(u, n)' = Node(u, n)
      BY Zenon, <2>2 DEF TemplatesOK, FunctionsResolve
    <2> QED  BY Zenon, <1>19, <2>1, <2>2
  <1>21. EscapedCallsResolve'
    <2> SUFFICES ASSUME NEW u \in Sets, NEW n \in Defined(u)', Node(u, n)'.escaped
                 PROVE  Node(u, n)'.calls \subseteq Defined(u)'
      BY Zenon DEF EscapedCallsResolve
    <2>1. CASE u = s /\ n \in all /\ Node(u, n)' = edited(n)
      <3>1. PICK m \in dom : Source(s, n) = Node(s, m)
        BY Zenon, <2>1, <1>7
      <3>2. Source(s, n).calls \subseteq all
        BY Zenon, <3>1, <1>9, <1>2 DEF all
      <3>3. {mangle(c) : c \in inNonText[n]} \subseteq all
        BY Zenon, <2>1, <1>4
      <3>4. edited(n).calls = (Source(s, n).calls \ inNonText[n]) \cup {mangle(c) : c \in inNonText[n]}
        BY Zenon
      <3>5. edited(n).calls \subseteq all
        BY Zenon, <3>2, <3>3, <3>4
      <3> HIDE DEF edited
      <3> QED  BY Zenon, <2>1, <3>5, <1>18
    <2>2. CASE u # s /\ n \in Defined(u) /\ Node(u, n)' = Node(u, n)
      BY Zenon, <2>2, <1>18 DEF TemplatesOK, EscapedCallsResolve
    <2> QED  BY Zenon, <1>19, <2>1, <2>2
  <1>22. \A v \in Sets : v # s => SameTemplates(v)
    <2> SUFFICES ASSUME NEW v \in Sets, v # s, NEW n \in Names
                 PROVE  tree'[v][n] = tree[v][n] /\ heap'[<<v, n>>] = heap[<<v, n>>]
      BY Zenon DEF SameTemplates
    <2> QED  BY Zenon, <1>11, <1>16
  <1>23. \A n \in Defined(s) : Node(s, n)'.escaped
    <2> TAKE n \in Defined(s)
    <2>1. n \in all
      BY Zenon DEF all, dom
    <2>2. Node(s, n)' = edited(n)
      BY Zenon, <2>1, <1>18, <1>19
    <2> QED  BY <2>2
  <1> QED  BY Zenon, <1>12, <1>17, <1>20, <1>21, <1>22, <1>23 DEF TemplatesOK

\* IInv is made of what is said of the templates and of the function maps.
LEMMA IInvParts ==
    IInv <=> /\ TemplatesOK
             /\ ParserKnowsLess
             /\ made \in SUBSET Sets
             /\ delims \in [Sets -> Delimiters]
             /\ parseFuncs \in [Sets -> SUBSET Funcs]
             /\ execFuncs \in [Sets -> SUBSET Funcs]
             /\ todo \in [Sets -> Seq(Texts \cup {Unreadable})]
  BY DEF IInv, TypeOK, TemplatesOK, TemplatesType

\* Set.parse of a text, whether it fails or not, keeps the templates in order.
LEMMA ParseKeeps ==
    ASSUME IInv, NEW s \in Sets, NEW text \in Texts, NEW failed \in BOOLEAN,
           parse(s, text, failed), UNCHANGED execFuncs
    PROVE  /\ TemplatesOK'
           /\ \A v \in Sets : v # s => SameTemplates(v)
           /\ \A n \in Defined(s) : Node(s, n)' = Node(s, n)
  <1>1. TemplatesOK /\ ParserKnowsLess
    BY Zenon, IInvParts
  <1>2. CASE UNCHANGED <<tree, heap>>
    BY Zenon, <1>1, <1>2 DEF TemplatesOK, TemplatesType, OwnNodes, FunctionsResolve,
                      EscapedCallsResolve, Defined, Node, SameTemplates
  <1>3. CASE Parses(s, text) /\ AddTree(s, Found(s, text), failed)
    <2>1. PICK D \in SUBSET Found(s, text) : Add(s, D) /\ \A d \in D : Plain(d.name) \notin Defined(s)
      BY <1>3 DEF AddTree
    <2>2. D \in SUBSET Definition
      BY Zenon, <2>1, TextsAssumption DEF Found
    <2>3. \A d \in D : d.funcs \subseteq Builtins \cup execFuncs[s]
      BY Zenon, <1>1, <1>3, <2>1 DEF Parses, ParserKnowsLess
    <2> QED  BY Zenon, <1>1, <2>1, <2>2, <2>3, AddKeeps
  <1> QED  BY <1>2, <1>3 DEF parse

\* Steps that leave the templates alone and take no function from the executor
\* keep the templates in order.
LEMMA FuncsKeep ==
    ASSUME TemplatesOK, UNCHANGED <<tree, heap>>, \A s \in Sets : execFuncs[s] \subseteq execFuncs'[s]
    PROVE  TemplatesOK'
  BY ZenonT(60) DEF TemplatesOK, TemplatesType, OwnNodes, FunctionsResolve, EscapedCallsResolve,
         Defined, Node

\* The invariant holds of the sets that new(Set) makes.
LEMMA InitIInv == Init => IInv
  <1> SUFFICES ASSUME Init PROVE IInv
    BY Zenon
  <1>1. Blank \in Body
    BY Zenon DEF Blank, Body
  <1>2. TypeOK
    BY <1>1, DelimsAssumption DEF Init, TypeOK
  <1>3. \A s \in Sets : Defined(s) = {}
    BY DEF Init, Defined
  <1>4. FunctionsResolve /\ EscapedCallsResolve
    BY <1>3 DEF FunctionsResolve, EscapedCallsResolve
  <1>5. OwnNodes /\ ParserKnowsLess
    BY DEF Init, OwnNodes, ParserKnowsLess
  <1> QED  BY <1>2, <1>4, <1>5 DEF IInv

\* Every method of Set keeps the invariant.
LEMMA NextIInv == IInv /\ [Next]_vars => IInv'
  <1> SUFFICES ASSUME IInv, [Next]_vars PROVE IInv'
    OBVIOUS
  <1>a. /\ TemplatesOK
        /\ ParserKnowsLess
        /\ made \in SUBSET Sets
        /\ delims \in [Sets -> Delimiters]
        /\ parseFuncs \in [Sets -> SUBSET Funcs]
        /\ execFuncs \in [Sets -> SUBSET Funcs]
        /\ todo \in [Sets -> Seq(Texts \cup {Unreadable})]
    BY IInvParts
  <1>b. ASSUME TemplatesOK', ParserKnowsLess',
               (made \in SUBSET Sets)', (delims \in [Sets -> Delimiters])',
               (parseFuncs \in [Sets -> SUBSET Funcs])', (execFuncs \in [Sets -> SUBSET Funcs])',
               (todo \in [Sets -> Seq(Texts \cup {Unreadable})])'
        PROVE  IInv'
    BY <1>b DEF IInv, TypeOK, TemplatesOK, TemplatesType
  <1>1. ASSUME NEW s \in Sets, NewSet(s) PROVE IInv'
    <2>1. TemplatesOK'
      BY <1>1, <1>a, FuncsKeep DEF NewSet
    <2> QED  BY <1>1, <1>a, <1>b, <2>1 DEF NewSet, ParserKnowsLess
  <1>2. ASSUME NEW s \in Sets, NEW d \in Delimiters, Delims(s, d) PROVE IInv'
    <2>1. TemplatesOK'
      BY <1>2, <1>a, FuncsKeep DEF Delims
    <2> QED  BY <1>2, <1>a, <1>b, <2>1 DEF Delims, ParserKnowsLess
  <1>3. ASSUME NEW s \in Sets, NEW F \in SUBSET UserFuncs, NEW bad \in SUBSET F, SetFuncs(s, F, bad)
        PROVE  IInv'
    <2>1. PICK done \in SUBSET (F \ bad) :
             (bad = {} => done = F) /\ execFuncs' = [execFuncs EXCEPT ![s] = @ \cup done]
      BY ZenonT(60), <1>3 DEF SetFuncs, AddValueFuncs
    <2>2. done \in SUBSET Funcs /\ F \in SUBSET Funcs
      BY Zenon, <2>1 DEF Funcs
    <2>3. TemplatesOK'
      <3>1. \A t \in Sets : execFuncs[t] \subseteq execFuncs'[t]
        BY <1>a, <2>1
      <3> QED  BY Zenon, <1>3, <1>a, <3>1, FuncsKeep DEF SetFuncs
    <2>4. execFuncs' \in [Sets -> SUBSET Funcs]
      BY <1>a, <2>1, <2>2
    <2>5. parseFuncs' \in [Sets -> SUBSET Funcs]
      BY <1>3, <1>a, <2>2 DEF SetFuncs
    <2>6. ParserKnowsLess'
      <3>1. CASE bad = {}
        BY <1>3, <1>a, <2>1, <3>1 DEF SetFuncs, ParserKnowsLess
      <3>2. CASE bad # {}
        BY <1>3, <1>a, <2>1, <3>2 DEF SetFuncs, ParserKnowsLess
      <3> QED  BY <3>1, <3>2
    <2> QED  BY <1>3, <1>a, <1>b, <2>3, <2>4, <2>5, <2>6 DEF SetFuncs
  <1>4. ASSUME NEW s \in Sets, NEW t \in Sets, Clone(s, t) PROVE IInv'
    <2>1. s # t
      BY <1>4 DEF Clone, Ready
    <2>2. TemplatesOK'
      BY Zenon, <1>4, <1>a, <2>1, CopyKeeps DEF Clone
    <2>3. ParserKnowsLess'
      BY <1>4, <1>a DEF Clone, ParserKnowsLess
    <2> QED  BY <1>4, <1>a, <1>b, <2>2, <2>3 DEF Clone
  <1>5. ASSUME NEW s \in Sets, Escape(s) PROVE IInv'
    <2>1. /\ execFuncs' = [execFuncs EXCEPT ![s] = @ \cup EscFuncs]
          /\ parseFuncs' = [parseFuncs EXCEPT ![s] = @ \cup EscFuncs]
          /\ UNCHANGED <<made, delims, todo>>
      BY <1>5 DEF Escape
    <2>2. TemplatesOK'
      <3>1. CASE EscapeTree(s)
        BY Zenon, <1>a, <2>1, <3>1, EscapeKeeps
      <3>2. CASE EscapeTreeFails(s)
        BY ZenonT(60), <1>a, <2>1, <3>2, FailKeeps
      <3> QED  BY <1>5, <3>1, <3>2 DEF Escape
    <2>3. /\ execFuncs' \in [Sets -> SUBSET Funcs]
          /\ parseFuncs' \in [Sets -> SUBSET Funcs]
          /\ ParserKnowsLess'
      BY <1>a, <2>1 DEF Funcs, ParserKnowsLess
    <2> QED  BY <1>a, <1>b, <2>1, <2>2, <2>3
  <1>6. ASSUME NEW s \in Sets, NEW text \in Texts, Parse(s, text) PROVE IInv'
    <2>1. TemplatesOK'
      BY <1>6, ParseKeeps DEF Parse
    <2> QED  BY <1>6, <1>a, <1>b, <2>1 DEF Parse, ParserKnowsLess
  <1>7. ASSUME NEW s \in Sets, NEW files \in Files, ParseFiles(s, files) PROVE IInv'
    <2>1. TemplatesOK'
      BY <1>7, <1>a, FuncsKeep DEF ParseFiles
    <2>2. files \in Seq(Texts \cup {Unreadable})
      <3>1. PICK k \in 1..MaxFiles : files \in [1..k -> Texts \cup {Unreadable}]
        BY DEF Files
      <3> QED  BY <3>1, BoundsAssumption
    <2>3. todo' \in [Sets -> Seq(Texts \cup {Unreadable})]
      BY <1>7, <1>a, <2>2 DEF ParseFiles
    <2> QED  BY <1>7, <1>a, <1>b, <2>1, <2>3 DEF ParseFiles, ParserKnowsLess
  <1>8. ASSUME NEW s \in Sets, ParseNextFile(s) PROVE IInv'
    <2>1. UNCHANGED <<made, delims, parseFuncs, execFuncs>>
      BY <1>8 DEF ParseNextFile
    <2>2. PICK failed \in BOOLEAN :
             /\ IF Head(todo[s]) = Unreadable
                THEN failed /\ UNCHANGED <<tree, heap>>
                ELSE parse(s, Head(todo[s]), failed)
             /\ todo' = [todo EXCEPT ![s] = IF failed THEN <<>> ELSE Tail(@)]
      BY ZenonT(60), <1>8 DEF ParseNextFile
    <2>3. /\ todo[s] \in Seq(Texts \cup {Unreadable})
          /\ todo[s] # <<>>
          /\ Head(todo[s]) \in Texts \cup {Unreadable}
          /\ Tail(todo[s]) \in Seq(Texts \cup {Unreadable})
      BY <1>8, <1>a DEF ParseNextFile
    <2>4. TemplatesOK'
      <3>1. CASE Head(todo[s]) = Unreadable
        BY <1>a, <2>1, <2>2, <3>1, FuncsKeep
      <3>2. CASE Head(todo[s]) # Unreadable
        BY <2>1, <2>2, <2>3, <3>2, ParseKeeps
      <3> QED  BY <3>1, <3>2
    <2>5. todo' \in [Sets -> Seq(Texts \cup {Unreadable})]
      <3>1. (IF failed THEN <<>> ELSE Tail(todo[s])) \in Seq(Texts \cup {Unreadable})
        BY <2>3
      <3> QED  BY <1>a, <2>2, <3>1
    <2> QED  BY <1>a, <1>b, <2>1, <2>4, <2>5 DEF ParserKnowsLess
  <1>9. CASE UNCHANGED vars
    <2>1. TemplatesOK'
      BY <1>9, <1>a, FuncsKeep DEF vars
    <2> QED  BY <1>9, <1>a, <1>b, <2>1 DEF vars, ParserKnowsLess
  <1> QED  BY <1>1, <1>2, <1>3, <1>4, <1>5, <1>6, <1>7, <1>8, <1>9 DEF Next

\* The invariant holds in every state the methods of any number of sets reach.
THEOREM TemplateSetInvariant == Spec => []IInv
  BY InitIInv, NextIInv, PTL DEF Spec

\* The fields of a Set keep their types.
THEOREM TemplateSetTypeOK == Spec => []TypeOK
  <1>1. IInv => TypeOK
    BY DEF IInv
  <1> QED  BY <1>1, TemplateSetInvariant, PTL

\* Execution never meets a function that the executor does not have, for any
\* texts, functions and number of sets and in any order of calls of the methods.
THEOREM TemplateSetFunctionsResolve == Spec => []FunctionsResolve
  <1>1. IInv => FunctionsResolve
    BY DEF IInv
  <1> QED  BY <1>1, TemplateSetInvariant, PTL

\* What an escaped template calls is always there.
THEOREM TemplateSetEscapedCallsResolve == Spec => []EscapedCallsResolve
  <1>1. IInv => EscapedCallsResolve
    BY DEF IInv
  <1> QED  BY <1>1, TemplateSetInvariant, PTL

\* No node is reached from two names or two sets, so Escape rewrites only the
\* templates of the set it is called on.
THEOREM TemplateSetNoSharedNodes == Spec => []NoSharedNodes
  <1>1. IInv => NoSharedNodes
    <2> SUFFICES ASSUME IInv, NEW s \in Sets, NEW t \in Sets,
                        NEW n \in Defined(s), NEW m \in Defined(t), tree[s][n] = tree[t][m]
                 PROVE  s = t /\ n = m
      BY Zenon DEF NoSharedNodes
    <2>1. tree[s][n] = <<s, n>> /\ tree[t][m] = <<t, m>>
      BY Zenon, OwnAddress DEF IInv
    <2>2. <<s, n>> = <<t, m>>
      BY Zenon, <2>1
    <2> QED  BY <2>2
  <1> QED  BY <1>1, TemplateSetInvariant, PTL

-----------------------------------------------------------------------------
(* What a step may not do.                                                 *)

\* A set that was not made yet holds nothing.
UnmadeBlank == \A s \in Sets : s \notin made => Defined(s) = {} /\ todo[s] = <<>>

\* A template of s stays as it is or is escaped, unless the tree of s is emptied.
Kept(s) ==
    Defined(s)' # {} => \A n \in Defined(s) : Node(s, n)' = Node(s, n) \/ Node(s, n)'.escaped

\* A step works on one set, which exists after it, and keeps its templates.
LEMMA OneSetChanges ==
    ASSUME IInv, UnmadeBlank, Next
    PROVE  /\ made \subseteq made'
           /\ \E u \in made' : /\ Kept(u)
                               /\ \A v \in Sets : v # u => SameTemplates(v) /\ todo'[v] = todo[v]
  <1> DEFINE Goal == /\ made \subseteq made'
                     /\ \E u \in made' : /\ Kept(u)
                                         /\ \A v \in Sets : v # u => SameTemplates(v) /\ todo'[v] = todo[v]
  <1>a. /\ TemplatesOK
        /\ execFuncs \in [Sets -> SUBSET Funcs]
        /\ todo \in [Sets -> Seq(Texts \cup {Unreadable})]
    BY IInvParts
  <1>b. ASSUME UNCHANGED <<tree, heap>>
        PROVE  \A v \in Sets : Kept(v) /\ SameTemplates(v)
    BY <1>b DEF Kept, SameTemplates, Defined, Node
  <1>c. ASSUME NEW u \in made', made \subseteq made', Kept(u),
               \A v \in Sets : v # u => SameTemplates(v) /\ todo'[v] = todo[v]
        PROVE  Goal
    BY <1>c
  <1> HIDE DEF Goal
  <1>1. ASSUME NEW s \in Sets, NewSet(s) PROVE Goal
    BY Zenon, <1>1, <1>b, <1>c DEF NewSet
  <1>2. ASSUME NEW s \in Sets, NEW d \in Delimiters, Delims(s, d) PROVE Goal
    BY ZenonT(60), <1>2, <1>b, <1>c DEF Delims, Ready
  <1>3. ASSUME NEW s \in Sets, NEW F \in SUBSET UserFuncs, NEW bad \in SUBSET F, SetFuncs(s, F, bad)
        PROVE  Goal
    BY <1>3, <1>b, <1>c DEF SetFuncs, Ready
  <1>4. ASSUME NEW s \in Sets, NEW t \in Sets, Clone(s, t) PROVE Goal
    <2>1. s # t /\ t \notin made /\ made' = made \cup {t} /\ UNCHANGED todo
      BY <1>4 DEF Clone, Ready
    <2>2. \A v \in Sets : v # t => SameTemplates(v)
      BY Zenon, <1>4, <1>a, <2>1, CopyKeeps DEF Clone
    <2>3. Kept(t)
      BY <2>1 DEF UnmadeBlank, Kept
    <2> QED  BY <1>c, <2>1, <2>2, <2>3
  <1>5. ASSUME NEW s \in Sets, Escape(s) PROVE Goal
    <2>1. s \in made /\ UNCHANGED <<made, todo>>
      BY <1>5 DEF Escape, Ready
    <2>2. execFuncs' = [execFuncs EXCEPT ![s] = @ \cup EscFuncs]
      BY <1>5 DEF Escape
    <2>3. CASE EscapeTree(s)
      <3>1. Kept(s) /\ \A v \in Sets : v # s => SameTemplates(v)
        BY Zenon, <1>a, <2>2, <2>3, EscapeKeeps DEF Kept
      <3> QED  BY <1>c, <2>1, <3>1
    <2>4. CASE EscapeTreeFails(s)
      <3>1. Kept(s) /\ \A v \in Sets : v # s => SameTemplates(v)
        BY ZenonT(60), <1>a, <2>2, <2>4, FailKeeps DEF Kept
      <3> QED  BY <1>c, <2>1, <3>1
    <2> QED  BY <1>5, <2>3, <2>4 DEF Escape
  <1>6. ASSUME NEW s \in Sets, NEW text \in Texts, Parse(s, text) PROVE Goal
    <2>1. s \in made /\ UNCHANGED <<made, execFuncs, todo>>
      BY <1>6 DEF Parse, Ready
    <2>2. PICK failed \in BOOLEAN : parse(s, text, failed)
      BY <1>6 DEF Parse
    <2>3. Kept(s) /\ \A v \in Sets : v # s => SameTemplates(v)
      BY <2>1, <2>2, ParseKeeps DEF Kept
    <2> QED  BY <1>c, <2>1, <2>3
  <1>7. ASSUME NEW s \in Sets, NEW files \in Files, ParseFiles(s, files) PROVE Goal
    BY Zenon, <1>7, <1>a, <1>b, <1>c DEF ParseFiles, Ready
  <1>8. ASSUME NEW s \in Sets, ParseNextFile(s) PROVE Goal
    <2>1. s \in made /\ UNCHANGED <<made, execFuncs>>
      BY <1>8 DEF ParseNextFile, UnmadeBlank
    <2>2. PICK failed \in BOOLEAN :
             /\ IF Head(todo[s]) = Unreadable
                THEN failed /\ UNCHANGED <<tree, heap>>
                ELSE parse(s, Head(todo[s]), failed)
             /\ todo' = [todo EXCEPT ![s] = IF failed THEN <<>> ELSE Tail(@)]
      BY Zenon, <1>8 DEF ParseNextFile
    <2>3. Head(todo[s]) \in Texts \cup {Unreadable}
      BY <1>8, <1>a DEF ParseNextFile
    <2>4. \A v \in Sets : v # s => todo'[v] = todo[v]
      BY <1>a, <2>2
    <2>5. Kept(s) /\ \A v \in Sets : v # s => SameTemplates(v)
      <3>1. CASE Head(todo[s]) = Unreadable
        BY <1>b, <2>2, <3>1
      <3>2. CASE Head(todo[s]) # Unreadable
        BY <2>1, <2>2, <2>3, <3>2, ParseKeeps DEF Kept
      <3> QED  BY <3>1, <3>2
    <2> QED  BY <1>c, <2>1, <2>4, <2>5
  <1>9. Goal
    BY <1>1, <1>2, <1>3, <1>4, <1>5, <1>6, <1>7, <1>8 DEF Next
  <1> QED  BY <1>9 DEF Goal

\* Templates left alone look the same through the tree of their set.
LEMMA SameView ==
    ASSUME IInv, IInv', NEW s \in Sets, SameTemplates(s)
    PROVE  /\ Defined(s)' = Defined(s)
           /\ \A n \in Defined(s) : Node(s, n)' = Node(s, n)
           /\ View(s)' = View(s)
  <1>1. Defined(s)' = Defined(s)
    BY ZenonT(60) DEF SameTemplates, Defined
  <1>2. \A n \in Defined(s) : Node(s, n)' = Node(s, n)
    <2> TAKE n \in Defined(s)
    <2>1. n \in Names /\ tree[s][n] = <<s, n>> /\ Node(s, n) = heap[<<s, n>>]
      BY Zenon, OwnAddress DEF IInv
    <2> QED  BY <2>1 DEF SameTemplates, Node
  <1>3. View(s)' = View(s)
    BY <1>1, <1>2 DEF View
  <1> QED  BY <1>1, <1>2, <1>3

\* Only the sets that were made hold anything.
LEMMA UnmadeBlankStep == IInv /\ IInv' /\ UnmadeBlank /\ [Next]_vars => UnmadeBlank'
  <1> SUFFICES ASSUME IInv, IInv', UnmadeBlank, [Next]_vars,
                      NEW s \in Sets, s \notin made'
               PROVE  Defined(s)' = {} /\ todo'[s] = <<>>
    BY Zenon DEF UnmadeBlank
  <1>1. CASE Next
    <2>1. s \notin made /\ SameTemplates(s) /\ todo'[s] = todo[s]
      BY Zenon, <1>1, OneSetChanges
    <2> QED  BY ZenonT(60), <2>1, SameView DEF UnmadeBlank
  <1>2. CASE UNCHANGED vars
    BY <1>2 DEF vars, UnmadeBlank, Defined
  <1> QED  BY <1>1, <1>2

\* The two invariants together.
LEMMA InvariantUnmade == Spec => [](IInv /\ UnmadeBlank)
  <1>1. Init => UnmadeBlank
    BY DEF Init, UnmadeBlank, Defined
  <1>2. IInv /\ UnmadeBlank /\ [Next]_vars => (IInv /\ UnmadeBlank)'
    BY NextIInv, UnmadeBlankStep
  <1> QED  BY <1>1, <1>2, InitIInv, PTL DEF Spec

\* No operation on one set, Clone and Escape included, changes what another shows.
THEOREM TemplateSetOthersUntouched == Spec => OthersUntouched
  <1>1. IInv /\ IInv' /\ UnmadeBlank /\ [Next]_vars
           => [\A s, t \in Sets :
                 s # t /\ t \in made /\ View(s)' # View(s) => View(t)' = View(t)]_vars
    <2> SUFFICES ASSUME IInv, IInv', UnmadeBlank, Next, NEW s \in Sets, NEW t \in Sets,
                        s # t, View(s)' # View(s)
                 PROVE  View(t)' = View(t)
      OBVIOUS
    <2>1. PICK u \in made' : \A v \in Sets : v # u => SameTemplates(v)
      BY Zenon, OneSetChanges
    <2>2. ~SameTemplates(s)
      BY SameView
    <2>3. SameTemplates(t)
      BY <2>1, <2>2
    <2> QED  BY <2>3, SameView
  <1> QED  BY <1>1, InvariantUnmade, PTL DEF Spec, OthersUntouched

\* Parsing never replaces a template, in whatever order texts and files are
\* parsed, escaped and cloned, and whichever of them fail.
THEOREM TemplateSetNeverRedefined == Spec => NeverRedefined
  <1>1. IInv /\ IInv' /\ UnmadeBlank /\ [Next]_vars
           => [\A s \in Sets : Defined(s)' # {} =>
                 \A n \in Defined(s) : Node(s, n)' = Node(s, n) \/ Node(s, n)'.escaped]_vars
    <2> SUFFICES ASSUME IInv, IInv', UnmadeBlank, Next, NEW s \in Sets
                 PROVE  Kept(s)
      BY DEF Kept
    <2>1. PICK u \in made' : Kept(u) /\ \A v \in Sets : v # u => SameTemplates(v)
      BY Zenon, OneSetChanges
    <2>2. CASE s = u
      BY <2>1, <2>2
    <2>3. CASE s # u
      BY <2>1, <2>3, SameView DEF Kept
    <2> QED  BY <2>2, <2>3
  <1> QED  BY <1>1, InvariantUnmade, PTL DEF Spec, NeverRedefined
=============================================================================
