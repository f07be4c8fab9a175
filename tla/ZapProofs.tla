----------------------------- MODULE ZapProofs ------------------------------
(***************************************************************************)
(* Proofs about the inheritance of zap's templates, Zap, for any set of    *)
(* names and texts and whatever is done to lists: Compile fails if and     *)
(* only if some template has no root.                                      *)
(*                                                                         *)
(* Compile changes parents as it goes, also in calls that fail, and Parse  *)
(* adds templates between calls.  What stays is that the parent a template *)
(* has now is one of its ancestors by the definitions as parsed.           *)
(***************************************************************************)
EXTENDS Zap, TLAPS

MaybeName == Names \cup {NoParent}

\* T has the parent of each of its templates that has one.
Closed(T) == \A n \in T : n \in DOMAIN source /\ source[n].parent # NoParent => source[n].parent \in T

\* m is n, its parent, the parent of that, and so on.
Reaches(n, m) == \A T \in SUBSET Names : n \in T /\ Closed(T) => m \in T

\* m is an ancestor of n, by the definitions as parsed.
Ancestor(n, m) ==
    /\ m \in Names /\ n \in DOMAIN source /\ source[n].parent \in Names
    /\ Reaches(source[n].parent, m)

Trees ==
    /\ DOMAIN tree = DOMAIN source /\ DOMAIN source \subseteq Names
    /\ \A n \in DOMAIN source : source[n].parent \in MaybeName
    /\ \A n \in DOMAIN tree : tree[n] = [parent |-> tree[n].parent, list |-> tree[n].list]
    /\ todo \subseteq DOMAIN tree

\* A template without parent has a root, and the parent of one that has a parent
\* is an ancestor.
Inherits ==
    \A n \in DOMAIN tree :
        IF tree[n].parent = NoParent THEN HasRoot(n) ELSE Ancestor(n, tree[n].parent)

\* The templates deps are each the parent of the one before.
Chained ==
    /\ deps \in Seq(DOMAIN tree)
    /\ \A i \in 1..Len(deps) : tree[deps[i]].parent # NoParent
    /\ \A i, j \in 1..Len(deps) : i # j => deps[i] # deps[j]
    /\ \A i \in 1..(Len(deps) - 1) : tree[deps[i]].parent = deps[i + 1]
    /\ phase \notin {"inlineParentList", "inlineParent"} => deps = <<>>
    /\ phase = "inlineParentList" =>
          /\ name \in Names /\ (deps = <<>> => name \in DOMAIN tree)
          /\ deps # <<>> => tree[deps[Len(deps)]].parent = name
          /\ \A i \in 1..Len(deps) : Ancestor(deps[i], name)
    /\ phase = "inlineParent" /\ deps # <<>> =>
          LET p == tree[deps[Len(deps)]].parent IN p \in DOMAIN tree /\ tree[p].parent = NoParent

\* The templates the first loop has come to have no parent any more.
Visited ==
    /\ phase \in {"inlineParents", "inlineParentList", "inlineParent"} =>
          \A n \in DOMAIN tree \ todo :
              \/ tree[n].parent = NoParent
              \/ IsDep(n)
              \/ phase = "inlineParentList" /\ n = name
    /\ phase = "inlineBlocks" => \A n \in DOMAIN tree : tree[n].parent = NoParent

\* The inductive invariant.
ZapInv == Trees /\ Inherits /\ Chained /\ Visited /\ ParentsInlined

-----------------------------------------------------------------------------
(* Roots and ancestors.                                                    *)

\* What a template leads to, its parent leads to, unless it is that itself.
LEMMA ParentReaches ==
    ASSUME Trees, NEW k \in Names, NEW m \in Names, Reaches(k, m), k # m
    PROVE  k \in DOMAIN source /\ source[k].parent \in Names /\ Reaches(source[k].parent, m)
<1>1. k \in DOMAIN source /\ source[k].parent # NoParent
  <2>1. SUFFICES ASSUME ~(k \in DOMAIN source /\ source[k].parent # NoParent) PROVE FALSE
    OBVIOUS
  <2>2. Closed({k}) /\ {k} \in SUBSET Names
    BY <2>1 DEF Closed
  <2>. QED
    BY <2>2 DEF Reaches
<1>2. source[k].parent \in Names
  BY <1>1 DEF Trees, MaybeName
<1>3. ASSUME NEW T \in SUBSET Names, source[k].parent \in T, Closed(T)
      PROVE  m \in T
  <2>1. Closed(T \cup {k}) /\ T \cup {k} \in SUBSET Names
    BY <1>3 DEF Closed
  <2>2. m \in T \cup {k}
    BY <2>1 DEF Reaches
  <2>. QED
    BY <2>2
<1>. QED
  BY <1>1, <1>2, <1>3 DEF Reaches

\* Leading to is transitive.
LEMMA ReachesOn ==
    ASSUME NEW k, NEW m, NEW n, Reaches(k, m), Reaches(m, n)
    PROVE  Reaches(k, n)
  BY DEF Reaches

\* An ancestor's parent is led to, and its ancestors are ancestors.
LEMMA AncestorOn ==
    ASSUME Trees, NEW k, NEW m, NEW n, Ancestor(k, m), Ancestor(m, n)
    PROVE  Ancestor(k, n)
<1>1. Reaches(m, n)
  <2>1. ASSUME NEW T \in SUBSET Names, m \in T, Closed(T)
        PROVE  n \in T
    <3>1. source[m].parent \in T
      <4>1. source[m].parent # NoParent
        BY NoParentAssumption DEF Ancestor
      <4>. QED
        BY <2>1, <4>1 DEF Ancestor, Closed
    <3>. QED
      BY <2>1, <3>1 DEF Ancestor, Reaches
  <2>. QED
    BY <2>1 DEF Reaches
<1>2. Reaches(source[k].parent, n)
  BY <1>1, ReachesOn DEF Ancestor
<1>. QED
  BY <1>2 DEF Ancestor

\* An ancestor is led to.
LEMMA AncestorReached ==
    ASSUME NEW k, NEW m, Ancestor(k, m)
    PROVE  k \in DOMAIN source /\ m \in Names /\ Reaches(k, m)
<1>1. ASSUME NEW T \in SUBSET Names, k \in T, Closed(T)
      PROVE  m \in T
  <2>1. source[k].parent # NoParent
    BY NoParentAssumption DEF Ancestor
  <2>2. source[k].parent \in T
    BY <1>1, <2>1 DEF Ancestor, Closed
  <2>. QED
    BY <1>1, <2>2 DEF Ancestor, Reaches
<1>. QED
  BY <1>1 DEF Ancestor, Reaches

\* If what k leads to has no root, k has none.
LEMMA RootOfReached ==
    ASSUME Trees, NEW k \in Names, NEW m \in Names, Reaches(k, m), HasRoot(k)
    PROVE  HasRoot(m)
<1>1. SUFFICES ASSUME NEW T \in SUBSET Names, m \in T, Rootless(T) PROVE FALSE
  BY DEF HasRoot
<1> DEFINE U == T \cup {j \in Names : Reaches(j, m)}
<1>2. ASSUME NEW j \in U, j \in DOMAIN source
      PROVE  source[j].parent \in U
  <2>1. CASE j \in T
    BY <1>1, <1>2, <2>1 DEF Rootless
  <2>2. CASE j \notin T
    <3>1. j \in Names /\ Reaches(j, m) /\ j # m
      BY <1>1, <2>2
    <3>. QED
      BY <3>1, ParentReaches
  <2>. QED
    BY <2>1, <2>2
<1>3. Rootless(U) /\ U \in SUBSET Names /\ k \in U
  BY <1>2 DEF Rootless
<1> HIDE DEF U
<1>. QED
  BY <1>3 DEF HasRoot

\* If k has no root, what it leads to has none.
LEMMA NoRootOfReached ==
    ASSUME NEW k \in Names, NEW m \in Names, Reaches(k, m), HasRoot(m)
    PROVE  HasRoot(k)
<1>1. SUFFICES ASSUME NEW T \in SUBSET Names, k \in T, Rootless(T) PROVE FALSE
  BY DEF HasRoot
<1>2. Closed(T)
  BY <1>1 DEF Closed, Rootless
<1>3. m \in T
  BY <1>1, <1>2 DEF Reaches
<1>. QED
  BY <1>1, <1>3 DEF HasRoot

\* A template that is not defined has no root.
LEMMA MissingHasNone ==
    ASSUME NEW m \in Names, m \notin DOMAIN source
    PROVE  ~HasRoot(m)
<1>1. Rootless({m}) /\ {m} \in SUBSET Names
  BY DEF Rootless
<1>. QED
  BY <1>1 DEF HasRoot

\* Neither has one that is its own ancestor.
LEMMA CycleHasNone ==
    ASSUME Trees, NEW n, Ancestor(n, n)
    PROVE  ~HasRoot(n)
<1> DEFINE R == {k \in Names : Reaches(k, n)}
<1>0. n \in Names
  BY DEF Ancestor
<1>1. n \in R
  BY <1>0 DEF Reaches
<1>2. ASSUME NEW k \in R PROVE source[k].parent \in R
  <2>1. CASE k = n
    BY <2>1 DEF Ancestor
  <2>2. CASE k # n
    BY <1>0, <2>2, ParentReaches
  <2>. QED
    BY <2>1, <2>2
<1>3. Rootless(R) /\ R \in SUBSET Names
  BY <1>2 DEF Rootless
<1> HIDE DEF R
<1>. QED
  BY <1>1, <1>3 DEF HasRoot

-----------------------------------------------------------------------------
(* The steps.                                                              *)

\* Roots and ancestors depend on the definitions alone,
LEMMA SameSource ==
    ASSUME UNCHANGED source
    PROVE  /\ \A n, m : Ancestor(n, m)' <=> Ancestor(n, m)
           /\ \A n : HasRoot(n)' <=> HasRoot(n)
  BY DEF Ancestor, Reaches, Closed, HasRoot, Rootless

\* and are kept when there are more.
LEMMA MoreSource ==
    ASSUME DOMAIN source \subseteq DOMAIN source', \A n \in DOMAIN source : source'[n] = source[n]
    PROVE  /\ \A n, m : Ancestor(n, m) => Ancestor(n, m)'
           /\ \A n : HasRoot(n) => HasRoot(n)'
<1>1. \A T : Closed(T)' => Closed(T)
  BY DEF Closed
<1>2. \A T : Rootless(T)' => Rootless(T)
  BY DEF Rootless
<1>3. ASSUME NEW n, NEW m, Ancestor(n, m)
      PROVE  Ancestor(n, m)'
  <2>1. source'[n].parent = source[n].parent /\ n \in DOMAIN source'
    BY <1>3 DEF Ancestor
  <2>2. \A T \in SUBSET Names : source[n].parent \in T /\ Closed(T)' => m \in T
    BY <1>1, <1>3 DEF Ancestor, Reaches
  <2>. QED
    BY <1>3, <2>1, <2>2 DEF Ancestor, Reaches
<1>4. ASSUME NEW n, HasRoot(n)
      PROVE  HasRoot(n)'
  BY <1>2, <1>4 DEF HasRoot
<1>. QED
  BY <1>3, <1>4

\* Templates that keep their parents.
SameParents ==
    /\ UNCHANGED source
    /\ DOMAIN tree' = DOMAIN tree
    /\ \A n \in DOMAIN tree :
          /\ tree'[n].parent = tree[n].parent
          /\ tree'[n] = [parent |-> tree'[n].parent, list |-> tree'[n].list]
    /\ todo' \subseteq DOMAIN tree

LEMMA SameParentsKeep ==
    ASSUME ZapInv, SameParents
    PROVE  Trees' /\ Inherits' /\ (UNCHANGED out => ParentsInlined')
<1>1. Trees'
  BY DEF ZapInv, Trees, SameParents
<1>2. Inherits'
  BY SameSource DEF ZapInv, Inherits, SameParents
<1>3. ASSUME UNCHANGED out PROVE ParentsInlined'
  BY <1>3, SameSource DEF ZapInv, ParentsInlined, SameParents
<1>. QED
  BY <1>1, <1>2, <1>3

\* Most steps leave the templates alone.
LEMMA UnchangedTree ==
    ASSUME ZapInv, UNCHANGED <<tree, source>>, todo' \subseteq DOMAIN tree
    PROVE  SameParents
  BY DEF ZapInv, Trees, SameParents

\* A return leaves no chain.
LEMMA ReturnKeeps ==
    ASSUME ZapInv, NEW how, Return(how), UNCHANGED <<tree, source, out>>
    PROVE  ZapInv'
<1>1. SameParents
  BY UnchangedTree DEF Return
<1>2. phase' \in {"halt", "idle"} /\ deps' = <<>>
  BY DEF Return
<1>3. Chained'
  BY <1>2 DEF Chained
<1>4. Visited'
  BY <1>2 DEF Visited
<1>. QED
  BY <1>1, <1>3, <1>4, SameParentsKeep DEF ZapInv

LEMMA ParseKeeps ==
    ASSUME ZapInv, Parse
    PROVE  ZapInv'
<1>0. phase = "idle" /\ UNCHANGED <<phase, todo, name, deps, out>>
  BY DEF Parse
<1>1. PICK new, node :
         /\ new \subseteq Names /\ new \cap DOMAIN tree = {}
         /\ \A n \in new : /\ node[n] = [parent |-> node[n].parent, list |-> node[n].list]
                           /\ node[n].parent \in MaybeName
         /\ tree' = [n \in DOMAIN tree \cup new |-> IF n \in new THEN node[n] ELSE tree[n]]
         /\ source' = [n \in DOMAIN source \cup new |-> IF n \in new THEN node[n] ELSE source[n]]
  <2>1. PICK text \in Texts : \E added \in SUBSET {d \in text : ~Empty(d.list)} :
           LET defs == {d \in text : ~Empty(d.list)}
               def(n) == CHOOSE d \in defs : d.name = n
               new == {d.name : d \in added}
               node(n) == [parent |-> def(n).parent, list |-> def(n).list]
           IN  /\ addTree(added, defs)
               /\ tree' = [n \in DOMAIN tree \cup new |-> IF n \in new THEN node(n) ELSE tree[n]]
               /\ source' = [n \in DOMAIN source \cup new |-> IF n \in new THEN node(n) ELSE source[n]]
    BY DEF Parse
  <2> DEFINE defs == {d \in text : ~Empty(d.list)}
             def(n) == CHOOSE d \in defs : d.name = n
             node(n) == [parent |-> def(n).parent, list |-> def(n).list]
  <2>2. PICK added \in SUBSET defs :
           LET new == {d.name : d \in added}
           IN  /\ addTree(added, defs)
               /\ tree' = [n \in DOMAIN tree \cup new |-> IF n \in new THEN node(n) ELSE tree[n]]
               /\ source' = [n \in DOMAIN source \cup new |-> IF n \in new THEN node(n) ELSE source[n]]
    BY <2>1
  <2> DEFINE new == {d.name : d \in added}
             f == [n \in new |-> node(n)]
  <2>3. \A n \in new : def(n) \in defs /\ def(n).name = n
    OBVIOUS
  <2>4. \A d \in defs : d.name \in Names /\ d.parent \in MaybeName
    BY TextsAssumption DEF MaybeName
  <2>5. \A d \in added : d.name \notin DOMAIN tree
    BY <2>2 DEF addTree
  <2>6. /\ tree' = [n \in DOMAIN tree \cup new |-> IF n \in new THEN f[n] ELSE tree[n]]
        /\ source' = [n \in DOMAIN source \cup new |-> IF n \in new THEN f[n] ELSE source[n]]
    <3> HIDE DEF node
    <3>. QED
      BY <2>2
  <2> HIDE DEF def
  <2>7. \A n \in new : /\ f[n] = [parent |-> f[n].parent, list |-> f[n].list]
                      /\ f[n].parent \in MaybeName
    BY <2>3, <2>4
  <2>8. new \subseteq Names /\ new \cap DOMAIN tree = {}
    BY <2>4, <2>5
  <2> HIDE DEF new, f
  <2>. QED
    BY <2>6, <2>7, <2>8
<1>2. /\ DOMAIN tree' = DOMAIN source' /\ DOMAIN source' = DOMAIN source \cup new
      /\ \A n \in DOMAIN source : n \notin new /\ source'[n] = source[n] /\ tree'[n] = tree[n]
      /\ \A n \in new : source'[n] = node[n] /\ tree'[n] = node[n]
  BY <1>1 DEF ZapInv, Trees
<1>3. Trees'
  BY <1>0, <1>1, <1>2 DEF ZapInv, Trees
<1>4. /\ \A n, m : Ancestor(n, m) => Ancestor(n, m)'
      /\ \A n : HasRoot(n) => HasRoot(n)'
  BY <1>2, MoreSource
<1>5. Inherits'
  <2>1. ASSUME NEW n \in DOMAIN source
        PROVE  (IF tree[n].parent = NoParent THEN HasRoot(n) ELSE Ancestor(n, tree[n].parent))'
    <3>1. tree'[n].parent = tree[n].parent /\ n \in DOMAIN tree
      BY <1>2 DEF ZapInv, Trees
    <3>. QED
      BY <1>4, <3>1 DEF ZapInv, Inherits
  <2>2. ASSUME NEW n \in new, node[n].parent = NoParent
        PROVE  HasRoot(n)'
    <3>1. n \in DOMAIN source' /\ source'[n].parent \notin Names
      BY <1>2, <2>2, NoParentAssumption
    <3>. QED
      BY <3>1 DEF HasRoot, Rootless
  <2>3. ASSUME NEW n \in new, node[n].parent # NoParent
        PROVE  Ancestor(n, node[n].parent)'
    <3>1. node[n].parent \in Names /\ n \in DOMAIN source' /\ source'[n].parent = node[n].parent
      BY <1>1, <1>2, <2>3 DEF MaybeName
    <3>. QED
      BY <3>1 DEF Ancestor, Reaches
  <2>. QED
    BY <1>2, <2>1, <2>2, <2>3 DEF Inherits
<1>6. Chained'
  BY <1>0 DEF ZapInv, Chained
<1>7. Visited'
  BY <1>0 DEF Visited
<1>8. ParentsInlined'
  BY <1>0, <1>2, <1>4 DEF ZapInv, ParentsInlined, Trees
<1>. QED
  BY <1>3, <1>5, <1>6, <1>7, <1>8 DEF ZapInv

LEMMA ZapKeeps ==
    ASSUME ZapInv, Zap
    PROVE  ZapInv'
<1>0. phase = "idle" /\ phase' = "inlineParents" /\ todo' = DOMAIN tree
      /\ UNCHANGED <<tree, deps, out, source>>
  BY DEF Zap
<1>1. SameParents
  BY <1>0, UnchangedTree
<1>2. Chained'
  BY <1>0 DEF ZapInv, Chained
<1>3. Visited'
  BY <1>0 DEF Visited
<1>. QED
  BY <1>0, <1>1, <1>2, <1>3, SameParentsKeep DEF ZapInv

LEMMA CompileParentsKeeps ==
    ASSUME ZapInv, compileParents, UNCHANGED <<out, source>>
    PROVE  ZapInv'
<1>0. phase = "inlineParents" /\ deps = <<>> /\ UNCHANGED <<tree, deps>>
  BY DEF compileParents, ZapInv, Chained
<1>1. CASE \E n \in todo : todo' = todo \ {n} /\ name' = n /\ phase' = "inlineParentList"
  <2>1. PICK n \in todo : todo' = todo \ {n} /\ name' = n /\ phase' = "inlineParentList"
    BY <1>1
  <2>2. SameParents /\ n \in DOMAIN tree /\ n \in Names
    BY <1>0, <2>1, UnchangedTree DEF ZapInv, Trees
  <2>3. Chained'
    BY <1>0, <2>1, <2>2 DEF Chained
  <2>4. Visited'
    BY <1>0, <2>1 DEF ZapInv, Visited, IsDep
  <2>. QED
    BY <2>2, <2>3, <2>4, SameParentsKeep DEF ZapInv
<1>2. CASE todo = {} /\ todo' = DOMAIN tree /\ phase' = "inlineBlocks"
  <2>1. SameParents
    BY <1>0, <1>2, UnchangedTree
  <2>2. Chained'
    BY <1>0, <1>2 DEF Chained
  <2>3. Visited'
    BY <1>0, <1>2 DEF ZapInv, Visited, IsDep
  <2>. QED
    BY <2>1, <2>2, <2>3, SameParentsKeep DEF ZapInv
<1>. QED
  BY <1>1, <1>2 DEF compileParents

\* A turn of inlineParentList that goes on to the parent.
LEMMA NextParentKeeps ==
    ASSUME ZapInv, phase = "inlineParentList", name \in DOMAIN tree, tree[name].parent # NoParent,
           ~IsDep(name), deps' = Append(deps, name), name' = tree[name].parent,
           UNCHANGED <<tree, phase, todo, out, source>>
    PROVE  ZapInv'
<1> DEFINE L == Len(deps)
<1>0. deps \in Seq(DOMAIN tree) /\ L \in Nat
  BY DEF ZapInv, Chained
<1>1. /\ deps' \in Seq(DOMAIN tree) /\ Len(deps') = L + 1 /\ deps'[L + 1] = name
      /\ \A i \in 1..L : deps'[i] = deps[i]
  BY <1>0
<1>2. \A i \in 1..L : deps[i] # name
  BY <1>0 DEF IsDep
<1>3. Ancestor(name, name') /\ name' \in Names
  BY DEF ZapInv, Inherits, Ancestor
<1>4. \A i \in 1..L : Ancestor(deps[i], name')
  BY <1>3, AncestorOn DEF ZapInv, Chained
<1>5. SameParents
  BY UnchangedTree DEF ZapInv, Trees
<1>s. UNCHANGED source
  OBVIOUS
<1>6. Chained'
  <2>1. \A i \in 1..Len(deps') : tree'[deps'[i]].parent # NoParent
    BY <1>0, <1>1 DEF ZapInv, Chained
  <2>2. \A i, j \in 1..Len(deps') : i # j => deps'[i] # deps'[j]
    BY <1>0, <1>1, <1>2 DEF ZapInv, Chained
  <2>3. ASSUME NEW i \in 1..(Len(deps') - 1) PROVE tree'[deps'[i]].parent = deps'[i + 1]
    <3>1. CASE i \in 1..(L - 1)
      BY <1>0, <1>1, <3>1 DEF ZapInv, Chained
    <3>2. CASE i = L
      BY <1>0, <1>1, <3>2 DEF ZapInv, Chained
    <3>. QED
      BY <1>0, <1>1, <3>1, <3>2
  <2>4. \A i \in 1..Len(deps') : Ancestor(deps'[i], name')
    BY <1>0, <1>1, <1>3, <1>4
  <2>5. \A i \in 1..Len(deps') : Ancestor(deps[i], name)'
    BY <1>s, <2>4 DEF Ancestor, Reaches, Closed
  <2>6. deps' # <<>> /\ tree'[deps'[Len(deps')]].parent = name'
    BY <1>0, <1>1
  <2>. QED
    BY <1>1, <1>3, <2>1, <2>2, <2>3, <2>5, <2>6 DEF Chained
<1>7. Visited'
  <2>1. ASSUME NEW n \in DOMAIN tree \ todo
        PROVE  tree[n].parent = NoParent \/ (\E i \in DOMAIN deps' : deps'[i] = n)
    <3>1. tree[n].parent = NoParent \/ IsDep(n) \/ n = name
      BY DEF ZapInv, Visited
    <3>2. DOMAIN deps = 1..L /\ DOMAIN deps' = 1..(L + 1)
      BY <1>0, <1>1
    <3>. QED
      BY <1>0, <1>1, <3>1, <3>2 DEF IsDep
  <2>. QED
    BY <2>1 DEF Visited, IsDep
<1>. QED
  BY <1>5, <1>6, <1>7, SameParentsKeep DEF ZapInv

LEMMA ParentListKeeps ==
    ASSUME ZapInv, inlineParentList, UNCHANGED <<out, source>>
    PROVE  ZapInv'
<1>0. phase = "inlineParentList" /\ UNCHANGED tree
  BY DEF inlineParentList
<1>1. CASE \E how : Return(how)
  BY <1>0, <1>1, ReturnKeeps
<1>2. CASE /\ name \in DOMAIN tree /\ tree[name].parent = NoParent
           /\ phase' = "inlineParent" /\ UNCHANGED <<todo, deps, result>>
  <2>1. SameParents
    BY <1>0, <1>2, UnchangedTree DEF ZapInv, Trees
  <2>2. Chained'
    BY <1>0, <1>2 DEF ZapInv, Chained
  <2>3. Visited'
    BY <1>0, <1>2 DEF ZapInv, Visited, IsDep
  <2>. QED
    BY <2>1, <2>2, <2>3, SameParentsKeep DEF ZapInv
<1>3. CASE /\ name \in DOMAIN tree /\ tree[name].parent # NoParent /\ ~IsDep(name)
           /\ deps' = Append(deps, name) /\ name' = tree[name].parent
           /\ UNCHANGED <<phase, todo, result>>
  BY <1>0, <1>3, NextParentKeeps
<1>. QED
  BY <1>1, <1>2, <1>3 DEF inlineParentList

\* The template inlined, whose parent has none any more, is one of those with a
\* root; the others of the chain, which come before it, keep their parents.
LEMMA InlineKeeps ==
    ASSUME ZapInv, phase = "inlineParent", deps # <<>>, inlineParent(deps[Len(deps)]),
           deps' = SubSeq(deps, 1, Len(deps) - 1), UNCHANGED <<phase, todo, out, source>>
    PROVE  ZapInv'
<1> DEFINE L == Len(deps)
           n == deps[L]
           p == tree[n].parent
<1>0. deps \in Seq(DOMAIN tree) /\ L \in Nat \ {0} /\ n \in DOMAIN tree
  BY DEF ZapInv, Chained
<1>1. p # NoParent /\ p \in DOMAIN tree /\ tree[p].parent = NoParent /\ n # p
  BY <1>0 DEF ZapInv, Chained
<1>2. /\ deps' \in Seq(DOMAIN tree) /\ Len(deps') = L - 1
      /\ \A i \in 1..(L - 1) : deps'[i] = deps[i]
  <2>1. ASSUME NEW m \in 0..L
        PROVE  /\ SubSeq(deps, 1, m) \in Seq(DOMAIN tree) /\ Len(SubSeq(deps, 1, m)) = m
               /\ \A i \in 1..m : SubSeq(deps, 1, m)[i] = deps[i]
    BY <1>0
  <2>2. L - 1 \in 0..L
    BY <1>0
  <2>. QED
    BY <2>1, <2>2
<1>3. /\ DOMAIN tree' = DOMAIN tree
      /\ \A m \in DOMAIN tree : m # n => tree'[m] = tree[m]
      /\ tree'[n] = [parent |-> tree[p].parent, list |-> Replaced(tree[p].list, tree[n].list)]
  BY <1>0 DEF inlineParent
<1>4. tree'[n].parent = NoParent /\ tree'[n] = [parent |-> tree'[n].parent, list |-> tree'[n].list]
  BY <1>1, <1>3
<1>5. HasRoot(n)
  <2>1. Ancestor(n, p) /\ HasRoot(p) /\ n \in Names
    BY <1>0, <1>1 DEF ZapInv, Inherits, Trees
  <2>2. Reaches(n, p) /\ p \in Names
    BY <2>1, AncestorReached
  <2>. QED
    BY <2>1, <2>2, NoRootOfReached
<1>s. UNCHANGED source
  OBVIOUS
<1> HIDE DEF p
<1>6. Trees'
  BY <1>3, <1>4 DEF ZapInv, Trees
<1>7. Inherits'
  BY <1>0, <1>3, <1>4, <1>5, <1>s, SameSource DEF ZapInv, Inherits
<1>8. Chained'
  <2>1. ASSUME NEW i \in 1..(L - 1) PROVE deps[i] \in DOMAIN tree /\ deps[i] # n /\ deps'[i] = deps[i]
    BY <1>0, <1>2 DEF ZapInv, Chained
  <2>2. \A i \in 1..(L - 1) : tree'[deps'[i]] = tree[deps[i]] /\ tree[deps[i]].parent = deps[i + 1]
                             /\ tree[deps[i]].parent # NoParent
    BY <1>0, <1>3, <2>1 DEF ZapInv, Chained
  <2>3. \A i, j \in 1..(L - 1) : i # j => deps'[i] # deps'[j]
    BY <1>0, <2>1 DEF ZapInv, Chained
  <2>4. ASSUME NEW i \in 1..(Len(deps') - 1)
        PROVE  tree'[deps'[i]].parent = deps'[i + 1]
    <3>1. i \in 1..(L - 1) /\ i + 1 \in 1..(L - 1)
      BY <1>0, <1>2
    <3>. QED
      BY <2>1, <2>2, <3>1
  <2>5. ASSUME deps' # <<>>
        PROVE  tree'[deps'[Len(deps')]].parent = n
    <3>1. L - 1 \in 1..(L - 1)
      BY <1>0, <1>2, <2>5
    <3>. QED
      BY <1>0, <1>2, <2>2, <3>1
  <2>. QED
    BY <1>0, <1>2, <1>3, <1>4, <2>2, <2>3, <2>4, <2>5 DEF Chained
<1>9. Visited'
  <2>1. ASSUME NEW m \in DOMAIN tree \ todo
        PROVE  tree'[m].parent = NoParent \/ (\E i \in DOMAIN deps' : deps'[i] = m)
    <3>1. tree[m].parent = NoParent \/ IsDep(m)
      BY DEF ZapInv, Visited
    <3>2. DOMAIN deps = 1..L /\ DOMAIN deps' = 1..(L - 1)
      BY <1>0, <1>2
    <3>3. m # n /\ IsDep(m) => \E i \in 1..(L - 1) : deps'[i] = m
      BY <1>0, <1>2, <3>2 DEF IsDep
    <3>. QED
      BY <1>3, <1>4, <3>1, <3>2, <3>3
  <2>. QED
    BY <1>3, <2>1 DEF Visited, IsDep
<1>10. ParentsInlined'
  BY <1>0, <1>3, <1>4, <1>s, SameSource DEF ZapInv, ParentsInlined
<1>. QED
  BY <1>6, <1>7, <1>8, <1>9, <1>10 DEF ZapInv

LEMMA CompileNamesKeeps ==
    ASSUME ZapInv, compileNames, UNCHANGED <<out, source>>
    PROVE  ZapInv'
<1>0. phase = "inlineParent"
  BY DEF compileNames
<1>1. CASE deps = <<>> /\ phase' = "inlineParents" /\ UNCHANGED <<tree, todo, name, deps, result>>
  <2>1. SameParents
    BY <1>1, UnchangedTree DEF ZapInv, Trees
  <2>2. Chained'
    BY <1>1 DEF Chained
  <2>3. Visited'
    BY <1>0, <1>1 DEF ZapInv, Visited, IsDep
  <2>. QED
    BY <2>1, <2>2, <2>3, SameParentsKeep DEF ZapInv
<1>2. CASE Return("panic") /\ UNCHANGED tree
  BY <1>2, ReturnKeeps
<1>3. CASE /\ deps # <<>> /\ inlineParent(deps[Len(deps)])
           /\ deps' = SubSeq(deps, 1, Len(deps) - 1) /\ UNCHANGED <<phase, todo, name, result>>
  BY <1>0, <1>3, InlineKeeps
<1>. QED
  BY <1>1, <1>2, <1>3 DEF compileNames

LEMMA CompileBlocksKeeps ==
    ASSUME ZapInv, compileBlocks, UNCHANGED <<out, source>>
    PROVE  ZapInv'
<1>0. phase = "inlineBlocks" /\ deps = <<>>
  BY DEF compileBlocks, ZapInv, Chained
<1>1. CASE Return("panic") /\ UNCHANGED tree
  BY <1>1, ReturnKeeps
<1>2. CASE \E n \in todo : /\ tree' = [tree EXCEPT ![n].list = Inlined(@)] /\ todo' = todo \ {n}
                           /\ UNCHANGED <<phase, name, deps, result>>
  <2>1. PICK n \in todo : /\ tree' = [tree EXCEPT ![n].list = Inlined(@)] /\ todo' = todo \ {n}
                          /\ UNCHANGED <<phase, name, deps, result>>
    BY <1>2
  <2>2. n \in DOMAIN tree /\ tree[n] = [parent |-> tree[n].parent, list |-> tree[n].list]
    BY DEF ZapInv, Trees
  <2>3. /\ DOMAIN tree' = DOMAIN tree
        /\ \A m \in DOMAIN tree : m # n => tree'[m] = tree[m]
        /\ tree'[n] = [parent |-> tree[n].parent, list |-> Inlined(tree[n].list)]
    BY <2>1, <2>2
  <2>4. SameParents
    BY <2>1, <2>3 DEF SameParents, ZapInv, Trees
  <2>5. Chained'
    BY <1>0, <2>1 DEF Chained
  <2>6. Visited'
    BY <1>0, <2>1, <2>4 DEF ZapInv, Visited, SameParents
  <2>. QED
    BY <2>4, <2>5, <2>6, SameParentsKeep DEF ZapInv
<1>. QED
  BY <1>1, <1>2 DEF compileBlocks

LEMMA WriteKeeps ==
    ASSUME ZapInv, Write
    PROVE  ZapInv'
<1>0. phase = "inlineBlocks" /\ Return("ok") /\ UNCHANGED <<tree, source>>
      /\ DOMAIN out' = DOMAIN tree
  BY DEF Write
<1>1. SameParents
  BY <1>0, UnchangedTree DEF Return
<1>2. phase' = "idle" /\ deps' = <<>>
  BY <1>0 DEF Return
<1>3. Chained' /\ Visited'
  BY <1>2 DEF Chained, Visited
<1>4. \A n \in DOMAIN tree : tree[n].parent = NoParent /\ HasRoot(n)
  BY <1>0 DEF ZapInv, Visited, Inherits
<1>5. ParentsInlined'
  BY <1>0, <1>4, SameSource DEF ParentsInlined
<1>. QED
  BY <1>1, <1>3, <1>5, SameParentsKeep DEF ZapInv

-----------------------------------------------------------------------------
(* The theorems.                                                           *)

\* Return with an error is because some template has no root.
LEMMA ErrorIsBroken ==
    ASSUME ZapInv, inlineParentList, result' = "error", result # "error"
    PROVE  \E n \in DOMAIN source : ~HasRoot(n)
<1>0. phase = "inlineParentList" /\ name \in Names
  BY DEF inlineParentList, ZapInv, Chained
<1>1. CASE name \notin DOMAIN tree
  <2>1. deps # <<>> /\ Ancestor(deps[1], name)
    BY <1>0, <1>1 DEF ZapInv, Chained
  <2>2. ~HasRoot(name)
    BY <1>0, <1>1, MissingHasNone DEF ZapInv, Trees
  <2>3. deps[1] \in DOMAIN source /\ deps[1] \in Names /\ Reaches(deps[1], name)
    BY <2>1, AncestorReached DEF ZapInv, Trees
  <2>4. ~HasRoot(deps[1])
    BY <1>0, <2>2, <2>3, RootOfReached DEF ZapInv
  <2>. QED
    BY <2>3, <2>4
<1>2. CASE name \in DOMAIN tree
  <2>1. IsDep(name)
    BY <1>2 DEF inlineParentList
  <2>2. Ancestor(name, name)
    BY <1>0, <2>1 DEF IsDep, ZapInv, Chained
  <2>3. ~HasRoot(name) /\ name \in DOMAIN source
    BY <1>2, <2>2, CycleHasNone DEF ZapInv, Trees
  <2>. QED
    BY <2>3
<1>. QED
  BY <1>1, <1>2

LEMMA ZapInitially == Init => ZapInv
<1> SUFFICES ASSUME Init PROVE ZapInv
  OBVIOUS
<1>0. /\ DOMAIN tree = {} /\ DOMAIN source = {} /\ DOMAIN out = {}
      /\ todo = {} /\ deps = <<>> /\ phase = "idle"
  BY DEF Init, NoNames
<1>. QED
  BY <1>0 DEF ZapInv, Trees, Inherits, Chained, Visited, ParentsInlined

LEMMA ZapStep == ZapInv /\ [Next]_vars => ZapInv'
<1> SUFFICES ASSUME ZapInv, [Next]_vars PROVE ZapInv'
  OBVIOUS
<1>1. CASE Parse
  BY <1>1, ParseKeeps
<1>2. CASE Zap
  BY <1>2, ZapKeeps
<1>3. CASE Compile
  BY <1>3, CompileParentsKeeps, ParentListKeeps, CompileNamesKeeps, CompileBlocksKeeps DEF Compile
<1>4. CASE Write
  BY <1>4, WriteKeeps
<1>5. CASE UNCHANGED vars
  <2>1. UNCHANGED <<tree, phase, todo, name, deps, out, source>>
    BY <1>5 DEF vars, zvars
  <2>2. SameParents
    BY <2>1, UnchangedTree DEF ZapInv, Trees
  <2>3. (\A n, m : Ancestor(n, m)' <=> Ancestor(n, m)) /\ (\A n : IsDep(n)' <=> IsDep(n))
    BY <2>1, SameSource DEF IsDep
  <2>4. Chained'
    BY <2>1, <2>3 DEF ZapInv, Chained, Ancestor, Reaches, Closed
  <2>5. Visited'
    BY <2>1, <2>3 DEF ZapInv, Visited
  <2>. QED
    BY <2>1, <2>2, <2>4, <2>5, SameParentsKeep DEF ZapInv
<1>. QED
  BY <1>1, <1>2, <1>3, <1>4, <1>5 DEF Next

\* The parents Compile leaves are ancestors by the definitions, of the templates it
\* has come to there are none, and inlineParentList has a chain of parents.
THEOREM ZapInvariant == Spec => []ZapInv
  BY ZapInitially, ZapStep, PTL DEF Spec

\* Compile fails if and only if some template has no root, whatever the order in
\* which it comes to the templates and whatever earlier calls inlined.
THEOREM CompileFailsIffBroken == Spec => FailsIffBroken
<1>1. ZapInv /\ [Next]_vars =>
        [/\ result' = "error" => result = "error" \/ \E n \in DOMAIN source : ~HasRoot(n)
         /\ phase = "inlineParents" /\ phase' = "inlineBlocks" =>
               \A n \in DOMAIN source : HasRoot(n)]_vars
  <2> SUFFICES ASSUME ZapInv, Next
               PROVE  /\ result' = "error" => result = "error" \/ \E n \in DOMAIN source : ~HasRoot(n)
                      /\ phase = "inlineParents" /\ phase' = "inlineBlocks" =>
                            \A n \in DOMAIN source : HasRoot(n)
    OBVIOUS
  <2>1. ASSUME result' = "error", result # "error"
        PROVE  inlineParentList
    BY <2>1 DEF Next, Parse, Zap, Compile, Write, compileParents, compileNames, compileBlocks, Return
  <2>2. ASSUME phase = "inlineParents", phase' = "inlineBlocks"
        PROVE  \A n \in DOMAIN source : HasRoot(n)
    <3>1. todo = {} /\ deps = <<>>
      BY <2>2 DEF Next, Parse, Zap, Compile, Write, compileParents, inlineParentList, compileNames,
                  compileBlocks, ZapInv, Chained
    <3>2. \A n \in DOMAIN tree : tree[n].parent = NoParent
      BY <2>2, <3>1 DEF ZapInv, Visited, IsDep
    <3>. QED
      BY <3>2 DEF ZapInv, Inherits, Trees
  <2>. QED
    BY <2>1, <2>2, ErrorIsBroken
<1>. QED
  BY <1>1, ZapInvariant, PTL DEF Spec, FailsIffBroken

\* What Zap writes extends nothing any more, and had a root, however often it is
\* called and whatever is parsed between the calls.
THEOREM WrittenAreInlined == Spec => []ParentsInlined
<1>1. ZapInv => ParentsInlined
  BY DEF ZapInv
<1>. QED
  BY <1>1, ZapInvariant, PTL
=============================================================================
