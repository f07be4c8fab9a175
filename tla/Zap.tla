-------------------------------- MODULE Zap --------------------------------
(***************************************************************************)
(* zap: templates with inheritance.  Texts are parsed into definitions,    *)
(* which may extend a parent and then consist of blocks; Zap compiles them *)
(* to templates without parents and blocks and writes those.               *)
(*                                                                         *)
(* Lists of nodes are values here: inlineParent copies what it takes from  *)
(* a parent, and a list two blocks of one template share is changed only   *)
(* by inlineBlocks, for which once is as good as twice.  What is done to a *)
(* list is a parameter, given in ZapLists.                                 *)
(***************************************************************************)
EXTENDS Naturals, Sequences, FiniteSets

CONSTANTS
    Names,          \* template names
    NoParent,       \* the parent of a template that extends none
    Texts,          \* texts: sets of definitions
    MaxZaps         \* bound: calls of Zap

CONSTANTS
    Empty(_),       \* whether parse.IsEmptyTree, of a list
    NilElse(_),     \* whether a walk of the list comes to an ElseList that is nil
    Replaced(_, _), \* the list of a parent, its blocks replaced by those of a list
    Inlined(_)      \* what inlineBlocks makes of a list

ASSUME NoParentAssumption == NoParent \notin Names
ASSUME MaxZapsAssumption == MaxZaps \in Nat
ASSUME TextsAssumption ==
    \A text \in Texts : \A d \in text : d.name \in Names /\ d.parent \in Names \cup {NoParent}

VARIABLES
    tree,           \* z.tree: parent and list of each template
    phase,          \* where Zap is
    todo,           \* templates the range over the map has not come to
    name, deps,     \* the variables of inlineParentList; no name is NoParent
    result,         \* how the last call of Zap ended
    out,            \* what it last wrote for each template
    zaps            \* number of calls of Zap

VARIABLES
    source,         \* history: the definitions as parsed
    written         \* history: the templates written before each was parsed

zvars == <<tree, phase, todo, name, deps, result, out, zaps>>
vars == <<zvars, source, written>>

NoNames == [n \in {} |-> <<>>]

-----------------------------------------------------------------------------
(* The zapper.                                                             *)

Init ==
    /\ tree = NoNames /\ phase = "idle" /\ todo = {} /\ name = NoParent /\ deps = <<>>
    /\ result = "none" /\ out = NoNames /\ zaps = 0
    /\ source = NoNames /\ written = NoNames

\* addTree adds the definitions of a text in any order, up to a duplicate:
\* whether it may end with those added.
addTree(added, defs) ==
    LET dup == {d \in defs : d.name \in DOMAIN tree}
    IN added \subseteq defs \ dup /\ (dup = {} => added = defs)

\* Parse, or a file of ParseFiles: nothing is added if the text does not parse,
\* which is as a text without definitions.
Parse ==
    /\ phase = "idle"
    /\ \E text \in Texts :
         LET defs == {d \in text : ~Empty(d.list)}
             def(n) == CHOOSE d \in defs : d.name = n
         IN \E added \in SUBSET defs :
              /\ addTree(added, defs)
              /\ LET new == {d.name : d \in added}
                     put(f, g(_)) == [n \in DOMAIN f \cup new |-> IF n \in new THEN g(n) ELSE f[n]]
                     node(n) == [parent |-> def(n).parent, list |-> def(n).list]
                     before(n) == DOMAIN out
                 IN /\ tree' = put(tree, node)
                    /\ source' = put(source, node)
                    /\ written' = put(written, before)
    /\ UNCHANGED <<phase, todo, name, deps, result, out, zaps>>

\* Zap calls Compile.
Zap ==
    /\ phase = "idle"
    /\ zaps < MaxZaps
    /\ zaps' = zaps + 1
    /\ phase' = "inlineParents"
    /\ todo' = DOMAIN tree
    /\ result' = "none"
    /\ UNCHANGED <<tree, name, deps, out, source, written>>

Return(how) ==
    /\ result' = how
    /\ phase' = IF how = "panic" THEN "halt" ELSE "idle"
    /\ todo' = {} /\ name' = NoParent /\ deps' = <<>>

-----------------------------------------------------------------------------
(* Compile, whose loops visit the templates in any order.                  *)

\* The first loop comes to n, for which it calls inlineParentList; or it is over.
compileParents ==
    /\ phase = "inlineParents"
    /\ \/ \E n \in todo : todo' = todo \ {n} /\ name' = n /\ phase' = "inlineParentList"
       \/ todo = {} /\ todo' = DOMAIN tree /\ phase' = "inlineBlocks" /\ UNCHANGED name
    /\ UNCHANGED <<tree, deps, result>>

IsDep(n) == \E i \in DOMAIN deps : deps[i] = n

\* Mutant of inlineParentList: a template met before ends the chain.
inlineParentListLoops ==
    /\ phase = "inlineParentList"
    /\ \/ name \notin DOMAIN tree /\ Return("error")
       \/ /\ name \in DOMAIN tree /\ (tree[name].parent = NoParent \/ IsDep(name))
          /\ phase' = "inlineParent" /\ name' = NoParent
          /\ UNCHANGED <<todo, deps, result>>
       \/ /\ name \in DOMAIN tree /\ tree[name].parent # NoParent /\ ~IsDep(name)
          /\ deps' = Append(deps, name) /\ name' = tree[name].parent
          /\ UNCHANGED <<phase, todo, result>>
    /\ UNCHANGED tree

\* A turn of the loop of inlineParentList.
inlineParentList ==
    /\ phase = "inlineParentList"
    /\ \/ name \notin DOMAIN tree /\ Return("error")
       \/ /\ name \in DOMAIN tree /\ tree[name].parent = NoParent
          /\ phase' = "inlineParent" /\ name' = NoParent
          /\ UNCHANGED <<todo, deps, result>>
       \/ /\ name \in DOMAIN tree /\ tree[name].parent # NoParent
          /\ \/ IsDep(name) /\ Return("error")
             \/ /\ ~IsDep(name)
                /\ deps' = Append(deps, name) /\ name' = tree[name].parent
                /\ UNCHANGED <<phase, todo, result>>
    /\ UNCHANGED tree

\* Mutant of inlineParent: the parent's list is taken as it is.
inlineParentNoBlocks(n) ==
    tree' = [tree EXCEPT ![n] = [parent |-> NoParent, list |-> tree[tree[n].parent].list]]

\* inlineParent: the template becomes a copy of its parent, with its blocks.
inlineParent(n) ==
    LET parent == tree[tree[n].parent]
    IN tree' = [tree EXCEPT ![n] = [parent |-> parent.parent, list |-> Replaced(parent.list, @.list)]]

\* "inline in reverse order"
compileNames ==
    /\ phase = "inlineParent"
    /\ \/ /\ deps = <<>>
          /\ phase' = "inlineParents"
          /\ UNCHANGED <<tree, todo, name, deps, result>>
       \/ /\ deps # <<>>
          /\ LET n == deps[Len(deps)]
                 panics == NilElse(tree[n].list) \/ NilElse(tree[tree[n].parent].list)
             IN \/ panics /\ Return("panic") /\ UNCHANGED tree
                \/ /\ ~panics
                   /\ inlineParent(n)
                   /\ deps' = SubSeq(deps, 1, Len(deps) - 1)
                   /\ UNCHANGED <<phase, todo, name, result>>

\* The second loop comes to n.
compileBlocks ==
    /\ phase = "inlineBlocks"
    /\ \E n \in todo :
          \/ NilElse(tree[n].list) /\ Return("panic") /\ UNCHANGED tree
          \/ /\ ~NilElse(tree[n].list)
             /\ tree' = [tree EXCEPT ![n].list = Inlined(@)]
             /\ todo' = todo \ {n}
             /\ UNCHANGED <<phase, name, deps, result>>

Compile ==
    /\ compileParents \/ inlineParentList \/ compileNames \/ compileBlocks
    /\ UNCHANGED <<out, zaps, source, written>>

\* Zap writes the compiled templates.
Write ==
    /\ phase = "inlineBlocks" /\ todo = {}
    /\ out' = [n \in DOMAIN tree |-> tree[n].list]
    /\ Return("ok")
    /\ UNCHANGED <<tree, zaps, source, written>>

Next == Parse \/ Zap \/ Compile \/ Write

Spec == Init /\ [][Next]_vars

-----------------------------------------------------------------------------

\* Each of T is not defined, or the parent it was defined with is one of T again.
Rootless(T) == \A n \in T : n \in DOMAIN source => source[n].parent \in T

\* The parents of n lead to a template without parent.
HasRoot(n) == \A T \in SUBSET Names : n \in T => ~Rootless(T)

\* Compile fails if and only if some template has no root, because of a parent
\* that is missing or a cycle: neither depends on which template it comes to
\* first or on what failed calls have inlined.
FailsIffBroken ==
    [][/\ result' = "error" => result = "error" \/ \E n \in DOMAIN source : ~HasRoot(n)
       /\ phase = "inlineParents" /\ phase' = "inlineBlocks" => \A n \in DOMAIN source : HasRoot(n)]_vars

\* What is written has no parent any more, and had a root.
ParentsInlined == \A n \in DOMAIN out : n \in DOMAIN tree /\ tree[n].parent = NoParent /\ HasRoot(n)
=============================================================================
