------------------------------ MODULE ZapLists ------------------------------
(***************************************************************************)
(* What zap/parse/compile.go does to lists of nodes, and what a list       *)
(* renders to by the rules of inheritance.                                 *)
(*                                                                         *)
(* A node is text, a block, a branch (if, range or with), or a list put in *)
(* place of a block.                                                       *)
(***************************************************************************)
EXTENDS Zap

\* No else list is <<>>, an else list l is <<l>>.
Text(x) == [k |-> "text", name |-> x, list |-> <<>>, els |-> <<>>]
Block(b, list) == [k |-> "block", name |-> b, list |-> list, els |-> <<>>]
Branch(list, els) == [k |-> "branch", name |-> "if", list |-> list, els |-> els]
List(list) == [k |-> "list", name |-> "", list |-> list, els |-> <<>>]
Else(nd) == IF nd.els = <<>> THEN <<>> ELSE nd.els[1]

\* f with x at n.
Set(f, n, x) == [m \in DOMAIN f \cup {n} |-> IF m = n THEN x ELSE f[m]]

-----------------------------------------------------------------------------
(* Lists of nodes.                                                         *)

RECURSIVE extractBlocks(_), nilElse(_), replace(_, _, _), inlineBlocks(_)

\* extractBlocks: names of the blocks, at any depth.
BlockNames(list) == DOMAIN extractBlocks(list)

\* The map extractBlocks fills: of blocks of one name the last one is in it.
extractBlocks(list) ==
    IF list = <<>> THEN NoNames
    ELSE LET nd == Head(list)
             own == IF nd.k = "block" THEN Set(NoNames, nd.name, nd.list) ELSE NoNames
             maps == <<own, extractBlocks(nd.list), extractBlocks(Else(nd)), extractBlocks(Tail(list))>>
             last(b) == CHOOSE i \in 1..4 : b \in DOMAIN maps[i]
                                            /\ \A j \in i+1..4 : b \notin DOMAIN maps[j]
         IN [b \in UNION {DOMAIN maps[i] : i \in 1..4} |-> maps[last(b)][b]]

\* Walking the list, extractBlocks and inlineBlocks come to an ElseList that is
\* nil, which they dereference.
nilElse(list) ==
    \E i \in DOMAIN list :
        \/ list[i].k = "branch" /\ list[i].els = <<>>
        \/ nilElse(list[i].list)
        \/ nilElse(Else(list[i]))

\* The loop of inlineParent over dst, the blocks of the parent: a block gets the
\* list of the one with its name in src; one that is followed by another of its
\* name, nested in it or among the names after, is not in dst.
replace(list, src, after) ==
    LET later(i) == after \cup BlockNames(SubSeq(list, i + 1, Len(list)))
        node(nd, aft) ==
            IF nd.k = "block" /\ nd.name \in DOMAIN src
                 /\ nd.name \notin BlockNames(nd.list) \cup aft
            THEN [nd EXCEPT !.list = src[nd.name]]
            ELSE [nd EXCEPT !.list = replace(nd.list, src, aft \cup BlockNames(Else(nd))),
                            !.els = IF @ = <<>> THEN @ ELSE <<replace(@[1], src, aft)>>]
    IN [i \in DOMAIN list |-> node(list[i], later(i))]

\* What inlineParent makes of the parent's list and the one of the template.
replaceBlocks(list, own) == replace(list, extractBlocks(own), {})

\* Mutant of inlineBlocks: the lists put in place of blocks are not walked.
inlineBlocksOnce(list) ==
    [i \in DOMAIN list |-> IF list[i].k = "block" THEN List(list[i].list) ELSE list[i]]

\* inlineBlocks: a block becomes its list.
inlineBlocks(list) ==
    [i \in DOMAIN list |->
        LET nd == list[i]
            inlined == [nd EXCEPT !.list = inlineBlocks(@),
                                  !.els = IF @ = <<>> THEN @ ELSE <<inlineBlocks(@[1])>>]
        IN IF nd.k = "block" THEN List(inlined.list) ELSE inlined]

RECURSIVE IsEmpty(_)

\* parse.IsEmptyTree: nothing but space, possibly in blocks.
IsEmpty(list) ==
    \A i \in DOMAIN list : \/ list[i].k = "text" /\ list[i].name = "space"
                           \/ list[i].k \in {"block", "list"} /\ IsEmpty(list[i].list)

-----------------------------------------------------------------------------
(* What the inheritance means, by the definitions as parsed.               *)

RECURSIVE Chain(_), BlocksIn(_), Rendered(_, _), Uses(_, _)

\* The template, its parent, and so on.
Chain(n) == <<n>> \o IF source[n].parent = NoParent THEN <<>> ELSE Chain(source[n].parent)

BlocksIn(list) ==
    UNION {(IF list[i].k = "block" THEN {list[i]} ELSE {})
           \cup BlocksIn(list[i].list) \cup BlocksIn(Else(list[i])) : i \in DOMAIN list}

\* The block that counts for one of the name: the first along the chain.
Winner(chain, nd) ==
    LET having == {i \in DOMAIN chain : \E b \in BlocksIn(source[chain[i]].list) : b.name = nd.name}
        first == CHOOSE i \in having : \A j \in having : i <= j
    IN IF having = {} THEN nd
       ELSE CHOOSE b \in BlocksIn(source[chain[first]].list) : b.name = nd.name

\* What a list renders to, its blocks being those that count.
Rendered(chain, list) ==
    IF list = <<>> THEN <<>>
    ELSE LET nd == Head(list)
         IN (CASE nd.k = "text" -> <<nd.name>>
               [] nd.k = "block" -> Rendered(chain, Winner(chain, nd).list)
               [] nd.k = "list" -> Rendered(chain, nd.list)
               [] nd.k = "branch" -> <<"if">> \o Rendered(chain, nd.list) \o <<"else">>
                                       \o Rendered(chain, Else(nd)) \o <<"end">>)
            \o Rendered(chain, Tail(list))

\* The names of the blocks that are used in this.
Uses(chain, list) ==
    IF list = <<>> THEN <<>>
    ELSE LET nd == Head(list)
             in == IF nd.k = "block" THEN Winner(chain, nd).list ELSE nd.list
         IN (IF nd.k = "block" THEN <<nd.name>> ELSE <<>>)
            \o Uses(chain, in) \o Uses(chain, Else(nd)) \o Uses(chain, Tail(list))

Root(chain) == source[chain[Len(chain)]].list

\* Each block is used once in the template's parent, its parent and so on.
UsedOnce(chain) ==
    \A i \in 2..Len(chain) :
        LET up == SubSeq(chain, i, Len(chain))
            uses == Uses(up, Root(up))
        IN \A a, b \in DOMAIN uses : uses[a] = uses[b] => a = b

\* "renders: foo t2b1 t3b2 bar": what Zap writes for a template renders as its root
\* does with each block as the most derived template has it, whatever the order of
\* the map, the failed calls before, and the order of parsing.  Only the last of
\* several uses of a block is replaced, and no block of a parent that was
\* written before the template was parsed.
RendersAsInherited ==
    \A n \in DOMAIN out :
        LET chain == Chain(n)
        IN (/\ UsedOnce(chain)
            /\ \A i \in 2..Len(chain) : chain[i] \notin written[n])
           => Rendered(<<>>, out[n]) = Rendered(chain, Root(chain))

\* "guaranteed to be compatible with the template language from text/template":
\* what is written has no parents and no blocks.
NoBlocksWritten ==
    ParentsInlined /\ \A n \in DOMAIN out : BlocksIn(out[n]) = {}
=============================================================================
