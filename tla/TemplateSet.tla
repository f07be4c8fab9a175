---------------------------- MODULE TemplateSet ----------------------------
(***************************************************************************)
(* template: Set.  A set maps template names to parsed define nodes and    *)
(* keeps two maps of functions, one the parser looks names up in and one   *)
(* the executor does.  Sets are made with new(Set) or Clone; nodes are     *)
(* referred to by pointers, and Escape rewrites them in place.             *)
(*                                                                         *)
(* A define node is abstracted to the functions and the templates it calls *)
(* and whether Escape has rewritten it.  Its address is the set and the    *)
(* name it was created for: as NoSharedNodes says, no other set points to  *)
(* it when the set creates the name again.                                 *)
(***************************************************************************)
EXTENDS Naturals, Sequences, FiniteSets

CONSTANTS
    Sets,           \* addresses of Set objects
    BaseNames,      \* template names an author writes
    MaxMangle,      \* bound: how often context.mangle is applied to a name
    UserFuncs,      \* functions passed to Funcs
    Builtins,       \* the builtins map
    EscFuncs,       \* escape.FuncMap
    Delimiters,     \* delimiter pairs
    DefaultDelims,
    Texts,          \* template sources
    Unreadable,     \* a file ReadFile cannot read
    MaxFiles,       \* bound: files in one call of ParseFiles
    NoNode

Funcs == UserFuncs \cup Builtins \cup EscFuncs
Names == BaseNames \X (0..MaxMangle)
Plain(n) == <<n, 0>>
mangle(n) == <<n[1], n[2] + 1>>
unmangle(n) == <<n[1], n[2] - 1>>

Definition == [name : BaseNames, funcs : SUBSET Funcs, calls : SUBSET Names]
Body == [funcs : SUBSET Funcs, calls : SUBSET Names, escaped : BOOLEAN]
Blank == [funcs |-> {}, calls |-> {}, escaped |-> FALSE]

ASSUME TextsAssumption ==
    /\ Texts \subseteq [delims : Delimiters, ok : BOOLEAN, defs : SUBSET Definition]
    /\ Unreadable \notin Texts
ASSUME DelimsAssumption == DefaultDelims \in Delimiters
ASSUME BoundsAssumption == MaxMangle \in Nat /\ MaxFiles \in Nat
ASSUME NoNodeAssumption == NoNode \notin Sets \X Names

VARIABLES
    made,           \* the sets that exist
    tree,           \* s.Tree: the address of the node of each name
    heap,           \* the define nodes
    delims,         \* s.leftDelim and s.rightDelim
    parseFuncs,     \* names in s.parseFuncs
    execFuncs,      \* names in s.execFuncs
    todo            \* the files ParseFiles has left to read

vars == <<made, tree, heap, delims, parseFuncs, execFuncs, todo>>

Defined(s) == {n \in Names : tree[s][n] # NoNode}
Node(s, n) == heap[tree[s][n]]

TypeOK ==
    /\ made \in SUBSET Sets
    /\ tree \in [Sets -> [Names -> (Sets \X Names) \cup {NoNode}]]
    /\ heap \in [Sets \X Names -> Body]
    /\ delims \in [Sets -> Delimiters]
    /\ parseFuncs \in [Sets -> SUBSET Funcs]
    /\ execFuncs \in [Sets -> SUBSET Funcs]
    /\ todo \in [Sets -> Seq(Texts \cup {Unreadable})]

Init ==
    /\ made = {}
    /\ tree = [s \in Sets |-> [n \in Names |-> NoNode]]
    /\ heap = [a \in Sets \X Names |-> Blank]
    /\ delims = [s \in Sets |-> DefaultDelims]
    /\ parseFuncs = [s \in Sets |-> {}]
    /\ execFuncs = [s \in Sets |-> {}]
    /\ todo = [s \in Sets |-> <<>>]

Ready(s) == s \in made /\ todo[s] = <<>>

\* new(Set)
NewSet(s) ==
    /\ s \notin made
    /\ made' = made \cup {s}
    /\ UNCHANGED <<tree, heap, delims, parseFuncs, execFuncs, todo>>

\* Delims
Delims(s, d) ==
    /\ Ready(s)
    /\ delims' = [delims EXCEPT ![s] = d]
    /\ UNCHANGED <<made, tree, heap, parseFuncs, execFuncs, todo>>

\* addValueFuncs panics at the first value that is not a usable function; the
\* values the map iteration came to before it are in.
AddValueFuncs(s, F, bad) ==
    \E done \in SUBSET (F \ bad) :
        /\ bad = {} => done = F
        /\ execFuncs' = [execFuncs EXCEPT ![s] = @ \cup done]

\* Mutated forms of Funcs and of CopyTree.
SetFuncsParserFirst(s, F, bad) ==   \* addFuncs is called before addValueFuncs
    /\ Ready(s)
    /\ AddValueFuncs(s, F, bad)
    /\ parseFuncs' = [parseFuncs EXCEPT ![s] = @ \cup F]
    /\ UNCHANGED <<made, tree, heap, delims, todo>>
CopyShallow(s, t) ==                \* Tree.CopyShallow for Tree.CopyTree
    /\ tree' = [tree EXCEPT ![t] = tree[s]]
    /\ UNCHANGED heap

\* Funcs: the parser learns of the functions after the executor has them all.
SetFuncs(s, F, bad) ==
    /\ Ready(s)
    /\ AddValueFuncs(s, F, bad)
    /\ parseFuncs' = IF bad = {} THEN [parseFuncs EXCEPT ![s] = @ \cup F] ELSE parseFuncs
    /\ UNCHANGED <<made, tree, heap, delims, todo>>

\* Tree.CopyTree: a deep copy, into the set t.
CopyTree(s, t) ==
    /\ tree' = [tree EXCEPT ![t] =
                  [n \in Names |-> IF tree[s][n] = NoNode THEN NoNode ELSE <<t, n>>]]
    /\ heap' = [a \in DOMAIN heap |->
                  IF a[1] = t THEN IF tree[s][a[2]] = NoNode THEN Blank ELSE Node(s, a[2])
                  ELSE heap[a]]

\* Clone
Clone(s, t) ==
    /\ Ready(s)
    /\ t \notin made
    /\ made' = made \cup {t}
    /\ delims' = [delims EXCEPT ![t] = delims[s]]
    /\ parseFuncs' = [parseFuncs EXCEPT ![t] = parseFuncs[s]]
    /\ execFuncs' = [execFuncs EXCEPT ![t] = execFuncs[s]]
    /\ CopyTree(s, t)
    /\ UNCHANGED todo

-----------------------------------------------------------------------------
(* Escape.                                                                 *)

\* The node escaping starts from: the template of that name or, for a name to
\* be derived, a copy of the template it is derived from.
Source(s, n) == IF n \in Defined(s) THEN Node(s, n) ELSE Node(s, unmangle(n))

\* Mutated form: commit applies the edits and forgets the derived templates.
EscapeTreeNoDerived(s) ==
    /\ UNION {Node(s, n).calls : n \in Defined(s)} \subseteq Defined(s)
    /\ heap' = [a \in DOMAIN heap |->
                  IF \E n \in Defined(s) : a = tree[s][n]
                  THEN [funcs |-> heap[a].funcs \cup EscFuncs,
                        calls |-> {mangle(c) : c \in heap[a].calls},
                        escaped |-> TRUE]
                  ELSE heap[a]]
    /\ UNCHANGED tree

\* EscapeTree succeeds: every call names a template, calls in a context other
\* than text go to templates derived for it (inNonText[n] are those made by n),
\* the edits are committed in place and the derived templates added.
EscapeTree(s) ==
    LET dom == Defined(s)
        called == UNION {Node(s, n).calls : n \in dom}
    IN
    /\ called \subseteq dom
    /\ \A n \in called : n[2] < MaxMangle       \* bound
    /\ \E derived \in SUBSET {mangle(n) : n \in called} :
       \E inNonText \in [dom \cup derived -> SUBSET called] :
          LET all == dom \cup derived
              targets == {mangle(c) : c \in UNION {inNonText[n] : n \in all}}
          IN
          /\ \A n \in all : inNonText[n] \subseteq Source(s, n).calls
          /\ derived \subseteq targets
          /\ targets \subseteq all
          /\ tree' = [tree EXCEPT ![s] =
                        [n \in Names |-> IF n \in derived \ dom THEN <<s, n>> ELSE tree[s][n]]]
          /\ heap' = [a \in DOMAIN heap |->
                        IF \E n \in all : a = tree'[s][n]
                        THEN LET n == CHOOSE m \in all : a = tree'[s][m]
                                 src == Source(s, n)
                             IN [funcs |-> src.funcs \cup EscFuncs,
                                 calls |-> (src.calls \ inNonText[n])
                                              \cup {mangle(c) : c \in inNonText[n]},
                                 escaped |-> TRUE]
                        ELSE heap[a]]

\* Mutated form: clones share the map that is emptied.
EscapeTreeFailsShared(s) ==
    /\ Defined(s) # {}
    /\ tree' = [t \in Sets |-> [n \in Names |-> NoNode]]
    /\ heap' = [a \in DOMAIN heap |-> Blank]

\* EscapeTree fails, for a reason in the text of some template or a call of a
\* template that is not there: everything is removed from the tree.
EscapeTreeFails(s) ==
    /\ Defined(s) # {}
    /\ tree' = [tree EXCEPT ![s] = [n \in Names |-> NoNode]]
    /\ heap' = [a \in DOMAIN heap |-> IF a[1] = s THEN Blank ELSE heap[a]]

\* Escape: whatever EscapeTree does, its functions are added.
Escape(s) ==
    /\ Ready(s)
    /\ EscapeTree(s) \/ EscapeTreeFails(s)
    /\ execFuncs' = [execFuncs EXCEPT ![s] = @ \cup EscFuncs]
    /\ parseFuncs' = [parseFuncs EXCEPT ![s] = @ \cup EscFuncs]
    /\ UNCHANGED <<made, delims, todo>>

-----------------------------------------------------------------------------
(* Parsing.                                                                *)

\* What parse.Parse finds in a text: text in other delimiters has no action in
\* it, and text outside definitions is skipped.
Found(s, text) == IF text.delims = delims[s] THEN text.defs ELSE {}

\* parse.Parse: no syntax error, no unknown function, no name defined twice.
Parses(s, text) ==
    /\ text.delims = delims[s] => text.ok
    /\ \A d \in Found(s, text) : d.funcs \subseteq Builtins \cup parseFuncs[s]
    /\ \A d, e \in Found(s, text) : d.name = e.name => d = e

\* Tree.Add, for the definitions in D.
Add(s, D) ==
    LET new(n) == CHOOSE d \in D : Plain(d.name) = n
        isNew(n) == \E d \in D : Plain(d.name) = n
    IN
    /\ tree' = [tree EXCEPT ![s] = [n \in Names |-> IF isNew(n) THEN <<s, n>> ELSE tree[s][n]]]
    /\ heap' = [a \in DOMAIN heap |->
                  IF a[1] = s /\ isNew(a[2])
                  THEN [funcs |-> new(a[2]).funcs, calls |-> new(a[2]).calls, escaped |-> FALSE]
                  ELSE heap[a]]

\* Mutated form: a template that is there is replaced.
AddTreeReplacing(s, D, failed) == ~failed /\ Add(s, D)

\* Tree.AddTree stops at the first name that is already there; the definitions
\* the map iteration came to before it stay in.
AddTree(s, D, failed) ==
    LET old == {d \in D : Plain(d.name) \in Defined(s)} IN
    /\ failed <=> old # {}
    /\ \E done \in SUBSET (D \ old) : (~failed => done = D) /\ Add(s, done)

\* Set.parse of one text.
parse(s, text, failed) ==
    \/ ~Parses(s, text) /\ failed /\ UNCHANGED <<tree, heap>>
    \/ Parses(s, text) /\ AddTree(s, Found(s, text), failed)

\* Parse
Parse(s, text) ==
    /\ Ready(s)
    /\ \E failed \in BOOLEAN : parse(s, text, failed)
    /\ UNCHANGED <<made, delims, parseFuncs, execFuncs, todo>>

\* ParseFiles and ParseGlob are given the files to parse.
ParseFiles(s, files) ==
    /\ Ready(s)
    /\ files # <<>>
    /\ todo' = [todo EXCEPT ![s] = files]
    /\ UNCHANGED <<made, tree, heap, delims, parseFuncs, execFuncs>>

\* One turn of the loop of ParseFiles: an error leaves the other files unread.
ParseNextFile(s) ==
    /\ todo[s] # <<>>
    /\ \E failed \in BOOLEAN :
          /\ IF Head(todo[s]) = Unreadable
             THEN failed /\ UNCHANGED <<tree, heap>>
             ELSE parse(s, Head(todo[s]), failed)
          /\ todo' = [todo EXCEPT ![s] = IF failed THEN <<>> ELSE Tail(@)]
    /\ UNCHANGED <<made, delims, parseFuncs, execFuncs>>

Files == UNION {[1..k -> Texts \cup {Unreadable}] : k \in 1..MaxFiles}

Next ==
    \E s \in Sets :
        \/ NewSet(s)
        \/ \E d \in Delimiters : Delims(s, d)
        \/ \E F \in SUBSET UserFuncs : \E bad \in SUBSET F : SetFuncs(s, F, bad)
        \/ \E t \in Sets : Clone(s, t)
        \/ Escape(s)
        \/ \E text \in Texts : Parse(s, text)
        \/ \E files \in Files : ParseFiles(s, files)
        \/ ParseNextFile(s)

Spec == Init /\ [][Next]_vars

-----------------------------------------------------------------------------
\* Execution never meets an unknown function: what the templates of a set call
\* is in the map the executor looks in, whatever panicked in Funcs, was escaped
\* or was cloned on the way.
FunctionsResolve ==
    \A s \in Sets : \A n \in Defined(s) :
        Node(s, n).funcs \subseteq Builtins \cup execFuncs[s]

\* An escaped template calls templates that are there, the derived ones of its
\* contexts included, and goes on doing so after more is parsed or cloned.
EscapedCallsResolve ==
    \A s \in Sets : \A n \in Defined(s) :
        Node(s, n).escaped => Node(s, n).calls \subseteq Defined(s)

\* No two names of the same or of different sets share a node: Escape, which
\* rewrites nodes, can not reach the nodes of a clone or of its original.
NoSharedNodes ==
    \A s, t \in Sets : \A n \in Defined(s) : \A m \in Defined(t) :
        tree[s][n] = tree[t][m] => s = t /\ n = m

\* What a set shows for every name.
View(s) == [n \in Defined(s) |-> Node(s, n)]

\* An operation on one set leaves what every other set holds as it was.
OthersUntouched ==
    [][\A s, t \in Sets :
         s # t /\ t \in made /\ View(s)' # View(s) => View(t)' = View(t)]_vars

\* A template is never replaced: parsing leaves the ones that are there alone,
\* and only Escape changes them, or removes them all when it fails.
NeverRedefined ==
    [][\A s \in Sets : Defined(s)' # {} =>
         \A n \in Defined(s) : Node(s, n)' = Node(s, n) \/ Node(s, n)'.escaped]_vars
=============================================================================
