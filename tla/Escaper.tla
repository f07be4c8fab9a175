------------------------------- MODULE Escaper -------------------------------
(***************************************************************************)
(* template/escape: EscapeTree.  The templates of a tree are escaped one   *)
(* after the other, in the order the map is iterated in; what was inferred *)
(* and the edits to make are collected in the escaper e, whose commit      *)
(* applies them.  Then a template is executed, and the context its output  *)
(* is really in is followed on the way.                                    *)
(*                                                                         *)
(* A node is a record with op:                                             *)
(*   text      text, and source: the text as it was parsed                 *)
(*   action    pipe: the pipeline, a sequence of commands; "." stands for  *)
(*             a command that is no identifier                             *)
(*   decl      an action that declares a variable                          *)
(*   if, range, block    list and elseList (with is if, for another dot)   *)
(*   template  name                                                        *)
(***************************************************************************)
EXTENDS EscapeText, SequencesExt, TLC

CONSTANTS
    Programs,       \* a sequence of sets of trees to escape: functions from names to
                    \* lists of nodes
    MaxDepth        \* bound: lists being walked; the code has none

VARIABLES
    tree,           \* the tree
    e,              \* the escaper
    todo,           \* the templates EscapeTree has not come to
    phase,          \* "escaping", "failed", "panic", "committed", "running" or "done"
    stack,          \* execution: the lists being walked
    ctx,            \* ... the context of the text as it was parsed
    out             \* ... the context of the text that is written

vars == <<tree, e, todo, phase, stack, ctx, out>>

\* A new escaper with the inferences of another.
newEscaper(inferred) ==
    [output |-> inferred.output,        \* the output context of a template
     ends |-> inferred.ends,            \* history: the context it was found to end in
     derived |-> {},                    \* templates derived for another context
     called |-> {},
     actions |-> <<>>, calls |-> <<>>, texts |-> <<>>,      \* edits of nodes
     panic |-> FALSE,
     exact |-> TRUE]                    \* history: no context was approximated
blank == newEscaper([output |-> <<>>, ends |-> <<>>])

-----------------------------------------------------------------------------
(* The pipeline of an action.                                              *)

equivEscapers(f) ==
    CASE f \in {"attrescaper", "htmlescaper", "nospaceescaper", "rcdataescaper"} -> "html"
      [] f \in {"urlescaper", "urlnormalizer"} -> "urlquery"
      [] OTHER -> f
escFnsEq(f, g) == equivEscapers(f) = equivEscapers(g)

\* redundantFuncs: g after f changes nothing.
redundantFuncs(f, g) ==
    \/ f = "commentescaper" /\ g \in {"attrescaper", "nospaceescaper", "htmlescaper"}
    \/ f \in {"cssescaper", "jsregexpescaper", "jsstrescaper"} /\ g = "attrescaper"
    \/ f = "urlescaper" /\ g = "urlnormalizer"

appendCmd(cmds, cmd) ==
    IF cmds # <<>> /\ redundantFuncs(Last(cmds), cmd) THEN cmds ELSE Append(cmds, cmd)

\* indexOfStr, or 0 if there is none.
indexOfStr(f, s) == LET found == {i \in DOMAIN s : escFnsEq(f, s[i])} IN IF found = {} THEN 0 ELSE Min(found)

\* Existing identifier commands merged with the sanitizers needed.
RECURSIVE mergeCmds(_, _, _)
mergeCmds(cmds, idents, s) ==
    IF idents = <<>> THEN FoldLeft(appendCmd, cmds, s)
    ELSE LET i == indexOfStr(Head(idents), s)
             before == FoldLeft(appendCmd, cmds, SubSeq(s, 1, i - 1))
         IN mergeCmds(appendCmd(before, Head(idents)), Tail(idents), SubSeq(s, i + 1, Len(s)))

\* ensurePipelineContains.  The identifiers it looks at are those behind the first
\* command that is none; another such command among them is a failed assertion.
ensurePipelineContains(pipe, s) ==
    LET others == {i \in DOMAIN pipe : pipe[i] = "."}
        first == IF others = {} THEN 0 ELSE Min(others)
        idents == SubSeq(pipe, first + 1, Len(pipe))
        dups[k \in 0..Len(idents)] ==
            IF k = 0 THEN 0
            ELSE IF dups[k-1] < Len(s) /\ escFnsEq(s[dups[k-1] + 1], idents[k]) THEN dups[k-1] + 1
            ELSE dups[k-1]
    IN IF s = <<>> \/ \E i \in DOMAIN pipe : pipe[i] = "noescape" THEN [pipe |-> pipe, panic |-> FALSE]
       ELSE IF \E k \in DOMAIN idents : idents[k] = "." /\ dups[k-1] < Len(s)
       THEN [pipe |-> pipe, panic |-> TRUE]
       ELSE IF dups[Len(idents)] = Len(s) THEN [pipe |-> pipe, panic |-> FALSE]
       ELSE [pipe |-> mergeCmds(SubSeq(pipe, 1, first), idents, s), panic |-> FALSE]

-----------------------------------------------------------------------------
(* Edits.  A node is named by its template and its path.                   *)

\* Editing a node twice panics: node shared between templates.
editNode(es, field, id, edit) ==
    IF id \in DOMAIN es[field] THEN [es EXCEPT !.panic = TRUE]
    ELSE [es EXCEPT ![field] = (id :> edit) @@ es[field]]

\* Copy inferences and edits from e1 back into es.
mergeEscaper(es, e1) ==
    [output |-> e1.output @@ es.output, ends |-> e1.ends @@ es.ends, derived |-> es.derived \cup e1.derived,
     called |-> es.called \cup e1.called,
     actions |-> e1.actions @@ es.actions, calls |-> e1.calls @@ es.calls, texts |-> e1.texts @@ es.texts,
     panic |-> \/ es.panic \/ e1.panic
               \/ \E f \in {"actions", "calls", "texts"} : DOMAIN es[f] \cap DOMAIN e1[f] # {},
     exact |-> es.exact /\ e1.exact]

\* Mutant of dropEscaper: its edits are kept.
dropEscaperKeeps(es, e1) == mergeEscaper(es, e1)

\* An escaper is dropped without its edits; its panic is not undone.
dropEscaper(es, e1) == [es EXCEPT !.panic = @ \/ e1.panic]
inexact(es, cond) == [es EXCEPT !.exact = @ /\ ~cond]

escapeAction(es, c, id, n) ==
    [c |-> afterAction(c),
     e |-> IF IsError(afterAction(c)) THEN es
           ELSE editNode(es, "actions", id, ensurePipelineContains(n.pipe, escapers(nudge(c))))]

\* What escapeText gave is noted as an edit.
noteText(es, id, r) ==
    LET es1 == IF r.edited THEN editNode(es, "texts", id, r.text) ELSE es
    IN [c |-> r.c, e |-> [es1 EXCEPT !.panic = @ \/ r.panic]]
escapeTextNode(es, c, id, n) == noteText(es, id, escapeText(c, n.text))

-----------------------------------------------------------------------------
(* The walk over the templates.  A result has the context and the escaper. *)

RECURSIVE escapeList(_, _, _, _)
RECURSIVE escapeTree(_, _, _)

joinNudges(a, b) == joinUnnudged(a, b) = Error /\ join(a, b) # Error

\* The list of a range, which gave r0, is escaped a second time, from the context
\* the first time ended in, without keeping anything but the context.
reenter(c, r0, again) ==
    LET c0 == join(r0.c, again.c)
    IN [c |-> c0, stop |-> IsError(c0),
        e |-> inexact(dropEscaper(r0.e, again.e), c # r0.c \/ joinNudges(r0.c, again.c))]
escapeLoop(c, list, n, r0) ==
    IF n.op = "range" /\ ~IsError(r0.c)
    THEN reenter(c, r0, escapeList(newEscaper(r0.e), r0.c, list, n.list))
    ELSE [c |-> r0.c, stop |-> FALSE, e |-> r0.e]

\* The else list, and the join of the two.
joinBranches(r0, r1) == [c |-> join(r0.c, r1.c), e |-> inexact(r1.e, joinNudges(r0.c, r1.c))]
escapeElse(c, list, n, r0) ==
    IF r0.stop THEN [c |-> r0.c, e |-> r0.e]
    ELSE joinBranches(r0, escapeList(r0.e, c, list, n.elseList))

\* if, with and range.
escapeBranch(es, c, id, n) ==
    LET list(k) == <<id[1], Append(id[2], k)>>
    IN escapeElse(c, list(2), n, escapeLoop(c, list(1), n, escapeList(es, c, list(1), n.list)))

renameCall(id, n, r) ==
    [c |-> r.c, e |-> IF r.name = n.name THEN r.e ELSE editNode(r.e, "calls", id, r.name)]
escapeTemplate(es, c, id, n) == renameCall(id, n, escapeTree(es, c, n.name))

escape(es, c, id, n) ==
    CASE n.op = "action" -> escapeAction(es, c, id, n)
      [] n.op = "decl" -> [c |-> c, e |-> es]
      [] n.op \in {"if", "range"} -> escapeBranch(es, c, id, n)
      [] n.op = "block" -> escapeList(es, c, <<id[1], Append(id[2], 1)>>, n.list)
      [] n.op = "template" -> escapeTemplate(es, c, id, n)
      [] n.op = "text" -> escapeTextNode(es, c, id, n)

\* The last node of a list, the others having given r.
escapeLast(r, id, list) == escape(r.e, r.c, <<id[1], Append(id[2], Len(list))>>, Last(list))
escapeList(es, c, id, list) ==
    IF list = <<>> THEN [c |-> c, e |-> es]
    ELSE escapeLast(escapeList(es, c, id, Front(list)), id, list)

\* Mutant of filter: the assumption is not verified.
filterAssumes(c, t, r) == ~IsError(r.c)

\* Whether to keep what escapeTemplateBody found: not if t calls itself and the
\* assumption made about its output context was wrong.
filter(c, t, r) == ~IsError(r.c) /\ (t \in r.e.called => c = r.c)

\* The body of t, from c and assuming that it ends in c.
keepIf(ok, e0, r) ==
    [c |-> r.c, ok |-> ok, e |-> IF ok THEN mergeEscaper(e0, r.e) ELSE dropEscaper(e0, r.e)]
verify(c, t, e0, r) == keepIf(filter(c, t, r), e0, r)
escapeTemplateBody(es, c, t) ==
    LET e0 == [es EXCEPT !.output = (t :> c) @@ @]
    IN verify(c, t, e0, escapeList(newEscaper(e0), c, <<t, <<>>>>, tree[Named(t[1])]))

\* If assuming that the output context is the input context fails, a second
\* attempt starts from, and assumes, what the first one ended in.
found(t, r) == [c |-> r.c, e |-> [r.e EXCEPT !.ends = (t :> r.c) @@ @]]
secondAttempt(t, r) ==
    IF r.ok THEN found(t, [r EXCEPT !.e = inexact(@, TRUE)]) ELSE [c |-> Error, e |-> r.e]
firstAttempt(t, r) ==
    IF r.ok THEN found(t, r) ELSE secondAttempt(t, escapeTemplateBody(r.e, r.c, t))
computeOutCtx(es, c, t) == firstAttempt(t, escapeTemplateBody(es, c, t))

named(d, r) == [c |-> r.c, name |-> d, e |-> r.e]
escapeTree(es, c, name) ==
    LET d == mangle(c, name)
        e0 == [es EXCEPT !.called = @ \cup {d}]
        e1 == IF d \in DOMAIN tree THEN e0 ELSE [e0 EXCEPT !.derived = @ \cup {d}]
        stale == d \in DOMAIN e0.ends /\ e0.ends[d] # e0.output[d]
    IN IF d \in DOMAIN e0.output THEN [c |-> e0.output[d], name |-> d, e |-> inexact(e0, stale)]
       ELSE IF name \notin DOMAIN tree THEN [c |-> Error, name |-> d, e |-> e0]
       ELSE named(d, computeOutCtx(e1, c, d))

-----------------------------------------------------------------------------
(* EscapeTree and commit.                                                  *)

Init ==
    /\ \E k \in DOMAIN Programs : \E p \in Programs[k] : tree = [d \in {Named(n) : n \in DOMAIN p} |-> p[d[1]]]
    /\ e = blank
    /\ todo = DOMAIN tree
    /\ phase = "escaping"
    /\ stack = <<>>
    /\ ctx = Context("Text") /\ out = Context("Text")

\* Mutant of endsWell: a template may end in any context.
endsWellAnywhere(c) == ~IsError(c)

\* The test of EscapeTree for the context a template ends in.
endsWell(c) == c.state = "Text"

\* One iteration of EscapeTree.  On an error all templates are deleted.
EscapeTree(name) ==
    /\ phase = "escaping" /\ name \in todo
    /\ \E r \in {escapeTree(e, Context("Text"), name)} :
       /\ e' = r.e
       /\ IF endsWell(r.c)
          THEN todo' = todo \ {name} /\ UNCHANGED <<tree, phase>>
          ELSE todo' = {} /\ tree' = <<>> /\ phase' = "failed"
    /\ UNCHANGED <<stack, ctx, out>>

\* The list with the edits of its nodes.
RECURSIVE editedList(_, _)
editedList(id, list) ==
    LET here(i) == <<id[1], Append(id[2], i)>>
        sub(i, k) == <<id[1], id[2] \o <<i, k>>>>
        edited(n, i) ==
            CASE n.op = "text" /\ here(i) \in DOMAIN e.texts -> [n EXCEPT !.text = e.texts[here(i)]]
              [] n.op = "action" /\ here(i) \in DOMAIN e.actions ->
                    [n EXCEPT !.pipe = e.actions[here(i)].pipe]
              [] n.op = "template" /\ here(i) \in DOMAIN e.calls -> [n EXCEPT !.name = e.calls[here(i)]]
              [] n.op \in {"if", "range"} ->
                    [n EXCEPT !.list = editedList(sub(i, 1), @), !.elseList = editedList(sub(i, 2), @)]
              [] n.op = "block" -> [n EXCEPT !.list = editedList(sub(i, 1), @)]
              [] OTHER -> n
    IN [i \in DOMAIN list |-> edited(list[i], i)]

\* commit; the derived templates are copies of the ones they derive from.
commit ==
    /\ phase = "escaping" /\ todo = {}
    /\ tree' = [d \in DOMAIN tree \cup e.derived |-> editedList(<<d, <<>>>>, tree[Named(d[1])])]
    /\ phase' = IF \E id \in DOMAIN e.actions : e.actions[id].panic THEN "panic" ELSE "committed"
    /\ UNCHANGED <<e, todo, stack, ctx, out>>

-----------------------------------------------------------------------------
(* Execution of an escaped template.                                       *)

Top == Last(stack)
Node == Top.list[Top.i]
Walking(ops) == phase = "running" /\ Top.i <= Len(Top.list) /\ Node.op \in ops
Passed == [stack EXCEPT ![Len(stack)].i = @ + 1]
Enter(list, loop) == stack' = Append(Passed, [list |-> list, i |-> 1, loop |-> loop])
Escaped == <<tree, e, todo>>

\* All of a text.
contextAfter(c, s) == escapeText(c, s).c

Execute(name) ==
    /\ phase = "committed" /\ name \in DOMAIN tree /\ name = Named(name[1])
    /\ stack' = <<[list |-> tree[name], i |-> 1, loop |-> FALSE]>>
    /\ phase' = "running"
    /\ UNCHANGED <<Escaped, ctx, out>>

walkText ==
    /\ Walking({"text"})
    /\ ctx' = contextAfter(ctx, Node.source)
    /\ out' = contextAfter(out, Node.text)
    /\ stack' = Passed
    /\ UNCHANGED <<Escaped, phase>>

\* In a comment that is left out, commentEscaper prints nothing.
walkAction ==
    /\ Walking({"action", "decl"})
    /\ ctx' = IF Node.op = "decl" THEN ctx ELSE afterAction(ctx)
    /\ out' = IF Node.op = "decl" \/ isComment(ctx.state) THEN out ELSE afterAction(out)
    /\ stack' = Passed
    /\ UNCHANGED <<Escaped, phase>>

walkBranch ==
    /\ Walking({"if", "range"})
    /\ Enter(Node.list, Node.op = "range") \/ Enter(Node.elseList, FALSE)
    /\ UNCHANGED <<Escaped, phase, ctx, out>>

\* Without fillers a block prints its list.
walkBlock ==
    /\ Walking({"block"})
    /\ Enter(Node.list, FALSE)
    /\ UNCHANGED <<Escaped, phase, ctx, out>>

walkTemplate ==
    /\ Walking({"template"})
    /\ Len(stack) < MaxDepth
    /\ Enter(tree[Node.name], FALSE)
    /\ UNCHANGED <<Escaped, phase, ctx, out>>

\* The end of a list; that of a range may be walked again.
endList ==
    /\ phase = "running" /\ Top.i > Len(Top.list)
    /\ \/ Top.loop /\ stack' = [stack EXCEPT ![Len(stack)].i = 1] /\ UNCHANGED phase
       \/ stack' = Front(stack) /\ phase' = IF Len(stack) = 1 THEN "done" ELSE phase
    /\ UNCHANGED <<Escaped, ctx, out>>

Next ==
    \/ \E name \in todo : EscapeTree(name)
    \/ commit
    \/ \E name \in DOMAIN tree : Execute(name)
    \/ walkText \/ walkAction \/ walkBranch \/ walkBlock \/ walkTemplate
    \/ endList

Spec == Init /\ [][Next]_vars

-----------------------------------------------------------------------------
(* Properties.                                                             *)

\* What Sanitized asks of a pipeline: the commands of s, or the builtins they are
\* equivalent to, are in it in their order; one that changes nothing after another
\* may be missing.
Sanitized(pipe, s) ==
    \/ \E i \in DOMAIN pipe : pipe[i] = "noescape"
    \/ \E f \in [DOMAIN s -> DOMAIN pipe] :
          /\ \A k \in DOMAIN s : pipe[f[k]] \in {s[k], equivEscapers(s[k])} \/ redundantFuncs(pipe[f[k]], s[k])
          /\ \A j, k \in DOMAIN s : j < k => f[j] < f[k] \/ (f[j] = f[k] /\ redundantFuncs(pipe[f[k]], s[k]))

\* The sanitizers escapeAction chose when it walked the tree, which commit put
\* into the pipeline, are those for the context the action is really in when it
\* is executed: whatever branches were taken, however often a range was repeated,
\* and whichever derived copy of a template was called.  The escaper approximates
\* in four places (e.exact); what it chooses there is not judged.
ActionsFit ==
    Walking({"action"}) /\ e.exact => Sanitized(Node.pipe, escapers(nudge(ctx)))

\* An execution of a template EscapeTree accepted ends in the text context, as
\* its callers were escaped to expect; EscapeTree only saw the joined contexts.
EndsInText == phase = "done" /\ e.exact => ctx = Context("Text")

\* The context around the comment c is in.
Elided(c) ==
    IF isComment(c.state) /\ c.delim = "None" THEN [c EXCEPT !.state = ElidedTo[c.state]] ELSE c
\* At every point of an execution the written text, whose comments escapeText left
\* out, also across nodes, is in the context the source is in, or the one around
\* the comment the source is in: no text is taken for, or lost with, a comment.
CommentsLeftOut == e.exact => out = Elided(ctx)

\* No node is edited twice and no text makes the loop of escapeText stand still or
\* slice backwards: a range body is walked twice, a recursive template three times,
\* and each time into another escaper.  commit panics only for a pipeline with two
\* commands that are no identifiers, on a failed assertion.
NeverPanics ==
    /\ ~e.panic
    /\ phase = "panic" =>
          \E id \in DOMAIN e.actions :
              LET pipe == e.actions[id].pipe
              IN  Cardinality({i \in DOMAIN pipe : pipe[i] = "."}) > 1

\* EscapeTree with the templates in a given order, r being the result so far.
RECURSIVE escapeAll(_, _)
escapeAll(r, names) ==
    IF names = <<>> \/ ~endsWell(r.c) THEN r
    ELSE escapeAll(escapeTree(r.e, Context("Text"), Head(names)), Tail(names))
Orders == SetToSeqs(DOMAIN tree)
SameEdits(r, q) ==
    r.e.exact /\ q.e.exact =>
        /\ endsWell(r.c) = endsWell(q.c)
        /\ endsWell(r.c) => \A f \in {"derived", "actions", "calls", "texts"} : r.e[f] = q.e[f]

\* Where the escaper does not approximate, the order in which EscapeTree iterates
\* over the map neither decides whether it succeeds nor what it edits or derives:
\* what is found for a template inside another one, in a nested escaper whose
\* inferences are merged, is what is found for it alone.
EditsDoNotDependOnOrder ==
    phase = "escaping" /\ todo = DOMAIN tree =>
        \E start \in {[c |-> Context("Text"), e |-> blank]} :
        \E r \in {escapeAll(start, SetToSeq(todo))} :
            \A o \in Orders : SameEdits(r, escapeAll(start, o))
==============================================================================
