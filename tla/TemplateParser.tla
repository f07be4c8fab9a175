--------------------------- MODULE TemplateParser ---------------------------
(***************************************************************************)
(* template/parse: the lexer, a goroutine that sends items over an         *)
(* unbuffered channel, and the parser that receives them, with its         *)
(* lookahead of two items.                                                 *)
(*                                                                         *)
(* The input is chosen while it is lexed: an item is its type and, where   *)
(* the parser looks at it, its value.  Items carry their place in the      *)
(* input, which no code looks at.                                          *)
(*                                                                         *)
(* The parser is recursive descent; its call stack is k, one frame per     *)
(* list of nodes being parsed, and pc, the place in the innermost call.    *)
(***************************************************************************)
EXTENDS Naturals, Sequences

CONSTANTS
    Inputs,         \* the kinds of input: of each the items inside actions, of InsideTypes, the text
                    \* items, of {"text", "space"}, and a bound on its length in items
    VarNames,       \* variables
    DefNames        \* template names

ControlTypes == {"if", "range", "with"}
BlockTypes == {"block", "fill"}
\* "arg": a bool, dot, field, nil or function of parseFuncs, or a number that
\* is well formed.  "badarg": an unknown function, a malformed number.
\* "badstring": a string Unquote rejects.  "fieldvar": a variable with fields.
InsideTypes ==
    ControlTypes \cup BlockTypes \cup
    {"define", "else", "end", "template", "string", "badstring", "variable",
     "fieldvar", ":=", ",", "char", "pipe", "arg", "badarg"}

ASSUME InputsAssumption ==
    \A kind \in DOMAIN Inputs : LET i == Inputs[kind] IN
        /\ i.inside \subseteq [typ : InsideTypes, val : VarNames \cup DefNames \cup {""}]
        /\ i.text \subseteq {"text", "space"}
        /\ i.max \in Nat
        /\ \A t \in i.inside : /\ t.typ \in {"variable", "fieldvar"} => t.val \in VarNames
                               /\ t.typ = "string" => t.val \in DefNames

VARIABLES
    input,          \* the kind of input
    lx,             \* the state function the lexer is in
    item,           \* what the lexer is blocked sending, or NoItem
    emitted,        \* number of items emitted
    comments        \* number of comments skipped

VARIABLES
    token,          \* p.token
    peekCount,      \* p.peekCount
    got,            \* items received
    pos             \* items consumed: history, no code looks at it

VARIABLES
    pc,             \* where the parser is
    k,              \* its stack
    vars,           \* p.vars, without the first, "$"
    ctx,            \* what the pipeline being parsed belongs to
    v,              \* the variable it may declare
    decl,           \* number of variables it declares
    cmds,           \* it has a command
    tree,           \* p.tree: names defined
    errAt,          \* history: where the parser was when it was sent an error
    outcome         \* "running", or how Parse ended

lexVars == <<input, lx, item, emitted, comments>>
bufVars == <<token, peekCount, got, pos>>
parVars == <<pc, k, vars, ctx, v, decl, cmds, tree, outcome>>
allVars == <<lexVars, bufVars, parVars, errAt>>

Input == Inputs[input]
Item(t, n) == [typ |-> t.typ, val |-> t.val, n |-> n]
Plain(typ) == [typ |-> typ, val |-> ""]
NoItem == Item(Plain("none"), 0)
Frame(kind, name) ==
    [kind |-> kind, name |-> name, saved |-> Len(vars), inElse |-> FALSE, verdict |-> "ok"]

Init ==
    /\ input \in DOMAIN Inputs
    /\ lx = "lexText" /\ item = NoItem /\ emitted = 0 /\ comments = 0
    /\ token = <<NoItem, NoItem>> /\ peekCount = 0 /\ got = 0 /\ pos = 0
    /\ pc = "top" /\ k = <<>> /\ vars = <<>> /\ ctx = "command" /\ v = NoItem /\ decl = 0
    /\ cmds = FALSE /\ tree = {} /\ errAt = "nowhere" /\ outcome = "running"

-----------------------------------------------------------------------------
(* The lexer.                                                              *)

\* l.emit and l.errorf: the lexer stays blocked until the item is received.
emit(t, next) ==
    /\ item' = Item(t, emitted + 1)
    /\ emitted' = emitted + 1
    /\ lx' = next
    /\ UNCHANGED <<input, comments>>

More == emitted + comments < Input.max

\* lexText, up to the text before a delimiter or the end of the Input.
lexText ==
    /\ lx = "lexText"
    /\ \/ \E t \in Input.text : More /\ emit(Plain(t), "lexDelim")
       \/ lx' = "lexDelim" /\ UNCHANGED <<input, item, emitted, comments>>

\* lexText, the rest, with lexLeftDelim and lexComment: a comment is skipped.
lexDelim ==
    /\ lx = "lexDelim"
    /\ \/ More /\ emit(Plain("left"), "lexInsideAction")
       \/ More /\ lx' = "lexText" /\ comments' = comments + 1 /\ UNCHANGED <<input, item, emitted>>
       \/ emit(Plain("error"), "stop")                \* unclosed comment
       \/ emit(Plain("EOF"), "stop")

\* lexInsideAction, with the functions for each kind of item and lexRightDelim.
lexInsideAction ==
    /\ lx = "lexInsideAction"
    /\ \/ More /\ emit(Plain("right"), "lexText")
       \/ More /\ \E t \in Input.inside : emit(t, "lexInsideAction")
       \/ emit(Plain("error"), "stop")

\* Mutant of closeItems: the channel is left open.
closeItemsNever == FALSE

\* run, after the last state function: close(l.items).
closeItems ==
    /\ lx = "stop"
    /\ lx' = "closed"
    /\ UNCHANGED <<input, item, emitted, comments>>

run ==
    /\ item = NoItem
    /\ lexText \/ lexDelim \/ lexInsideAction \/ closeItems
    /\ UNCHANGED <<bufVars, parVars, errAt>>

-----------------------------------------------------------------------------
(* The parser's lookahead.                                                 *)

\* l.nextItem: what a receive yields, if it does not block.
nextItem ==
    IF item # NoItem THEN {item}
    ELSE IF lx = "closed" THEN {Item(Plain("EOF"), got + 1)} ELSE {}

receive(t) ==
    /\ t \in nextItem
    /\ got' = got + 1
    /\ token' = [token EXCEPT ![1] = t]
    /\ item' = NoItem
    /\ errAt' = IF t.typ # "error" THEN errAt ELSE IF k = <<>> /\ pc = "top" THEN "top" ELSE "inside"
    /\ UNCHANGED <<input, lx, emitted, comments>>

\* p.next returns t.
next(t) ==
    /\ pos' = pos + 1
    /\ \/ /\ peekCount > 0
          /\ t = token[peekCount]
          /\ peekCount' = peekCount - 1
          /\ UNCHANGED <<lexVars, token, got, errAt>>
       \/ /\ peekCount = 0
          /\ receive(t)
          /\ UNCHANGED peekCount

\* p.next followed by p.backup, which leaves the item to be read again.
nextAndBackup(t) ==
    /\ UNCHANGED pos
    /\ \/ /\ peekCount > 0
          /\ t = token[peekCount]
          /\ UNCHANGED <<lexVars, token, got, errAt, peekCount>>
       \/ /\ peekCount = 0
          /\ receive(t)
          /\ peekCount' = 1

\* Mutant of peek: it receives although it holds an item.
peekAgain(t) == receive(t) /\ peekCount' = 1 /\ UNCHANGED pos

\* p.peek returns t: the same effect.
peek(t) == nextAndBackup(t)

\* Mutant of backup2: it does not keep t1.
backup2Forgets(t1) ==
    /\ peekCount' = 2
    /\ pos' = pos - 1
    /\ UNCHANGED <<lexVars, token, got, errAt>>

\* p.backup2(t1), when the item after t1 has been peeked at.
backup2(t1) ==
    /\ token' = [token EXCEPT ![2] = t1]
    /\ peekCount' = 2
    /\ pos' = pos - 1
    /\ UNCHANGED <<lexVars, got, errAt>>

Items == nextItem \cup {token[1], token[2]}

-----------------------------------------------------------------------------
(* The parser.  Each action is what a call does between two reads.         *)

Go(place) == pc' = place /\ UNCHANGED <<k, vars, ctx, v, decl, cmds, tree, outcome>>

\* Parse returns; a call of p.errorf is the panic p.recover turns into an error.
Halt(how) ==
    /\ pc' = "halt"
    /\ outcome' = how
    /\ UNCHANGED <<k, vars, ctx, v, decl, cmds, tree>>

\* Mutant of errorf: recover does not pass the error on.
errorfLost == Halt("ok")

errorf == Halt("error")

\* expect and expectOneOf
expect(t, typ, place) == IF t.typ = typ THEN Go(place) ELSE errorf

Push(kind, name, place) ==
    /\ k' = <<Frame(kind, name)>> \o k
    /\ pc' = place
    /\ UNCHANGED <<vars, ctx, v, decl, cmds, tree, outcome>>

First(a, b) == IF a = "ok" THEN b ELSE a

\* list.append of a node on which FillNode.isValid would yield the verdict,
\* in stack stk; back to the loop of itemList.
Append1(stk, verdict) ==
    /\ k' = [stk EXCEPT ![1].verdict = First(@, verdict)]
    /\ pc' = "list"

\* Mutant of parse: it stops at text between definitions.
parseToText ==
    /\ pc = "top"
    /\ \E t \in Items :
          /\ next(t)
          /\ IF t.typ = "left" THEN Go("define") ELSE Halt("ok")

\* The loop of parse.
parse ==
    /\ pc = "top"
    /\ \E t \in Items :
          /\ next(t)
          /\ \/ t.typ = "EOF" /\ Halt("ok")
             \/ t.typ = "left" /\ Go("define")
             \/ t.typ \notin {"EOF", "left"} /\ Go("top")

\* parseDefinition, up to its itemList.
parseDefinition ==
    \E t \in Items :
        /\ next(t)
        /\ \/ pc = "define" /\ expect(t, "define", "defname")
           \/ pc = "defname" /\ IF t.typ = "string" THEN Push("define", t.val, "defright") ELSE errorf
           \/ pc = "defright" /\ expect(t, "right", "list")

\* itemList, its loop condition.
itemList ==
    /\ pc = "list"
    /\ \E t \in Items : peek(t) /\ IF t.typ = "EOF" THEN errorf ELSE Go("item")

\* textOrAction
textOrAction ==
    /\ pc = "item"
    /\ \E t \in Items :
          /\ next(t)
          /\ \/ /\ t.typ \in {"text", "space"}
                /\ Append1(k, IF t.typ = "text" THEN "error" ELSE "ok")
                /\ UNCHANGED <<vars, ctx, v, decl, cmds, tree, outcome>>
             \/ t.typ = "left" /\ Go("action")
             \/ t.typ \notin {"text", "space", "left"} /\ errorf

\* Entry of pipeline(context).
Pipeline(context) ==
    /\ pc' = "decl"
    /\ ctx' = context
    /\ decl' = 0
    /\ cmds' = FALSE
    /\ UNCHANGED <<k, vars, v, tree, outcome>>

\* action: a keyword selects the control, anything else starts a pipeline.
action ==
    /\ pc = "action"
    /\ \E t \in Items :
          \/ /\ next(t)
             /\ \/ t.typ = "else" /\ Go("else")
                \/ t.typ = "end" /\ Go("end")
                \/ t.typ = "template" /\ Go("tname")
                \/ /\ t.typ \in ControlTypes       \* parseControl
                   /\ k' = <<Frame(t.typ, "")>> \o k
                   /\ pc' = "decl" /\ ctx' = "frame" /\ decl' = 0 /\ cmds' = FALSE
                   /\ UNCHANGED <<vars, v, tree, outcome>>
                \/ t.typ \in BlockTypes /\ Push(t.typ, "", "bname")
          \/ /\ nextAndBackup(t)
             /\ t.typ \notin ControlTypes \cup BlockTypes \cup {"else", "end", "template"}
             /\ Pipeline("command")

\* pipeline, its declarations: a variable, then ":=" or, in a range, ",".
declarations ==
    \/ /\ pc = "decl"
       /\ \E t \in Items :
             peek(t) /\ Go(IF t.typ \in {"variable", "fieldvar"} THEN "declvar" ELSE "cmds")
    \/ /\ pc = "declvar"
       /\ \E t \in Items : next(t) /\ v' = t
       /\ pc' = "declsign"
       /\ UNCHANGED <<k, vars, ctx, decl, cmds, tree, outcome>>
    \/ /\ pc = "declsign"
       /\ \E t \in Items :
             peek(t) /\ Go(IF t.typ \in {":=", ","} THEN "decltake" ELSE "declback")
    \/ /\ pc = "declback"
       /\ backup2(v)
       /\ Go("cmds")
    \/ /\ pc = "decltake"
       /\ \E t \in Items :
             /\ next(t)
             /\ \/ v.typ = "fieldvar" /\ errorf
                \/ /\ v.typ = "variable"
                   /\ t.typ = "," => ctx = "frame" /\ k[1].kind = "range" /\ decl = 0
                   /\ vars' = Append(vars, v.val)
                   /\ decl' = decl + 1
                   /\ pc' = IF t.typ = "," THEN "decl" ELSE "cmds"
                   /\ UNCHANGED <<k, ctx, v, cmds, tree, outcome>>
                \/ /\ v.typ = "variable"
                   /\ t.typ = "," /\ ~(ctx = "frame" /\ k[1].kind = "range" /\ decl = 0)
                   /\ errorf

\* pipeline returns: to the list of a control, a block or a fill, or with an
\* action or a template node to append.
EndPipeline ==
    IF ctx = "frame" THEN Go("list")
    ELSE Append1(k, "error") /\ UNCHANGED <<vars, ctx, v, decl, cmds, tree, outcome>>

ArgTypes == {"arg", "badarg", "string", "badstring", "variable", "fieldvar"}

\* pipeline, its commands.
commands ==
    /\ pc = "cmds"
    /\ \E t \in Items :
          \/ next(t) /\ t.typ = "right" /\ IF cmds THEN EndPipeline ELSE errorf
          \/ nextAndBackup(t) /\ t.typ \in ArgTypes /\ Go("cmd")
          \/ next(t) /\ t.typ \notin ArgTypes \cup {"right"} /\ errorf

\* useVar: the variable is one of p.vars.
Defined(name) == \E i \in DOMAIN vars : vars[i] = name

\* command
command ==
    /\ pc = "cmd"
    /\ \E t \in Items :
          \/ /\ t.typ \in {"right", "pipe"}
             /\ IF t.typ = "right" THEN nextAndBackup(t) ELSE next(t)
             /\ pc' = "cmds"
             /\ cmds' = TRUE
             /\ UNCHANGED <<k, vars, ctx, v, decl, tree, outcome>>
          \/ /\ next(t)
             /\ t.typ \in {"arg", "string", "variable", "fieldvar"}
             /\ IF t.typ \in {"variable", "fieldvar"} /\ ~Defined(t.val) THEN errorf ELSE Go("cmd")
          \/ /\ next(t)
             /\ t.typ \notin {"right", "pipe", "arg", "string", "variable", "fieldvar"}
             /\ errorf

\* templateControl
templateControl ==
    \/ /\ pc = "tname"
       /\ \E t \in Items : next(t) /\ expect(t, "string", "tpipe")
    \/ /\ pc = "tpipe"
       /\ \E t \in Items :
             \/ /\ next(t) /\ t.typ = "right"
                /\ Append1(k, "error")
                /\ UNCHANGED <<vars, ctx, v, decl, cmds, tree, outcome>>
             \/ nextAndBackup(t) /\ t.typ # "right" /\ Pipeline("template")

\* blockOrFill, up to its itemList.
blockOrFill ==
    \/ /\ pc = "bname"
       /\ \E t \in Items : next(t) /\ expect(t, "string", "bpipe")
    \/ /\ pc = "bpipe"
       /\ \E t \in Items :
             \/ next(t) /\ t.typ = "right" /\ Go("list")
             \/ nextAndBackup(t) /\ t.typ # "right" /\ Pipeline("frame")

\* Mutant of popVars: one variable too many is popped.
popVarsOneMore(n) == vars' = SubSeq(vars, 1, n - 1)

popVars(n) == vars' = SubSeq(vars, 1, n)

\* The innermost list is complete, with {{end}}.  FillNode.validate walks the
\* lists in a fill when the fill ends; the ElseList of a control without
\* {{else}} is nil, which it dereferences.
endList ==
    LET f == Head(k) IN
    \/ /\ f.kind = "define"                    \* parseDefinition and Tree.Add
       /\ popVars(0)
       /\ IF f.name \in tree
          THEN /\ pc' = "halt" /\ outcome' = "error"
               /\ UNCHANGED <<k, tree>>
          ELSE /\ tree' = tree \cup {f.name}
               /\ k' = <<>>
               /\ pc' = "top"
               /\ UNCHANGED outcome
       /\ UNCHANGED <<ctx, v, decl, cmds>>
    \/ /\ f.kind \in ControlTypes              \* parseControl
       /\ Append1(Tail(k), First(f.verdict, IF f.inElse THEN "ok" ELSE "panic"))
       /\ popVars(f.saved)
       /\ UNCHANGED <<ctx, v, decl, cmds, tree, outcome>>
    \/ /\ f.kind = "block"                     \* blockControl
       /\ Append1(Tail(k), "ok")
       /\ UNCHANGED <<vars, ctx, v, decl, cmds, tree, outcome>>
    \/ /\ f.kind = "fill"                      \* fillControl
       /\ IF f.verdict = "ok"
          THEN /\ Append1(Tail(k), "error")
               /\ UNCHANGED <<vars, ctx, v, decl, cmds, tree, outcome>>
          ELSE Halt(f.verdict)

\* endControl
endControl ==
    /\ pc = "end"
    /\ \E t \in Items : next(t) /\ IF t.typ = "right" THEN endList ELSE errorf

\* elseControl: only the first list of an if, range or with may end in it.
elseControl ==
    /\ pc = "else"
    /\ \E t \in Items :
          /\ next(t)
          /\ IF t.typ = "right" /\ Head(k).kind \in ControlTypes /\ ~Head(k).inElse
             THEN /\ k' = [k EXCEPT ![1].inElse = TRUE]
                  /\ pc' = "list"
                  /\ UNCHANGED <<vars, ctx, v, decl, cmds, tree, outcome>>
             ELSE errorf

Parse ==
    \/ parse \/ parseDefinition \/ itemList \/ textOrAction \/ action \/ declarations
    \/ commands \/ command \/ templateControl \/ blockOrFill \/ endControl \/ elseControl

Next == run \/ Parse

\* Both goroutines go on when they can: the Go scheduler starves neither.
Spec == Init /\ [][Next]_allVars /\ WF_allVars(run) /\ WF_allVars(Parse)

-----------------------------------------------------------------------------
\* The parser sees every item once and in the order of the input, whatever it
\* peeks at or backs up over: the items it holds are the last ones received.
LookaheadInOrder ==
    /\ pos + peekCount = got
    /\ \A i \in 1..peekCount : token[i].n = got + 1 - i

\* A syntax error the lexer finds inside a definition is not lost: Parse does not
\* return the definitions it has.
ErrorInsideDefinitionFails == outcome = "ok" => errAt # "inside"

\* The variables in scope where a list of nodes began are in scope until it ends
\* and when it has ended, whatever the lists inside it declare and pop.
EnclosingScopesKept ==
    [][\A i \in DOMAIN k : /\ k[i].saved <= Len(vars')
                           /\ SubSeq(vars', 1, k[i].saved) = SubSeq(vars, 1, k[i].saved)]_allVars

\* Parse always returns: when the lexer has stopped, receiving does not block.
Returns == <>(outcome # "running")

\* A parse that succeeds leaves no lexer behind, blocked on its channel.
LexerEnds == (outcome = "ok") ~> (lx = "closed")
=============================================================================
