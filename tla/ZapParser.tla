----------------------------- MODULE ZapParser -----------------------------
(***************************************************************************)
(* zap/parse: the lexer and parser of zap.  They are those of              *)
(* TemplateParser but for what this module defines: items outside          *)
(* definitions, definitions that extend a parent and consist of blocks,    *)
(* parenthesised pipelines, and a channel that is never closed.            *)
(*                                                                         *)
(* A definition is parsed by a Tree of its own on the same lexer.  Neither *)
(* Tree holds items when the other takes over, so one lookahead stands for *)
(* both.  The verdict of a frame is IsEmptyTree of its list: "ok" if       *)
(* empty, "error" if not, "panic" for a node it does not know.             *)
(***************************************************************************)
EXTENDS TemplateParser, Integers

CONSTANT TopName    \* the name of the text itself

ASSUME TopNameAssumption == TopName \in DefNames

VARIABLES
    parens,         \* l.parenDepth
    blocks,         \* t.blocks of the Tree that is parsing
    topVars,        \* t.vars of the outer Tree while a definition is parsed
    topBlocks,      \* t.blocks of the outer Tree then
    nonEmpty,       \* the templates of treeSet that are not empty
    skipped         \* history: blockList has ignored an error of the lexer

zapVars == <<blocks, topVars, topBlocks, nonEmpty, skipped>>
zapAll == <<allVars, parens, zapVars>>

Top == [kind |-> "top", name |-> TopName, saved |-> 0, inElse |-> FALSE, verdict |-> "ok"]

ZapInit ==
    /\ input \in DOMAIN Inputs
    /\ lx = "lexText" /\ item = NoItem /\ emitted = 0 /\ comments = 0
    /\ token = <<NoItem, NoItem>> /\ peekCount = 0 /\ got = 0 /\ pos = 0
    /\ pc = "list" /\ k = <<Top>> /\ vars = <<>> /\ ctx = "command" /\ v = NoItem /\ decl = 0
    /\ cmds = FALSE /\ tree = {} /\ errAt = "nowhere" /\ outcome = "running"
    /\ parens = 0 /\ blocks = {} /\ topVars = <<>> /\ topBlocks = {} /\ nonEmpty = {} /\ skipped = FALSE

-----------------------------------------------------------------------------
(* The lexer.                                                              *)

\* lexInsideAction emits right delimiters only outside parentheses, and after a
\* right parenthesis too many nothing but the error.
lexInside ==
    \/ /\ lexInsideAction
       /\ item'.typ # "error" => parens >= 0
       /\ item'.typ = "right" => parens = 0
       /\ UNCHANGED parens
    \/ /\ Input.parens /\ lx = "lexInsideAction" /\ More /\ parens >= 0
       /\ \/ emit(Plain("("), lx) /\ parens' = parens + 1
          \/ emit(Plain(")"), lx) /\ parens' = parens - 1

\* run: the channel is not closed at the end.
runLexer ==
    /\ item = NoItem
    /\ \/ (lexText \/ lexDelim) /\ UNCHANGED parens
       \/ lexInside
    /\ UNCHANGED <<bufVars, parVars, errAt, zapVars>>

-----------------------------------------------------------------------------
(* Definitions and what is between them.                                   *)

Kind == Head(k).kind

\* Tree.add, for a name and the verdict on its list: an empty template is
\* replaced.
add(name, verdict) ==
    /\ name \notin nonEmpty
    /\ tree' = tree \cup {name}
    /\ nonEmpty' = IF verdict = "ok" THEN nonEmpty ELSE nonEmpty \cup {name}
\* It leaves the template that is there, if the new one is empty.
addEmpty(name, verdict) ==
    name \in nonEmpty /\ verdict = "ok" /\ UNCHANGED <<tree, nonEmpty>>
\* It fails.
addFails(name, verdict) == name \in nonEmpty /\ verdict # "ok"

\* The end of parse, and add of the text itself.
parseEOF ==
    /\ \/ /\ add(TopName, Head(k).verdict) \/ addEmpty(TopName, Head(k).verdict)
          /\ outcome' = "ok"
       \/ /\ addFails(TopName, Head(k).verdict)
          /\ outcome' = Head(k).verdict
          /\ UNCHANGED <<tree, nonEmpty>>
    /\ pc' = "halt"
    /\ UNCHANGED <<k, vars, ctx, v, decl, cmds, blocks, topVars, topBlocks, skipped>>

\* Mutant of parseList: an error of the lexer ends the text.
parseListToError ==
    /\ pc = "list" /\ Kind = "top"
    /\ \E t \in Items :
          /\ peek(t)
          /\ \/ t.typ \in {"EOF", "error"} /\ parseEOF
             \/ t.typ = "left" /\ Go("topleft") /\ UNCHANGED zapVars
             \/ t.typ \notin {"EOF", "error", "left"} /\ Go("item") /\ UNCHANGED zapVars

\* The loop of parse.
parseList ==
    /\ pc = "list" /\ Kind = "top"
    /\ \E t \in Items :
          /\ peek(t)
          /\ \/ t.typ = "EOF" /\ parseEOF
             \/ t.typ = "left" /\ Go("topleft") /\ UNCHANGED zapVars
             \/ t.typ \notin {"EOF", "left"} /\ Go("item") /\ UNCHANGED zapVars

\* Its body, at a left delimiter: a definition, or backup2(delim).
parseLeft ==
    /\ \/ /\ pc = "topleft"
          /\ \E t \in Items : next(t) /\ v' = t
          /\ pc' = "topdef"
          /\ UNCHANGED <<k, vars, ctx, decl, cmds, tree, outcome>>
       \/ /\ pc = "topdef"
          /\ \E t \in Items : \/ next(t) /\ t.typ = "define" /\ Go("defname")
                              \/ nextAndBackup(t) /\ t.typ # "define" /\ Go("topback")
       \/ /\ pc = "topback"
          /\ backup2(v)
          /\ Go("item")
    /\ UNCHANGED zapVars

\* parseDefinition, up to its list: a new Tree, with variables of its own.
defineName ==
    /\ pc = "defname"
    /\ \E t \in Items :
          /\ next(t)
          /\ IF t.typ = "string"
             THEN /\ k' = <<Frame("define", t.val)>> \o k
                  /\ pc' = "defright"
                  /\ topVars' = vars /\ vars' = <<>>
                  /\ topBlocks' = blocks /\ blocks' = {}
                  /\ UNCHANGED <<ctx, v, decl, cmds, tree, outcome, nonEmpty, skipped>>
             ELSE errorf /\ UNCHANGED zapVars

defineParent ==
    /\ \E t \in Items :
          /\ next(t)
          /\ \/ pc = "defright" /\ t.typ # "string" /\ expect(t, "right", "list")
             \/ /\ pc = "defright" /\ t.typ = "string"
                /\ k' = [k EXCEPT ![1].kind = "child"]
                /\ pc' = "childright"
                /\ UNCHANGED <<vars, ctx, v, decl, cmds, tree, outcome>>
             \/ pc = "childright" /\ expect(t, "right", "list")
    /\ UNCHANGED zapVars

\* Mutant of blockList: the end of the text is skipped as well.
blockListToEnd ==
    /\ pc = "list" /\ Kind = "child"
    /\ \E t \in Items :
          /\ next(t)
          /\ \/ t.typ = "text" /\ errorf
             \/ t.typ \in {"space", "EOF", "error"} /\ Go("list")
             \/ t.typ = "left" /\ Go("childleft")
          /\ skipped' = (skipped \/ t.typ = "error")
    /\ UNCHANGED <<blocks, topVars, topBlocks, nonEmpty>>

\* The loop of blockList; an item that is none of the cases is skipped.
blockList ==
    /\ pc = "list" /\ Kind = "child"
    /\ \E t \in Items :
          /\ next(t)
          /\ \/ t.typ \in {"EOF", "text"} /\ errorf
             \/ t.typ \in {"space", "error"} /\ Go("list")
             \/ t.typ = "left" /\ Go("childleft")
          /\ skipped' = (skipped \/ t.typ = "error")
    /\ UNCHANGED <<blocks, topVars, topBlocks, nonEmpty>>

blockListLeft ==
    /\ pc = "childleft"
    /\ \E t \in Items :
          /\ next(t)
          /\ \/ t.typ = "block" /\ Push("block", "", "bname")
             \/ t.typ = "end" /\ Go("end")
             \/ t.typ \notin {"block", "end"} /\ errorf
    /\ UNCHANGED zapVars

\* blockControl, up to its itemList.
blockControl ==
    /\ \E t \in Items :
          /\ next(t)
          /\ \/ pc = "bname" /\ t.typ # "string" /\ errorf
             \/ /\ pc = "bname" /\ t.typ = "string"
                /\ k' = [k EXCEPT ![1].name = t.val]
                /\ pc' = "bright"
                /\ UNCHANGED <<vars, ctx, v, decl, cmds, tree, outcome>>
             \/ pc = "bright" /\ expect(t, "right", "list")
    /\ UNCHANGED zapVars

-----------------------------------------------------------------------------
(* Lists and pipelines.                                                    *)

\* What the next read returns, if it does not block.
Upcoming == IF peekCount > 0 THEN {token[peekCount]} ELSE nextItem
Not(types) == \A t \in Upcoming : t.typ \notin types

\* command and pipeline at parentheses.  No right delimiter comes before they
\* are closed.
parentheses ==
    /\ \E t \in Items :
          \/ /\ pc = "cmd" /\ next(t) /\ t.typ = "("
             /\ k' = <<Frame("paren", ctx)>> \o k
             /\ pc' = "decl" /\ ctx' = "paren" /\ decl' = 0 /\ cmds' = FALSE
             /\ UNCHANGED <<vars, v, tree, outcome>>
          \/ /\ pc = "cmd" /\ nextAndBackup(t) /\ t.typ = ")"
             /\ pc' = "cmds" /\ cmds' = TRUE
             /\ UNCHANGED <<k, vars, ctx, v, decl, tree, outcome>>
          \/ /\ pc = "cmds" /\ ~cmds /\ next(t) /\ t.typ = ")"
             /\ errorf
          \/ /\ pc = "cmds" /\ cmds /\ nextAndBackup(t) /\ t.typ = ")"
             /\ IF ctx = "paren" THEN Go("paren") ELSE EndPipeline
          \/ /\ pc = "paren" /\ next(t) /\ t.typ = ")"
             /\ k' = Tail(k) /\ ctx' = Head(k).name /\ pc' = "cmd"
             /\ UNCHANGED <<vars, v, decl, cmds, tree, outcome>>
    /\ UNCHANGED zapVars

\* The rest is as in TemplateParser: itemList, textOrAction and action,
zapItem ==
    /\ (itemList /\ Kind \notin {"top", "child"}) \/ textOrAction \/ action
    /\ UNCHANGED zapVars

\* pipeline,
zapPipeline ==
    /\ declarations \/ (commands /\ Not({")"}))
    /\ UNCHANGED zapVars

\* command,
zapCommand == command /\ Not({"(", ")"}) /\ UNCHANGED zapVars

\* and templateControl.
zapTemplate == templateControl /\ UNCHANGED zapVars

\* The definition f is complete: stopParse, then add, whose error is a nil
\* pointer, t.lex.
endDefinition(f) ==
    \/ /\ addFails(f.name, f.verdict)
       /\ Halt("panic")
       /\ UNCHANGED zapVars
    \/ /\ add(f.name, f.verdict) \/ addEmpty(f.name, f.verdict)
       /\ k' = Tail(k) /\ pc' = "list"
       /\ vars' = topVars /\ topVars' = <<>>
       /\ blocks' = topBlocks /\ topBlocks' = {}
       /\ UNCHANGED <<ctx, v, decl, cmds, outcome, skipped>>

\* The innermost list is complete, with {{end}}.
zapEndList ==
    LET f == Head(k) IN
    \/ f.kind = "top" /\ errorf /\ UNCHANGED zapVars
    \/ f.kind \in {"define", "child"} /\ endDefinition(f)
    \/ /\ f.kind \in ControlTypes                  \* parseControl
       /\ Append1(Tail(k), "error")
       /\ popVars(f.saved)
       /\ UNCHANGED <<ctx, v, decl, cmds, tree, outcome, zapVars>>
    \/ /\ f.kind = "block" /\ f.name \in blocks    \* addBlock
       /\ errorf
       /\ UNCHANGED zapVars
    \/ /\ f.kind = "block" /\ f.name \notin blocks
       /\ Append1(Tail(k), f.verdict)
       /\ blocks' = blocks \cup {f.name}
       /\ UNCHANGED <<vars, ctx, v, decl, cmds, tree, outcome, topVars, topBlocks, nonEmpty, skipped>>

\* endControl
zapEnd ==
    /\ pc = "end"
    /\ \E t \in Items : next(t) /\ IF t.typ = "right" THEN zapEndList ELSE errorf /\ UNCHANGED zapVars

\* elseControl; at the top, {{else}} is a node of the list.
zapElse ==
    /\ \/ elseControl /\ Kind # "top"
       \/ /\ pc = "else" /\ Kind = "top"
          /\ \E t \in Items :
                /\ next(t)
                /\ IF t.typ = "right"
                   THEN Append1(k, "panic") /\ UNCHANGED <<vars, ctx, v, decl, cmds, tree, outcome>>
                   ELSE errorf
    /\ UNCHANGED zapVars

parseAll ==
    /\ \/ parseList \/ parseLeft \/ defineName \/ defineParent \/ blockList \/ blockListLeft
       \/ blockControl \/ parentheses \/ zapItem \/ zapPipeline \/ zapCommand \/ zapTemplate
       \/ zapEnd \/ zapElse
    /\ UNCHANGED parens

ZapNext == runLexer \/ parseAll

\* Both goroutines go on when they can: the Go scheduler starves neither.
ZapSpec == ZapInit /\ [][ZapNext]_zapAll /\ WF_zapAll(runLexer) /\ WF_zapAll(parseAll)

-----------------------------------------------------------------------------
\* A text that parses was read to its end: the lexer has stopped, sent no error,
\* and is not left behind blocked on its channel.
ReadToTheEnd == outcome = "ok" => lx = "stop" /\ item = NoItem /\ errAt = "nowhere"

\* Parse returns although the channel is not closed: no call reads past the last
\* item, but for blockList after an error of the lexer.
ReturnsUnlessSkipped == <>(outcome # "running" \/ skipped)
=============================================================================
