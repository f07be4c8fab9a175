---------------------------- MODULE ParserProofs ----------------------------
(***************************************************************************)
(* Proofs about the two lexer and parser pairs, TemplateParser and         *)
(* ZapParser, for inputs of any length and any kind.                       *)
(*                                                                         *)
(* Both share the lookahead, whose invariant is LookInv; Held says what    *)
(* the parser holds at the places where it relies on what it has peeked    *)
(* at.  On these rest that items are seen in order, that an error of the   *)
(* lexer is not lost, and that a text zap accepts was read to its end.     *)
(*                                                                         *)
(* The last section is about what is done to a parsed template: the        *)
(* contexts the escaper gives to its nodes, EscapeContext.                 *)
(***************************************************************************)
EXTENDS ZapParser, EscapeContext, TLAPS

Vals == VarNames \cup DefNames \cup {""}
ItemTypes == InsideTypes \cup {"none", "text", "space", "left", "right", "error", "EOF", "(", ")"}
ItemSet == [typ : ItemTypes, val : Vals, n : Nat]
LexStates == {"lexText", "lexDelim", "lexInsideAction", "stop", "closed"}
VarTypes == {"variable", "fieldvar"}

BufType ==
    /\ input \in DOMAIN Inputs /\ lx \in LexStates /\ item \in ItemSet /\ emitted \in Nat
    /\ token \in [1..2 -> ItemSet] /\ peekCount \in 0..2 /\ got \in Nat /\ pos \in Int

\* What is emitted and not received is the item the lexer is blocked on, the
\* next one in the input; once the channel is closed there is none.
Sent ==
    /\ item # NoItem => item.n = got + 1
    /\ lx # "closed" => emitted = IF item = NoItem THEN got ELSE got + 1
    /\ lx = "closed" => item = NoItem

LookInv == BufType /\ Sent /\ LookaheadInOrder

\* What the parser holds where it goes on without looking again.
Held ==
    /\ v \in ItemSet
    /\ peekCount = 2 => \/ pc \in {"cmds", "cmd"} /\ token[2].typ \in VarTypes
                        \/ pc = "item" /\ token[2].typ = "left"
    /\ pc = "declvar" => peekCount = 1 /\ token[1].typ \in VarTypes
    /\ pc = "decltake" => peekCount = 1 /\ token[1].typ \in {":=", ","}
    /\ pc = "topleft" => peekCount = 1 /\ token[1].typ = "left"
    /\ pc \in {"declsign", "declback"} => v.n = pos /\ v.typ \in VarTypes
    /\ pc \in {"topdef", "topback"} => v.n = pos /\ v.typ = "left"
    /\ pc \in {"declback", "topback"} => peekCount = 1

FrameSet ==
    [kind : ControlTypes \cup BlockTypes \cup {"define"}, name : Vals, saved : Nat,
     inElse : BOOLEAN, verdict : {"ok", "error", "panic"}]

\* The lists being parsed are nested in one definition, and so are their scopes.
Scopes ==
    /\ k \in Seq(FrameSet) /\ vars \in Seq(Vals)
    /\ pc \in {"top", "define", "defname"} => k = <<>> /\ vars = <<>>
    /\ pc \notin {"top", "define", "defname", "halt"} => k # <<>>
    /\ \A i \in 1..Len(k) : /\ k[i].saved <= Len(vars)
                            /\ k[i].kind = "define" <=> i = Len(k)
                            /\ i = Len(k) => k[i].saved = 0
    /\ \A i, j \in 1..Len(k) : i < j => k[j].saved <= k[i].saved

\* After an error inside a definition the parser has failed, or holds it and
\* comes to nothing else.
ErrorKept ==
    /\ pc = "halt" <=> outcome # "running"
    /\ errAt = "inside" => /\ outcome # "ok"
                           /\ pc # "halt" => /\ pc # "top"
                                             /\ peekCount > 0
                                             /\ token[1].typ = "error"

\* The inductive invariant of TemplateParser.
ParserInv == LookInv /\ Held /\ Scopes /\ ErrorKept

\* zap: the last item the lexer sends is an error or the end of the text, and it
\* stops there.
LastItem ==
    /\ lx # "closed"
    /\ item.typ \in {"EOF", "error"} => lx = "stop"
    /\ \A i \in 1..peekCount : token[i].typ = "EOF" => lx = "stop" /\ item = NoItem /\ errAt = "nowhere"
    /\ errAt # "nowhere" => lx = "stop" /\ item = NoItem

\* The inductive invariant of ZapParser.
ZapInv == LookInv /\ Held /\ LastItem /\ ReadToTheEnd

-----------------------------------------------------------------------------
(* The lexer and the lookahead.                                            *)

\* NoItem is an item, and is told from every item emitted by its number.
LEMMA ItemFacts ==
    /\ NoItem \in ItemSet /\ NoItem.n = 0 /\ NoItem.typ = "none"
    /\ \A t, n : /\ Item(t, n).n = n /\ Item(t, n).typ = t.typ
                 /\ t.typ \in ItemTypes /\ t.val \in Vals /\ n \in Nat => Item(t, n) \in ItemSet
    /\ \A typ : Plain(typ).typ = typ /\ Plain(typ).val \in Vals
<1>1. \A typ : Plain(typ).typ = typ /\ Plain(typ).val = ""
  BY DEF Plain
<1>2. \A t, n : Item(t, n).n = n /\ Item(t, n).typ = t.typ
  BY DEF Item
<1>3. \A t, n : t.typ \in ItemTypes /\ t.val \in Vals /\ n \in Nat => Item(t, n) \in ItemSet
  BY DEF Item, ItemSet
<1>4. "" \in Vals
  BY DEF Vals
<1>5. "none" \in ItemTypes /\ 0 \in Nat
  BY DEF ItemTypes
<1>6. NoItem \in ItemSet /\ NoItem.n = 0 /\ NoItem.typ = "none"
  BY Zenon, <1>1, <1>2, <1>3, <1>4, <1>5 DEF NoItem
<1>. QED
  BY ZenonT(60), <1>1, <1>2, <1>3, <1>4, <1>6

\* Emitting an item keeps the lookahead in order: l.emit numbers items as they are
\* received.
LEMMA EmitLook ==
    ASSUME LookInv, item = NoItem, lx # "closed",
           NEW t, NEW to \in LexStates \ {"closed"}, t.typ \in ItemTypes, t.val \in Vals,
           emit(t, to), UNCHANGED bufVars
    PROVE  LookInv' /\ item'.typ = t.typ /\ item' # NoItem
<1>1. item' \in ItemSet /\ item'.n = emitted + 1 /\ item'.typ = t.typ /\ item' # NoItem
  BY ItemFacts DEF emit, LookInv, BufType
<1>2. BufType'
  BY <1>1 DEF emit, LookInv, BufType, bufVars, LexStates
<1>3. Sent'
  BY <1>1 DEF emit, LookInv, BufType, Sent, bufVars
<1>4. LookaheadInOrder'
  BY DEF LookInv, LookaheadInOrder, bufVars
<1>. QED
  BY <1>1, <1>2, <1>3, <1>4 DEF LookInv

\* Moving to another state function without emitting does too.
LEMMA MoveLook ==
    ASSUME LookInv, item = NoItem, lx # "closed", lx' \in LexStates,
           UNCHANGED <<input, item, emitted, bufVars>>
    PROVE  LookInv'
  BY DEF LookInv, BufType, Sent, LookaheadInOrder, bufVars

\* What a receive yields is the next item of the input.
LEMMA ReceiveLook ==
    ASSUME LookInv, NEW t, receive(t)
    PROVE  /\ t \in ItemSet /\ t.n = got + 1
           /\ got' = got + 1 /\ item' = NoItem /\ lx' = lx /\ emitted' = emitted /\ input' = input
           /\ token' \in [1..2 -> ItemSet] /\ token'[1] = t /\ token'[2] = token[2]
           /\ Sent'
<1>1. t \in ItemSet /\ t.n = got + 1
  <2>1. CASE item # NoItem
    BY <2>1 DEF LookInv, BufType, Sent, receive, nextItem
  <2>2. CASE item = NoItem
    <3>1. lx = "closed" /\ t = Item(Plain("EOF"), got + 1)
      BY <2>2 DEF receive, nextItem
    <3>2. Plain("EOF").typ \in ItemTypes /\ Plain("EOF").val \in Vals
      BY ItemFacts DEF ItemTypes
    <3>3. got + 1 \in Nat
      BY DEF LookInv, BufType
    <3>. QED
      BY <3>1, <3>2, <3>3, ItemFacts
  <2>. QED
    BY <2>1, <2>2
<1>2. got' = got + 1 /\ item' = NoItem /\ lx' = lx /\ emitted' = emitted /\ input' = input
  BY DEF receive
<1>3. token' \in [1..2 -> ItemSet] /\ token'[1] = t /\ token'[2] = token[2]
  BY <1>1 DEF receive, LookInv, BufType
<1>4. Sent'
  <2>1. CASE item # NoItem
    BY <1>2, <2>1 DEF LookInv, BufType, Sent
  <2>2. CASE item = NoItem
    BY <1>2, <2>2 DEF LookInv, BufType, Sent, receive, nextItem
  <2>. QED
    BY <2>1, <2>2
<1>. QED
  BY <1>1, <1>2, <1>3, <1>4

\* p.next: it returns the item after those consumed.
LEMMA NextLook ==
    ASSUME LookInv, NEW t, next(t)
    PROVE  LookInv' /\ t \in ItemSet /\ t.n = pos' /\ peekCount' \in 0..1
<1>1. CASE peekCount > 0
  <2>1. /\ t = token[peekCount] /\ peekCount' = peekCount - 1 /\ pos' = pos + 1
        /\ UNCHANGED <<lexVars, token, got>>
    BY <1>1 DEF next
  <2>2. peekCount \in 1..2 /\ t \in ItemSet /\ t.n = pos'
    BY <1>1, <2>1 DEF LookInv, BufType, LookaheadInOrder
  <2>. QED
    BY <2>1, <2>2 DEF LookInv, BufType, Sent, LookaheadInOrder, lexVars
<1>2. CASE peekCount = 0
  <2>1. receive(t) /\ peekCount' = 0 /\ pos' = pos + 1
    BY <1>2 DEF next
  <2>2. t.n = got + 1 /\ got' = got + 1 /\ item' = NoItem /\ UNCHANGED <<input, lx, emitted>>
        /\ token' \in [1..2 -> ItemSet] /\ t \in ItemSet /\ Sent'
    BY <2>1, ReceiveLook
  <2>3. BufType' /\ LookaheadInOrder' /\ t.n = pos'
    BY <1>2, <2>1, <2>2, ItemFacts DEF LookInv, BufType, LookaheadInOrder
  <2>. QED
    BY <2>1, <2>2, <2>3 DEF LookInv
<1>. QED
  BY <1>1, <1>2 DEF LookInv, BufType

\* p.next and p.backup, or p.peek: the item is read again.
LEMMA PeekLook ==
    ASSUME LookInv, NEW t, nextAndBackup(t)
    PROVE  /\ LookInv' /\ t \in ItemSet /\ pos' = pos
           /\ peekCount' \in 1..2 /\ t = token'[peekCount']
           /\ peekCount' = 2 <=> peekCount = 2
           /\ token'[2] = token[2]
<1>1. CASE peekCount > 0
  <2>1. t = token[peekCount] /\ UNCHANGED <<lexVars, token, got, peekCount, pos>>
    BY <1>1 DEF nextAndBackup
  <2>. QED
    BY <1>1, <2>1 DEF LookInv, BufType, Sent, LookaheadInOrder, lexVars
<1>2. CASE peekCount = 0
  <2>1. receive(t) /\ peekCount' = 1 /\ pos' = pos
    BY <1>2 DEF nextAndBackup
  <2>2. t.n = got + 1 /\ got' = got + 1 /\ item' = NoItem /\ UNCHANGED <<input, lx, emitted>>
        /\ token' \in [1..2 -> ItemSet] /\ token'[1] = t /\ token'[2] = token[2] /\ t \in ItemSet /\ Sent'
    BY <2>1, ReceiveLook
  <2>3. BufType' /\ LookaheadInOrder'
    BY <1>2, <2>1, <2>2, ItemFacts DEF LookInv, BufType, LookaheadInOrder
  <2>. QED
    BY <1>2, <2>1, <2>2, <2>3 DEF LookInv
<1>. QED
  BY <1>1, <1>2 DEF LookInv, BufType

\* p.backup2, of the item that was read before the one that is held.
LEMMA Backup2Look ==
    ASSUME LookInv, v \in ItemSet, peekCount = 1, v.n = pos, backup2(v)
    PROVE  LookInv' /\ peekCount' = 2 /\ token'[2] = v
<1>1. /\ token' \in [1..2 -> ItemSet] /\ token'[2] = v /\ token'[1] = token[1]
      /\ peekCount' = 2 /\ pos' = pos - 1
  BY DEF LookInv, BufType, backup2
<1>. QED
  BY <1>1 DEF LookInv, BufType, Sent, LookaheadInOrder, backup2, lexVars

\* The state functions that emit items: after an error and at the end of the text
\* the lexer stops.
LEMMA LexLook ==
    ASSUME LookInv, item = NoItem, UNCHANGED bufVars, lexText \/ lexDelim \/ lexInsideAction
    PROVE  LookInv' /\ lx' # "closed" /\ (item'.typ \in {"EOF", "error"} => lx' = "stop")
<1>i. /\ \A t \in Input.text : t \in {"text", "space"}
      /\ \A t \in Input.inside : t.typ \in InsideTypes /\ t.val \in Vals
  BY Zenon, InputsAssumption DEF LookInv, BufType, Input, Vals
<1>t. /\ InsideTypes \subseteq ItemTypes
      /\ \A typ \in {"text", "space", "left", "right", "error", "EOF"} : typ \in ItemTypes
      /\ "EOF" \notin InsideTypes /\ "error" \notin InsideTypes
  BY DEF InsideTypes, ItemTypes, ControlTypes, BlockTypes
<1>e. ASSUME NEW typ \in {"text", "space", "left", "right", "error", "EOF"},
             NEW to \in LexStates \ {"closed"}, lx # "closed", emit(Plain(typ), to)
      PROVE  LookInv' /\ item'.typ = typ /\ lx' = to
  <2>1. Plain(typ).typ = typ /\ Plain(typ).val \in Vals /\ typ \in ItemTypes
    BY <1>t, ItemFacts
  <2>2. LookInv' /\ item'.typ = Plain(typ).typ
    BY <1>e, <2>1, EmitLook, Zenon
  <2>. QED
    BY <1>e, <2>1, <2>2 DEF emit
<1>1. CASE lexText
  <2>1. ASSUME NEW t \in Input.text, emit(Plain(t), "lexDelim")
        PROVE  LookInv' /\ item'.typ = t /\ lx' = "lexDelim"
    BY <1>1, <1>i, <1>e, <2>1 DEF lexText, LexStates
  <2>2. CASE lx' = "lexDelim" /\ UNCHANGED <<input, item, emitted, comments>>
    BY <1>1, <2>2, MoveLook, ItemFacts DEF lexText, LexStates
  <2>. QED
    BY <1>1, <1>i, <2>1, <2>2 DEF lexText
<1>2. CASE lexDelim
  <2>1. CASE emit(Plain("left"), "lexInsideAction")
    BY <1>2, <1>e, <2>1 DEF lexDelim, LexStates
  <2>2. CASE lx' = "lexText" /\ UNCHANGED <<input, item, emitted>>
    BY <1>2, <2>2, MoveLook, ItemFacts DEF lexDelim, LexStates
  <2>3. CASE emit(Plain("error"), "stop")
    BY <1>2, <1>e, <2>3 DEF lexDelim, LexStates
  <2>4. CASE emit(Plain("EOF"), "stop")
    BY <1>2, <1>e, <2>4 DEF lexDelim, LexStates
  <2>. QED
    BY <1>2, <2>1, <2>2, <2>3, <2>4 DEF lexDelim
<1>3. CASE lexInsideAction
  <2>1. CASE emit(Plain("right"), "lexText")
    BY <1>3, <1>e, <2>1 DEF lexInsideAction, LexStates
  <2>2. ASSUME NEW t \in Input.inside, emit(t, "lexInsideAction")
        PROVE  LookInv' /\ item'.typ \notin {"EOF", "error"} /\ lx' = "lexInsideAction"
    BY <1>3, <1>i, <1>t, <2>2, EmitLook DEF lexInsideAction, LexStates, emit
  <2>3. CASE emit(Plain("error"), "stop")
    BY <1>3, <1>e, <2>3 DEF lexInsideAction, LexStates
  <2>. QED
    BY <1>3, <2>1, <2>2, <2>3 DEF lexInsideAction
<1>. QED
  BY <1>1, <1>2, <1>3

-----------------------------------------------------------------------------
(* What the parser holds.                                                  *)

\* The places at which Held says something.
Special == {"declvar", "decltake", "topleft", "declsign", "declback", "topdef", "topback"}

\* After p.next one item at most is held.
LEMMA NextHeld ==
    ASSUME LookInv, NEW t, next(t), v' \in ItemSet, pc' \notin Special
    PROVE  LookInv' /\ Held'
<1>1. LookInv' /\ peekCount' \in 0..1
  BY NextLook
<1>2. peekCount' # 2
  BY <1>1
<1>. QED
  BY <1>1, <1>2, Zenon DEF Held, Special

\* After p.peek two items are held only if they were before.
LEMMA PeekHeld ==
    ASSUME LookInv, Held, NEW t, nextAndBackup(t), v' = v, pc' \notin Special,
           peekCount = 2 => pc' \in {"cmds", "cmd"} /\ token[2].typ \in VarTypes
    PROVE  LookInv' /\ Held'
<1>1. LookInv' /\ (peekCount' = 2 <=> peekCount = 2) /\ token'[2] = token[2]
  BY PeekLook
<1>. QED
  BY <1>1, Zenon DEF Held, Special

\* The moves of the parser from place to place do not touch v.
LEMMA Moves ==
    /\ \A place : Go(place) => v' = v /\ pc' = place
    /\ errorf => v' = v /\ pc' = "halt"
    /\ \A t, typ, place : expect(t, typ, place) => v' = v /\ (pc' = place \/ pc' = "halt")
    /\ \A kind, name, place : Push(kind, name, place) => v' = v /\ pc' = place
    /\ \A context : Pipeline(context) => v' = v /\ pc' = "decl"
    /\ EndPipeline => v' = v /\ pc' = "list"
    /\ \A stk, verdict : Append1(stk, verdict) => pc' = "list"
<1>1. \A place : Go(place) => v' = v /\ pc' = place
  BY DEF Go
<1>2. errorf => v' = v /\ pc' = "halt"
  BY DEF errorf, Halt
<1>3. \A stk, verdict : Append1(stk, verdict) => pc' = "list"
  BY DEF Append1
<1>4. \A kind, name, place : Push(kind, name, place) => v' = v /\ pc' = place
  BY DEF Push
<1>5. \A context : Pipeline(context) => v' = v /\ pc' = "decl"
  BY DEF Pipeline
<1>6. EndPipeline => v' = v /\ pc' = "list"
  BY <1>1, <1>3 DEF EndPipeline
<1>. QED
  BY <1>1, <1>2, <1>3, <1>4, <1>5, <1>6, Zenon DEF expect

\* The actions both parsers share keep the lookahead in order and what is held.
LEMMA SharedHeld ==
    ASSUME LookInv, Held,
           \/ itemList \/ textOrAction \/ action \/ commands \/ command \/ templateControl
           \/ elseControl
    PROVE  LookInv' /\ Held'
<1>v. v \in ItemSet
  BY Zenon DEF Held
<1>h. pc \notin {"cmds", "cmd", "item"} => peekCount # 2
  BY Zenon DEF Held
<1>1. CASE itemList
  <2>1. PICK t \in Items : nextAndBackup(t) /\ IF t.typ = "EOF" THEN errorf ELSE Go("item")
    BY <1>1, Zenon DEF itemList, peek
  <2>2. v' = v /\ pc' \in {"halt", "item"} /\ pc = "list"
    BY <1>1, <2>1 DEF itemList, errorf, Halt, Go
  <2>. QED
    BY <1>h, <2>1, <2>2, PeekHeld DEF Special
<1>2. CASE textOrAction
  <2>1. PICK t \in Items : next(t) /\ v' = v /\ pc' \in {"list", "action", "halt"}
    BY <1>2 DEF textOrAction, errorf, Halt, Go, Append1
  <2>. QED
    BY <1>v, <2>1, NextHeld DEF Special
<1>3. CASE action
  <2>0. PICK t \in Items :
            \/ next(t) /\ \/ Go("else") \/ Go("end") \/ Go("tname") \/ Push(t.typ, "", "bname")
                          \/ pc' = "decl" /\ UNCHANGED <<vars, v, tree, outcome>>
            \/ nextAndBackup(t) /\ Pipeline("command")
    BY <1>3, Zenon DEF action
  <2>1. \/ next(t) /\ v' = v /\ pc' \in {"else", "end", "tname", "decl", "bname"}
        \/ nextAndBackup(t) /\ v' = v /\ pc' = "decl" /\ pc = "action"
    BY ZenonT(60), <1>3, <2>0, Moves DEF action
  <2>. QED
    BY <1>v, <1>h, <2>1, NextHeld, PeekHeld DEF Special
<1>4. CASE commands
  <2>0. PICK t \in Items : \/ next(t) /\ (EndPipeline \/ errorf)
                           \/ nextAndBackup(t) /\ Go("cmd")
    BY <1>4, Zenon DEF commands
  <2>1. \/ next(t) /\ v' = v /\ pc' \in {"list", "halt"}
        \/ nextAndBackup(t) /\ v' = v /\ pc' = "cmd" /\ pc = "cmds"
    BY <1>4, <2>0, Moves DEF commands
  <2>. QED
    BY Zenon, <1>v, <2>1, NextHeld, PeekHeld DEF Special, Held
<1>5. CASE command
  <2>0. PICK t \in Items :
            \/ next(t) /\ (Go("cmd") \/ errorf)
            \/ (next(t) \/ nextAndBackup(t)) /\ pc' = "cmds" /\ UNCHANGED <<k, vars, ctx, v, decl, tree, outcome>>
    BY <1>5, Zenon DEF command
  <2>1. \/ next(t) /\ v' = v /\ pc' \in {"cmds", "cmd", "halt"}
        \/ nextAndBackup(t) /\ v' = v /\ pc' = "cmds" /\ pc = "cmd"
    BY <1>5, <2>0, Moves DEF command
  <2>. QED
    BY Zenon, <1>v, <2>1, NextHeld, PeekHeld DEF Special, Held
<1>6. CASE templateControl
  <2>0. PICK t \in Items :
            \/ next(t) /\ expect(t, "string", "tpipe")
            \/ next(t) /\ Append1(k, "error") /\ UNCHANGED <<vars, ctx, v, decl, cmds, tree, outcome>>
            \/ nextAndBackup(t) /\ Pipeline("template") /\ pc = "tpipe"
    BY <1>6, Zenon DEF templateControl
  <2>1. \/ next(t) /\ v' = v /\ pc' \in {"tpipe", "list", "halt"}
        \/ nextAndBackup(t) /\ v' = v /\ pc' = "decl" /\ pc = "tpipe"
    BY <2>0, Moves
  <2>. QED
    BY <1>v, <1>h, <2>1, NextHeld, PeekHeld DEF Special
<1>7. CASE elseControl
  <2>1. PICK t \in Items : next(t) /\ v' = v /\ pc' \in {"list", "halt"}
    BY <1>7 DEF elseControl, errorf, Halt
  <2>. QED
    BY <1>v, <2>1, NextHeld DEF Special
<1>. QED
  BY <1>1, <1>2, <1>3, <1>4, <1>5, <1>6, <1>7

\* So do the declarations of a pipeline, which look two items ahead.
LEMMA DeclarationsHeld ==
    ASSUME LookInv, Held, declarations
    PROVE  LookInv' /\ Held'
<1>v. v \in ItemSet
  BY Zenon DEF Held
<1>h. pc \notin {"cmds", "cmd", "item"} => peekCount # 2
  BY Zenon DEF Held
<1>1. CASE pc = "decl"
  <2>1. PICK t \in Items :
            nextAndBackup(t) /\ Go(IF t.typ \in VarTypes THEN "declvar" ELSE "cmds")
    BY <1>1, Zenon DEF declarations, peek, VarTypes
  <2>p. peekCount # 2
    BY <1>1, <1>h
  <2>2. LookInv' /\ peekCount' = 1 /\ peekCount' # 2 /\ t = token'[1]
    BY <2>1, <2>p, PeekLook
  <2>3. v' = v /\ pc' \in {"declvar", "cmds"} /\ (pc' = "declvar" => t.typ \in VarTypes)
    BY <2>1 DEF Go
  <2>. QED
    BY <1>v, <2>2, <2>3, Zenon DEF Held
<1>2. CASE pc = "declvar"
  <2>1. PICK t \in Items : next(t) /\ v' = t /\ pc' = "declsign"
    BY <1>2, Zenon DEF declarations
  <2>2. t = token[1] /\ t.typ \in VarTypes /\ peekCount' = 0 /\ peekCount' # 2
    BY <1>2, <2>1 DEF Held, next
  <2>3. LookInv' /\ t \in ItemSet /\ t.n = pos'
    BY <2>1, NextLook
  <2>. QED
    BY <2>1, <2>2, <2>3, Zenon DEF Held
<1>3. CASE pc = "declsign"
  <2>1. PICK t \in Items :
            nextAndBackup(t) /\ Go(IF t.typ \in {":=", ","} THEN "decltake" ELSE "declback")
    BY <1>3, Zenon DEF declarations, peek
  <2>p. peekCount # 2
    BY <1>3, <1>h
  <2>l. /\ LookInv' /\ pos' = pos /\ peekCount' \in 1..2 /\ t = token'[peekCount']
        /\ peekCount' = 2 <=> peekCount = 2
    BY Zenon, <2>1, PeekLook
  <2>2. LookInv' /\ peekCount' = 1 /\ peekCount' # 2 /\ t = token'[1] /\ pos' = pos
    BY <2>p, <2>l
  <2>3. v' = v /\ pc' \in {"decltake", "declback"} /\ (pc' = "decltake" => t.typ \in {":=", ","})
    BY Zenon, <2>1 DEF Go
  <2>4. v.n = pos /\ v.typ \in VarTypes
    BY <1>3 DEF Held
  <2>. QED
    BY <1>v, <2>2, <2>3, <2>4, Zenon DEF Held
<1>4. CASE pc = "declback"
  <2>1. backup2(v) /\ v' = v /\ pc' = "cmds"
    BY <1>4 DEF declarations, Go
  <2>2. peekCount = 1 /\ v.n = pos /\ v.typ \in VarTypes
    BY <1>4 DEF Held
  <2>3. LookInv' /\ peekCount' = 2 /\ token'[2] = v
    BY <1>v, <2>1, <2>2, Backup2Look
  <2>. QED
    BY Zenon, <1>v, <2>1, <2>2, <2>3 DEF Held
<1>5. CASE pc = "decltake"
  <2>1. PICK t \in Items : next(t) /\ v' = v /\ pc' \in {"halt", "decl", "cmds"}
    BY Zenon, <1>5 DEF declarations, errorf, Halt
  <2>. QED
    BY <1>v, <2>1, NextHeld DEF Special
<1>. QED
  BY Zenon, <1>1, <1>2, <1>3, <1>4, <1>5 DEF declarations

\* So do the actions of the template parser that zap does not have.
LEMMA TemplateHeld ==
    ASSUME LookInv, Held, parse \/ parseDefinition \/ blockOrFill \/ endControl
    PROVE  LookInv' /\ Held'
<1>v. v \in ItemSet
  BY Zenon DEF Held
<1>h. pc = "bpipe" => peekCount # 2
  BY DEF Held
<1>1. CASE parse
  <2>1. PICK t \in Items : next(t) /\ (Halt("ok") \/ Go("define") \/ Go("top"))
    BY <1>1, Zenon DEF parse
  <2>2. v' = v /\ pc' \in {"halt", "define", "top"}
    BY <2>1 DEF Halt, Go
  <2>. QED
    BY <1>v, <2>1, <2>2, NextHeld DEF Special
<1>2. CASE parseDefinition
  <2>1. PICK t \in Items :
            /\ next(t)
            /\ \/ expect(t, "define", "defname")
               \/ IF t.typ = "string" THEN Push("define", t.val, "defright") ELSE errorf
               \/ expect(t, "right", "list")
    BY <1>2, Zenon DEF parseDefinition
  <2>2. v' = v /\ pc' \in {"halt", "defname", "defright", "list"}
    BY <2>1, Moves
  <2>. QED
    BY <1>v, <2>1, <2>2, NextHeld DEF Special
<1>3. CASE blockOrFill
  <2>1. PICK t \in Items :
            \/ next(t) /\ expect(t, "string", "bpipe")
            \/ next(t) /\ Go("list")
            \/ pc = "bpipe" /\ nextAndBackup(t) /\ Pipeline("frame")
    BY <1>3, Zenon DEF blockOrFill
  <2>2. \/ next(t) /\ v' = v /\ pc' \in {"bpipe", "list", "halt"}
        \/ nextAndBackup(t) /\ v' = v /\ pc' = "decl" /\ pc = "bpipe"
    BY <2>1, Moves
  <2>. QED
    BY <1>v, <1>h, <2>2, NextHeld, PeekHeld DEF Special
<1>4. CASE endControl
  <2>1. PICK t \in Items : next(t) /\ IF t.typ = "right" THEN endList ELSE errorf
    BY <1>4, Zenon DEF endControl
  <2>2. endList => v' = v /\ pc' \in {"halt", "top", "list"}
    BY DEF endList, Append1, Halt
  <2>3. v' = v /\ pc' \in {"halt", "top", "list"}
    BY <2>1, <2>2, Moves
  <2>. QED
    BY <1>v, <2>1, <2>3, NextHeld DEF Special
<1>. QED
  BY <1>1, <1>2, <1>3, <1>4

\* They hold at the beginning, when nothing has been read.
LEMMA Beginning ==
    ASSUME input \in DOMAIN Inputs, lx = "lexText", item = NoItem, emitted = 0,
           token = <<NoItem, NoItem>>, peekCount = 0, got = 0, pos = 0, pc \notin Special, v = NoItem
    PROVE  LookInv /\ Held
<1>1. NoItem \in ItemSet
  BY ItemFacts
<1>2. token \in [1..2 -> ItemSet]
  BY <1>1
<1>3. BufType /\ Sent
  BY <1>1, <1>2 DEF BufType, Sent, LexStates
<1>4. LookaheadInOrder
  BY DEF LookaheadInOrder
<1>5. peekCount # 2
  OBVIOUS
<1>6. Held
  BY <1>1, <1>5, Zenon DEF Held, Special
<1>. QED
  BY <1>3, <1>4, <1>6 DEF LookInv

-----------------------------------------------------------------------------
(* The scopes of the template parser.                                      *)

Outer == {"top", "define", "defname"}
Verdicts == {"ok", "error", "panic"}

\* The frame f with another verdict, or in its second list.
Updated(f, g) == g \in FrameSet /\ g.kind = f.kind /\ g.saved = f.saved

\* What a step may do to the stack and the variables: leave them, begin a list,
\* add to one, end one, declare a variable, end the definition.
Stays == UNCHANGED <<k, vars>> /\ (pc' = "halt" \/ (pc # "halt" /\ (pc \in Outer <=> pc' \in Outer)))
Begins ==
    /\ \E f \in FrameSet :
          /\ k' = <<f>> \o k
          /\ f.saved = Len(vars)
          /\ pc \in Outer <=> f.kind = "define"
    /\ vars' = vars /\ pc # "halt" /\ pc' \notin Outer \cup {"halt"}
Adds ==
    /\ k # <<>> /\ \E g : Updated(k[1], g) /\ k' = [k EXCEPT ![1] = g]
    /\ vars' = vars /\ pc' = "list"
EndsList ==
    /\ k # <<>> /\ k[1].kind # "define"
    /\ \E g : Updated(Tail(k)[1], g) /\ k' = [Tail(k) EXCEPT ![1] = g]
    /\ vars' = vars \/ vars' = SubSeq(vars, 1, k[1].saved)
    /\ pc' = "list"
Declares ==
    /\ k # <<>> /\ k' = k
    /\ \E name \in Vals : vars' = Append(vars, name)
    /\ pc' \notin Outer \cup {"halt"}
EndsDefinition ==
    /\ k # <<>> /\ k[1].kind = "define"
    /\ vars' = SubSeq(vars, 1, 0)
    /\ \/ k' = <<>> /\ pc' = "top"
       \/ k' = k /\ pc' = "halt"

Enclosing == \A i \in DOMAIN k : /\ k[i].saved <= Len(vars')
                                 /\ SubSeq(vars', 1, k[i].saved) = SubSeq(vars, 1, k[i].saved)

\* A prefix of a prefix of a sequence is one of the sequence.
LEMMA Prefixes ==
    ASSUME NEW S, NEW s \in Seq(S), NEW m \in 0..Len(s), NEW n \in 0..m
    PROVE  /\ SubSeq(s, 1, m) \in Seq(S) /\ Len(SubSeq(s, 1, m)) = m
           /\ SubSeq(SubSeq(s, 1, m), 1, n) = SubSeq(s, 1, n)
<1>1. SubSeq(s, 1, m) \in Seq(S) /\ Len(SubSeq(s, 1, m)) = m
  OBVIOUS
<1>2. SubSeq(SubSeq(s, 1, m), 1, n) = SubSeq(s, 1, n)
  OBVIOUS
<1>. QED
  BY <1>1, <1>2

\* Each of these keeps the scopes nested, and the enclosing ones as they are.
LEMMA ScopeSteps ==
    ASSUME Scopes, Stays \/ Begins \/ Adds \/ EndsList \/ Declares \/ EndsDefinition
    PROVE  Scopes' /\ Enclosing
<1>k. k \in Seq(FrameSet) /\ vars \in Seq(Vals)
  BY DEF Scopes
<1>f. \A f \in FrameSet : f.saved \in Nat
  BY DEF FrameSet
<1>i. \A i \in 1..Len(k) : k[i] \in FrameSet /\ k[i].saved \in 0..Len(vars)
  BY <1>k, <1>f DEF Scopes
<1>e. vars' = vars => Enclosing
  BY <1>k, <1>i DEF Enclosing
<1>1. CASE Stays
  BY <1>1, <1>e DEF Stays, Scopes, Outer
<1>2. CASE Begins
  <2>1. PICK f \in FrameSet : /\ k' = <<f>> \o k
                              /\ f.saved = Len(vars)
                              /\ pc \in Outer <=> f.kind = "define"
    BY ZenonT(60), <1>2 DEF Begins
  <2>2. /\ k' \in Seq(FrameSet) /\ Len(k') = Len(k) + 1 /\ k'[1] = f
        /\ \A i \in 1..Len(k) : k'[i + 1] = k[i]
    BY <1>k, <2>1
  <2>3. \A i \in 2..Len(k') : i - 1 \in 1..Len(k) /\ k'[i] = k[i - 1]
    BY <1>k, <2>2
  <2>4. vars' = vars /\ pc # "halt" /\ pc' \notin Outer \cup {"halt"}
    BY <1>2 DEF Begins
  <2>5. (pc \in Outer => k = <<>> /\ vars = <<>>) /\ (pc \notin Outer => k # <<>>)
    BY <2>4 DEF Scopes, Outer
  <2>6. \A i \in 1..Len(k') : /\ k'[i].saved <= Len(vars')
                              /\ k'[i].kind = "define" <=> i = Len(k')
                              /\ i = Len(k') => k'[i].saved = 0
    <3>1. CASE pc \in Outer
      <4>1. Len(k') = 1 /\ Len(vars') = 0 /\ k'[1].saved = 0 /\ k'[1].kind = "define"
        BY <2>1, <2>2, <2>4, <2>5, <3>1
      <4>. QED
        BY <4>1
    <3>2. CASE pc \notin Outer
      <4>1. Len(k) >= 1 /\ Len(k) \in Nat /\ k'[1].saved = Len(vars') /\ k'[1].kind # "define"
            /\ vars' = vars /\ Len(k') = Len(k) + 1 /\ Len(vars) \in Nat
        BY <1>k, <2>1, <2>2, <2>4, <2>5, <3>2
      <4>2. \A i \in 1..Len(k) : /\ k[i].saved <= Len(vars)
                                 /\ k[i].kind = "define" <=> i = Len(k)
                                 /\ i = Len(k) => k[i].saved = 0
        BY Zenon DEF Scopes
      <4>. QED
        BY <2>3, <4>1, <4>2
    <3>. QED
      BY <3>1, <3>2
  <2>7. \A i, j \in 1..Len(k') : i < j => k'[j].saved <= k'[i].saved
    <3>1. \A i, j \in 1..Len(k) : i < j => k[j].saved <= k[i].saved
      BY Zenon DEF Scopes
    <3>2. \A j \in 1..Len(k) : k[j].saved <= k'[1].saved
      BY <1>i, <2>1, <2>2
    <3>3. ASSUME NEW i \in 1..Len(k'), NEW j \in 1..Len(k'), i < j, i # 1
          PROVE  k'[j].saved <= k'[i].saved
      <4>1. i \in 2..Len(k') /\ j \in 2..Len(k') /\ i - 1 < j - 1
        BY <3>3
      <4>. QED
        BY <2>3, <3>1, <4>1
    <3>4. ASSUME NEW j \in 1..Len(k'), 1 < j
          PROVE  k'[j].saved <= k'[1].saved
      BY <1>k, <2>2, <2>3, <3>2, <3>4
    <3>. QED
      BY <3>3, <3>4
  <2>8. k' # <<>>
    BY <1>k, <2>2
  <2>. QED
    BY <1>k, <1>e, <2>2, <2>4, <2>6, <2>7, <2>8 DEF Scopes, Outer
<1>3. CASE Adds
  <2>1. PICK g : Updated(k[1], g) /\ k' = [k EXCEPT ![1] = g]
    BY Zenon, <1>3 DEF Adds
  <2>2. k # <<>> /\ vars' = vars /\ pc' = "list"
    BY <1>3 DEF Adds
  <2>3. /\ k' \in Seq(FrameSet) /\ Len(k') = Len(k) /\ k' # <<>>
        /\ \A i \in 1..Len(k) : k'[i].saved = k[i].saved /\ k'[i].kind = k[i].kind
    BY <1>k, <2>1, <2>2 DEF Updated
  <2>. QED
    BY <1>k, <1>e, <2>2, <2>3 DEF Scopes
<1>4. CASE EndsList
  <2>1. PICK g : Updated(Tail(k)[1], g) /\ k' = [Tail(k) EXCEPT ![1] = g]
    BY Zenon, <1>4 DEF EndsList
  <2>2. k # <<>> /\ k[1].kind # "define" /\ pc' = "list" /\ Len(k) > 1
    BY <1>4, <1>k DEF EndsList, Scopes
  <2>t. /\ Tail(k) \in Seq(FrameSet) /\ Len(Tail(k)) = Len(k) - 1
        /\ \A i \in 1..Len(k) - 1 : Tail(k)[i] = k[i + 1]
    BY <1>k, <2>2
  <2>3. /\ k' \in Seq(FrameSet) /\ Len(k') = Len(k) - 1 /\ k' # <<>>
        /\ \A i \in 1..Len(k') : k'[i].saved = k[i + 1].saved /\ k'[i].kind = k[i + 1].kind
    <3> DEFINE T == Tail(k)
    <3>1. T \in Seq(FrameSet) /\ Len(T) >= 1 /\ k' = [T EXCEPT ![1] = g] /\ Updated(T[1], g)
      <4>1. Len(k) \in Nat
        BY <1>k
      <4>2. Len(T) >= 1
        BY <2>2, <2>t, <4>1
      <4>. QED
        BY <2>1, <2>t, <4>2, Zenon
    <3> HIDE DEF T
    <3>2. /\ k' \in Seq(FrameSet) /\ Len(k') = Len(T) /\ k' # <<>>
          /\ \A i \in 1..Len(T) : k'[i].saved = T[i].saved /\ k'[i].kind = T[i].kind
      BY <3>1 DEF Updated
    <3>. QED
      BY <3>2, <2>t DEF T
  <2>4. \A i \in 1..Len(k) : k[i].saved <= k[1].saved
    BY <1>k, <1>i, <2>2 DEF Scopes
  <2>n. k[1].saved \in 0..Len(vars)
    BY <1>k, <1>i, <2>2
  <2> DEFINE kept == SubSeq(vars, 1, k[1].saved)
  <2>p. /\ kept \in Seq(Vals) /\ Len(kept) = k[1].saved
        /\ \A n \in 0..k[1].saved : SubSeq(kept, 1, n) = SubSeq(vars, 1, n)
    <3>1. ASSUME NEW m \in 0..Len(vars)
          PROVE  /\ SubSeq(vars, 1, m) \in Seq(Vals) /\ Len(SubSeq(vars, 1, m)) = m
                 /\ \A n \in 0..m : SubSeq(SubSeq(vars, 1, m), 1, n) = SubSeq(vars, 1, n)
      <4>1. 0 \in 0..m
        OBVIOUS
      <4>. QED
        BY <1>k, <4>1, Prefixes, Zenon
    <3>. QED
      BY <2>n, <3>1, Zenon
  <2>v. vars' = vars \/ vars' = kept
    BY <1>4 DEF EndsList
  <2> HIDE DEF kept
  <2>5. vars' \in Seq(Vals) /\ Len(vars') >= k[1].saved
    BY <1>k, <2>n, <2>p, <2>v
  <2>6. Enclosing
    <3>1. ASSUME NEW i \in DOMAIN k
          PROVE  k[i].saved \in 0..k[1].saved
      BY <1>k, <1>i, <2>4
    <3>. QED
      BY <1>e, <2>p, <2>v, <3>1 DEF Enclosing
  <2>7. \A i \in 1..Len(k') : /\ k'[i].saved <= Len(vars')
                              /\ k'[i].kind = "define" <=> i = Len(k')
                              /\ i = Len(k') => k'[i].saved = 0
    <3>1. \A i \in 1..Len(k) : /\ k[i].kind = "define" <=> i = Len(k)
                               /\ i = Len(k) => k[i].saved = 0
      BY Zenon DEF Scopes
    <3>2. Len(k) \in Nat /\ Len(vars') \in Nat /\ k[1].saved \in Nat
      BY <1>k, <2>n, <2>5
    <3>3. ASSUME NEW i \in 1..Len(k')
          PROVE  i + 1 \in 1..Len(k) /\ (i + 1 = Len(k) <=> i = Len(k')) /\ k[i + 1].saved \in Nat
      BY <1>i, <2>3, <3>2
    <3>. QED
      BY <2>3, <2>4, <2>5, <3>1, <3>2, <3>3
  <2>8. \A i, j \in 1..Len(k') : i < j => k'[j].saved <= k'[i].saved
    <3>1. ASSUME NEW i \in 1..Len(k'), NEW j \in 1..Len(k'), i < j
          PROVE  k[j + 1].saved <= k[i + 1].saved
      BY <1>k, <2>3, <3>1 DEF Scopes
    <3>. QED
      BY <2>3, <3>1
  <2>. QED
    BY <2>2, <2>3, <2>5, <2>6, <2>7, <2>8 DEF Scopes
<1>5. CASE Declares
  <2>1. PICK name \in Vals : vars' = Append(vars, name)
    BY <1>5 DEF Declares
  <2>2. vars' \in Seq(Vals) /\ Len(vars') = Len(vars) + 1
    BY <1>k, <2>1
  <2>3. k' = k /\ k # <<>> /\ pc' \notin Outer \cup {"halt"}
    BY <1>5 DEF Declares
  <2>4. Enclosing
    <3>1. ASSUME NEW i \in DOMAIN k
          PROVE  k[i].saved \in 0..Len(vars)
      BY <1>k, <1>i
    <3>2. ASSUME NEW n \in 0..Len(vars)
          PROVE  n <= Len(vars') /\ SubSeq(vars', 1, n) = SubSeq(vars, 1, n)
      BY <1>k, <2>1, <2>2
    <3>. QED
      BY <3>1, <3>2 DEF Enclosing
  <2>. QED
    BY <1>k, <1>i, <2>2, <2>3, <2>4 DEF Scopes, Outer
<1>6. CASE EndsDefinition
  <2>0. k # <<>> /\ k[1].kind = "define" /\ vars' = SubSeq(vars, 1, 0)
    BY <1>6 DEF EndsDefinition
  <2>k. 1 \in 1..Len(k) /\ Len(k) \in 1..Len(k)
    BY <1>k, <2>0
  <2>1. 1 = Len(k) /\ k[1].saved = 0
    BY <2>0, <2>k, Zenon DEF Scopes
  <2>v. vars' = <<>>
    BY <1>k, <2>0
  <2>2. Enclosing
    BY <1>k, <2>1, <2>v DEF Enclosing
  <2>3. CASE k' = <<>> /\ pc' = "top"
    BY <2>2, <2>v, <2>3 DEF Scopes
  <2>4. CASE k' = k /\ pc' = "halt"
    <3>1. /\ k' \in Seq(FrameSet) /\ vars' \in Seq(Vals) /\ Len(vars') = 0
          /\ Len(k') = 1 /\ k'[1].saved = 0 /\ k'[1].kind = "define"
      BY <1>k, <2>0, <2>1, <2>v, <2>4
    <3>. QED
      BY <2>2, <2>4, <3>1 DEF Scopes
  <2>. QED
    BY <1>6, <2>3, <2>4 DEF EndsDefinition
<1>. QED
  BY <1>1, <1>2, <1>3, <1>4, <1>5, <1>6

ScopeStep == Stays \/ Begins \/ Adds \/ EndsList \/ Declares \/ EndsDefinition

\* Frames are made of values of their types, and a list appended to keeps its scope.
LEMMA FrameFacts ==
    ASSUME Scopes
    PROVE  /\ \A kind \in ControlTypes \cup BlockTypes \cup {"define"}, name \in Vals :
                 /\ Frame(kind, name) \in FrameSet
                 /\ Frame(kind, name).kind = kind /\ Frame(kind, name).saved = Len(vars)
           /\ \A stk \in Seq(FrameSet), verdict \in Verdicts :
                 stk # <<>> /\ Append1(stk, verdict) =>
                     pc' = "list" /\ \E g : Updated(stk[1], g) /\ k' = [stk EXCEPT ![1] = g]
<1>1. Len(vars) \in Nat
  BY DEF Scopes
<1>2. ASSUME NEW kind \in ControlTypes \cup BlockTypes \cup {"define"}, NEW name \in Vals
      PROVE  /\ Frame(kind, name) \in FrameSet
             /\ Frame(kind, name).kind = kind /\ Frame(kind, name).saved = Len(vars)
  BY <1>1 DEF Frame, FrameSet
<1>3. ASSUME NEW stk \in Seq(FrameSet), NEW verdict \in Verdicts, stk # <<>>, Append1(stk, verdict)
      PROVE  pc' = "list" /\ \E g : Updated(stk[1], g) /\ k' = [stk EXCEPT ![1] = g]
  <2> DEFINE g == [stk[1] EXCEPT !.verdict = First(stk[1].verdict, verdict)]
  <2>1. stk[1] \in FrameSet
    BY <1>3
  <2>2. First(stk[1].verdict, verdict) \in Verdicts
    BY <2>1 DEF First, FrameSet, Verdicts
  <2>w. \A x \in Verdicts : Updated(stk[1], [stk[1] EXCEPT !.verdict = x])
    BY SMTT(30), <2>1 DEF Updated, FrameSet, Verdicts
  <2>3. Updated(stk[1], g)
    BY <2>2, <2>w, Zenon
  <2>4. k' = [stk EXCEPT ![1] = g] /\ pc' = "list"
    BY <1>3 DEF Append1
  <2>. QED
    BY <2>3, <2>4, Zenon
<1>. QED
  BY <1>2, <1>3, Zenon

\* What moves within a definition, or fails, leaves the stack and the variables.
LEMMA StaysFacts ==
    ASSUME pc # "halt"
    PROVE  /\ \A place : Go(place) /\ (pc \in Outer <=> place \in Outer) => Stays
           /\ \A how : Halt(how) => Stays
           /\ errorf => Stays
           /\ \A t, typ, place : expect(t, typ, place) /\ (pc \in Outer <=> place \in Outer) => Stays
           /\ \A context : Pipeline(context) /\ pc \notin Outer => Stays
<1>1. \A place : Go(place) /\ (pc \in Outer <=> place \in Outer) => Stays
  BY DEF Go, Stays
<1>2. \A how : Halt(how) => Stays
  BY DEF Halt, Stays
<1>3. errorf => Stays
  BY <1>2, Zenon DEF errorf
<1>4. \A t, typ, place : expect(t, typ, place) /\ (pc \in Outer <=> place \in Outer) => Stays
  BY <1>1, <1>3, Zenon DEF expect
<1>5. \A context : Pipeline(context) /\ pc \notin Outer => Stays
  BY DEF Pipeline, Stays, Outer
<1>. QED
  BY <1>1, <1>2, <1>3, <1>4, <1>5, Zenon

\* The steps of the parser are of these kinds.
LEMMA ParseScopes ==
    ASSUME LookInv, Held, Scopes, Parse
    PROVE  ScopeStep
<1>k. k \in Seq(FrameSet) /\ vars \in Seq(Vals)
  BY DEF Scopes
<1>o. pc \notin Outer \cup {"halt"} => k # <<>>
  BY DEF Scopes, Outer
<1>t. \A t : next(t) => t \in ItemSet /\ t.typ \in ItemTypes /\ t.val \in Vals
  BY NextLook DEF ItemSet
<1>1. CASE parse
  BY <1>1, StaysFacts DEF parse, ScopeStep, Outer
<1>2. CASE parseDefinition
  <2>1. PICK t \in Items :
           /\ next(t)
           /\ \/ pc = "define" /\ expect(t, "define", "defname")
              \/ pc = "defname" /\ IF t.typ = "string" THEN Push("define", t.val, "defright") ELSE errorf
              \/ pc = "defright" /\ expect(t, "right", "list")
    BY <1>2, Zenon DEF parseDefinition
  <2>2. CASE pc = "defname" /\ t.typ = "string" /\ Push("define", t.val, "defright")
    <3>1. Frame("define", t.val) \in FrameSet /\ Frame("define", t.val).kind = "define"
          /\ Frame("define", t.val).saved = Len(vars)
      BY <1>t, <2>1, FrameFacts
    <3>. QED
      BY Zenon, <2>2, <3>1 DEF Push, Begins, ScopeStep, Outer
  <2>. QED
    BY <2>1, <2>2, StaysFacts DEF ScopeStep, Outer
<1>3. CASE itemList
  BY <1>3, StaysFacts DEF itemList, ScopeStep, Outer
<1>4. CASE textOrAction
  <2>1. ASSUME NEW verdict \in Verdicts, Append1(k, verdict), vars' = vars
        PROVE  Adds
    BY <1>4, <1>k, <1>o, <2>1, FrameFacts DEF textOrAction, Adds, Outer
  <2>. QED
    BY <1>4, <2>1, StaysFacts DEF textOrAction, ScopeStep, Outer, Verdicts
<1>5. CASE action
  <2>1. ASSUME NEW t \in Items, next(t), t.typ \in ControlTypes \cup BlockTypes,
               k' = <<Frame(t.typ, "")>> \o k, vars' = vars, pc' \in {"decl", "bname"}
        PROVE  Begins
    <3>1. "" \in Vals /\ t.typ # "define"
      BY ZenonT(60), <2>1 DEF Vals, ControlTypes, BlockTypes
    <3>2. Frame(t.typ, "") \in FrameSet /\ Frame(t.typ, "").kind = t.typ
          /\ Frame(t.typ, "").saved = Len(vars)
      BY ZenonT(60), <2>1, <3>1, FrameFacts
    <3>. QED
      BY Zenon, <1>5, <2>1, <3>1, <3>2 DEF action, Begins, Outer
  <2>. QED
    BY Zenon, <1>5, <2>1, StaysFacts DEF action, ScopeStep, Outer, Push
<1>6. CASE declarations
  <2>1. CASE pc = "declsign" \/ pc = "decl" \/ pc = "declback"
    BY ZenonT(60), <1>6, <2>1, StaysFacts DEF declarations, ScopeStep, Outer
  <2>2. CASE pc = "declvar"
    BY <1>6, <2>2 DEF declarations, ScopeStep, Stays, Outer
  <2>3. CASE pc = "decltake"
    <3>1. PICK t \in Items :
              \/ errorf
              \/ vars' = Append(vars, v.val) /\ pc' \in {"decl", "cmds"} /\ k' = k
      BY Zenon, <1>6, <2>3 DEF declarations
    <3>2. v.val \in Vals
      BY Zenon DEF Held, ItemSet
    <3>3. k # <<>>
      BY <1>o, <2>3 DEF Outer
    <3>. QED
      BY <2>3, <3>1, <3>2, <3>3, StaysFacts DEF ScopeStep, Declares, Outer
  <2>. QED
    BY ZenonT(60), <1>6, <2>1, <2>2, <2>3 DEF declarations
<1>e. ASSUME pc \notin Outer \cup {"halt"}, Append1(k, "error"), vars' = vars
      PROVE  Adds
  BY <1>k, <1>o, <1>e, FrameFacts DEF Adds, Verdicts
<1>7. CASE commands
  <2>1. EndPipeline \/ errorf \/ Go("cmd")
    BY <1>7 DEF commands
  <2>2. pc = "cmds"
    BY <1>7 DEF commands
  <2>. QED
    BY <1>e, <2>1, <2>2, StaysFacts DEF EndPipeline, ScopeStep, Outer
<1>8. CASE command
  <2>1. pc = "cmd" /\ \/ Go("cmd") \/ errorf
                      \/ pc' = "cmds" /\ k' = k /\ vars' = vars
    BY <1>8 DEF command
  <2>. QED
    BY <2>1, StaysFacts DEF ScopeStep, Stays, Outer
<1>9. CASE templateControl
  <2>1. \/ pc = "tname" /\ \E t \in Items : expect(t, "string", "tpipe")
        \/ pc = "tpipe" /\ \/ Append1(k, "error") /\ vars' = vars
                           \/ Pipeline("template")
    BY <1>9 DEF templateControl
  <2>. QED
    BY <1>e, <2>1, StaysFacts DEF ScopeStep, Outer
<1>10. CASE blockOrFill
  <2>1. \/ pc = "bname" /\ \E t \in Items : expect(t, "string", "bpipe")
        \/ pc = "bpipe" /\ \/ Go("list")
                           \/ Pipeline("frame")
    BY <1>10 DEF blockOrFill
  <2>. QED
    BY <2>1, StaysFacts DEF ScopeStep, Outer
<1>11. CASE endControl
  <2>1. pc = "end" /\ (endList \/ errorf)
    BY <1>11 DEF endControl
  <2>2. k # <<>> /\ Head(k) = k[1]
    BY <1>o, <1>k, <2>1 DEF Outer
  <2>3. CASE endList
    <3>1. CASE k[1].kind = "define"
      <4>1. /\ vars' = SubSeq(vars, 1, 0)
            /\ \/ k' = <<>> /\ pc' = "top"
               \/ k' = k /\ pc' = "halt"
        BY <2>2, <2>3, <3>1 DEF endList, popVars, ControlTypes
      <4>. QED
        BY <2>2, <3>1, <4>1 DEF EndsDefinition, ScopeStep
    <3>2. CASE k[1].kind # "define"
      <4>1. Tail(k) \in Seq(FrameSet) /\ Tail(k) # <<>> /\ k[1] \in FrameSet
        <5>1. Len(k) \in Nat /\ Len(k) # 0 /\ k[1] \in FrameSet
          BY <1>k, <2>2
        <5>2. Len(k) # 1
          <6>1. \A i \in 1..Len(k) : i = Len(k) => k[i].kind = "define"
            BY Zenon DEF Scopes
          <6>. QED
            BY <3>2, <5>1, <6>1
        <5>3. Len(Tail(k)) = Len(k) - 1 /\ Len(k) - 1 # 0 /\ Tail(k) \in Seq(FrameSet)
          BY <1>k, <2>2, <5>1, <5>2
        <5>. QED
          BY <5>1, <5>3
      <4>2. \/ Halt(k[1].verdict)
            \/ /\ \E verdict \in Verdicts : Append1(Tail(k), verdict)
               /\ vars' = vars \/ vars' = SubSeq(vars, 1, k[1].saved)
        <5>1. k[1].verdict \in Verdicts
          BY <4>1 DEF FrameSet, Verdicts
        <5>2. CASE k[1].kind \in ControlTypes
          <6>1. /\ Append1(Tail(k), First(k[1].verdict, IF k[1].inElse THEN "ok" ELSE "panic"))
                /\ vars' = SubSeq(vars, 1, k[1].saved)
            BY <2>2, <2>3, <5>2 DEF endList, popVars, ControlTypes
          <6>2. First(k[1].verdict, IF k[1].inElse THEN "ok" ELSE "panic") \in Verdicts
            BY Zenon, <5>1 DEF First, Verdicts
          <6>. QED
            BY <6>1, <6>2
        <5>3. CASE k[1].kind \notin ControlTypes
          BY <2>2, <2>3, <3>2, <5>3 DEF endList, Verdicts
        <5>. QED
          BY <5>2, <5>3
      <4>. QED
        BY ZenonT(60), <2>1, <2>2, <3>2, <4>1, <4>2, FrameFacts, StaysFacts DEF EndsList, ScopeStep
    <3>. QED
      BY <3>1, <3>2
  <2>. QED
    BY <2>1, <2>3, StaysFacts DEF ScopeStep
<1>12. CASE elseControl
  <2>1. pc = "else" /\ \/ errorf
                       \/ k' = [k EXCEPT ![1].inElse = TRUE] /\ pc' = "list" /\ vars' = vars
    BY <1>12 DEF elseControl
  <2>2. k # <<>> /\ k[1] \in FrameSet
    BY <1>o, <1>k, <2>1 DEF Outer
  <2> DEFINE g == [k[1] EXCEPT !.inElse = TRUE]
  <2>3. Updated(k[1], g)
    BY ZenonT(60), <2>2 DEF Updated, FrameSet
  <2>4. CASE k' = [k EXCEPT ![1].inElse = TRUE] /\ pc' = "list" /\ vars' = vars
    <3>1. k' = [k EXCEPT ![1] = g]
      BY <2>4
    <3>. QED
      BY <2>2, <2>3, <2>4, <3>1, Zenon DEF Adds, ScopeStep
  <2>. QED
    BY <2>1, <2>4, StaysFacts DEF ScopeStep
<1>. QED
  BY <1>1, <1>2, <1>3, <1>4, <1>5, <1>6, <1>7, <1>8, <1>9, <1>10, <1>11, <1>12 DEF Parse

-----------------------------------------------------------------------------
(* Errors of the lexer in the template parser.                             *)

Continues == pc' \notin {"top", "halt"} /\ outcome' = outcome

\* What a step does with an error it meets or holds: it fails; it leaves it to be
\* read; it reads something else; it ends the definition with a delimiter; it is
\* between definitions.
Fails == pc' = "halt" /\ outcome' \in {"error", "panic"}
Leaves == pc # "top" /\ Continues /\ \E t : nextAndBackup(t)
BacksUp == Continues /\ \E t : backup2(t)
ReadsOther == pc # "top" /\ Continues /\ \E t : next(t) /\ t.typ # "error"
Closes == pc = "end" /\ pc' = "top" /\ outcome' = outcome /\ \E t : next(t) /\ t.typ = "right"
Between ==
    /\ pc = "top" /\ \E t : next(t)
    /\ \/ pc' # "halt" /\ outcome' = outcome
       \/ pc' = "halt" /\ outcome' = "ok"

ErrorStep == Fails \/ Leaves \/ BacksUp \/ ReadsOther \/ Closes \/ Between

\* Where an error may be after a read.
LEMMA ErrorRead ==
    ASSUME LookInv, Held, Scopes, ErrorKept, pc # "halt"
    PROVE  /\ \A t : next(t) => (errAt' = "inside" => \/ t.typ = "error" /\ pc # "top"
                                                      \/ peekCount = 2 /\ peekCount' > 0 /\ token'[1].typ = "error")
           /\ \A t : nextAndBackup(t) =>
                        (errAt' = "inside" => pc # "top" /\ peekCount' > 0 /\ token'[1].typ = "error")
<1>p. peekCount \in 0..2 /\ token \in [1..2 -> ItemSet]
  BY DEF LookInv, BufType
<1>k. pc = "top" => k = <<>>
  BY DEF Scopes
<1>e. errAt = "inside" => pc # "top" /\ peekCount > 0 /\ token[1].typ = "error"
  BY DEF ErrorKept
<1>r. ASSUME NEW t, receive(t), peekCount = 0
      PROVE  errAt' = "inside" => pc # "top" /\ t.typ = "error" /\ token'[1].typ = "error"
  BY <1>p, <1>k, <1>e, <1>r DEF receive
<1>1. ASSUME NEW t, next(t), errAt' = "inside"
      PROVE  \/ t.typ = "error" /\ pc # "top"
             \/ peekCount = 2 /\ peekCount' > 0 /\ token'[1].typ = "error"
  <2>1. CASE peekCount = 0
    BY <1>r, <1>1, <2>1 DEF next
  <2>2. CASE peekCount > 0
    BY <1>p, <1>e, <1>1, <2>2 DEF next
  <2>. QED
    BY <1>p, <2>1, <2>2
<1>2. ASSUME NEW t, nextAndBackup(t), errAt' = "inside"
      PROVE  pc # "top" /\ peekCount' > 0 /\ token'[1].typ = "error"
  <2>1. CASE peekCount = 0
    BY <1>r, <1>2, <2>1 DEF nextAndBackup
  <2>2. CASE peekCount > 0
    BY <1>p, <1>e, <1>2, <2>2 DEF nextAndBackup
  <2>. QED
    BY <1>p, <2>1, <2>2
<1>. QED
  BY <1>1, <1>2, Zenon

\* Such a step keeps the error.
LEMMA ErrorSteps ==
    ASSUME LookInv, Held, Scopes, ErrorKept, pc # "halt", ErrorStep
    PROVE  ErrorKept'
<1>o. outcome = "running"
  BY DEF ErrorKept
<1>h. peekCount = 2 => pc \in {"cmds", "cmd", "item"}
  BY DEF Held
<1>1. CASE Fails
  BY <1>1 DEF Fails, ErrorKept
<1>2. CASE Leaves
  BY <1>o, <1>2, ErrorRead DEF Leaves, Continues, ErrorKept
<1>3. CASE BacksUp
  <2>1. peekCount' = 2 /\ token'[1] = token[1] /\ errAt' = errAt
    BY <1>3 DEF BacksUp, backup2, LookInv, BufType
  <2>. QED
    <3>1. 2 > 0 /\ pc' \notin {"top", "halt"} /\ outcome' = outcome
      BY <1>3 DEF BacksUp, Continues
    <3>. QED
      BY <1>o, <2>1, <3>1, Zenon DEF ErrorKept
<1>4. CASE ReadsOther
  BY <1>o, <1>4, ErrorRead DEF ReadsOther, Continues, ErrorKept
<1>5. CASE Closes
  <2>1. errAt' # "inside"
    BY <1>h, <1>5, ErrorRead DEF Closes
  <2>. QED
    BY <1>o, <1>5, <2>1 DEF Closes, ErrorKept
<1>6. CASE Between
  <2>1. errAt' # "inside"
    BY <1>h, <1>6, ErrorRead DEF Between
  <2>. QED
    BY <1>o, <1>6, <2>1 DEF Between, ErrorKept
<1>. QED
  BY <1>1, <1>2, <1>3, <1>4, <1>5, <1>6 DEF ErrorStep

\* Moves that go on are to places inside a definition.
LEMMA ContinuesFacts ==
    /\ \A place : Go(place) /\ place \notin {"top", "halt"} => Continues
    /\ errorf => Fails
    /\ \A t, typ, place : /\ expect(t, typ, place) /\ place \notin {"top", "halt"}
                          => Fails \/ (Continues /\ t.typ = typ)
    /\ \A kind, name, place : Push(kind, name, place) /\ place \notin {"top", "halt"} => Continues
    /\ \A context : Pipeline(context) => Continues
    /\ EndPipeline => Continues
    /\ \A stk, verdict : Append1(stk, verdict) /\ outcome' = outcome => Continues
<1>1. \A place : Go(place) /\ place \notin {"top", "halt"} => Continues
  BY DEF Go, Continues
<1>2. errorf => Fails
  BY DEF errorf, Halt, Fails
<1>3. \A stk, verdict : Append1(stk, verdict) /\ outcome' = outcome => Continues
  BY DEF Append1, Continues
<1>4. \A kind, name, place : Push(kind, name, place) /\ place \notin {"top", "halt"} => Continues
  BY DEF Push, Continues
<1>5. \A context : Pipeline(context) => Continues
  BY DEF Pipeline, Continues
<1>6. EndPipeline => Continues
  BY <1>1, <1>3 DEF EndPipeline
<1>. QED
  BY <1>1, <1>2, <1>3, <1>4, <1>5, <1>6, Zenon DEF expect

\* The steps of the parser are of these kinds: it reads an error only where it
\* fails on it.
LEMMA ParseErrors ==
    ASSUME LookInv, Held, Scopes, Parse
    PROVE  ErrorStep
<1>1. CASE parse
  BY <1>1 DEF parse, Halt, Go, ErrorStep, Between
<1>2. CASE parseDefinition
  BY <1>2, ContinuesFacts DEF parseDefinition, ErrorStep, ReadsOther
<1>3. CASE itemList
  BY <1>3, ContinuesFacts DEF itemList, peek, ErrorStep, Leaves
<1>4. CASE textOrAction
  BY <1>4, ContinuesFacts DEF textOrAction, ErrorStep, ReadsOther
<1>5. CASE action
  <2>1. PICK t \in Items :
            \/ /\ next(t)
               /\ \/ t.typ = "else" /\ Go("else")
                  \/ t.typ = "end" /\ Go("end")
                  \/ t.typ = "template" /\ Go("tname")
                  \/ t.typ \in ControlTypes /\ pc' = "decl" /\ UNCHANGED <<vars, v, tree, outcome>>
                  \/ t.typ \in BlockTypes /\ Push(t.typ, "", "bname")
            \/ nextAndBackup(t) /\ Pipeline("command")
    BY <1>5, Zenon DEF action
  <2>c. Continues
    BY Zenon, <2>1 DEF Go, Push, Pipeline, Continues
  <2>e. "error" \notin ControlTypes \cup BlockTypes \cup {"else", "end", "template"}
    BY DEF ControlTypes, BlockTypes
  <2>2. \/ next(t) /\ t.typ # "error" /\ Continues
        \/ nextAndBackup(t) /\ Continues
    BY <2>1, <2>c, <2>e, Zenon
  <2>. QED
    BY Zenon, <1>5, <2>2 DEF action, ErrorStep, ReadsOther, Leaves
<1>6. CASE declarations
  <2>1. CASE pc \in {"decl", "declsign"}
    BY ZenonT(60), <1>6, <2>1, ContinuesFacts DEF declarations, peek, ErrorStep, Leaves
  <2>2. CASE pc = "declback"
    BY Zenon, <1>6, <2>2, ContinuesFacts DEF declarations, ErrorStep, BacksUp
  <2>3. CASE pc \in {"declvar", "decltake"}
    <3>1. peekCount = 1 /\ token[1].typ # "error"
      BY Zenon, <2>3 DEF Held, VarTypes
    <3>2. \A t : next(t) => t.typ # "error"
      BY <3>1 DEF next
    <3>. QED
      BY ZenonT(60), <1>6, <2>3, <3>2, ContinuesFacts DEF declarations, ErrorStep, ReadsOther, Continues
  <2>. QED
    BY ZenonT(60), <1>6, <2>1, <2>2, <2>3 DEF declarations
<1>7. CASE commands
  <2>1. PICK t \in Items : \/ next(t) /\ t.typ = "right" /\ (EndPipeline \/ errorf)
                           \/ next(t) /\ errorf
                           \/ nextAndBackup(t) /\ Go("cmd")
    BY <1>7 DEF commands
  <2>. QED
    BY <1>7, <2>1, ContinuesFacts DEF commands, ErrorStep, ReadsOther, Leaves
<1>8. CASE command
  <2>1. PICK t \in Items : \/ next(t) /\ errorf
                           \/ next(t) /\ t.typ # "error" /\ Continues
                           \/ nextAndBackup(t) /\ Continues
    BY <1>8, ContinuesFacts DEF command, Continues
  <2>. QED
    BY <1>8, <2>1, ContinuesFacts DEF command, ErrorStep, ReadsOther, Leaves
<1>9. CASE templateControl
  BY <1>9, ContinuesFacts DEF templateControl, ErrorStep, ReadsOther, Leaves
<1>10. CASE blockOrFill
  BY <1>10, ContinuesFacts DEF blockOrFill, ErrorStep, ReadsOther, Leaves
<1>11. CASE endControl
  <2>1. PICK t \in Items : next(t) /\ IF t.typ = "right" THEN endList ELSE errorf
    BY <1>11, Zenon DEF endControl
  <2>2. pc = "end" /\ k # <<>> /\ k \in Seq(FrameSet) /\ Head(k) \in FrameSet
    <3>1. pc = "end" /\ k # <<>> /\ k \in Seq(FrameSet)
      BY <1>11 DEF endControl, Scopes
    <3>. QED
      BY <3>1
  <2>3. endList => \/ Continues \/ Fails
                   \/ pc' = "top" /\ outcome' = outcome
    BY <2>2 DEF endList, Continues, Fails, Append1, Halt, FrameSet
  <2>. QED
    BY <2>1, <2>2, <2>3, ContinuesFacts DEF ErrorStep, ReadsOther, Closes
<1>12. CASE elseControl
  BY <1>12, ContinuesFacts DEF elseControl, ErrorStep, ReadsOther, Continues
<1>. QED
  BY <1>1, <1>2, <1>3, <1>4, <1>5, <1>6, <1>7, <1>8, <1>9, <1>10, <1>11, <1>12 DEF Parse

-----------------------------------------------------------------------------
(* The template parser.                                                    *)

\* The parser does nothing once Parse has returned.
LEMMA ParseRunning == Parse => pc # "halt"
  BY Zenon DEF Parse, parse, parseDefinition, itemList, textOrAction, action, declarations, commands,
         command, templateControl, blockOrFill, endControl, elseControl

\* A step of the lexer keeps what the parser has.
LEMMA RunKeeps ==
    ASSUME ParserInv, run
    PROVE  ParserInv' /\ Enclosing
<1>1. LookInv'
  <2>1. CASE closeItems
    BY <2>1, MoveLook DEF ParserInv, run, closeItems, LexStates
  <2>2. CASE lexText \/ lexDelim \/ lexInsideAction
    BY <2>2, LexLook DEF ParserInv, run
  <2>. QED
    BY <2>1, <2>2 DEF run
<1>2. Held'
  BY ZenonT(60) DEF ParserInv, run, Held, parVars, bufVars
<1>3. Scopes'
  BY ZenonT(60) DEF ParserInv, run, Scopes, parVars
<1>4. ErrorKept'
  BY DEF ParserInv, run, ErrorKept, parVars, bufVars
<1>5. Enclosing
  <2>1. \A i \in 1..Len(k) : k[i].saved <= Len(vars)
    BY DEF ParserInv, Scopes
  <2>2. DOMAIN k = 1..Len(k) /\ vars' = vars
    BY DEF ParserInv, Scopes, run, parVars
  <2>. QED
    BY <2>1, <2>2, Zenon DEF Enclosing
<1>. QED
  BY <1>1, <1>2, <1>3, <1>4, <1>5 DEF ParserInv

\* The invariant of the template parser is inductive, and every step keeps the
\* variables of the enclosing lists.
LEMMA ParserStep ==
    ASSUME ParserInv, [Next]_allVars
    PROVE  ParserInv' /\ Enclosing
<1>0. LookInv /\ Held /\ Scopes /\ ErrorKept
  BY DEF ParserInv
<1>1. CASE run
  BY <1>1, RunKeeps
<1>2. CASE Parse
  <2>1. LookInv' /\ Held'
    BY <1>0, <1>2, SharedHeld, DeclarationsHeld, TemplateHeld, Zenon DEF Parse
  <2>2. Scopes' /\ Enclosing
    BY <1>0, <1>2, ParseScopes, ScopeSteps DEF ScopeStep
  <2>3. ErrorKept'
    BY <1>0, <1>2, ParseRunning, ParseErrors, ErrorSteps
  <2>. QED
    BY <2>1, <2>2, <2>3 DEF ParserInv
<1>3. CASE UNCHANGED allVars
  <2>1. UNCHANGED <<input, lx, item, emitted, token, peekCount, got, pos>>
    BY <1>3 DEF allVars, lexVars, bufVars
  <2>2. UNCHANGED <<pc, k, vars, v, outcome, errAt>>
    BY <1>3 DEF allVars, parVars
  <2>3. LookInv'
    BY <1>0, <2>1 DEF LookInv, BufType, Sent, LookaheadInOrder
  <2>4. Held' /\ ErrorKept'
    BY ZenonT(60), <1>0, <2>1, <2>2 DEF Held, ErrorKept
  <2>5. Scopes' /\ Enclosing
    BY <1>0, <2>2, Zenon, ScopeSteps DEF Scopes, Stays
  <2>. QED
    BY <2>3, <2>4, <2>5 DEF ParserInv
<1>. QED
  BY <1>1, <1>2, <1>3 DEF Next

LEMMA ParserInit == Init => ParserInv
<1> SUFFICES ASSUME Init PROVE ParserInv
  OBVIOUS
<1>0. /\ input \in DOMAIN Inputs /\ lx = "lexText" /\ item = NoItem /\ emitted = 0
      /\ token = <<NoItem, NoItem>> /\ peekCount = 0 /\ got = 0 /\ pos = 0 /\ pc = "top" /\ v = NoItem
  BY DEF Init
<1>s. pc \notin Special
  BY <1>0 DEF Special
<1>1. LookInv /\ Held
  BY Zenon, <1>0, <1>s, Beginning
<1>3. Scopes
  BY DEF Init, Scopes
<1>4. ErrorKept
  BY DEF Init, ErrorKept
<1>. QED
  BY <1>1, <1>3, <1>4 DEF ParserInv

\* The invariant of the template parser.
THEOREM ParserInvariant == Spec => []ParserInv
  BY ParserInit, ParserStep, PTL DEF Spec

\* The parser sees every item once and in order, for any input.
THEOREM LookaheadIsInOrder == Spec => []LookaheadInOrder
<1>1. ParserInv => LookaheadInOrder
  BY DEF ParserInv, LookInv
<1>. QED
  BY <1>1, ParserInvariant, PTL

\* Parse of a text in which the lexer finds an error inside a definition fails.
THEOREM ErrorsInsideFail == Spec => []ErrorInsideDefinitionFails
<1>1. ParserInv => ErrorInsideDefinitionFails
  BY DEF ParserInv, ErrorKept, ErrorInsideDefinitionFails
<1>. QED
  BY <1>1, ParserInvariant, PTL

\* The variables in scope where a list began stay in scope until it has ended.
THEOREM ScopesAreKept == Spec => EnclosingScopesKept
<1>1. ParserInv /\ [Next]_allVars =>
          [\A i \in DOMAIN k : /\ k[i].saved <= Len(vars')
                               /\ SubSeq(vars', 1, k[i].saved) = SubSeq(vars, 1, k[i].saved)]_allVars
  BY ParserStep, Zenon DEF Enclosing
<1>. QED
  BY <1>1, ParserInvariant, PTL DEF Spec, EnclosingScopesKept

-----------------------------------------------------------------------------
(* zap.                                                                    *)

\* The lexer has sent everything, and no error.
Quiet == lx = "stop" /\ item = NoItem /\ errAt = "nowhere"

\* Reading keeps LastItem, and what it reads after the end is nothing.
LEMMA ReadLast ==
    ASSUME LookInv, LastItem, NEW t, next(t) \/ nextAndBackup(t)
    PROVE  LastItem' /\ (Quiet => Quiet')
<1>p. peekCount \in 0..2 /\ token \in [1..2 -> ItemSet]
  BY DEF LookInv, BufType
<1>1. CASE peekCount > 0
  <2>1. UNCHANGED <<lx, item, token, errAt>> /\ peekCount' \in 0..peekCount
    BY <1>p, <1>1 DEF next, nextAndBackup, lexVars
  <2>. QED
    BY <1>p, <2>1 DEF LastItem, Quiet
<1>2. CASE peekCount = 0
  <2>1. receive(t) /\ peekCount' \in 0..1
    BY <1>2 DEF next, nextAndBackup
  <2>2. t = item /\ item # NoItem
    BY <2>1 DEF receive, nextItem, LastItem
  <2>3. errAt = "nowhere"
    BY <2>2 DEF LastItem
  <2>4. lx' = lx /\ item' = NoItem /\ token'[1] = t /\ (t.typ # "error" => errAt' = errAt)
    BY <1>p, <2>1 DEF receive
  <2>5. NoItem.typ = "none"
    BY ItemFacts
  <2>6. t.typ \in {"EOF", "error"} => lx = "stop"
    BY <2>2 DEF LastItem
  <2>7. errAt' # "nowhere" => lx' = "stop" /\ item' = NoItem
    BY <2>3, <2>4, <2>6
  <2>8. \A i \in 1..peekCount' : token'[i].typ = "EOF" => lx' = "stop" /\ item' = NoItem /\ errAt' = "nowhere"
    <3>1. \A i \in 1..peekCount' : i = 1
      BY <2>1
    <3>2. t.typ = "EOF" => lx' = "stop" /\ item' = NoItem /\ errAt' = "nowhere"
      BY <2>3, <2>4, <2>6
    <3>. QED
      BY <2>4, <3>1, <3>2, Zenon
  <2>9. lx' # "closed"
    BY <2>4 DEF LastItem
  <2>. QED
    BY <2>2, <2>4, <2>5, <2>7, <2>8, <2>9 DEF LastItem, Quiet
<1>. QED
  BY <1>p, <1>1, <1>2

\* So does backing up over an item that is not the end of the text.
LEMMA BackupLast ==
    ASSUME LookInv, Held, LastItem, pc \in {"declback", "topback"}, backup2(v)
    PROVE  LastItem' /\ (Quiet => Quiet')
<1>1. token \in [1..2 -> ItemSet] /\ UNCHANGED <<lx, item, errAt>>
  BY DEF LookInv, BufType, backup2, lexVars
<1>2. v.typ # "EOF" /\ peekCount = 1
  BY ZenonT(60) DEF Held, VarTypes
<1>3. token'[1] = token[1] /\ token'[2].typ # "EOF" /\ peekCount' = 2
  BY <1>1, <1>2 DEF backup2
<1>4. token[1].typ = "EOF" => Quiet
  <2>1. 1 \in 1..peekCount
    BY <1>2
  <2>. QED
    BY <2>1, Zenon DEF LastItem, Quiet
<1>5. \A i \in 1..2 : i = 1 \/ i = 2
  OBVIOUS
<1>. QED
  BY <1>1, <1>3, <1>4, <1>5 DEF LastItem, Quiet

\* Steps of the lexer.
LEMMA LexerLast ==
    ASSUME ZapInv, runLexer
    PROVE  ZapInv'
<1>0. LookInv /\ Held /\ LastItem /\ ReadToTheEnd
  BY DEF ZapInv
<1>1. item = NoItem /\ UNCHANGED <<bufVars, parVars, errAt>>
  BY DEF runLexer
<1>2. /\ LookInv' /\ lx' # "closed" /\ lx # "stop"
      /\ item'.typ \in {"EOF", "error"} => lx' = "stop"
  <2>1. CASE lexText \/ lexDelim \/ lexInsideAction
    BY <1>0, <1>1, <2>1, LexLook DEF lexText, lexDelim, lexInsideAction
  <2>2. ASSUME NEW typ \in {"(", ")"}, lx = "lexInsideAction", emit(Plain(typ), lx)
        PROVE  /\ LookInv' /\ lx' # "closed" /\ lx # "stop"
               /\ item'.typ \in {"EOF", "error"} => lx' = "stop"
    <3>1. Plain(typ).typ = typ /\ typ \in ItemTypes /\ Plain(typ).val \in Vals
      BY ItemFacts DEF ItemTypes
    <3>2. lx \in LexStates \ {"closed"}
      BY <2>2 DEF LexStates
    <3>3. UNCHANGED bufVars /\ lx # "closed" /\ lx' = lx
      BY <1>1, <2>2 DEF emit
    <3>4. LookInv' /\ item'.typ = typ
      BY <1>0, <1>1, <2>2, <3>1, <3>2, <3>3, EmitLook
    <3>. QED
      BY Zenon, <2>2, <3>3, <3>4
  <2>. QED
    BY Zenon, <2>1, <2>2 DEF runLexer, lexInside
<1>3. Held'
  BY ZenonT(60), <1>0, <1>1 DEF Held, parVars, bufVars
<1>4. LastItem'
  BY <1>0, <1>1, <1>2 DEF LastItem, bufVars
<1>5. ReadToTheEnd'
  BY <1>0, <1>1, <1>2 DEF ReadToTheEnd, parVars
<1>. QED
  BY <1>2, <1>3, <1>4, <1>5 DEF ZapInv

\* The actions of zap that the template parser does not have keep what is held.
LEMMA ZapHeld ==
    ASSUME LookInv, Held,
           \/ parseList \/ parseLeft \/ defineName \/ defineParent \/ blockList \/ blockListLeft
           \/ blockControl \/ parentheses \/ zapEnd \/ zapElse
    PROVE  LookInv' /\ Held'
<1>v. v \in ItemSet
  BY ZenonT(60) DEF Held
<1>h. pc \notin {"cmds", "cmd", "item"} => peekCount # 2
  BY Zenon DEF Held
<1>1. CASE parseList
  <2>1. PICK t \in Items :
            nextAndBackup(t) /\ \/ parseEOF
                                \/ t.typ = "left" /\ Go("topleft")
                                \/ Go("item")
    BY <1>1, Zenon DEF parseList, peek
  <2>p. peekCount # 2
    BY Zenon, <1>1, <1>h DEF parseList
  <2>l. /\ LookInv' /\ peekCount' \in 1..2 /\ t = token'[peekCount']
        /\ peekCount' = 2 <=> peekCount = 2
    BY <2>1, PeekLook
  <2>2. LookInv' /\ peekCount' = 1 /\ peekCount' # 2 /\ t = token'[1]
    BY <2>p, <2>l
  <2>3. v' = v /\ pc' \in {"halt", "topleft", "item"} /\ (pc' = "topleft" => t.typ = "left")
    BY <2>1 DEF Go, parseEOF
  <2>. QED
    BY <1>v, <2>2, <2>3, Zenon DEF Held
<1>2. CASE parseLeft
  <2>1. CASE pc = "topleft"
    <3>1. PICK t \in Items : next(t) /\ v' = t /\ pc' = "topdef"
      BY <1>2, <2>1 DEF parseLeft
    <3>h. peekCount = 1 /\ token[1].typ = "left"
      BY Zenon, <2>1 DEF Held
    <3>2. t = token[1] /\ t.typ = "left" /\ peekCount' = 0 /\ peekCount' # 2
      BY <3>1, <3>h DEF next
    <3>3. LookInv' /\ t \in ItemSet /\ t.n = pos'
      BY <3>1, NextLook
    <3>. QED
      BY <3>1, <3>2, <3>3, Zenon DEF Held
  <2>2. CASE pc = "topdef"
    <3>1. PICK t \in Items : \/ next(t) /\ Go("defname")
                             \/ nextAndBackup(t) /\ Go("topback")
      BY <1>2, <2>2 DEF parseLeft
    <3>2. CASE next(t) /\ Go("defname")
      BY <1>v, <3>2, NextHeld DEF Go, Special
    <3>3. CASE nextAndBackup(t) /\ Go("topback")
      <4>1. peekCount # 2 /\ v.n = pos /\ v.typ = "left"
        BY <1>h, <2>2 DEF Held
      <4>2. /\ LookInv' /\ pos' = pos /\ peekCount' \in 1..2 /\ t = token'[peekCount']
            /\ peekCount' = 2 <=> peekCount = 2
        BY <3>3, PeekLook
      <4>3. peekCount' = 1 /\ peekCount' # 2
        BY <4>1, <4>2
      <4>4. pc' = "topback" /\ v' = v
        BY <3>3 DEF Go
      <4>. QED
        BY <1>v, <4>1, <4>2, <4>3, <4>4, Zenon DEF Held
    <3>. QED
      BY <3>1, <3>2, <3>3
  <2>3. CASE pc = "topback"
    <3>1. backup2(v) /\ v' = v /\ pc' = "item"
      BY Zenon, <1>2, <2>3 DEF parseLeft, Go
    <3>2. peekCount = 1 /\ v.n = pos /\ v.typ = "left"
      BY <2>3 DEF Held
    <3>3. LookInv' /\ peekCount' = 2 /\ token'[2] = v
      BY <1>v, <3>1, <3>2, Backup2Look
    <3>. QED
      BY ZenonT(60), <1>v, <3>1, <3>2, <3>3 DEF Held
  <2>. QED
    BY <1>2, <2>1, <2>2, <2>3 DEF parseLeft
<1>3. CASE defineName
  <2>1. PICK t \in Items : next(t) /\ v' = v /\ pc' \in {"defright", "halt"}
    BY <1>3 DEF defineName, errorf, Halt
  <2>. QED
    BY <1>v, <2>1, NextHeld DEF Special
<1>4. CASE defineParent
  <2>0. PICK t \in Items :
            next(t) /\ \/ expect(t, "right", "list")
                       \/ pc' = "childright" /\ UNCHANGED <<vars, ctx, v, decl, cmds, tree, outcome>>
    BY <1>4, Zenon DEF defineParent
  <2>1. next(t) /\ v' = v /\ pc' \in {"list", "childright", "halt"}
    BY <2>0, Moves
  <2>. QED
    BY <1>v, <2>1, NextHeld DEF Special
<1>5. CASE blockList
  <2>1. PICK t \in Items : next(t) /\ v' = v /\ pc' \in {"list", "childleft", "halt"}
    BY <1>5, Moves DEF blockList
  <2>. QED
    BY <1>v, <2>1, NextHeld DEF Special
<1>6. CASE blockListLeft
  <2>1. PICK t \in Items : next(t) /\ v' = v /\ pc' \in {"bname", "end", "halt"}
    BY ZenonT(60), <1>6, Moves DEF blockListLeft
  <2>. QED
    BY <1>v, <2>1, NextHeld DEF Special
<1>7. CASE blockControl
  <2>1. PICK t \in Items : next(t) /\ v' = v /\ pc' \in {"bright", "list", "halt"}
    BY <1>7, Moves DEF blockControl
  <2>. QED
    BY <1>v, <2>1, NextHeld DEF Special
<1>8. CASE parentheses
  <2>1. PICK t \in Items :
            \/ next(t) /\ pc' = "decl" /\ UNCHANGED <<vars, v, tree, outcome>>
            \/ pc = "cmd" /\ nextAndBackup(t) /\ pc' = "cmds" /\ UNCHANGED <<k, vars, ctx, v, decl, tree, outcome>>
            \/ next(t) /\ errorf
            \/ nextAndBackup(t) /\ t.typ = ")" /\ IF ctx = "paren" THEN Go("paren") ELSE EndPipeline
            \/ next(t) /\ pc' = "cmd" /\ UNCHANGED <<vars, v, decl, cmds, tree, outcome>>
    BY <1>8, Zenon DEF parentheses
  <2>2. \/ next(t) /\ v' = v /\ pc' \in {"decl", "halt", "cmd"}
        \/ nextAndBackup(t) /\ v' = v /\ pc' = "cmds" /\ pc = "cmd"
        \/ nextAndBackup(t) /\ v' = v /\ pc' \in {"paren", "list"} /\ t.typ = ")"
    BY <2>1, Moves
  <2>3. nextAndBackup(t) /\ t.typ = ")" => peekCount # 2
    <3>1. peekCount = 2 => token[2].typ \in {"variable", "fieldvar", "left"}
      BY DEF Held, VarTypes
    <3>2. peekCount = 2 /\ nextAndBackup(t) => t = token[2]
      BY DEF nextAndBackup
    <3>. QED
      BY Zenon, <3>1, <3>2
  <2>. QED
    BY Zenon, <1>v, <2>2, <2>3, NextHeld, PeekHeld DEF Special, Held
<1>9. CASE zapEnd
  <2>1. PICK t \in Items : next(t) /\ (zapEndList \/ errorf)
    BY <1>9 DEF zapEnd
  <2>2. zapEndList => v' = v /\ pc' \in {"halt", "list"}
    BY DEF zapEndList, endDefinition, Append1, Halt, errorf
  <2>3. v' = v /\ pc' \in {"halt", "list"}
    BY <2>1, <2>2, Moves
  <2>. QED
    BY <1>v, <2>1, <2>3, NextHeld DEF Special
<1>10. CASE zapElse
  <2>1. CASE elseControl
    BY <2>1, SharedHeld
  <2>2. CASE ~elseControl
    <3>1. PICK t \in Items : next(t) /\ v' = v /\ pc' \in {"list", "halt"}
      BY <1>10, <2>2 DEF zapElse, Append1, errorf, Halt
    <3>. QED
      BY <1>v, <3>1, NextHeld DEF Special
  <2>. QED
    BY <2>1, <2>2
<1>. QED
  BY <1>1, <1>2, <1>3, <1>4, <1>5, <1>6, <1>7, <1>8, <1>9, <1>10

\* What a step of zap's parser reads, and how it ends: only at the end of the text
\* without an error.
ZapStep ==
    \/ /\ \E t : next(t) \/ nextAndBackup(t)
       /\ outcome' = outcome \/ outcome' # "ok"
    \/ \E t : nextAndBackup(t) /\ t.typ = "EOF"
    \/ pc \in {"declback", "topback"} /\ backup2(v) /\ outcome' = outcome

\* The moves do not end the parse without an error.
LEMMA Ends ==
    /\ \A place : Go(place) => outcome' = outcome
    /\ errorf => outcome' # "ok"
    /\ \A t, typ, place : expect(t, typ, place) => outcome' = outcome \/ outcome' # "ok"
    /\ \A kind, name, place : Push(kind, name, place) => outcome' = outcome
    /\ \A context : Pipeline(context) => outcome' = outcome
    /\ EndPipeline => outcome' = outcome
<1>1. \A place : Go(place) => outcome' = outcome
  BY DEF Go
<1>2. errorf => outcome' # "ok"
  BY DEF errorf, Halt
<1>. QED
  BY <1>1, <1>2, Zenon DEF expect, Push, Pipeline, EndPipeline

\* The steps of zap's parser are of these kinds.
LEMMA ZapSteps ==
    ASSUME parseAll
    PROVE  ZapStep
<1>1. CASE parseList
  BY <1>1, Ends DEF parseList, peek, ZapStep
<1>2. CASE parseLeft
  BY <1>2, Ends DEF parseLeft, ZapStep
<1>3. CASE defineName
  BY <1>3, Ends DEF defineName, ZapStep
<1>4. CASE defineParent
  BY <1>4, Ends DEF defineParent, ZapStep
<1>5. CASE blockList \/ blockListLeft \/ blockControl
  <2>1. CASE blockList
    BY Zenon, <2>1, Ends DEF blockList, ZapStep
  <2>2. CASE blockListLeft
    BY Zenon, <2>2, Ends DEF blockListLeft, ZapStep
  <2>3. CASE blockControl
    BY Zenon, <2>3, Ends DEF blockControl, ZapStep
  <2>. QED
    BY Zenon, <1>5, <2>1, <2>2, <2>3
<1>6. CASE parentheses
  BY <1>6, Ends DEF parentheses, ZapStep
<1>7. CASE itemList \/ textOrAction
  BY <1>7, Ends DEF itemList, textOrAction, peek, ZapStep
<1>8. CASE action
  BY ZenonT(60), <1>8, Ends DEF action, ZapStep
<1>9. CASE declarations
  BY ZenonT(60), <1>9, Ends DEF declarations, peek, ZapStep
<1>10. CASE commands \/ command
  BY <1>10, Ends DEF commands, command, ZapStep
<1>11. CASE templateControl
  BY <1>11, Ends DEF templateControl, ZapStep
<1>12. CASE zapEnd
  <2>1. zapEndList => outcome' = outcome \/ outcome' # "ok"
    BY Zenon, Ends DEF zapEndList, endDefinition, Halt
  <2>. QED
    BY <1>12, <2>1, Ends DEF zapEnd, ZapStep
<1>13. CASE zapElse
  BY <1>13, Ends DEF zapElse, elseControl, ZapStep
<1>. QED
  BY Zenon, <1>1, <1>2, <1>3, <1>4, <1>5, <1>6, <1>7, <1>8, <1>9, <1>10, <1>11, <1>12, <1>13
     DEF parseAll, zapItem, zapPipeline, zapCommand, zapTemplate

\* The invariant of zap's parser is inductive.
LEMMA ZapStepKeeps ==
    ASSUME ZapInv, [ZapNext]_zapAll
    PROVE  ZapInv'
<1>0. LookInv /\ Held /\ LastItem /\ ReadToTheEnd
  BY DEF ZapInv
<1>1. CASE runLexer
  BY <1>1, LexerLast
<1>2. CASE parseAll
  <2>1. LookInv' /\ Held'
    BY <1>0, <1>2, ZapHeld, SharedHeld, DeclarationsHeld, Zenon
       DEF parseAll, zapItem, zapPipeline, zapCommand, zapTemplate
  <2>2. LastItem' /\ (Quiet => Quiet')
    BY <1>0, <1>2, ZapSteps, ReadLast, BackupLast DEF ZapStep
  <2>3. (outcome' = "ok" /\ outcome # "ok") => Quiet'
    <3>1. ASSUME NEW t, nextAndBackup(t), t.typ = "EOF"
          PROVE  Quiet'
      <4>1. peekCount' \in 1..2 /\ t = token'[peekCount']
        BY <1>0, <3>1, PeekLook
      <4>2. peekCount' \in 1..peekCount'
        BY <4>1
      <4>. QED
        BY <2>2, <3>1, <4>1, <4>2 DEF LastItem, Quiet
    <3>. QED
      BY <1>2, <3>1, ZapSteps DEF ZapStep
  <2>4. ReadToTheEnd'
    BY <1>0, <2>2, <2>3 DEF ReadToTheEnd, Quiet
  <2>. QED
    BY <2>1, <2>2, <2>4 DEF ZapInv
<1>3. CASE UNCHANGED zapAll
  <2>1. UNCHANGED <<input, lx, item, emitted, token, peekCount, got, pos>>
    BY <1>3 DEF zapAll, allVars, lexVars, bufVars
  <2>2. UNCHANGED <<pc, v, outcome, errAt>>
    BY Zenon, <1>3 DEF zapAll, allVars, parVars
  <2>3. LookInv'
    BY <1>0, <2>1 DEF LookInv, BufType, Sent, LookaheadInOrder
  <2>4. Held'
    BY <1>0, <2>1, <2>2, Zenon DEF Held
  <2>5. LastItem' /\ ReadToTheEnd'
    BY <1>0, <2>1, <2>2, Zenon DEF LastItem, ReadToTheEnd
  <2>. QED
    BY <2>3, <2>4, <2>5 DEF ZapInv
<1>. QED
  BY <1>1, <1>2, <1>3 DEF ZapNext

LEMMA ZapInitially == ZapInit => ZapInv
<1> SUFFICES ASSUME ZapInit PROVE ZapInv
  OBVIOUS
<1>0. /\ input \in DOMAIN Inputs /\ lx = "lexText" /\ item = NoItem /\ emitted = 0
      /\ token = <<NoItem, NoItem>> /\ peekCount = 0 /\ got = 0 /\ pos = 0 /\ pc = "list" /\ v = NoItem
      /\ errAt = "nowhere" /\ outcome = "running"
  BY DEF ZapInit
<1>s. pc \notin Special
  BY <1>0 DEF Special
<1>1. LookInv /\ Held
  BY Zenon, <1>0, <1>s, Beginning
<1>2. item.typ = "none" /\ \A i \in 1..peekCount : FALSE
  <2>1. item.typ = "none"
    BY Zenon, <1>0, ItemFacts
  <2>2. \A i \in 1..peekCount : FALSE
    BY <1>0
  <2>. QED
    BY Zenon, <2>1, <2>2
<1>3. LastItem /\ ReadToTheEnd
  BY <1>0, <1>2 DEF LastItem, ReadToTheEnd
<1>. QED
  BY <1>1, <1>3 DEF ZapInv

\* The invariant of zap's lexer and parser.
THEOREM ZapInvariant == ZapSpec => []ZapInv
  BY ZapInitially, ZapStepKeeps, PTL DEF ZapSpec

\* zap's parser sees every item once and in order as well, for any input.
THEOREM ZapLookaheadIsInOrder == ZapSpec => []LookaheadInOrder
<1>1. ZapInv => LookaheadInOrder
  BY DEF ZapInv, LookInv
<1>. QED
  BY <1>1, ZapInvariant, PTL

\* A text zap accepts was read to its end, and the lexer met no error.
THEOREM AcceptedIsReadToTheEnd == ZapSpec => []ReadToTheEnd
<1>1. ZapInv => ReadToTheEnd
  BY DEF ZapInv
<1>. QED
  BY <1>1, ZapInvariant, PTL

-----------------------------------------------------------------------------
(* The contexts of the escaper.  join is where escapeBranch brings the two *)
(* branches of a control together, and may neither depend on which comes   *)
(* first nor lose what they agree on.                                      *)

\* The contexts the escaper makes: an error has no other parts.
Proper == {c \in Contexts : IsError(c) => c = Error}

\* nudge leaves a context the transitions know, and an error only of an error.
LEMMA NudgeProper ==
    ASSUME NEW c \in Proper
    PROVE  nudge(c) \in Proper /\ (IsError(nudge(c)) <=> IsError(c))
<1>1. c \in Contexts /\ (IsError(c) => c = Error)
    BY DEF Proper
<1>2. attrStartStates(c.attr) \in {"Attr", "JS", "CSS", "URL"}
    BY <1>1 DEF Contexts, Attrs, attrStartStates
<1>3. {"AttrName", "Attr", "JS", "CSS", "URL"} \subseteq States
    BY DEF States
<1>4. nudge(c) = c \/ nudge(c).state \in {"AttrName", "Attr", "JS", "CSS", "URL"}
    BY <1>1, <1>2 DEF nudge, Contexts
<1>5. nudge(c) \in Contexts
    BY Zenon, <1>1, <1>2, <1>3 DEF nudge, Contexts, Delims, Attrs
<1>6. IsError(c) => nudge(c) = c
    BY DEF nudge, IsError
<1> QED
    BY <1>1, <1>4, <1>5, <1>6 DEF Proper, IsError

\* The empty transitions are taken all at once: a second nudge does nothing, so
\* the call join makes of itself does not nudge again (nudge and join of escape.go).
THEOREM NudgeIdempotent ==
    ASSUME NEW c \in Proper
    PROVE  nudge(nudge(c)) = nudge(c)
BY ZenonT(60) DEF nudge, Proper, Contexts, Attrs, attrStartStates

\* Two contexts that differ in one part only give the same whichever comes first.
LEMMA JoinUnnudgedCommutes ==
    ASSUME NEW a \in Proper, NEW b \in Proper
    PROVE  joinUnnudged(a, b) = joinUnnudged(b, a)
<1>1. a \in Contexts /\ b \in Contexts /\ (IsError(a) => a = Error) /\ (IsError(b) => b = Error)
    BY DEF Proper
<1>2. ([a EXCEPT !.urlPart = b.urlPart] = b) <=> ([b EXCEPT !.urlPart = a.urlPart] = a)
    BY <1>1 DEF Contexts
<1>3. ([a EXCEPT !.jsCtx = b.jsCtx] = b) <=> ([b EXCEPT !.jsCtx = a.jsCtx] = a)
    BY <1>1 DEF Contexts
<1>4. [a EXCEPT !.urlPart = b.urlPart] = b => [a EXCEPT !.urlPart = "Unknown"] = [b EXCEPT !.urlPart = "Unknown"]
    BY <1>1 DEF Contexts
<1>5. [a EXCEPT !.jsCtx = b.jsCtx] = b => [a EXCEPT !.jsCtx = "Unknown"] = [b EXCEPT !.jsCtx = "Unknown"]
    BY <1>1 DEF Contexts
<1> QED
    BY <1>1, <1>2, <1>3, <1>4, <1>5 DEF joinUnnudged

\* The context after a control does not depend on which of its branches is the
\* else branch (join of escape.go, called by escapeBranch).
THEOREM JoinCommutes ==
    ASSUME NEW a \in Proper, NEW b \in Proper
    PROVE  join(a, b) = join(b, a)
<1>1. joinUnnudged(a, b) = joinUnnudged(b, a)
    BY JoinUnnudgedCommutes
<1>2. joinUnnudged(nudge(a), nudge(b)) = joinUnnudged(nudge(b), nudge(a))
    BY NudgeProper, JoinUnnudgedCommutes
<1> QED
    BY <1>1, <1>2 DEF join

\* A context that join makes up is an error or agrees with both branches, as they
\* are or nudged, on everything but the part of a URL and the meaning of a slash,
\* and on those unless it says that they are unknown (join of escape.go).
THEOREM JoinAgrees ==
    ASSUME NEW a \in Proper, NEW b \in Proper, ~IsError(join(a, b))
    PROVE  \E x \in {a, nudge(a)} : \E y \in {b, nudge(b)} : \A z \in {x, y} :
              /\ join(a, b).state = z.state
              /\ join(a, b).delim = z.delim
              /\ join(a, b).attr = z.attr
              /\ join(a, b).element = z.element
              /\ join(a, b).urlPart \in {z.urlPart, "Unknown"}
              /\ join(a, b).jsCtx \in {z.jsCtx, "Unknown"}
<1> DEFINE Agrees(c, x, y) ==
        \A z \in {x, y} :
            /\ c.state = z.state /\ c.delim = z.delim /\ c.attr = z.attr /\ c.element = z.element
            /\ c.urlPart \in {z.urlPart, "Unknown"} /\ c.jsCtx \in {z.jsCtx, "Unknown"}
<1>1. ASSUME NEW x \in Proper, NEW y \in Proper, ~IsError(joinUnnudged(x, y))
      PROVE  Agrees(joinUnnudged(x, y), x, y)
  <2>1. x \in Contexts /\ y \in Contexts
      BY DEF Proper
  <2>2. IsError(Error)
      BY DEF IsError, Error, Context
  <2> QED
      BY <1>1, <2>1, <2>2 DEF joinUnnudged, Contexts
<1>2. nudge(a) \in Proper /\ nudge(b) \in Proper
    BY NudgeProper
<1>3. \/ join(a, b) = joinUnnudged(a, b)
      \/ join(a, b) = joinUnnudged(nudge(a), nudge(b))
    BY DEF join
<1> HIDE DEF Agrees
<1>4. Agrees(join(a, b), a, b) \/ Agrees(join(a, b), nudge(a), nudge(b))
    BY Zenon, <1>1, <1>2, <1>3
<1>5. CASE Agrees(join(a, b), a, b)
    BY ONLY <1>5 DEF Agrees
<1>6. CASE Agrees(join(a, b), nudge(a), nudge(b))
    BY ONLY <1>6 DEF Agrees
<1> QED
    BY Zenon, <1>4, <1>5, <1>6
=============================================================================
