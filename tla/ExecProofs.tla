----------------------------- MODULE ExecProofs -----------------------------
(***************************************************************************)
(* Proofs about the execution of templates, TemplateExec, for any set of   *)
(* templates, nested and invoked to any depth.                             *)
(*                                                                         *)
(* The fillers of a state are told apart by the invocation they belong to. *)
(* Those of this invocation are what walkBlock looks at; those of the      *)
(* callers are in the frames of ks, and come back when a call returns.     *)
(*                                                                         *)
(* The parser leaves the lists of controls, blocks and fills nested,       *)
(* CodeInv. That a variable means at run time what it means by the scopes  *)
(* of the text rests on it, and is proved in ScopeProofs.                  *)
(***************************************************************************)
EXTENDS TemplateExec, TLAPS

\* There is much in scope: the provers are given more time than usual.
USE SMTT(30)

\* What is left of the calls when the last returns.
LEMMA FrontOf ==
    ASSUME NEW S, NEW s \in Seq(S), s # <<>>
    PROVE  /\ Len(s) \in Nat \ {0} /\ Front(s) \in Seq(S) /\ Len(Front(s)) = Len(s) - 1
           /\ \A i \in 1..(Len(s) - 1) : Front(s)[i] = s[i]
<1>1. Len(s) \in Nat \ {0}
  OBVIOUS
<1>2. ASSUME NEW m \in 0..Len(s)
      PROVE  /\ SubSeq(s, 1, m) \in Seq(S) /\ Len(SubSeq(s, 1, m)) = m
             /\ \A i \in 1..m : SubSeq(s, 1, m)[i] = s[i]
  OBVIOUS
<1>3. Len(s) - 1 \in 0..Len(s)
  BY <1>1
<1>. QED
  BY ZenonT(60), <1>1, <1>2, <1>3 DEF Front

\* A sequence of one.
LEMMA Singleton == ASSUME NEW S, NEW x \in S PROVE <<x>> \in Seq(S) /\ Len(<<x>>) = 1
  OBVIOUS

-----------------------------------------------------------------------------
(* The fillers of an invocation.                                           *)

\* The frames that begin an invocation.
Invocations == {"call", "fill"}

\* d[i] is the number of invocations in progress above the first i frames of
\* stack: each frame holds the fillers of the invocation it was made in, and
\* the last is the current one.
Levels(d, stack, top) ==
    /\ d \in [0..Len(stack) -> Nat]
    /\ d[Len(stack)] = top
    /\ \A i \in 1..Len(stack) :
          /\ d[i] = IF stack[i].k \in Invocations THEN d[i - 1] + 1 ELSE d[i - 1]
          /\ \A f \in stack[i].fillers : f.act = d[i - 1]

\* The inductive invariant.
FillersInv ==
    /\ \E S : ks \in Seq(S)
    /\ act \in Nat
    /\ FillersOfThisFill
    /\ outcome = "writing" => ks = <<>> /\ fillers = {}
    /\ \E d : Levels(d, ks, act)

\* What a step of the walk may do with the calls and the fillers.
Pushes(f) ==
    /\ f.fillers = fillers /\ ks' = Append(ks, f)
    /\ IF f.k \in Invocations THEN act' = act + 1 /\ fillers' = {}
                              ELSE act' = act /\ fillers' = fillers

Pops ==
    /\ ks # <<>> /\ ks' = Front(ks)
    /\ IF Top.k \in Invocations THEN act' = act - 1 /\ fillers' = Top.fillers
                                ELSE act' = act /\ fillers' = fillers

Keeps ==
    /\ act' = act
    /\ \A f \in fillers' : f \in fillers \/ f.act = act
    /\ \/ ks' = ks
       \/ /\ ks # <<>>
          /\ \E x : /\ ks' = [ks EXCEPT ![Len(ks)] = x]
                    /\ x.fillers = Top.fillers
                    /\ x.k \in Invocations <=> Top.k \in Invocations

FillerStep ==
    /\ outcome' # "writing"
    /\ Pops \/ Keeps \/ \E f : Pushes(f)

\* A block is replaced only by a filler of the fill that invoked this very
\* template (walkBlock, walkFill), for every set of templates.
THEOREM FillersAreOfThisFill == Spec => []FillersOfThisFill
\* A call, of an invocation or of a list in it, keeps the fillers there are.
<1>PushLevels. ASSUME FillersInv, NEW f, f.fillers = fillers, ks' = Append(ks, f),
                      act' = IF f.k \in Invocations THEN act + 1 ELSE act
               PROVE  (\E S : ks' \in Seq(S)) /\ act' \in Nat /\ \E d : Levels(d, ks', act')
  <2> USE <1>PushLevels
  <2>1. PICK S : ks \in Seq(S)
    BY DEF FillersInv
  <2>2. PICK d : Levels(d, ks, act)
    BY DEF FillersInv
  <2>3. act' \in Nat
    BY DEF FillersInv
  <2>4. ks' \in Seq(S \cup {f}) /\ Len(ks') = Len(ks) + 1 /\ ks'[Len(ks) + 1] = f
        /\ \A i \in 1..Len(ks) : ks'[i] = ks[i]
    BY <2>1
  <2> DEFINE e == [i \in 0..Len(ks') |-> IF i = Len(ks) + 1 THEN act' ELSE d[i]]
  <2>5. Len(ks) \in Nat
    BY <2>1
  <2>6. e \in [0..Len(ks') -> Nat] /\ e[Len(ks')] = act'
        /\ \A i \in 0..Len(ks) : e[i] = d[i]
    BY <2>2, <2>3, <2>4, <2>5 DEF Levels
  <2>7. ASSUME NEW i \in 1..Len(ks')
        PROVE  /\ e[i] = IF ks'[i].k \in Invocations THEN e[i - 1] + 1 ELSE e[i - 1]
               /\ \A g \in ks'[i].fillers : g.act = e[i - 1]
    <3>1. CASE i \in 1..Len(ks)
      BY <2>2, <2>4, <2>5, <2>6, <3>1 DEF Levels
    <3>2. CASE i = Len(ks) + 1
      <4>1. e[i - 1] = act /\ e[i] = act' /\ ks'[i] = f
        BY <2>2, <2>4, <2>5, <2>6, <3>2 DEF Levels
      <4>. QED
        BY ZenonT(60), <4>1 DEF FillersInv, FillersOfThisFill
    <3>. QED
      BY <2>4, <2>5, <3>1, <3>2
  <2>8. Levels(e, ks', act')
    BY ZenonT(60), <2>6, <2>7 DEF Levels
  <2>. QED
    BY <2>3, <2>4, <2>8
\* A return gives back the fillers of the frame, if an invocation ends, and leaves
\* them, if not.
<1>PopLevels. ASSUME FillersInv, ks # <<>>, ks' = Front(ks),
                     IF Top.k \in Invocations THEN act' = act - 1 /\ fillers' = Top.fillers
                                              ELSE act' = act /\ fillers' = fillers
              PROVE  (\E S : ks' \in Seq(S)) /\ act' \in Nat /\ FillersOfThisFill' /\ \E d : Levels(d, ks', act')
  <2> USE <1>PopLevels
  <2>1. PICK S : ks \in Seq(S)
    BY DEF FillersInv
  <2>2. PICK d : Levels(d, ks, act)
    BY DEF FillersInv
  <2>3. Len(ks) \in Nat \ {0}
    BY <2>1, FrontOf
  <2>4. ks' \in Seq(S) /\ Len(ks') = Len(ks) - 1 /\ \A i \in 1..Len(ks') : ks'[i] = ks[i]
    BY ZenonT(60), <2>1, FrontOf
  <2>5. d \in [0..Len(ks) -> Nat] /\ d[Len(ks)] = act /\ Top = ks[Len(ks)]
        /\ Len(ks) \in 1..Len(ks) /\ Len(ks) - 1 \in 0..Len(ks)
    BY <2>2, <2>3 DEF Levels, Top, Last
  <2>6. /\ act = IF Top.k \in Invocations THEN d[Len(ks) - 1] + 1 ELSE d[Len(ks) - 1]
        /\ \A f \in Top.fillers : f.act = d[Len(ks) - 1]
    BY <2>2, <2>5 DEF Levels
  <2>7. d[Len(ks) - 1] \in Nat
    BY <2>5
  <2>8. act' = d[Len(ks) - 1]
    BY <2>6, <2>7
  <2>9. FillersOfThisFill'
    BY <2>6, <2>7, <2>8 DEF FillersInv, FillersOfThisFill
  <2> DEFINE e == [i \in 0..Len(ks') |-> d[i]]
  <2>10. e \in [0..Len(ks') -> Nat] /\ e[Len(ks')] = act' /\ \A i \in 0..Len(ks') : e[i] = d[i]
    BY <2>3, <2>4, <2>5, <2>8
  <2>11. ASSUME NEW i \in 1..Len(ks')
         PROVE  /\ e[i] = IF ks'[i].k \in Invocations THEN e[i - 1] + 1 ELSE e[i - 1]
                /\ \A f \in ks'[i].fillers : f.act = e[i - 1]
    <3>1. i \in 1..Len(ks) /\ i - 1 \in 0..Len(ks') /\ i \in 0..Len(ks')
      BY <2>3, <2>4
    <3>. QED
      BY <2>2, <2>4, <2>10, <3>1 DEF Levels
  <2>12. Levels(e, ks', act')
    BY ZenonT(60), <2>10, <2>11 DEF Levels
  <2>. QED
    BY <2>4, <2>7, <2>8, <2>9, <2>12
\* The invocation and what its calls saved stay as they are, in every respect but
\* where they return to.
<1>SameLevels. ASSUME FillersInv, act' = act,
                      \/ ks' = ks
                      \/ /\ ks # <<>> /\ \E S : ks' \in Seq(S)
                         /\ Len(ks') = Len(ks)
                         /\ \A i \in 1..Len(ks) : /\ ks'[i].fillers = ks[i].fillers
                                                  /\ ks'[i].k \in Invocations <=> ks[i].k \in Invocations
               PROVE  (\E S : ks' \in Seq(S)) /\ act' \in Nat /\ \E d : Levels(d, ks', act')
  <2> USE <1>SameLevels
  <2>1. PICK d : Levels(d, ks, act)
    BY DEF FillersInv
  <2>2. CASE ks' = ks
    BY <2>2 DEF FillersInv
  <2>3. CASE ks' # ks
    <3>1. Levels(d, ks', act')
      BY <2>1, <2>3 DEF Levels
    <3>. QED
      BY <2>3, <3>1 DEF FillersInv
  <2>. QED
    BY <2>2, <2>3
<1>KeepsSaved. ASSUME FillersInv, Keeps
               PROVE  (\E S : ks' \in Seq(S)) /\ act' \in Nat /\ \E d : Levels(d, ks', act')
  <2> USE <1>KeepsSaved
  <2>1. CASE ks' = ks
    BY <2>1, <1>SameLevels DEF Keeps
  <2>2. ASSUME ks # <<>>, NEW x, ks' = [ks EXCEPT ![Len(ks)] = x], x.fillers = Top.fillers,
               x.k \in Invocations <=> Top.k \in Invocations
        PROVE  (\E S : ks' \in Seq(S)) /\ act' \in Nat /\ \E d : Levels(d, ks', act')
    <3>1. PICK S : ks \in Seq(S)
      BY DEF FillersInv
    <3>2. ks' \in Seq(S \cup {x}) /\ Len(ks') = Len(ks)
          /\ \A i \in 1..Len(ks) : ks'[i] = IF i = Len(ks) THEN x ELSE ks[i]
      BY <2>2, <3>1
    <3>3. \A i \in 1..Len(ks) : /\ ks'[i].fillers = ks[i].fillers
                                /\ ks'[i].k \in Invocations <=> ks[i].k \in Invocations
      BY ZenonT(60), <2>2, <3>2 DEF Top, Last
    <3>. QED
      BY ZenonT(60), <2>2, <3>2, <3>3, <1>SameLevels DEF Keeps
  <2>. QED
    BY <2>1, <2>2 DEF Keeps
<1>FillersKept. ASSUME FillersInv, FillerStep
                PROVE  FillersInv'
  <2> USE <1>FillersKept
  <2>1. CASE Pops
    BY <2>1, <1>PopLevels DEF Pops, FillerStep, FillersInv
  <2>2. CASE Keeps
    <3>1. FillersOfThisFill'
      BY <2>2 DEF Keeps, FillersInv, FillersOfThisFill
    <3>. QED
      BY <2>2, <3>1, <1>KeepsSaved DEF FillerStep, FillersInv
  <2>3. ASSUME NEW f, Pushes(f)
        PROVE  FillersInv'
    <3>1. FillersOfThisFill'
      BY <2>3 DEF Pushes, FillersInv, FillersOfThisFill
    <3>. QED
      BY <2>3, <3>1, <1>PushLevels DEF Pushes, FillerStep, FillersInv
  <2>. QED
    BY <2>1, <2>2, <2>3 DEF FillerStep
<1>FillersInit. Init => FillersInv
  <2> SUFFICES ASSUME Init PROVE FillersInv
    OBVIOUS
  <2>1. ks \in Seq({}) /\ Len(ks) = 0 /\ act = 0 /\ fillers = {}
    BY DEF Init
  <2>2. Levels([i \in 0..0 |-> 0], ks, act)
    BY <2>1 DEF Levels
  <2>. QED
    BY <2>1, <2>2 DEF FillersInv, FillersOfThisFill, Init
\* A frame, whatever of it the walk function sets besides.
<1>Frames. ASSUME NEW k, NEW b, NEW c, NEW d
           PROVE  LET f == Call(k)
                      g == [Call(k) EXCEPT !.vars = b]
                      h == [Call(k) EXCEPT !.inner = b, !.iter = c, !.n = d]
                  IN /\ f.k = k /\ f.fillers = fillers
                     /\ g.k = k /\ g.fillers = fillers
                     /\ h.k = k /\ h.fillers = fillers
  BY <1>Frames DEF Call
\* Each walk function, with the calls it makes and the returns from them.
<1>WalkActionStep. ASSUME Running, walkAction PROVE FillerStep
  BY <1>WalkActionStep DEF Running, walkAction, FillerStep, Keeps, SameState, Halt
<1>WalkIfStep. ASSUME Running, walkIfOrWith PROVE FillerStep
  <2> USE <1>WalkIfStep
  <2>1. Pushes(Call("if"))
    BY <1>Frames DEF walkIfOrWith, Pushes, SameState, Invocations
  <2>. QED
    BY <2>1 DEF walkIfOrWith, Running, FillerStep, SameState
<1>EndIfStep. ASSUME Running, endIfOrWith PROVE FillerStep
  BY <1>EndIfStep DEF Running, endIfOrWith, FillerStep, Keeps, Pops, SameState, Return, Invocations
<1>WalkRangeStep. ASSUME Running, walkRange PROVE FillerStep
  <2> USE <1>WalkRangeStep
  <2>1. PICK n \in 0..P.range : 
           ks' = Append(ks, [Call("range") EXCEPT !.inner = Len(vars) + Len(Item.decls),
                                                  !.iter = IF n = 0 THEN 0 ELSE 1, !.n = n])
    BY ZenonT(60) DEF walkRange
  <2> DEFINE f == [Call("range") EXCEPT !.inner = Len(vars) + Len(Item.decls),
                                        !.iter = IF n = 0 THEN 0 ELSE 1, !.n = n]
  <2>2. f.k = "range" /\ f.fillers = fillers
    BY <1>Frames
  <2> HIDE DEF f
  <2>3. Pushes(f)
    BY <2>1, <2>2 DEF f, walkRange, Pushes, SameState, Invocations
  <2>. QED
    BY <2>3 DEF walkRange, Running, FillerStep, SameState
<1>EndRangeStep. ASSUME FillersInv, Running, endRange PROVE FillerStep
  <2> USE <1>EndRangeStep
  <2>1. outcome' # "writing" /\ act' = act /\ fillers' = fillers /\ ks # <<>> /\ Top.k = "range"
    BY DEF Running, endRange, SameState
  <2>2. CASE ks' = [ks EXCEPT ![Len(ks)].iter = @ + 1]
    <3> DEFINE x == [Top EXCEPT !.iter = @ + 1]
    <3>1. ks' = [ks EXCEPT ![Len(ks)] = x]
      BY <2>2 DEF Top, Last
    <3>2. x.fillers = Top.fillers /\ x.k = Top.k
      OBVIOUS
    <3>3. Keeps
      BY ZenonT(60), <2>1, <3>1, <3>2 DEF Keeps
    <3>. QED
      BY <2>1, <3>3 DEF FillerStep
  <2>3. CASE Return
    BY <2>1, <2>3 DEF FillerStep, Pops, Return, Invocations
  <2>. QED
    BY <2>2, <2>3 DEF endRange
<1>WalkTemplateStep. ASSUME Running, walkTemplate PROVE FillerStep
  <2> USE <1>WalkTemplateStep
  <2>1. CASE Halt("error")
    BY <2>1 DEF FillerStep, Keeps, Halt
  <2>2. CASE ~Halt("error")
    <3>1. Pushes([Call("call") EXCEPT !.vars = evalPipeline(at)])
      BY <2>2, <1>Frames DEF walkTemplate, Pushes, Invocations
    <3>. QED
      BY <2>2, <3>1 DEF walkTemplate, Running, FillerStep
  <2>. QED
    BY <2>1, <2>2
<1>EndTemplateStep. ASSUME Running, endTemplate PROVE FillerStep
  BY <1>EndTemplateStep DEF Running, endTemplate, FillerStep, Keeps, Pops, Halt, Return, Invocations
<1>WalkBlockStep. ASSUME FillersInv, Running, walkBlock PROVE FillerStep
  <2> USE <1>WalkBlockStep
  <2>1. CASE filling
    <3>1. \/ Halt("error")
          \/ /\ fillers' = fillers \cup {[name |-> Item.name, at |-> at, act |-> act]}
             /\ UNCHANGED <<act, ks, outcome>>
      BY ZenonT(60), <2>1 DEF walkBlock
    <3>. QED
      BY <3>1 DEF Running, FillerStep, Keeps, Halt
  <2>2. CASE ~filling
    <3>1. SameState /\ ks' = Append(ks, Call("block"))
      BY ZenonT(60), <2>2 DEF walkBlock
    <3>2. Pushes(Call("block"))
      BY <3>1, <1>Frames DEF Pushes, SameState, Invocations
    <3>. QED
      BY <3>1, <3>2 DEF Running, FillerStep, SameState
  <2>. QED
    BY <2>1, <2>2
<1>EndBlockStep. ASSUME Running, endBlock PROVE FillerStep
  BY <1>EndBlockStep DEF Running, endBlock, FillerStep, Pops, SameState, Return, Invocations
<1>WalkFillStep. ASSUME Running, walkFill PROVE FillerStep
  <2> USE <1>WalkFillStep
  <2>1. CASE Halt("error")
    BY <2>1 DEF FillerStep, Keeps, Halt
  <2>2. CASE ~Halt("error")
    <3>1. Pushes([Call("fill") EXCEPT !.vars = evalPipeline(at)])
      BY <2>2, <1>Frames DEF walkFill, Pushes, Invocations
    <3>. QED
      BY <2>2, <3>1 DEF walkFill, Running, FillerStep
  <2>. QED
    BY <2>1, <2>2
<1>EndFillStep. ASSUME FillersInv, Running, endFill PROVE FillerStep
  <2> USE <1>EndFillStep
  <2> DEFINE x == [Top EXCEPT !.k = "call"]
  <2>1. outcome' # "writing" /\ act' = act /\ fillers' = fillers /\ ks # <<>> /\ Top.k = "fill"
    BY ZenonT(60) DEF Running, endFill
  <2>2. ks' = [ks EXCEPT ![Len(ks)].k = "call"]
    BY DEF endFill
  <2>3. ks' = [ks EXCEPT ![Len(ks)] = x]
    BY ZenonT(60), <2>2 DEF Top, Last
  <2>4. x.fillers = Top.fillers /\ x.k \in Invocations
    BY DEF Invocations
  <2>5. Keeps
    BY ZenonT(60), <2>1, <2>3, <2>4 DEF Keeps, Invocations
  <2>. QED
    BY ZenonT(60), <2>1, <2>5 DEF FillerStep
\* Every step of the walk is one of these, and it never writes again.
<1>WalkStep. ASSUME FillersInv, Walk PROVE FillerStep
  <2> USE <1>WalkStep
  <2>1. Running
    BY DEF Walk
  <2>2. CASE Halt("deep")
    BY <2>2 DEF FillerStep, Keeps, Halt
  <2>3. CASE ~Halt("deep")
    <3>1. \/ walkAction \/ walkIfOrWith \/ endIfOrWith \/ walkRange \/ endRange
          \/ walkTemplate \/ endTemplate \/ walkBlock \/ endBlock \/ walkFill \/ endFill
      BY <2>3 DEF Walk
    <3>. QED
      BY <2>1, <3>1, <1>WalkActionStep, <1>WalkIfStep, <1>EndIfStep, <1>WalkRangeStep, <1>EndRangeStep,
         <1>WalkTemplateStep, <1>EndTemplateStep, <1>WalkBlockStep, <1>EndBlockStep, <1>WalkFillStep, <1>EndFillStep
  <2>. QED
    BY <2>2, <2>3
<1>FillersNext. FillersInv /\ [Next]_allVars => FillersInv'
  <2> SUFFICES ASSUME FillersInv, [Next]_allVars PROVE FillersInv'
    OBVIOUS
  <2>1. CASE UNCHANGED execVars
    BY <2>1 DEF FillersInv, FillersOfThisFill, Levels, execVars
  <2>2. CASE Execute
    <3>1. ks = <<>> /\ ks' = ks /\ act' = act + 1 /\ act \in Nat /\ fillers' = {} /\ outcome' # "writing"
      BY <2>2 DEF Execute, FillersInv
    <3>2. Levels([i \in 0..0 |-> act'], ks', act')
      BY <3>1 DEF Levels
    <3>3. PICK S : ks \in Seq(S)
      BY DEF FillersInv
    <3>. QED
      BY <3>1, <3>2, <3>3 DEF FillersInv, FillersOfThisFill
  <2>3. CASE Walk
    BY <2>3, <1>WalkStep, <1>FillersKept
  <2>. QED
    BY <2>1, <2>2, <2>3 DEF Next, Write, allVars, parseVars, execVars
\* No state of an execution, however deep, mixes the fillers of two invocations.
<1>ExecFillers. Spec => []FillersInv
  <2>1. Init => FillersInv
    BY <1>FillersInit
  <2>2. FillersInv /\ [Next]_allVars => FillersInv'
    BY <1>FillersNext
  <2>. QED
    BY <2>1, <2>2, PTL DEF Spec
<1>1. FillersInv => FillersOfThisFill
  BY DEF FillersInv
<1>. QED
  BY <1>1, <1>ExecFillers, PTL

-----------------------------------------------------------------------------
(* What is written: the lists of controls, blocks and fills are nested.    *)

OpenersOf(c) == {o \in 1..Len(c) : c[o].op \in Openers}

\* The items c of a template, of which those in open are still to be closed, and
\* all is written if whole: a node ends after it begins, its {{else}} between, at
\* an item of that kind; a node inside a list of another ends inside that list;
\* and every {{end}} but that of the template closes a node.
Nested(c, open, whole) ==
    /\ open \subseteq OpenersOf(c)
    /\ \A o \in OpenersOf(c) \ open :
          /\ o < c[o].els /\ c[o].els <= c[o].end /\ c[o].end <= Len(c)
          /\ c[c[o].end].op = "end"
          /\ c[o].els # c[o].end => c[c[o].els].op = "else"
    /\ \A p \in OpenersOf(c) \ open : \A o \in OpenersOf(c) : p < o /\ o < c[p].end =>
          o \notin open /\ c[o].end < c[p].end /\ (o < c[p].els => c[o].end < c[p].els)
    /\ \A i \in 1..Len(c) : c[i].op = "end" /\ ~(whole /\ i = Len(c)) =>
          \E o \in OpenersOf(c) \ open : c[o].end = i
    /\ \A h \in open : c[h].els # 0 =>
          /\ h < c[h].els /\ c[h].els <= Len(c) /\ c[c[h].els].op = "else"
          /\ \A o \in OpenersOf(c) : h < o /\ o < c[h].els => o \notin open /\ c[o].end < c[h].els
    /\ whole => /\ open = {} /\ 1 <= Len(c) /\ c[Len(c)].op = "end"
                /\ \A o \in OpenersOf(c) : c[o].end < Len(c)

\* The nodes of this kind of program.
Nodes ==
    [op : P.ops, name : {it.name : it \in Items}, decls : Seq(P.uses), els : Nat, end : Nat]

\* A pipeline declares at most two variables; {{else}} and {{end}} have none.
Pipelines(c) ==
    \A i \in 1..Len(c) : /\ Len(c[i].decls) <= 2
                         /\ c[i].op \in {"else", "end"} => c[i].decls = <<>>

\* The items that are still to be closed.
Open == {frames[k].at : k \in DOMAIN frames}

\* The frames of the parser are those nodes, in order.
FramesInv ==
    /\ \E S : frames \in Seq(S)
    /\ \A k \in 1..Len(frames) :
          /\ frames[k].inElse <=> code[Current][frames[k].at].els # 0
          /\ \A l \in 1..Len(frames) : l < k => frames[l].at < frames[k].at

\* What is written: the templates before this one whole, this one as far as it
\* goes, the others not yet.
CodeInv ==
    /\ kind \in DOMAIN Programs
    /\ code \in [Names -> Seq(Nodes)]
    /\ done \in 0..Len(Order)
    /\ outcome # "writing" => done = Len(Order)
    /\ \A t \in Names : Pipelines(code[t])
    /\ \A i \in 1..done : Nested(code[Order[i]], {}, TRUE)
    /\ \A i \in 1..Len(Order) : done + 1 < i => code[Order[i]] = <<>>
    /\ IF done < Len(Order) THEN Nested(code[Current], Open, FALSE) /\ FramesInv ELSE frames = <<>>

\* The bounds of what is closed.
LEMMA ClosedIn ==
    ASSUME NEW c \in Seq(Nodes), NEW open, NEW whole, Nested(c, open, whole),
           NEW o \in OpenersOf(c) \ open
    PROVE  /\ o \in 1..Len(c) /\ c[o].els \in 1..Len(c) /\ c[o].end \in 1..Len(c)
           /\ o < c[o].els /\ c[o].els <= c[o].end
<1>1. o \in 1..Len(c) /\ c[o] \in Nodes /\ Len(c) \in Nat
  BY DEF OpenersOf
<1>2. c[o].els \in Nat /\ c[o].end \in Nat
  BY ZenonT(60), <1>1 DEF Nodes
<1>. QED
  BY <1>1, <1>2 DEF Nested

\* The templates are written in Order, each once.
LEMMA OrderTypes ==
    /\ Len(Order) \in Nat /\ DOMAIN Order = 1..Len(Order)
    /\ \A i \in 1..Len(Order) : Order[i] \in Names
    /\ \A i, j \in 1..Len(Order) : Order[i] = Order[j] => i = j
    /\ \A t \in Names : \E i \in 1..Len(Order) : t = Order[i]
<1>1. Order \in Seq(Names)
  BY OrderAssumption
<1>2. Len(Order) \in Nat /\ DOMAIN Order = 1..Len(Order)
  BY <1>1
<1>. QED
  BY <1>1, <1>2, OrderAssumption DEF Names

-----------------------------------------------------------------------------
\* One more item x, and the ends of the lists of the node at h.
IsClosed(e, c, h, els, end, x) ==
    /\ e \in Seq(Nodes) /\ Len(e) = Len(c) + 1 /\ Len(c) \in Nat
    /\ e[Len(c) + 1] = x /\ \A i \in 1..Len(c) : i # h => e[i] = c[i]
    /\ e[h].op = c[h].op /\ e[h].decls = c[h].decls /\ e[h].els = els /\ e[h].end = end

\* Whatever is written, its lists are nested.
THEOREM WrittenAreNested == Spec => []CodeInv
(* Writing keeps the lists nested.                                         *)
\* A position is the last or before it.
<1>Below. ASSUME NEW n \in Nat, NEW k \in 1..n PROVE k = n \/ k < n
  BY <1>Below
\* What an item has.
<1>ItemTypes. ASSUME kind \in DOMAIN Programs, NEW it \in Items
              PROVE  /\ Node(it) \in Nodes /\ it.op \in P.ops
                     /\ Node(it).op = it.op /\ Node(it).decls = it.decls /\ Node(it).els = 0 /\ Node(it).end = 0
                     /\ Len(it.decls) <= 2
                     /\ it.op \in {"else", "end"} => it.decls = <<>>
  <2> USE <1>ItemTypes
  <2>1. /\ \A d \in P.decls : d \in Seq(P.uses) /\ Len(d) <= 2
        /\ P.callDecls \subseteq {<<>>} \cup {<<x>> : x \in P.uses}
        /\ P.vars \subseteq P.uses
    BY ProgramsAssumption DEF P
  <2>2. it.op \in P.ops
    BY ZenonT(60) DEF Items
  <2>3. it.decls \in Seq(P.uses) /\ Len(it.decls) <= 2
    <3>1. \/ it.decls \in P.decls
          \/ it.decls \in P.callDecls
          \/ it.decls \in {<<x>> : x \in P.vars} \cup {<<x>> : x \in P.uses}
          \/ it.decls = <<>>
      BY ZenonT(60) DEF Items
    <3>2. it.decls \in P.decls \/ it.decls = <<>> \/ \E x \in P.uses : it.decls = <<x>>
      BY <2>1, <3>1
    <3>3. CASE it.decls \in P.decls
      BY <2>1, <3>3
    <3>4. CASE it.decls = <<>>
      BY <3>4
    <3>5. ASSUME NEW x \in P.uses, it.decls = <<x>>
          PROVE  it.decls \in Seq(P.uses) /\ Len(it.decls) <= 2
      <4>1. <<x>> \in Seq(P.uses) /\ Len(<<x>>) = 1
        BY ZenonT(60), Singleton
      <4>. QED
        BY <3>5, <4>1
    <3>. QED
      BY ZenonT(60), <3>2, <3>3, <3>4, <3>5
  <2>4. it.op \in {"else", "end"} => it.decls = <<>>
    BY ZenonT(60) DEF Items
  <2>. QED
    BY <2>2, <2>3, <2>4 DEF Node, Nodes
\* One more item.
<1>Appended. ASSUME NEW S, NEW c \in Seq(S), NEW x \in S
             PROVE  /\ Append(c, x) \in Seq(S) /\ Len(Append(c, x)) = Len(c) + 1
                    /\ Append(c, x)[Len(c) + 1] = x /\ \A i \in 1..Len(c) : Append(c, x)[i] = c[i]
  BY <1>Appended
\* Another item at h.
<1>Replaced. ASSUME NEW S, NEW c \in Seq(S), NEW x, NEW h \in 1..Len(c)
             PROVE  /\ [c EXCEPT ![h] = x] \in Seq(S \cup {x}) /\ Len([c EXCEPT ![h] = x]) = Len(c)
                    /\ [c EXCEPT ![h] = x][h] = x /\ \A i \in 1..Len(c) : i # h => [c EXCEPT ![h] = x][i] = c[i]
  BY <1>Replaced
\* Append, of an element of any set.
<1>AppendedAny. ASSUME NEW S, NEW c \in Seq(S), NEW x
                PROVE  /\ Append(c, x) \in Seq(S \cup {x}) /\ Len(Append(c, x)) = Len(c) + 1 /\ Len(c) \in Nat
                       /\ Append(c, x)[Len(c) + 1] = x /\ \A i \in 1..Len(c) : Append(c, x)[i] = c[i]
  BY <1>AppendedAny
\* A node still to be closed is one of the items.
<1>OpenIn. ASSUME NEW c \in Seq(Nodes), NEW open, NEW whole, Nested(c, open, whole), NEW h \in open
           PROVE  /\ h \in 1..Len(c) /\ c[h].els \in Nat
                  /\ c[h].els # 0 => c[h].els \in 1..Len(c) /\ h < c[h].els /\ c[c[h].els].op = "else"
  <2> USE <1>OpenIn
  <2>1. h \in 1..Len(c) /\ Len(c) \in Nat
    BY DEF Nested, OpenersOf
  <2>2. c[h] \in Nodes
    BY <2>1
  <2>3. c[h].els \in Nat
    BY <2>2 DEF Nodes
  <2>4. c[h].els # 0 => h < c[h].els /\ c[h].els <= Len(c) /\ c[c[h].els].op = "else"
    BY DEF Nested
  <2>. QED
    BY ONLY SMTT(30), <2>1, <2>3, <2>4
\* An action is written, or a node is opened.
<1>NodeNested. ASSUME NEW c \in Seq(Nodes), NEW x \in Nodes, NEW open, Nested(c, open, FALSE),
                      x.op \notin {"else", "end"}, x.els = 0
               PROVE  Nested(Append(c, x), IF x.op \in Openers THEN open \cup {Len(c) + 1} ELSE open, FALSE)
  <2> USE <1>NodeNested
  <2> DEFINE e == Append(c, x)
             H == IF x.op \in Openers THEN open \cup {Len(c) + 1} ELSE open
  <2>1. /\ e \in Seq(Nodes) /\ Len(e) = Len(c) + 1 /\ Len(c) \in Nat
        /\ e[Len(c) + 1] = x /\ \A i \in 1..Len(c) : e[i] = c[i]
    BY <1>Appended
  <2> HIDE DEF e
  <2>2. OpenersOf(e) \ H = OpenersOf(c) \ open
        /\ OpenersOf(e) \subseteq OpenersOf(c) \cup {Len(c) + 1} /\ H \subseteq OpenersOf(e)
        /\ H \subseteq open \cup {Len(c) + 1}
    <3>1. 1..Len(e) = 1..Len(c) \cup {Len(c) + 1} /\ Len(c) + 1 \notin 1..Len(c)
      BY <2>1
    <3>2. OpenersOf(e) = OpenersOf(c) \cup (IF x.op \in Openers THEN {Len(c) + 1} ELSE {})
      BY ZenonT(60), <2>1, <3>1 DEF OpenersOf
    <3>3. open \subseteq OpenersOf(c) /\ Len(c) + 1 \notin OpenersOf(c)
      BY ZenonT(60), <3>1 DEF Nested, OpenersOf
    <3>. QED
      BY <3>2, <3>3
  <2> HIDE DEF H
  <2>3. \A o \in OpenersOf(c) : o \in 1..Len(c) /\ e[o] = c[o] /\ (o \in H => o \in open)
    BY <2>1, <2>2 DEF OpenersOf
  <2>4. \A o \in OpenersOf(c) \ open : c[o].els \in 1..Len(c) /\ c[o].end \in 1..Len(c)
    BY ZenonT(60), <2>1, ClosedIn
  <2>5. \A o \in OpenersOf(e) \ H :
            /\ o < e[o].els /\ e[o].els <= e[o].end /\ e[o].end <= Len(e)
            /\ e[e[o].end].op = "end"
            /\ e[o].els # e[o].end => e[e[o].els].op = "else"
    BY <2>1, <2>2, <2>3, <2>4 DEF Nested
  <2>6. \A p \in OpenersOf(e) \ H : \A o \in OpenersOf(e) : p < o /\ o < e[p].end =>
            o \notin H /\ e[o].end < e[p].end /\ (o < e[p].els => e[o].end < e[p].els)
    BY SMTT(30), <2>1, <2>2, <2>3, <2>4 DEF Nested
  <2>7. \A i \in 1..Len(e) : e[i].op = "end" => \E o \in OpenersOf(e) \ H : e[o].end = i
    BY <2>1, <2>2, <2>3 DEF Nested
  <2>8. \A h \in H : e[h].els # 0 =>
            /\ h < e[h].els /\ e[h].els <= Len(e) /\ e[e[h].els].op = "else"
            /\ \A o \in OpenersOf(e) : h < o /\ o < e[h].els => o \notin H /\ e[o].end < e[h].els
    <3> SUFFICES ASSUME NEW h \in H, e[h].els # 0
                 PROVE  /\ h < e[h].els /\ e[h].els <= Len(e) /\ e[e[h].els].op = "else"
                        /\ \A o \in OpenersOf(e) : h < o /\ o < e[h].els => o \notin H /\ e[o].end < e[h].els
      OBVIOUS
    <3>1. h \in open /\ e[h] = c[h] /\ h \in 1..Len(c)
      BY <2>1, <2>2, <2>3 DEF Nested
    <3>2. c[h].els \in 1..Len(c)
      BY ZenonT(60), <3>1, <1>OpenIn
    <3>. QED
      BY SMTT(30), <2>1, <2>2, <2>3, <3>1, <3>2 DEF Nested
  <2>. QED
    BY ZenonT(60), <2>2, <2>5, <2>6, <2>7, <2>8 DEF Nested, e, H
\* Closed keeps the items, but for the ends recorded in the node, and adds one.
<1>Closing. ASSUME NEW c \in Seq(Nodes), NEW x \in Nodes, NEW h \in 1..Len(c), NEW a \in Nat, NEW b \in Nat
            PROVE  IsClosed(Closed(c, h, a, b, x), c, h, a, b, x)
  <2> USE <1>Closing
  <2> DEFINE y == [c[h] EXCEPT !.els = a, !.end = b]
             d == [c EXCEPT ![h] = y]
  <2>1. c[h] \in Nodes
    OBVIOUS
  <2>2. y \in Nodes /\ y.op = c[h].op /\ y.decls = c[h].decls /\ y.els = a /\ y.end = b
    BY ZenonT(60), <2>1 DEF Nodes
  <2> HIDE DEF y
  <2>3. d \in Seq(Nodes) /\ Len(d) = Len(c) /\ d[h] = y /\ \A i \in 1..Len(c) : i # h => d[i] = c[i]
    BY <2>2
  <2> HIDE DEF d
  <2>4. /\ Append(d, x) \in Seq(Nodes) /\ Len(Append(d, x)) = Len(d) + 1
        /\ Append(d, x)[Len(d) + 1] = x /\ \A i \in 1..Len(d) : Append(d, x)[i] = d[i]
    BY ONLY SMTT(30), <2>3, <1>Appended
  <2>5. Closed(c, h, a, b, x) = Append(d, x)
    BY ZenonT(60) DEF d, y, Closed
  <2>6. /\ Append(d, x) \in Seq(Nodes) /\ Len(Append(d, x)) = Len(c) + 1 /\ Len(c) \in Nat
        /\ Append(d, x)[Len(c) + 1] = x /\ \A i \in 1..Len(c) : i # h => Append(d, x)[i] = c[i]
        /\ Append(d, x)[h] = y
    BY <2>3, <2>4
  <2>. QED
    BY ZenonT(60), <2>2, <2>5, <2>6 DEF IsClosed
\* {{else}} is written, in the node that was opened last.
<1>ElseNested. ASSUME NEW c \in Seq(Nodes), NEW x \in Nodes, NEW open, Nested(c, open, FALSE), x.op = "else",
                      NEW h \in open, \A g \in open : g <= h, c[h].els = 0
               PROVE  Nested(Closed(c, h, Len(c) + 1, 0, x), open, FALSE)
  <2> USE <1>ElseNested
  <2> DEFINE e == Closed(c, h, Len(c) + 1, 0, x)
  <2>1. h \in 1..Len(c) /\ Len(c) \in Nat /\ Len(c) + 1 \in Nat /\ 0 \in Nat /\ h \in OpenersOf(c)
    BY DEF Nested, OpenersOf
  <2>2. /\ e \in Seq(Nodes) /\ Len(e) = Len(c) + 1 /\ e[Len(c) + 1] = x
        /\ \A i \in 1..Len(c) : i # h => e[i] = c[i]
        /\ e[h].op = c[h].op /\ e[h].els = Len(c) + 1
    <3>1. IsClosed(e, c, h, Len(c) + 1, 0, x)
      BY ZenonT(60), <2>1, <1>Closing
    <3>. QED
      BY ZenonT(60), <3>1 DEF IsClosed
  <2> HIDE DEF e
  <2>3. OpenersOf(e) = OpenersOf(c)
    BY <2>1, <2>2 DEF OpenersOf, Openers, Controls
  <2>4. \A o \in OpenersOf(c) : o \in 1..Len(c)
    BY DEF OpenersOf
  <2>5. \A o \in OpenersOf(c) \ open :
           /\ o # h /\ e[o] = c[o] /\ c[o].els \in 1..Len(c) /\ c[o].end \in 1..Len(c)
           /\ o < c[o].els /\ c[o].els <= c[o].end
    BY ZenonT(60), <2>2, <2>4, ClosedIn
  <2>6. \A i \in 1..Len(c) : e[i].op = c[i].op
    BY <2>1, <2>2
  <2>7. \A o \in OpenersOf(e) \ open :
            /\ o < e[o].els /\ e[o].els <= e[o].end /\ e[o].end <= Len(e)
            /\ e[e[o].end].op = "end"
            /\ e[o].els # e[o].end => e[e[o].els].op = "else"
    <3> SUFFICES ASSUME NEW o \in OpenersOf(c) \ open
                 PROVE  /\ o < e[o].els /\ e[o].els <= e[o].end /\ e[o].end <= Len(e)
                        /\ e[e[o].end].op = "end"
                        /\ e[o].els # e[o].end => e[e[o].els].op = "else"
      BY ZenonT(60), <2>3
    <3>1. /\ o # h /\ e[o] = c[o] /\ c[o].els \in 1..Len(c) /\ c[o].end \in 1..Len(c)
          /\ o < c[o].els /\ c[o].els <= c[o].end
      BY ZenonT(60), <2>5
    <3>2. c[c[o].end].op = "end" /\ (c[o].els # c[o].end => c[c[o].els].op = "else")
      BY ZenonT(60) DEF Nested
    <3>3. c[o].end <= Len(e)
      BY ONLY SMTT(30), <2>1, <2>2, <3>1
    <3>. QED
      BY ZenonT(60), <2>6, <3>1, <3>2, <3>3
  <2>8. \A p \in OpenersOf(e) \ open : \A o \in OpenersOf(e) : p < o /\ o < e[p].end =>
            o \notin open /\ e[o].end < e[p].end /\ (o < e[p].els => e[o].end < e[p].els)
    BY <2>3, <2>5 DEF Nested
  <2>9. \A i \in 1..Len(e) : e[i].op = "end" => \E o \in OpenersOf(e) \ open : e[o].end = i
    <3> SUFFICES ASSUME NEW i \in 1..Len(e), e[i].op = "end"
                 PROVE  \E o \in OpenersOf(e) \ open : e[o].end = i
      BY ZenonT(60)
    <3>1. i \in 1..Len(c)
      BY <2>1, <2>2
    <3>2. PICK o \in OpenersOf(c) \ open : c[o].end = i
      BY <2>6, <3>1 DEF Nested
    <3>. QED
      BY ZenonT(60), <2>3, <2>5, <3>2
  <2>10. \A g \in open : e[g].els # 0 =>
            /\ g < e[g].els /\ e[g].els <= Len(e) /\ e[e[g].els].op = "else"
            /\ \A o \in OpenersOf(e) : g < o /\ o < e[g].els => o \notin open /\ e[o].end < e[g].els
    <3> SUFFICES ASSUME NEW g \in open, e[g].els # 0
                 PROVE  /\ g < e[g].els /\ e[g].els <= Len(e) /\ e[e[g].els].op = "else"
                        /\ \A o \in OpenersOf(e) : g < o /\ o < e[g].els => o \notin open /\ e[o].end < e[g].els
      OBVIOUS
    <3>1. CASE g = h
      BY <2>1, <2>2, <2>3, <2>4, <2>5, <3>1
    <3>2. CASE g # h
      <4>1. g \in 1..Len(c) /\ e[g] = c[g]
        BY SMTT(30), <2>2, <2>4, <3>2 DEF Nested
      <4>2. c[g].els \in 1..Len(c) /\ e[c[g].els].op = c[c[g].els].op
        BY ZenonT(60), <2>6, <4>1, <1>OpenIn
      <4>. QED
        BY SMTT(30), <2>1, <2>2, <2>3, <2>5, <4>1, <4>2 DEF Nested
    <3>. QED
      BY <3>1, <3>2
  <2>11. open \subseteq OpenersOf(e)
    BY <2>3 DEF Nested
  <2>12. Nested(e, open, FALSE)
    BY ZenonT(60), <2>7, <2>8, <2>9, <2>10, <2>11 DEF Nested
  <2>. QED
    BY ZenonT(60), <2>12 DEF e
\* {{end}} is written, of the node that was opened last.
<1>EndNested. ASSUME NEW c \in Seq(Nodes), NEW x \in Nodes, NEW open, Nested(c, open, FALSE), x.op = "end",
                     NEW h \in open, \A g \in open : g <= h,
                     NEW els, els = IF c[h].els = 0 THEN Len(c) + 1 ELSE c[h].els
              PROVE  Nested(Closed(c, h, els, Len(c) + 1, x), open \ {h}, FALSE)
  <2> USE <1>EndNested
  <2> DEFINE e == Closed(c, h, els, Len(c) + 1, x)
  <2>1. h \in 1..Len(c) /\ Len(c) \in Nat /\ Len(c) + 1 \in Nat /\ h \in OpenersOf(c)
    BY DEF Nested, OpenersOf
  <2>2. els \in Nat /\ h < els /\ els <= Len(c) + 1
        /\ (els # Len(c) + 1 => els = c[h].els /\ c[h].els # 0 /\ c[els].op = "else" /\ els \in 1..Len(c))
    <3>1. c[h].els \in Nat
          /\ (c[h].els # 0 => c[h].els \in 1..Len(c) /\ h < c[h].els /\ c[c[h].els].op = "else")
      BY ZenonT(60), <1>OpenIn
    <3>2. CASE c[h].els = 0
      BY <2>1, <3>2
    <3>3. CASE c[h].els # 0
      BY <2>1, <3>1, <3>3
    <3>. QED
      BY <3>2, <3>3
  <2>3. /\ e \in Seq(Nodes) /\ Len(e) = Len(c) + 1 /\ e[Len(c) + 1] = x
        /\ \A i \in 1..Len(c) : i # h => e[i] = c[i]
        /\ e[h].op = c[h].op /\ e[h].els = els /\ e[h].end = Len(c) + 1
    <3>1. IsClosed(e, c, h, els, Len(c) + 1, x)
      BY ZenonT(60), <2>1, <2>2, <1>Closing
    <3>. QED
      BY ZenonT(60), <3>1 DEF IsClosed
  <2> HIDE DEF e
  <2>4. OpenersOf(e) = OpenersOf(c)
    BY <2>1, <2>3 DEF OpenersOf, Openers, Controls
  <2>5. \A o \in OpenersOf(c) : o \in 1..Len(c)
    BY DEF OpenersOf
  <2>6. \A o \in OpenersOf(c) \ open :
           /\ o # h /\ e[o] = c[o] /\ c[o].els \in 1..Len(c) /\ c[o].end \in 1..Len(c)
           /\ o < c[o].els /\ c[o].els <= c[o].end
    BY ZenonT(60), <2>3, <2>5, ClosedIn
  <2>7. \A i \in 1..Len(c) : e[i].op = c[i].op
    BY ZenonT(60), <2>1, <2>3
  <2>8. OpenersOf(e) \ (open \ {h}) = (OpenersOf(c) \ open) \cup {h}
    BY <2>1, <2>4
  <2>9. \A o \in OpenersOf(c) : h < o => o \notin open
    BY <2>1, <2>5
  <2>10. \A o \in OpenersOf(e) \ (open \ {h}) :
            /\ o < e[o].els /\ e[o].els <= e[o].end /\ e[o].end <= Len(e)
            /\ e[e[o].end].op = "end"
            /\ e[o].els # e[o].end => e[e[o].els].op = "else"
    <3>1. ASSUME NEW o \in OpenersOf(c) \ open
          PROVE  /\ o < e[o].els /\ e[o].els <= e[o].end /\ e[o].end <= Len(e)
                 /\ e[e[o].end].op = "end"
                 /\ e[o].els # e[o].end => e[e[o].els].op = "else"
      <4>1. /\ e[o] = c[o] /\ c[o].els \in 1..Len(c) /\ c[o].end \in 1..Len(c)
            /\ o < c[o].els /\ c[o].els <= c[o].end
        BY ZenonT(60), <2>6
      <4>2. c[c[o].end].op = "end" /\ (c[o].els # c[o].end => c[c[o].els].op = "else")
        BY ZenonT(60) DEF Nested
      <4>3. c[o].end <= Len(e)
        BY ONLY SMTT(30), <2>1, <2>3, <4>1
      <4>. QED
        BY ZenonT(60), <2>7, <4>1, <4>2, <4>3
    <3>2. /\ h < e[h].els /\ e[h].els <= e[h].end /\ e[h].end <= Len(e)
          /\ e[e[h].end].op = "end"
          /\ e[h].els # e[h].end => e[e[h].els].op = "else"
      <4>1. e[h].els # e[h].end => els \in 1..Len(c) /\ c[els].op = "else"
        BY <2>2, <2>3
      <4>2. e[h].els # e[h].end => e[e[h].els].op = "else"
        BY ZenonT(60), <2>3, <2>7, <4>1
      <4>. QED
        BY <2>1, <2>2, <2>3, <4>2
    <3>. QED
      BY ZenonT(60), <2>8, <3>1, <3>2
  <2>11. \A p \in OpenersOf(e) \ (open \ {h}) : \A o \in OpenersOf(e) : p < o /\ o < e[p].end =>
            o \notin open \ {h} /\ e[o].end < e[p].end /\ (o < e[p].els => e[o].end < e[p].els)
    <3>1. ASSUME NEW p \in OpenersOf(c) \ open, NEW o \in OpenersOf(c), p < o, o < e[p].end
          PROVE  o \notin open \ {h} /\ e[o].end < e[p].end /\ (o < e[p].els => e[o].end < e[p].els)
      <4>1. o \notin open /\ c[o].end < c[p].end /\ (o < c[p].els => c[o].end < c[p].els)
        BY ZenonT(60), <2>6, <3>1 DEF Nested
      <4>. QED
        BY ZenonT(60), <2>6, <3>1, <4>1
    <3>2. ASSUME NEW o \in OpenersOf(c), h < o, o < e[h].end
          PROVE  o \notin open \ {h} /\ e[o].end < e[h].end /\ (o < e[h].els => e[o].end < e[h].els)
      <4>1. o \notin open /\ e[o] = c[o] /\ c[o].end \in 1..Len(c)
        BY ZenonT(60), <2>6, <2>9, <3>2
      <4>2. CASE els = Len(c) + 1
        BY ONLY SMTT(30), <2>1, <2>3, <4>1, <4>2
      <4>3. CASE els # Len(c) + 1
        BY <2>1, <2>2, <2>3, <3>2, <4>1, <4>3 DEF Nested
      <4>. QED
        BY <4>2, <4>3
    <3>. QED
      BY ZenonT(60), <2>4, <2>8, <3>1, <3>2
  <2>12. \A i \in 1..Len(e) : e[i].op = "end" => \E o \in OpenersOf(e) \ (open \ {h}) : e[o].end = i
    <3> SUFFICES ASSUME NEW i \in 1..Len(e), e[i].op = "end"
                 PROVE  \E o \in OpenersOf(e) \ (open \ {h}) : e[o].end = i
      OBVIOUS
    <3>1. CASE i = Len(c) + 1
      BY ZenonT(60), <2>3, <2>8, <3>1
    <3>2. CASE i # Len(c) + 1
      <4>1. i \in 1..Len(c) /\ c[i].op = "end"
        BY <2>1, <2>3, <2>7, <3>2
      <4>2. PICK o \in OpenersOf(c) \ open : c[o].end = i
        BY ZenonT(60), <4>1 DEF Nested
      <4>. QED
        BY <2>6, <2>8, <4>2
    <3>. QED
      BY <3>1, <3>2
  <2>13. \A g \in open \ {h} : e[g].els # 0 =>
            /\ g < e[g].els /\ e[g].els <= Len(e) /\ e[e[g].els].op = "else"
            /\ \A o \in OpenersOf(e) : g < o /\ o < e[g].els => o \notin open \ {h} /\ e[o].end < e[g].els
    <3> SUFFICES ASSUME NEW g \in open \ {h}, e[g].els # 0
                 PROVE  /\ g < e[g].els /\ e[g].els <= Len(e) /\ e[e[g].els].op = "else"
                        /\ \A o \in OpenersOf(e) : g < o /\ o < e[g].els => o \notin open \ {h} /\ e[o].end < e[g].els
      BY ZenonT(60)
    <3>1. g \in 1..Len(c) /\ e[g] = c[g]
      BY <2>3, <2>5 DEF Nested
    <3>2. c[g].els \in 1..Len(c) /\ e[c[g].els].op = c[c[g].els].op
      BY ZenonT(60), <2>7, <3>1, <1>OpenIn
    <3>. QED
      BY <2>1, <2>3, <2>4, <2>6, <3>1, <3>2 DEF Nested
  <2>14. open \ {h} \subseteq OpenersOf(e)
    BY <2>4 DEF Nested
  <2>15. Nested(e, open \ {h}, FALSE)
    BY ZenonT(60), <2>10, <2>11, <2>12, <2>13, <2>14 DEF Nested
  <2>. QED
    BY ZenonT(60), <2>15 DEF e
\* {{end}} is written, of the template.
<1>LastNested. ASSUME NEW c \in Seq(Nodes), NEW x \in Nodes, Nested(c, {}, FALSE), x.op = "end"
               PROVE  Nested(Append(c, x), {}, TRUE)
  <2> USE <1>LastNested
  <2> DEFINE e == Append(c, x)
  <2>1. /\ e \in Seq(Nodes) /\ Len(e) = Len(c) + 1 /\ Len(c) \in Nat
        /\ e[Len(c) + 1] = x /\ \A i \in 1..Len(c) : e[i] = c[i]
    BY <1>Appended
  <2> HIDE DEF e
  <2>2. OpenersOf(e) = OpenersOf(c)
    BY <2>1 DEF OpenersOf, Openers, Controls
  <2>3. \A o \in OpenersOf(c) : /\ o \in 1..Len(c) /\ e[o] = c[o]
                                /\ c[o].els \in 1..Len(c) /\ c[o].end \in 1..Len(c)
    <3> SUFFICES ASSUME NEW o \in OpenersOf(c)
                 PROVE  /\ o \in 1..Len(c) /\ e[o] = c[o]
                        /\ c[o].els \in 1..Len(c) /\ c[o].end \in 1..Len(c)
      OBVIOUS
    <3>1. o \in OpenersOf(c) \ {}
      BY ZenonT(60)
    <3>. QED
      BY ZenonT(60), <2>1, <3>1, ClosedIn
  <2>4. \A o \in OpenersOf(e) :
            /\ o < e[o].els /\ e[o].els <= e[o].end /\ e[o].end <= Len(e)
            /\ e[e[o].end].op = "end"
            /\ e[o].els # e[o].end => e[e[o].els].op = "else"
    BY SMTT(30), <2>1, <2>2, <2>3 DEF Nested
  <2>5. \A p \in OpenersOf(e) : \A o \in OpenersOf(e) : p < o /\ o < e[p].end =>
            e[o].end < e[p].end /\ (o < e[p].els => e[o].end < e[p].els)
    BY ZenonT(60), <2>2, <2>3 DEF Nested
  <2>6. \A i \in 1..Len(e) : e[i].op = "end" /\ i # Len(e) => \E o \in OpenersOf(e) : e[o].end = i
    BY <2>1, <2>2, <2>3 DEF Nested
  <2>7. \A o \in OpenersOf(e) : e[o].end < Len(e)
    BY <2>1, <2>2, <2>3
  <2>8. 1 <= Len(e) /\ e[Len(e)].op = "end" /\ OpenersOf(e) \ {} = OpenersOf(e) /\ {} \subseteq OpenersOf(e)
    BY <2>1
  <2>9. Nested(e, {}, TRUE)
    BY ZenonT(60), <2>4, <2>5, <2>6, <2>7, <2>8 DEF Nested
  <2>. QED
    BY ZenonT(60), <2>9 DEF e
\* Nothing is open, and the lists of the items are empty.
<1>EmptyNested. Nested(<<>>, {}, FALSE) /\ Pipelines(<<>>)
  <2>1. Len(<<>>) = 0
    OBVIOUS
  <2>2. 1..0 = {}
    OBVIOUS
  <2>. QED
    BY <2>1, <2>2 DEF Nested, Pipelines, OpenersOf
\* Nothing is written at first.
<1>CodeInit. Init => CodeInv
  <2> SUFFICES ASSUME Init PROVE CodeInv
    OBVIOUS
  <2>1. /\ kind \in DOMAIN Programs /\ done = 0 /\ frames = <<>> /\ outcome = "writing"
        /\ code = [t \in Names |-> <<>>]
    BY DEF Init
  <2>2. \A t \in Names : code[t] = <<>>
    BY <2>1
  <2>3. code \in [Names -> Seq(Nodes)] /\ done \in 0..Len(Order)
    BY <2>1, OrderTypes
  <2>4. Open = {} /\ FramesInv
    <3>1. frames \in Seq({}) /\ Len(frames) = 0 /\ DOMAIN frames = {}
      BY <2>1
    <3>. QED
      BY <3>1 DEF Open, FramesInv
  <2>5. done < Len(Order) => code[Current] = <<>>
    BY <2>1, <2>2, OrderTypes DEF Current
  <2>6. \A i \in 1..Len(Order) : code[Order[i]] = <<>>
    BY <2>2, OrderTypes
  <2>7. 1..done = {}
    BY <2>1
  <2>. QED
    BY ZenonT(60), <2>1, <2>2, <2>3, <2>4, <2>5, <2>6, <2>7, <1>EmptyNested DEF CodeInv
\* The nodes that can be written do not change.
<1>SameNodes. ASSUME kind' = kind PROVE Nodes' = Nodes /\ Items' = Items
  <2> USE <1>SameNodes
  <2>1. P' = P
    BY DEF P
  <2>2. Items' = Items
    BY <2>1 DEF Items
  <2>. QED
    BY <2>1, <2>2 DEF Nodes
\* The pipelines of a template with one more item.
<1>PipelinesWritten. ASSUME NEW c \in Seq(Nodes), NEW e, Pipelines(c), Len(e) = Len(c) + 1,
                            \A i \in 1..Len(c) : e[i].op = c[i].op /\ e[i].decls = c[i].decls,
                            Len(e[Len(c) + 1].decls) <= 2,
                            e[Len(c) + 1].op \in {"else", "end"} => e[Len(c) + 1].decls = <<>>
                     PROVE  Pipelines(e)
  <2> USE <1>PipelinesWritten
  <2>1. Len(c) \in Nat /\ \A i \in 1..Len(e) : i \in 1..Len(c) \/ i = Len(c) + 1
    OBVIOUS
  <2>. QED
    BY ZenonT(60), <2>1 DEF Pipelines
\* The template being written gets the items e; the others stay.
<1>CodeStep. ASSUME CodeInv, Writing, UNCHANGED <<kind, outcome>>, NEW e \in Seq(Nodes), Pipelines(e),
                    code' = [code EXCEPT ![Current] = e],
                    \/ done' = done + 1 /\ frames' = <<>> /\ frames = <<>> /\ Nested(e, {}, TRUE)
                    \/ done' = done /\ Nested(e, Open', FALSE) /\ FramesInv'
             PROVE  CodeInv'
  <2> USE <1>CodeStep
  <2>1. /\ done \in Nat /\ done + 1 \in 1..Len(Order) /\ Len(Order) \in Nat /\ Current \in Names
        /\ Current = Order[done + 1]
    BY OrderTypes DEF CodeInv, Writing, Current
  <2>2. /\ code' \in [Names -> Seq(Nodes)] /\ code'[Current] = e
        /\ \A t \in Names : t # Current => code'[t] = code[t]
    BY <2>1 DEF CodeInv
  <2>3. \A i \in 1..Len(Order) : i # done + 1 => code'[Order[i]] = code[Order[i]]
    BY <2>1, <2>2, OrderTypes
  <2>4. \A t \in Names : Pipelines(code'[t])
    BY <2>2 DEF CodeInv
  <2>5. Nodes' = Nodes /\ kind' \in DOMAIN Programs /\ outcome' = "writing"
    BY <1>SameNodes DEF CodeInv, Writing
  <2>6. \A i \in 1..done : Nested(code'[Order[i]], {}, TRUE)
    <3>1. \A i \in 1..done : i \in 1..Len(Order) /\ i # done + 1
      BY <2>1
    <3>2. \A i \in 1..done : Nested(code[Order[i]], {}, TRUE)
      BY ZenonT(60) DEF CodeInv
    <3>. QED
      BY ZenonT(60), <2>3, <3>1, <3>2
  <2>7. CASE done' = done + 1
    <3>1. done' \in 0..Len(Order)
      BY <2>1, <2>7
    <3>2. Nested(e, {}, TRUE) /\ frames' = <<>>
      <4>1. done + 1 # done
        BY <2>1
      <4>. QED
        BY ZenonT(60), <2>7, <4>1
    <3>3. \A i \in 1..done' : Nested(code'[Order[i]], {}, TRUE)
      <4>1. \A i \in 1..done' : i \in 1..done \/ i = done + 1
        BY <2>1, <2>7
      <4>. QED
        BY ZenonT(60), <2>1, <2>2, <2>6, <3>2, <4>1
    <3>4. \A i \in 1..Len(Order) : done' + 1 < i => code'[Order[i]] = <<>>
      BY <2>1, <2>3, <2>7 DEF CodeInv
    <3>5. done' < Len(Order) => Nested(code'[Current'], Open', FALSE) /\ FramesInv'
      <4> SUFFICES ASSUME done' < Len(Order) PROVE Nested(code'[Current'], Open', FALSE) /\ FramesInv'
        BY ZenonT(60)
      <4>1. done' + 1 \in 1..Len(Order) /\ done + 1 < done' + 1 /\ done' + 1 # done + 1
        BY <2>1, <2>7
      <4>2. Current' = Order[done' + 1]
        BY DEF Current
      <4>3. code[Order[done' + 1]] = <<>>
        BY <4>1 DEF CodeInv
      <4>4. code'[Current'] = <<>>
        BY <2>3, <4>1, <4>2, <4>3
      <4>5. frames' \in Seq({}) /\ Len(frames') = 0 /\ DOMAIN frames' = {}
        BY ONLY SMTT(30), <3>2
      <4>6. Open' = {} /\ FramesInv'
        BY <4>5 DEF Open, FramesInv
      <4>. QED
        BY ZenonT(60), <4>4, <4>6, <1>EmptyNested
    <3>. QED
      BY ZenonT(60), <2>2, <2>4, <2>5, <3>1, <3>2, <3>3, <3>4, <3>5 DEF CodeInv
  <2>8. CASE done' = done
    <3>1. Nested(e, Open', FALSE) /\ FramesInv' /\ Current' = Current
      <4>1. done + 1 # done
        BY <2>1
      <4>. QED
        BY ZenonT(60), <2>8, <4>1 DEF Current
    <3>2. \A i \in 1..Len(Order) : done' + 1 < i => code'[Order[i]] = <<>>
      BY <2>1, <2>3, <2>8 DEF CodeInv
    <3>3. done' \in 0..Len(Order) /\ done' < Len(Order) /\ \A i \in 1..done' : Nested(code'[Order[i]], {}, TRUE)
      <4>1. done \in 0..Len(Order) /\ done < Len(Order)
        BY SMTT(30), <2>1
      <4>. QED
        BY ZenonT(60), <2>6, <2>8, <4>1
    <3>. QED
      BY ZenonT(60), <2>2, <2>4, <2>5, <3>1, <3>2, <3>3 DEF CodeInv
  <2>. QED
    BY ZenonT(60), <2>7, <2>8
\* The frames of the parser.
<1>FrameFacts. ASSUME CodeInv, Writing
               PROVE  /\ code[Current] \in Seq(Nodes) /\ Nested(code[Current], Open, FALSE) /\ Pipelines(code[Current])
                      /\ Current \in Names /\ Here = Len(code[Current]) + 1
                      /\ Len(frames) \in Nat /\ DOMAIN frames = 1..Len(frames) /\ \E S : frames \in Seq(S)
                      /\ \A k \in 1..Len(frames) :
                            /\ frames[k].at \in 1..Len(code[Current])
                            /\ frames[k].inElse <=> code[Current][frames[k].at].els # 0
                            /\ \A l \in 1..Len(frames) : l < k => frames[l].at < frames[k].at
                      /\ Open = {frames[k].at : k \in 1..Len(frames)}
                      /\ frames # <<>> => /\ Len(frames) \in 1..Len(frames) /\ Last(frames) = frames[Len(frames)]
                                          /\ Last(frames).at \in Open /\ \A g \in Open : g <= Last(frames).at
  <2> USE <1>FrameFacts
  <2>1. done + 1 \in 1..Len(Order)
    BY OrderTypes DEF CodeInv, Writing
  <2>2. Nested(code[Current], Open, FALSE) /\ FramesInv
    BY ZenonT(60) DEF CodeInv, Writing
  <2>3. Current \in Names
    BY <2>1, OrderTypes DEF Current
  <2>4. code[Current] \in Seq(Nodes) /\ Pipelines(code[Current]) /\ Here = Len(code[Current]) + 1
    BY <2>3 DEF CodeInv, Here
  <2>5. PICK S : frames \in Seq(S)
    BY <2>2 DEF FramesInv
  <2>6. Len(frames) \in Nat /\ DOMAIN frames = 1..Len(frames)
    BY <2>5
  <2>7. Open = {frames[k].at : k \in 1..Len(frames)}
    BY ZenonT(60), <2>6 DEF Open
  <2>8. \A k \in 1..Len(frames) : frames[k].at \in 1..Len(code[Current])
    BY <2>2, <2>7 DEF Nested, OpenersOf
  <2>9. \A k \in 1..Len(frames) :
           /\ frames[k].inElse <=> code[Current][frames[k].at].els # 0
           /\ \A l \in 1..Len(frames) : l < k => frames[l].at < frames[k].at
    BY ZenonT(60), <2>2 DEF FramesInv
  <2>10. ASSUME frames # <<>>
         PROVE  /\ Len(frames) \in 1..Len(frames) /\ Last(frames) = frames[Len(frames)]
                /\ Last(frames).at \in Open /\ \A g \in Open : g <= Last(frames).at
    <3>1. Len(frames) \in 1..Len(frames) /\ Last(frames) = frames[Len(frames)]
      BY <2>5, <2>10 DEF Last
    <3>2. \A k \in 1..Len(frames) : frames[k].at <= Last(frames).at
      <4> SUFFICES ASSUME NEW k \in 1..Len(frames) PROVE frames[k].at <= Last(frames).at
        OBVIOUS
      <4>1. k = Len(frames) \/ k < Len(frames)
        BY ZenonT(60), <2>6, <1>Below
      <4>2. frames[k].at \in Nat /\ frames[Len(frames)].at \in Nat
        BY SMTT(30), <2>4, <2>8, <3>1
      <4>3. k < Len(frames) => frames[k].at < frames[Len(frames)].at
        BY <2>9, <3>1
      <4>. QED
        BY SMTT(30), <3>1, <4>1, <4>2, <4>3
    <3>. QED
      BY <2>7, <3>1, <3>2
  <2>. QED
    BY ZenonT(60), <2>2, <2>3, <2>4, <2>5, <2>6, <2>7, <2>8, <2>9, <2>10
\* An action, or the start of a control, block or fill.
<1>CodeNode. ASSUME CodeInv, NEW it \in Items, WriteNode(it), UNCHANGED <<kind, outcome>>
             PROVE  CodeInv'
  <2> USE <1>CodeNode
  <2> DEFINE c == code[Current]
             e == Append(c, Node(it))
             N == Len(frames)
             f == [op |-> it.op, saved |-> Len(pvars), inElse |-> FALSE, at |-> Here]
  <2>1. Writing /\ it.op \notin {"else", "end"} /\ done' = done /\ Current' = Current
    BY DEF WriteNode, Current
  <2>2. c \in Seq(Nodes) /\ Nested(c, Open, FALSE) /\ Pipelines(c) /\ Current \in Names
        /\ Here = Len(c) + 1 /\ Open = {frames[k].at : k \in 1..N} /\ N \in Nat /\ \E S : frames \in Seq(S)
        /\ \A k \in 1..N : /\ frames[k].at \in 1..Len(c)
                           /\ frames[k].inElse <=> c[frames[k].at].els # 0
                           /\ \A l \in 1..N : l < k => frames[l].at < frames[k].at
    BY ZenonT(60), <2>1, <1>FrameFacts
  <2>3. /\ Node(it) \in Nodes /\ Node(it).op = it.op /\ Node(it).decls = it.decls /\ Node(it).els = 0
        /\ Len(it.decls) <= 2
    BY ZenonT(60), <1>ItemTypes DEF CodeInv
  <2>4. /\ e \in Seq(Nodes) /\ Len(e) = Len(c) + 1 /\ Len(c) \in Nat
        /\ e[Len(c) + 1] = Node(it) /\ \A i \in 1..Len(c) : e[i] = c[i]
    BY ONLY SMTT(30), <2>2, <2>3, <1>Appended
  <2>5. code' = [code EXCEPT ![Current] = e]
    BY ZenonT(60) DEF WriteNode, write
  <2>6. code'[Current] = e
    BY <2>2, <2>5 DEF CodeInv
  <2>7. Nested(e, IF it.op \in Openers THEN Open \cup {Len(c) + 1} ELSE Open, FALSE)
    BY ZenonT(60), <2>1, <2>2, <2>3, <1>NodeNested
  <2> HIDE DEF e, c
  <2>8. Pipelines(e)
    BY ZenonT(60), <2>1, <2>2, <2>3, <2>4, <1>PipelinesWritten
  <2>9. PICK S : frames \in Seq(S)
    BY <2>2
  <2>10. \A k \in 1..N : frames[k].at \in 1..Len(c) /\ e[frames[k].at] = c[frames[k].at]
    BY ZenonT(60), <2>2, <2>4
  <2>11. CASE it.op \notin Openers
    <3>1. frames' = frames
      BY <2>11 DEF WriteNode
    <3>2. FramesInv'
      BY ZenonT(60), <2>1, <2>2, <2>6, <2>10, <3>1 DEF FramesInv
    <3>3. Nested(e, Open, FALSE) /\ Open' = Open
      BY ZenonT(60), <2>7, <2>11, <3>1 DEF Open
    <3>. QED
      BY ZenonT(60), <2>1, <2>4, <2>5, <2>8, <3>2, <3>3, <1>CodeStep
  <2>12. CASE it.op \in Openers
    <3>1. frames' = Append(frames, f)
      BY ZenonT(60), <2>12 DEF WriteNode
    <3>2. f.at = Len(c) + 1 /\ f.inElse = FALSE
      BY <2>2
    <3> HIDE DEF f
    <3>3. /\ frames' \in Seq(S \cup {f}) /\ Len(frames') = N + 1
          /\ frames'[N + 1] = f /\ \A k \in 1..N : frames'[k] = frames[k]
      BY ONLY SMTT(30), <2>9, <3>1, <1>AppendedAny
    <3> HIDE DEF N
    <3>4. 1..(N + 1) = 1..N \cup {N + 1} /\ DOMAIN frames' = 1..(N + 1)
      BY <2>2, <3>3
    <3>5. Open' = Open \cup {Len(c) + 1}
      <4>1. Open' = {frames'[k].at : k \in 1..(N + 1)}
        BY <3>4 DEF Open
      <4>2. \A k \in 1..N : frames'[k].at = frames[k].at
        BY <3>3
      <4>3. frames'[N + 1].at = Len(c) + 1
        BY ZenonT(60), <3>2, <3>3
      <4>. QED
        BY ZenonT(60), <2>2, <3>4, <4>1, <4>2, <4>3
    <3>6. ASSUME NEW k \in 1..(N + 1)
          PROVE  /\ frames'[k].inElse <=> e[frames'[k].at].els # 0
                 /\ \A l \in 1..(N + 1) : l < k => frames'[l].at < frames'[k].at
      <4>1. CASE k \in 1..N
        <5>1. \A l \in 1..(N + 1) : l < k => l \in 1..N
          BY <2>2, <4>1
        <5>. QED
          BY ZenonT(60), <2>2, <2>10, <3>3, <4>1, <5>1
      <4>2. CASE k = N + 1
        <5>1. frames'[k].at = Len(c) + 1 /\ frames'[k].inElse = FALSE
          BY ZenonT(60), <3>2, <3>3, <4>2
        <5>2. \A l \in 1..(N + 1) : l < k => l \in 1..N
          BY ONLY SMTT(30), <2>2, <4>2
        <5>3. \A l \in 1..N : frames[l].at < Len(c) + 1
          BY <2>2, <2>4
        <5>. QED
          BY ZenonT(60), <2>3, <2>4, <3>3, <5>1, <5>2, <5>3
      <4>. QED
        BY <3>4, <4>1, <4>2
    <3>7. FramesInv'
      BY ZenonT(60), <2>1, <2>6, <3>3, <3>6 DEF FramesInv
    <3>8. Nested(e, Open', FALSE)
      BY ZenonT(60), <2>7, <2>12, <3>5
    <3>. QED
      BY ZenonT(60), <2>1, <2>4, <2>5, <2>8, <3>7, <3>8, <1>CodeStep
  <2>. QED
    BY ZenonT(60), <2>11, <2>12
\* The {{else}} of the node opened last.
<1>CodeElse. ASSUME CodeInv, NEW it \in Items, WriteElse(it), UNCHANGED <<kind, outcome>>
             PROVE  CodeInv'
  <2> USE <1>CodeElse
  <2> DEFINE c == code[Current]
             h == Last(frames).at
             e == Closed(c, h, Here, 0, Node(it))
             N == Len(frames)
  <2>1. Writing /\ it.op = "else" /\ done' = done /\ Current' = Current /\ frames # <<>> /\ ~Last(frames).inElse
        /\ frames' = [frames EXCEPT ![N].inElse = TRUE]
    BY DEF WriteElse, Current
  <2>2. c \in Seq(Nodes) /\ Nested(c, Open, FALSE) /\ Pipelines(c) /\ Current \in Names
        /\ Here = Len(c) + 1 /\ Open = {frames[k].at : k \in 1..N} /\ N \in Nat /\ \E S : frames \in Seq(S)
        /\ \A k \in 1..N : /\ frames[k].at \in 1..Len(c)
                           /\ frames[k].inElse <=> c[frames[k].at].els # 0
                           /\ \A l \in 1..N : l < k => frames[l].at < frames[k].at
    BY ZenonT(60), <2>1, <1>FrameFacts
  <2>3. N \in 1..N /\ Last(frames) = frames[N] /\ h \in Open /\ \A g \in Open : g <= h
    BY <2>1, <1>FrameFacts
  <2>4. h \in 1..Len(c) /\ h = frames[N].at /\ c[h].els = 0 /\ N \in Nat
    <3>1. frames[N].inElse <=> c[frames[N].at].els # 0
      BY ZenonT(60), <2>2, <2>3
    <3>2. frames[N].at \in 1..Len(c) /\ h = frames[N].at /\ ~frames[N].inElse
      BY ZenonT(60), <2>1, <2>2, <2>3
    <3>. QED
      BY ZenonT(60), <2>2, <3>1, <3>2
  <2>5. /\ Node(it) \in Nodes /\ Node(it).op = it.op /\ Node(it).decls = it.decls /\ Node(it).els = 0
        /\ it.decls = <<>>
    BY ZenonT(60), <2>1, <1>ItemTypes DEF CodeInv
  <2>6. Len(c) \in Nat /\ Here \in Nat /\ 0 \in Nat
    BY <2>2
  <2>7. /\ e \in Seq(Nodes) /\ Len(e) = Len(c) + 1 /\ e[Len(c) + 1] = Node(it)
        /\ \A i \in 1..Len(c) : i # h => e[i] = c[i]
        /\ e[h].op = c[h].op /\ e[h].decls = c[h].decls /\ e[h].els = Here /\ e[h].end = 0
    <3>1. IsClosed(e, c, h, Here, 0, Node(it))
      BY ZenonT(60), <2>2, <2>4, <2>5, <2>6, <1>Closing
    <3>. QED
      BY ZenonT(60), <3>1 DEF IsClosed
  <2>8. code' = [code EXCEPT ![Current] = e]
    BY ZenonT(60) DEF WriteElse, writeEnd
  <2>9. Nested(e, Open, FALSE)
    BY ZenonT(60), <2>1, <2>2, <2>3, <2>4, <2>5, <1>ElseNested
  <2> HIDE DEF e, c, h
  <2>10. code'[Current] = e
    BY <2>2, <2>8 DEF CodeInv, c
  <2>11. Pipelines(e)
    <3>1. \A i \in 1..Len(c) : e[i].op = c[i].op /\ e[i].decls = c[i].decls
      BY <2>7
    <3>2. Len(it.decls) <= 2
      BY ONLY SMTT(30), <2>5
    <3>. QED
      BY ZenonT(60), <2>2, <2>5, <2>7, <3>1, <3>2, <1>PipelinesWritten
  <2>12. PICK S : frames \in Seq(S)
    BY <2>2
  <2> DEFINE f == [frames[N] EXCEPT !.inElse = TRUE]
  <2>13. frames' = [frames EXCEPT ![N] = f]
    BY ZenonT(60), <2>1
  <2>14. f.at = frames[N].at /\ f.inElse = TRUE
    OBVIOUS
  <2> HIDE DEF f
  <2>15. /\ frames' \in Seq(S \cup {f}) /\ Len(frames') = N /\ frames'[N] = f
         /\ \A k \in 1..N : k # N => frames'[k] = frames[k]
    BY <2>3, <2>12, <2>13, <1>Replaced
  <2> HIDE DEF N
  <2>16. \A k \in 1..N : frames'[k].at = frames[k].at
    BY ZenonT(60), <2>14, <2>15
  <2>17. Open' = Open
    <3>1. DOMAIN frames' = 1..N
      BY <2>15
    <3>. QED
      BY ZenonT(60), <2>2, <2>16, <3>1 DEF Open
  <2>18. ASSUME NEW k \in 1..N PROVE frames'[k].inElse <=> e[frames'[k].at].els # 0
    <3>1. CASE k = N
      <4>1. e[h].els # 0
        BY <2>2, <2>6, <2>7
      <4>. QED
        BY ZenonT(60), <2>4, <2>14, <2>15, <2>16, <3>1, <4>1
    <3>2. CASE k # N
      <4>1. k < N
        BY ZenonT(60), <2>4, <3>2, <1>Below
      <4>2. frames[k].at < h /\ frames[k].at \in 1..Len(c)
        BY ZenonT(60), <2>2, <2>3, <2>4, <4>1
      <4>3. frames[k].at # h
        BY <2>4, <2>6, <4>2
      <4>4. e[frames[k].at] = c[frames[k].at]
        BY ZenonT(60), <2>7, <4>2, <4>3
      <4>. QED
        BY ZenonT(60), <2>2, <2>15, <3>2, <4>4
    <3>. QED
      BY <3>1, <3>2
  <2>19. FramesInv'
    BY ZenonT(60), <2>1, <2>2, <2>10, <2>15, <2>16, <2>18 DEF FramesInv
  <2>20. Nested(e, Open', FALSE)
    BY ZenonT(60), <2>9, <2>17
  <2>. QED
    BY ZenonT(60), <2>1, <2>7, <2>8, <2>11, <2>19, <2>20, <1>CodeStep
\* The {{end}} of the template, or of the node opened last.
<1>CodeEnd. ASSUME CodeInv, NEW it \in Items, WriteEnd(it), UNCHANGED <<kind, outcome>>
            PROVE  CodeInv'
  <2> USE <1>CodeEnd
  <2> DEFINE c == code[Current]
             N == Len(frames)
  <2>1. Writing /\ it.op = "end"
    BY DEF WriteEnd
  <2>2. c \in Seq(Nodes) /\ Nested(c, Open, FALSE) /\ Pipelines(c) /\ Current \in Names
        /\ Here = Len(c) + 1 /\ Open = {frames[k].at : k \in 1..N} /\ N \in Nat /\ \E S : frames \in Seq(S)
        /\ \A k \in 1..N : /\ frames[k].at \in 1..Len(c)
                           /\ frames[k].inElse <=> c[frames[k].at].els # 0
                           /\ \A l \in 1..N : l < k => frames[l].at < frames[k].at
    BY ZenonT(60), <2>1, <1>FrameFacts
  <2>3. /\ Node(it) \in Nodes /\ Node(it).op = it.op /\ Node(it).decls = it.decls /\ Node(it).els = 0
        /\ it.decls = <<>> /\ Len(it.decls) <= 2
    BY ZenonT(60), <2>1, <1>ItemTypes DEF CodeInv
  <2>4. Len(c) \in Nat /\ Here \in Nat
    BY ONLY SMTT(30), <2>2
  <2>5. PICK S : frames \in Seq(S)
    BY <2>2
  <2>6. CASE frames = <<>>
    <3> DEFINE e == Append(c, Node(it))
    <3>1. done' = done + 1 /\ frames' = <<>> /\ code' = [code EXCEPT ![Current] = e]
      BY ZenonT(60), <2>6 DEF WriteEnd, write
    <3>2. Open = {}
      BY <2>2, <2>6
    <3>3. Nested(e, {}, TRUE)
      BY ZenonT(60), <2>1, <2>2, <2>3, <3>2, <1>LastNested
    <3>4. /\ e \in Seq(Nodes) /\ Len(e) = Len(c) + 1
          /\ e[Len(c) + 1] = Node(it) /\ \A i \in 1..Len(c) : e[i] = c[i]
      BY ONLY SMTT(30), <2>2, <2>3, <1>Appended
    <3> HIDE DEF e, c
    <3>5. Pipelines(e)
      BY <2>1, <2>2, <2>3, <3>4, <1>PipelinesWritten
    <3>. QED
      BY ZenonT(60), <2>1, <2>6, <3>1, <3>3, <3>4, <3>5, <1>CodeStep
  <2>7. CASE frames # <<>>
    <3> DEFINE h == Last(frames).at
               els == IF Last(frames).inElse THEN c[h].els ELSE Here
               e == Closed(c, h, els, Here, Node(it))
    <3>1. done' = done /\ frames' = Front(frames) /\ Current' = Current
      BY <2>7 DEF WriteEnd, Current
    <3>2. code' = [code EXCEPT ![Current] = e]
      BY ZenonT(60), <2>7 DEF WriteEnd, writeEnd
    <3>3. N \in 1..N /\ Last(frames) = frames[N] /\ h \in Open /\ \A g \in Open : g <= h
      BY <2>1, <2>7, <1>FrameFacts
    <3>4. h \in 1..Len(c) /\ h = frames[N].at
          /\ (Last(frames).inElse <=> c[h].els # 0)
      BY ZenonT(60), <2>2, <3>3
    <3>5. els = (IF c[h].els = 0 THEN Len(c) + 1 ELSE c[h].els) /\ els \in Nat
      <4>1. c[h].els \in Nat
        BY ZenonT(60), <2>2, <3>3, <1>OpenIn
      <4>2. CASE Last(frames).inElse
        BY ZenonT(60), <3>4, <4>1, <4>2
      <4>3. CASE ~Last(frames).inElse
        BY ZenonT(60), <2>2, <2>4, <3>4, <4>3
      <4>. QED
        BY <4>2, <4>3
    <3> HIDE DEF els
    <3>6. Nested(e, Open \ {h}, FALSE)
      BY ZenonT(60), <2>1, <2>2, <2>3, <3>3, <3>5, <1>EndNested
    <3>7. /\ e \in Seq(Nodes) /\ Len(e) = Len(c) + 1 /\ e[Len(c) + 1] = Node(it)
          /\ \A i \in 1..Len(c) : i # h => e[i] = c[i]
          /\ e[h].op = c[h].op /\ e[h].decls = c[h].decls
      <4>1. IsClosed(e, c, h, els, Here, Node(it))
        BY ZenonT(60), <2>2, <2>3, <2>4, <3>4, <3>5, <1>Closing
      <4>. QED
        BY ZenonT(60), <2>2, <4>1 DEF IsClosed
    <3> HIDE DEF e, c, h
    <3>8. code'[Current] = e
      BY ZenonT(60), <2>2, <3>2 DEF CodeInv
    <3>9. Pipelines(e)
      <4>1. \A i \in 1..Len(c) : e[i].op = c[i].op /\ e[i].decls = c[i].decls
        BY <3>7
      <4>. QED
        BY ONLY SMTT(30), <2>2, <2>3, <3>7, <4>1, <1>PipelinesWritten
    <3>10. /\ frames' \in Seq(S) /\ Len(frames') = N - 1 /\ \A k \in 1..(N - 1) : frames'[k] = frames[k]
      BY ZenonT(60), <2>5, <2>7, <3>1, FrontOf
    <3> HIDE DEF N
    <3>11. \A k \in 1..(N - 1) : k \in 1..N /\ k < N
      BY <2>2
    <3>12. \A k \in 1..(N - 1) : frames[k].at \in 1..Len(c) /\ frames[k].at < h
      BY ZenonT(60), <2>2, <3>3, <3>4, <3>11
    <3>13. \A k \in 1..(N - 1) : frames[k].at # h
      BY <2>4, <3>4, <3>12
    <3>14. Open' = Open \ {h}
      <4>1. DOMAIN frames' = 1..(N - 1)
        BY ONLY SMTT(30), <2>2, <3>3, <3>10
      <4>2. 1..N = 1..(N - 1) \cup {N}
        BY ONLY SMTT(30), <2>2, <3>3
      <4>3. Open' = {frames[k].at : k \in 1..(N - 1)}
        BY <3>10, <4>1 DEF Open
      <4>. QED
        BY ZenonT(60), <2>2, <3>4, <3>13, <4>2, <4>3
    <3>15. \A k \in 1..(N - 1) : e[frames[k].at] = c[frames[k].at]
      BY ZenonT(60), <3>7, <3>12, <3>13
    <3>16. FramesInv'
      <4>1. ASSUME NEW k \in 1..(N - 1)
            PROVE  /\ frames'[k].inElse <=> e[frames'[k].at].els # 0
                   /\ \A l \in 1..(N - 1) : l < k => frames'[l].at < frames'[k].at
        BY ZenonT(60), <2>2, <3>10, <3>11, <3>15
      <4>. QED
        BY ZenonT(60), <3>1, <3>8, <3>10, <4>1 DEF FramesInv
    <3>17. Nested(e, Open', FALSE)
      BY ZenonT(60), <3>6, <3>14
    <3>. QED
      BY ZenonT(60), <2>1, <3>1, <3>2, <3>7, <3>9, <3>16, <3>17, <1>CodeStep
  <2>. QED
    BY ZenonT(60), <2>6, <2>7
\* Every step keeps what is written nested.
<1>CodeNext. CodeInv /\ [Next]_allVars => CodeInv'
  <2> SUFFICES ASSUME CodeInv, [Next]_allVars PROVE CodeInv'
    OBVIOUS
  <2>1. ASSUME NEW it \in Items, Write(it) PROVE CodeInv'
    <3>1. UNCHANGED <<kind, outcome>> /\ (WriteNode(it) \/ WriteElse(it) \/ WriteEnd(it))
      BY <2>1 DEF Write, execVars
    <3>. QED
      BY <3>1, <1>CodeNode, <1>CodeElse, <1>CodeEnd
  <2>2. CASE UNCHANGED parseVars /\ (outcome' # "writing" => outcome # "writing" \/ done = Len(Order))
    <3>1. UNCHANGED <<kind, code, done, frames>>
      BY <2>2 DEF parseVars
    <3>2. Nodes' = Nodes /\ Current' = Current /\ Open' = Open
      BY <3>1, <1>SameNodes DEF Current, Open
    <3>. QED
      BY ZenonT(60), <2>2, <3>1, <3>2 DEF CodeInv, FramesInv
  <2>3. CASE Execute
    BY <2>2, <2>3 DEF Execute
  <2>4. CASE Walk
    BY <2>2, <2>4 DEF Walk, Running
  <2>5. CASE UNCHANGED allVars
    BY <2>2, <2>5 DEF allVars, parseVars, execVars
  <2>. QED
    BY <2>1, <2>3, <2>4, <2>5 DEF Next
<1>1. Init => CodeInv
  BY <1>CodeInit
<1>2. CodeInv /\ [Next]_allVars => CodeInv'
  BY <1>CodeNext
<1>. QED
  BY <1>1, <1>2, PTL DEF Spec

=============================================================================
