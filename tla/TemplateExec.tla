---------------------------- MODULE TemplateExec ----------------------------
(***************************************************************************)
(* template: execution.  First templates are written, item by item, as the *)
(* parser accepts them, then one is executed: the walk functions run over  *)
(* the items with the stack of variables and the fillers of each           *)
(* invocation.  The recursion of the walk functions is the stack ks.       *)
(*                                                                         *)
(* Data is left out: a condition is true or false and a range has some     *)
(* number of elements, chosen when met.  A variable's value is where it    *)
(* was declared, in which invocation, and for a range the iteration.       *)
(***************************************************************************)
EXTENDS Naturals, Sequences, FiniteSets

CONSTANTS
    Order,          \* the templates of the set, a sequence of names
    Programs        \* the kinds of programs, records of
                    \*   ops       the kinds of items used
                    \*   callees   names in {{template}} and {{fill}} actions
                    \*   blocks    names of blocks
                    \*   decls     what the pipeline of a control may declare: sequences of variables
                    \*   callDecls ... of a template, block or fill
                    \*   vars      variables an action may declare
                    \*   uses      variables an action may print
                    \*   items     bound: items in all templates
                    \*   range     bound: elements of a range
                    \*   depth     bound: nested walk calls; the code has none

VARIABLES
    kind,           \* the kind of program
    code,           \* the items of each template, with the ends of their lists
    done,           \* number of templates written
    frames,         \* parser: the lists being parsed
    pvars           \* parser: p.vars

P == Programs[kind]
Names == {Order[i] : i \in DOMAIN Order}
Controls == {"if", "range"}         \* with is if, for another dot
Openers == Controls \cup {"block", "fill"}

Items ==
    [op : P.ops \cap {"decl"}, name : {""}, decls : {<<x>> : x \in P.vars}]
      \cup [op : P.ops \cap {"use"}, name : {""}, decls : {<<x>> : x \in P.uses}]
      \cup [op : P.ops \cap {"if"}, name : {""}, decls : {d \in P.decls : Len(d) < 2}]
      \cup [op : P.ops \cap {"range"}, name : {""}, decls : P.decls]
      \cup [op : P.ops \cap {"template", "fill"}, name : P.callees, decls : P.callDecls]
      \cup [op : P.ops \cap {"block"}, name : P.blocks, decls : P.callDecls]
      \cup [op : P.ops \cap {"else", "end"}, name : {""}, decls : {<<>>}]

ASSUME OrderAssumption ==
    Order \in Seq(Names) /\ \A i, j \in DOMAIN Order : Order[i] = Order[j] => i = j
ASSUME ProgramsAssumption ==
    \A q \in DOMAIN Programs : LET p == Programs[q] IN
        /\ p.items \in Nat /\ p.range \in Nat /\ p.depth \in Nat
        /\ \A d \in p.decls : d \in Seq(p.uses) /\ Len(d) <= 2
        /\ p.callDecls \subseteq {<<>>} \cup {<<x>> : x \in p.uses}
        /\ p.vars \subseteq p.uses

VARIABLES
    at,             \* the item being walked: template and index
    vars,           \* s.vars
    fillers,        \* s.fillers
    filling,        \* s.filling
    act,            \* number of invocations in progress
    ks,             \* calls to return to
    outcome         \* "writing", "running" or how Execute ended

parseVars == <<kind, code, done, frames, pvars>>
execVars == <<at, vars, fillers, filling, act, ks, outcome>>
allVars == <<parseVars, execVars>>

-----------------------------------------------------------------------------
(* Writing.                                                                *)

Writing == outcome = "writing" /\ done < Len(Order)
Current == Order[done + 1]
Size == Cardinality(UNION {{<<t, i>> : i \in DOMAIN code[t]} : t \in Names})
Last(s) == s[Len(s)]
Front(s) == SubSeq(s, 1, Len(s) - 1)

\* What FillNode.validate whitelists is all there may be in a fill, and an
\* if without else in it is a runtime error.
InFill ==
    \E i \in DOMAIN frames :
        /\ frames[i].op = "fill"
        /\ \A j \in i+1..Len(frames) : frames[j].op \in Controls

\* A node has the items its two lists end at, once they are parsed; without
\* {{else}} they are the same.
Node(it) == [op |-> it.op, name |-> it.name, decls |-> it.decls, els |-> 0, end |-> 0]
Here == Len(code[Current]) + 1
write(it) == code' = [code EXCEPT ![Current] = Append(@, Node(it))]
Closed(c, o, els, end, x) == Append([c EXCEPT ![o] = [@ EXCEPT !.els = els, !.end = end]], x)
writeEnd(it, o, els, end) == code' = [code EXCEPT ![Current] = Closed(@, o, els, end, Node(it))]

\* An action, or the start of a control, block or fill.
WriteNode(it) ==
    /\ Writing
    /\ it.op \notin {"else", "end"}
    /\ it.op = "use" => \E i \in DOMAIN pvars : pvars[i] = it.decls[1]     \* useVar
    /\ InFill => it.op \in Controls \cup {"block"}
    /\ write(it)
    /\ pvars' = IF it.op = "use" THEN pvars ELSE pvars \o it.decls
    /\ frames' = IF it.op \in Openers
                 THEN Append(frames, [op |-> it.op, saved |-> Len(pvars), inElse |-> FALSE, at |-> Here])
                 ELSE frames
    /\ UNCHANGED done

WriteElse(it) ==
    /\ Writing
    /\ it.op = "else"
    /\ frames # <<>> /\ Last(frames).op \in Controls /\ ~Last(frames).inElse
    /\ writeEnd(it, Last(frames).at, Here, 0)
    /\ frames' = [frames EXCEPT ![Len(frames)].inElse = TRUE]
    /\ UNCHANGED <<done, pvars>>

\* popVars, at the end of a control or of the definition; not of a block.
WriteEnd(it) ==
    /\ Writing
    /\ it.op = "end"
    /\ \/ /\ frames = <<>>
          /\ write(it)
          /\ done' = done + 1
          /\ pvars' = <<"$">>
          /\ UNCHANGED frames
       \/ /\ frames # <<>>
          /\ InFill /\ Last(frames).op \in Controls => Last(frames).inElse
          /\ LET o == Last(frames).at
             IN writeEnd(it, o, IF Last(frames).inElse THEN code[Current][o].els ELSE Here, Here)
          /\ frames' = Front(frames)
          /\ pvars' = IF Last(frames).op \in Controls
                      THEN SubSeq(pvars, 1, Last(frames).saved) ELSE pvars
          /\ UNCHANGED done

\* Room is kept for what must still be closed.
Write(it) ==
    /\ WriteNode(it) \/ WriteElse(it) \/ WriteEnd(it)
    /\ Size + Len(frames) + (Len(Order) - done) + (IF it.op \in Openers THEN 2 ELSE IF it.op = "end" THEN 0 ELSE 1) <= P.items
    /\ UNCHANGED <<kind, execVars>>

-----------------------------------------------------------------------------
(* The structure of what was written.                                      *)

Op(t, i) == code[t][i].op

\* The {{end}} of the item at i, and its {{else}} or, without one, the {{end}}.
EndOf(t, i) == code[t][i].end
ElseOf(t, i) == code[t][i].els

\* What follows the node at a place.
After(place) ==
    LET t == place[1]
        i == place[2]
    IN <<t, 1 + (IF Op(t, i) \in Openers THEN EndOf(t, i) ELSE i)>>

-----------------------------------------------------------------------------
(* Execution.                                                              *)

Running == outcome = "running"
Item == code[at[1]][at[2]]
Advance == at' = <<at[1], at[2] + 1>>
Goto(i) == at' = <<at[1], i>>
End == EndOf(at[1], at[2])
Else == ElseOf(at[1], at[2])
Top == Last(ks)

\* A variable, the nth that was declared there.
Variable(name, site, nth, n) == [name |-> name, site |-> site, nth |-> nth, act |-> n, val |-> <<"pipe", 0>>]
Dollar(t, n) == <<Variable("$", <<t, 0>>, 1, n)>>

\* evalPipeline pushes the variables the item at the place declares.
Declared(place) ==
    LET d == code[place[1]][place[2]].decls
    IN [i \in DOMAIN d |-> Variable(d[i], place, i, act)]
evalPipeline(place) == vars \o Declared(place)

\* setVar(1, elem) and setVar(2, index) of a range that declares n variables.
setVars(stack, n, iter) ==
    [i \in DOMAIN stack |->
        IF n > 0 /\ i = Len(stack) THEN [stack[i] EXCEPT !.val = <<"elem", iter>>]
        ELSE IF n > 1 /\ i = Len(stack) - 1 THEN [stack[i] EXCEPT !.val = <<"index", iter>>]
        ELSE stack[i]]

\* varValue: the innermost variable of the name.
Found(name) == {i \in DOMAIN vars : vars[i].name = name}
varValue(name) == vars[CHOOSE i \in Found(name) : \A j \in Found(name) : j <= i]

\* A call made at this item.
Call(k) == [k |-> k, ret |-> at, vars |-> <<>>, fillers |-> fillers, filling |-> filling,
            mark |-> Len(vars), inner |-> 0, iter |-> 0, n |-> 0]

pop(mark) == vars' = SubSeq(vars, 1, mark)
Return == ks' = Front(ks)
SameState == UNCHANGED <<fillers, filling, act, outcome>>

Halt(how) == outcome' = how /\ UNCHANGED <<at, vars, fillers, filling, act, ks>>

\* walk, of an action that declares a variable or prints one.
walkAction ==
    \/ /\ Item.op = "decl"
       /\ vars' = evalPipeline(at)
       /\ Advance
       /\ SameState /\ UNCHANGED ks
    \/ /\ Item.op = "use"
       /\ IF Found(Item.decls[1]) = {} THEN Halt("error")
          ELSE Advance /\ SameState /\ UNCHANGED <<vars, ks>>

\* walkIfOrWith
walkIfOrWith ==
    /\ Item.op = "if"
    /\ ks' = Append(ks, Call("if"))
    /\ vars' = evalPipeline(at)
    /\ \/ Advance
       \/ Goto(IF Else = End THEN End ELSE Else + 1)
    /\ SameState

\* Its end: the then-list is left at {{else}}, the deferred pop is at {{end}}.
endIfOrWith ==
    /\ ks # <<>> /\ Top.k = "if"
    /\ \/ /\ Item.op = "else"
          /\ Goto(EndOf(at[1], Top.ret[2]))
          /\ UNCHANGED <<vars, ks>>
       \/ /\ Item.op = "end"
          /\ pop(Top.mark)
          /\ Return
          /\ at' = After(Top.ret)
    /\ SameState

\* walkRange: the first iteration, or the else list.
walkRange ==
    /\ Item.op = "range"
    /\ \E n \in 0..P.range :
          /\ ks' = Append(ks, [Call("range") EXCEPT !.inner = Len(vars) + Len(Item.decls),
                                                    !.iter = IF n = 0 THEN 0 ELSE 1, !.n = n])
          /\ IF n = 0
             THEN vars' = evalPipeline(at) /\ Goto(IF Else = End THEN End ELSE Else + 1)
             ELSE vars' = setVars(evalPipeline(at), Len(Item.decls), 1) /\ Advance
    /\ SameState

\* Mutant of endRange: what the body declared is popped after the last iteration.
endRangePopsLast ==
    /\ ks # <<>> /\ Top.k = "range"
    /\ Item.op \in {"else", "end"}
    /\ LET r == Top.ret[2] IN
       \/ /\ Top.iter < Top.n
          /\ vars' = setVars(vars, Len(code[at[1]][r].decls), Top.iter + 1)
          /\ ks' = [ks EXCEPT ![Len(ks)].iter = @ + 1]
          /\ Goto(r + 1)
       \/ /\ Top.iter = Top.n
          /\ pop(Top.mark)
          /\ Return
          /\ at' = After(Top.ret)
    /\ SameState

\* The end of an iteration pops what the body declared; the next one follows, or
\* the deferred pop.
endRange ==
    /\ ks # <<>> /\ Top.k = "range"
    /\ Item.op \in {"else", "end"}
    /\ LET r == Top.ret[2] IN
       \/ /\ Top.iter < Top.n
          /\ vars' = setVars(SubSeq(vars, 1, Top.inner), Len(code[at[1]][r].decls), Top.iter + 1)
          /\ ks' = [ks EXCEPT ![Len(ks)].iter = @ + 1]
          /\ Goto(r + 1)
       \/ /\ Top.iter = Top.n
          /\ pop(Top.mark)
          /\ Return
          /\ at' = After(Top.ret)
    /\ SameState

\* A new state for an invocation of the template with that name.
Invoke(name) ==
    /\ vars' = Dollar(name, act + 1)
    /\ at' = <<name, 1>>

\* Mutant of walkTemplate: the fillers of the caller stay.
walkTemplateKeepsFillers ==
    /\ Item.op = "template"
    /\ Item.name \in Names
    /\ ks' = Append(ks, [Call("call") EXCEPT !.vars = evalPipeline(at)])
    /\ Invoke(Item.name)
    /\ act' = act + 1
    /\ UNCHANGED <<fillers, filling, outcome>>

\* Mutant of walkTemplate: the template with the action is walked, not the one it names.
walkTemplateSame ==
    /\ Item.op = "template"
    /\ Item.name \in Names
    /\ ks' = Append(ks, [Call("call") EXCEPT !.vars = evalPipeline(at)])
    /\ Invoke(at[1])
    /\ fillers' = {}
    /\ filling' = FALSE
    /\ act' = act + 1
    /\ UNCHANGED outcome

\* walkTemplate
walkTemplate ==
    /\ Item.op = "template"
    /\ \/ Item.name \notin Names /\ Halt("error")
       \/ /\ Item.name \in Names
          /\ ks' = Append(ks, [Call("call") EXCEPT !.vars = evalPipeline(at)])
          /\ Invoke(Item.name)
          /\ fillers' = {}
          /\ filling' = FALSE
          /\ act' = act + 1
          /\ UNCHANGED outcome

\* The template has been walked: the caller's state is back.
endTemplate ==
    /\ Item.op = "end"
    /\ \/ ks = <<>> /\ Halt("done")
       \/ /\ ks # <<>> /\ Top.k = "call"
          /\ at' = After(Top.ret)
          /\ vars' = Top.vars
          /\ fillers' = Top.fillers
          /\ filling' = Top.filling
          /\ act' = act - 1
          /\ Return
          /\ UNCHANGED outcome

Filler(name) == {f \in fillers : f.name = name}

\* walkBlock: in a fill the block becomes a filler; elsewhere its filler is
\* walked, in the state of the block, or the block itself.
walkBlock ==
    /\ Item.op = "block"
    /\ \/ /\ filling                            \* addFiller
          /\ IF Filler(Item.name) # {} THEN Halt("error")
             ELSE /\ fillers' = fillers \cup {[name |-> Item.name, at |-> at, act |-> act]}
                  /\ at' = After(at)
                  /\ UNCHANGED <<vars, filling, act, ks, outcome>>
       \/ /\ ~filling
          /\ \E f \in Filler(Item.name) :
                /\ ks' = Append(ks, Call("block"))
                /\ vars' = evalPipeline(f.at)
                /\ at' = <<f.at[1], f.at[2] + 1>>
          /\ SameState
       \/ /\ ~filling
          /\ Filler(Item.name) = {}
          /\ ks' = Append(ks, Call("block"))
          /\ vars' = evalPipeline(at)
          /\ Advance
          /\ SameState

endBlock ==
    /\ Item.op = "end"
    /\ ks # <<>> /\ Top.k = "block"
    /\ at' = After(Top.ret)
    /\ Return
    /\ UNCHANGED vars
    /\ SameState

\* walkFill: the blocks of the fill are collected in a new state ...
walkFill ==
    /\ Item.op = "fill"
    /\ \/ Item.name \notin Names /\ Halt("error")
       \/ /\ Item.name \in Names
          /\ ks' = Append(ks, [Call("fill") EXCEPT !.vars = evalPipeline(at)])
          /\ vars' = evalPipeline(at)
          /\ fillers' = {}
          /\ filling' = TRUE
          /\ act' = act + 1
          /\ Advance
          /\ UNCHANGED outcome

\* ... in which the template is then walked.
endFill ==
    /\ Item.op = "end"
    /\ ks # <<>> /\ Top.k = "fill"
    /\ LET f == Top.ret IN
       /\ ks' = [ks EXCEPT ![Len(ks)].k = "call"]
       /\ vars' = Dollar(code[f[1]][f[2]].name, act)
       /\ at' = <<code[f[1]][f[2]].name, 1>>
    /\ filling' = FALSE
    /\ UNCHANGED <<fillers, act, outcome>>

\* Execute
Execute ==
    /\ outcome = "writing"
    /\ done = Len(Order)
    /\ outcome' = "running"
    /\ \E t \in Names : Invoke(t)
    /\ act' = act + 1
    /\ UNCHANGED <<parseVars, fillers, filling, ks>>

Walk ==
    /\ Running
    /\ IF Len(ks) > P.depth THEN Halt("deep")
       ELSE \/ walkAction \/ walkIfOrWith \/ endIfOrWith \/ walkRange \/ endRange
            \/ walkTemplate \/ endTemplate \/ walkBlock \/ endBlock \/ walkFill \/ endFill
    /\ UNCHANGED parseVars

Init ==
    /\ kind \in DOMAIN Programs
    /\ code = [t \in Names |-> <<>>] /\ done = 0 /\ frames = <<>> /\ pvars = <<"$">>
    /\ at = <<Order[1], 1>> /\ vars = <<>> /\ fillers = {} /\ filling = FALSE
    /\ act = 0 /\ ks = <<>> /\ outcome = "writing"

Next == (\E it \in Items : Write(it)) \/ Execute \/ Walk

Spec == Init /\ [][Next]_allVars

-----------------------------------------------------------------------------

\* Declaration j of template t is in scope at item i by the rules of lexical
\* scoping: until the list it is in ends; the variables of a control's own
\* pipeline until the control ends.
InScope(t, j, i) ==
    /\ j < i
    /\ \A o \in 1..j :
          Op(t, o) \in Controls /\ j < EndOf(t, o)
             => i < EndOf(t, o) /\ (o < j /\ j < ElseOf(t, o) => i < ElseOf(t, o))

\* The items that declare x in scope at i.
Declarations(t, x, i) ==
    (IF x = "$" THEN {0} ELSE {})
      \cup {j \in DOMAIN code[t] :
               /\ Op(t, j) # "use"
               /\ \E d \in DOMAIN code[t][j].decls : code[t][j].decls[d] = x
               /\ InScope(t, j, i)}

AtUse == Running /\ Item.op = "use"

\* The value x declared at item j has: for a range, of this iteration, the index
\* or the element; its last variable is the element.
ValueOf(j, x) ==
    LET d == code[at[1]][j].decls
        rs == {i \in DOMAIN ks : ks[i].k = "range" /\ ks[i].ret = <<at[1], j>>}
        r == ks[CHOOSE i \in rs : \A m \in rs : m <= i]
    IN IF rs = {} \/ r.n = 0 THEN <<"pipe", 0>>
       ELSE <<IF Last(d) = x THEN "elem" ELSE "index", r.iter>>

\* A variable means at run time what it means where it is written: the innermost
\* declaration in scope, made by this invocation of the template, with the
\* element of this iteration; and it is undefined when none is in scope.
ResolvesAsWritten ==
    AtUse =>
        LET x == Item.decls[1]
            ds == Declarations(at[1], x, at[2])
            j == CHOOSE d \in ds : \A e \in ds : e <= d
        IN IF ds = {} THEN Found(x) = {}
           ELSE /\ Found(x) # {}
                /\ varValue(x).site = <<at[1], j>>
                /\ varValue(x).act = act
                /\ varValue(x).val = IF j = 0 THEN <<"pipe", 0>> ELSE ValueOf(j, x)

\* A block is replaced only by a filler of the fill that invoked this very
\* template, never by one of a caller further up.
FillersOfThisFill == \A f \in fillers : f.act = act

\* The templates that t calls or fills.
Calls(t) == {code[t][i].name : i \in {n \in DOMAIN code[t] : Op(t, n) \in {"template", "fill"}}}
Recursive ==
    \E T \in SUBSET Names : T # {} /\ \A t \in T : Calls(t) \cap T # {}
\* A block in a filler, with the name of a filler of the same fill.
NestedFillers ==
    \E t \in Names : \E f, b, c, n \in DOMAIN code[t] :
        /\ Op(t, f) = "fill" /\ Op(t, b) = "block" /\ Op(t, c) = "block" /\ Op(t, n) = "block"
        /\ f < b /\ b < n /\ n < EndOf(t, b) /\ EndOf(t, b) < EndOf(t, f)
        /\ f < c /\ c < EndOf(t, f) /\ code[t][c].name = code[t][n].name

\* Walking goes on without end only when templates call each other in a circle,
\* or a filler contains a block that is filled in turn.
OnlyRecursionIsDeep == outcome = "deep" => Recursive \/ NestedFillers
=============================================================================
