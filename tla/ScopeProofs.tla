---------------------------- MODULE ScopeProofs -----------------------------
(***************************************************************************)
(* A variable means at run time the declaration it means by the scopes of  *)
(* the text. Execution keeps the scopes of a text whose lists are nested   *)
(* (CodeInv, see WrittenAreNested): RunInv says what s.vars is at every    *)
(* item, for programs without {{fill}}, namely the declarations that are   *)
(* in scope there, in the order in which they are written, with the values *)
(* of this invocation and of this iteration; and so for every list that is *)
(* still to be returned to. varValue, which searches s.vars from the end,  *)
(* then finds the innermost declaration that is in scope.                  *)
(***************************************************************************)
EXTENDS ExecProofs

\* There is much in scope: the provers are given more time than usual.
USE SMTT(30)

\* A position is among the first m or the l after them.
LEMMA Above ==
    ASSUME NEW m \in Nat, NEW l \in Nat, NEW q \in 1..(m + l)
    PROVE  IF q <= m THEN q \in 1..m ELSE q - m \in 1..l /\ m + (q - m) = q
  OBVIOUS

\* The positions after the first m.
LEMMA Shifted == ASSUME NEW m \in Nat, NEW l \in Nat, NEW q \in 1..l PROVE m + q \in 1..(m + l)
  OBVIOUS

\* The lengths of a pipeline's declarations.
LEMMA UpToTwo == \A n : n \in 0..2 <=> n \in Nat /\ n <= 2
  OBVIOUS

\* The positions of a sequence.
LEMMA Positions == \A n \in Nat : \A i \in 1..n : i \in Nat /\ i # 0
  OBVIOUS

\* The length and the domain of a sequence.
LEMMA SeqTypes == ASSUME NEW S, NEW s \in Seq(S) PROVE Len(s) \in Nat /\ DOMAIN s = 1..Len(s)
  OBVIOUS

\* A function on 1..n is a sequence.
LEMMA SeqOf == ASSUME NEW S, NEW n \in Nat, NEW s \in [1..n -> S] PROVE s \in Seq(S) /\ Len(s) = n
  OBVIOUS

\* One sequence after another.
LEMMA Concatenated ==
    ASSUME NEW S, NEW s \in Seq(S), NEW u \in Seq(S)
    PROVE  /\ s \o u \in Seq(S) /\ Len(s \o u) = Len(s) + Len(u) /\ Len(s) \in Nat
           /\ \A q \in 1..Len(s) : (s \o u)[q] = s[q]
           /\ \A q \in 1..Len(u) : (s \o u)[Len(s) + q] = u[q]
  OBVIOUS

-----------------------------------------------------------------------------
(* The structure of a whole template.                                      *)

Whole(t) == code[t] \in Seq(Nodes) /\ Nested(code[t], {}, TRUE) /\ Pipelines(code[t])

\* Once all is written, each template is whole.
LEMMA AllWhole == ASSUME CodeInv, done = Len(Order), NEW t \in Names PROVE Whole(t)
<1>1. PICK i \in 1..Len(Order) : t = Order[i]
  BY ZenonT(60), OrderTypes
<1>2. i \in 1..done
  BY ZenonT(60), <1>1 DEF CodeInv
<1>. QED
  BY ZenonT(60), <1>1, <1>2 DEF CodeInv, Whole

\* A node, from where it begins to where its lists end.
LEMMA NodeFacts ==
    ASSUME NEW t, Whole(t), NEW o \in OpenersOf(code[t])
    PROVE  /\ o \in 1..Len(code[t]) /\ ElseOf(t, o) \in 1..Len(code[t]) /\ EndOf(t, o) \in 1..Len(code[t])
           /\ o < ElseOf(t, o) /\ ElseOf(t, o) <= EndOf(t, o) /\ EndOf(t, o) < Len(code[t])
           /\ Op(t, EndOf(t, o)) = "end" /\ (ElseOf(t, o) # EndOf(t, o) => Op(t, ElseOf(t, o)) = "else")
           /\ Op(t, o) \in Openers
           /\ \A p \in OpenersOf(code[t]) : o < p /\ p < EndOf(t, o) =>
                 EndOf(t, p) < EndOf(t, o) /\ (p < ElseOf(t, o) => EndOf(t, p) < ElseOf(t, o))
<1>1. code[t] \in Seq(Nodes) /\ Nested(code[t], {}, TRUE) /\ o \in OpenersOf(code[t]) \ {}
  BY ZenonT(60) DEF Whole
<1>2. /\ o \in 1..Len(code[t]) /\ code[t][o].els \in 1..Len(code[t]) /\ code[t][o].end \in 1..Len(code[t])
      /\ o < code[t][o].els /\ code[t][o].els <= code[t][o].end
  BY ZenonT(60), <1>1, ClosedIn
<1>3. /\ code[t][o].end < Len(code[t]) /\ code[t][code[t][o].end].op = "end"
      /\ code[t][o].els # code[t][o].end => code[t][code[t][o].els].op = "else"
  BY ZenonT(60), <1>1 DEF Nested
<1>4. \A p \in OpenersOf(code[t]) : o < p /\ p < code[t][o].end =>
         code[t][p].end < code[t][o].end /\ (p < code[t][o].els => code[t][p].end < code[t][o].els)
  BY ZenonT(60), <1>1 DEF Nested
<1>5. code[t][o].op \in Openers
  BY ZenonT(60) DEF OpenersOf
<1>. QED
  BY ZenonT(60), <1>2, <1>3, <1>4, <1>5 DEF Op, EndOf, ElseOf

\* The last item is the {{end}} of the template, and the only one that closes no node.
LEMMA LastFacts ==
    ASSUME NEW t, Whole(t)
    PROVE  /\ code[t] \in Seq(Nodes) /\ Len(code[t]) \in Nat /\ 1 \in 1..Len(code[t])
           /\ DOMAIN code[t] = 1..Len(code[t])
           /\ Op(t, Len(code[t])) = "end"
           /\ \A i \in 1..Len(code[t]) :
                 Op(t, i) = "end" /\ i # Len(code[t]) => \E o \in OpenersOf(code[t]) : EndOf(t, o) = i
           /\ \A i \in 1..Len(code[t]) : Op(t, i) \in Controls => i \in OpenersOf(code[t])
           /\ \A i \in 1..Len(code[t]) : Op(t, i) \in Openers <=> i \in OpenersOf(code[t])
<1>1. code[t] \in Seq(Nodes) /\ Nested(code[t], {}, TRUE)
  BY ZenonT(60) DEF Whole
<1>2. Len(code[t]) \in Nat /\ DOMAIN code[t] = 1..Len(code[t])
  BY ONLY SMTT(30), <1>1
<1>3. 1 <= Len(code[t]) /\ code[t][Len(code[t])].op = "end"
      /\ \A i \in 1..Len(code[t]) : code[t][i].op = "end" /\ i # Len(code[t])
            => \E o \in OpenersOf(code[t]) : code[t][o].end = i
  BY ZenonT(60), <1>1 DEF Nested
<1>. QED
  BY ONLY SMTT(30), <1>1, <1>2, <1>3 DEF Op, EndOf, OpenersOf, Openers

\* Item i is in the list of node u, or of the template if u is 0, and not in a node
\* of that list.
Innermost(t, i, u) ==
    /\ u \in Nat
    /\ u = 0 \/ (u \in OpenersOf(code[t]) /\ u < i /\ i <= EndOf(t, u))
    /\ \A p \in OpenersOf(code[t]) : u < p /\ p < i => EndOf(t, p) < i

\* The item after one that is in no list of its own is in the same list.
LEMMA InnermostNext ==
    ASSUME NEW t, Whole(t), NEW i \in 1..Len(code[t]), NEW u, Innermost(t, i, u),
           Op(t, i) \notin Openers \cup {"end"}
    PROVE  i + 1 \in 1..Len(code[t]) /\ Innermost(t, i + 1, u)
<1>1. Len(code[t]) \in Nat /\ i # Len(code[t])
  BY ZenonT(60), LastFacts
<1>2. \A p \in OpenersOf(code[t]) : p \in 1..Len(code[t]) /\ EndOf(t, p) \in 1..Len(code[t]) /\ p # i
                                    /\ EndOf(t, p) # i
  BY ZenonT(60), NodeFacts
<1>. QED
  BY <1>1, <1>2 DEF Innermost

\* The list of a node begins after it.
LEMMA InnermostFirst ==
    ASSUME NEW t, Whole(t), NEW o \in OpenersOf(code[t])
    PROVE  o + 1 \in 1..Len(code[t]) /\ Innermost(t, o + 1, o)
<1>1. Len(code[t]) \in Nat /\ o \in 1..Len(code[t])
  BY ZenonT(60), LastFacts, NodeFacts
<1>2. \A p \in OpenersOf(code[t]) : p \in 1..Len(code[t])
  BY ZenonT(60), NodeFacts
<1>3. o < EndOf(t, o) /\ EndOf(t, o) \in 1..Len(code[t])
  BY <1>1, NodeFacts
<1>. QED
  BY ONLY SMTT(30), <1>1, <1>2, <1>3 DEF Innermost

\* The list after {{else}} begins after it.
LEMMA InnermostElse ==
    ASSUME NEW t, Whole(t), NEW o \in OpenersOf(code[t]), ElseOf(t, o) # EndOf(t, o)
    PROVE  ElseOf(t, o) + 1 \in 1..Len(code[t]) /\ Innermost(t, ElseOf(t, o) + 1, o)
<1>1. /\ Len(code[t]) \in Nat /\ o \in 1..Len(code[t]) /\ ElseOf(t, o) \in 1..Len(code[t])
      /\ EndOf(t, o) \in 1..Len(code[t]) /\ o < ElseOf(t, o) /\ ElseOf(t, o) < EndOf(t, o)
      /\ Op(t, ElseOf(t, o)) = "else"
  BY LastFacts, NodeFacts
<1>2. \A p \in OpenersOf(code[t]) : p \in 1..Len(code[t]) /\ p # ElseOf(t, o) /\ EndOf(t, p) \in 1..Len(code[t])
  BY ZenonT(60), <1>1, NodeFacts DEF Openers, Controls
<1>3. \A p \in OpenersOf(code[t]) : o < p /\ p < ElseOf(t, o) => EndOf(t, p) < ElseOf(t, o)
  BY <1>1, <1>2, NodeFacts
<1>. QED
  BY ONLY SMTT(30), <1>1, <1>2, <1>3 DEF Innermost

\* The {{end}} of a node belongs to its list.
LEMMA InnermostEnd ==
    ASSUME NEW t, Whole(t), NEW o \in OpenersOf(code[t])
    PROVE  EndOf(t, o) \in 1..Len(code[t]) /\ Innermost(t, EndOf(t, o), o)
<1>1. /\ Len(code[t]) \in Nat /\ o \in 1..Len(code[t]) /\ EndOf(t, o) \in 1..Len(code[t]) /\ o < EndOf(t, o)
      /\ \A p \in OpenersOf(code[t]) : o < p /\ p < EndOf(t, o) => EndOf(t, p) < EndOf(t, o)
  BY LastFacts, NodeFacts
<1>. QED
  BY ONLY SMTT(30), <1>1 DEF Innermost

\* After the {{end}} of a node, the list it is in goes on.
LEMMA InnermostAfter ==
    ASSUME NEW t, Whole(t), NEW o \in OpenersOf(code[t]), NEW u, Innermost(t, o, u)
    PROVE  EndOf(t, o) + 1 \in 1..Len(code[t]) /\ Innermost(t, EndOf(t, o) + 1, u)
<1>1. /\ Len(code[t]) \in Nat /\ o \in 1..Len(code[t]) /\ EndOf(t, o) \in 1..Len(code[t]) /\ o < EndOf(t, o)
      /\ EndOf(t, o) < Len(code[t]) /\ Op(t, EndOf(t, o)) = "end"
      /\ \A p \in OpenersOf(code[t]) : o < p /\ p < EndOf(t, o) => EndOf(t, p) < EndOf(t, o)
  BY LastFacts, NodeFacts
<1>2. \A p \in OpenersOf(code[t]) : p \in 1..Len(code[t]) /\ p # EndOf(t, o) /\ EndOf(t, p) \in 1..Len(code[t])
  BY ZenonT(60), <1>1, NodeFacts DEF Openers, Controls
<1>3. u = 0 \/ (u \in OpenersOf(code[t]) /\ u < EndOf(t, o) + 1 /\ EndOf(t, o) + 1 <= EndOf(t, u))
  <2> SUFFICES ASSUME u # 0 PROVE u \in OpenersOf(code[t]) /\ u < EndOf(t, o) + 1 /\ EndOf(t, o) + 1 <= EndOf(t, u)
    BY ZenonT(60)
  <2>1. u \in OpenersOf(code[t]) /\ u < o /\ o <= EndOf(t, u)
    BY ZenonT(60) DEF Innermost
  <2>2. /\ u \in 1..Len(code[t]) /\ EndOf(t, u) \in 1..Len(code[t]) /\ Op(t, EndOf(t, u)) = "end"
        /\ \A p \in OpenersOf(code[t]) : u < p /\ p < EndOf(t, u) => EndOf(t, p) < EndOf(t, u)
    BY ZenonT(60), <2>1, NodeFacts
  <2>3. o # EndOf(t, u)
    BY ZenonT(60), <2>2, NodeFacts DEF Openers, Controls
  <2>. QED
    BY ONLY SMTT(30), <1>1, <2>1, <2>2, <2>3
<1>4. \A p \in OpenersOf(code[t]) : u < p /\ p < o => EndOf(t, p) < o
  BY ZenonT(60) DEF Innermost
<1>5. u \in Nat
  BY ZenonT(60) DEF Innermost
<1>6. ASSUME NEW p \in OpenersOf(code[t]), u < p, p < EndOf(t, o) + 1
      PROVE  EndOf(t, p) < EndOf(t, o) + 1
  BY ONLY SMTT(30), <1>1, <1>2, <1>4, <1>6
<1>. QED
  BY ONLY SMTT(30), <1>1, <1>3, <1>5, <1>6 DEF Innermost

\* At an {{end}} in the list of a node, it is the end of that node.
LEMMA InnermostAtEnd ==
    ASSUME NEW t, Whole(t), NEW i \in 1..Len(code[t]), NEW u \in OpenersOf(code[t]), Innermost(t, i, u),
           Op(t, i) = "end"
    PROVE  i = EndOf(t, u)
<1>1. /\ Len(code[t]) \in Nat /\ u \in 1..Len(code[t]) /\ EndOf(t, u) \in 1..Len(code[t])
      /\ EndOf(t, u) < Len(code[t])
  BY ZenonT(60), LastFacts, NodeFacts
<1>2. i <= EndOf(t, u) /\ u < i
  BY <1>1 DEF Innermost
<1>3. PICK o \in OpenersOf(code[t]) : EndOf(t, o) = i
  BY <1>1, <1>2, LastFacts
<1>4. o \in 1..Len(code[t]) /\ o < i
  BY <1>3, NodeFacts
<1>5. ~(u < o)
  BY <1>3, <1>4 DEF Innermost
<1>6. ~(o < u)
  <2> SUFFICES ASSUME o < u PROVE FALSE
    BY ZenonT(60)
  <2>1. EndOf(t, u) < EndOf(t, o)
    BY ZenonT(60), <1>2, <1>3, NodeFacts
  <2>. QED
    BY ONLY SMTT(30), <1>1, <1>2, <1>3, <2>1
<1>. QED
  BY ONLY SMTT(30), <1>1, <1>3, <1>4, <1>5, <1>6

\* Two nodes do not end together.
LEMMA EndsDiffer ==
    ASSUME NEW t, Whole(t), NEW o \in OpenersOf(code[t]), NEW p \in OpenersOf(code[t]), EndOf(t, o) = EndOf(t, p)
    PROVE  o = p
<1>1. /\ o \in 1..Len(code[t]) /\ p \in 1..Len(code[t]) /\ o < EndOf(t, o) /\ p < EndOf(t, p)
      /\ EndOf(t, o) \in 1..Len(code[t])
  BY NodeFacts
<1>2. o < p => EndOf(t, p) < EndOf(t, o)
  BY ZenonT(60), <1>1, NodeFacts
<1>3. p < o => EndOf(t, o) < EndOf(t, p)
  BY ZenonT(60), <1>1, NodeFacts
<1>. QED
  BY <1>1, <1>2, <1>3

-----------------------------------------------------------------------------
(* What is in scope, from one item to the next one walked.                 *)

\* The {{else}} and {{end}} of controls are where variables go out of scope.
Plain(t, i) ==
    Op(t, i) # "else" /\ \A o \in 1..Len(code[t]) : Op(t, o) \in Controls => EndOf(t, o) # i

\* The e-th variable that item j declares.
Own(t, j, e) == Op(t, j) # "use" /\ e \in DOMAIN code[t][j].decls

\* It is in scope at i; item 0 declares $.
Slot(t, i, j, e) ==
    \/ j = 0 /\ e = 1
    \/ j \in 1..Len(code[t]) /\ Own(t, j, e) /\ InScope(t, j, i)

\* An if or a range, from where it begins to where its lists end.
LEMMA ControlFacts ==
    ASSUME NEW t, Whole(t), NEW o \in 1..Len(code[t]), Op(t, o) \in Controls
    PROVE  /\ o \in OpenersOf(code[t])
           /\ ElseOf(t, o) \in 1..Len(code[t]) /\ EndOf(t, o) \in 1..Len(code[t])
           /\ o < ElseOf(t, o) /\ ElseOf(t, o) <= EndOf(t, o) /\ EndOf(t, o) < Len(code[t])
           /\ Op(t, EndOf(t, o)) = "end" /\ (ElseOf(t, o) # EndOf(t, o) => Op(t, ElseOf(t, o)) = "else")
<1>1. o \in OpenersOf(code[t])
  BY ZenonT(60), LastFacts
<1>. QED
  BY ZenonT(60), <1>1, NodeFacts

\* The next item in the list: what this one declares is in scope, too.
LEMMA NextSlot ==
    ASSUME NEW t, Whole(t), NEW i \in 1..Len(code[t]), i + 1 \in 1..Len(code[t]), Plain(t, i + 1),
           NEW j \in Nat, NEW e \in Nat
    PROVE  Slot(t, i + 1, j, e) <=> Slot(t, i, j, e) \/ (j = i /\ Own(t, i, e))
<1>1. \A o \in 1..Len(code[t]) : Op(t, o) \in Controls =>
         /\ ElseOf(t, o) \in 1..Len(code[t]) /\ EndOf(t, o) \in 1..Len(code[t])
         /\ EndOf(t, o) # i + 1 /\ ElseOf(t, o) # i + 1
  BY ControlFacts DEF Plain
<1>2. Len(code[t]) \in Nat
  BY ZenonT(60), LastFacts
<1>3. j \in 1..Len(code[t]) => \A o \in 1..j : o \in 1..Len(code[t])
  BY ONLY SMTT(30), <1>2
<1>4. ASSUME j \in 1..Len(code[t]), j # i PROVE InScope(t, j, i + 1) <=> InScope(t, j, i)
  <2>1. j < i + 1 <=> j < i
    BY ONLY SMTT(30), <1>2, <1>4
  <2>2. ASSUME NEW o \in 1..j, Op(t, o) \in Controls
        PROVE  (i < EndOf(t, o) <=> i + 1 < EndOf(t, o)) /\ (i < ElseOf(t, o) <=> i + 1 < ElseOf(t, o))
    <3>1. /\ ElseOf(t, o) \in 1..Len(code[t]) /\ EndOf(t, o) \in 1..Len(code[t])
          /\ EndOf(t, o) # i + 1 /\ ElseOf(t, o) # i + 1
      BY ZenonT(60), <1>1, <1>3, <1>4, <2>2
    <3>. QED
      BY ONLY SMTT(30), <1>2, <3>1
  <2>. QED
    BY ZenonT(60), <2>1, <2>2 DEF InScope
<1>5. ASSUME j = i PROVE InScope(t, j, i + 1) /\ ~InScope(t, j, i)
  <2>1. ASSUME NEW o \in 1..j, Op(t, o) \in Controls, j < EndOf(t, o)
        PROVE  i + 1 < EndOf(t, o) /\ (j < ElseOf(t, o) => i + 1 < ElseOf(t, o))
    <3>1. /\ ElseOf(t, o) \in 1..Len(code[t]) /\ EndOf(t, o) \in 1..Len(code[t])
          /\ EndOf(t, o) # i + 1 /\ ElseOf(t, o) # i + 1
      BY ZenonT(60), <1>1, <1>3, <1>5, <2>1
    <3>. QED
      BY ONLY SMTT(30), <1>2, <1>5, <2>1, <3>1
  <2>2. j < i + 1 /\ ~(j < i)
    BY ONLY SMTT(30), <1>2, <1>5
  <2>. QED
    BY ZenonT(60), <2>1, <2>2 DEF InScope
<1>. QED
  BY ZenonT(60), <1>4, <1>5 DEF Slot

\* The nodes around a control are around its {{else}} and its {{end}}, too.
LEMMA Around ==
    ASSUME NEW t, Whole(t), NEW o \in OpenersOf(code[t]), NEW p \in 1..Len(code[t]),
           Op(t, p) \in Controls, p < o
    PROVE  /\ o < EndOf(t, p) <=> EndOf(t, o) < EndOf(t, p)
           /\ o < ElseOf(t, p) <=> EndOf(t, o) < ElseOf(t, p)
<1>1. /\ p \in OpenersOf(code[t]) /\ ElseOf(t, p) \in 1..Len(code[t]) /\ EndOf(t, p) \in 1..Len(code[t])
      /\ ElseOf(t, p) <= EndOf(t, p)
  BY ZenonT(60), ControlFacts
<1>2. o \in 1..Len(code[t]) /\ EndOf(t, o) \in 1..Len(code[t]) /\ o < EndOf(t, o)
  BY NodeFacts
<1>3. o < EndOf(t, p) => EndOf(t, o) < EndOf(t, p) /\ (o < ElseOf(t, p) => EndOf(t, o) < ElseOf(t, p))
  BY ZenonT(60), <1>1, NodeFacts
<1>. QED
  BY ONLY SMTT(30), <1>1, <1>2, <1>3

\* The first item of the second list of a control: what its pipeline declares is
\* in scope, what its first list does is not.
LEMMA ElseSlot ==
    ASSUME NEW t, Whole(t), NEW o \in 1..Len(code[t]), Op(t, o) \in Controls, ElseOf(t, o) # EndOf(t, o),
           Plain(t, ElseOf(t, o) + 1), NEW j \in Nat, NEW e \in Nat
    PROVE  Slot(t, ElseOf(t, o) + 1, j, e) <=> Slot(t, o, j, e) \/ (j = o /\ Own(t, o, e))
<1> DEFINE i == ElseOf(t, o) + 1
<1>1. /\ o \in OpenersOf(code[t])
      /\ ElseOf(t, o) \in 1..Len(code[t]) /\ EndOf(t, o) \in 1..Len(code[t])
      /\ o < ElseOf(t, o) /\ ElseOf(t, o) < EndOf(t, o) /\ Op(t, ElseOf(t, o)) = "else"
      /\ EndOf(t, o) # i /\ Len(code[t]) \in Nat
  BY ControlFacts, LastFacts DEF Plain
<1>2. i < EndOf(t, o) /\ ~(i < ElseOf(t, o)) /\ o < i
  BY ONLY SMTT(30), <1>1
<1>3. ASSUME NEW p \in 1..Len(code[t]), Op(t, p) \in Controls, p < o
      PROVE  (o < EndOf(t, p) <=> i < EndOf(t, p)) /\ (o < ElseOf(t, p) <=> i < ElseOf(t, p))
  <2>1. ElseOf(t, p) \in 1..Len(code[t]) /\ EndOf(t, p) \in 1..Len(code[t])
    BY ZenonT(60), <1>3, ControlFacts
  <2>2. (o < EndOf(t, p) <=> EndOf(t, o) < EndOf(t, p)) /\ (o < ElseOf(t, p) <=> EndOf(t, o) < ElseOf(t, p))
    BY ZenonT(60), <1>1, <1>3, Around
  <2>. QED
    BY ONLY SMTT(30), <1>1, <1>2, <2>1, <2>2
<1>4. ASSUME j \in 1..Len(code[t]), j < o PROVE InScope(t, j, i) <=> InScope(t, j, o)
  <2>1. j < i
    BY ONLY SMTT(30), <1>1, <1>4
  <2>2. \A p \in 1..j : p \in 1..Len(code[t]) /\ p < o
    BY ONLY SMTT(30), <1>1, <1>4
  <2> HIDE DEF i
  <2>. QED
    BY ZenonT(60), <1>3, <1>4, <2>1, <2>2 DEF InScope
<1>5. InScope(t, o, i) /\ ~InScope(t, o, o)
  <2>1. ASSUME NEW p \in 1..o, Op(t, p) \in Controls, o < EndOf(t, p)
        PROVE  i < EndOf(t, p) /\ (p < o /\ o < ElseOf(t, p) => i < ElseOf(t, p))
    <3>1. CASE p = o
      BY ONLY SMTT(30), <1>2, <3>1
    <3>2. CASE p # o
      BY ONLY SMTT(30), <1>1, <1>3, <2>1, <3>2
    <3>. QED
      BY ZenonT(60), <3>1, <3>2
  <2> HIDE DEF i
  <2>. QED
    BY ONLY SMTT(30), <1>1, <1>2, <2>1 DEF InScope
<1>6. ASSUME j \in 1..Len(code[t]), o < j, Own(t, j, e) PROVE ~InScope(t, j, i) /\ ~InScope(t, j, o)
  <2>1. j # ElseOf(t, o)
    <3>1. code[t][ElseOf(t, o)].decls = <<>>
      BY ZenonT(60), <1>1 DEF Whole, Pipelines, Op
    <3>. QED
      BY ONLY SMTT(30), <1>6, <3>1 DEF Own
  <2>2. j < ElseOf(t, o) => ~InScope(t, j, i)
    <3> SUFFICES ASSUME j < ElseOf(t, o), InScope(t, j, i) PROVE FALSE
      BY ZenonT(60)
    <3>1. o \in 1..j /\ j < EndOf(t, o)
      BY <1>1, <1>6
    <3>2. i < ElseOf(t, o)
      BY ZenonT(60), <1>6, <3>1 DEF InScope
    <3>. QED
      BY ZenonT(60), <1>2, <3>2
  <2>3. ~(j < ElseOf(t, o)) => ~(j < i)
    BY ONLY SMTT(30), <1>1, <2>1
  <2>4. ~(j < o)
    BY ONLY SMTT(30), <1>1, <1>6
  <2>. QED
    BY ZenonT(60), <2>2, <2>3, <2>4 DEF InScope
<1> HIDE DEF i
<1>7. Slot(t, i, j, e) <=> Slot(t, o, j, e) \/ (j = o /\ Own(t, o, e))
  <2>1. j = o \/ j < o \/ o < j
    BY ONLY SMTT(30), <1>1
  <2>. QED
    BY ZenonT(60), <1>1, <1>4, <1>5, <1>6, <2>1 DEF Slot
<1>. QED
  BY ZenonT(60), <1>7 DEF i

\* The item after a control: what was in scope at the control.
LEMMA AfterSlot ==
    ASSUME NEW t, Whole(t), NEW o \in 1..Len(code[t]), Op(t, o) \in Controls,
           Plain(t, EndOf(t, o) + 1), NEW j \in Nat, NEW e \in Nat
    PROVE  Slot(t, EndOf(t, o) + 1, j, e) <=> Slot(t, o, j, e)
<1> DEFINE i == EndOf(t, o) + 1
<1>1. /\ o \in OpenersOf(code[t]) /\ EndOf(t, o) \in 1..Len(code[t])
      /\ o < EndOf(t, o) /\ EndOf(t, o) < Len(code[t]) /\ Op(t, EndOf(t, o)) = "end" /\ Len(code[t]) \in Nat
  BY ControlFacts, LastFacts
<1>2. o < i /\ ~(i < EndOf(t, o)) /\ i \in Nat
  BY ONLY SMTT(30), <1>1
<1>3. ASSUME NEW p \in 1..Len(code[t]), Op(t, p) \in Controls, p < o
      PROVE  (o < EndOf(t, p) <=> i < EndOf(t, p)) /\ (o < ElseOf(t, p) <=> i < ElseOf(t, p))
  <2>1. /\ ElseOf(t, p) \in 1..Len(code[t]) /\ EndOf(t, p) \in 1..Len(code[t])
        /\ ElseOf(t, p) # EndOf(t, p) => Op(t, ElseOf(t, p)) = "else"
    BY ZenonT(60), <1>3, ControlFacts
  <2>2. (o < EndOf(t, p) <=> EndOf(t, o) < EndOf(t, p)) /\ (o < ElseOf(t, p) <=> EndOf(t, o) < ElseOf(t, p))
    BY ZenonT(60), <1>1, <1>3, Around
  <2>3. EndOf(t, p) # i /\ ElseOf(t, p) # i
    BY ZenonT(60), <1>3, <2>1 DEF Plain
  <2>. QED
    BY ONLY SMTT(30), <1>1, <1>2, <2>1, <2>2, <2>3
<1>4. ASSUME j \in 1..Len(code[t]), j < o PROVE InScope(t, j, i) <=> InScope(t, j, o)
  <2>1. j < i
    BY ONLY SMTT(30), <1>1, <1>4
  <2>2. \A p \in 1..j : p \in 1..Len(code[t]) /\ p < o
    BY ONLY SMTT(30), <1>1, <1>4
  <2> HIDE DEF i
  <2>. QED
    BY ZenonT(60), <1>3, <1>4, <2>1, <2>2 DEF InScope
<1>5. ASSUME j \in 1..Len(code[t]), ~(j < o), Own(t, j, e) PROVE ~InScope(t, j, i) /\ ~InScope(t, j, o)
  <2>1. j # EndOf(t, o)
    <3>1. code[t][EndOf(t, o)].decls = <<>>
      BY ZenonT(60), <1>1 DEF Whole, Pipelines, Op
    <3>. QED
      BY ONLY SMTT(30), <1>5, <3>1 DEF Own
  <2>2. j < EndOf(t, o) => ~InScope(t, j, i)
    <3> SUFFICES ASSUME j < EndOf(t, o), InScope(t, j, i) PROVE FALSE
      BY ZenonT(60)
    <3>1. o \in 1..j
      BY ONLY SMTT(30), <1>1, <1>5
    <3>2. i < EndOf(t, o)
      BY ZenonT(60), <3>1 DEF InScope
    <3>. QED
      BY ZenonT(60), <1>2, <3>2
  <2>3. ~(j < EndOf(t, o)) => ~(j < i)
    BY ONLY SMTT(30), <1>1, <2>1
  <2>. QED
    BY ZenonT(60), <1>5, <2>2, <2>3 DEF InScope
<1> HIDE DEF i
<1>6. Slot(t, i, j, e) <=> Slot(t, o, j, e)
  BY ZenonT(60), <1>4, <1>5 DEF Slot
<1>. QED
  BY ZenonT(60), <1>6 DEF i

-----------------------------------------------------------------------------
(* The stack of variables.                                                 *)

Vals == {"pipe", "elem", "index"} \X Nat
VarSet == [name : P.uses \cup {"$"}, site : Names \X Nat, nth : Nat, act : Nat, val : Vals]

NameAt(t, j, e) == IF j = 0 THEN "$" ELSE code[t][j].decls[e]

\* Of the variables with one name, one is the last.
LastNamed(W) ==
    \A p \in 1..Len(W) : \E k \in 1..Len(W) :
        W[k].name = W[p].name /\ \A j \in 1..Len(W) : W[j].name = W[p].name => j <= k

\* W are variables of template t, of invocation a, in the order of their
\* declarations.
Stack(W, t, a) ==
    /\ W \in Seq(VarSet)
    /\ \A q \in 1..Len(W) : /\ W[q].site[1] = t /\ W[q].act = a
                            /\ W[q].name = NameAt(t, W[q].site[2], W[q].nth)
    /\ \A q, r \in 1..Len(W) : q < r =>
          \/ W[q].site[2] < W[r].site[2]
          \/ W[q].site[2] = W[r].site[2] /\ W[q].nth < W[r].nth
    /\ LastNamed(W)

Has(W, j, e) == \E q \in 1..Len(W) : W[q].site[2] = j /\ W[q].nth = e

\* They are those in scope at i; and those that item i declares, too.
Complete(W, t, i) == \A j, e \in Nat : Has(W, j, e) <=> Slot(t, i, j, e)
Upto(W, t, i) == \A j, e \in Nat : Has(W, j, e) <=> Slot(t, i, j, e) \/ (j = i /\ Own(t, i, e))

\* V is how W begins.
Begins(V, W) == Len(V) <= Len(W) /\ \A q \in 1..Len(V) : W[q] = V[q]

\* The variables after the first m are the l ones that item i of t declares.
Declares(W, m, l, t, i) ==
    /\ m + l <= Len(W)
    /\ \A q \in 1..l : W[m + q].site = <<t, i>> /\ W[m + q].nth = q

\* The scope at the next item of the list has what this one declares.
LEMMA UptoNext ==
    ASSUME NEW t, Whole(t), NEW i \in 1..Len(code[t]), i + 1 \in 1..Len(code[t]), NEW W, Upto(W, t, i),
           Plain(t, i + 1)
    PROVE  Complete(W, t, i + 1)
  BY ZenonT(60), NextSlot DEF Upto, Complete

\* The scope after {{else}} has what the pipeline declares.
LEMMA UptoElse ==
    ASSUME NEW t, Whole(t), NEW o \in 1..Len(code[t]), Op(t, o) \in Controls, ElseOf(t, o) # EndOf(t, o),
           Plain(t, ElseOf(t, o) + 1), NEW W, Upto(W, t, o)
    PROVE  Complete(W, t, ElseOf(t, o) + 1)
  BY ZenonT(60), ElseSlot DEF Upto, Complete

\* The scope after a control is the one before it.
LEMMA CompleteAfter ==
    ASSUME NEW t, Whole(t), NEW o \in 1..Len(code[t]), Op(t, o) \in Controls,
           Plain(t, EndOf(t, o) + 1), NEW W, Complete(W, t, o)
    PROVE  Complete(W, t, EndOf(t, o) + 1)
  BY ZenonT(60), AfterSlot DEF Complete

\* An item that declares nothing.
LEMMA UptoSame ==
    ASSUME NEW t, Whole(t), NEW i \in 1..Len(code[t]), NEW W, Complete(W, t, i), Op(t, i) \in {"use", "else", "end"}
    PROVE  Upto(W, t, i)
<1>1. \A e : ~Own(t, i, e)
  BY DEF Own, Whole, Pipelines, Op
<1>. QED
  BY ZenonT(60), <1>1 DEF Upto, Complete

\* The variables below those that an item declares.
LEMMA HasMore ==
    ASSUME NEW t, NEW i \in Nat, NEW l \in Nat, NEW V \in Seq(VarSet), NEW W \in Seq(VarSet),
           Begins(V, W), Len(W) = Len(V) + l, Declares(W, Len(V), l, t, i), NEW j \in Nat, NEW e \in Nat
    PROVE  Has(W, j, e) <=> Has(V, j, e) \/ (j = i /\ e \in 1..l)
<1>1. Len(V) \in Nat /\ Len(W) = Len(V) + l
  OBVIOUS
<1>2. ASSUME Has(W, j, e) PROVE Has(V, j, e) \/ (j = i /\ e \in 1..l)
  <2>1. PICK q \in 1..Len(W) : W[q].site[2] = j /\ W[q].nth = e
    BY ZenonT(60), <1>2 DEF Has
  <2>2. CASE q <= Len(V)
    <3>1. q \in 1..Len(V) /\ W[q] = V[q]
      BY <1>1, <2>2 DEF Begins
    <3>. QED
      BY ZenonT(60), <2>1, <3>1 DEF Has
  <2>3. CASE ~(q <= Len(V))
    <3>1. q - Len(V) \in 1..l /\ Len(V) + (q - Len(V)) = q
      BY ONLY SMTT(30), <1>1, <2>3
    <3>2. W[q].site = <<t, i>> /\ W[q].nth = q - Len(V)
      BY ZenonT(60), <3>1 DEF Declares
    <3>. QED
      BY ONLY SMTT(30), <2>1, <3>1, <3>2
  <2>. QED
    BY ZenonT(60), <2>2, <2>3
<1>3. ASSUME Has(V, j, e) PROVE Has(W, j, e)
  <2>1. PICK q \in 1..Len(V) : V[q].site[2] = j /\ V[q].nth = e
    BY ZenonT(60), <1>3 DEF Has
  <2>2. q \in 1..Len(W) /\ W[q] = V[q]
    BY <1>1 DEF Begins
  <2>. QED
    BY ZenonT(60), <2>1, <2>2 DEF Has
<1>4. ASSUME j = i, e \in 1..l PROVE Has(W, j, e)
  <2>1. Len(V) + e \in 1..Len(W) /\ W[Len(V) + e].site = <<t, i>> /\ W[Len(V) + e].nth = e
    BY ZenonT(60), <1>1, <1>4, Shifted DEF Declares
  <2>2. W[Len(V) + e].site[2] = j
    BY ONLY SMTT(30), <1>4, <2>1
  <2>. QED
    BY ZenonT(60), <2>1, <2>2 DEF Has
<1>. QED
  BY ZenonT(60), <1>2, <1>3, <1>4

\* An item's pipeline adds what it declares to the scope.
LEMMA CompleteMore ==
    ASSUME NEW t, Whole(t), NEW i \in 1..Len(code[t]), Op(t, i) # "use",
           NEW V \in Seq(VarSet), NEW W \in Seq(VarSet), Begins(V, W), Len(W) = Len(V) + Len(code[t][i].decls),
           Declares(W, Len(V), Len(code[t][i].decls), t, i), Complete(V, t, i)
    PROVE  Upto(W, t, i)
<1>1. code[t][i] \in Nodes
  BY DEF Whole
<1>2. Len(code[t][i].decls) \in Nat /\ DOMAIN code[t][i].decls = 1..Len(code[t][i].decls)
  BY ONLY SMTT(30), <1>1 DEF Nodes
<1>3. i \in Nat
  BY ONLY SMTT(30), LastFacts
<1>4. \A j, e \in Nat : Has(W, j, e) <=> Has(V, j, e) \/ (j = i /\ e \in 1..Len(code[t][i].decls))
  BY ONLY SMTT(30), Begins(V, W), Len(W) = Len(V) + Len(code[t][i].decls),
     Declares(W, Len(V), Len(code[t][i].decls), t, i), <1>2, <1>3, HasMore
<1>. QED
  BY ZenonT(60), <1>2, <1>4 DEF Upto, Complete, Own

\* The fields of a variable.
LEMMA VarTypes ==
    ASSUME NEW W \in Seq(VarSet), NEW q \in 1..Len(W)
    PROVE  /\ W[q] \in VarSet /\ W[q].site \in Names \X Nat /\ W[q].site[2] \in Nat /\ W[q].nth \in Nat
           /\ W[q].site = <<W[q].site[1], W[q].site[2]>>
<1>1. W[q] \in VarSet
  OBVIOUS
<1>2. W[q].site \in Names \X Nat /\ W[q].nth \in Nat
  BY ONLY SMTT(30), <1>1 DEF VarSet
<1>. QED
  BY ONLY SMTT(30), <1>1, <1>2

\* A stack, with the variables an item declares on top.
LEMMA StackMore ==
    ASSUME NEW t, Whole(t), NEW a \in Nat, NEW i \in 1..Len(code[t]), NEW V, Stack(V, t, a), Complete(V, t, i),
           NEW W \in Seq(VarSet), Begins(V, W), Len(W) = Len(V) + Len(code[t][i].decls),
           Declares(W, Len(V), Len(code[t][i].decls), t, i),
           \A q \in 1..Len(code[t][i].decls) : /\ W[Len(V) + q].act = a
                                              /\ W[Len(V) + q].name = code[t][i].decls[q]
    PROVE  Stack(W, t, a)
<1> DEFINE l == Len(code[t][i].decls)
<1>1. l \in Nat /\ i \in Nat /\ i # 0
  <2>1. code[t][i] \in Nodes
    BY DEF Whole
  <2>2. code[t][i].decls \in Seq(P.uses)
    BY ONLY SMTT(30), <2>1 DEF Nodes
  <2>. QED
    BY ZenonT(60), <2>2, LastFacts, SeqTypes, Positions
<1>2. V \in Seq(VarSet) /\ Len(V) \in Nat /\ Len(W) = Len(V) + l
  BY DEF Stack
<1>3. \A q \in 1..Len(V) : q \in 1..Len(W) /\ W[q] = V[q] /\ V[q].site[2] \in Nat /\ V[q].site[2] < i
  <2> SUFFICES ASSUME NEW q \in 1..Len(V)
               PROVE  q \in 1..Len(W) /\ W[q] = V[q] /\ V[q].site[2] \in Nat /\ V[q].site[2] < i
    BY ZenonT(60)
  <2>1. q \in 1..Len(W) /\ W[q] = V[q]
    BY ONLY SMTT(30), Begins(V, W), <1>1, <1>2 DEF Begins
  <2>2. V[q].site[2] \in Nat /\ V[q].nth \in Nat
    BY ZenonT(60), <1>2, VarTypes
  <2>3. Slot(t, i, V[q].site[2], V[q].nth)
    BY ZenonT(60), <2>2 DEF Complete, Has
  <2>. QED
    BY ONLY SMTT(30), <1>1, <2>1, <2>2, <2>3 DEF Slot, InScope
<1>4. \A q \in 1..Len(W) : ~(q <= Len(V)) =>
         /\ q - Len(V) \in 1..l /\ W[q].site = <<t, i>> /\ W[q].site[1] = t /\ W[q].site[2] = i
         /\ W[q].nth = q - Len(V) /\ W[q].act = a /\ W[q].name = code[t][i].decls[q - Len(V)]
  <2> SUFFICES ASSUME NEW q \in 1..Len(W), ~(q <= Len(V))
               PROVE  /\ q - Len(V) \in 1..l /\ W[q].site = <<t, i>> /\ W[q].site[1] = t /\ W[q].site[2] = i
                      /\ W[q].nth = q - Len(V) /\ W[q].act = a /\ W[q].name = code[t][i].decls[q - Len(V)]
    BY ZenonT(60)
  <2>1. q - Len(V) \in 1..l /\ Len(V) + (q - Len(V)) = q
    <3>1. q \in 1..(Len(V) + l)
      BY ZenonT(60), <1>2
    <3>. QED
      BY ZenonT(60), <1>1, <1>2, <3>1, Above
  <2>2. W[q].site = <<t, i>> /\ W[q].nth = q - Len(V) /\ W[q].act = a /\ W[q].name = code[t][i].decls[q - Len(V)]
    BY ZenonT(60), <2>1 DEF Declares
  <2>. QED
    BY ONLY SMTT(30), <2>1, <2>2
<1> HIDE DEF l
<1>5. \A q \in 1..Len(W) : /\ W[q].site[1] = t /\ W[q].act = a
                           /\ W[q].name = NameAt(t, W[q].site[2], W[q].nth)
  <2> SUFFICES ASSUME NEW q \in 1..Len(W)
               PROVE  /\ W[q].site[1] = t /\ W[q].act = a
                      /\ W[q].name = NameAt(t, W[q].site[2], W[q].nth)
    BY ZenonT(60)
  <2>1. CASE q <= Len(V)
    <3>1. q \in 1..Len(V)
      BY ONLY SMTT(30), <1>2, <2>1
    <3>. QED
      BY ZenonT(60), <1>3, <3>1 DEF Stack
  <2>2. CASE ~(q <= Len(V))
    BY ZenonT(60), <1>1, <1>4, <2>2 DEF NameAt
  <2>. QED
    BY ZenonT(60), <2>1, <2>2
<1>6. ASSUME NEW q \in 1..Len(W), NEW r \in 1..Len(W), q < r
      PROVE  \/ W[q].site[2] < W[r].site[2]
             \/ W[q].site[2] = W[r].site[2] /\ W[q].nth < W[r].nth
  <2>1. CASE r <= Len(V)
    <3>1. q \in 1..Len(V) /\ r \in 1..Len(V)
      BY ONLY SMTT(30), <1>2, <1>6, <2>1
    <3>. QED
      <4>1. \/ V[q].site[2] < V[r].site[2]
            \/ V[q].site[2] = V[r].site[2] /\ V[q].nth < V[r].nth
        BY ONLY SMTT(30), Stack(V, t, a), q < r, <3>1 DEF Stack
      <4>. QED
        BY ZenonT(60), <1>3, <3>1, <4>1
  <2>2. CASE ~(r <= Len(V))
    <3>1. W[r].site[2] = i /\ W[r].nth = r - Len(V)
      BY ZenonT(60), <1>4, <2>2
    <3>2. CASE q <= Len(V)
      <4>1. q \in 1..Len(V)
        BY ONLY SMTT(30), <1>2, <3>2
      <4>. QED
        BY ZenonT(60), <1>3, <3>1, <4>1
    <3>3. CASE ~(q <= Len(V))
      <4>1. W[q].site[2] = i /\ W[q].nth = q - Len(V)
        BY ZenonT(60), <1>4, <3>3
      <4>2. q \in Nat /\ r \in Nat /\ Len(V) \in Nat
        BY ONLY SMTT(30), <1>2
      <4>. QED
        BY ONLY SMTT(30), q < r, <3>1, <4>1, <4>2
    <3>. QED
      BY ZenonT(60), <3>2, <3>3
  <2>. QED
    BY ZenonT(60), <2>1, <2>2
<1>7. LastNamed(W)
  <2> SUFFICES ASSUME NEW p \in 1..Len(W)
               PROVE  \E k \in 1..Len(W) :
                         W[k].name = W[p].name /\ \A j \in 1..Len(W) : W[j].name = W[p].name => j <= k
    BY ZenonT(60) DEF LastNamed
  <2>1. l <= 2
    BY ZenonT(60) DEF Whole, Pipelines, l
  <2>2. CASE \A q \in 1..Len(W) : W[q].name = W[p].name => q <= Len(V)
    <3>1. \A q \in 1..Len(W) : q <= Len(V) => q \in 1..Len(V)
      BY ONLY SMTT(30), <1>2
    <3>2. PICK k \in 1..Len(V) : V[k].name = V[p].name /\ \A j \in 1..Len(V) : V[j].name = V[p].name => j <= k
      BY ZenonT(60), <2>2, <3>1 DEF Stack, LastNamed
    <3>. QED
      BY ZenonT(60), <1>3, <2>2, <3>1, <3>2
  <2>3. ASSUME NEW q \in 1..Len(W), W[q].name = W[p].name, ~(q <= Len(V))
        PROVE  \E k \in 1..Len(W) :
                  W[k].name = W[p].name /\ \A j \in 1..Len(W) : W[j].name = W[p].name => j <= k
    <3>1. \A j \in 1..Len(W) : j <= Len(V) + 2 /\ (j # Len(V) + 2 => j <= Len(V) + 1)
      BY ONLY SMTT(30), <1>1, <1>2, <2>1
    <3>2. q = Len(V) + 1 \/ q = Len(V) + 2
      BY ONLY SMTT(30), <1>2, <2>3, <3>1
    <3>3. CASE Len(V) + 2 \in 1..Len(W) /\ W[Len(V) + 2].name = W[p].name
      BY ZenonT(60), <3>1, <3>3
    <3>4. CASE ~(Len(V) + 2 \in 1..Len(W) /\ W[Len(V) + 2].name = W[p].name)
      <4>1. q = Len(V) + 1
        BY ZenonT(60), <2>3, <3>2, <3>4
      <4>2. \A j \in 1..Len(W) : W[j].name = W[p].name => j <= Len(V) + 1
        BY ZenonT(60), <3>1, <3>4
      <4>. QED
        BY ZenonT(60), <2>3, <4>1, <4>2
    <3>. QED
      BY ZenonT(60), <3>3, <3>4
  <2>. QED
    BY ZenonT(60), <2>2, <2>3
<1>. QED
  BY ZenonT(60), <1>5, <1>6, <1>7 DEF Stack

\* evalPipeline.
LEMMA PipelineMore ==
    ASSUME NEW t \in Names, Whole(t), NEW i \in 1..Len(code[t]), at = <<t, i>>, act \in Nat, vars \in Seq(VarSet)
    PROVE  LET W == evalPipeline(at)
               d == code[t][i].decls
           IN /\ W \in Seq(VarSet) /\ Begins(vars, W) /\ Declares(W, Len(vars), Len(d), t, i)
              /\ Len(d) \in Nat /\ Len(W) = Len(vars) + Len(d)
              /\ \A q \in 1..Len(d) : W[Len(vars) + q] = Variable(d[q], <<t, i>>, q, act)
<1> DEFINE d == code[t][i].decls
           D == Declared(at)
<1>1. d \in Seq(P.uses) /\ Len(d) \in Nat /\ DOMAIN d = 1..Len(d) /\ i \in Nat
  <2>1. code[t][i] \in Nodes
    BY DEF Whole
  <2>2. d \in Seq(P.uses)
    BY ZenonT(60), <2>1 DEF Nodes
  <2>. QED
    BY ONLY SMTT(30), <2>2, LastFacts
<1>2. D = [q \in 1..Len(d) |-> Variable(d[q], <<t, i>>, q, act)]
  BY ZenonT(60), <1>1 DEF Declared
<1>3. \A q \in 1..Len(d) : /\ Variable(d[q], <<t, i>>, q, act) \in VarSet
                           /\ Variable(d[q], <<t, i>>, q, act).site = <<t, i>>
                           /\ Variable(d[q], <<t, i>>, q, act).nth = q
  <2> SUFFICES ASSUME NEW q \in 1..Len(d)
               PROVE  /\ Variable(d[q], <<t, i>>, q, act) \in VarSet
                      /\ Variable(d[q], <<t, i>>, q, act).site = <<t, i>>
                      /\ Variable(d[q], <<t, i>>, q, act).nth = q
    BY ZenonT(60)
  <2>1. d[q] \in P.uses /\ q \in Nat /\ <<t, i>> \in Names \X Nat /\ <<"pipe", 0>> \in Vals
    BY ONLY SMTT(30), <1>1 DEF Vals
  <2>. QED
    BY ZenonT(60), <2>1 DEF Variable, VarSet
<1>4. D \in Seq(VarSet) /\ Len(D) = Len(d) /\ \A q \in 1..Len(d) : D[q] = Variable(d[q], <<t, i>>, q, act)
  <2>1. D \in [1..Len(d) -> VarSet]
    BY ZenonT(60), <1>2, <1>3
  <2>2. \A q \in 1..Len(d) : D[q] = Variable(d[q], <<t, i>>, q, act)
    BY ZenonT(60), <1>2
  <2>. QED
    BY ZenonT(60), <1>1, <2>1, <2>2, SeqOf
<1> HIDE DEF d, D
<1>5. /\ vars \o D \in Seq(VarSet) /\ Len(vars \o D) = Len(vars) + Len(D) /\ Len(vars) \in Nat
      /\ \A q \in 1..Len(vars) : (vars \o D)[q] = vars[q]
      /\ \A q \in 1..Len(D) : (vars \o D)[Len(vars) + q] = D[q]
  <2>1. D \in Seq(VarSet)
    BY ZenonT(60), <1>4
  <2>. QED
    BY ONLY SMTT(30), vars \in Seq(VarSet), <2>1, Concatenated
<1>6. evalPipeline(at) = vars \o D
  BY ZenonT(60) DEF evalPipeline, D
<1> DEFINE W == evalPipeline(at)
<1>7. /\ W \in Seq(VarSet) /\ Len(W) = Len(vars) + Len(d)
      /\ \A q \in 1..Len(vars) : W[q] = vars[q]
      /\ \A q \in 1..Len(d) : W[Len(vars) + q] = Variable(d[q], <<t, i>>, q, act)
  BY ZenonT(60), <1>4, <1>5, <1>6
<1> HIDE DEF W
<1>8. Begins(vars, W) /\ Declares(W, Len(vars), Len(d), t, i)
  <2>1. Len(vars) <= Len(W) /\ Len(vars) + Len(d) <= Len(W)
    BY ONLY SMTT(30), <1>1, <1>5, <1>7
  <2>. QED
    BY ZenonT(60), <1>3, <1>7, <2>1 DEF Begins, Declares
<1>. QED
  BY ZenonT(60), <1>1, <1>7, <1>8 DEF W, d

\* evalPipeline keeps the stack in order and complete.
LEMMA PipelineStack ==
    ASSUME NEW t \in Names, Whole(t), NEW i \in 1..Len(code[t]), at = <<t, i>>, act \in Nat,
           Stack(vars, t, act), Complete(vars, t, i), Op(t, i) # "use"
    PROVE  Stack(evalPipeline(at), t, act) /\ Upto(evalPipeline(at), t, i)
<1> DEFINE W == evalPipeline(at)
           d == code[t][i].decls
<1>1. vars \in Seq(VarSet)
  BY ZenonT(60) DEF Stack
<1>2. /\ W \in Seq(VarSet) /\ Begins(vars, W) /\ Declares(W, Len(vars), Len(d), t, i)
      /\ Len(W) = Len(vars) + Len(d)
      /\ \A q \in 1..Len(d) : W[Len(vars) + q] = Variable(d[q], <<t, i>>, q, act)
  BY ZenonT(60), <1>1, PipelineMore
<1>3. \A q \in 1..Len(d) : W[Len(vars) + q].act = act /\ W[Len(vars) + q].name = d[q]
  <2>1. \A q \in 1..Len(d) : /\ Variable(d[q], <<t, i>>, q, act).act = act
                             /\ Variable(d[q], <<t, i>>, q, act).name = d[q]
    BY ZenonT(60) DEF Variable
  <2>. QED
    BY ZenonT(60), <1>2, <2>1
<1> HIDE DEF W
<1>4. Stack(W, t, act)
  BY ZenonT(60), <1>2, <1>3, StackMore
<1>5. Upto(W, t, i)
  BY ZenonT(60), <1>1, <1>2, CompleteMore
<1>. QED
  BY ZenonT(60), <1>4, <1>5 DEF W

\* setVars: the variables of a range get the element and the index.
IsSet(W, V, m, l, iter) ==
    /\ W \in Seq(VarSet) /\ Len(W) = Len(V)
    /\ \A q \in 1..m : W[q] = V[q]
    /\ \A q \in 1..l : W[m + q].val = <<IF q = l THEN "elem" ELSE "index", iter>>
    /\ \A q \in 1..Len(V) : /\ W[q].site = V[q].site /\ W[q].act = V[q].act
                            /\ W[q].name = V[q].name /\ W[q].nth = V[q].nth

\* setVars changes the values of the last n variables, and nothing else.
LEMMA SetVarsMore ==
    ASSUME NEW V \in Seq(VarSet), NEW m \in Nat, NEW l \in 0..2, Len(V) = m + l, NEW iter \in Nat
    PROVE  IsSet(setVars(V, l, iter), V, m, l, iter)
<1> DEFINE W == setVars(V, l, iter)
           X(q) == IF l > 0 /\ q = Len(V) THEN [V[q] EXCEPT !.val = <<"elem", iter>>]
                   ELSE IF l > 1 /\ q = Len(V) - 1 THEN [V[q] EXCEPT !.val = <<"index", iter>>]
                   ELSE V[q]
<1>1. Len(V) \in Nat /\ DOMAIN V = 1..Len(V)
  OBVIOUS
<1>2. W = [q \in 1..Len(V) |-> X(q)]
  BY ZenonT(60), <1>1 DEF setVars
<1>3. ASSUME NEW v \in VarSet, NEW x \in Vals
      PROVE  /\ [v EXCEPT !.val = x] \in VarSet /\ [v EXCEPT !.val = x].val = x
             /\ [v EXCEPT !.val = x].site = v.site /\ [v EXCEPT !.val = x].act = v.act
             /\ [v EXCEPT !.val = x].name = v.name /\ [v EXCEPT !.val = x].nth = v.nth
  BY ZenonT(60) DEF VarSet
<1>4. <<"elem", iter>> \in Vals /\ <<"index", iter>> \in Vals
  BY ZenonT(60) DEF Vals
<1>5. ASSUME NEW q \in 1..Len(V)
      PROVE  /\ X(q) \in VarSet /\ X(q).site = V[q].site /\ X(q).act = V[q].act
             /\ X(q).name = V[q].name /\ X(q).nth = V[q].nth
             /\ l > 0 /\ q = Len(V) => X(q).val = <<"elem", iter>>
             /\ l > 1 /\ q = Len(V) - 1 => X(q).val = <<"index", iter>>
             /\ ~(l > 0 /\ q = Len(V)) /\ ~(l > 1 /\ q = Len(V) - 1) => X(q) = V[q]
  <2>1. V[q] \in VarSet
    OBVIOUS
  <2>2. Len(V) # Len(V) - 1
    BY <1>1
  <2>3. CASE l > 0 /\ q = Len(V)
    BY ZenonT(60), <1>3, <1>4, <2>1, <2>2, <2>3
  <2>4. CASE ~(l > 0 /\ q = Len(V)) /\ l > 1 /\ q = Len(V) - 1
    BY ZenonT(60), <1>3, <1>4, <2>1, <2>4
  <2>5. CASE ~(l > 0 /\ q = Len(V)) /\ ~(l > 1 /\ q = Len(V) - 1)
    BY ZenonT(60), <2>1, <2>5
  <2>. QED
    BY ZenonT(60), <2>3, <2>4, <2>5
<1> HIDE DEF X
<1>6. W \in Seq(VarSet) /\ Len(W) = Len(V) /\ \A q \in 1..Len(V) : W[q] = X(q)
  BY <1>1, <1>2, <1>5
<1> HIDE DEF W
<1>7. \A q \in 1..m : W[q] = V[q]
  <2> SUFFICES ASSUME NEW q \in 1..m PROVE W[q] = V[q]
    BY ZenonT(60)
  <2>1. q \in 1..Len(V) /\ ~(l > 0 /\ q = Len(V)) /\ ~(l > 1 /\ q = Len(V) - 1)
    OBVIOUS
  <2>. QED
    BY ZenonT(60), <1>5, <1>6, <2>1
<1>8. \A q \in 1..l : W[m + q].val = <<IF q = l THEN "elem" ELSE "index", iter>>
  <2> SUFFICES ASSUME NEW q \in 1..l PROVE W[m + q].val = <<IF q = l THEN "elem" ELSE "index", iter>>
    BY ZenonT(60)
  <2>1. m + q \in 1..Len(V)
    OBVIOUS
  <2>2. CASE q = l
    <3>1. l > 0 /\ m + q = Len(V)
      BY <2>2
    <3>. QED
      BY ZenonT(60), <1>5, <1>6, <2>1, <2>2, <3>1
  <2>3. CASE q # l
    <3>1. l > 1 /\ m + q = Len(V) - 1
      BY <2>3
    <3>. QED
      BY ZenonT(60), <1>5, <1>6, <2>1, <2>3, <3>1
  <2>. QED
    BY ZenonT(60), <2>2, <2>3
<1>9. \A q \in 1..Len(V) : /\ W[q].site = V[q].site /\ W[q].act = V[q].act
                           /\ W[q].name = V[q].name /\ W[q].nth = V[q].nth
  BY ZenonT(60), <1>5, <1>6
<1>. QED
  BY ZenonT(60), <1>6, <1>7, <1>8, <1>9 DEF W, IsSet

-----------------------------------------------------------------------------
(* The calls in progress.                                                  *)

\* The value of the e-th of l variables of a range.
RangeVal(f, e, l) == IF f.n = 0 THEN <<"pipe", 0>> ELSE <<IF e = l THEN "elem" ELSE "index", f.iter>>

\* The m-th of the first n calls of s is the last one of the range at j.
LastRange(s, n, m, t, j) ==
    /\ s[m].k = "range" /\ s[m].ret = <<t, j>>
    /\ \A r \in m+1..n : ~(s[r].k = "range" /\ s[r].ret = <<t, j>>)

\* The variables of a range have the value of the iteration it is in.
ValueOk(v, t, s, n) ==
    IF v.site[2] # 0 /\ Op(t, v.site[2]) = "range"
    THEN \E m \in 1..n : /\ LastRange(s, n, m, t, v.site[2])
                         /\ v.val = RangeVal(s[m], v.nth, Len(code[t][v.site[2]].decls))
    ELSE v.val = <<"pipe", 0>>
Valued(W, t, s, n) == \A q \in 1..Len(W) : ValueOk(W[q], t, s, n)

\* A list being walked: the item, the variables, the invocation, and the node the
\* list is of.
Level(a, v, n, u) == [at |-> a, vars |-> v, act |-> n, up |-> u]
LevelOk(c, s, n) ==
    /\ c.at \in Names \X Nat /\ c.at[2] \in 1..Len(code[c.at[1]]) /\ c.act \in Nat
    /\ Stack(c.vars, c.at[1], c.act)
    /\ Valued(c.vars, c.at[1], s, n)
    /\ Innermost(c.at[1], c.at[2], c.up)

FrameSet ==
    [k : {"if", "range", "block", "call"}, ret : Names \X Nat, vars : Seq(VarSet), fillers : {{}},
     filling : {FALSE}, mark : Nat, inner : Nat, iter : Nat, n : Nat]

\* Call f, made from the list b, is walking the list c.  An invocation has its own
\* variables and b has kept its; a node goes on with those of b.
FrameOk(f, b, c) ==
    /\ f \in FrameSet /\ f.ret = b.at
    /\ IF f.k = "call"
       THEN /\ Op(b.at[1], b.at[2]) = "template" /\ c.act = b.act + 1 /\ c.up = 0
            /\ f.vars = b.vars /\ Upto(b.vars, b.at[1], b.at[2])
       ELSE /\ Op(b.at[1], b.at[2]) = f.k /\ c.at[1] = b.at[1] /\ c.act = b.act /\ c.up = b.at[2]
            /\ f.mark = Len(b.vars) /\ Begins(b.vars, c.vars) /\ Complete(b.vars, b.at[1], b.at[2])
            /\ f.k = "range" =>
                  /\ f.inner = f.mark + Len(code[b.at[1]][b.at[2]].decls)
                  /\ Declares(c.vars, f.mark, Len(code[b.at[1]][b.at[2]].decls), b.at[1], b.at[2])

\* g has the lists being walked by the calls s, the last is c.
Chain(g, s, c) ==
    /\ s \in Seq(FrameSet)
    /\ g[Len(s)] = c /\ g[0].up = 0
    /\ \A n \in 0..Len(s) : LevelOk(g[n], s, n)
    /\ \A n \in 1..Len(s) : FrameOk(s[n], g[n - 1], g[n])

\* The value of a variable depends on the calls so far only.
LEMMA ValueOfFirst ==
    ASSUME NEW n \in Nat, NEW s, NEW r, \A m \in 1..n : s[m] = r[m], NEW v, NEW t, ValueOk(v, t, s, n)
    PROVE  ValueOk(v, t, r, n)
<1>1. ASSUME NEW m \in 1..n, NEW j, LastRange(s, n, m, t, j) PROVE LastRange(r, n, m, t, j)
  <2>1. \A x \in m+1..n : x \in 1..n
    OBVIOUS
  <2>. QED
    BY ZenonT(60), <1>1, <2>1 DEF LastRange
<1>. QED
  BY ZenonT(60), <1>1 DEF ValueOk

\* So does what is known of a list.
LEMMA LevelOfFirst ==
    ASSUME NEW n \in Nat, NEW s, NEW r, \A m \in 1..n : s[m] = r[m], NEW c, LevelOk(c, s, n)
    PROVE  LevelOk(c, r, n)
  BY ZenonT(60), ValueOfFirst DEF LevelOk, Valued

\* A call is made from the last list.
LEMMA ChainPush ==
    ASSUME NEW g, NEW s, NEW b, Chain(g, s, b), NEW f, NEW c, FrameOk(f, b, c),
           LevelOk(c, Append(s, f), Len(s) + 1)
    PROVE  \E h : Chain(h, Append(s, f), c)
<1> DEFINE r == Append(s, f)
           h == [n \in 0..Len(r) |-> IF n = Len(r) THEN c ELSE g[n]]
<1>1. s \in Seq(FrameSet) /\ f \in FrameSet
  BY ZenonT(60) DEF Chain, FrameOk
<1>2. r \in Seq(FrameSet) /\ Len(r) = Len(s) + 1 /\ Len(s) \in Nat
      /\ r[Len(s) + 1] = f /\ \A m \in 1..Len(s) : r[m] = s[m]
  BY ONLY SMTT(30), <1>1
<1> HIDE DEF r
<1>3. h[Len(r)] = c /\ \A n \in 0..Len(s) : h[n] = g[n]
  BY ONLY SMTT(30), <1>2
<1> HIDE DEF h
<1>4. h[0].up = 0
  BY <1>2, <1>3 DEF Chain
<1>5. ASSUME NEW n \in 0..Len(r) PROVE LevelOk(h[n], r, n)
  <2>1. CASE n = Len(r)
    BY ZenonT(60), <1>2, <1>3, <2>1 DEF r
  <2>2. CASE n # Len(r)
    <3>1. n \in 0..Len(s) /\ n \in Nat /\ \A m \in 1..n : s[m] = r[m]
      BY ONLY SMTT(30), <1>2, <2>2
    <3>2. LevelOk(g[n], s, n)
      BY ZenonT(60), <3>1 DEF Chain
    <3>. QED
      BY ZenonT(60), <1>3, <3>1, <3>2, LevelOfFirst
  <2>. QED
    BY ZenonT(60), <2>1, <2>2
<1>6. ASSUME NEW n \in 1..Len(r) PROVE FrameOk(r[n], h[n - 1], h[n])
  <2>1. CASE n = Len(r)
    <3>1. n - 1 = Len(s) /\ h[n] = c /\ h[n - 1] = b /\ r[n] = f
      BY <1>2, <1>3, <2>1 DEF Chain
    <3>. QED
      BY ZenonT(60), <3>1
  <2>2. CASE n # Len(r)
    <3>1. n \in 1..Len(s) /\ n - 1 \in 0..Len(s) /\ n \in 0..Len(s)
      BY ONLY SMTT(30), <1>2, <2>2
    <3>. QED
      BY ZenonT(60), <1>2, <1>3, <3>1 DEF Chain
  <2>. QED
    BY ZenonT(60), <2>1, <2>2
<1>. QED
  BY ZenonT(60), <1>2, <1>3, <1>4, <1>5, <1>6 DEF Chain, r

\* The last call returns to the list it was made from.
LEMMA ChainPop ==
    ASSUME NEW g, NEW s, NEW c, Chain(g, s, c), s # <<>>
    PROVE  LET b == g[Len(s) - 1]
           IN /\ Chain(g, Front(s), b) /\ FrameOk(Last(s), b, c)
              /\ Len(s) \in Nat \ {0} /\ Len(Front(s)) = Len(s) - 1 /\ Front(s) \in Seq(FrameSet)
              /\ Last(s) \in FrameSet /\ \A m \in 1..(Len(s) - 1) : Front(s)[m] = s[m]
<1> DEFINE r == Front(s)
           N == Len(s)
<1>1. s \in Seq(FrameSet)
  BY ZenonT(60) DEF Chain
<1>2. N \in Nat \ {0} /\ r \in Seq(FrameSet) /\ Len(r) = N - 1 /\ \A i \in 1..(N - 1) : r[i] = s[i]
  BY ZenonT(60), <1>1, FrontOf
<1>3. N \in 1..N /\ N - 1 \in 0..N /\ Last(s) = s[N] /\ s[N] \in FrameSet
  BY ONLY SMTT(30), <1>1, <1>2 DEF Last
<1> HIDE DEF r, N
<1>4. FrameOk(Last(s), g[N - 1], c)
  BY ZenonT(60), <1>3 DEF Chain, N
<1>5. ASSUME NEW n \in 0..(N - 1) PROVE LevelOk(g[n], r, n)
  <2>1. n \in 0..N /\ n \in Nat /\ \A m \in 1..n : s[m] = r[m]
    BY ONLY SMTT(30), <1>2
  <2>2. LevelOk(g[n], s, n)
    BY ZenonT(60), <2>1 DEF Chain, N
  <2>. QED
    BY ZenonT(60), <2>1, <2>2, LevelOfFirst
<1>6. ASSUME NEW n \in 1..(N - 1) PROVE FrameOk(r[n], g[n - 1], g[n])
  <2>1. n \in 1..N /\ r[n] = s[n]
    BY ONLY SMTT(30), <1>2
  <2>. QED
    BY ZenonT(60), <2>1 DEF Chain, N
<1>7. Chain(g, r, g[N - 1])
  BY ZenonT(60), <1>2, <1>5, <1>6 DEF Chain
<1>. QED
  BY ZenonT(60), <1>2, <1>3, <1>4, <1>7 DEF r, N

\* An item declares at most two variables.
LEMMA DeclsTypes ==
    ASSUME NEW t, Whole(t), NEW i \in 1..Len(code[t])
    PROVE  /\ code[t][i].decls \in Seq(P.uses) /\ Len(code[t][i].decls) \in 0..2
           /\ DOMAIN code[t][i].decls = 1..Len(code[t][i].decls) /\ Op(t, i) \in P.ops
<1>1. code[t][i] \in Nodes /\ Len(code[t][i].decls) <= 2
  BY DEF Whole, Pipelines
<1>2. code[t][i].decls \in Seq(P.uses) /\ Op(t, i) \in P.ops
  BY ZenonT(60), <1>1 DEF Nodes, Op
<1>3. Len(code[t][i].decls) \in Nat /\ DOMAIN code[t][i].decls = 1..Len(code[t][i].decls)
  BY ZenonT(60), <1>2, SeqTypes
<1>. QED
  BY ZenonT(60), <1>1, <1>2, <1>3, UpToTwo

\* The walk goes on in the same list, with the same variables and maybe more.
LEMMA ChainSwap ==
    ASSUME \A t \in Names : Whole(t),
           NEW g, NEW s, NEW c, Chain(g, s, c), NEW d, LevelOk(d, s, Len(s)),
           d.at[1] = c.at[1], d.act = c.act, d.up = c.up, Begins(c.vars, d.vars)
    PROVE  \E h : Chain(h, s, d)
<1>1. s \in Seq(FrameSet) /\ c.vars \in Seq(VarSet) /\ d.vars \in Seq(VarSet)
  <2>1. s \in Seq(FrameSet) /\ Len(s) \in 0..Len(s)
    BY ONLY SMTT(30), Chain(g, s, c) DEF Chain
  <2>. QED
    BY ZenonT(60), <2>1 DEF Chain, LevelOk, Stack
<1>2. CASE s = <<>>
  <2>1. Len(s) = 0 /\ 0..Len(s) = {0} /\ 1..Len(s) = {}
    BY ONLY SMTT(30), <1>2
  <2>2. Chain([n \in {0} |-> d], s, d)
    BY ZenonT(60), <1>1, <2>1 DEF Chain
  <2>. QED
    BY ZenonT(60), <2>2
<1>3. CASE s # <<>>
  <2> DEFINE b == g[Len(s) - 1]
             f == Last(s)
  <2>1. /\ Chain(g, Front(s), b) /\ FrameOk(f, b, c)
        /\ Len(s) \in Nat \ {0} /\ Len(Front(s)) = Len(s) - 1 /\ f \in FrameSet
    BY ZenonT(60), <1>3, ChainPop
  <2>2. Append(Front(s), f) = s /\ Len(Front(s)) + 1 = Len(s)
    <3>1. f = s[Len(s)]
      BY ZenonT(60) DEF Last
    <3>2. Front(s) \in Seq(FrameSet) /\ \A i \in 1..(Len(s) - 1) : Front(s)[i] = s[i]
      BY ZenonT(60), <1>1, <1>3, FrontOf
    <3> HIDE DEF f
    <3>. QED
      BY ONLY SMTT(30), <1>1, <2>1, <3>1, <3>2
  <2> HIDE DEF b, f
  <2>3. LevelOk(b, Front(s), Len(Front(s)))
    <3>1. Len(Front(s)) \in 0..Len(Front(s))
      BY ONLY SMTT(30), <2>1
    <3>. QED
      BY ZenonT(60), <2>1, <3>1 DEF Chain
  <2>4. b.vars \in Seq(VarSet)
    BY ZenonT(60), <2>3 DEF LevelOk, Stack
  <2>5. Begins(b.vars, c.vars) => Begins(b.vars, d.vars)
    BY ONLY SMTT(30), Begins(c.vars, d.vars), <1>1, <2>4 DEF Begins
  <2>6. ASSUME NEW l \in Nat, NEW t, NEW i, Declares(c.vars, f.mark, l, t, i)
        PROVE  Declares(d.vars, f.mark, l, t, i)
    <3>1. f.mark \in Nat
      BY ZenonT(60), <2>1 DEF FrameSet
    <3>2. \A q \in 1..l : f.mark + q \in 1..Len(c.vars)
      BY ONLY SMTT(30), <1>1, <2>6, <3>1 DEF Declares
    <3>3. f.mark + l <= Len(d.vars)
      BY ONLY SMTT(30), Begins(c.vars, d.vars), <1>1, <2>6, <3>1 DEF Declares, Begins
    <3>. QED
      BY ZenonT(60), <2>6, <3>2, <3>3 DEF Declares, Begins
  <2>7. Len(code[b.at[1]][b.at[2]].decls) \in Nat
    <3>1. b.at[1] \in Names /\ b.at[2] \in 1..Len(code[b.at[1]])
      BY ZenonT(60), <2>3 DEF LevelOk
    <3>2. Len(code[b.at[1]][b.at[2]].decls) \in 0..2
      BY ZenonT(60), <3>1, DeclsTypes
    <3>. QED
      BY ZenonT(60), <3>2, UpToTwo
  <2>8. FrameOk(f, b, d)
    BY ZenonT(60), <2>1, <2>5, <2>6, <2>7 DEF FrameOk
  <2>9. LevelOk(d, Append(Front(s), f), Len(Front(s)) + 1)
    BY ZenonT(60), <2>2
  <2>10. \E h : Chain(h, Append(Front(s), f), d)
    BY ZenonT(60), <2>1, <2>8, <2>9, ChainPush
  <2>. QED
    BY ZenonT(60), <2>2, <2>10
<1>. QED
  BY ZenonT(60), <1>2, <1>3

\* A call that is not of the range of a variable leaves its value.
LEMMA ValueGrows ==
    ASSUME NEW s \in Seq(FrameSet), NEW f \in FrameSet, NEW v, NEW t, ValueOk(v, t, s, Len(s)),
           ~(f.k = "range" /\ f.ret = <<t, v.site[2]>>)
    PROVE  ValueOk(v, t, Append(s, f), Len(s) + 1)
<1> DEFINE r == Append(s, f)
           N == Len(s)
<1>1. N \in Nat /\ r[N + 1] = f /\ \A m \in 1..N : r[m] = s[m]
  OBVIOUS
<1> HIDE DEF r, N
<1>2. ASSUME NEW m \in 1..N, LastRange(s, N, m, t, v.site[2])
      PROVE  m \in 1..(N + 1) /\ r[m] = s[m] /\ LastRange(r, N + 1, m, t, v.site[2])
  <2>1. m \in 1..(N + 1) /\ r[m] = s[m]
    BY ONLY SMTT(30), <1>1
  <2>2. ASSUME NEW x \in m+1..(N + 1) PROVE ~(r[x].k = "range" /\ r[x].ret = <<t, v.site[2]>>)
    <3>1. CASE x = N + 1
      BY ZenonT(60), <1>1, <3>1
    <3>2. CASE x # N + 1
      <4>1. x \in m+1..N /\ r[x] = s[x]
        BY ONLY SMTT(30), <1>1, <3>2
      <4>. QED
        BY ZenonT(60), <1>2, <4>1 DEF LastRange
    <3>. QED
      BY ZenonT(60), <3>1, <3>2
  <2>. QED
    BY ZenonT(60), <1>2, <2>1, <2>2 DEF LastRange
<1>3. ValueOk(v, t, s, N)
  BY ZenonT(60) DEF N
<1>4. ValueOk(v, t, r, N + 1)
  BY ZenonT(60), <1>2, <1>3 DEF ValueOk
<1>. QED
  BY ZenonT(60), <1>4 DEF r, N

\* So does the return of a call that is not of a range.
LEMMA ValueShrinks ==
    ASSUME NEW s \in Seq(FrameSet), s # <<>>, NEW v, NEW t, ValueOk(v, t, s, Len(s)), Last(s).k # "range"
    PROVE  ValueOk(v, t, Front(s), Len(s) - 1)
<1> DEFINE r == Front(s)
           N == Len(s)
<1>1. N \in Nat \ {0} /\ \A m \in 1..(N - 1) : r[m] = s[m]
  BY ZenonT(60), FrontOf
<1>2. Last(s) = s[N]
  BY ZenonT(60) DEF Last
<1>3. ValueOk(v, t, s, N)
  BY ZenonT(60)
<1> HIDE DEF r, N
<1>4. ASSUME NEW m \in 1..N, LastRange(s, N, m, t, v.site[2])
      PROVE  m \in 1..(N - 1) /\ r[m] = s[m] /\ LastRange(r, N - 1, m, t, v.site[2])
  <2>1. m # N
    BY ZenonT(60), <1>2, <1>4 DEF LastRange
  <2>2. m \in 1..(N - 1) /\ r[m] = s[m]
    BY ONLY SMTT(30), <1>1, <2>1
  <2>3. \A x \in m+1..(N - 1) : x \in m+1..N /\ r[x] = s[x]
    BY ONLY SMTT(30), <1>1
  <2>. QED
    BY ZenonT(60), <1>4, <2>2, <2>3 DEF LastRange
<1>5. ValueOk(v, t, r, N - 1)
  BY ZenonT(60), <1>3, <1>4 DEF ValueOk
<1>. QED
  BY ZenonT(60), <1>5 DEF r, N

\* A control or a block is entered, or a range goes on: the variables are those of
\* the list it is in and those its pipeline declares.
Enters(f, b, t, o, W) ==
    LET l == Len(code[t][o].decls) IN
    /\ f \in FrameSet /\ f.ret = b.at /\ b.at = <<t, o>> /\ f.k \in {"if", "range", "block"} /\ Op(t, o) = f.k
    /\ f.mark = Len(b.vars) /\ Complete(b.vars, t, o)
    /\ f.k = "range" => f.inner = f.mark + l
    /\ W \in Seq(VarSet) /\ Begins(b.vars, W) /\ Len(W) = Len(b.vars) + l
    /\ Declares(W, Len(b.vars), l, t, o)
    /\ \A q \in 1..l :
          /\ W[Len(b.vars) + q].act = b.act
          /\ W[Len(b.vars) + q].name = code[t][o].decls[q]
          /\ W[Len(b.vars) + q].val = IF f.k = "range" THEN RangeVal(f, q, l) ELSE <<"pipe", 0>>

\* The list of the node is the last, with those variables.
LEMMA Entered ==
    ASSUME NEW g, NEW r, NEW b, Chain(g, r, b), NEW t, Whole(t), NEW o, NEW f, NEW W, Enters(f, b, t, o, W),
           NEW i \in 1..Len(code[t]), Innermost(t, i, o)
    PROVE  Upto(W, t, o) /\ \E h : Chain(h, Append(r, f), Level(<<t, i>>, W, b.act, o))
<1> DEFINE l == Len(code[t][o].decls)
<1>0. /\ f \in FrameSet /\ f.ret = b.at /\ b.at = <<t, o>> /\ f.k \in {"if", "range", "block"} /\ Op(t, o) = f.k
      /\ f.mark = Len(b.vars) /\ Complete(b.vars, t, o)
      /\ f.k = "range" => f.inner = f.mark + l
      /\ W \in Seq(VarSet) /\ Begins(b.vars, W) /\ Len(W) = Len(b.vars) + l
      /\ Declares(W, Len(b.vars), l, t, o)
      /\ \A q \in 1..l :
            /\ W[Len(b.vars) + q].act = b.act
            /\ W[Len(b.vars) + q].name = code[t][o].decls[q]
            /\ W[Len(b.vars) + q].val = IF f.k = "range" THEN RangeVal(f, q, l) ELSE <<"pipe", 0>>
  BY ZenonT(60) DEF Enters
<1>length. l = Len(code[t][o].decls)
  BY ZenonT(60)
<1> HIDE DEF l
<1> USE <1>0, <1>length
<1> DEFINE c == Level(<<t, i>>, W, b.act, o)
           V == b.vars
<1>1. r \in Seq(FrameSet) /\ Len(r) \in Nat /\ LevelOk(b, r, Len(r))
  <2>1. r \in Seq(FrameSet) /\ Len(r) \in 0..Len(r)
    BY ONLY SMTT(30), Chain(g, r, b) DEF Chain
  <2>. QED
    BY ONLY SMTT(30), Chain(g, r, b), <2>1 DEF Chain
<1>2. b.at[1] = t /\ b.at[2] = o
  <2>1. b.at = <<t, o>>
    BY ZenonT(60)
  <2>. QED
    BY ONLY SMTT(30), <2>1
<1>3. /\ t \in Names /\ o \in 1..Len(code[t]) /\ b.act \in Nat /\ Stack(V, t, b.act) /\ Valued(V, t, r, Len(r))
      /\ V \in Seq(VarSet) /\ o \in Nat /\ o # 0 /\ i \in Nat
  <2>1. /\ b.at \in Names \X Nat /\ b.at[2] \in 1..Len(code[b.at[1]]) /\ b.act \in Nat
        /\ Stack(V, b.at[1], b.act) /\ Valued(V, b.at[1], r, Len(r))
    BY ZenonT(60), <1>1 DEF LevelOk
  <2>2. t \in Names /\ o \in 1..Len(code[t]) /\ Stack(V, t, b.act) /\ Valued(V, t, r, Len(r))
    BY ZenonT(60), <1>2, <2>1
  <2>3. V \in Seq(VarSet)
    BY ZenonT(60), <2>2 DEF Stack
  <2>. QED
    BY ZenonT(60), <2>1, <2>2, <2>3, LastFacts, Positions
<1>4. l \in Nat /\ Len(V) \in Nat
  BY ZenonT(60), <1>3, DeclsTypes, UpToTwo, SeqTypes
<1>5. Stack(W, t, b.act)
  BY ZenonT(60), <1>3, StackMore
<1>6. Op(t, o) # "use"
  BY ZenonT(60)
<1>7. Upto(W, t, o)
  BY ZenonT(60), <1>3, <1>6, CompleteMore
<1>8. Valued(W, t, Append(r, f), Len(r) + 1)
  <2> SUFFICES ASSUME NEW q \in 1..Len(W) PROVE ValueOk(W[q], t, Append(r, f), Len(r) + 1)
    BY ZenonT(60) DEF Valued
  <2>1. CASE q <= Len(V)
    <3>1. q \in 1..Len(V) /\ W[q] = V[q]
      BY ZenonT(60), <1>4, <2>1, Above DEF Begins
    <3>2. V[q].site[2] \in Nat /\ V[q].nth \in Nat
      BY ZenonT(60), <1>3, <3>1, VarTypes
    <3>3. Slot(t, o, V[q].site[2], V[q].nth)
      BY ZenonT(60), <3>1, <3>2 DEF Complete, Has
    <3>4. V[q].site[2] # o
      <4>1. V[q].site[2] = 0 \/ V[q].site[2] < o
        BY ZenonT(60), <3>3 DEF Slot, InScope
      <4>2. o \in Nat /\ o # 0
        BY ZenonT(60), <1>3
      <4>. QED
        BY ONLY SMTT(30), <3>2, <4>1, <4>2
    <3>5. ~(f.k = "range" /\ f.ret = <<t, V[q].site[2]>>)
      <4>1. f.ret = <<t, o>>
        BY ZenonT(60)
      <4>. QED
        BY ONLY SMTT(30), <3>4, <4>1
    <3>6. ValueOk(V[q], t, r, Len(r))
      BY ZenonT(60), <1>3, <3>1 DEF Valued
    <3>. QED
      BY ZenonT(60), <1>1, <3>1, <3>5, <3>6, ValueGrows
  <2>2. CASE ~(q <= Len(V))
    <3>1. q - Len(V) \in 1..l /\ Len(V) + (q - Len(V)) = q
      BY ZenonT(60), <1>4, <2>2, Above
    <3>2. W[q].site = <<t, o>> /\ W[q].nth = q - Len(V)
      BY ZenonT(60), <3>1 DEF Declares
    <3>3. W[q].val = IF f.k = "range" THEN RangeVal(f, W[q].nth, l) ELSE <<"pipe", 0>>
      BY ZenonT(60), <3>1, <3>2
    <3>4. W[q].site[2] = o
      BY ONLY SMTT(30), <3>2
    <3>5. CASE f.k # "range"
      BY ZenonT(60), <1>6, <3>3, <3>4, <3>5 DEF ValueOk
    <3>6. CASE f.k = "range"
      <4>1. Append(r, f)[Len(r) + 1] = f /\ Len(r) + 1 \in 1..(Len(r) + 1)
            /\ (Len(r) + 1)+1..(Len(r) + 1) = {}
        BY ONLY SMTT(30), <1>1
      <4>2. LastRange(Append(r, f), Len(r) + 1, Len(r) + 1, t, o)
        BY ZenonT(60), <3>6, <4>1 DEF LastRange
      <4>3. W[q].val = RangeVal(Append(r, f)[Len(r) + 1], W[q].nth, Len(code[t][W[q].site[2]].decls))
        BY ZenonT(60), <3>3, <3>4, <3>6, <4>1
      <4>4. W[q].site[2] # 0 /\ Op(t, W[q].site[2]) = "range"
        BY ZenonT(60), <1>3, <3>4, <3>6
      <4>5. LastRange(Append(r, f), Len(r) + 1, Len(r) + 1, t, W[q].site[2])
        BY ZenonT(60), <3>4, <4>2
      <4>. QED
        BY ZenonT(60), <4>1, <4>3, <4>4, <4>5 DEF ValueOk
    <3>. QED
      BY ZenonT(60), <3>5, <3>6
  <2>. QED
    BY ZenonT(60), <2>1, <2>2
<1>9. c.at = <<t, i>> /\ c.at[1] = t /\ c.at[2] = i /\ c.vars = W /\ c.act = b.act /\ c.up = o
  BY ZenonT(60) DEF Level
<1>10. <<t, i>> \in Names \X Nat
  BY ZenonT(60), <1>3
<1> HIDE DEF c
<1>11. LevelOk(c, Append(r, f), Len(r) + 1)
  BY ZenonT(60), <1>3, <1>5, <1>8, <1>9, <1>10 DEF LevelOk
<1>12. f.k # "call"
  BY ZenonT(60)
<1>13. FrameOk(f, b, c)
  BY ZenonT(60), <1>2, <1>9, <1>12 DEF FrameOk
<1>14. \E h : Chain(h, Append(r, f), c)
  BY ZenonT(60), <1>11, <1>13, ChainPush
<1>. QED
  BY ZenonT(60), <1>7, <1>14 DEF c

-----------------------------------------------------------------------------
(* The walk: the calls, the variables and where it is, at every step.      *)

Runs(s, a, v, n) ==
    /\ \E u, g : Chain(g, s, Level(a, v, n, u))
    /\ Plain(a[1], a[2]) => Complete(v, a[1], a[2])

\* What is known of the last list.
LEMMA TopFacts ==
    ASSUME \A t \in Names : Whole(t), NEW g, NEW s, NEW c, Chain(g, s, c)
    PROVE  /\ s \in Seq(FrameSet) /\ Len(s) \in Nat
           /\ \E t \in Names : \E i \in 1..Len(code[t]) :
                 /\ c.at = <<t, i>> /\ c.at[1] = t /\ c.at[2] = i /\ Whole(t) /\ i \in Nat
                 /\ c.act \in Nat /\ c.vars \in Seq(VarSet)
                 /\ Stack(c.vars, t, c.act) /\ Valued(c.vars, t, s, Len(s)) /\ Innermost(t, i, c.up)
<1>1. s \in Seq(FrameSet) /\ g[Len(s)] = c
  BY ZenonT(60) DEF Chain
<1>2. Len(s) \in Nat /\ Len(s) \in 0..Len(s)
  BY ONLY SMTT(30), <1>1
<1>3. LevelOk(c, s, Len(s))
  BY ZenonT(60), <1>1, <1>2 DEF Chain
<1>4. /\ c.at \in Names \X Nat /\ c.at[2] \in 1..Len(code[c.at[1]]) /\ c.act \in Nat
      /\ Stack(c.vars, c.at[1], c.act) /\ Valued(c.vars, c.at[1], s, Len(s))
      /\ Innermost(c.at[1], c.at[2], c.up)
  BY ZenonT(60), <1>3 DEF LevelOk
<1>5. c.at[1] \in Names /\ c.at[2] \in Nat /\ c.at = <<c.at[1], c.at[2]>>
  BY ONLY SMTT(30), <1>4
<1>6. c.vars \in Seq(VarSet)
  BY ZenonT(60), <1>4 DEF Stack
<1>. QED
  BY ZenonT(60), <1>1, <1>2, <1>4, <1>5, <1>6

\* The walk goes on at k, in the same list.
LEMMA Moved ==
    ASSUME \A t \in Names : Whole(t), NEW g, NEW s, NEW c, Chain(g, s, c),
           NEW t \in Names, c.at[1] = t, NEW k \in 1..Len(code[t]), Innermost(t, k, c.up),
           NEW W, Begins(c.vars, W), Stack(W, t, c.act), Valued(W, t, s, Len(s))
    PROVE  \E h : Chain(h, s, Level(<<t, k>>, W, c.act, c.up))
<1> DEFINE d == Level(<<t, k>>, W, c.act, c.up)
<1>1. d.at = <<t, k>> /\ d.vars = W /\ d.act = c.act /\ d.up = c.up
  BY ZenonT(60) DEF Level
<1> HIDE DEF d
<1>2. c.act \in Nat
  BY ZenonT(60), TopFacts
<1>3. k \in Nat
  BY ONLY SMTT(30), LastFacts
<1>4. d.at[1] = t /\ d.at[2] = k /\ d.at \in Names \X Nat
  BY ONLY SMTT(30), <1>1, <1>3
<1>5. LevelOk(d, s, Len(s))
  BY ZenonT(60), <1>1, <1>2, <1>4 DEF LevelOk
<1>6. \E h : Chain(h, s, d)
  BY ZenonT(60), <1>1, <1>4, <1>5, ChainSwap
<1>. QED
  BY ZenonT(60), <1>6 DEF d

\* The variables of the same length, or with none left out.
LEMMA BeginsSame == ASSUME NEW W \in Seq(VarSet) PROVE Begins(W, W)
  BY DEF Begins

\* A pipeline that is not of a range.
LEMMA PipelineValued ==
    ASSUME NEW t \in Names, Whole(t), NEW i \in 1..Len(code[t]), at = <<t, i>>, act \in Nat, vars \in Seq(VarSet),
           NEW s, NEW n, Valued(vars, t, s, n), Op(t, i) # "range"
    PROVE  Valued(evalPipeline(at), t, s, n)
<1> DEFINE W == evalPipeline(at)
           d == code[t][i].decls
<1>1. /\ W \in Seq(VarSet) /\ Begins(vars, W) /\ Len(d) \in Nat /\ Len(W) = Len(vars) + Len(d)
      /\ \A q \in 1..Len(d) : W[Len(vars) + q] = Variable(d[q], <<t, i>>, q, act)
  BY ZenonT(60), PipelineMore
<1> HIDE DEF W, d
<1>2. Len(vars) \in Nat
  OBVIOUS
<1> SUFFICES ASSUME NEW q \in 1..Len(W) PROVE ValueOk(W[q], t, s, n)
  BY ZenonT(60) DEF Valued, W
<1>3. q \in 1..(Len(vars) + Len(d))
  BY ZenonT(60), <1>1
<1>4. CASE q <= Len(vars)
  <2>1. q \in 1..Len(vars) /\ W[q] = vars[q]
    BY ZenonT(60), <1>1, <1>2, <1>3, <1>4, Above DEF Begins
  <2>. QED
    BY ZenonT(60), <2>1 DEF Valued
<1>5. CASE ~(q <= Len(vars))
  <2>1. q - Len(vars) \in 1..Len(d) /\ Len(vars) + (q - Len(vars)) = q
    BY ZenonT(60), <1>1, <1>2, <1>3, <1>5, Above
  <2>2. W[q] = Variable(d[q - Len(vars)], <<t, i>>, q - Len(vars), act)
    BY ZenonT(60), <1>1, <2>1
  <2>3. W[q].site = <<t, i>> /\ W[q].val = <<"pipe", 0>>
    BY ONLY SMTT(30), <2>2 DEF Variable
  <2>4. W[q].site[2] = i
    BY ONLY SMTT(30), <2>3
  <2>. QED
    BY ZenonT(60), <2>3, <2>4 DEF ValueOk
<1>. QED
  BY ZenonT(60), <1>4, <1>5

\* An item that is neither {{else}} nor an {{end}}.
LEMMA PlainItem ==
    ASSUME NEW t, Whole(t), NEW i \in 1..Len(code[t]), Op(t, i) \notin {"else", "end"}
    PROVE  Plain(t, i)
<1>1. \A o \in 1..Len(code[t]) : Op(t, o) \in Controls => Op(t, EndOf(t, o)) = "end"
  BY ZenonT(60), ControlFacts
<1>. QED
  BY ZenonT(60), <1>1 DEF Plain

\* The walk is at item i of template t, in the list of node u.
Now(t, i, u) ==
    /\ t \in Names /\ i \in 1..Len(code[t]) /\ i \in Nat /\ Whole(t)
    /\ at = <<t, i>> /\ at[1] = t /\ at[2] = i /\ Item = code[t][i] /\ Item.op = Op(t, i)
    /\ Stack(vars, t, act) /\ Valued(vars, t, ks, Len(ks)) /\ Innermost(t, i, u)
    /\ ks \in Seq(FrameSet) /\ Len(ks) \in Nat /\ act \in Nat /\ vars \in Seq(VarSet) /\ Len(vars) \in Nat

\* The walk is always somewhere.
LEMMA NowFacts ==
    ASSUME \A t \in Names : Whole(t), NEW g, NEW u, Chain(g, ks, Level(at, vars, act, u))
    PROVE  \E t, i : Now(t, i, u)
<1> DEFINE c == Level(at, vars, act, u)
<1>1. c.at = at /\ c.vars = vars /\ c.act = act /\ c.up = u
  BY ZenonT(60) DEF Level
<1> HIDE DEF c
<1>2. Chain(g, ks, c)
  BY ZenonT(60) DEF c
<1>3. /\ ks \in Seq(FrameSet) /\ Len(ks) \in Nat
      /\ \E t \in Names : \E i \in 1..Len(code[t]) :
            /\ c.at = <<t, i>> /\ c.at[1] = t /\ c.at[2] = i /\ Whole(t) /\ i \in Nat
            /\ c.act \in Nat /\ c.vars \in Seq(VarSet)
            /\ Stack(c.vars, t, c.act) /\ Valued(c.vars, t, ks, Len(ks)) /\ Innermost(t, i, c.up)
  BY ZenonT(60), <1>2, TopFacts
<1>4. PICK t, i :
            /\ t \in Names /\ i \in 1..Len(code[t])
            /\ at = <<t, i>> /\ at[1] = t /\ at[2] = i /\ Whole(t) /\ i \in Nat
            /\ act \in Nat /\ vars \in Seq(VarSet)
            /\ Stack(vars, t, act) /\ Valued(vars, t, ks, Len(ks)) /\ Innermost(t, i, u)
  BY ZenonT(60), <1>1, <1>3
<1>5. Item = code[t][i] /\ Item.op = Op(t, i)
  BY ZenonT(60), <1>4 DEF Item, Op
<1>6. Len(vars) \in Nat
  BY ZenonT(60), <1>4, SeqTypes
<1>7. Now(t, i, u)
  BY ZenonT(60), <1>3, <1>4, <1>5, <1>6 DEF Now
<1>. QED
  BY ZenonT(60), <1>7

\* An item that is in no list of its own is walked, with the variables it declares.
LEMMA WalkedOn ==
    ASSUME \A t \in Names : Whole(t), NEW g, NEW s, NEW c, Chain(g, s, c),
           NEW t \in Names, NEW i \in 1..Len(code[t]), c.at = <<t, i>>, Op(t, i) \notin Openers \cup {"end"},
           NEW W, Begins(c.vars, W), Stack(W, t, c.act), Valued(W, t, s, Len(s)), Upto(W, t, i)
    PROVE  Runs(s, <<t, i + 1>>, W, c.act)
<1>1. c.at[1] = t /\ c.at[2] = i /\ Whole(t)
  OBVIOUS
<1>2. Innermost(t, i, c.up)
  BY ZenonT(60), <1>1, TopFacts
<1>3. i + 1 \in 1..Len(code[t]) /\ Innermost(t, i + 1, c.up)
  BY ZenonT(60), <1>1, <1>2, InnermostNext
<1>4. \E h : Chain(h, s, Level(<<t, i + 1>>, W, c.act, c.up))
  BY ZenonT(60), <1>1, <1>3, Moved
<1>5. Plain(t, i + 1) => Complete(W, t, i + 1)
  BY ZenonT(60), <1>1, <1>3, UptoNext
<1>6. <<t, i + 1>>[1] = t /\ <<t, i + 1>>[2] = i + 1
  BY ZenonT(60)
<1>. QED
  BY ZenonT(60), <1>4, <1>5, <1>6 DEF Runs

\* walkAction
LEMMA RunsAction ==
    ASSUME \A t \in Names : Whole(t), Runs(ks, at, vars, act), walkAction
    PROVE  outcome' = "running" => Runs(ks', at', vars', act')
<1>1. PICK u, g : Chain(g, ks, Level(at, vars, act, u))
  BY ZenonT(60) DEF Runs
<1>2. PICK t, i : Now(t, i, u)
  BY ZenonT(60), <1>1, NowFacts
<1>3. /\ t \in Names /\ i \in 1..Len(code[t]) /\ Whole(t) /\ at = <<t, i>> /\ at[1] = t /\ at[2] = i
      /\ Item.op = Op(t, i) /\ Stack(vars, t, act) /\ Valued(vars, t, ks, Len(ks))
      /\ act \in Nat /\ vars \in Seq(VarSet)
  BY ZenonT(60), <1>2 DEF Now
<1> DEFINE c == Level(at, vars, act, u)
<1>4. c.at = <<t, i>> /\ c.vars = vars /\ c.act = act
  BY ZenonT(60), <1>3 DEF Level
<1> HIDE DEF c
<1>5. Chain(g, ks, c)
  BY ZenonT(60), <1>1 DEF c
<1>6. ASSUME Op(t, i) \in {"decl", "use"} PROVE Complete(vars, t, i) /\ Op(t, i) \notin Openers \cup {"end"}
  <2>1. Op(t, i) \notin {"else", "end"} /\ Op(t, i) \notin Openers \cup {"end"}
    BY ZenonT(60), <1>6 DEF Openers, Controls
  <2>2. Plain(t, i)
    BY ZenonT(60), <1>3, <2>1, PlainItem
  <2>. QED
    BY ZenonT(60), <1>3, <2>1, <2>2 DEF Runs
<1>7. CASE Item.op = "decl"
  <2>1. ks' = ks /\ at' = <<t, i + 1>> /\ vars' = evalPipeline(at) /\ act' = act
    BY ZenonT(60), <1>3, <1>7 DEF walkAction, Advance, SameState
  <2>2. Op(t, i) \in {"decl", "use"} /\ Op(t, i) # "use" /\ Op(t, i) # "range"
    BY ZenonT(60), <1>3, <1>7
  <2>3. Complete(vars, t, i) /\ Op(t, i) \notin Openers \cup {"end"}
    BY ZenonT(60), <1>6, <2>2
  <2>4. Stack(evalPipeline(at), t, act) /\ Upto(evalPipeline(at), t, i)
    BY ZenonT(60), <1>3, <2>2, <2>3, PipelineStack
  <2>5. Valued(evalPipeline(at), t, ks, Len(ks))
    BY ZenonT(60), <1>3, <2>2, PipelineValued
  <2>6. Begins(vars, evalPipeline(at))
    BY ZenonT(60), <1>3, PipelineMore
  <2>. QED
    BY ZenonT(60), <1>3, <1>4, <1>5, <2>1, <2>3, <2>4, <2>5, <2>6, WalkedOn
<1>8. CASE Item.op = "use"
  <2> SUFFICES ASSUME outcome' = "running" PROVE Runs(ks', at', vars', act')
    BY ZenonT(60)
  <2>1. ks' = ks /\ at' = <<t, i + 1>> /\ vars' = vars /\ act' = act
    BY ZenonT(60), <1>3, <1>8 DEF walkAction, Advance, SameState, Halt
  <2>2. Op(t, i) \in {"decl", "use"} /\ Op(t, i) \in {"use", "else", "end"}
    BY ZenonT(60), <1>3, <1>8
  <2>3. Complete(vars, t, i) /\ Op(t, i) \notin Openers \cup {"end"}
    BY ZenonT(60), <1>6, <2>2
  <2>4. Upto(vars, t, i)
    BY ZenonT(60), <1>3, <2>2, <2>3, UptoSame
  <2>5. Begins(vars, vars)
    BY ZenonT(60), <1>3, BeginsSame
  <2>. QED
    BY ZenonT(60), <1>3, <1>4, <1>5, <2>1, <2>3, <2>4, <2>5, WalkedOn
<1>. QED
  BY ZenonT(60), <1>7, <1>8 DEF walkAction

\* A frame of this item.
IsCall(f, k) == f \in FrameSet /\ f.k = k /\ f.ret = at /\ f.mark = Len(vars)

\* Call makes a frame of that kind, with what it is given.
LEMMA CallFrame ==
    ASSUME NEW t, NEW i, NEW u, Now(t, i, u), fillers = {}, filling = FALSE,
           NEW k \in {"if", "range", "block", "call"}, NEW v \in Seq(VarSet), NEW a \in Nat, NEW b \in Nat, NEW c \in Nat
    PROVE  /\ IsCall(Call(k), k) /\ IsCall([Call(k) EXCEPT !.vars = v], k)
           /\ IsCall([Call(k) EXCEPT !.inner = a, !.iter = b, !.n = c], k)
<1>1. at \in Names \X Nat /\ Len(vars) \in Nat /\ <<>> \in Seq(VarSet)
  BY DEF Now
<1>. QED
  BY ZenonT(60), <1>1 DEF Call, FrameSet, IsCall

\* The items where the lists of a control begin.
LEMMA ListBegins ==
    ASSUME NEW t, Whole(t), NEW o \in OpenersOf(code[t]), NEW W, Upto(W, t, o), NEW k,
           \/ k = o + 1
           \/ Op(t, o) \in Controls /\ k = IF ElseOf(t, o) = EndOf(t, o) THEN EndOf(t, o) ELSE ElseOf(t, o) + 1
    PROVE  k \in 1..Len(code[t]) /\ Innermost(t, k, o) /\ (Plain(t, k) => Complete(W, t, k))
<1>1. o \in 1..Len(code[t])
  BY ZenonT(60), NodeFacts
<1>2. CASE k = o + 1
  BY ZenonT(60), <1>1, <1>2, InnermostFirst, UptoNext
<1>3. CASE Op(t, o) \in Controls /\ ElseOf(t, o) = EndOf(t, o) /\ k = EndOf(t, o)
  <2>1. ~Plain(t, k)
    BY ZenonT(60), <1>1, <1>3 DEF Plain
  <2>. QED
    BY ZenonT(60), <1>3, <2>1, InnermostEnd
<1>4. CASE Op(t, o) \in Controls /\ ElseOf(t, o) # EndOf(t, o) /\ k = ElseOf(t, o) + 1
  BY ZenonT(60), <1>1, <1>4, InnermostElse, UptoElse
<1>. QED
  BY ZenonT(60), <1>2, <1>3, <1>4

\* A control or a block is entered.
LEMMA RunsInto ==
    ASSUME \A t \in Names : Whole(t), Runs(ks, at, vars, act), NEW t, NEW i, NEW u, NEW g,
           Chain(g, ks, Level(at, vars, act, u)), Now(t, i, u),
           NEW f \in FrameSet, f.ret = at, f.k \in {"if", "range", "block"}, Op(t, i) = f.k, f.mark = Len(vars),
           f.k = "range" => f.inner = f.mark + Len(code[t][i].decls),
           NEW W \in Seq(VarSet), Begins(vars, W), Len(W) = Len(vars) + Len(code[t][i].decls),
           Declares(W, Len(vars), Len(code[t][i].decls), t, i),
           \A q \in 1..Len(code[t][i].decls) :
              /\ W[Len(vars) + q].act = act
              /\ W[Len(vars) + q].name = code[t][i].decls[q]
              /\ W[Len(vars) + q].val = IF f.k = "range" THEN RangeVal(f, q, Len(code[t][i].decls)) ELSE <<"pipe", 0>>,
           NEW k, \/ k = i + 1
                  \/ Op(t, i) \in Controls /\ k = IF ElseOf(t, i) = EndOf(t, i) THEN EndOf(t, i) ELSE ElseOf(t, i) + 1
    PROVE  Runs(Append(ks, f), <<t, k>>, W, act)
<1> DEFINE c == Level(at, vars, act, u)
<1>1. c.at = at /\ c.vars = vars /\ c.act = act
  BY ZenonT(60) DEF Level
<1>2. Chain(g, ks, c)
  BY ZenonT(60)
<1> HIDE DEF c
<1>3. /\ i \in 1..Len(code[t]) /\ Whole(t) /\ at = <<t, i>> /\ at[1] = t /\ at[2] = i
  BY ZenonT(60) DEF Now
<1>4. Op(t, i) \in Openers /\ Op(t, i) \notin {"else", "end"}
  BY ONLY SMTT(30), f.k \in {"if", "range", "block"}, Op(t, i) = f.k DEF Openers, Controls
<1>5. i \in OpenersOf(code[t])
  BY ZenonT(60), <1>3, <1>4, LastFacts
<1>6. Complete(vars, t, i)
  BY ZenonT(60), <1>3, <1>4, PlainItem DEF Runs
<1>7. Upto(W, t, i)
  <2>1. Op(t, i) # "use" /\ vars \in Seq(VarSet)
    BY ZenonT(60) DEF Now
  <2>. QED
    BY ZenonT(60), <1>3, <1>6, <2>1, CompleteMore
<1>8. k \in 1..Len(code[t]) /\ Innermost(t, k, i) /\ (Plain(t, k) => Complete(W, t, k))
  BY ZenonT(60), <1>3, <1>5, <1>7, ListBegins
<1>9. \E h : Chain(h, Append(ks, f), Level(<<t, k>>, W, act, i))
  <2>1. Enters(f, c, t, i, W)
    BY ZenonT(60), <1>1, <1>3, <1>6 DEF Enters
  <2>2. \E h : Chain(h, Append(ks, f), Level(<<t, k>>, W, c.act, i))
    BY ZenonT(60), <1>2, <1>3, <1>8, <2>1, Entered
  <2>. QED
    BY ZenonT(60), <1>1, <2>2
<1>10. <<t, k>>[1] = t /\ <<t, k>>[2] = k
  BY ZenonT(60)
<1>. QED
  BY ZenonT(60), <1>8, <1>9, <1>10 DEF Runs

\* What evalPipeline gives, where it is.
LEMMA NowPipeline ==
    ASSUME NEW t, NEW i, NEW u, Now(t, i, u)
    PROVE  LET W == evalPipeline(at)
               l == Len(code[t][i].decls)
           IN /\ W \in Seq(VarSet) /\ Begins(vars, W) /\ Declares(W, Len(vars), l, t, i)
              /\ l \in Nat /\ Len(W) = Len(vars) + l
              /\ \A q \in 1..l : /\ W[Len(vars) + q].act = act
                                 /\ W[Len(vars) + q].name = code[t][i].decls[q]
                                 /\ W[Len(vars) + q].val = <<"pipe", 0>>
<1> DEFINE W == evalPipeline(at)
           d == code[t][i].decls
<1>1. /\ W \in Seq(VarSet) /\ Begins(vars, W) /\ Declares(W, Len(vars), Len(d), t, i)
      /\ Len(d) \in Nat /\ Len(W) = Len(vars) + Len(d)
      /\ \A q \in 1..Len(d) : W[Len(vars) + q] = Variable(d[q], <<t, i>>, q, act)
  <2>1. t \in Names /\ Whole(t) /\ i \in 1..Len(code[t]) /\ at = <<t, i>> /\ act \in Nat /\ vars \in Seq(VarSet)
    BY ZenonT(60) DEF Now
  <2>. QED
    BY ZenonT(60), <2>1, PipelineMore
<1>2. ASSUME NEW q \in 1..Len(d)
      PROVE  /\ Variable(d[q], <<t, i>>, q, act).act = act /\ Variable(d[q], <<t, i>>, q, act).name = d[q]
             /\ Variable(d[q], <<t, i>>, q, act).val = <<"pipe", 0>>
  BY ZenonT(60) DEF Variable
<1>. QED
  BY ZenonT(60), <1>1, <1>2

\* walkIfOrWith
LEMMA RunsIf ==
    ASSUME \A t \in Names : Whole(t), Runs(ks, at, vars, act), fillers = {}, filling = FALSE, walkIfOrWith
    PROVE  Runs(ks', at', vars', act')
<1>1. PICK u, g : Chain(g, ks, Level(at, vars, act, u))
  BY ZenonT(60) DEF Runs
<1>2. PICK t, i : Now(t, i, u)
  BY ZenonT(60), <1>1, NowFacts
<1>3. Op(t, i) = "if" /\ at = <<t, i>> /\ at[1] = t /\ at[2] = i
  BY ZenonT(60), <1>2 DEF walkIfOrWith, Now
<1>4. \E k : /\ \/ k = i + 1
                \/ k = IF ElseOf(t, i) = EndOf(t, i) THEN EndOf(t, i) ELSE ElseOf(t, i) + 1
             /\ at' = <<t, k>>
  BY ZenonT(60), <1>3 DEF walkIfOrWith, Advance, Goto, Else, End
<1>5. PICK k : /\ \/ k = i + 1
                  \/ k = IF ElseOf(t, i) = EndOf(t, i) THEN EndOf(t, i) ELSE ElseOf(t, i) + 1
               /\ at' = <<t, k>>
  BY ZenonT(60), <1>4
<1> DEFINE f == Call("if")
           W == evalPipeline(at)
<1>6. ks' = Append(ks, f) /\ vars' = W /\ act' = act
  BY ZenonT(60) DEF walkIfOrWith, SameState
<1>7. f \in FrameSet /\ f.k = "if" /\ f.ret = at /\ f.mark = Len(vars)
  <2>1. vars \in Seq(VarSet) /\ 0 \in Nat
    BY ZenonT(60), <1>2 DEF Now
  <2>2. IsCall(f, "if")
    BY ZenonT(60), <1>2, <2>1, CallFrame
  <2>. QED
    BY ZenonT(60), <2>2 DEF IsCall
<1>8. /\ W \in Seq(VarSet) /\ Begins(vars, W) /\ Declares(W, Len(vars), Len(code[t][i].decls), t, i)
      /\ Len(W) = Len(vars) + Len(code[t][i].decls)
      /\ \A q \in 1..Len(code[t][i].decls) :
            /\ W[Len(vars) + q].act = act
            /\ W[Len(vars) + q].name = code[t][i].decls[q]
            /\ W[Len(vars) + q].val = <<"pipe", 0>>
  BY ZenonT(60), <1>2, NowPipeline
<1> HIDE DEF f, W
<1>9. f.k # "range" /\ f.k \in {"if", "range", "block"} /\ Op(t, i) = f.k /\ Op(t, i) \in Controls
  BY ZenonT(60), <1>3, <1>7 DEF Controls
<1>10. Runs(Append(ks, f), <<t, k>>, W, act)
  BY ZenonT(60), <1>1, <1>2, <1>5, <1>7, <1>8, <1>9, RunsInto
<1>. QED
  BY ZenonT(60), <1>5, <1>6, <1>10

\* walkBlock, where there are no fillers.
LEMMA RunsBlock ==
    ASSUME \A t \in Names : Whole(t), Runs(ks, at, vars, act), fillers = {}, filling = FALSE, walkBlock
    PROVE  Runs(ks', at', vars', act') /\ fillers' = {} /\ filling' = FALSE
<1>1. PICK u, g : Chain(g, ks, Level(at, vars, act, u))
  BY ZenonT(60) DEF Runs
<1>2. PICK t, i : Now(t, i, u)
  BY ZenonT(60), <1>1, NowFacts
<1>3. Op(t, i) = "block" /\ at = <<t, i>> /\ at[1] = t /\ at[2] = i
  BY ZenonT(60), <1>2 DEF walkBlock, Now
<1> DEFINE f == Call("block")
           W == evalPipeline(at)
<1>4. Filler(Item.name) = {}
  BY ZenonT(60) DEF Filler
<1>5. ks' = Append(ks, f) /\ vars' = W /\ Advance /\ SameState
  BY ZenonT(60), <1>4 DEF walkBlock
<1>6. act' = act /\ fillers' = {} /\ filling' = FALSE /\ at' = <<t, i + 1>>
  BY ZenonT(60), <1>3, <1>5 DEF Advance, SameState
<1>7. f \in FrameSet /\ f.k = "block" /\ f.ret = at /\ f.mark = Len(vars)
  <2>1. vars \in Seq(VarSet) /\ 0 \in Nat
    BY ZenonT(60), <1>2 DEF Now
  <2>2. IsCall(f, "block")
    BY ZenonT(60), <1>2, <2>1, CallFrame
  <2>. QED
    BY ZenonT(60), <2>2 DEF IsCall
<1>8. /\ W \in Seq(VarSet) /\ Begins(vars, W) /\ Declares(W, Len(vars), Len(code[t][i].decls), t, i)
      /\ Len(W) = Len(vars) + Len(code[t][i].decls)
      /\ \A q \in 1..Len(code[t][i].decls) :
            /\ W[Len(vars) + q].act = act
            /\ W[Len(vars) + q].name = code[t][i].decls[q]
            /\ W[Len(vars) + q].val = <<"pipe", 0>>
  BY ZenonT(60), <1>2, NowPipeline
<1> HIDE DEF f, W
<1>9. f.k # "range" /\ f.k \in {"if", "range", "block"} /\ Op(t, i) = f.k
  BY ZenonT(60), <1>3, <1>7
<1>10. Runs(Append(ks, f), <<t, i + 1>>, W, act)
  BY ZenonT(60), <1>1, <1>2, <1>7, <1>8, <1>9, RunsInto
<1>. QED
  BY ZenonT(60), <1>5, <1>6, <1>10

\* setVars, of the variables of a range: the declarations stay, the values are set.
RangeSet(X, V, t, o, l, a, iter) ==
    /\ X \in Seq(VarSet) /\ Begins(V, X) /\ Len(X) = Len(V) + l /\ Declares(X, Len(V), l, t, o)
    /\ \A q \in 1..l : /\ X[Len(V) + q].act = a /\ X[Len(V) + q].name = code[t][o].decls[q]
                       /\ X[Len(V) + q].val = <<IF q = l THEN "elem" ELSE "index", iter>>

\* setVars, after the pipeline of a range or at its next iteration.
LEMMA SetRange ==
    ASSUME NEW V \in Seq(VarSet), NEW W \in Seq(VarSet), NEW t, NEW o, NEW l \in 0..2, NEW a,
           Begins(V, W), Len(W) = Len(V) + l, Declares(W, Len(V), l, t, o), NEW iter \in Nat,
           \A q \in 1..l : W[Len(V) + q].act = a /\ W[Len(V) + q].name = code[t][o].decls[q]
    PROVE  RangeSet(setVars(W, l, iter), V, t, o, l, a, iter)
<1> DEFINE X == setVars(W, l, iter)
<1>1. Len(V) \in Nat /\ l \in Nat
  BY ONLY SMTT(30), UpToTwo
<1>2. /\ X \in Seq(VarSet) /\ Len(X) = Len(W)
      /\ \A q \in 1..Len(V) : X[q] = W[q]
      /\ \A q \in 1..l : X[Len(V) + q].val = <<IF q = l THEN "elem" ELSE "index", iter>>
      /\ \A q \in 1..Len(W) : /\ X[q].site = W[q].site /\ X[q].act = W[q].act
                              /\ X[q].name = W[q].name /\ X[q].nth = W[q].nth
  <2>1. IsSet(X, W, Len(V), l, iter)
    BY ZenonT(60), <1>1, SetVarsMore
  <2>. QED
    BY ZenonT(60), <2>1 DEF IsSet
<1> HIDE DEF X
<1>3. \A q \in 1..l : Len(V) + q \in 1..Len(W)
  BY ZenonT(60), <1>1, Shifted
<1>4. Begins(V, X)
  BY ZenonT(60), <1>2 DEF Begins
<1>5. Declares(X, Len(V), l, t, o)
  BY ZenonT(60), <1>2, <1>3 DEF Declares
<1>6. \A q \in 1..l : X[Len(V) + q].act = a /\ X[Len(V) + q].name = code[t][o].decls[q]
  BY ZenonT(60), <1>2, <1>3
<1>7. Len(X) = Len(V) + l
  BY ZenonT(60), <1>2
<1>. QED
  BY ZenonT(60), <1>2, <1>4, <1>5, <1>6, <1>7 DEF X, RangeSet

\* walkRange
LEMMA RunsRange ==
    ASSUME kind \in DOMAIN Programs, \A t \in Names : Whole(t), Runs(ks, at, vars, act),
           fillers = {}, filling = FALSE, walkRange
    PROVE  Runs(ks', at', vars', act')
<1>1. PICK u, g : Chain(g, ks, Level(at, vars, act, u))
  BY ZenonT(60) DEF Runs
<1>2. PICK t, i : Now(t, i, u)
  BY ZenonT(60), <1>1, NowFacts
<1>3. /\ Op(t, i) = "range" /\ at = <<t, i>> /\ at[1] = t /\ at[2] = i /\ Item = code[t][i]
      /\ i \in 1..Len(code[t]) /\ Whole(t) /\ Len(vars) \in Nat /\ vars \in Seq(VarSet)
  BY ZenonT(60), <1>2 DEF walkRange, Now
<1> DEFINE l == Len(code[t][i].decls)
           F(n) == [Call("range") EXCEPT !.inner = Len(vars) + l, !.iter = IF n = 0 THEN 0 ELSE 1, !.n = n]
           W == evalPipeline(at)
<1>4. PICK n \in 0..P.range :
         /\ ks' = Append(ks, F(n))
         /\ IF n = 0
            THEN vars' = W /\ at' = <<t, IF ElseOf(t, i) = EndOf(t, i) THEN EndOf(t, i) ELSE ElseOf(t, i) + 1>>
            ELSE vars' = setVars(W, l, 1) /\ at' = <<t, i + 1>>
  BY ZenonT(60), <1>3 DEF walkRange, Advance, Goto, Else, End
<1>5. n \in Nat /\ (IF n = 0 THEN 0 ELSE 1) \in Nat
  <2>1. P.range \in Nat
    BY ZenonT(60), ProgramsAssumption DEF P
  <2>. QED
    BY ONLY SMTT(30), <2>1
<1>6. act' = act
  BY ZenonT(60) DEF walkRange, SameState
<1>7. l \in 0..2 /\ l \in Nat /\ Len(vars) + l \in Nat
  <2>1. l \in 0..2
    BY ZenonT(60), <1>3, DeclsTypes
  <2>. QED
    BY ONLY SMTT(30), <1>3, <2>1, UpToTwo
<1> DEFINE f == F(n)
<1>8. f \in FrameSet /\ f.k = "range" /\ f.ret = at /\ f.mark = Len(vars)
  <2>1. IsCall(f, "range")
    BY ZenonT(60), <1>2, <1>3, <1>5, <1>7, CallFrame
  <2>. QED
    BY ZenonT(60), <2>1 DEF IsCall
<1>9. f.inner = Len(vars) + l /\ f.iter = (IF n = 0 THEN 0 ELSE 1) /\ f.n = n
  BY ZenonT(60) DEF Call
<1> HIDE DEF F, f
<1>10. /\ W \in Seq(VarSet) /\ Begins(vars, W) /\ Declares(W, Len(vars), l, t, i)
       /\ Len(W) = Len(vars) + l
       /\ \A q \in 1..l :
             /\ W[Len(vars) + q].act = act
             /\ W[Len(vars) + q].name = code[t][i].decls[q]
             /\ W[Len(vars) + q].val = <<"pipe", 0>>
  BY ZenonT(60), <1>2, NowPipeline
<1> HIDE DEF W
<1>11. f.k \in {"if", "range", "block"} /\ Op(t, i) = f.k /\ Op(t, i) \in Controls /\ f.inner = f.mark + l
  BY ZenonT(60), <1>3, <1>8, <1>9 DEF Controls
<1>12. CASE n = 0
  <2>1. \A q \in 1..l : W[Len(vars) + q].val = RangeVal(f, q, l)
    BY ZenonT(60), <1>9, <1>10, <1>12 DEF RangeVal
  <2> DEFINE k == IF ElseOf(t, i) = EndOf(t, i) THEN EndOf(t, i) ELSE ElseOf(t, i) + 1
  <2>2. Runs(Append(ks, f), <<t, k>>, W, act)
    BY ZenonT(60), <1>1, <1>2, <1>8, <1>10, <1>11, <2>1, RunsInto
  <2>. QED
    BY ZenonT(60), <1>4, <1>6, <1>12, <2>2 DEF f
<1>13. CASE n # 0
  <2> DEFINE X == setVars(W, l, 1)
  <2>1. /\ X \in Seq(VarSet) /\ Begins(vars, X) /\ Len(X) = Len(vars) + l /\ Declares(X, Len(vars), l, t, i)
        /\ \A q \in 1..l : /\ X[Len(vars) + q].act = act /\ X[Len(vars) + q].name = code[t][i].decls[q]
                           /\ X[Len(vars) + q].val = <<IF q = l THEN "elem" ELSE "index", 1>>
    <3>1. 1 \in Nat
      BY ZenonT(60)
    <3>2. \A q \in 1..l : W[Len(vars) + q].act = act /\ W[Len(vars) + q].name = code[t][i].decls[q]
      BY ZenonT(60), <1>10
    <3>3. RangeSet(X, vars, t, i, l, act, 1)
      BY ZenonT(60), <1>3, <1>7, <1>10, <3>1, <3>2, SetRange
    <3>. QED
      BY ZenonT(60), <3>3 DEF RangeSet
  <2> HIDE DEF X
  <2>2. \A q \in 1..l : X[Len(vars) + q].val = RangeVal(f, q, l)
    BY ZenonT(60), <1>9, <1>13, <2>1 DEF RangeVal
  <2>3. Runs(Append(ks, f), <<t, i + 1>>, X, act)
    BY ZenonT(60), <1>1, <1>2, <1>8, <1>11, <2>1, <2>2, RunsInto
  <2>. QED
    BY ZenonT(60), <1>4, <1>6, <1>13, <2>3 DEF f, X
<1>. QED
  BY ZenonT(60), <1>12, <1>13

\* The first variable of an invocation is $.
LEMMA DollarFacts ==
    ASSUME NEW t \in Names, Whole(t), NEW n \in Nat, NEW s, NEW m
    PROVE  /\ Dollar(t, n) \in Seq(VarSet) /\ Stack(Dollar(t, n), t, n) /\ Valued(Dollar(t, n), t, s, m)
           /\ Complete(Dollar(t, n), t, 1) /\ Innermost(t, 1, 0) /\ 1 \in 1..Len(code[t])
<1> DEFINE v == Variable("$", <<t, 0>>, 1, n)
           W == <<v>>
<1>1. /\ v.name = "$" /\ v.site = <<t, 0>> /\ v.site[1] = t /\ v.site[2] = 0 /\ v.nth = 1 /\ v.act = n
      /\ v.val = <<"pipe", 0>>
  BY ZenonT(60) DEF Variable
<1>2. v \in VarSet
  <2>1. <<t, 0>> \in Names \X Nat /\ <<"pipe", 0>> \in Vals
    BY ZenonT(60) DEF Vals
  <2>. QED
    BY ZenonT(60), <2>1 DEF Variable, VarSet
<1> HIDE DEF v
<1>3. W \in Seq(VarSet) /\ Len(W) = 1 /\ W[1] = v
  BY ZenonT(60), <1>2, Singleton
<1>4. Dollar(t, n) = W
  BY ZenonT(60) DEF Dollar, v
<1> HIDE DEF W
<1>5. \A q \in 1..Len(W) : q = 1
  BY ONLY SMTT(30), <1>3
<1>6. Stack(W, t, n)
  <2>1. \A q, r \in 1..Len(W) : ~(q < r)
    BY ONLY SMTT(30), <1>3
  <2>. QED
    <3>1. 1 \in 1..Len(W) /\ 1 <= 1
      BY ONLY SMTT(30), <1>3
    <3>2. LastNamed(W)
      BY ZenonT(60), <1>5, <3>1 DEF LastNamed
    <3>. QED
      BY ZenonT(60), <1>1, <1>3, <1>5, <2>1, <3>2 DEF Stack, NameAt
<1>7. Valued(W, t, s, m)
  BY ZenonT(60), <1>1, <1>3, <1>5 DEF Valued, ValueOk
<1>8. Complete(W, t, 1)
  <2>1. \A j, e : Has(W, j, e) <=> j = 0 /\ e = 1
    <3>1. 1 \in 1..Len(W)
      BY ONLY SMTT(30), <1>3
    <3>. QED
      BY ZenonT(60), <1>1, <1>3, <1>5, <3>1 DEF Has
  <2>2. \A j \in 1..Len(code[t]) : ~InScope(t, j, 1)
    BY ONLY SMTT(30), LastFacts DEF InScope
  <2>. QED
    BY ZenonT(60), <2>1, <2>2 DEF Complete, Slot
<1>9. Innermost(t, 1, 0)
  <2>1. \A p \in OpenersOf(code[t]) : p \in 1..Len(code[t])
    BY ZenonT(60), NodeFacts
  <2>2. Len(code[t]) \in Nat
    BY ZenonT(60), LastFacts
  <2>. QED
    BY ONLY SMTT(30), <2>1, <2>2 DEF Innermost
<1>. QED
  BY ZenonT(60), <1>3, <1>4, <1>6, <1>7, <1>8, <1>9, LastFacts

\* walkTemplate
LEMMA RunsTemplate ==
    ASSUME \A t \in Names : Whole(t), Runs(ks, at, vars, act), fillers = {}, filling = FALSE, walkTemplate,
           outcome' = "running"
    PROVE  Runs(ks', at', vars', act') /\ fillers' = {} /\ filling' = FALSE
<1>1. PICK u, g : Chain(g, ks, Level(at, vars, act, u))
  BY ZenonT(60) DEF Runs
<1>2. PICK t, i : Now(t, i, u)
  BY ZenonT(60), <1>1, NowFacts
<1>3. /\ Op(t, i) = "template" /\ at = <<t, i>> /\ at[1] = t /\ at[2] = i
      /\ t \in Names /\ i \in 1..Len(code[t]) /\ Whole(t) /\ act \in Nat /\ vars \in Seq(VarSet)
      /\ Stack(vars, t, act) /\ Valued(vars, t, ks, Len(ks)) /\ Innermost(t, i, u)
      /\ ks \in Seq(FrameSet)
  BY ZenonT(60), <1>2 DEF walkTemplate, Now
<1> DEFINE W == evalPipeline(at)
           f == [Call("call") EXCEPT !.vars = W]
           n == Item.name
<1>4. /\ n \in Names /\ ks' = Append(ks, f) /\ vars' = Dollar(n, act + 1) /\ at' = <<n, 1>>
      /\ act' = act + 1 /\ fillers' = {} /\ filling' = FALSE
  BY ZenonT(60) DEF walkTemplate, Invoke, Halt
<1>5. Op(t, i) \notin {"else", "end"} /\ Op(t, i) # "use" /\ Op(t, i) # "range"
  BY ZenonT(60), <1>3
<1>6. Complete(vars, t, i)
  BY ZenonT(60), <1>3, <1>5, PlainItem DEF Runs
<1>7. Stack(W, t, act) /\ Upto(W, t, i)
  BY ZenonT(60), <1>3, <1>5, <1>6, PipelineStack
<1>8. Valued(W, t, ks, Len(ks))
  BY ZenonT(60), <1>3, <1>5, PipelineValued
<1>9. Begins(vars, W) /\ W \in Seq(VarSet)
  BY ZenonT(60), <1>3, PipelineMore
<1>10. f \in FrameSet /\ f.k = "call" /\ f.ret = at /\ f.vars = W
  <2>1. IsCall(f, "call")
    <3>1. 0 \in Nat
      BY ZenonT(60)
    <3>. QED
      BY ZenonT(60), <1>2, <1>9, <3>1, CallFrame
  <2>2. f.vars = W
    BY ZenonT(60) DEF Call
  <2>. QED
    BY ZenonT(60), <2>1, <2>2 DEF IsCall
<1> HIDE DEF W, f, n
<1> DEFINE b == Level(<<t, i>>, W, act, u)
           c == Level(<<n, 1>>, Dollar(n, act + 1), act + 1, 0)
<1>11. PICK h : Chain(h, ks, b)
  <2> DEFINE d == Level(at, vars, act, u)
  <2>1. d.at = at /\ d.vars = vars /\ d.act = act /\ d.up = u
    BY ZenonT(60) DEF Level
  <2>2. Chain(g, ks, d)
    BY ZenonT(60), <1>1
  <2> HIDE DEF d
  <2>3. \E h : Chain(h, ks, Level(<<t, i>>, W, d.act, d.up))
    BY ZenonT(60), <1>3, <1>7, <1>8, <1>9, <2>1, <2>2, Moved
  <2>. QED
    BY ZenonT(60), <2>1, <2>3
<1>12. /\ b.at = <<t, i>> /\ b.at[1] = t /\ b.at[2] = i /\ b.vars = W /\ b.act = act
       /\ c.at = <<n, 1>> /\ c.at[1] = n /\ c.at[2] = 1 /\ c.vars = Dollar(n, act + 1) /\ c.act = act + 1 /\ c.up = 0
  BY ZenonT(60) DEF Level
<1>13. act + 1 \in Nat /\ <<n, 1>> \in Names \X Nat /\ Whole(n)
  BY <1>3, <1>4
<1>14. /\ Stack(Dollar(n, act + 1), n, act + 1) /\ Valued(Dollar(n, act + 1), n, Append(ks, f), Len(ks) + 1)
       /\ Complete(Dollar(n, act + 1), n, 1) /\ Innermost(n, 1, 0) /\ 1 \in 1..Len(code[n])
  BY ZenonT(60), <1>4, <1>13, DollarFacts
<1> HIDE DEF b, c
<1>15. LevelOk(c, Append(ks, f), Len(ks) + 1)
  BY ZenonT(60), <1>12, <1>13, <1>14 DEF LevelOk
<1>16. FrameOk(f, b, c)
  BY ZenonT(60), <1>3, <1>7, <1>10, <1>12 DEF FrameOk
<1>17. \E e : Chain(e, Append(ks, f), c)
  BY ZenonT(60), <1>11, <1>15, <1>16, ChainPush
<1>18. <<n, 1>>[1] = n /\ <<n, 1>>[2] = 1
  BY ZenonT(60)
<1>19. Runs(Append(ks, f), <<n, 1>>, Dollar(n, act + 1), act + 1)
  BY ZenonT(60), <1>14, <1>17, <1>18 DEF Runs, c
<1>. QED
  BY ZenonT(60), <1>4, <1>19

\* The last call was made at item o of template p, in the list b.
Caller(g, b, p, o, t, u) ==
    /\ Chain(g, Front(ks), b) /\ Front(ks) \in Seq(FrameSet) /\ Len(Front(ks)) = Len(ks) - 1
    /\ Top \in FrameSet /\ Top = Last(ks) /\ Top.ret = <<p, o>> /\ b.at = <<p, o>> /\ b.at[1] = p
    /\ p \in Names /\ o \in 1..Len(code[p]) /\ o \in Nat /\ Whole(p)
    /\ b.act \in Nat /\ b.vars \in Seq(VarSet) /\ Stack(b.vars, p, b.act)
    /\ Valued(b.vars, p, Front(ks), Len(Front(ks))) /\ Innermost(p, o, b.up)
    /\ IF Top.k = "call"
       THEN Op(p, o) = "template" /\ act = b.act + 1 /\ Top.vars = b.vars /\ Upto(b.vars, p, o)
       ELSE /\ Op(p, o) = Top.k /\ t = p /\ act = b.act /\ u = o
            /\ Top.mark = Len(b.vars) /\ Begins(b.vars, vars) /\ Complete(b.vars, p, o)
            /\ Top.k = "range" =>
                  /\ Top.inner = Top.mark + Len(code[p][o].decls)
                  /\ Declares(vars, Top.mark, Len(code[p][o].decls), p, o)

\* While there are calls, there is the list the last was made from.
LEMMA CallerFacts ==
    ASSUME \A t \in Names : Whole(t), NEW g, NEW u, Chain(g, ks, Level(at, vars, act, u)),
           NEW t, NEW i, Now(t, i, u), ks # <<>>
    PROVE  \E b, p, o : Caller(g, b, p, o, t, u)
<1> DEFINE c == Level(at, vars, act, u)
           b == g[Len(ks) - 1]
<1>1. c.at = at /\ c.vars = vars /\ c.act = act /\ c.up = u
  BY ZenonT(60) DEF Level
<1> HIDE DEF c
<1>2. Chain(g, ks, c)
  BY ZenonT(60) DEF c
<1>3. /\ Chain(g, Front(ks), b) /\ FrameOk(Last(ks), b, c)
      /\ Len(Front(ks)) = Len(ks) - 1 /\ Front(ks) \in Seq(FrameSet) /\ Last(ks) \in FrameSet
  BY ZenonT(60), <1>2, ChainPop
<1> HIDE DEF b
<1>4. PICK p \in Names : \E o \in 1..Len(code[p]) :
         /\ b.at = <<p, o>> /\ b.at[1] = p /\ b.at[2] = o /\ Whole(p) /\ o \in Nat
         /\ b.act \in Nat /\ b.vars \in Seq(VarSet)
         /\ Stack(b.vars, p, b.act) /\ Valued(b.vars, p, Front(ks), Len(Front(ks))) /\ Innermost(p, o, b.up)
  BY ZenonT(60), <1>3, TopFacts
<1>5. PICK o \in 1..Len(code[p]) :
         /\ b.at = <<p, o>> /\ b.at[1] = p /\ b.at[2] = o /\ Whole(p) /\ o \in Nat
         /\ b.act \in Nat /\ b.vars \in Seq(VarSet)
         /\ Stack(b.vars, p, b.act) /\ Valued(b.vars, p, Front(ks), Len(Front(ks))) /\ Innermost(p, o, b.up)
  BY ZenonT(60), <1>4
<1>6. at[1] = t /\ Top = Last(ks)
  BY ZenonT(60) DEF Now, Top
<1>7. Top.ret = <<p, o>>
  BY ZenonT(60), <1>3, <1>5, <1>6 DEF FrameOk
<1>8. CASE Top.k = "call"
  <2>1. Op(p, o) = "template" /\ act = b.act + 1 /\ Top.vars = b.vars /\ Upto(b.vars, p, o)
    BY ZenonT(60), <1>1, <1>3, <1>5, <1>6, <1>8 DEF FrameOk
  <2>2. Caller(g, b, p, o, t, u)
    BY ZenonT(60), <1>3, <1>5, <1>6, <1>7, <1>8, <2>1 DEF Caller
  <2>. QED
    BY ZenonT(60), <2>2
<1>9. CASE Top.k # "call"
  <2>1. /\ Op(p, o) = Top.k /\ t = p /\ act = b.act /\ u = o
        /\ Top.mark = Len(b.vars) /\ Begins(b.vars, vars) /\ Complete(b.vars, p, o)
        /\ Top.k = "range" =>
              /\ Top.inner = Top.mark + Len(code[p][o].decls)
              /\ Declares(vars, Top.mark, Len(code[p][o].decls), p, o)
    BY ZenonT(60), <1>1, <1>3, <1>5, <1>6, <1>9 DEF FrameOk
  <2>2. Caller(g, b, p, o, t, u)
    BY ZenonT(60), <1>3, <1>5, <1>6, <1>7, <1>9, <2>1 DEF Caller
  <2>. QED
    BY ZenonT(60), <2>2
<1>. QED
  BY ZenonT(60), <1>8, <1>9

\* How a sequence begins, taken from it.
LEMMA Prefix ==
    ASSUME NEW S, NEW V \in Seq(S), NEW W \in Seq(S), Begins(V, W)
    PROVE  SubSeq(W, 1, Len(V)) = V
<1>1. Len(V) \in Nat /\ Len(W) \in Nat /\ Len(V) <= Len(W) /\ Len(V) \in 0..Len(W)
  BY DEF Begins
<1>2. /\ SubSeq(W, 1, Len(V)) \in Seq(S) /\ Len(SubSeq(W, 1, Len(V))) = Len(V)
      /\ \A q \in 1..Len(V) : SubSeq(W, 1, Len(V))[q] = W[q]
  BY ONLY SMTT(30), <1>1
<1> DEFINE X == SubSeq(W, 1, Len(V))
<1>3. X \in Seq(S) /\ Len(X) = Len(V) /\ \A q \in 1..Len(V) : X[q] = V[q]
  BY ZenonT(60), <1>2 DEF Begins
<1> HIDE DEF X
<1>4. X = V
  BY ONLY SMTT(30), <1>3
<1>. QED
  BY ZenonT(60), <1>4 DEF X

\* A control is left: the deferred pop.
LEMMA RunsOut ==
    ASSUME \A t \in Names : Whole(t), Runs(ks, at, vars, act), ks # <<>>, Top.k \in {"if", "range"}
    PROVE  Runs(Front(ks), After(Top.ret), SubSeq(vars, 1, Top.mark), act)
<1>1. PICK u, g : Chain(g, ks, Level(at, vars, act, u))
  BY ZenonT(60) DEF Runs
<1>2. PICK t, i : Now(t, i, u)
  BY ZenonT(60), <1>1, NowFacts
<1>3. PICK b, p, o : Caller(g, b, p, o, t, u)
  BY ZenonT(60), <1>1, <1>2, CallerFacts
<1>4. Top.k # "call" /\ Top.k \in Controls /\ Top.k \in Openers
  BY ZenonT(60) DEF Controls, Openers
<1>5. /\ Chain(g, Front(ks), b) /\ Top.ret = <<p, o>> /\ b.at[1] = p
      /\ p \in Names /\ o \in 1..Len(code[p]) /\ Whole(p)
      /\ b.vars \in Seq(VarSet) /\ Stack(b.vars, p, b.act)
      /\ Valued(b.vars, p, Front(ks), Len(Front(ks))) /\ Innermost(p, o, b.up)
      /\ Op(p, o) = Top.k /\ act = b.act
      /\ Top.mark = Len(b.vars) /\ Begins(b.vars, vars) /\ Complete(b.vars, p, o)
  BY ZenonT(60), <1>3, <1>4 DEF Caller
<1>6. SubSeq(vars, 1, Top.mark) = b.vars
  <2>1. vars \in Seq(VarSet)
    BY ZenonT(60), <1>2 DEF Now
  <2>. QED
    BY ZenonT(60), <1>5, <2>1, Prefix
<1>7. o \in OpenersOf(code[p]) /\ EndOf(p, o) \in Nat
  <2>1. o \in OpenersOf(code[p]) /\ EndOf(p, o) \in 1..Len(code[p])
    BY ZenonT(60), <1>4, <1>5, ControlFacts
  <2>2. Len(code[p]) \in Nat
    BY ZenonT(60), <1>5, LastFacts
  <2>. QED
    BY ZenonT(60), <2>1, <2>2, Positions
<1>8. After(Top.ret) = <<p, EndOf(p, o) + 1>>
  <2>1. Top.ret = <<p, o>> /\ Op(p, o) \in Openers /\ EndOf(p, o) \in Nat
    BY ZenonT(60), <1>4, <1>5, <1>7
  <2>. QED
    BY ONLY SMTT(30), <2>1 DEF After
<1>9. EndOf(p, o) + 1 \in 1..Len(code[p]) /\ Innermost(p, EndOf(p, o) + 1, b.up)
  BY ZenonT(60), <1>5, <1>7, InnermostAfter
<1>10. Begins(b.vars, b.vars)
  BY ZenonT(60), <1>5, BeginsSame
<1>11. \E h : Chain(h, Front(ks), Level(<<p, EndOf(p, o) + 1>>, b.vars, b.act, b.up))
  BY ZenonT(60), <1>5, <1>9, <1>10, Moved
<1>12. Plain(p, EndOf(p, o) + 1) => Complete(b.vars, p, EndOf(p, o) + 1)
  BY ZenonT(60), <1>4, <1>5, CompleteAfter
<1>13. <<p, EndOf(p, o) + 1>>[1] = p /\ <<p, EndOf(p, o) + 1>>[2] = EndOf(p, o) + 1
  BY ZenonT(60)
<1>14. Runs(Front(ks), <<p, EndOf(p, o) + 1>>, b.vars, b.act)
  BY ZenonT(60), <1>11, <1>12, <1>13 DEF Runs
<1>. QED
  BY ZenonT(60), <1>5, <1>6, <1>8, <1>14

\* endIfOrWith
LEMMA RunsEndIf ==
    ASSUME \A t \in Names : Whole(t), Runs(ks, at, vars, act), endIfOrWith
    PROVE  Runs(ks', at', vars', act')
<1>1. act' = act /\ ks # <<>> /\ Top.k = "if" /\ Top.k \in {"if", "range"}
  BY ZenonT(60) DEF endIfOrWith, SameState
<1>2. CASE Item.op = "end"
  <2>1. ks' = Front(ks) /\ at' = After(Top.ret) /\ vars' = SubSeq(vars, 1, Top.mark)
    BY ZenonT(60), <1>2 DEF endIfOrWith, Return, pop
  <2>. QED
    BY ZenonT(60), <1>1, <2>1, RunsOut
<1>3. CASE Item.op = "else"
  <2>1. PICK u, g : Chain(g, ks, Level(at, vars, act, u))
    BY ZenonT(60) DEF Runs
  <2>2. PICK t, i : Now(t, i, u)
    BY ZenonT(60), <2>1, NowFacts
  <2>3. PICK b, p, o : Caller(g, b, p, o, t, u)
    BY ZenonT(60), <1>1, <2>1, <2>2, CallerFacts
  <2>4. Top.k # "call" /\ Top.k \in Controls
    BY ZenonT(60), <1>1 DEF Controls
  <2>5. Top.ret = <<t, u>> /\ t \in Names /\ u \in 1..Len(code[t]) /\ Whole(t) /\ Op(t, u) \in Controls
    BY ZenonT(60), <2>3, <2>4 DEF Caller
  <2>6. at[1] = t /\ vars \in Seq(VarSet) /\ Stack(vars, t, act) /\ Valued(vars, t, ks, Len(ks))
    BY ZenonT(60), <2>2 DEF Now
  <2>7. Top.ret[2] = u
    BY ONLY SMTT(30), <2>5
  <2>8. ks' = ks /\ vars' = vars /\ at' = <<t, EndOf(t, u)>>
    BY ZenonT(60), <1>3, <2>6, <2>7 DEF endIfOrWith, Goto
  <2>9. u \in OpenersOf(code[t])
    BY ZenonT(60), <2>5, ControlFacts
  <2>10. EndOf(t, u) \in 1..Len(code[t]) /\ Innermost(t, EndOf(t, u), u)
    BY ZenonT(60), <2>5, <2>9, InnermostEnd
  <2> DEFINE c == Level(at, vars, act, u)
  <2>11. c.at = at /\ c.vars = vars /\ c.act = act /\ c.up = u
    BY ZenonT(60) DEF Level
  <2> HIDE DEF c
  <2>12. Chain(g, ks, c)
    BY ZenonT(60), <2>1 DEF c
  <2>13. Begins(vars, vars)
    BY ZenonT(60), <2>6, BeginsSame
  <2>14. \E h : Chain(h, ks, Level(<<t, EndOf(t, u)>>, vars, c.act, c.up))
    BY ZenonT(60), <2>5, <2>6, <2>10, <2>11, <2>12, <2>13, Moved
  <2>15. ~Plain(t, EndOf(t, u))
    BY ZenonT(60), <2>5 DEF Plain
  <2>16. <<t, EndOf(t, u)>>[1] = t /\ <<t, EndOf(t, u)>>[2] = EndOf(t, u)
    BY ZenonT(60)
  <2>17. Runs(ks, <<t, EndOf(t, u)>>, vars, act)
    BY ZenonT(60), <2>11, <2>14, <2>15, <2>16 DEF Runs
  <2>. QED
    BY ZenonT(60), <1>1, <2>8, <2>17
<1>. QED
  BY ZenonT(60), <1>2, <1>3 DEF endIfOrWith

LastIs(s, x) == [s EXCEPT ![Len(s)] = x] = Append(Front(s), x)

\* The last element of a sequence is replaced.
LEMMA LastReplaced == ASSUME NEW S, NEW s \in Seq(S), s # <<>>, NEW x \in S PROVE LastIs(s, x)
<1> DEFINE r == Front(s)
           a == [s EXCEPT ![Len(s)] = x]
           b == Append(r, x)
<1>1. /\ Len(s) \in Nat \ {0} /\ r \in Seq(S) /\ Len(r) = Len(s) - 1
      /\ \A i \in 1..(Len(s) - 1) : r[i] = s[i]
  BY ZenonT(60), FrontOf
<1> HIDE DEF r
<1>2. a \in Seq(S) /\ Len(a) = Len(s) /\ a[Len(s)] = x /\ \A i \in 1..(Len(s) - 1) : a[i] = s[i]
  BY ONLY SMTT(30), <1>1
<1>3. b \in Seq(S) /\ Len(b) = Len(s) /\ b[Len(s)] = x /\ \A i \in 1..(Len(s) - 1) : b[i] = r[i]
  <2>1. b \in Seq(S) /\ Len(b) = Len(r) + 1 /\ b[Len(r) + 1] = x /\ \A i \in 1..Len(r) : b[i] = r[i]
    BY ONLY SMTT(30), <1>1
  <2>2. Len(r) + 1 = Len(s)
    BY ONLY SMTT(30), <1>1
  <2>. QED
    BY ZenonT(60), <1>1, <2>1, <2>2
<1> HIDE DEF a, b
<1>4. \A i \in 1..Len(s) : i = Len(s) \/ i \in 1..(Len(s) - 1)
  BY ONLY SMTT(30), <1>1
<1>5. \A i \in 1..Len(s) : a[i] = b[i]
  BY ZenonT(60), <1>1, <1>2, <1>3, <1>4
<1>6. a = b
  BY ONLY SMTT(30), <1>2, <1>3, <1>5
<1>. QED
  BY ZenonT(60), <1>6 DEF a, b, r, LastIs

\* The variables that a list begins with and those its node declares.
FirstAre(X, V, l, t, o, a) ==
    /\ X \in Seq(VarSet) /\ Begins(V, X) /\ Len(X) = Len(V) + l /\ Declares(X, Len(V), l, t, o)
    /\ \A q \in 1..l : X[Len(V) + q].act = a /\ X[Len(V) + q].name = code[t][o].decls[q]

\* What is left at the end of an iteration: the variables before the range, and its own.
LEMMA FirstVars ==
    ASSUME NEW V \in Seq(VarSet), NEW W \in Seq(VarSet), Begins(V, W), NEW l \in Nat, NEW t, NEW o \in Nat, o # 0,
           Declares(W, Len(V), l, t, o), NEW a, Stack(W, t, a)
    PROVE  FirstAre(SubSeq(W, 1, Len(V) + l), V, l, t, o, a)
<1> DEFINE m == Len(V) + l
           X == SubSeq(W, 1, m)
<1>1. Len(V) \in Nat /\ Len(W) \in Nat /\ m <= Len(W) /\ m \in Nat /\ m \in 0..Len(W)
  BY DEF Declares
<1>2. X \in Seq(VarSet) /\ Len(X) = m /\ \A q \in 1..m : X[q] = W[q] /\ q \in 1..Len(W)
  BY ONLY SMTT(30), <1>1
<1> HIDE DEF X
<1>3. Len(V) <= Len(X) /\ \A q \in 1..Len(V) : q \in 1..m
  BY ONLY SMTT(30), <1>1, <1>2
<1>4. \A q \in 1..l : Len(V) + q \in 1..m
  BY ZenonT(60), <1>1, Shifted
<1>5. Begins(V, X)
  BY ZenonT(60), <1>2, <1>3 DEF Begins
<1>6. m <= Len(X)
  BY ONLY SMTT(30), <1>1, <1>2
<1>7. Declares(X, Len(V), l, t, o)
  BY ZenonT(60), <1>2, <1>4, <1>6 DEF Declares
<1>8. ASSUME NEW q \in 1..l PROVE X[Len(V) + q].act = a /\ X[Len(V) + q].name = code[t][o].decls[q]
  <2>1. /\ Len(V) + q \in 1..Len(W) /\ X[Len(V) + q] = W[Len(V) + q]
        /\ W[Len(V) + q].site = <<t, o>> /\ W[Len(V) + q].nth = q
    BY ZenonT(60), <1>2, <1>4 DEF Declares
  <2>2. W[Len(V) + q].site[2] = o
    BY ONLY SMTT(30), <2>1
  <2>3. W[Len(V) + q].act = a /\ W[Len(V) + q].name = NameAt(t, o, q)
    BY ZenonT(60), <2>1, <2>2 DEF Stack
  <2>. QED
    BY ZenonT(60), <2>1, <2>3 DEF NameAt
<1>. QED
  BY ZenonT(60), <1>2, <1>5, <1>7, <1>8 DEF X, FirstAre

\* endRange
LEMMA RunsEndRange ==
    ASSUME \A t \in Names : Whole(t), Runs(ks, at, vars, act), endRange
    PROVE  Runs(ks', at', vars', act')
<1>1. act' = act /\ ks # <<>> /\ Top.k = "range" /\ Top.k \in {"if", "range"}
  BY ZenonT(60) DEF endRange, SameState
<1>2. CASE /\ Top.iter = Top.n
           /\ pop(Top.mark) /\ Return /\ at' = After(Top.ret)
  <2>1. ks' = Front(ks) /\ at' = After(Top.ret) /\ vars' = SubSeq(vars, 1, Top.mark)
    BY ZenonT(60), <1>2 DEF Return, pop
  <2>. QED
    BY ZenonT(60), <1>1, <2>1, RunsOut
<1>3. CASE /\ Top.iter < Top.n
           /\ vars' = setVars(SubSeq(vars, 1, Top.inner), Len(code[at[1]][Top.ret[2]].decls), Top.iter + 1)
           /\ ks' = [ks EXCEPT ![Len(ks)].iter = @ + 1]
           /\ Goto(Top.ret[2] + 1)
  <2>1. PICK u, g : Chain(g, ks, Level(at, vars, act, u))
    BY ZenonT(60) DEF Runs
  <2>2. PICK t, i : Now(t, i, u)
    BY ZenonT(60), <2>1, NowFacts
  <2>3. PICK b, p, o : Caller(g, b, p, o, t, u)
    BY ZenonT(60), <1>1, <2>1, <2>2, CallerFacts
  <2>4. Top.k # "call"
    BY ZenonT(60), <1>1
  <2> DEFINE l == Len(code[t][o].decls)
             r == Front(ks)
  <2>5. /\ Chain(g, r, b) /\ Top \in FrameSet /\ Top = Last(ks) /\ Top.ret = <<t, o>> /\ b.at = <<t, o>>
        /\ t \in Names /\ o \in 1..Len(code[t]) /\ o \in Nat /\ Whole(t)
        /\ b.vars \in Seq(VarSet) /\ Op(t, o) = "range" /\ act = b.act
        /\ Top.mark = Len(b.vars) /\ Begins(b.vars, vars) /\ Complete(b.vars, t, o)
        /\ Top.inner = Top.mark + l /\ Declares(vars, Top.mark, l, t, o)
    BY ZenonT(60), <1>1, <2>3, <2>4 DEF Caller
  <2>6. at[1] = t /\ vars \in Seq(VarSet) /\ Stack(vars, t, act) /\ ks \in Seq(FrameSet)
    BY ZenonT(60), <2>2 DEF Now
  <2>7. Top.ret[2] = o /\ o # 0 /\ Op(t, o) \in Controls
    <3>1. Top.ret = <<t, o>> /\ o \in 1..Len(code[t]) /\ Len(code[t]) \in Nat /\ Op(t, o) = "range"
      BY ZenonT(60), <2>5, LastFacts
    <3>. QED
      BY ONLY SMTT(30), <3>1 DEF Controls
  <2>8. l \in 0..2 /\ l \in Nat
    BY ZenonT(60), <2>5, DeclsTypes, UpToTwo
  <2> DEFINE X == SubSeq(vars, 1, Len(b.vars) + l)
             W == setVars(X, l, Top.iter + 1)
             f == [Top EXCEPT !.iter = @ + 1]
  <2>9. /\ X \in Seq(VarSet) /\ Begins(b.vars, X) /\ Len(X) = Len(b.vars) + l /\ Declares(X, Len(b.vars), l, t, o)
        /\ \A q \in 1..l : X[Len(b.vars) + q].act = b.act /\ X[Len(b.vars) + q].name = code[t][o].decls[q]
    <3>1. FirstAre(X, b.vars, l, t, o, b.act)
      BY ZenonT(60), <2>5, <2>6, <2>7, <2>8, FirstVars
    <3>. QED
      BY ZenonT(60), <3>1 DEF FirstAre
  <2>10. vars' = W /\ at' = <<t, o + 1>>
    BY ZenonT(60), <1>3, <2>5, <2>6, <2>7 DEF Goto
  <2>11. Top.iter \in Nat /\ Top.iter + 1 \in Nat /\ Top.n \in Nat /\ Top.n # 0
    BY ONLY SMTT(30), <1>3, <2>5 DEF FrameSet
  <2>12. /\ f \in FrameSet /\ f.k = Top.k /\ f.ret = Top.ret /\ f.mark = Top.mark /\ f.inner = Top.inner
         /\ f.n = Top.n /\ f.iter = Top.iter + 1
    BY ZenonT(60), <2>5, <2>11 DEF FrameSet
  <2>13. ks' = Append(r, f)
    <3>1. ks[Len(ks)] = Top
      BY ZenonT(60), <2>5 DEF Last
    <3>2. LastIs(ks, f)
      BY ZenonT(60), <1>1, <2>6, <2>12, LastReplaced
    <3>3. ks' = [ks EXCEPT ![Len(ks)] = f]
      BY ZenonT(60), <1>3, <3>1
    <3>. QED
      BY ZenonT(60), <3>2, <3>3 DEF LastIs
  <2>14. RangeSet(W, b.vars, t, o, l, b.act, Top.iter + 1)
    <3> HIDE DEF X
    <3>. QED
      BY ZenonT(60), <2>5, <2>8, <2>9, <2>11, SetRange
  <2> HIDE DEF X, W, f, r
  <2>15. \A q \in 1..l : W[Len(b.vars) + q].val = RangeVal(f, q, l)
    BY ZenonT(60), <2>11, <2>12, <2>14 DEF RangeSet, RangeVal
  <2>16. f.k \in {"if", "range", "block"} /\ f.k = "range"
    BY ZenonT(60), <1>1, <2>12
  <2>17. Enters(f, b, t, o, W)
    BY ZenonT(60), <2>5, <2>12, <2>14, <2>15, <2>16 DEF RangeSet, Enters
  <2>18. o \in OpenersOf(code[t])
    BY ZenonT(60), <2>5, <2>7, ControlFacts
  <2>19. o + 1 \in 1..Len(code[t]) /\ Innermost(t, o + 1, o)
    BY ZenonT(60), <2>5, <2>18, InnermostFirst
  <2>20. Upto(W, t, o) /\ \E h : Chain(h, Append(r, f), Level(<<t, o + 1>>, W, b.act, o))
    BY ZenonT(60), <2>5, <2>17, <2>19, Entered
  <2>21. Plain(t, o + 1) => Complete(W, t, o + 1)
    BY ZenonT(60), <2>5, <2>18, <2>20, ListBegins
  <2>22. <<t, o + 1>>[1] = t /\ <<t, o + 1>>[2] = o + 1
    BY ZenonT(60)
  <2>23. Runs(Append(r, f), <<t, o + 1>>, W, b.act)
    BY ZenonT(60), <2>20, <2>21, <2>22 DEF Runs
  <2>. QED
    BY ZenonT(60), <1>1, <2>5, <2>10, <2>13, <2>23
<1>. QED
  BY ZenonT(60), <1>2, <1>3 DEF endRange

\* endTemplate
LEMMA RunsEndTemplate ==
    ASSUME \A t \in Names : Whole(t), Runs(ks, at, vars, act), outcome' = "running", endTemplate
    PROVE  Runs(ks', at', vars', act') /\ fillers' = {} /\ filling' = FALSE
<1>1. /\ ks # <<>> /\ Top.k = "call" /\ at' = After(Top.ret) /\ vars' = Top.vars
      /\ fillers' = Top.fillers /\ filling' = Top.filling /\ act' = act - 1 /\ ks' = Front(ks)
  BY ZenonT(60) DEF endTemplate, Halt, Return
<1>2. PICK u, g : Chain(g, ks, Level(at, vars, act, u))
  BY ZenonT(60) DEF Runs
<1>3. PICK t, i : Now(t, i, u)
  BY ZenonT(60), <1>2, NowFacts
<1>4. PICK b, p, o : Caller(g, b, p, o, t, u)
  BY ZenonT(60), <1>1, <1>2, <1>3, CallerFacts
<1>5. /\ Chain(g, Front(ks), b) /\ Top \in FrameSet /\ Top.ret = <<p, o>> /\ b.at = <<p, o>>
      /\ p \in Names /\ o \in 1..Len(code[p]) /\ o \in Nat
      /\ b.act \in Nat /\ b.vars \in Seq(VarSet) /\ Stack(b.vars, p, b.act)
      /\ Valued(b.vars, p, Front(ks), Len(Front(ks)))
      /\ Op(p, o) = "template" /\ act = b.act + 1 /\ Top.vars = b.vars /\ Upto(b.vars, p, o)
  BY ZenonT(60), <1>1, <1>4 DEF Caller
<1>6. fillers' = {} /\ filling' = FALSE /\ act' = b.act
  <2>1. Top.fillers = {}
    BY ZenonT(60), <1>5 DEF FrameSet
  <2>2. Top.filling = FALSE
    BY ZenonT(60), <1>5 DEF FrameSet
  <2>3. act - 1 = b.act
    BY ONLY SMTT(30), <1>5
  <2>. QED
    BY ZenonT(60), <1>1, <2>1, <2>2, <2>3
<1>7. Op(p, o) \notin Openers \cup {"end"}
  BY ZenonT(60), <1>5 DEF Openers, Controls
<1>8. After(Top.ret) = <<p, o + 1>>
  <2>1. Top.ret = <<p, o>> /\ Op(p, o) \notin Openers /\ o \in Nat
    BY ZenonT(60), <1>5, <1>7
  <2>. QED
    BY ONLY SMTT(30), <2>1 DEF After
<1>9. Begins(b.vars, b.vars)
  BY ZenonT(60), <1>5, BeginsSame
<1>10. Runs(Front(ks), <<p, o + 1>>, b.vars, b.act)
  BY ZenonT(60), <1>5, <1>7, <1>9, WalkedOn
<1>. QED
  BY ZenonT(60), <1>1, <1>5, <1>6, <1>8, <1>10

\* endBlock: what was declared in the block stays declared.
LEMMA RunsEndBlock ==
    ASSUME \A t \in Names : Whole(t), Runs(ks, at, vars, act), endBlock
    PROVE  Runs(ks', at', vars', act')
<1>1. /\ ks # <<>> /\ Top.k = "block" /\ Top.k # "call" /\ at' = After(Top.ret) /\ vars' = vars
      /\ act' = act /\ ks' = Front(ks) /\ Item.op = "end"
  BY ZenonT(60) DEF endBlock, SameState, Return
<1>2. PICK u, g : Chain(g, ks, Level(at, vars, act, u))
  BY ZenonT(60) DEF Runs
<1>3. PICK t, i : Now(t, i, u)
  BY ZenonT(60), <1>2, NowFacts
<1>4. PICK b, p, o : Caller(g, b, p, o, t, u)
  BY ZenonT(60), <1>1, <1>2, <1>3, CallerFacts
<1>5. /\ Chain(g, Front(ks), b) /\ Top = Last(ks) /\ Top.ret = <<t, o>> /\ b.at[1] = t
      /\ t \in Names /\ o \in 1..Len(code[t]) /\ o \in Nat /\ Whole(t)
      /\ Innermost(t, o, b.up) /\ Op(t, o) = "block" /\ act = b.act /\ u = o
      /\ Begins(b.vars, vars) /\ Len(Front(ks)) = Len(ks) - 1
  BY ZenonT(60), <1>1, <1>4 DEF Caller
<1>6. /\ i \in 1..Len(code[t]) /\ i \in Nat /\ Item.op = Op(t, i) /\ Innermost(t, i, o) /\ ks \in Seq(FrameSet)
      /\ Stack(vars, t, act) /\ Valued(vars, t, ks, Len(ks)) /\ at[1] = t /\ at[2] = i
  BY ZenonT(60), <1>3, <1>5 DEF Now
<1>7. Op(t, o) \in Openers /\ Op(t, o) \notin Controls
  BY ZenonT(60), <1>5 DEF Openers, Controls
<1>8. o \in OpenersOf(code[t])
  BY ZenonT(60), <1>5, <1>7, LastFacts
<1>9. i = EndOf(t, o)
  BY ZenonT(60), <1>1, <1>5, <1>6, <1>8, InnermostAtEnd
<1>10. After(Top.ret) = <<t, i + 1>>
  <2>1. Top.ret = <<t, o>> /\ Op(t, o) \in Openers /\ EndOf(t, o) = i /\ i \in Nat
    BY ZenonT(60), <1>5, <1>6, <1>7, <1>9
  <2>. QED
    BY ONLY SMTT(30), <2>1 DEF After
<1>11. i + 1 \in 1..Len(code[t]) /\ Innermost(t, i + 1, b.up)
  BY ZenonT(60), <1>5, <1>8, <1>9, InnermostAfter
<1>12. Valued(vars, t, Front(ks), Len(Front(ks)))
  <2>1. Last(ks).k # "range"
    BY ZenonT(60), <1>1, <1>5
  <2>. QED
    BY ZenonT(60), <1>1, <1>5, <1>6, <2>1, ValueShrinks DEF Valued
<1>13. \E h : Chain(h, Front(ks), Level(<<t, i + 1>>, vars, b.act, b.up))
  BY ZenonT(60), <1>5, <1>6, <1>11, <1>12, Moved
<1>14. Plain(t, i)
  <2>1. ASSUME NEW e \in 1..Len(code[t]), Op(t, e) \in Controls, EndOf(t, e) = i PROVE FALSE
    <3>1. e \in OpenersOf(code[t])
      BY ZenonT(60), <1>5, <2>1, ControlFacts
    <3>2. e = o
      BY ZenonT(60), <1>5, <1>8, <1>9, <2>1, <3>1, EndsDiffer
    <3>. QED
      BY ZenonT(60), <1>7, <2>1, <3>2
  <2>2. Op(t, i) # "else"
    BY ZenonT(60), <1>1, <1>6
  <2>. QED
    BY ZenonT(60), <2>1, <2>2 DEF Plain
<1>15. Complete(vars, t, i)
  BY ZenonT(60), <1>6, <1>14 DEF Runs
<1>16. Plain(t, i + 1) => Complete(vars, t, i + 1)
  <2>1. Op(t, i) \in {"use", "else", "end"}
    BY ZenonT(60), <1>1, <1>6
  <2>. QED
    BY ZenonT(60), <1>5, <1>6, <1>11, <1>15, <2>1, UptoSame, UptoNext
<1>17. <<t, i + 1>>[1] = t /\ <<t, i + 1>>[2] = i + 1
  BY ZenonT(60)
<1>18. Runs(Front(ks), <<t, i + 1>>, vars, b.act)
  BY ZenonT(60), <1>13, <1>16, <1>17 DEF Runs
<1>. QED
  BY ZenonT(60), <1>1, <1>5, <1>10, <1>18

-----------------------------------------------------------------------------
(* What is said of the code stays so: once written, it does not change.    *)

Written == code' = code /\ kind' = kind

\* An item is what it was.
LEMMA SameOps ==
    ASSUME Written
    PROVE  /\ P' = P
           /\ \A t, i : Op(t, i)' = Op(t, i) /\ EndOf(t, i)' = EndOf(t, i) /\ ElseOf(t, i)' = ElseOf(t, i)
           /\ \A t, j, e : NameAt(t, j, e)' = NameAt(t, j, e)
  BY ZenonT(60) DEF Written, P, Op, EndOf, ElseOf, NameAt

\* So are the sets of variables and frames.
LEMMA SameSets == ASSUME Written PROVE VarSet' = VarSet /\ FrameSet' = FrameSet
<1>1. VarSet' = VarSet
  BY ZenonT(60), SameOps DEF VarSet
<1>. QED
  BY ZenonT(60), <1>1 DEF FrameSet

\* So are the scopes.
LEMMA SameScopes ==
    ASSUME Written
    PROVE  /\ \A t, i : Plain(t, i)' <=> Plain(t, i)
           /\ \A W, t, i : Complete(W, t, i)' <=> Complete(W, t, i)
           /\ \A W, t, i : Upto(W, t, i)' <=> Upto(W, t, i)
<1>1. code' = code
  BY ZenonT(60) DEF Written
<1>2. \A t, j, e : Own(t, j, e)' <=> Own(t, j, e)
  BY ZenonT(60), <1>1, SameOps DEF Own
<1>3. \A t, j, i : InScope(t, j, i)' <=> InScope(t, j, i)
  BY ONLY SMTT(30), <1>1 DEF InScope, Op, EndOf, ElseOf
<1>4. \A t, i, j, e : Slot(t, i, j, e)' <=> Slot(t, i, j, e)
  BY ZenonT(60), <1>1, <1>2, <1>3 DEF Slot
<1>5. \A t, i : Plain(t, i)' <=> Plain(t, i)
  BY ZenonT(60), <1>1 DEF Plain, Op, EndOf
<1>6. \A W, t, i : Complete(W, t, i)' <=> Complete(W, t, i)
  BY ZenonT(60), <1>4 DEF Complete
<1>7. \A W, t, i : Upto(W, t, i)' <=> Upto(W, t, i)
  BY ZenonT(60), <1>2, <1>4 DEF Upto
<1>. QED
  BY ZenonT(60), <1>5, <1>6, <1>7

\* So is what is known of a list.
LEMMA SameLists ==
    ASSUME Written
    PROVE  \A c, s, n : LevelOk(c, s, n)' <=> LevelOk(c, s, n)
<1>1. code' = code
  BY ZenonT(60) DEF Written
<1>2. \A W, t, a : Stack(W, t, a)' <=> Stack(W, t, a)
  <2>1. VarSet' = VarSet /\ \A t, j, e : NameAt(t, j, e)' = NameAt(t, j, e)
    BY ZenonT(60), SameOps, SameSets
  <2>. QED
    BY ONLY SMTT(30), <2>1 DEF Stack
<1>3. \A v, t, s, n : ValueOk(v, t, s, n)' <=> ValueOk(v, t, s, n)
  <2>1. \A t, i : Op(t, i)' = Op(t, i)
    BY ZenonT(60), SameOps
  <2>. QED
    BY ONLY SMTT(30), <1>1, <2>1 DEF ValueOk
<1>4. \A W, t, s, n : Valued(W, t, s, n)' <=> Valued(W, t, s, n)
  BY ZenonT(60), <1>3 DEF Valued
<1>5. \A t, i, u : Innermost(t, i, u)' <=> Innermost(t, i, u)
  BY ZenonT(60), <1>1, SameOps DEF Innermost
<1>. QED
  BY ZenonT(60), <1>1, <1>2, <1>4, <1>5 DEF LevelOk

\* So are the lists being walked.
LEMMA SameRuns ==
    ASSUME Written
    PROVE  \A s, a, v, n : Runs(s, a, v, n)' <=> Runs(s, a, v, n)
<1>1. code' = code
  BY ZenonT(60) DEF Written
<1>2. \A f, b, c : FrameOk(f, b, c)' <=> FrameOk(f, b, c)
  <2> SUFFICES ASSUME NEW f, NEW b, NEW c PROVE FrameOk(f, b, c)' <=> FrameOk(f, b, c)
    BY ZenonT(60)
  <2>1. /\ FrameSet' = FrameSet
        /\ Op(b.at[1], b.at[2])' = Op(b.at[1], b.at[2])
        /\ Complete(b.vars, b.at[1], b.at[2])' <=> Complete(b.vars, b.at[1], b.at[2])
        /\ Upto(b.vars, b.at[1], b.at[2])' <=> Upto(b.vars, b.at[1], b.at[2])
    BY ZenonT(60), SameOps, SameSets, SameScopes
  <2>. QED
    BY ZenonT(60), <1>1, <2>1 DEF FrameOk
<1>3. \A g, s, c : Chain(g, s, c)' <=> Chain(g, s, c)
  BY ZenonT(60), <1>2, SameSets, SameLists DEF Chain
<1>. QED
  BY ZenonT(60), <1>3, SameScopes DEF Runs

-----------------------------------------------------------------------------
(* The walk, step by step.                                                 *)

\* Programs without {{fill}}: the calls are those of Runs, and there are no fillers.
RunInv ==
    /\ outcome = "writing" => ks = <<>> /\ fillers = {} /\ filling = FALSE /\ act = 0
    /\ outcome = "running" /\ "fill" \notin P.ops => Runs(ks, at, vars, act) /\ fillers = {} /\ filling = FALSE

\* Nothing runs at first.
LEMMA RunInit == Init => RunInv
  BY ZenonT(60) DEF Init, RunInv

\* Execute
LEMMA RunsExecute ==
    ASSUME \A t \in Names : Whole(t), RunInv, Execute
    PROVE  Runs(ks', at', vars', act') /\ fillers' = {} /\ filling' = FALSE
<1>1. ks = <<>> /\ fillers = {} /\ filling = FALSE /\ act = 0
  BY ZenonT(60) DEF RunInv, Execute
<1>2. PICK t \in Names : vars' = Dollar(t, 1) /\ at' = <<t, 1>>
  BY ONLY SMTT(30), Execute, <1>1 DEF Execute, Invoke
<1>3. ks' = <<>> /\ fillers' = {} /\ filling' = FALSE /\ act' = 1
  BY ONLY SMTT(30), Execute, <1>1 DEF Execute
<1> DEFINE c == Level(<<t, 1>>, Dollar(t, 1), 1, 0)
           g == [n \in {0} |-> c]
<1>4. 1 \in Nat /\ Whole(t)
  BY ZenonT(60)
<1>5. /\ Stack(Dollar(t, 1), t, 1) /\ Valued(Dollar(t, 1), t, <<>>, 0)
      /\ Complete(Dollar(t, 1), t, 1) /\ Innermost(t, 1, 0) /\ 1 \in 1..Len(code[t])
  BY ZenonT(60), <1>4, DollarFacts
<1>6. c.at = <<t, 1>> /\ c.at[1] = t /\ c.at[2] = 1 /\ c.vars = Dollar(t, 1) /\ c.act = 1 /\ c.up = 0
      /\ <<t, 1>> \in Names \X Nat
  BY ZenonT(60) DEF Level
<1> HIDE DEF c
<1>7. LevelOk(c, <<>>, 0)
  BY ZenonT(60), <1>4, <1>5, <1>6 DEF LevelOk
<1>8. g[0] = c
  BY ZenonT(60)
<1> HIDE DEF g
<1>9. Chain(g, <<>>, c)
  <2>1. <<>> \in Seq(FrameSet) /\ Len(<<>>) = 0 /\ 1..0 = {} /\ 0..0 = {0}
    OBVIOUS
  <2>2. \A n \in 0..0 : n = 0
    BY ZenonT(60), <2>1
  <2>3. \A n \in 1..0 : FALSE
    OBVIOUS
  <2>. QED
    BY ZenonT(60), <1>6, <1>7, <1>8, <2>1, <2>2, <2>3 DEF Chain
<1>10. <<t, 1>>[1] = t /\ <<t, 1>>[2] = 1
  BY ZenonT(60)
<1>11. Runs(<<>>, <<t, 1>>, Dollar(t, 1), 1)
  BY ZenonT(60), <1>5, <1>9, <1>10 DEF Runs, c
<1>. QED
  BY ZenonT(60), <1>2, <1>3, <1>11

\* A program without {{fill}} makes no such call.
LEMMA NoFill ==
    ASSUME \A t \in Names : Whole(t), Runs(ks, at, vars, act), "fill" \notin P.ops
    PROVE  ~walkFill /\ ~endFill
<1>1. PICK u, g : Chain(g, ks, Level(at, vars, act, u))
  BY ZenonT(60) DEF Runs
<1>2. PICK t, i : Now(t, i, u)
  BY ZenonT(60), <1>1, NowFacts
<1>3. Item.op \in P.ops
  <2>1. Whole(t) /\ i \in 1..Len(code[t]) /\ Item.op = Op(t, i)
    BY ZenonT(60), <1>2 DEF Now
  <2>. QED
    BY ZenonT(60), <2>1, DeclsTypes
<1>4. ~walkFill
  BY ZenonT(60), <1>3 DEF walkFill
<1>5. ASSUME ks # <<>> PROVE Top.k # "fill"
  <2>1. PICK b, p, o : Caller(g, b, p, o, t, u)
    BY ZenonT(60), <1>1, <1>2, <1>5, CallerFacts
  <2>2. Top \in FrameSet
    BY ZenonT(60), <2>1 DEF Caller
  <2>. QED
    BY ZenonT(60), <2>2 DEF FrameSet
<1>. QED
  BY ZenonT(60), <1>4, <1>5 DEF endFill

\* Every step of the walk.
LEMMA RunsWalk ==
    ASSUME kind \in DOMAIN Programs, \A t \in Names : Whole(t), Runs(ks, at, vars, act), fillers = {}, filling = FALSE,
           "fill" \notin P.ops, Walk, outcome' = "running"
    PROVE  Runs(ks', at', vars', act') /\ fillers' = {} /\ filling' = FALSE
<1>1. \/ walkAction \/ walkIfOrWith \/ endIfOrWith \/ walkRange \/ endRange
      \/ walkTemplate \/ endTemplate \/ walkBlock \/ endBlock
  <2>1. ~Halt("deep")
    BY ZenonT(60) DEF Halt
  <2>. QED
    BY ZenonT(60), <2>1, NoFill DEF Walk
<1>2. ASSUME walkAction \/ walkIfOrWith \/ endIfOrWith \/ walkRange \/ endRange \/ endBlock
      PROVE  fillers' = {} /\ filling' = FALSE
  BY ZenonT(60), <1>2 DEF walkAction, walkIfOrWith, endIfOrWith, walkRange, endRange, endBlock, SameState, Halt
<1>3. CASE walkAction
  BY ZenonT(60), <1>2, <1>3, RunsAction
<1>4. CASE walkIfOrWith
  BY ZenonT(60), <1>2, <1>4, RunsIf
<1>5. CASE endIfOrWith
  BY ZenonT(60), <1>2, <1>5, RunsEndIf
<1>6. CASE walkRange
  BY ZenonT(60), <1>2, <1>6, RunsRange
<1>7. CASE endRange
  BY ZenonT(60), <1>2, <1>7, RunsEndRange
<1>8. CASE walkTemplate
  BY ZenonT(60), <1>8, RunsTemplate
<1>9. CASE endTemplate
  BY ZenonT(60), <1>9, RunsEndTemplate
<1>10. CASE walkBlock
  BY ZenonT(60), <1>10, RunsBlock
<1>11. CASE endBlock
  BY ZenonT(60), <1>2, <1>11, RunsEndBlock
<1>. QED
  BY ZenonT(60), <1>1, <1>3, <1>4, <1>5, <1>6, <1>7, <1>8, <1>9, <1>10, <1>11

\* Every step keeps RunInv.
LEMMA RunNext == CodeInv /\ RunInv /\ [Next]_allVars => RunInv'
<1> SUFFICES ASSUME CodeInv, RunInv, [Next]_allVars PROVE RunInv'
  BY ZenonT(60)
<1>1. ASSUME Written, outcome' = "running",
             "fill" \notin P.ops => Runs(ks', at', vars', act') /\ fillers' = {} /\ filling' = FALSE
      PROVE  RunInv'
  <2>1. P' = P
    BY ZenonT(60), <1>1, SameOps
  <2>2. Runs(ks', at', vars', act') => Runs(ks, at, vars, act)'
    BY ZenonT(60), <1>1, SameRuns
  <2>3. outcome' # "writing"
    BY ZenonT(60), <1>1
  <2>. QED
    BY ZenonT(60), <1>1, <2>1, <2>2, <2>3 DEF RunInv
<1>2. ASSUME outcome' \notin {"writing", "running"} PROVE RunInv'
  BY ZenonT(60), <1>2 DEF RunInv
<1>3. ASSUME NEW it \in Items, Write(it) PROVE RunInv'
  <2>1. UNCHANGED <<kind, execVars>> /\ outcome = "writing"
    BY ZenonT(60), <1>3 DEF Write, WriteNode, WriteElse, WriteEnd, Writing
  <2>2. outcome' = "writing" /\ ks' = ks /\ fillers' = fillers /\ filling' = filling /\ act' = act
    BY ZenonT(60), <2>1 DEF execVars
  <2>. QED
    BY ZenonT(60), <2>1, <2>2 DEF RunInv
<1>4. CASE Execute
  <2>1. done = Len(Order) /\ outcome' = "running" /\ Written
    BY ZenonT(60), <1>4 DEF Execute, parseVars, Written
  <2>2. \A t \in Names : Whole(t)
    BY ZenonT(60), <2>1, AllWhole
  <2>. QED
    BY ZenonT(60), <1>1, <1>4, <2>1, <2>2, RunsExecute
<1>5. CASE Walk
  <2>1. outcome = "running" /\ Written
    BY ZenonT(60), <1>5 DEF Walk, Running, parseVars, Written
  <2>2. outcome' \in {"running", "error", "done", "deep"}
    BY ZenonT(60), <1>5, <2>1 DEF Walk, Halt, walkAction, walkIfOrWith, endIfOrWith, walkRange, endRange, walkTemplate,
                      endTemplate, walkBlock, endBlock, walkFill, endFill, SameState
  <2>3. CASE outcome' = "running"
    <3>1. done = Len(Order) /\ kind \in DOMAIN Programs
      BY ZenonT(60), <2>1 DEF CodeInv
    <3>2. \A t \in Names : Whole(t)
      BY ZenonT(60), <3>1, AllWhole
    <3>3. "fill" \notin P.ops => Runs(ks, at, vars, act) /\ fillers = {} /\ filling = FALSE
      BY ZenonT(60), <2>1 DEF RunInv
    <3>4. "fill" \notin P.ops => Runs(ks', at', vars', act') /\ fillers' = {} /\ filling' = FALSE
      BY ZenonT(60), <1>5, <2>3, <3>1, <3>2, <3>3, RunsWalk
    <3>. QED
      BY ZenonT(60), <1>1, <2>1, <2>3, <3>4
  <2>. QED
    BY ZenonT(60), <1>2, <2>2, <2>3
<1>6. CASE UNCHANGED allVars
  <2>1. /\ Written /\ outcome' = outcome /\ ks' = ks /\ at' = at /\ vars' = vars /\ act' = act
        /\ fillers' = fillers /\ filling' = filling
    BY ZenonT(60), <1>6 DEF allVars, parseVars, execVars, Written
  <2>2. CASE outcome = "running"
    <3>1. "fill" \notin P.ops => Runs(ks', at', vars', act') /\ fillers' = {} /\ filling' = FALSE
      BY ZenonT(60), <2>1, <2>2 DEF RunInv
    <3>. QED
      BY ZenonT(60), <1>1, <2>1, <2>2, <3>1
  <2>3. CASE outcome # "running"
    BY ZenonT(60), <2>1, <2>3 DEF RunInv
  <2>. QED
    BY ZenonT(60), <2>2, <2>3
<1>. QED
  BY ZenonT(60), <1>3, <1>4, <1>5, <1>6 DEF Next

-----------------------------------------------------------------------------
(* What a variable means.                                                  *)

\* The greatest of a set of numbers is the one that is chosen.
LEMMA Chosen ==
    ASSUME NEW T \in SUBSET Nat, NEW m \in T, \A j \in T : j <= m
    PROVE  (CHOOSE i \in T : \A j \in T : j <= i) = m
<1> DEFINE c == CHOOSE i \in T : \A j \in T : j <= i
<1>1. c \in T /\ \A j \in T : j <= c
  <2>1. \E i \in T : \A j \in T : j <= i
    BY ZenonT(60)
  <2>. QED
    BY ZenonT(60), <2>1
<1> HIDE DEF c
<1>2. c \in Nat /\ m \in Nat /\ c <= m /\ m <= c
  BY ZenonT(60), <1>1
<1>3. c = m
  BY ONLY SMTT(30), <1>2
<1>. QED
  BY ZenonT(60), <1>3 DEF c

\* The declarations of x in scope are those of the variables of that name.
Means(x, t, ds) ==
    /\ Found(x) \subseteq 1..Len(vars) /\ ds \subseteq Nat
    /\ \A q \in Found(x) : vars[q].site[2] \in ds
    /\ \A j \in ds : \E q \in Found(x) : vars[q].site[2] = j
    /\ \A j \in ds : \A e \in Nat :
          j # 0 /\ Own(t, j, e) /\ code[t][j].decls[e] = x
             => \E q \in Found(x) : vars[q].site[2] = j /\ vars[q].nth = e

\* A complete stack has the declarations in scope.
LEMMA FoundDeclared ==
    ASSUME NEW t, Whole(t), NEW i \in 1..Len(code[t]), NEW a, Stack(vars, t, a), Complete(vars, t, i), NEW x
    PROVE  Means(x, t, Declarations(t, x, i))
<1>1. vars \in Seq(VarSet) /\ DOMAIN vars = 1..Len(vars)
  BY ZenonT(60), SeqTypes DEF Stack
<1>2. DOMAIN code[t] = 1..Len(code[t]) /\ Len(code[t]) \in Nat
  BY ZenonT(60), LastFacts
<1>3. \A q \in 1..Len(vars) : /\ vars[q].site[2] \in Nat /\ vars[q].nth \in Nat
                              /\ vars[q].name = NameAt(t, vars[q].site[2], vars[q].nth)
  <2>1. \A q \in 1..Len(vars) : vars[q] \in VarSet
    BY ONLY SMTT(30), <1>1
  <2>2. \A v \in VarSet : v.site[2] \in Nat /\ v.nth \in Nat
    BY ZenonT(60) DEF VarSet
  <2>. QED
    BY ZenonT(60), <2>1, <2>2 DEF Stack
<1>4. \A q \in 1..Len(vars) : q \in Found(x) <=> vars[q].name = x
  BY ZenonT(60), <1>1 DEF Found
<1>5. Found(x) \subseteq 1..Len(vars)
  BY ZenonT(60), <1>1 DEF Found
<1>6. \A j, e \in Nat : (\E q \in 1..Len(vars) : vars[q].site[2] = j /\ vars[q].nth = e) <=> Slot(t, i, j, e)
  BY ZenonT(60) DEF Complete, Has
<1>7. \A j : j \in Declarations(t, x, i) <=>
                \/ j = 0 /\ x = "$"
                \/ j \in 1..Len(code[t]) /\ InScope(t, j, i) /\ \E e : Own(t, j, e) /\ code[t][j].decls[e] = x
  <2>1. \A j : j \in Declarations(t, x, i) <=>
                  \/ j = 0 /\ x = "$"
                  \/ /\ j \in 1..Len(code[t]) /\ Op(t, j) # "use" /\ InScope(t, j, i)
                     /\ \E e \in DOMAIN code[t][j].decls : code[t][j].decls[e] = x
    BY ZenonT(60), <1>2 DEF Declarations
  <2>. QED
    BY ZenonT(60), <2>1 DEF Own
<1>8. Declarations(t, x, i) \subseteq Nat
  <2>1. \A j \in 1..Len(code[t]) : j \in Nat
    OBVIOUS
  <2>2. 0 \in Nat
    BY ZenonT(60)
  <2>. QED
    BY ZenonT(60), <1>7, <2>1, <2>2
<1>9. ASSUME NEW q \in Found(x) PROVE vars[q].site[2] \in Declarations(t, x, i)
  <2> DEFINE j == vars[q].site[2]
             e == vars[q].nth
  <2>1. q \in 1..Len(vars) /\ j \in Nat /\ e \in Nat /\ x = NameAt(t, j, e)
    BY ZenonT(60), <1>3, <1>4, <1>5
  <2>2. Slot(t, i, j, e)
    BY ZenonT(60), <1>6, <2>1
  <2> HIDE DEF j, e
  <2>3. CASE j = 0
    <3>1. x = "$"
      BY ZenonT(60), <2>1, <2>3 DEF NameAt
    <3>. QED
      BY ZenonT(60), <1>7, <2>3, <3>1 DEF j
  <2>4. CASE j # 0
    <3>1. x = code[t][j].decls[e]
      BY ZenonT(60), <2>1, <2>4 DEF NameAt
    <3>2. j \in 1..Len(code[t]) /\ Own(t, j, e) /\ InScope(t, j, i)
      BY ZenonT(60), <2>2, <2>4 DEF Slot
    <3>. QED
      BY ZenonT(60), <1>7, <3>1, <3>2 DEF j
  <2>. QED
    BY ZenonT(60), <2>3, <2>4
<1>10. ASSUME NEW j, NEW e \in Nat, j \in 1..Len(code[t]), InScope(t, j, i), Own(t, j, e), code[t][j].decls[e] = x
       PROVE  \E q \in Found(x) : vars[q].site[2] = j /\ vars[q].nth = e
  <2>1. j \in Nat /\ j # 0 /\ Slot(t, i, j, e)
    BY ONLY SMTT(30), <1>10 DEF Slot
  <2>2. PICK q \in 1..Len(vars) : vars[q].site[2] = j /\ vars[q].nth = e
    BY ZenonT(60), <1>6, <2>1
  <2>3. vars[q].name = x
    BY ZenonT(60), <1>3, <1>10, <2>1, <2>2 DEF NameAt
  <2>. QED
    BY ZenonT(60), <1>4, <2>2, <2>3
<1>11. ASSUME NEW j \in Declarations(t, x, i) PROVE \E q \in Found(x) : vars[q].site[2] = j
  <2>1. CASE j = 0 /\ x = "$"
    <3>1. 0 \in Nat /\ 1 \in Nat
      BY ZenonT(60)
    <3>2. Slot(t, i, 0, 1)
      BY ZenonT(60) DEF Slot
    <3>3. PICK q \in 1..Len(vars) : vars[q].site[2] = 0 /\ vars[q].nth = 1
      BY ZenonT(60), <1>6, <3>1, <3>2
    <3>4. vars[q].name = x
      BY ZenonT(60), <1>3, <2>1, <3>3 DEF NameAt
    <3>. QED
      BY ZenonT(60), <1>4, <2>1, <3>3, <3>4
  <2>2. CASE j \in 1..Len(code[t]) /\ InScope(t, j, i) /\ \E e : Own(t, j, e) /\ code[t][j].decls[e] = x
    <3>1. PICK e : Own(t, j, e) /\ code[t][j].decls[e] = x
      BY ZenonT(60), <2>2
    <3>2. e \in Nat
      <4>1. DOMAIN code[t][j].decls = 1..Len(code[t][j].decls)
        BY ZenonT(60), <2>2, DeclsTypes
      <4>. QED
        BY ONLY SMTT(30), <3>1, <4>1 DEF Own
    <3>. QED
      BY ZenonT(60), <1>10, <2>2, <3>1, <3>2
  <2>. QED
    BY ZenonT(60), <1>7, <2>1, <2>2
<1>12. ASSUME NEW j \in Declarations(t, x, i), NEW e \in Nat, j # 0, Own(t, j, e), code[t][j].decls[e] = x
       PROVE  \E q \in Found(x) : vars[q].site[2] = j /\ vars[q].nth = e
  <2>1. j \in 1..Len(code[t]) /\ InScope(t, j, i)
    BY ZenonT(60), <1>7, <1>12
  <2>. QED
    BY ZenonT(60), <1>10, <1>12, <2>1
<1>. QED
  BY ZenonT(60), <1>5, <1>8, <1>9, <1>11, <1>12 DEF Means

\* v, declared at j, is the last variable there exactly if that one is called x.
IsOf(v, t, j, x) ==
    /\ j \in Nat /\ j # 0 /\ v.site[2] = j /\ ValueOk(v, t, ks, Len(ks))
    /\ Last(code[t][j].decls) = x <=> v.nth = Len(code[t][j].decls)

\* The value that ValueOk gives a variable is the one ValueOf looks for.
LEMMA ValueFound ==
    ASSUME \A p \in Names : Whole(p), NEW u, NEW g, Chain(g, ks, Level(at, vars, act, u)), NEW t, NEW i, Now(t, i, u),
           NEW v, NEW j, NEW x, IsOf(v, t, j, x)
    PROVE  v.val = ValueOf(j, x)
<1> DEFINE d == code[at[1]][j].decls
           rs == {m \in DOMAIN ks : ks[m].k = "range" /\ ks[m].ret = <<at[1], j>>}
           c == CHOOSE m \in rs : \A e \in rs : e <= m
<1>1. at[1] = t /\ ks \in Seq(FrameSet) /\ DOMAIN ks = 1..Len(ks) /\ Len(ks) \in Nat
  BY ZenonT(60), SeqTypes DEF Now
<1>2. ValueOf(j, x) = IF rs = {} \/ ks[c].n = 0 THEN <<"pipe", 0>>
                      ELSE <<IF Last(d) = x THEN "elem" ELSE "index", ks[c].iter>>
  BY ZenonT(60) DEF ValueOf
<1> HIDE DEF c
<1>3. \A m : m \in rs <=> m \in 1..Len(ks) /\ ks[m].k = "range" /\ ks[m].ret = <<t, j>>
  BY ZenonT(60), <1>1
<1> HIDE DEF rs
<1>4. CASE Op(t, j) = "range"
  <2>1. PICK m \in 1..Len(ks) : LastRange(ks, Len(ks), m, t, j) /\ v.val = RangeVal(ks[m], v.nth, Len(d))
    BY ZenonT(60), <1>1, <1>4 DEF ValueOk, IsOf
  <2>2. m \in rs /\ rs \subseteq Nat
    BY ONLY SMTT(30), <1>3, <2>1 DEF LastRange
  <2>3. ASSUME NEW e \in rs PROVE e <= m
    <3>1. e \in 1..Len(ks) /\ ks[e].k = "range" /\ ks[e].ret = <<t, j>>
      BY ZenonT(60), <1>3
    <3>2. e \notin m+1..Len(ks)
      BY ZenonT(60), <2>1, <3>1 DEF LastRange
    <3>. QED
      BY ONLY SMTT(30), <1>1, <2>1, <3>1, <3>2
  <2>4. c = m
    BY ZenonT(60), <2>2, <2>3, Chosen DEF c
  <2>. QED
    BY ZenonT(60), <1>1, <1>2, <2>1, <2>2, <2>4 DEF RangeVal, IsOf
<1>5. CASE Op(t, j) # "range"
  <2>1. v.val = <<"pipe", 0>>
    BY ZenonT(60), <1>5 DEF ValueOk, IsOf
  <2>2. ASSUME NEW m \in rs PROVE FALSE
    <3>1. m \in 1..Len(ks) /\ ks[m].k = "range" /\ ks[m].ret = <<t, j>>
      BY ZenonT(60), <1>3
    <3>2. ks[m].k # "call"
      BY ZenonT(60), <3>1
    <3>3. ks[m].ret = g[m - 1].at /\ Op(g[m - 1].at[1], g[m - 1].at[2]) = ks[m].k
      BY ZenonT(60), <3>1, <3>2 DEF Chain, FrameOk
    <3>4. g[m - 1].at[1] = t /\ g[m - 1].at[2] = j
      BY ONLY SMTT(30), <3>1, <3>3
    <3>. QED
      BY ZenonT(60), <1>5, <3>1, <3>3, <3>4
  <2>3. rs = {}
    BY ZenonT(60), <2>2
  <2>. QED
    BY ZenonT(60), <1>2, <2>1, <2>3
<1>. QED
  BY ZenonT(60), <1>4, <1>5

\* So varValue finds the declaration that is meant.
LEMMA Resolved ==
    ASSUME \A t \in Names : Whole(t), Runs(ks, at, vars, act)
    PROVE  ResolvesAsWritten
<1>1. PICK u, g : Chain(g, ks, Level(at, vars, act, u))
  BY ZenonT(60) DEF Runs
<1>2. PICK t, i : Now(t, i, u)
  BY ZenonT(60), <1>1, NowFacts
<1>3. /\ t \in Names /\ i \in 1..Len(code[t]) /\ Whole(t) /\ at = <<t, i>> /\ at[1] = t /\ at[2] = i
      /\ Item.op = Op(t, i) /\ Stack(vars, t, act) /\ Valued(vars, t, ks, Len(ks))
      /\ vars \in Seq(VarSet) /\ Len(vars) \in Nat
  BY ZenonT(60), <1>2 DEF Now
<1> SUFFICES ASSUME AtUse PROVE ResolvesAsWritten
  BY ZenonT(60) DEF ResolvesAsWritten
<1>4. Complete(vars, t, i)
  <2>1. Op(t, i) \notin {"else", "end"}
    BY ZenonT(60), <1>3 DEF AtUse
  <2>. QED
    BY ZenonT(60), <1>3, <2>1, PlainItem DEF Runs
<1> DEFINE x == Item.decls[1]
           ds == Declarations(at[1], x, at[2])
           j == CHOOSE d \in ds : \A e \in ds : e <= d
<1>5. SUFFICES IF ds = {} THEN Found(x) = {}
               ELSE /\ Found(x) # {}
                    /\ varValue(x).site = <<at[1], j>>
                    /\ varValue(x).act = act
                    /\ varValue(x).val = IF j = 0 THEN <<"pipe", 0>> ELSE ValueOf(j, x)
  BY ZenonT(60) DEF ResolvesAsWritten
<1>6. /\ Found(x) \subseteq 1..Len(vars) /\ ds \subseteq Nat
      /\ \A q \in Found(x) : vars[q].site[2] \in ds
      /\ \A e \in ds : \E q \in Found(x) : vars[q].site[2] = e
      /\ \A e \in ds : \A n \in Nat :
            e # 0 /\ Own(t, e, n) /\ code[t][e].decls[n] = x
               => \E q \in Found(x) : vars[q].site[2] = e /\ vars[q].nth = n
  <2> HIDE DEF x
  <2>1. ds = Declarations(t, x, i)
    BY ZenonT(60), <1>3
  <2>2. Means(x, t, Declarations(t, x, i))
    BY ZenonT(60), <1>3, <1>4, FoundDeclared
  <2> HIDE DEF ds
  <2>3. Means(x, t, ds)
    BY ZenonT(60), <2>1, <2>2
  <2>. QED
    BY ZenonT(60), <2>3 DEF Means
<1>7. \A q \in 1..Len(vars) : /\ vars[q].site = <<t, vars[q].site[2]>> /\ vars[q].act = act
                              /\ vars[q].site[2] \in Nat /\ vars[q].nth \in Nat
                              /\ vars[q].name = NameAt(t, vars[q].site[2], vars[q].nth)
  <2>1. \A v \in VarSet : v.site = <<v.site[1], v.site[2]>> /\ v.site[2] \in Nat /\ v.nth \in Nat
    BY DEF VarSet
  <2>2. \A q \in 1..Len(vars) : vars[q] \in VarSet
    BY ONLY SMTT(30), <1>3
  <2>. QED
    BY ZenonT(60), <1>3, <2>1, <2>2 DEF Stack
<1> HIDE DEF j, ds, x
<1>8. CASE Found(x) = {}
  <2>1. ds = {}
    BY ZenonT(60), <1>6, <1>8
  <2>. QED
    BY ZenonT(60), <1>8, <2>1
<1>9. CASE Found(x) # {}
  <2>1. PICK m \in Found(x) : \A q \in Found(x) : q <= m
    <3>1. Found(x) = {q \in 1..Len(vars) : vars[q].name = x}
      BY ZenonT(60), <1>3, SeqTypes DEF Found
    <3>2. LastNamed(vars)
      BY ZenonT(60), <1>3 DEF Stack
    <3>. QED
      <4>1. PICK p \in 1..Len(vars) : vars[p].name = x
        BY ZenonT(60), <1>9, <3>1
      <4>2. PICK k \in 1..Len(vars) :
               vars[k].name = vars[p].name /\ \A q \in 1..Len(vars) : vars[q].name = vars[p].name => q <= k
        BY ZenonT(60), <3>2 DEF LastNamed
      <4>3. k \in Found(x) /\ \A q \in Found(x) : q <= k
        BY ZenonT(60), <3>1, <4>1, <4>2
      <4>. QED
        BY ZenonT(60), <4>3
  <2> DEFINE v == vars[m]
  <2>2. varValue(x) = v
    <3>1. Found(x) \in SUBSET Nat
      BY ONLY SMTT(30), <1>6
    <3>2. (CHOOSE i_1 \in Found(x) : \A j_1 \in Found(x) : j_1 <= i_1) = m
      BY ZenonT(60), <2>1, <3>1, Chosen
    <3>. QED
      BY ZenonT(60), <3>2 DEF varValue
  <2>3. m \in 1..Len(vars) /\ v.site[2] \in ds
    BY ZenonT(60), <1>6
  <2>4. ASSUME NEW q \in Found(x)
        PROVE  vars[q].site[2] <= v.site[2] /\ (vars[q].site[2] = v.site[2] => vars[q].nth <= v.nth)
    <3>1. q \in 1..Len(vars) /\ (q = m \/ q < m)
      BY ONLY SMTT(30), <1>6, <2>1, <2>3
    <3>2. vars[q].site[2] \in Nat /\ v.site[2] \in Nat /\ vars[q].nth \in Nat /\ v.nth \in Nat
      BY ZenonT(60), <1>7, <2>3, <3>1
    <3>3. CASE q = m
      BY ONLY SMTT(30), <3>2, <3>3
    <3>4. CASE q < m
      <4>1. \/ vars[q].site[2] < v.site[2]
            \/ vars[q].site[2] = v.site[2] /\ vars[q].nth < v.nth
        BY ZenonT(60), <1>3, <2>3, <3>1, <3>4 DEF Stack
      <4>. QED
        BY ONLY SMTT(30), <3>2, <4>1
    <3>. QED
      BY ZenonT(60), <3>1, <3>3, <3>4
  <2>5. j = v.site[2]
    <3>1. \A e \in ds : e <= v.site[2]
      BY ZenonT(60), <1>6, <2>4
    <3>. QED
      BY ZenonT(60), <1>6, <2>3, <3>1, Chosen DEF j
  <2>6. /\ v.site = <<t, j>> /\ v.act = act /\ j \in Nat /\ v.nth \in Nat /\ v.name = NameAt(t, j, v.nth)
        /\ v.name = x /\ ValueOk(v, t, ks, Len(ks))
    <3>1. v.name = x
      BY ZenonT(60) DEF Found
    <3>. QED
      BY ZenonT(60), <1>3, <1>7, <2>3, <2>5, <3>1 DEF Valued
  <2>7. CASE j = 0
    <3>1. v.val = <<"pipe", 0>>
      BY ZenonT(60), <2>5, <2>6, <2>7 DEF ValueOk
    <3>. QED
      BY ZenonT(60), <1>3, <1>9, <2>2, <2>3, <2>6, <2>7, <3>1
  <2>8. CASE j # 0
    <3> DEFINE d == code[t][j].decls
    <3>1. Slot(t, i, j, v.nth)
      BY ZenonT(60), <1>4, <2>3, <2>5, <2>6 DEF Complete, Has
    <3>2. j \in 1..Len(code[t]) /\ Own(t, j, v.nth)
      BY ZenonT(60), <2>8, <3>1 DEF Slot
    <3>3. DOMAIN d = 1..Len(d) /\ Len(d) \in Nat
      BY ONLY SMTT(30), <1>3, <3>2, DeclsTypes
    <3>4. v.nth \in 1..Len(d) /\ d[v.nth] = x
      BY ZenonT(60), <2>6, <2>8, <3>2, <3>3 DEF Own, NameAt
    <3>5. Len(d) \in 1..Len(d) /\ Len(d) \in Nat
      BY ONLY SMTT(30), <3>3, <3>4
    <3>6. v.nth = Len(d) => Last(d) = x
      BY ZenonT(60), <3>4 DEF Last
    <3>7. ASSUME Last(d) = x PROVE v.nth = Len(d)
      <4>1. Own(t, j, Len(d)) /\ d[Len(d)] = x
        BY ZenonT(60), <3>2, <3>3, <3>5, <3>7 DEF Own, Last
      <4>2. j \in ds
        BY ZenonT(60), <2>3, <2>5
      <4>3. PICK r \in Found(x) : vars[r].site[2] = j /\ vars[r].nth = Len(d)
        BY ZenonT(60), <1>6, <2>8, <3>5, <4>1, <4>2
      <4>4. Len(d) <= v.nth
        BY ZenonT(60), <2>4, <2>5, <4>3
      <4>. QED
        BY ONLY SMTT(30), <3>3, <3>4, <4>4
    <3>8. IsOf(v, t, j, x)
      BY ZenonT(60), <2>5, <2>6, <2>8, <3>6, <3>7 DEF IsOf
    <3>9. v.val = ValueOf(j, x)
      <4> HIDE DEF v
      <4>. QED
        BY ONLY SMTT(30), \A p \in Names : Whole(p), <1>1, <1>2, <3>8, ValueFound
    <3>. QED
      BY ZenonT(60), <1>3, <1>9, <2>2, <2>3, <2>6, <2>8, <3>9
  <2>. QED
    BY ZenonT(60), <2>7, <2>8
<1>. QED
  BY ZenonT(60), <1>8, <1>9

\* A variable means at run time what it means where it is written, in every set of
\* templates without {{fill}}, however they are nested, invoked and iterated:
\* varValue finds the innermost declaration in scope, of this invocation, with the
\* value of this iteration.  Proved from WrittenAreNested and RunInv.
THEOREM VariablesResolve == Spec => []("fill" \notin P.ops => ResolvesAsWritten)
<1>1. CodeInv /\ RunInv => ("fill" \notin P.ops => ResolvesAsWritten)
  <2> SUFFICES ASSUME CodeInv, RunInv, "fill" \notin P.ops PROVE ResolvesAsWritten
    BY ZenonT(60)
  <2>1. CASE outcome = "running"
    <3>1. done = Len(Order) /\ Runs(ks, at, vars, act)
      BY ZenonT(60), <2>1 DEF CodeInv, RunInv
    <3>2. \A t \in Names : Whole(t)
      BY ZenonT(60), <3>1, AllWhole
    <3>. QED
      BY ZenonT(60), <3>1, <3>2, Resolved
  <2>2. CASE outcome # "running"
    BY ZenonT(60), <2>2 DEF ResolvesAsWritten, AtUse, Running
  <2>. QED
    BY ZenonT(60), <2>1, <2>2
<1>. QED
  BY <1>1, WrittenAreNested, RunInit, RunNext, PTL DEF Spec

=============================================================================
