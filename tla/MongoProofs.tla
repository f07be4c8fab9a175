----------------------------- MODULE MongoProofs -----------------------------
(***************************************************************************)
(* Proofs about MongoStore, for any sets of browsers, requests, keys and   *)
(* session IDs: its index keeps one document per session, and it           *)
(* implements PrivateSessions.                                             *)
(*                                                                         *)
(* As for the other stores, that Save changes what is kept for one browser *)
(* only rests on an ID having one holder, and on a new one naming no       *)
(* document; here New also removes documents, of any browser, which the    *)
(* private stores may forget.                                              *)
(***************************************************************************)
EXTENDS MongoStore, TLAPS

\* Holders(i), a browser at a time.
Holds(b, i) ==
    \/ jar[b] = i
    \/ \E r \in Requests : from[r] = b /\ (sid[r] = i \/ cookie[r] = i)

OneHolder ==
    \A i \in Ids : \A b, d \in Browsers : Holds(b, i) /\ Holds(d, i) => b = d

\* An ID that was never generated is held by nobody and names no document.
UnusedIsFree ==
    \A i \in Ids \ used : docs[i] = {} /\ \A b \in Browsers : ~Holds(b, i)

\* A request that New has not seen has no session ID and no Values.
FreshRequest ==
    \A r \in Requests : pc[r] \in {"idle", "new"} => sid[r] = NoId /\ vals[r] = {}

MInv == TypeOK /\ OneHolder /\ UnusedIsFree /\ FreshRequest /\ OneDocument

\* Holders and Holds say the same thing.
LEMMA HoldersHolds ==
    ASSUME TypeOK, NEW i \in Ids, NEW b
    PROVE  b \in Holders(i) <=> b \in Browsers /\ Holds(b, i)
BY DEF Holders, Holds, TypeOK, RequestsTypeOK

\* The store starts with no document and nobody holding an ID.
LEMMA InitMInv == Init => MInv
<1> SUFFICES ASSUME Init PROVE MInv
    OBVIOUS
<1> USE NoIdAssumption, StoreOptAssumption, MaxAgeAssumption DEF Init, RequestsInit
<1>1. TypeOK
    BY DEF TypeOK, RequestsTypeOK, Values, MaybeId, Ages, PcStates
<1>2. OneHolder /\ UnusedIsFree
    BY DEF OneHolder, UnusedIsFree, Holds
<1>3. FreshRequest /\ OneDocument
    BY DEF FreshRequest, OneDocument
<1> QED
    BY <1>1, <1>2, <1>3 DEF MInv

\* What Save does: the ID is the session's own or a new one, and at most one
\* document is added, under that ID.
LEMMA SaveDoes ==
    ASSUME TypeOK, NEW r \in Requests, Save(r)
    PROVE  \E id \in Ids :
              /\ (sid[r] = NoId /\ id \notin used) \/ sid[r] = id
              /\ sid' = [sid EXCEPT ![r] = id]
              /\ used' = used \cup {id}
              /\ \/ docs' = docs
                 \/ /\ indexed => docs[id] = {}
                    /\ docs' = [docs EXCEPT ![id] = @ \cup {[values |-> vals[r], age |-> now]}]
BY Zenon DEF Save, Upsert, GenerateRandomKey, MaybeId, TypeOK, RequestsTypeOK

\* The type of every variable is kept by every step.
LEMMA NextTypeOK == TypeOK /\ [Next]_vars => TypeOK'
<1> SUFFICES ASSUME TypeOK, [Next]_vars PROVE TypeOK'
    OBVIOUS
<1>v. {} \in Values /\ \A V \in Values : \A b \in Browsers : \A k \in Keys :
          V \cup {<<b, k>>} \in Values /\ V \ {<<b, k>>} \in Values
    BY DEF Values
<1>s. ASSUME NEW r \in Requests, Save(r)
      PROVE  sid' \in [Requests -> MaybeId] /\ used' \in SUBSET Ids /\ docs' \in [Ids -> SUBSET Doc]
  <2>1. PICK id \in Ids :
            /\ sid' = [sid EXCEPT ![r] = id]
            /\ used' = used \cup {id}
            /\ \/ docs' = docs
               \/ docs' = [docs EXCEPT ![id] = @ \cup {[values |-> vals[r], age |-> now]}]
      BY <1>s, SaveDoes
  <2>2. [values |-> vals[r], age |-> now] \in Doc
      BY DEF Doc, TypeOK, RequestsTypeOK
  <2> QED
      BY <2>1, <2>2 DEF TypeOK, RequestsTypeOK, MaybeId
<1> USE NoIdAssumption, StoreOptAssumption, MaxAgeAssumption
    DEF TypeOK, RequestsTypeOK, reqVars, history, sharedVars, mongoVars
<1>1. ASSUME NEW r \in Requests, Arrive(r), UNCHANGED mongoVars PROVE TypeOK'
    BY <1>1 DEF Arrive, PcStates
<1>2. ASSUME NEW r \in Requests, Reply(r), UNCHANGED mongoVars PROVE TypeOK'
    BY <1>2, <1>v DEF Reply, PcStates, MaybeId
<1>3. ASSUME NEW r \in Requests, Abandon(r), UNCHANGED mongoVars PROVE TypeOK'
    BY <1>3 DEF Abandon, PcStates
<1>4. ASSUME NEW r \in Requests, ExpireSession(r), UNCHANGED mongoVars PROVE TypeOK'
    BY <1>4 DEF ExpireSession, Ages
<1>5. ASSUME NEW r \in Requests, NEW k \in Keys, SetValue(r, k), UNCHANGED mongoVars PROVE TypeOK'
    BY Zenon, <1>5, <1>v DEF SetValue
<1>6. ASSUME NEW r \in Requests, NEW k \in Keys, DeleteValue(r, k), UNCHANGED mongoVars PROVE TypeOK'
    BY ZenonT(60), <1>6, <1>v DEF DeleteValue
<1>7. ASSUME NEW r \in Requests, New(r) PROVE TypeOK'
  <2>1. vals' \in [Requests -> Values]
    <3>1. \/ vals' = [vals EXCEPT ![r] = {}]
          \/ cookie[r] \in Ids /\ \E d \in docs[cookie[r]] : vals' = [vals EXCEPT ![r] = d.values]
        BY <1>7 DEF New, load, MaybeId
    <3>2. \A i \in Ids : \A d \in docs[i] : d.values \in Values
        BY DEF Doc
    <3> QED
        BY Zenon, <1>v, <3>1, <3>2
  <2>2. isNew' \in [Requests -> BOOLEAN] /\ clean' \in [Browsers -> BOOLEAN]
      BY ZenonT(60), <1>7 DEF New, load
  <2>3. sid' \in [Requests -> MaybeId]
      BY <1>7 DEF New, MaybeId
  <2> QED
      BY <1>7, <2>1, <2>2, <2>3 DEF New, PcStates
<1>8. ASSUME NEW r \in Requests, RemoveOlder(r) PROVE TypeOK'
  <2>1. docs' \in [Ids -> SUBSET Doc]
      BY <1>8 DEF RemoveOlder
  <2> QED
      BY <1>8, <2>1 DEF RemoveOlder, PcStates
<1>9. ASSUME NEW r \in Requests, Save(r) PROVE TypeOK'
  <2>1. pc' \in [Requests -> PcStates] /\ clean' \in [Browsers -> BOOLEAN]
      BY Zenon, <1>9 DEF Save, PcStates
  <2> QED
      BY Zenon, <1>9, <1>s, <2>1 DEF Save
<1>10. ASSUME NEW r \in Requests, SetCookie(r) PROVE TypeOK'
    BY ZenonT(60), <1>10 DEF SetCookie, PcStates
<1>11. CASE Tick
    BY <1>11 DEF Tick
<1>12. CASE UNCHANGED vars
    BY <1>12 DEF vars
<1> QED
    BY Zenon, <1>1, <1>2, <1>3, <1>4, <1>5, <1>6, <1>7, <1>8, <1>9, <1>10, <1>11, <1>12
       DEF Next, Environment

\* A step that adds no document and after which a browser holds an ID only if it
\* held it before.
LEMMA NoNewHolder ==
    ASSUME MInv, UNCHANGED <<used, indexed>>,
           \A i \in Ids : docs'[i] \subseteq docs[i],
           \A i \in Ids : \A b \in Browsers : Holds(b, i)' => Holds(b, i)
    PROVE  OneHolder' /\ UnusedIsFree' /\ OneDocument'
<1>1. OneHolder'
    BY DEF MInv, OneHolder
<1>2. UnusedIsFree'
    BY DEF MInv, UnusedIsFree
<1>3. OneDocument'
    BY ZenonT(60) DEF MInv, OneDocument
<1> QED
    BY <1>1, <1>2, <1>3

\* Who holds which ID changes only by Save: the other steps hand on what their
\* browser has, or drop it.
LEMMA HoldsOnlyLess ==
    ASSUME TypeOK, NEW r \in Requests,
           \/ Arrive(r) \/ Reply(r) \/ Abandon(r) \/ ExpireSession(r)
           \/ New(r) \/ RemoveOlder(r) \/ SetCookie(r)
           \/ \E k \in Keys : SetValue(r, k) \/ DeleteValue(r, k)
    PROVE  \A i \in Ids : \A b \in Browsers : Holds(b, i)' => Holds(b, i)
<1> USE NoIdAssumption DEF TypeOK, RequestsTypeOK, Holds, sharedVars
<1>1. CASE Arrive(r)
    BY <1>1 DEF Arrive
<1>2. CASE Reply(r)
    BY Zenon, <1>2 DEF Reply
<1>3. CASE New(r)
    BY ZenonT(60), <1>3 DEF New
<1>4. CASE Abandon(r) \/ ExpireSession(r) \/ RemoveOlder(r) \/ SetCookie(r)
    BY Zenon, <1>4 DEF Abandon, ExpireSession, RemoveOlder, SetCookie
<1>5. CASE \E k \in Keys : SetValue(r, k) \/ DeleteValue(r, k)
    BY Zenon, <1>5 DEF SetValue, DeleteValue
<1> QED
    BY Zenon, <1>1, <1>2, <1>3, <1>4, <1>5

\* New, Save and the handler leave requests alone that have not arrived.
LEMMA NextFreshRequest ==
    ASSUME TypeOK, FreshRequest, [Next]_vars
    PROVE  FreshRequest'
<1> USE DEF FreshRequest, TypeOK, RequestsTypeOK, reqVars, history, sharedVars
<1>1. ASSUME NEW r \in Requests, Arrive(r) \/ Reply(r) \/ Abandon(r) \/ ExpireSession(r)
      PROVE  FreshRequest'
    BY <1>1 DEF Arrive, Reply, Abandon, ExpireSession, Active
<1>2. ASSUME NEW r \in Requests, NEW k \in Keys, SetValue(r, k) \/ DeleteValue(r, k)
      PROVE  FreshRequest'
    BY ZenonT(60), <1>2 DEF SetValue, DeleteValue
<1>3. ASSUME NEW r \in Requests, New(r) PROVE FreshRequest'
  <2>1. /\ pc' = [pc EXCEPT ![r] = "sweep"]
        /\ \A q \in Requests \ {r} : sid'[q] = sid[q] /\ vals'[q] = vals[q]
      BY <1>3 DEF New, load
  <2> QED
      BY Zenon, <2>1
<1>4. ASSUME NEW r \in Requests, Save(r) PROVE FreshRequest'
  <2>1. /\ pc' = [pc EXCEPT ![r] = "cookie"] \/ pc' = [pc EXCEPT ![r] = "done"]
        /\ \A q \in Requests \ {r} : sid'[q] = sid[q]
        /\ vals' = vals
      BY Zenon, <1>4 DEF Save
  <2> QED
      BY Zenon, <2>1
<1>5. ASSUME NEW r \in Requests, SetCookie(r) \/ RemoveOlder(r) PROVE FreshRequest'
    BY ZenonT(60), <1>5 DEF SetCookie, RemoveOlder
<1>6. CASE Tick \/ UNCHANGED vars
    BY <1>6 DEF Tick, vars
<1> QED
    BY Zenon, <1>1, <1>2, <1>3, <1>4, <1>5, <1>6 DEF Next, Environment

\* Save: the ID is the session's own, or one that named nothing before; with the
\* index a document is added only where there is none.
LEMMA SaveMInv ==
    ASSUME MInv, NEW r \in Requests, Save(r)
    PROVE  OneHolder' /\ UnusedIsFree' /\ OneDocument'
<1>1. PICK id \in Ids :
          /\ (sid[r] = NoId /\ id \notin used) \/ sid[r] = id
          /\ sid' = [sid EXCEPT ![r] = id]
          /\ used' = used \cup {id}
          /\ \/ docs' = docs
             \/ /\ indexed => docs[id] = {}
                /\ docs' = [docs EXCEPT ![id] = @ \cup {[values |-> vals[r], age |-> now]}]
    BY SaveDoes DEF MInv
<1>2. UNCHANGED <<jar, from, cookie, vals, indexed>>
    BY Zenon DEF Save
<1> USE DEF MInv, TypeOK, RequestsTypeOK
<1>3. ASSUME NEW i \in Ids, NEW b \in Browsers, Holds(b, i)'
      PROVE  Holds(b, i) \/ (i = id /\ b = from[r])
  <2>1. CASE jar[b] = i
      BY Zenon, <2>1 DEF Holds
  <2>2. CASE \E q \in Requests : from[q] = b /\ (sid'[q] = i \/ cookie[q] = i)
      BY Zenon, <1>1, <2>2 DEF Holds
  <2> QED
      BY <1>2, <1>3, <2>1, <2>2 DEF Holds
<1>4. \A b \in Browsers : Holds(b, id) => b = from[r]
  <2>1. CASE id \notin used
      BY <2>1 DEF UnusedIsFree
  <2>2. CASE sid[r] = id
      BY <2>2 DEF OneHolder, Holds
  <2> QED
      BY <1>1, <2>1, <2>2
<1>5. OneHolder'
  <2> SUFFICES ASSUME NEW i \in Ids, NEW b \in Browsers, NEW d \in Browsers,
                      Holds(b, i)', Holds(d, i)'
               PROVE  b = d
      BY DEF OneHolder
  <2>1. CASE i = id
      BY <1>3, <1>4, <2>1
  <2>2. CASE i # id
    <3>1. Holds(b, i) /\ Holds(d, i)
        BY Zenon, <1>3, <2>2
    <3> QED
        BY <3>1 DEF OneHolder
  <2> QED
      BY <2>1, <2>2
<1>6. UnusedIsFree'
  <2> SUFFICES ASSUME NEW i \in Ids \ used'
               PROVE  docs'[i] = {} /\ \A b \in Browsers : ~Holds(b, i)'
      BY Zenon DEF UnusedIsFree
  <2>1. i \in Ids \ used /\ i # id
      BY <1>1
  <2>2. docs'[i] = docs[i]
      BY Zenon, <1>1, <2>1
  <2> QED
      BY Zenon, <1>3, <2>1, <2>2 DEF UnusedIsFree
<1>7. OneDocument'
  <2> SUFFICES ASSUME indexed, NEW i \in Ids, NEW d \in docs'[i], NEW e \in docs'[i]
               PROVE  d = e
      BY <1>2 DEF OneDocument
  <2>1. CASE docs'[i] = docs[i]
      BY Zenon, <2>1 DEF OneDocument
  <2>2. CASE i = id /\ docs[id] = {} /\ docs'[id] = {[values |-> vals[r], age |-> now]}
      BY <2>2
  <2> QED
      BY ZenonT(60), <1>1, <2>1, <2>2
<1> QED
    BY <1>5, <1>6, <1>7

\* Every step keeps the invariant.
LEMMA NextMInv == MInv /\ [Next]_vars => MInv'
<1> SUFFICES ASSUME MInv, [Next]_vars PROVE MInv'
    OBVIOUS
<1>t. TypeOK' /\ FreshRequest'
    BY NextTypeOK, NextFreshRequest DEF MInv
<1>1. ASSUME NEW r \in Requests,
             \/ Arrive(r) \/ Reply(r) \/ Abandon(r) \/ ExpireSession(r)
             \/ \E k \in Keys : SetValue(r, k) \/ DeleteValue(r, k),
             UNCHANGED mongoVars
      PROVE  MInv'
  <2>1. \A i \in Ids : \A b \in Browsers : Holds(b, i)' => Holds(b, i)
      BY Zenon, <1>1, HoldsOnlyLess DEF MInv
  <2>2. used' = used
      BY Zenon, <1>1 DEF Arrive, Reply, Abandon, ExpireSession, SetValue, DeleteValue, sharedVars
  <2> QED
      BY <1>1, <1>t, <2>1, <2>2, NoNewHolder DEF MInv, mongoVars
<1>2. ASSUME NEW r \in Requests, New(r) \/ SetCookie(r) PROVE MInv'
  <2>1. \A i \in Ids : \A b \in Browsers : Holds(b, i)' => Holds(b, i)
      BY <1>2, HoldsOnlyLess DEF MInv
  <2>2. UNCHANGED <<used, docs, indexed>>
      BY <1>2 DEF New, SetCookie, sharedVars, mongoVars
  <2> QED
      BY <1>t, <2>1, <2>2, NoNewHolder DEF MInv
<1>3. ASSUME NEW r \in Requests, RemoveOlder(r) PROVE MInv'
  <2>1. \A i \in Ids : \A b \in Browsers : Holds(b, i)' => Holds(b, i)
      BY <1>3, HoldsOnlyLess DEF MInv
  <2>2. UNCHANGED <<used, indexed>> /\ \A i \in Ids : docs'[i] \subseteq docs[i]
      BY <1>3 DEF RemoveOlder, sharedVars
  <2> QED
      BY <1>t, <2>1, <2>2, NoNewHolder DEF MInv
<1>4. ASSUME NEW r \in Requests, Save(r) PROVE MInv'
    BY <1>4, <1>t, SaveMInv DEF MInv
<1>5. CASE Tick \/ UNCHANGED vars
  <2>1. UNCHANGED <<used, docs, indexed, jar, from, sid, cookie>>
      BY <1>5 DEF Tick, vars, sharedVars, reqVars, mongoVars
  <2>2. \A i \in Ids : \A b \in Browsers : Holds(b, i)' => Holds(b, i)
      BY <2>1 DEF Holds
  <2> QED
      BY <1>t, <2>1, <2>2, NoNewHolder DEF MInv
<1> QED
    BY <1>1, <1>2, <1>3, <1>4, <1>5 DEF Next, Environment

\* MInv is an invariant.
LEMMA MongoInvariant == Spec => []MInv
BY InitMInv, NextMInv, PTL DEF Spec

(***************************************************************************)
(* The index.                                                              *)
(***************************************************************************)

\* With the unique index there is never more than one document for a session,
\* whatever requests save it at the same time (Save and save of MongoStore).
THEOREM MongoOneDocument == Spec => []OneDocument
<1>1. MInv => OneDocument
    BY DEF MInv
<1> QED
    BY <1>1, MongoInvariant, PTL

\* With the index, what the first save of a session stored stays until New of
\* some request removes it (Upsert selects by a string, the index refuses).
THEOREM MongoFirstSaveStays == Spec => FirstSaveStays
<1>1. MInv /\ [Next]_vars =>
          [\A i \in Ids : indexed /\ docs[i] # {} => docs'[i] \in {{}, docs[i]}]_vars
  <2> SUFFICES ASSUME MInv, Next, NEW i \in Ids, indexed, docs[i] # {}
               PROVE  docs'[i] \in {{}, docs[i]}
      OBVIOUS
  <2>1. ASSUME NEW r \in Requests, Save(r) PROVE docs'[i] = docs[i]
      BY Zenon, <2>1, SaveDoes DEF MInv, TypeOK
  <2>2. ASSUME NEW r \in Requests, RemoveOlder(r) PROVE docs'[i] \in {{}, docs[i]}
    <3>1. docs'[i] \subseteq docs[i]
        BY <2>2 DEF RemoveOlder
    <3>2. \A d, e \in docs[i] : d = e
        BY DEF MInv, OneDocument
    <3> QED
        BY <3>1, <3>2
  <2>3. ASSUME docs' = docs PROVE docs'[i] \in {{}, docs[i]}
      BY Zenon, <2>3
  <2>4. \/ docs' = docs \/ \E r \in Requests : Save(r) \/ RemoveOlder(r)
      BY Zenon DEF Next, Tick, New, SetCookie, mongoVars
  <2> QED
      BY <2>1, <2>2, <2>3, <2>4
<1> QED
    BY <1>1, MongoInvariant, PTL DEF Spec, FirstSaveStays

(***************************************************************************)
(* The refinement.                                                         *)
(***************************************************************************)

\* The document of an ID, or one of them, has Values V.
HasDoc(i, V) == \E d \in docs[i] : V = d.values

\* Kept, by its members.
KeptIs ==
    \A b \in Browsers : \A V :
        V \in Kept[b] <=> \E i \in Ids : Holds(b, i) /\ HasDoc(i, V)

\* What a browser is kept are the documents under the IDs it holds.
LEMMA KeptMembers == TypeOK => KeptIs
<1> SUFFICES ASSUME TypeOK, NEW b \in Browsers, NEW V
             PROVE  V \in Kept[b] <=> \E i \in Ids : Holds(b, i) /\ HasDoc(i, V)
    BY DEF KeptIs
<1>1. \A i \in Ids : b \in Holders(i) <=> Holds(b, i)
    BY HoldersHolds
<1>2. Kept[b] = {d.values : d \in UNION {docs[i] : i \in {j \in Ids : b \in Holders(j)}}}
    BY DEF Kept
<1> QED
    BY <1>1, <1>2 DEF HasDoc

\* The same after a step.
LEMMA KeptMembersNext == TypeOK' => KeptIs'
BY KeptMembers, PTL

\* A step after which no request is elsewhere, no browser holds another ID and
\* no document is there that was not, may only forget.
LEMMA OnlyForgets ==
    ASSUME TypeOK, TypeOK', UNCHANGED <<from, vals, Stage>>,
           \A i \in Ids : docs'[i] \subseteq docs[i],
           \A i \in Ids : \A b \in Browsers : Holds(b, i)' => Holds(b, i)
    PROVE  Private!Forget
<1>0. \A i \in Ids : \A V : HasDoc(i, V)' => HasDoc(i, V)
    BY Zenon DEF HasDoc
<1>1. ASSUME NEW b \in Browsers, NEW V \in Kept'[b] PROVE V \in Kept[b]
    BY Zenon, <1>0, <1>1, KeptMembers, KeptMembersNext DEF KeptIs
<1>2. Kept' = [b \in Browsers |-> Kept'[b]]
    BY DEF Kept
<1> QED
    BY <1>1, <1>2 DEF Private!Forget

\* A step that leaves the documents and who holds which ID alone keeps all.
LEMMA KeepsAll ==
    ASSUME TypeOK, TypeOK', UNCHANGED docs,
           \A i \in Ids : \A b \in Browsers : Holds(b, i)' <=> Holds(b, i)
    PROVE  Kept' = Kept
<1>0. \A i \in Ids : \A V : HasDoc(i, V)' <=> HasDoc(i, V)
    BY DEF HasDoc
<1>1. ASSUME NEW b \in Browsers PROVE Kept'[b] = Kept[b]
  <2>1. \A V : V \in Kept'[b] <=> V \in Kept[b]
      BY Zenon, <1>0, KeptMembers, KeptMembersNext DEF KeptIs
  <2> QED
      BY Zenon, <2>1
<1> QED
    BY <1>1 DEF Kept

\* New begins a request with a document stored under the cookie's ID, or nothing.
LEMMA NewBegins ==
    ASSUME MInv, TypeOK', NEW r \in Requests, New(r)
    PROVE  Private!Begin(r)
<1> USE DEF MInv, TypeOK, RequestsTypeOK
<1>1. Stage[r] = "waiting" /\ Stage' = [Stage EXCEPT ![r] = "open"]
    BY ZenonT(60) DEF New, Stage
<1>2. Kept' = Kept
  <2>1. sid[r] = NoId /\ (sid' = [sid EXCEPT ![r] = NoId] \/ sid' = [sid EXCEPT ![r] = cookie[r]])
      BY Zenon DEF New, FreshRequest
  <2>2. jar' = jar /\ from' = from /\ cookie' = cookie /\ docs' = docs
      BY Zenon DEF New, sharedVars, mongoVars
  <2>3. ASSUME NEW i \in Ids, NEW b \in Browsers PROVE Holds(b, i)' <=> Holds(b, i)
    <3>1. ASSUME NEW q \in Requests
          PROVE  sid'[q] = i \/ cookie[q] = i <=> sid[q] = i \/ cookie[q] = i
      <4>1. CASE q # r
          BY Zenon, <2>1, <4>1
      <4>2. CASE q = r
        <5>1. sid[q] = NoId /\ (sid'[q] = NoId \/ sid'[q] = cookie[q])
            BY Zenon, <2>1, <4>2
        <5> QED
            BY Zenon, <5>1, NoIdAssumption
      <4> QED
          BY Zenon, <4>1, <4>2
    <3> QED
        BY Zenon, <2>2, <3>1 DEF Holds
  <2> QED
      BY Zenon, <2>2, <2>3, KeepsAll
<1>3. \E v \in Kept[from[r]] \cup {{}} : vals' = [vals EXCEPT ![r] = v]
  <2>1. CASE vals' = [vals EXCEPT ![r] = {}]
      BY ZenonT(60), <2>1
  <2>2. CASE cookie[r] \in Ids /\ \E d \in docs[cookie[r]] : vals' = [vals EXCEPT ![r] = d.values]
    <3>1. PICK d \in docs[cookie[r]] : vals' = [vals EXCEPT ![r] = d.values]
        BY Zenon, <2>2
    <3>2. Holds(from[r], cookie[r]) /\ from[r] \in Browsers
        BY Zenon DEF Holds
    <3>3. d.values \in Kept[from[r]]
        BY ZenonT(60), <2>2, <3>2, KeptMembers DEF KeptIs, HasDoc
    <3> QED
        BY Zenon, <3>1, <3>3
  <2> QED
      BY ZenonT(60), <2>1, <2>2 DEF New, load, MaybeId
<1> QED
    BY Zenon, <1>1, <1>2, <1>3 DEF Private!Begin, New

\* Save ends a request; for the other browsers nothing changes.
LEMMA SaveEnds ==
    ASSUME MInv, MInv', NEW r \in Requests, Save(r)
    PROVE  Private!End(r)
<1>k. KeptIs /\ KeptIs'
    BY KeptMembers, KeptMembersNext DEF MInv
<1>i. OneHolder' /\ UnusedIsFree
    BY DEF MInv
<1>t. /\ from \in [Requests -> Browsers] /\ pc \in [Requests -> PcStates]
      /\ sid \in [Requests -> MaybeId] /\ docs \in [Ids -> SUBSET Doc]
    BY DEF MInv, TypeOK, RequestsTypeOK
<1>o. PICK o \in Browsers : o = from[r]
    BY <1>t
<1>1. Stage[r] = "open" /\ Stage' = [Stage EXCEPT ![r] = "over"]
    BY ZenonT(60), <1>t DEF Save, Stage
<1>2. PICK id \in Ids :
          /\ (sid[r] = NoId /\ id \notin used) \/ sid[r] = id
          /\ sid' = [sid EXCEPT ![r] = id]
          /\ \/ docs' = docs
             \/ docs' = [docs EXCEPT ![id] = @ \cup {[values |-> vals[r], age |-> now]}]
    BY SaveDoes DEF MInv
<1>3. jar' = jar /\ from' = from /\ cookie' = cookie /\ vals' = vals
    BY Zenon DEF Save
<1>4. Holds(o, id)'
    BY Zenon, <1>o, <1>t, <1>2, <1>3 DEF Holds
<1>5. ASSUME NEW b \in Browsers \ {o} PROVE Kept'[b] = Kept[b]
  <2>1. ~Holds(b, id)'
      BY <1>i, <1>4 DEF OneHolder
  <2>2. \A q \in Requests : from[q] = b => sid'[q] = sid[q]
      BY <1>o, <1>t, <1>2
  <2>3. \A i \in Ids : Holds(b, i)' <=> Holds(b, i)
      BY Zenon, <1>3, <2>2 DEF Holds
  <2>4. \A i \in Ids \ {id} : docs'[i] = docs[i]
      BY <1>t, <1>2
  <2>5. \A i \in Ids \ {id} : \A V : HasDoc(i, V)' <=> HasDoc(i, V)
      BY <2>4 DEF HasDoc
  <2>6. \A V : V \in Kept'[b] <=> V \in Kept[b]
      BY ZenonT(60), <1>k, <2>1, <2>3, <2>5 DEF KeptIs
  <2> QED
      BY ZenonT(60), <2>6
<1>6. ASSUME NEW V \in Kept'[o] PROVE V \in Kept[o] \cup {vals[r]}
  <2>1. PICK i \in Ids : Holds(o, i)' /\ HasDoc(i, V)'
      BY Zenon, <1>k, <1>6 DEF KeptIs
  <2>2. CASE HasDoc(i, V)
    <3>1. CASE i # id
      <4>1. \A q \in Requests : sid'[q] = i => sid[q] = i
          BY Zenon, <1>t, <1>2, <3>1
      <4> QED
          BY ZenonT(60), <1>k, <1>3, <2>1, <2>2, <4>1 DEF KeptIs, Holds
    <3>2. CASE i = id /\ sid[r] = id
      <4>1. Holds(o, i)
          BY <1>o, <3>2 DEF Holds
      <4> QED
          BY Zenon, <1>k, <2>2, <4>1 DEF KeptIs
    <3>3. CASE i = id /\ id \notin used
        BY Zenon, <1>i, <2>2, <3>3 DEF UnusedIsFree, HasDoc
    <3> QED
        BY Zenon, <1>2, <3>1, <3>2, <3>3
  <2>3. CASE ~HasDoc(i, V)
    <3>1. PICK d \in docs'[i] : V = d.values
        BY Zenon, <2>1 DEF HasDoc
    <3>2. d \notin docs[i]
        BY Zenon, <2>3, <3>1 DEF HasDoc
    <3>3. d = [values |-> vals[r], age |-> now]
      <4>1. i = id /\ docs'[i] = docs[i] \cup {[values |-> vals[r], age |-> now]}
          BY Zenon, <1>t, <1>2, <3>2
      <4> QED
          BY Zenon, <3>2, <4>1
    <3> QED
        BY Zenon, <3>1, <3>3
  <2> QED
      BY <2>2, <2>3
<1>7. Kept' = [Kept EXCEPT ![o] = Kept'[o]]
  <2>1. Kept = [b \in Browsers |-> Kept[b]] /\ Kept' = [b \in Browsers |-> Kept'[b]]
      BY Zenon DEF Kept
  <2> QED
      BY Zenon, <1>5, <2>1
<1>8. Kept'[o] \in SUBSET (Kept[o] \cup {vals[r]})
    BY Zenon, <1>6
<1>9. \E K \in SUBSET (Kept[from[r]] \cup (IF Stage[r] = "open" THEN {vals[r]} ELSE {})) :
          Kept' = [Kept EXCEPT ![from[r]] = K]
    BY Zenon, <1>o, <1>1, <1>7, <1>8
<1> QED
    BY Zenon, <1>1, <1>3, <1>9 DEF Private!End

\* A request that dies is over; nothing is kept for it.
LEMMA AbandonEnds ==
    ASSUME MInv, TypeOK', NEW r \in Requests, Abandon(r), UNCHANGED mongoVars
    PROVE  Private!Forget \/ Private!End(r)
<1>1. \A i \in Ids : \A b \in Browsers : Holds(b, i)' <=> Holds(b, i)
    BY Zenon DEF Abandon, Holds
<1>2. docs' = docs /\ Kept' = Kept
    BY Zenon, <1>1, KeepsAll DEF MInv, mongoVars
<1>3. CASE pc[r] \in {"cookie", "reply"}
  <2>1. UNCHANGED <<from, vals, Stage>>
      BY Zenon, <1>3 DEF Abandon, Stage, MInv, TypeOK, RequestsTypeOK
  <2> QED
      BY Zenon, <1>1, <1>2, <2>1, OnlyForgets DEF MInv
<1>4. CASE pc[r] \in {"new", "sweep", "handler"}
  <2>1. Stage[r] # "over" /\ Stage' = [Stage EXCEPT ![r] = "over"]
      BY ZenonT(60), <1>4 DEF Abandon, Stage, MInv, TypeOK, RequestsTypeOK
  <2>2. from[r] \in Browsers
      BY Zenon DEF MInv, TypeOK, RequestsTypeOK
  <2>3. Kept' = [Kept EXCEPT ![from[r]] = Kept[from[r]]]
      BY Zenon, <1>2, <2>2 DEF Kept
  <2>4. \E K \in SUBSET (Kept[from[r]] \cup (IF Stage[r] = "open" THEN {vals[r]} ELSE {})) :
            Kept' = [Kept EXCEPT ![from[r]] = K]
      BY Zenon, <2>3
  <2> QED
      BY Zenon, <2>1, <2>4 DEF Private!End, Abandon
<1> QED
    BY Zenon, <1>3, <1>4 DEF Abandon, Active, MInv, TypeOK, RequestsTypeOK, PcStates

\* Every step of the code is a step of the private stores, or none at all.
LEMMA StepImplements ==
    ASSUME MInv, MInv', [Next]_vars
    PROVE  [Private!Next]_(Private!vars)
<1>t. TypeOK /\ TypeOK'
    BY Zenon DEF MInv
<1>1. ASSUME NEW r \in Requests, Arrive(r) \/ Reply(r) \/ ExpireSession(r), UNCHANGED mongoVars
      PROVE  Private!Forget
  <2>1. UNCHANGED <<from, vals, Stage>>
      BY SMTT(30), <1>1, <1>t DEF Arrive, Reply, ExpireSession, Stage, TypeOK, RequestsTypeOK
  <2>2. \A i \in Ids : \A b \in Browsers : Holds(b, i)' => Holds(b, i)
      BY Zenon, <1>1, <1>t, HoldsOnlyLess
  <2> QED
      BY Zenon, <1>1, <1>t, <2>1, <2>2, OnlyForgets DEF mongoVars
<1>2. ASSUME NEW r \in Requests, SetCookie(r) \/ RemoveOlder(r) PROVE Private!Forget
  <2>1. UNCHANGED <<from, vals, Stage>>
      BY <1>2, <1>t DEF SetCookie, RemoveOlder, Stage, TypeOK, RequestsTypeOK
  <2>2. \A i \in Ids : \A b \in Browsers : Holds(b, i)' => Holds(b, i)
      BY Zenon, <1>2, <1>t, HoldsOnlyLess
  <2>3. \A i \in Ids : docs'[i] \subseteq docs[i]
      BY Zenon, <1>2 DEF SetCookie, RemoveOlder, mongoVars
  <2> QED
      BY <1>t, <2>1, <2>2, <2>3, OnlyForgets
<1>3. ASSUME NEW r \in Requests, NEW k \in Keys, SetValue(r, k) \/ DeleteValue(r, k),
             UNCHANGED mongoVars
      PROVE  Private!Change(r)
  <2>1. \A i \in Ids : \A b \in Browsers : Holds(b, i)' <=> Holds(b, i)
      BY Zenon, <1>3 DEF SetValue, DeleteValue, Holds, sharedVars
  <2>2. Kept' = Kept
      BY <1>3, <1>t, <2>1, KeepsAll DEF mongoVars
  <2>3. Stage[r] = "open" /\ Stage' = Stage
      BY <1>3 DEF SetValue, DeleteValue, Stage
  <2> QED
      BY Zenon, <1>3, <2>2, <2>3 DEF Private!Change, SetValue, DeleteValue
<1>4. CASE Tick \/ UNCHANGED vars
  <2>1. UNCHANGED <<from, vals, pc, docs, jar, sid, cookie>>
      BY Zenon, <1>4 DEF Tick, vars, sharedVars, reqVars, mongoVars
  <2>2. \A i \in Ids : \A b \in Browsers : Holds(b, i)' <=> Holds(b, i)
      BY <2>1 DEF Holds
  <2>3. Kept' = Kept
      BY <1>t, <2>1, <2>2, KeepsAll
  <2>4. Stage' = Stage
      BY <2>1 DEF Stage
  <2> QED
      BY Zenon, <2>1, <2>3, <2>4 DEF Private!vars
<1>5. ASSUME NEW r \in Requests, New(r) PROVE Private!Begin(r)
    BY <1>5, <1>t, NewBegins
<1>6. ASSUME NEW r \in Requests, Save(r) PROVE Private!End(r)
    BY <1>6, SaveEnds
<1>7. ASSUME NEW r \in Requests, Abandon(r), UNCHANGED mongoVars
      PROVE  Private!Forget \/ Private!End(r)
    BY Zenon, <1>7, <1>t, AbandonEnds
<1> QED
    BY <1>1, <1>2, <1>3, <1>4, <1>5, <1>6, <1>7 DEF Next, Environment, Private!Next

\* Nothing is kept for anybody before the first request.
LEMMA InitImplements == Init => Private!Init
<1> SUFFICES ASSUME Init PROVE Private!Init
    OBVIOUS
<1>1. Stage = [r \in Requests |-> "waiting"]
    BY Zenon DEF Init, RequestsInit, Stage
<1>2. Kept = [b \in Browsers |-> {}]
    BY Zenon DEF Init, RequestsInit, Kept
<1> QED
    BY <1>1, <1>2 DEF Init, RequestsInit, Private!Init

\* MongoStore, with or without its index and whatever New removes, does what a
\* store for each browser would, for any number of browsers and of requests.
THEOREM MongoImplementsPrivate == Spec => ImplementsPrivate
<1>1. MInv /\ MInv' /\ [Next]_vars => [Private!Next]_(Private!vars)
    BY StepImplements
<1> QED
    BY <1>1, InitImplements, MongoInvariant, PTL DEF Spec, ImplementsPrivate, Private!Spec
==============================================================================
