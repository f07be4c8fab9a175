---------------------------- MODULE SessionProofs ----------------------------
(***************************************************************************)
(* Proofs about the App Engine session stores, for any sets of browsers,   *)
(* requests, keys and session IDs.                                         *)
(*                                                                         *)
(* Confined is not inductive: New copies an entity into session.Values, so *)
(* what an entity holds must belong to everyone who can name it, and a key *)
(* GenerateRandomKey returns must name nothing yet.  IInv adds these.      *)
(***************************************************************************)
EXTENDS MemcacheStore, TLAPS

\* An ID that was never generated is held by nobody and names no entity.
UnusedIsFree ==
    \A i \in Ids \ used :
        /\ \A b \in Browsers : jar[b] # i
        /\ \A r \in Requests : sid[r] # i /\ cookie[r] # i
        /\ store[i] = NoEntity

\* Holders(i), a browser at a time.
Holds(b, i) ==
    \/ jar[b] = i
    \/ \E r \in Requests : from[r] = b /\ (sid[r] = i \/ cookie[r] = i)

OneHolder ==
    \A i \in Ids : \A b, d \in Browsers : Holds(b, i) /\ Holds(d, i) => b = d

EntityOwned ==
    \A i \in Ids : \A b \in Browsers :
        Holds(b, i) => \A v \in store[i].values : v[1] = b

IInv ==
    /\ TypeOK
    /\ UnusedIsFree
    /\ OneHolder
    /\ EntityOwned
    /\ Confined

\* A step of either store, evictions included.
StoreNext == Next \/ \E i \in Ids : Evict(i)

\* The values a handler may put in a session are values.
LEMMA ValuesClosed ==
    ASSUME NEW V \in Values, NEW b \in Browsers, NEW k \in Keys
    PROVE  V \cup {<<b, k>>} \in Values /\ V \ {<<b, k>>} \in Values /\ {} \in Values
BY DEF Values

\* Holders and Holds say the same thing.
LEMMA HoldersHolds ==
    ASSUME TypeOK, NEW i \in Ids, NEW b
    PROVE  b \in Holders(i) <=> b \in Browsers /\ Holds(b, i)
BY DEF Holders, Holds, TypeOK, RequestsTypeOK

\* The three stores start with nothing stored and nobody holding an ID.
LEMMA InitIInv == Init => IInv
<1> SUFFICES ASSUME Init PROVE IInv
    OBVIOUS
<1> USE NoIdAssumption, StoreOptAssumption DEF Init, RequestsInit
<1>1. TypeOK
    BY DEF TypeOK, RequestsTypeOK, Values, MaybeId, Ages, PcStates, NoEntity
<1>2. UnusedIsFree
    BY DEF UnusedIsFree
<1>3. OneHolder /\ EntityOwned
    BY DEF OneHolder, EntityOwned, Holds
<1>4. Confined
    BY DEF Confined
<1> QED
    BY <1>1, <1>2, <1>3, <1>4 DEF IInv

\* A step that changes neither the store nor the values in use, and after
\* which a browser holds an ID only if it held it before.
LEMMA NoNewHolder ==
    ASSUME IInv, TypeOK', UNCHANGED <<used, store, from>>, Confined',
           \A i \in Ids : \A b \in Browsers : Holds(b, i)' => Holds(b, i)
    PROVE  IInv'
<1>1. UnusedIsFree'
  <2> SUFFICES ASSUME NEW i \in Ids \ used
               PROVE  /\ \A b \in Browsers : jar'[b] # i
                      /\ \A r \in Requests : sid'[r] # i /\ cookie'[r] # i
                      /\ store'[i] = NoEntity
      BY DEF UnusedIsFree
  <2>1. \A b \in Browsers : ~Holds(b, i)
      BY DEF IInv, UnusedIsFree, Holds
  <2>2. \A b \in Browsers : ~Holds(b, i)'
      BY <2>1
  <2>3. \A r \in Requests : from'[r] \in Browsers
      BY DEF TypeOK, RequestsTypeOK
  <2> QED
      BY <2>2, <2>3 DEF Holds, IInv, UnusedIsFree
<1>2. OneHolder'
    BY DEF IInv, OneHolder
<1>3. EntityOwned'
    BY Zenon DEF IInv, EntityOwned
<1> QED
    BY <1>1, <1>2, <1>3 DEF IInv

\* The type of every variable is kept by every step, evictions included.
LEMMA NextTypeOK == IInv /\ [StoreNext]_vars => TypeOK'
<1> SUFFICES ASSUME IInv, [StoreNext]_vars PROVE TypeOK'
    OBVIOUS
<1> USE NoIdAssumption, StoreOptAssumption
    DEF IInv, TypeOK, RequestsTypeOK, reqVars, history, sharedVars
<1>1. ASSUME NEW r \in Requests, Arrive(r), UNCHANGED store PROVE TypeOK'
    BY <1>1 DEF Arrive, PcStates
<1>2. ASSUME NEW r \in Requests, Reply(r), UNCHANGED store PROVE TypeOK'
  <2>1. {} \in Values
      BY DEF Values
  <2> QED
      BY <1>2, <2>1 DEF Reply, PcStates, MaybeId
<1>3. ASSUME NEW r \in Requests, Abandon(r), UNCHANGED store PROVE TypeOK'
    BY <1>3 DEF Abandon, PcStates
<1>4. ASSUME NEW r \in Requests, ExpireSession(r), UNCHANGED store PROVE TypeOK'
    BY <1>4 DEF ExpireSession, Ages
<1>5. ASSUME NEW r \in Requests, NEW k \in Keys, SetValue(r, k) \/ DeleteValue(r, k),
             UNCHANGED store
      PROVE  TypeOK'
  <2>1. vals[r] \cup {<<from[r], k>>} \in Values /\ vals[r] \ {<<from[r], k>>} \in Values
      BY Zenon, ValuesClosed
  <2>2. CASE SetValue(r, k)
      BY <1>5, <2>1, <2>2 DEF SetValue
  <2>3. CASE DeleteValue(r, k)
      BY <1>5, <2>1, <2>3 DEF DeleteValue
  <2> QED
      BY <1>5, <2>2, <2>3
<1>6. ASSUME NEW r \in Requests, New(r) PROVE TypeOK'
  <2>1. {} \in Values /\ \A i \in Ids : store[i].values \in Values
      BY DEF Values
  <2>2. vals' \in [Requests -> Values]
    <3>1. \/ vals' = [vals EXCEPT ![r] = {}]
          \/ cookie[r] # NoId /\ vals' = [vals EXCEPT ![r] = store[cookie[r]].values]
        BY <1>6 DEF New, load
    <3>2. cookie[r] # NoId => store[cookie[r]].values \in Values
        BY <2>1 DEF MaybeId
    <3> QED
        BY Zenon, <2>1, <3>1, <3>2
  <2>4. isNew' \in [Requests -> BOOLEAN]
      BY Zenon, <1>6 DEF New, load
  <2>3. clean' \in [Browsers -> BOOLEAN] /\ sid' \in [Requests -> MaybeId]
      BY ZenonT(60), <1>6 DEF New, load, MaybeId
  <2> QED
      BY <1>6, <2>2, <2>3, <2>4 DEF New, SessionOptions, PcStates
<1>7. ASSUME NEW r \in Requests, Save(r) PROVE TypeOK'
  <2>1. PICK id \in Ids :
            /\ sid' = [sid EXCEPT ![r] = id]
            /\ used' = used \cup {id}
            /\ store' = store \/ store' = [store EXCEPT ![id] = Entity(vals[r])]
      BY Zenon, <1>7 DEF Save, save, MaybeId, GenerateRandomKey
  <2>2. Entity(vals[r]) \in [present : BOOLEAN, values : Values]
      BY DEF Entity
  <2>3. store' \in [Ids -> [present : BOOLEAN, values : Values]]
      BY Zenon, <2>1, <2>2
  <2>4. pc' \in [Requests -> PcStates] /\ clean' \in [Browsers -> BOOLEAN]
      BY ZenonT(60), <1>7 DEF Save, PcStates
  <2> QED
      BY <1>7, <2>1, <2>3, <2>4 DEF Save, MaybeId
<1>8. ASSUME NEW r \in Requests, SetCookie(r) PROVE TypeOK'
    BY ZenonT(60), <1>8 DEF SetCookie, PcStates
<1>9. ASSUME NEW i \in Ids, Evict(i) PROVE TypeOK'
  <2>1. NoEntity \in [present : BOOLEAN, values : Values]
      BY DEF NoEntity, Values
  <2> QED
      BY <1>9, <2>1 DEF Evict
<1>10. CASE UNCHANGED vars
    BY <1>10 DEF vars
<1> QED
    BY Zenon, <1>1, <1>2, <1>3, <1>4, <1>5, <1>6, <1>7, <1>8, <1>9, <1>10
       DEF StoreNext, Next, Environment

\* Save: the ID is the session's own, or one that named nothing before; the
\* entity it writes holds the session's own values.
LEMMA SaveIInv ==
    ASSUME IInv, TypeOK', NEW r \in Requests, Save(r)
    PROVE  IInv'
<1> USE DEF IInv, TypeOK, RequestsTypeOK
<1>1. PICK id \in Ids :
          /\ (sid[r] = NoId /\ id \notin used) \/ sid[r] = id
          /\ sid' = [sid EXCEPT ![r] = id]
          /\ used' = used \cup {id}
          /\ store' = store \/ store' = [store EXCEPT ![id] = Entity(vals[r])]
    BY Zenon DEF Save, save, MaybeId, GenerateRandomKey
<1>2. jar' = jar /\ from' = from /\ cookie' = cookie /\ vals' = vals
    BY Zenon DEF Save
<1>3. ASSUME NEW i \in Ids, NEW b \in Browsers, Holds(b, i)'
      PROVE  Holds(b, i) \/ (i = id /\ b = from[r])
  <2>1. CASE jar[b] = i
      BY <2>1 DEF Holds
  <2>2. CASE \E q \in Requests : from[q] = b /\ (sid'[q] = i \/ cookie[q] = i)
      BY <1>1, <2>2 DEF Holds
  <2> QED
      BY <1>2, <1>3, <2>1, <2>2 DEF Holds
<1>4. \A b \in Browsers : Holds(b, id) => b = from[r]
  <2>1. CASE id \notin used
      BY <2>1 DEF UnusedIsFree, Holds
  <2>2. CASE sid[r] = id
      BY ZenonT(60), <2>2 DEF OneHolder, Holds
  <2> QED
      BY <1>1, <2>1, <2>2
<1>5. \A i \in Ids : \A b \in Browsers : Holds(b, i)' /\ i # id => Holds(b, i)
    BY Zenon, <1>3
<1>6. \A b \in Browsers : Holds(b, id)' => b = from[r]
    BY <1>3, <1>4
<1>7. OneHolder'
  <2> SUFFICES ASSUME NEW i \in Ids, NEW b \in Browsers, NEW d \in Browsers,
                      Holds(b, i)', Holds(d, i)'
               PROVE  b = d
      BY DEF OneHolder
  <2>1. CASE i = id
      BY ZenonT(60), <1>6, <2>1
  <2>2. CASE i # id
    <3>1. Holds(b, i) /\ Holds(d, i)
        BY ZenonT(60), <1>5, <2>2
    <3> QED
        BY <3>1 DEF OneHolder
  <2> QED
      BY <2>1, <2>2
<1>8. UnusedIsFree'
  <2> SUFFICES ASSUME NEW i \in Ids \ used'
               PROVE  /\ \A b \in Browsers : jar'[b] # i
                      /\ \A q \in Requests : sid'[q] # i /\ cookie'[q] # i
                      /\ store'[i] = NoEntity
      BY Zenon DEF UnusedIsFree
  <2>1. i \in Ids \ used /\ i # id
      BY <1>1
  <2>2. store'[i] = store[i]
      BY ZenonT(60), <1>1, <2>1
  <2>3. \A q \in Requests : sid'[q] # i
      BY Zenon, <1>1, <2>1 DEF UnusedIsFree
  <2> QED
      BY <1>2, <2>1, <2>2, <2>3 DEF UnusedIsFree
<1>9. Confined'
    BY <1>2 DEF Confined
<1>10. EntityOwned'
  <2> SUFFICES ASSUME NEW i \in Ids, NEW b \in Browsers, Holds(b, i)',
                      NEW v \in store'[i].values
               PROVE  v[1] = b
      BY Zenon DEF EntityOwned
  <2>1. CASE i # id
    <3>1. store'[i] = store[i]
        BY ZenonT(60), <1>1, <2>1
    <3> QED
        BY Zenon, <1>5, <2>1, <3>1 DEF EntityOwned
  <2>2. CASE i = id
    <3>1. b = from[r]
        BY ZenonT(60), <1>6, <2>2
    <3>2. CASE store' = [store EXCEPT ![id] = Entity(vals[r])]
      <4>1. store'[i].values = vals[r]
          BY ZenonT(60), <1>1, <2>2, <3>2 DEF Entity
      <4> QED
          BY Zenon, <3>1, <4>1 DEF Confined
    <3>3. CASE store' = store
      <4>1. CASE id \notin used
        <5>1. store'[i] = NoEntity
            BY Zenon, <2>2, <3>3, <4>1 DEF UnusedIsFree
        <5>2. NoEntity.values = {}
            BY Zenon DEF NoEntity
        <5> QED
            BY Zenon, <5>1, <5>2
      <4>2. CASE sid[r] = id
        <5>1. Holds(from[r], id)
            BY Zenon, <4>2 DEF Holds
        <5> QED
            BY Zenon, <2>2, <3>1, <3>3, <5>1 DEF EntityOwned
      <4> QED
          BY Zenon, <1>1, <4>1, <4>2
    <3> QED
        BY Zenon, <1>1, <3>2, <3>3
  <2> QED
      BY Zenon, <2>1, <2>2
<1> QED
    BY Zenon, <1>7, <1>8, <1>9, <1>10

\* Every step keeps the invariant.
LEMMA NextIInv == IInv /\ [StoreNext]_vars => IInv'
<1> SUFFICES ASSUME IInv, [StoreNext]_vars PROVE IInv'
    OBVIOUS
<1>t. TypeOK'
    BY NextTypeOK
<1>h. \A r \in Requests : from[r] \in Browsers /\ Holds(from[r], sid[r])
                          /\ Holds(from[r], cookie[r]) /\ Holds(from[r], jar[from[r]])
    BY DEF Holds, IInv, TypeOK, RequestsTypeOK
<1> USE NoIdAssumption DEF IInv, TypeOK, RequestsTypeOK, reqVars, history, sharedVars
<1>1. ASSUME NEW r \in Requests, Arrive(r), UNCHANGED store PROVE IInv'
  <2>1. \A i \in Ids : \A b \in Browsers : Holds(b, i)' => Holds(b, i)
      BY Zenon, <1>1 DEF Arrive, Holds
  <2> QED
      BY Zenon, <1>1, <1>t, <2>1, NoNewHolder DEF Arrive, Confined
<1>2. ASSUME NEW r \in Requests, Reply(r), UNCHANGED store PROVE IInv'
  <2>1. \A i \in Ids : \A b \in Browsers : Holds(b, i)' => Holds(b, i)
      BY Zenon, <1>2 DEF Reply, Holds
  <2> QED
      BY Zenon, <1>2, <1>t, <2>1, NoNewHolder DEF Reply, Confined
<1>3. ASSUME NEW r \in Requests, Abandon(r) \/ ExpireSession(r), UNCHANGED store
      PROVE  IInv'
  <2>1. \A i \in Ids : \A b \in Browsers : Holds(b, i)' => Holds(b, i)
      BY Zenon, <1>3 DEF Abandon, ExpireSession, Holds
  <2> QED
      BY Zenon, <1>3, <1>t, <2>1, NoNewHolder DEF Abandon, ExpireSession, Confined
<1>4. ASSUME NEW r \in Requests, NEW k \in Keys, SetValue(r, k) \/ DeleteValue(r, k),
             UNCHANGED store
      PROVE  IInv'
  <2>1. \A i \in Ids : \A b \in Browsers : Holds(b, i)' => Holds(b, i)
      BY Zenon, <1>4 DEF SetValue, DeleteValue, Holds
  <2>2. Confined'
    <3>1. from' = from /\ (\/ vals' = [vals EXCEPT ![r] = @ \cup {<<from[r], k>>}]
                           \/ vals' = [vals EXCEPT ![r] = @ \ {<<from[r], k>>}])
        BY Zenon, <1>4 DEF SetValue, DeleteValue
    <3> HIDE DEF IInv, TypeOK, RequestsTypeOK
    <3>2. vals \in [Requests -> Values] /\ Confined
        BY DEF IInv, TypeOK, RequestsTypeOK
    <3> QED
        BY <3>1, <3>2 DEF Confined
  <2> QED
      BY Zenon, <1>4, <1>t, <2>1, <2>2, NoNewHolder DEF SetValue, DeleteValue
<1>5. ASSUME NEW r \in Requests, New(r) PROVE IInv'
  <2>1. \A i \in Ids : \A b \in Browsers : Holds(b, i)' => Holds(b, i)
      BY Zenon, <1>5 DEF New, Holds
  <2>2. \/ vals' = [vals EXCEPT ![r] = {}]
        \/ cookie[r] \in Ids /\ vals' = [vals EXCEPT ![r] = store[cookie[r]].values]
      BY ZenonT(60), <1>5 DEF New, load, MaybeId
  <2>3. Confined'
    <3>1. from' = from
        BY Zenon, <1>5 DEF New
    <3>2. ASSUME cookie[r] \in Ids PROVE \A v \in store[cookie[r]].values : v[1] = from[r]
        BY Zenon, <1>h, <3>2 DEF EntityOwned
    <3> HIDE DEF IInv, TypeOK, RequestsTypeOK
    <3>3. vals \in [Requests -> Values] /\ Confined
        BY DEF IInv, TypeOK, RequestsTypeOK
    <3> QED
        BY Zenon, <2>2, <3>1, <3>2, <3>3 DEF Confined
  <2> QED
      BY Zenon, <1>5, <1>t, <2>1, <2>3, NoNewHolder DEF New
<1>6. ASSUME NEW r \in Requests, Save(r) PROVE IInv'
    BY Zenon, <1>6, <1>t, SaveIInv
<1>7. ASSUME NEW r \in Requests, SetCookie(r) PROVE IInv'
  <2>1. \A i \in Ids : \A b \in Browsers : Holds(b, i)' => Holds(b, i)
      BY Zenon, <1>7 DEF SetCookie, Holds
  <2> QED
      BY Zenon, <1>7, <1>t, <2>1, NoNewHolder DEF SetCookie, Confined
<1>8. ASSUME NEW i \in Ids, Evict(i) PROVE IInv'
  <2>1. UNCHANGED <<jar, used, from, cookie, sid, vals>> /\ store' = [store EXCEPT ![i] = NoEntity]
      BY Zenon, <1>8 DEF Evict
  <2>2. \A b \in Browsers : \A j \in Ids : Holds(b, j)' <=> Holds(b, j)
      BY Zenon, <2>1 DEF Holds
  <2>3. \A j \in Ids : store'[j] = store[j] \/ store'[j] = NoEntity
      BY Zenon, <2>1
  <2>4. OneHolder'
      BY Zenon, <2>2 DEF OneHolder
  <2>5. Confined'
      BY Zenon, <2>1 DEF Confined
  <2>6. UnusedIsFree'
      BY Zenon, <2>1, <2>3 DEF UnusedIsFree
  <2>7. EntityOwned'
    <3>1. NoEntity.values = {}
        BY DEF NoEntity
    <3> QED
        BY Zenon, <2>2, <2>3, <3>1 DEF EntityOwned
  <2> QED
      BY Zenon, <1>t, <2>4, <2>5, <2>6, <2>7
<1>9. CASE UNCHANGED vars
  <2>1. UNCHANGED <<jar, used, from, cookie, sid, vals, store>>
      BY Zenon, <1>9 DEF vars
  <2>2. \A i \in Ids : \A b \in Browsers : Holds(b, i)' => Holds(b, i)
      BY Zenon, <2>1 DEF Holds
  <2>3. Confined'
      BY Zenon, <2>1 DEF Confined
  <2> QED
      BY Zenon, <1>t, <2>1, <2>2, <2>3, NoNewHolder
<1> QED
    BY Zenon, <1>1, <1>2, <1>3, <1>4, <1>5, <1>6, <1>7, <1>8, <1>9
       DEF StoreNext, Next, Environment

\* IInv holds whatever memcache evicts.
LEMMA MemcacheInvariant == MemcacheSpec => []IInv
<1>1. MemcacheInit => IInv
    BY InitIInv DEF MemcacheInit
<1>2. IInv /\ [MemcacheNext]_memcacheVars => IInv'
    BY NextIInv DEF MemcacheNext, StoreNext, memcacheVars
<1> QED
    BY <1>1, <1>2, PTL DEF MemcacheSpec

\* DatastoreStore is MemcacheStore without evictions.
LEMMA DatastoreInvariant == Spec => []IInv
<1>1. IInv /\ [Next]_vars => IInv'
    BY NextIInv DEF StoreNext
<1> QED
    BY InitIInv, <1>1, PTL DEF Spec

-----------------------------------------------------------------------------
\* Type correctness of the datastore-backed store.
THEOREM DatastoreTypeOK == Spec => []TypeOK
<1>1. IInv => TypeOK
    BY DEF IInv
<1> QED
    BY <1>1, DatastoreInvariant, PTL

\* session.Values of a request only ever holds values put there for the
\* browser that sent it, with the datastore (New, Save of DatastoreStore).
THEOREM DatastoreConfined == Spec => []Confined
<1>1. IInv => Confined
    BY DEF IInv
<1> QED
    BY <1>1, DatastoreInvariant, PTL

\* No two browsers ever hold the same session ID (Save of DatastoreStore).
THEOREM DatastoreIdsNotShared == Spec => []IdsNotShared
<1>1. IInv => IdsNotShared
    BY HoldersHolds DEF IInv, IdsNotShared, OneHolder
<1> QED
    BY <1>1, DatastoreInvariant, PTL

\* The same with memcache, whatever it evicts and whenever.
THEOREM MemcacheConfined == MemcacheSpec => []Confined
<1>1. IInv => Confined
    BY DEF IInv
<1> QED
    BY <1>1, MemcacheInvariant, PTL

\* What memcache holds under an ID was put there for the browser that holds
\* the ID, even when a request puts back what was evicted under it.
THEOREM MemcacheStoredConfined == MemcacheSpec => []StoredConfined
<1>1. IInv => StoredConfined
    BY SMTT(30), HoldersHolds DEF IInv, StoredConfined, EntityOwned
<1> QED
    BY <1>1, MemcacheInvariant, PTL

-----------------------------------------------------------------------------
(* Refinement: the stores implement PrivateSessions.                       *)
(*                                                                         *)
(* The mapping keeps for a browser what is stored under the IDs it holds.  *)
(* That Save changes this for one browser only needs IInv (an ID has one   *)
(* holder, and a new one names nothing); that New does not change it needs *)
(* FreshRequest.                                                           *)

\* A request that New has not seen has no session ID and no Values.
FreshRequest ==
    \A r \in Requests : pc[r] \in {"idle", "new"} => sid[r] = NoId /\ vals[r] = {}

RInv == IInv /\ FreshRequest

\* New, Save and the handler leave requests alone that have not arrived.
LEMMA NextFreshRequest ==
    ASSUME TypeOK, FreshRequest, [StoreNext]_vars
    PROVE  FreshRequest'
<1> USE DEF FreshRequest, TypeOK, RequestsTypeOK, reqVars, history, sharedVars
<1>1. ASSUME NEW r \in Requests, Arrive(r) \/ Reply(r) \/ Abandon(r) \/ ExpireSession(r)
      PROVE  FreshRequest'
    BY <1>1 DEF Arrive, Reply, Abandon, ExpireSession, Active
<1>2. ASSUME NEW r \in Requests, NEW k \in Keys, SetValue(r, k) \/ DeleteValue(r, k)
      PROVE  FreshRequest'
    BY <1>2 DEF SetValue, DeleteValue
<1>3. ASSUME NEW r \in Requests, New(r) PROVE FreshRequest'
  <2>1. pc' = [pc EXCEPT ![r] = "handler"] /\ \A q \in Requests \ {r} : sid'[q] = sid[q] /\ vals'[q] = vals[q]
      BY <1>3 DEF New, load
  <2> QED
      BY <2>1
<1>4. ASSUME NEW r \in Requests, Save(r) PROVE FreshRequest'
  <2>1. /\ pc' = [pc EXCEPT ![r] = "cookie"] \/ pc' = [pc EXCEPT ![r] = "done"]
        /\ \A q \in Requests \ {r} : sid'[q] = sid[q]
        /\ vals' = vals
      BY <1>4 DEF Save
  <2> QED
      BY <2>1
<1>5. ASSUME NEW r \in Requests, SetCookie(r) PROVE FreshRequest'
    BY <1>5 DEF SetCookie
<1>6. ASSUME NEW i \in Ids, Evict(i) PROVE FreshRequest'
    BY <1>6 DEF Evict
<1>7. CASE UNCHANGED vars
    BY <1>7 DEF vars
<1> QED
    BY <1>1, <1>2, <1>3, <1>4, <1>5, <1>6, <1>7 DEF StoreNext, Next, Environment

\* The invariant the refinement rests on.
LEMMA RefinementInvariant == MemcacheSpec => []RInv
<1>1. MemcacheInit => RInv
    BY InitIInv DEF MemcacheInit, Init, RequestsInit, RInv, FreshRequest
<1>2. RInv /\ [MemcacheNext]_memcacheVars => RInv'
    BY SMTT(30), NextIInv, NextFreshRequest DEF MemcacheNext, StoreNext, memcacheVars, RInv, IInv
<1> QED
    BY <1>1, <1>2, PTL DEF MemcacheSpec

\* Kept, by its members.
KeptIs ==
    \A b \in Browsers : \A V :
        V \in Kept[b] <=> \E i \in Ids : store[i].present /\ Holds(b, i) /\ V = store[i].values

\* What a browser is kept is what is stored under the IDs it holds.
LEMMA KeptMembers == TypeOK => KeptIs
BY HoldersHolds DEF Kept, KeptIs

\* The same after a step.
LEMMA KeptMembersNext == TypeOK' => KeptIs'
BY KeptMembers, PTL

\* A step after which no request is elsewhere, no browser holds another ID and
\* no entity is there that was not, may only forget.
LEMMA OnlyForgets ==
    ASSUME TypeOK, TypeOK', UNCHANGED <<from, vals, Stage>>,
           \A i \in Ids : store'[i].present => store'[i] = store[i],
           \A i \in Ids : \A b \in Browsers : Holds(b, i)' => Holds(b, i)
    PROVE  Private!Forget
<1>1. ASSUME NEW b \in Browsers, NEW V \in Kept'[b] PROVE V \in Kept[b]
  <2>1. PICK i \in Ids : store'[i].present /\ Holds(b, i)' /\ V = store'[i].values
      BY <1>1, KeptMembersNext DEF KeptIs
  <2>2. store[i].present /\ Holds(b, i) /\ V = store[i].values
      BY <2>1
  <2> QED
      BY <2>2, KeptMembers DEF KeptIs
<1>2. Kept' = [b \in Browsers |-> Kept'[b]]
    BY DEF Kept
<1> QED
    BY <1>1, <1>2 DEF Private!Forget

\* A step that leaves the store and who holds which ID alone keeps all.
LEMMA KeepsAll ==
    ASSUME TypeOK, TypeOK', UNCHANGED store,
           \A i \in Ids : \A b \in Browsers : Holds(b, i)' <=> Holds(b, i)
    PROVE  Kept' = Kept
<1>1. ASSUME NEW b \in Browsers PROVE Kept'[b] = Kept[b]
  <2>1. \A V : V \in Kept'[b] <=> V \in Kept[b]
      BY KeptMembers, KeptMembersNext DEF KeptIs
  <2> QED
      BY Zenon, <2>1
<1> QED
    BY Zenon, <1>1 DEF Kept

\* New begins a request with what is stored under the cookie's ID, or nothing.
LEMMA NewBegins ==
    ASSUME RInv, TypeOK', NEW r \in Requests, New(r)
    PROVE  Private!Begin(r)
<1> USE DEF RInv, IInv, TypeOK, RequestsTypeOK
<1>1. Stage[r] = "waiting" /\ Stage' = [Stage EXCEPT ![r] = "open"]
    BY ZenonT(60) DEF New, Stage
<1>2. Kept' = Kept
  <2>1. sid[r] = NoId /\ (sid' = [sid EXCEPT ![r] = NoId] \/ sid' = [sid EXCEPT ![r] = cookie[r]])
      BY Zenon DEF New, FreshRequest
  <2>2. jar' = jar /\ from' = from /\ cookie' = cookie /\ store' = store
      BY DEF New, sharedVars
  <2>3. ASSUME NEW i \in Ids, NEW b \in Browsers PROVE Holds(b, i)' <=> Holds(b, i)
      BY SMTT(30), <2>1, <2>2, NoIdAssumption DEF Holds
  <2> QED
      BY Zenon, <2>2, <2>3, KeepsAll
<1>3. \E v \in Kept[from[r]] \cup {{}} : vals' = [vals EXCEPT ![r] = v]
  <2>1. CASE vals' = [vals EXCEPT ![r] = {}]
      BY Zenon, <2>1
  <2>2. CASE cookie[r] \in Ids /\ store[cookie[r]].present /\ vals' = [vals EXCEPT ![r] = store[cookie[r]].values]
    <3>1. Holds(from[r], cookie[r]) /\ from[r] \in Browsers
        BY Zenon DEF Holds
    <3>2. store[cookie[r]].values \in Kept[from[r]]
        BY Zenon, <2>2, <3>1, KeptMembers DEF KeptIs
    <3> QED
        BY Zenon, <2>2, <3>2
  <2> QED
      BY Zenon, <2>1, <2>2 DEF New, load, MaybeId
<1> QED
    BY Zenon, <1>1, <1>2, <1>3 DEF Private!Begin, New

\* Save ends a request; for the other browsers nothing changes.
LEMMA SaveEnds ==
    ASSUME RInv, RInv', NEW r \in Requests, Save(r)
    PROVE  Private!End(r)
<1>k. KeptIs /\ KeptIs'
    BY KeptMembers, KeptMembersNext DEF RInv, IInv
<1>ty. /\ jar \in [Browsers -> MaybeId] /\ from \in [Requests -> Browsers]
       /\ sid \in [Requests -> MaybeId] /\ cookie \in [Requests -> MaybeId]
       /\ pc \in [Requests -> PcStates] /\ store \in [Ids -> [present : BOOLEAN, values : Values]]
    BY DEF RInv, IInv, TypeOK, RequestsTypeOK
<1>i. OneHolder' /\ UnusedIsFree
    BY DEF RInv, IInv
<1>1. Stage[r] = "open" /\ Stage' = [Stage EXCEPT ![r] = "over"]
    BY Zenon, <1>ty DEF Save, Stage
<1>2. PICK id \in Ids :
          /\ (sid[r] = NoId /\ id \notin used) \/ sid[r] = id
          /\ sid' = [sid EXCEPT ![r] = id]
          /\ store' = store \/ store' = [store EXCEPT ![id] = Entity(vals[r])]
    BY Zenon, <1>ty DEF Save, save, MaybeId, GenerateRandomKey
<1>3. jar' = jar /\ from' = from /\ cookie' = cookie /\ vals' = vals
    BY Zenon DEF Save
<1>4. Holds(from[r], id)' /\ from[r] \in Browsers
    BY <1>ty, <1>2, <1>3 DEF Holds
<1>5. ASSUME NEW b \in Browsers \ {from[r]} PROVE Kept'[b] = Kept[b]
  <2>1. ~Holds(b, id)'
      BY <1>i, <1>3, <1>4, <1>5 DEF OneHolder
  <2>2. \A i \in Ids : Holds(b, i)' <=> Holds(b, i)
    <3>1. \A q \in Requests : from[q] = b => sid'[q] = sid[q]
        BY <1>ty, <1>2, <1>5
    <3> QED
        BY <1>3, <3>1 DEF Holds
  <2>3. \A i \in Ids \ {id} : store'[i] = store[i]
      BY <1>ty, <1>2
  <2>4. \A V : V \in Kept'[b] <=> V \in Kept[b]
    <3>1. \A i \in Ids : Holds(b, i) => i # id
        BY <2>1, <2>2
    <3>2. \A V : V \in Kept'[b] <=> \E i \in Ids : store'[i].present /\ Holds(b, i) /\ V = store'[i].values
        BY <1>k, <2>2 DEF KeptIs
    <3>3. \A V : V \in Kept[b] <=> \E i \in Ids : store[i].present /\ Holds(b, i) /\ V = store[i].values
        BY <1>k DEF KeptIs
    <3> QED
        BY <2>3, <3>1, <3>2, <3>3
  <2> QED
      BY Zenon, <2>4
<1>6. ASSUME NEW V \in Kept'[from[r]] PROVE V \in Kept[from[r]] \cup {vals[r]}
  <2>1. PICK i \in Ids : store'[i].present /\ Holds(from[r], i)' /\ V = store'[i].values
      BY <1>k, <1>3, <1>4, <1>6 DEF KeptIs
  <2>2. CASE store'[i] = store[i]
    <3>1. Holds(from[r], i)
      <4>1. CASE i # id
          BY <1>ty, <1>2, <1>3, <2>1, <4>1 DEF Holds
      <4>2. CASE i = id /\ sid[r] = id
          BY <4>2 DEF Holds
      <4>3. CASE i = id /\ id \notin used
          BY SMTT(30), <1>i, <2>1, <2>2, <4>3 DEF UnusedIsFree, NoEntity
      <4> QED
          BY <1>2, <4>1, <4>2, <4>3
    <3> QED
        BY <1>k, <1>4, <2>1, <2>2, <3>1 DEF KeptIs
  <2>3. CASE i = id /\ store' = [store EXCEPT ![id] = Entity(vals[r])]
      BY <1>ty, <2>1, <2>3 DEF Entity
  <2> QED
      BY Zenon, <1>ty, <1>2, <2>2, <2>3
<1>7. Kept' = [Kept EXCEPT ![from[r]] = Kept'[from[r]]]
  <2>1. Kept = [b \in Browsers |-> Kept[b]] /\ Kept' = [b \in Browsers |-> Kept'[b]]
      BY DEF Kept
  <2> QED
      BY <1>4, <1>5, <2>1
<1>8. Kept'[from[r]] \in SUBSET (Kept[from[r]] \cup {vals[r]})
    BY <1>6
<1>9. \E K \in SUBSET (Kept[from[r]] \cup (IF Stage[r] = "open" THEN {vals[r]} ELSE {})) :
          Kept' = [Kept EXCEPT ![from[r]] = K]
    BY <1>1, <1>7, <1>8
<1> QED
    BY Zenon, <1>1, <1>3, <1>9 DEF Private!End

\* Every step of the code is a step of the private stores, or none at all.
LEMMA StepImplements ==
    ASSUME RInv, RInv', [MemcacheNext]_memcacheVars
    PROVE  [Private!Next]_(Private!vars)
<1>t. TypeOK /\ TypeOK'
    BY DEF RInv, IInv
<1> USE DEF reqVars, history, sharedVars
<1>1. ASSUME NEW r \in Requests, Arrive(r) \/ Reply(r) \/ ExpireSession(r) \/ SetCookie(r),
             UNCHANGED store
      PROVE  Private!Forget
  <2>1. UNCHANGED <<from, vals, Stage>>
      BY SMTT(30), <1>1, <1>t DEF Arrive, Reply, ExpireSession, SetCookie, Stage, TypeOK, RequestsTypeOK
  <2>2. \A i \in Ids : \A b \in Browsers : Holds(b, i)' => Holds(b, i)
    <3> USE <1>t, NoIdAssumption DEF TypeOK, RequestsTypeOK, Holds
    <3>1. CASE Arrive(r)
        BY Zenon, <3>1 DEF Arrive
    <3>2. CASE Reply(r)
        BY Zenon, <3>2 DEF Reply
    <3>3. CASE ExpireSession(r) \/ SetCookie(r)
        BY Zenon, <3>3 DEF ExpireSession, SetCookie
    <3> QED
        BY Zenon, <1>1, <3>1, <3>2, <3>3
  <2> QED
      BY <1>1, <1>t, <2>1, <2>2, OnlyForgets
<1>2. ASSUME NEW r \in Requests, Abandon(r), UNCHANGED store
      PROVE  Private!Forget \/ Private!End(r)
  <2>1. \A i \in Ids : \A b \in Browsers : Holds(b, i)' <=> Holds(b, i)
      BY Zenon, <1>2 DEF Abandon, Holds
  <2>2. Kept' = Kept
      BY <1>2, <1>t, <2>1, KeepsAll
  <2>3. CASE pc[r] \in {"cookie", "reply"}
    <3>1. UNCHANGED <<from, vals, Stage>>
        BY Zenon, <1>2, <1>t, <2>3 DEF Abandon, Stage, TypeOK, RequestsTypeOK
    <3> QED
        BY <1>2, <1>t, <2>1, <3>1, OnlyForgets
  <2>4. CASE pc[r] \in {"new", "sweep", "handler"}
    <3>1. Stage[r] # "over" /\ Stage' = [Stage EXCEPT ![r] = "over"]
        BY ZenonT(60), <1>2, <1>t, <2>4 DEF Abandon, Stage, TypeOK, RequestsTypeOK
    <3>2. from[r] \in Browsers
        BY <1>t DEF TypeOK, RequestsTypeOK
    <3>3. Kept' = [Kept EXCEPT ![from[r]] = Kept[from[r]]]
        BY Zenon, <2>2, <3>2 DEF Kept
    <3>4. \E K \in SUBSET (Kept[from[r]] \cup (IF Stage[r] = "open" THEN {vals[r]} ELSE {})) :
              Kept' = [Kept EXCEPT ![from[r]] = K]
        BY ZenonT(60), <3>3
    <3> QED
        BY Zenon, <1>2, <3>1, <3>4 DEF Private!End, Abandon
  <2> QED
      BY SMTT(30), <1>2, <1>t, <2>3, <2>4 DEF Abandon, Active, TypeOK, RequestsTypeOK, PcStates
<1>3. ASSUME NEW r \in Requests, NEW k \in Keys, SetValue(r, k) \/ DeleteValue(r, k),
             UNCHANGED store
      PROVE  Private!Change(r)
  <2>1. \A i \in Ids : \A b \in Browsers : Holds(b, i)' <=> Holds(b, i)
      BY <1>3 DEF SetValue, DeleteValue, Holds
  <2>2. Kept' = Kept
      BY <1>3, <1>t, <2>1, KeepsAll
  <2>3. Stage[r] = "open" /\ Stage' = Stage
      BY <1>3 DEF SetValue, DeleteValue, Stage
  <2> QED
      BY Zenon, <1>3, <2>2, <2>3 DEF Private!Change, SetValue, DeleteValue
<1>4. ASSUME NEW i \in Ids, Evict(i) PROVE Private!Forget
  <2>1. \A j \in Ids : store'[j].present => store'[j] = store[j]
      BY <1>4, <1>t DEF Evict, NoEntity, TypeOK
  <2>2. \A j \in Ids : \A b \in Browsers : Holds(b, j)' => Holds(b, j)
      BY <1>4 DEF Evict, Holds
  <2>3. UNCHANGED <<from, vals, Stage>>
      BY <1>4 DEF Evict, Stage
  <2> QED
      BY <1>t, <2>1, <2>2, <2>3, OnlyForgets
<1>5. CASE UNCHANGED memcacheVars
  <2>1. UNCHANGED <<from, vals, Stage>>
      BY <1>5 DEF memcacheVars, vars, Stage
  <2>2. Kept' = Kept
    <3>1. \A i \in Ids : \A b \in Browsers : Holds(b, i)' <=> Holds(b, i)
        BY <1>5 DEF memcacheVars, vars, Holds
    <3> QED
        BY <1>5, <1>t, <3>1, KeepsAll DEF memcacheVars, vars
  <2> QED
      BY <2>1, <2>2 DEF Private!vars
<1>6. ASSUME NEW r \in Requests, New(r) PROVE Private!Begin(r)
    BY <1>6, <1>t, NewBegins
<1>7. ASSUME NEW r \in Requests, Save(r) PROVE Private!End(r)
    BY Zenon, <1>7, SaveEnds
<1>8. ASSUME NEW r \in Requests, SetCookie(r) PROVE Private!Forget
    BY Zenon, <1>1, <1>8 DEF SetCookie
<1> QED
    BY <1>1, <1>2, <1>3, <1>4, <1>5, <1>6, <1>7, <1>8
       DEF MemcacheNext, Next, Environment, Private!Next

\* Nothing is kept for anybody before the first request.
LEMMA InitImplements == MemcacheInit => Private!Init
<1> SUFFICES ASSUME MemcacheInit PROVE Private!Init
    OBVIOUS
<1>1. Stage = [r \in Requests |-> "waiting"]
    BY DEF MemcacheInit, Init, RequestsInit, Stage
<1>2. Kept = [b \in Browsers |-> {}]
    BY DEF MemcacheInit, Init, RequestsInit, NoEntity, Kept
<1> QED
    BY <1>1, <1>2 DEF MemcacheInit, Init, RequestsInit, Private!Init

-----------------------------------------------------------------------------
\* The App Engine stores, with or without evictions, do what a store for each
\* browser would, for any number of browsers, concurrent requests and IDs.
THEOREM MemcacheImplementsPrivate == MemcacheSpec => ImplementsPrivate
<1>1. RInv /\ RInv' /\ [MemcacheNext]_memcacheVars => [Private!Next]_(Private!vars)
    BY StepImplements
<1> QED
    BY <1>1, InitImplements, RefinementInvariant, PTL
       DEF MemcacheSpec, ImplementsPrivate, Private!Spec

-----------------------------------------------------------------------------
(* What a browser reads is what was last saved for it, and its cookie      *)
(* names what is stored: MemcacheStore, whose behaviours include           *)
(* DatastoreStore's.                                                       *)
(*                                                                         *)
(* ReadsLastSave looks at one step of New.  What it needs to know of the   *)
(* state before is that, as long as a browser is served one request at a   *)
(* time and without a failure, the request holds the browser's cookie, and *)
(* under that ID is what the last request of the browser saved, while none *)
(* is between its save and its reply.                                      *)

Saved(r) == pc[r] \in {"cookie", "reply"}

\* What is stored under i is v, unless it was evicted since.
StoredOrEvicted(i, v) ==
    /\ i \in Ids
    /\ store[i] = Entity(v) \/ (~store[i].present /\ i \in evicted)

SavedHasId == \A r \in Requests : Saved(r) => sid[r] \in Ids

OneAtATime ==
    \A q, r \in Requests : Active(q) /\ Active(r) /\ from[q] = from[r] /\ clean[from[r]] => q = r

CookieIsCurrent ==
    \A r \in Requests : pc[r] = "new" /\ clean[from[r]] => cookie[r] = jar[from[r]]

SavedIsStored ==
    \A r \in Requests :
        Saved(r) /\ clean[from[r]] /\ vals[r] # {} => StoredOrEvicted(sid[r], vals[r])

AckedIsStored ==
    \A b \in Browsers :
        clean[b] /\ acked[b] # {} /\ (\A r \in Requests : from[r] = b => ~Saved(r))
            => StoredOrEvicted(jar[b], acked[b])

HInv ==
    /\ IInv
    /\ SavedHasId
    /\ CookieNamesEntity
    /\ OneAtATime
    /\ CookieIsCurrent
    /\ SavedIsStored
    /\ AckedIsStored

\* What is stored stays stored or was evicted.
Steady ==
    /\ \A i, v : StoredOrEvicted(i, v) => StoredOrEvicted(i, v)'
    /\ \A i \in Ids : store[i].present \/ i \in evicted => store'[i].present \/ i \in evicted'

\* Of all steps, only Save replaces what is stored.
LEMMA SteadyStore ==
    ASSUME TypeOK,
           \/ UNCHANGED store /\ evicted' = {i \in evicted : ~store'[i].present}
           \/ \E i \in Ids : Evict(i)
           \/ UNCHANGED memcacheVars
    PROVE  Steady
<1>1. CASE UNCHANGED store /\ evicted' = {i \in evicted : ~store'[i].present}
    BY <1>1 DEF Steady, StoredOrEvicted
<1>2. ASSUME NEW i \in Ids, Evict(i) PROVE Steady
    BY Zenon, <1>2 DEF Steady, StoredOrEvicted, Evict, NoEntity, Entity, TypeOK
<1>3. CASE UNCHANGED memcacheVars
    BY <1>3 DEF Steady, StoredOrEvicted, memcacheVars, vars
<1> QED
    BY <1>1, <1>2, <1>3

\* The requests of HInv that a step leaves alone.
HRest ==
    /\ SavedHasId
    /\ CookieNamesEntity
    /\ OneAtATime
    /\ CookieIsCurrent
    /\ SavedIsStored
    /\ AckedIsStored

\* A request arrives with the browser's cookie; if the browser is still being
\* served another one, it is not clean any more.
LEMMA ArriveHistory ==
    ASSUME HInv, Steady, NEW r \in Requests, Arrive(r)
    PROVE  HRest'
<1> USE DEF HInv, IInv, TypeOK, RequestsTypeOK, Arrive, Saved
<1>1. SavedHasId' /\ CookieNamesEntity'
    BY DEF SavedHasId, CookieNamesEntity, Steady, MaybeId
<1>2. OneAtATime'
    BY ZenonT(60) DEF OneAtATime, Active, Alone
<1>3. CookieIsCurrent'
    BY DEF CookieIsCurrent
<1>4. SavedIsStored' /\ AckedIsStored'
    BY DEF SavedIsStored, AckedIsStored, Steady
<1> QED
    BY <1>1, <1>2, <1>3, <1>4 DEF HRest

\* After the reply, what the browser was given is what its request saved.
LEMMA ReplyHistory ==
    ASSUME HInv, Steady, NEW r \in Requests, Reply(r)
    PROVE  HRest'
<1> USE DEF HInv, IInv, TypeOK, RequestsTypeOK, Reply, Saved
<1>1. SavedHasId'
    BY DEF SavedHasId
<1>2. CookieNamesEntity'
    BY DEF SavedHasId, CookieNamesEntity, Steady, MaybeId
<1>3. OneAtATime'
    BY DEF OneAtATime, Active
<1>4. CookieIsCurrent'
    BY Zenon DEF CookieIsCurrent, OneAtATime, Active
<1>5. SavedIsStored'
    BY DEF SavedIsStored, Steady
<1>6. AckedIsStored'
  <2> SUFFICES ASSUME NEW b \in Browsers, clean'[b], acked'[b] # {},
                      \A q \in Requests : from'[q] = b => ~Saved(q)'
               PROVE  StoredOrEvicted(jar[b], acked[b])'
      BY DEF AckedIsStored
  <2>1. CASE b # from[r]
      BY <2>1 DEF AckedIsStored, Steady
  <2>2. CASE b = from[r]
    <3>1. jar'[b] = sid[r] /\ acked'[b] = vals[r]
        BY <2>2
    <3>2. StoredOrEvicted(sid[r], vals[r])
        BY <2>2, <3>1 DEF SavedIsStored
    <3>3. PICK i, v : i = sid[r] /\ v = vals[r]
        BY Zenon
    <3>4. StoredOrEvicted(i, v)'
        BY Zenon, <3>2, <3>3 DEF Steady
    <3> QED
        BY Zenon, <3>1, <3>3, <3>4 DEF StoredOrEvicted
  <2> QED
      BY <2>1, <2>2
<1> QED
    BY <1>1, <1>2, <1>3, <1>4, <1>5, <1>6 DEF HRest

\* Steps that end a request, or change the Values of one that is not saved.
LEMMA OtherHistory ==
    ASSUME HInv, Steady, NEW r \in Requests,
           UNCHANGED <<jar, from, cookie, sid, acked>>,
           \A q \in Requests : ~Saved(q) \/ vals'[q] = vals[q],
           \A b \in Browsers : clean'[b] => clean[b],
           \A q \in Requests : pc'[q] = pc[q] \/ (q = r /\ pc'[r] = "done" /\ ~clean'[from[r]])
                                 \/ (q = r /\ pc[r] = "cookie" /\ pc'[r] = "reply")
    PROVE  HRest'
<1> USE DEF HInv, IInv, TypeOK, RequestsTypeOK, Saved
<1>1. SavedHasId' /\ CookieNamesEntity'
    BY DEF SavedHasId, CookieNamesEntity, Steady, MaybeId
<1>2. OneAtATime'
    BY ZenonT(60) DEF OneAtATime, Active
<1>3. CookieIsCurrent'
    BY DEF CookieIsCurrent
<1>4. SavedIsStored'
  <2> SUFFICES ASSUME NEW q \in Requests, Saved(q)', clean'[from[q]], vals'[q] # {}
               PROVE  StoredOrEvicted(sid[q], vals[q])'
      BY DEF SavedIsStored
  <2>1. Saved(q) /\ clean[from[q]] /\ vals'[q] = vals[q]
      OBVIOUS
  <2>2. StoredOrEvicted(sid[q], vals[q])
      BY Zenon, <2>1 DEF SavedIsStored
  <2> QED
      BY Zenon, <2>1, <2>2 DEF Steady, StoredOrEvicted
<1>5. AckedIsStored'
  <2> SUFFICES ASSUME NEW b \in Browsers, clean'[b], acked[b] # {},
                      \A q \in Requests : from[q] = b => ~Saved(q)'
               PROVE  StoredOrEvicted(jar[b], acked[b])'
      BY ZenonT(60) DEF AckedIsStored
  <2>1. \A q \in Requests : from[q] = b => ~Saved(q)
      BY SMTT(30)
  <2>2. StoredOrEvicted(jar[b], acked[b])
      BY Zenon, <2>1 DEF AckedIsStored
  <2> QED
      BY Zenon, <2>2 DEF Steady, StoredOrEvicted
<1> QED
    BY ZenonT(60), <1>1, <1>2, <1>3, <1>4, <1>5 DEF HRest

\* New changes the session of a request that is not saved.
LEMMA NewHistory ==
    ASSUME HInv, Steady, NEW r \in Requests, New(r)
    PROVE  HRest'
<1> USE DEF HInv, IInv, TypeOK, RequestsTypeOK, Saved
<1>1. /\ pc[r] = "new" /\ pc' = [pc EXCEPT ![r] = "handler"]
      /\ UNCHANGED <<jar, from, cookie, acked>>
      /\ \A q \in Requests \ {r} : sid'[q] = sid[q] /\ vals'[q] = vals[q]
      /\ \A b \in Browsers : clean'[b] => clean[b]
    BY ZenonT(60) DEF New, load, sharedVars
<1>2. SavedHasId' /\ CookieNamesEntity'
    BY ZenonT(60), <1>1 DEF SavedHasId, CookieNamesEntity, Steady, MaybeId
<1>3. OneAtATime' /\ CookieIsCurrent'
  <2>1. \A q \in Requests : /\ pc'[q] \notin {"idle", "done"} => pc[q] \notin {"idle", "done"}
                            /\ pc'[q] = "new" => pc[q] = "new"
      BY Zenon, <1>1
  <2>2. OneAtATime'
      BY Zenon, <1>1, <2>1 DEF OneAtATime, Active
  <2>3. CookieIsCurrent'
      BY Zenon, <1>1, <2>1 DEF CookieIsCurrent
  <2> QED
      BY Zenon, <2>2, <2>3
<1>4. SavedIsStored'
  <2> SUFFICES ASSUME NEW q \in Requests, Saved(q)', clean'[from[q]], vals'[q] # {}
               PROVE  StoredOrEvicted(sid[q], vals[q])'
      BY ZenonT(60), <1>1 DEF SavedIsStored
  <2>1. Saved(q) /\ clean[from[q]] /\ vals'[q] = vals[q] /\ sid'[q] = sid[q]
      BY ZenonT(60), <1>1
  <2>2. StoredOrEvicted(sid[q], vals[q])
      BY ZenonT(60), <2>1 DEF SavedIsStored
  <2> QED
      BY ZenonT(60), <2>1, <2>2 DEF Steady, StoredOrEvicted
<1>5. AckedIsStored'
  <2> SUFFICES ASSUME NEW b \in Browsers, clean'[b], acked[b] # {},
                      \A q \in Requests : from[q] = b => ~Saved(q)'
               PROVE  StoredOrEvicted(jar[b], acked[b])'
      BY ZenonT(60), <1>1 DEF AckedIsStored
  <2>1. \A q \in Requests : from[q] = b => ~Saved(q)
      BY Zenon, <1>1
  <2>2. StoredOrEvicted(jar[b], acked[b])
      BY Zenon, <1>1, <2>1 DEF AckedIsStored
  <2> QED
      BY ZenonT(60), <1>1, <2>2 DEF Steady, StoredOrEvicted
<1> QED
    BY <1>2, <1>3, <1>4, <1>5 DEF HRest

\* Save writes under an ID only its browser holds, so what the other browsers
\* rely on stays; a clean browser has no other request under way.
LEMMA SaveHistory ==
    ASSUME HInv, IInv', NEW r \in Requests, Save(r),
           evicted' = {i \in evicted : ~store'[i].present}
    PROVE  HRest'
<1>1. PICK id \in Ids :
          /\ sid' = [sid EXCEPT ![r] = id]
          /\ store' = store \/ store' = [store EXCEPT ![id] = Entity(vals[r])]
          /\ \/ /\ pc' = [pc EXCEPT ![r] = "cookie"]
                /\ vals[r] # {} => store'[id] = Entity(vals[r])
                /\ clean' = clean
             \/ /\ pc' = [pc EXCEPT ![r] = "done"]
                /\ clean' = [clean EXCEPT ![from[r]] = FALSE]
  <2>1. sid \in [Requests -> MaybeId] /\ store \in [Ids -> [present : BOOLEAN, values : Values]]
      BY DEF HInv, IInv, TypeOK, RequestsTypeOK
  <2>2. PICK id \in IF sid[r] = NoId THEN GenerateRandomKey ELSE {sid[r]} :
            /\ sid' = [sid EXCEPT ![r] = id]
            /\ used' = used \cup {id}
            /\ \/ /\ save(r, id)
                  /\ pc' = [pc EXCEPT ![r] = "cookie"]
                  /\ UNCHANGED clean
               \/ /\ vals[r] # {}
                  /\ pc' = [pc EXCEPT ![r] = "done"]
                  /\ clean' = [clean EXCEPT ![from[r]] = FALSE]
                  /\ save(r, id) \/ UNCHANGED store
      BY Zenon DEF Save
  <2>3. id \in Ids
      BY Zenon, <2>1, <2>2 DEF MaybeId, GenerateRandomKey
  <2> QED
      BY Zenon, <2>1, <2>2, <2>3 DEF save
<1>2. pc[r] = "handler" /\ UNCHANGED <<jar, from, cookie, vals, acked>>
    BY ZenonT(60) DEF Save
<1> USE DEF HInv, IInv, TypeOK, RequestsTypeOK, Saved
<1>3. \A i \in Ids : store[i].present \/ i \in evicted => store'[i].present \/ i \in evicted'
  <2>1. \A i \in Ids : store'[i] = store[i] \/ store'[i] = Entity(vals[r])
      BY Zenon, <1>1
  <2>2. Entity(vals[r]).present
      BY Zenon DEF Entity
  <2> QED
      BY Zenon, <2>1, <2>2
<1>4. \A i, v : i # id /\ StoredOrEvicted(i, v) => StoredOrEvicted(i, v)'
    BY Zenon, <1>1 DEF StoredOrEvicted
<1>5. \A b \in Browsers : Holds(b, id)' => b = from[r]
  <2>1. PICK o \in Browsers : o = from[r]
      BY Zenon
  <2>2. Holds(o, id)'
      BY Zenon, <1>1, <1>2, <2>1 DEF Holds
  <2>3. OneHolder'
      BY Zenon
  <2> QED
      BY Zenon, <2>1, <2>2, <2>3 DEF OneHolder
<1>6. SavedHasId'
    BY ZenonT(60), <1>1, <1>2 DEF SavedHasId
<1>7. CookieNamesEntity'
  <2>1. ASSUME NEW q \in Requests, Saved(q)', vals[q] # {}
        PROVE  store'[sid'[q]].present \/ sid'[q] \in evicted'
    <3>1. CASE q = r
      <4>1. sid'[q] = id /\ store'[id] = Entity(vals[r])
          BY Zenon, <1>1, <1>2, <2>1, <3>1
      <4>2. Entity(vals[r]).present
          BY Zenon DEF Entity
      <4> QED
          BY Zenon, <4>1, <4>2
    <3>2. CASE q # r
        BY ZenonT(60), <1>1, <1>3, <2>1, <3>2 DEF CookieNamesEntity, SavedHasId
    <3> QED
        BY Zenon, <3>1, <3>2
  <2>2. ASSUME NEW b \in Browsers, jar[b] # NoId, acked[b] # {}
        PROVE  store'[jar[b]].present \/ jar[b] \in evicted'
    <3>1. jar[b] \in Ids
        BY Zenon, <2>2 DEF MaybeId
    <3>2. store[jar[b]].present \/ jar[b] \in evicted
        BY Zenon, <2>2 DEF CookieNamesEntity
    <3> QED
        BY Zenon, <1>3, <3>1, <3>2
  <2> QED
      BY Zenon, <1>2, <2>1, <2>2 DEF CookieNamesEntity
<1>c. \A b \in Browsers : clean'[b] => clean[b]
    BY ZenonT(60), <1>1
<1>p. \A q \in Requests : /\ pc'[q] \notin {"idle", "done"} => pc[q] \notin {"idle", "done"}
                          /\ pc'[q] = "new" => pc[q] = "new"
    BY ZenonT(60), <1>1, <1>2
<1>8. OneAtATime' /\ CookieIsCurrent'
  <2>1. OneAtATime'
      BY Zenon, <1>2, <1>c, <1>p DEF OneAtATime, Active
  <2>2. CookieIsCurrent'
      BY Zenon, <1>2, <1>c, <1>p DEF CookieIsCurrent
  <2> QED
      BY <2>1, <2>2
<1>9. SavedIsStored'
  <2> SUFFICES ASSUME NEW q \in Requests, Saved(q)', clean'[from[q]], vals[q] # {}
               PROVE  StoredOrEvicted(sid[q], vals[q])'
      BY Zenon, <1>2 DEF SavedIsStored
  <2>1. CASE q = r
      BY Zenon, <1>1, <1>2, <2>1 DEF StoredOrEvicted
  <2>2. CASE q # r
    <3>1. Saved(q) /\ clean[from[q]] /\ sid'[q] = sid[q]
      <4>1. pc'[q] = pc[q] /\ sid'[q] = sid[q]
          BY Zenon, <1>1, <2>2
      <4> QED
          BY Zenon, <1>c, <4>1
    <3>2. StoredOrEvicted(sid[q], vals[q])
        BY Zenon, <3>1 DEF SavedIsStored
    <3>3. from[q] # from[r]
        BY Zenon, <1>2, <2>2, <3>1 DEF OneAtATime, Active
    <3>4. from[q] \in Browsers
        BY Zenon
    <3>5. sid[q] # id
        BY Zenon, <1>2, <1>5, <3>1, <3>3, <3>4 DEF Holds
    <3> QED
        BY ZenonT(60), <1>2, <1>4, <3>1, <3>2, <3>5 DEF StoredOrEvicted
  <2> QED
      BY Zenon, <2>1, <2>2
<1>10. AckedIsStored'
  <2> SUFFICES ASSUME NEW b \in Browsers, clean'[b], acked[b] # {},
                      \A q \in Requests : from[q] = b => ~Saved(q)'
               PROVE  StoredOrEvicted(jar[b], acked[b])'
      BY ZenonT(60), <1>2 DEF AckedIsStored
  <2>1. b # from[r] /\ clean[b]
    <3>1. clean[b]
        BY Zenon, <1>c
    <3>2. ASSUME b = from[r] PROVE FALSE
      <4>1. pc'[r] # "cookie" /\ (pc'[r] = "cookie" \/ clean'[b] = FALSE)
          BY Zenon, <1>1, <3>2
      <4> QED
          BY Zenon, <4>1
    <3> QED
        BY Zenon, <3>1, <3>2
  <2>2. \A q \in Requests : from[q] = b => ~Saved(q)
      BY ZenonT(60), <1>1, <2>1
  <2>3. StoredOrEvicted(jar[b], acked[b])
      BY ZenonT(60), <2>1, <2>2 DEF AckedIsStored
  <2>4. jar[b] # id
      BY Zenon, <1>2, <1>5, <2>1 DEF Holds
  <2> QED
      BY Zenon, <1>2, <1>4, <2>3, <2>4 DEF StoredOrEvicted
<1> QED
    BY Zenon, <1>6, <1>7, <1>8, <1>9, <1>10 DEF HRest

\* Every step keeps what the browsers rely on.
LEMMA NextHInv == HInv /\ [MemcacheNext]_memcacheVars => HInv'
<1> SUFFICES ASSUME HInv, [MemcacheNext]_memcacheVars PROVE HInv'
    OBVIOUS
<1>i. IInv'
    BY NextIInv DEF HInv, MemcacheNext, StoreNext, memcacheVars
<1>k. TypeOK
    BY DEF HInv, IInv
<1> USE DEF reqVars, history, sharedVars
<1> DEFINE SameStore == UNCHANGED store /\ evicted' = {i \in evicted : ~store'[i].present}
<1>1. ASSUME NEW r \in Requests, SameStore, Arrive(r) PROVE HRest'
    BY <1>1, <1>k, SteadyStore, ArriveHistory
<1>2. ASSUME NEW r \in Requests, SameStore, Reply(r) PROVE HRest'
    BY Zenon, <1>2, <1>k, SteadyStore, ReplyHistory
<1>3. ASSUME NEW r \in Requests, SameStore, Abandon(r) \/ ExpireSession(r) \/ SetCookie(r)
      PROVE  HRest'
  <2>1. Steady
      BY Zenon, <1>3, <1>k, SteadyStore
  <2>2. /\ UNCHANGED <<jar, from, cookie, sid, acked, vals>>
        /\ clean' = clean \/ clean' = [clean EXCEPT ![from[r]] = FALSE]
        /\ \/ pc' = pc
           \/ pc' = [pc EXCEPT ![r] = "done"] /\ clean' = [clean EXCEPT ![from[r]] = FALSE]
           \/ pc[r] = "cookie" /\ pc' = [pc EXCEPT ![r] = "reply"]
      BY Zenon, <1>3 DEF Abandon, ExpireSession, SetCookie
  <2>3. /\ clean \in [Browsers -> BOOLEAN] /\ from \in [Requests -> Browsers]
        /\ pc \in [Requests -> PcStates]
      BY Zenon, <1>k DEF TypeOK, RequestsTypeOK
  <2>4. \A b \in Browsers : clean'[b] => clean[b]
      BY <2>2, <2>3
  <2>5. \A q \in Requests : \/ pc'[q] = pc[q]
                            \/ q = r /\ pc'[r] = "done" /\ ~clean'[from[r]]
                            \/ q = r /\ pc[r] = "cookie" /\ pc'[r] = "reply"
      BY <2>2, <2>3
  <2> QED
      BY Zenon, <2>1, <2>2, <2>4, <2>5, OtherHistory
<1>4. ASSUME NEW r \in Requests, NEW k \in Keys, SameStore, SetValue(r, k) \/ DeleteValue(r, k)
      PROVE  HRest'
  <2>1. Steady
      BY <1>4, <1>k, SteadyStore
  <2> QED
      BY Zenon, <1>4, <1>k, <2>1, OtherHistory
         DEF SetValue, DeleteValue, Saved, TypeOK, RequestsTypeOK
<1>5. ASSUME NEW r \in Requests, SameStore, New(r) PROVE HRest'
    BY <1>5, <1>k, SteadyStore, NewHistory
<1>6. ASSUME NEW r \in Requests, Save(r), evicted' = {i \in evicted : ~store'[i].present}
      PROVE  HRest'
    BY <1>6, <1>i, SaveHistory
<1>7. ASSUME NEW i \in Ids, Evict(i) PROVE HRest'
  <2>1. Steady
      BY Zenon, <1>7, <1>k, SteadyStore
  <2>2. CASE Requests = {}
      BY Zenon, <1>7, <2>1, <2>2
         DEF Evict, HInv, HRest, SavedHasId, CookieNamesEntity, OneAtATime, CookieIsCurrent,
             SavedIsStored, AckedIsStored, Steady, IInv, TypeOK, RequestsTypeOK, MaybeId
  <2>3. ASSUME NEW r \in Requests PROVE HRest'
      BY Zenon, <1>7, <2>1, OtherHistory DEF Evict
  <2> QED
      BY <2>2, <2>3
<1>8. ASSUME UNCHANGED memcacheVars PROVE HRest'
  <2>1. SavedHasId' /\ CookieNamesEntity' /\ OneAtATime' /\ CookieIsCurrent'
      BY ZenonT(60), <1>8 DEF memcacheVars, vars, HInv, Saved, SavedHasId, CookieNamesEntity, OneAtATime,
                  CookieIsCurrent, Active
  <2>2. SavedIsStored' /\ AckedIsStored'
      BY Zenon, <1>8 DEF memcacheVars, vars, HInv, Saved, StoredOrEvicted, SavedIsStored, AckedIsStored
  <2> QED
      BY Zenon, <2>1, <2>2 DEF HRest
<1>9. HRest'
  <2>1. CASE Environment /\ UNCHANGED store /\ evicted' = {i \in evicted : ~store'[i].present}
      BY <2>1, <1>1, <1>2, <1>3, <1>4 DEF Environment
  <2>2. ASSUME NEW r \in Requests, New(r) \/ SetCookie(r),
               evicted' = {i \in evicted : ~store'[i].present}
        PROVE  HRest'
    <3>1. UNCHANGED store
        BY Zenon, <2>2 DEF New, SetCookie
    <3> QED
        BY Zenon, <2>2, <3>1, <1>3, <1>5
  <2> QED
    <3>1. CASE UNCHANGED memcacheVars
        BY <1>8, <3>1
    <3>2. CASE \E i \in Ids : Evict(i)
        BY <1>7, <3>2
    <3>3. CASE Next /\ evicted' = {i \in evicted : ~store'[i].present}
        BY <1>6, <2>1, <2>2, <3>3 DEF Next
    <3> QED
        BY <3>1, <3>2, <3>3 DEF MemcacheNext
<1> QED
    BY <1>i, <1>9 DEF HInv, HRest

\* Nothing is saved, answered or under way at the start.
LEMMA InitHInv == MemcacheInit => HInv
<1> SUFFICES ASSUME MemcacheInit PROVE HInv
    OBVIOUS
<1>1. IInv
    BY InitIInv DEF MemcacheInit
<1>2. (\A r \in Requests : pc[r] = "idle") /\ (\A b \in Browsers : jar[b] = NoId /\ acked[b] = {})
    BY DEF MemcacheInit, Init, RequestsInit
<1>3. SavedHasId /\ SavedIsStored
    BY <1>2 DEF SavedHasId, SavedIsStored, Saved
<1>4. CookieNamesEntity /\ AckedIsStored
    BY <1>2 DEF CookieNamesEntity, AckedIsStored
<1>5. OneAtATime /\ CookieIsCurrent
    BY <1>2 DEF OneAtATime, CookieIsCurrent, Active
<1> QED
    BY Zenon, <1>1, <1>3, <1>4, <1>5 DEF HInv

\* HInv is an invariant.
LEMMA HistoryInvariant == MemcacheSpec => []HInv
BY InitHInv, NextHInv, PTL DEF MemcacheSpec

-----------------------------------------------------------------------------
\* Save hands out a cookie only for what is stored, and the browser's cookie
\* names it until it is evicted, whatever else the stores are asked to do.
THEOREM MemcacheCookieNamesEntity == MemcacheSpec => []CookieNamesEntity
<1>1. HInv => CookieNamesEntity
    BY Zenon DEF HInv
<1> QED
    BY <1>1, HistoryInvariant, PTL

\* New of a clean browser finds under the cookie's ID what was last answered.
LEMMA StepReads ==
    ASSUME HInv, [MemcacheNext]_memcacheVars, NEW r \in Requests, NewClean(r), acked[from[r]] # {}
    PROVE  vals'[r] = acked[from[r]] \/ (vals'[r] = {} /\ cookie[r] \in evicted)
<1> USE DEF HInv, IInv, TypeOK, RequestsTypeOK
<1>1. New(r)
  <2>1. ASSUME NEW q \in Requests,
               Arrive(q) \/ Reply(q) \/ Abandon(q) \/ ExpireSession(q) \/ Save(q) \/ SetCookie(q)
        PROVE  ~NewClean(r)
      BY Zenon, <2>1 DEF NewClean, Arrive, Reply, Abandon, ExpireSession, Save, SetCookie
  <2>2. ASSUME NEW q \in Requests, NEW k \in Keys, SetValue(q, k) \/ DeleteValue(q, k) PROVE ~NewClean(r)
      BY Zenon, <2>2 DEF NewClean, SetValue, DeleteValue
  <2>3. ASSUME NEW i \in Ids, Evict(i) PROVE ~NewClean(r)
      BY <2>3 DEF NewClean, Evict, reqVars
  <2>4. ASSUME UNCHANGED memcacheVars PROVE ~NewClean(r)
      BY Zenon, <2>4 DEF NewClean, memcacheVars, vars, reqVars
  <2>5. ASSUME NEW q \in Requests, New(q) PROVE q = r
      BY Zenon, <2>5 DEF NewClean, New
  <2> QED
      BY Zenon, <2>1, <2>2, <2>3, <2>4, <2>5 DEF MemcacheNext, Next, Environment
<1>2. clean[from[r]] /\ from[r] \in Browsers
    BY Zenon, <1>1 DEF New, load, NewClean
<1>3. cookie[r] = jar[from[r]]
    BY <1>2 DEF NewClean, CookieIsCurrent
<1>4. \A q \in Requests : from[q] = from[r] => ~Saved(q)
    BY Zenon, <1>2 DEF NewClean, OneAtATime, Active, Saved
<1>5. StoredOrEvicted(cookie[r], acked[from[r]])
    BY <1>2, <1>3, <1>4 DEF AckedIsStored
<1>6. cookie[r] # NoId
    BY Zenon, <1>5, NoIdAssumption DEF StoredOrEvicted
<1>7. \/ store[cookie[r]].present /\ vals' = [vals EXCEPT ![r] = store[cookie[r]].values]
      \/ ~store[cookie[r]].present /\ vals' = [vals EXCEPT ![r] = {}]
      \/ clean' = [clean EXCEPT ![from[r]] = FALSE]
    BY Zenon, <1>1, <1>6 DEF New, load
<1>8. clean' # [clean EXCEPT ![from[r]] = FALSE]
    BY <1>2 DEF NewClean
<1>9. CASE store[cookie[r]] = Entity(acked[from[r]])
  <2>1. /\ Entity(acked[from[r]]).present
        /\ Entity(acked[from[r]]).values = acked[from[r]]
      BY DEF Entity
  <2>2. store[cookie[r]].present /\ store[cookie[r]].values = acked[from[r]]
      BY Zenon, <1>9, <2>1
  <2>3. vals' = [vals EXCEPT ![r] = acked[from[r]]]
      BY Zenon, <1>7, <1>8, <2>2
  <2> QED
      BY Zenon, <2>3
<1>10. CASE ~store[cookie[r]].present /\ cookie[r] \in evicted
    BY Zenon, <1>7, <1>8, <1>10
<1> QED
    BY Zenon, <1>5, <1>9, <1>10 DEF StoredOrEvicted

\* A browser that is served one request at a time and without a failure is given
\* back what its last answered request saved, or nothing after an eviction.
THEOREM MemcacheReadsLastSave == MemcacheSpec => ReadsLastSave
<1>1. HInv /\ [MemcacheNext]_memcacheVars
        => [\A r \in Requests :
              NewClean(r) /\ acked[from[r]] # {}
                 => \/ vals'[r] = acked[from[r]]
                    \/ vals'[r] = {} /\ cookie[r] \in evicted]_memcacheVars
    BY StepReads
<1> QED
    BY <1>1, HistoryInvariant, PTL DEF MemcacheSpec, ReadsLastSave
=============================================================================
