--------------------------- MODULE DatastoreStore ---------------------------
(***************************************************************************)
(* appengine/sessions: DatastoreStore.  Sessions are entities of the App   *)
(* Engine datastore, keyed by session.ID; the cookie carries the ID only.  *)
(* A datastore call is one step, and may fail; a failed Put may or may not *)
(* have been applied.                                                      *)
(***************************************************************************)
EXTENDS SessionRequests

VARIABLE store      \* store[i]: [present, values] of the entity with key i

vars == <<jar, used, optAge, reqVars, history, store>>

NoEntity == [present |-> FALSE, values |-> {}]
Entity(v) == [present |-> TRUE, values |-> v]

TypeOK ==
    /\ RequestsTypeOK
    /\ store \in [Ids -> [present : BOOLEAN, values : Values]]

Init ==
    /\ RequestsInit
    /\ store = [i \in Ids |-> NoEntity]

\* Mutated forms of the definitions below.
loadAny(r, id) ==               \* the Get is not by key
    \E i \in Ids :
        /\ vals' = [vals EXCEPT ![r] = store[i].values]
        /\ isNew' = [isNew EXCEPT ![r] = ~store[i].present]
        /\ clean' = [clean EXCEPT ![from[r]] = FALSE]
saveLossy(r, id) ==             \* the error of Put is dropped
    \/ UNCHANGED store
    \/ store' = [store EXCEPT ![id] = Entity(vals[r])]
saveOnce(r, id) ==              \* an entity that exists is not overwritten
    store' = IF vals[r] = {} \/ store[id].present
             THEN store ELSE [store EXCEPT ![id] = Entity(vals[r])]
GenerateWeakKey == Ids          \* keys may repeat

\* load: session.Values from the entity; an entity that is not there; a Get or
\* a decode that fails.  The last two leave session.Values empty.
load(r, id) ==
    \/ /\ store[id].present
       /\ vals' = [vals EXCEPT ![r] = store[id].values]
       /\ isNew' = [isNew EXCEPT ![r] = FALSE]
       /\ UNCHANGED clean
    \/ /\ ~store[id].present
       /\ vals' = [vals EXCEPT ![r] = {}]
       /\ isNew' = [isNew EXCEPT ![r] = TRUE]
       /\ UNCHANGED clean
    \/ /\ vals' = [vals EXCEPT ![r] = {}]
       /\ isNew' = [isNew EXCEPT ![r] = TRUE]
       /\ clean' = [clean EXCEPT ![from[r]] = FALSE]

\* session.Options = &(*s.Options) is the store's pointer, not a copy.
SessionOptions(r) == StoreOpt

\* New: no cookie, a cookie DecodeMulti rejects (session.ID stays ""), or a
\* cookie that is decoded and loaded (session.ID is kept when load fails).
\* The handler gets the session whatever the error.
New(r) ==
    /\ pc[r] = "new"
    /\ pc' = [pc EXCEPT ![r] = "handler"]
    /\ optRef' = [optRef EXCEPT ![r] = SessionOptions(r)]
    /\ \/ /\ cookie[r] = NoId
          /\ sid' = [sid EXCEPT ![r] = NoId]
          /\ vals' = [vals EXCEPT ![r] = {}]
          /\ isNew' = [isNew EXCEPT ![r] = TRUE]
          /\ UNCHANGED clean
       \/ /\ cookie[r] # NoId
          /\ sid' = [sid EXCEPT ![r] = NoId]
          /\ vals' = [vals EXCEPT ![r] = {}]
          /\ isNew' = [isNew EXCEPT ![r] = TRUE]
          /\ clean' = [clean EXCEPT ![from[r]] = FALSE]
       \/ /\ cookie[r] # NoId
          /\ sid' = [sid EXCEPT ![r] = cookie[r]]
          /\ load(r, cookie[r])
    /\ UNCHANGED <<sharedVars, from, cookie, asked, sent, acked, store>>

\* save: nothing is written for empty Values.
save(r, id) ==
    \/ /\ vals[r] = {}
       /\ UNCHANGED store
    \/ /\ vals[r] # {}
       /\ store' = [store EXCEPT ![id] = Entity(vals[r])]

\* securecookie.GenerateRandomKey(32): taken never to repeat a key.
GenerateRandomKey == Ids \ used

\* Save up to the end of s.save: an ID is made up if there is none.
Save(r) ==
    /\ pc[r] = "handler"
    /\ \E id \in IF sid[r] = NoId THEN GenerateRandomKey ELSE {sid[r]} :
          /\ sid' = [sid EXCEPT ![r] = id]
          /\ used' = used \cup {id}
          /\ \/ /\ save(r, id)
                /\ pc' = [pc EXCEPT ![r] = "cookie"]
                /\ UNCHANGED clean
             \/ /\ vals[r] # {}         \* serialize or Put returned an error
                /\ pc' = [pc EXCEPT ![r] = "done"]
                /\ clean' = [clean EXCEPT ![from[r]] = FALSE]
                /\ save(r, id) \/ UNCHANGED store
    /\ UNCHANGED <<jar, optAge, from, cookie, vals, isNew, optRef, asked,
                   sent, acked>>

\* Save, its tail: EncodeMulti, then http.SetCookie with session.Options as
\* they are by now.
SetCookie(r) ==
    /\ pc[r] = "cookie"
    /\ \/ /\ pc' = [pc EXCEPT ![r] = "reply"]
          /\ sent' = [sent EXCEPT ![r] = optAge[optRef[r]]]
          /\ UNCHANGED clean
       \/ /\ pc' = [pc EXCEPT ![r] = "done"]      \* EncodeMulti failed
          /\ clean' = [clean EXCEPT ![from[r]] = FALSE]
          /\ UNCHANGED sent
    /\ UNCHANGED <<sharedVars, from, cookie, sid, vals, isNew, optRef, asked,
                   acked, store>>

Next ==
    \/ Environment /\ UNCHANGED store
    \/ \E r \in Requests : New(r) \/ Save(r) \/ SetCookie(r)

Spec == Init /\ [][Next]_vars

=============================================================================
