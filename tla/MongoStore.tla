----------------------------- MODULE MongoStore -----------------------------
(***************************************************************************)
(* sessions/mongodb: MongoStore.  Sessions are documents of a collection,  *)
(* found by the bytes of session.ID and stamped with the time of the last  *)
(* save; New removes the ones older than Options.MaxAge.                   *)
(***************************************************************************)
EXTENDS SessionRequests

CONSTANTS
    MaxAge,     \* the default Options.MaxAge, in ticks
    MaxTime     \* bound on the clock

ASSUME MaxAgeAssumption == MaxAge \in Nat /\ MaxTime \in Nat

VARIABLES
    docs,       \* docs[i]: the documents whose sessionid is i
    now,        \* bson.Now()
    indexed     \* EnsureIndex worked: its error is not looked at

mongoVars == <<docs, now, indexed>>
vars == <<jar, used, optAge, reqVars, history, mongoVars>>

Doc == [values : Values, age : 0..MaxTime]

TypeOK ==
    /\ RequestsTypeOK
    /\ docs \in [Ids -> SUBSET Doc]
    /\ now \in 0..MaxTime
    /\ indexed \in BOOLEAN

Init ==
    /\ RequestsInit
    /\ docs = [i \in Ids |-> {}]
    /\ now = 0
    /\ indexed \in BOOLEAN

Tick ==
    /\ now < MaxTime
    /\ now' = now + 1
    /\ UNCHANGED <<sharedVars, reqVars, history, docs, indexed>>

\* The documents RemoveAll selects: age < Now - s.Options.MaxAge seconds.  A
\* negative MaxAge puts that instant in the future.
Older(d) ==
    IF optAge[StoreOpt] = "expired" THEN TRUE ELSE d.age + MaxAge < now

\* Mutated forms of the definitions below.
loadAny(r, id) ==               \* Find is given no selector
    \E i \in Ids : \E d \in docs[i] :
        /\ vals' = [vals EXCEPT ![r] = d.values]
        /\ isNew' = [isNew EXCEPT ![r] = FALSE]
        /\ UNCHANGED clean
InsertUnchecked(r, id) ==       \* the index is not unique
    docs' = [docs EXCEPT ![id] = @ \cup {[values |-> vals[r], age |-> now]}]
Replace(r, id) ==               \* the selector has the type that is stored
    docs' = [docs EXCEPT ![id] = {[values |-> vals[r], age |-> now]}]

\* load: one of the documents with that sessionid, or an error (none found,
\* a failed query, a value DecodeMulti rejects) that leaves Values empty.
load(r, id) ==
    \/ \E d \in docs[id] :
          /\ vals' = [vals EXCEPT ![r] = d.values]
          /\ isNew' = [isNew EXCEPT ![r] = FALSE]
          /\ UNCHANGED clean
    \/ /\ vals' = [vals EXCEPT ![r] = {}]
       /\ isNew' = [isNew EXCEPT ![r] = TRUE]
       /\ clean' = [clean EXCEPT ![from[r]] = FALSE]

\* New up to the query: as in the other stores, session.Options is the store's
\* own Options object.
New(r) ==
    /\ pc[r] = "new"
    /\ pc' = [pc EXCEPT ![r] = "sweep"]
    /\ optRef' = [optRef EXCEPT ![r] = StoreOpt]
    /\ \/ /\ cookie[r] = NoId
          /\ sid' = [sid EXCEPT ![r] = NoId]
          /\ vals' = [vals EXCEPT ![r] = {}]
          /\ isNew' = [isNew EXCEPT ![r] = TRUE]
          /\ UNCHANGED clean
       \/ /\ cookie[r] # NoId
          /\ sid' = [sid EXCEPT ![r] = NoId]
          /\ vals' = [vals EXCEPT ![r] = {}]
          /\ isNew' = [isNew EXCEPT ![r] = TRUE]
          /\ clean' = [clean EXCEPT ![from[r]] = FALSE]
       \/ /\ cookie[r] # NoId
          /\ sid' = [sid EXCEPT ![r] = cookie[r]]
          /\ load(r, cookie[r])
    /\ UNCHANGED <<sharedVars, from, cookie, asked, sent, acked, mongoVars>>

\* New, its tail: "Remove older sessions".  The error is not looked at.
RemoveOlder(r) ==
    /\ pc[r] = "sweep"
    /\ pc' = [pc EXCEPT ![r] = "handler"]
    /\ \/ docs' = [i \in Ids |-> {d \in docs[i] : ~Older(d)}]
       \/ UNCHANGED docs
    /\ UNCHANGED <<sharedVars, from, cookie, sid, vals, isNew, optRef, asked,
                   sent, history, now, indexed>>

\* save: Upsert selects by the ID as a string and the documents hold it as
\* bytes, so it never finds one to update: it inserts, which the unique index,
\* when there is one, refuses if the session is already stored.
Upsert(r, id) ==
    /\ indexed => docs[id] = {}
    /\ docs' = [docs EXCEPT ![id] = @ \cup {[values |-> vals[r], age |-> now]}]

\* securecookie.GenerateRandomKey(32): taken never to repeat a key.
GenerateRandomKey == Ids \ used

\* Save up to the end of s.save.
Save(r) ==
    /\ pc[r] = "handler"
    /\ \E id \in IF sid[r] = NoId THEN GenerateRandomKey ELSE {sid[r]} :
          /\ sid' = [sid EXCEPT ![r] = id]
          /\ used' = used \cup {id}
          /\ \/ /\ Upsert(r, id)
                /\ pc' = [pc EXCEPT ![r] = "cookie"]
                /\ UNCHANGED clean
             \/ /\ pc' = [pc EXCEPT ![r] = "done"]    \* s.save returned an error
                /\ clean' = [clean EXCEPT ![from[r]] = FALSE]
                /\ Upsert(r, id) \/ UNCHANGED docs
    /\ UNCHANGED <<jar, optAge, from, cookie, vals, isNew, optRef, asked,
                   sent, acked, now, indexed>>

\* Save, its tail.
SetCookie(r) ==
    /\ pc[r] = "cookie"
    /\ \/ /\ pc' = [pc EXCEPT ![r] = "reply"]
          /\ sent' = [sent EXCEPT ![r] = optAge[optRef[r]]]
          /\ UNCHANGED clean
       \/ /\ pc' = [pc EXCEPT ![r] = "done"]
          /\ clean' = [clean EXCEPT ![from[r]] = FALSE]
          /\ UNCHANGED sent
    /\ UNCHANGED <<sharedVars, from, cookie, sid, vals, isNew, optRef, asked,
                   acked, mongoVars>>

Next ==
    \/ Environment /\ UNCHANGED mongoVars
    \/ Tick
    \/ \E r \in Requests : New(r) \/ RemoveOlder(r) \/ Save(r) \/ SetCookie(r)

Spec == Init /\ [][Next]_vars

-----------------------------------------------------------------------------
\* With the unique index there is at most one document per session, whatever
\* requests are saving it at the same time.
OneDocument == indexed => \A i \in Ids : \A d, e \in docs[i] : d = e

\* The stored Values of a session are those of its first save for as long as
\* its document is there: no later save, of this or of another request, can
\* replace them.
FirstSaveStays ==
    [][\A i \in Ids : indexed /\ docs[i] # {} => docs'[i] \in {{}, docs[i]}]_vars

\* The Values of the documents of the sessions a browser holds the IDs of.
Kept ==
    [b \in Browsers |-> {d.values : d \in UNION {docs[i] : i \in {j \in Ids : b \in Holders(j)}}}]

Private == INSTANCE PrivateSessions WITH stage <- Stage, kept <- Kept

\* With documents that may be there several times, or be removed by the New of any
\* request, the collection does what a store for each browser would: New gives a
\* request all the Values of one earlier Save of the same browser, or none.
ImplementsPrivate == Private!Spec
=============================================================================
