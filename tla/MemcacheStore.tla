---------------------------- MODULE MemcacheStore ----------------------------
(***************************************************************************)
(* appengine/sessions: MemcacheStore.  Its New, Save, save and load are    *)
(* DatastoreStore's with memcache.Get and memcache.Set for datastore.Get   *)
(* and datastore.Put, so the actions are the same; what differs is that    *)
(* memcache may drop an item at any time.  The behaviours in which it      *)
(* drops none are those of DatastoreStore.                                 *)
(***************************************************************************)
EXTENDS DatastoreStore

VARIABLE evicted    \* history: IDs whose item was dropped and not set again

memcacheVars == <<vars, evicted>>

MemcacheInit == Init /\ evicted = {}

\* Memcache drops an item.
Evict(i) ==
    /\ store[i].present
    /\ store' = [store EXCEPT ![i] = NoEntity]
    /\ evicted' = evicted \cup {i}
    /\ UNCHANGED <<sharedVars, reqVars, history>>

MemcacheNext ==
    \/ Next /\ evicted' = {i \in evicted : ~store'[i].present}
    \/ \E i \in Ids : Evict(i)

MemcacheSpec == MemcacheInit /\ [][MemcacheNext]_memcacheVars

-----------------------------------------------------------------------------
\* Whatever is evicted, and put back by a request that had loaded it before:
\* what is stored under an ID was put there for the browser that holds the ID.
StoredConfined ==
    \A i \in Ids : \A b \in Holders(i) : \A v \in store[i].values : v[1] = b

\* A cookie is handed out only for what is stored: while Save of non-empty
\* Values is past s.save, and as long as the browser keeps the cookie it got,
\* an entity with that session ID is stored, unless it was evicted.
CookieNamesEntity ==
    /\ \A r \in Requests :
          pc[r] \in {"cookie", "reply"} /\ vals[r] # {}
             => store[sid[r]].present \/ sid[r] \in evicted
    /\ \A b \in Browsers :
          jar[b] # NoId /\ acked[b] # {} => store[jar[b]].present \/ jar[b] \in evicted

\* New returns, and neither it nor an earlier request of this browser failed.
NewClean(r) == pc[r] = "new" /\ pc'[r] = "handler" /\ clean'[from[r]]

\* A browser served one request at a time, none of which failed, is given back
\* the Values of its last answered request, if there were any; none if they were
\* evicted, never older ones.
ReadsLastSave ==
    [][\A r \in Requests :
         NewClean(r) /\ acked[from[r]] # {}
            => \/ vals'[r] = acked[from[r]]
               \/ vals'[r] = {} /\ cookie[r] \in evicted]_memcacheVars

\* The Values stored under the IDs a browser holds.
Kept ==
    [b \in Browsers |->
        {store[i].values : i \in {j \in Ids : store[j].present /\ b \in Holders(j)}}]

Private == INSTANCE PrivateSessions WITH stage <- Stage, kept <- Kept

\* Session IDs, cookies and the backend shared by all requests do what a store for
\* each browser would: New gives a request all the Values one earlier Save of the
\* same browser stored, or none, and Save adds to what that browser may get only.
ImplementsPrivate == Private!Spec
=============================================================================
