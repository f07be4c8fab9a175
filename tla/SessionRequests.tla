-------------------------- MODULE SessionRequests --------------------------
(***************************************************************************)
(* What the session stores of this repository share: browsers that keep    *)
(* one cookie, HTTP requests served concurrently, and the handler that     *)
(* runs between Store.New and Store.Save.  The code modelled here is the   *)
(* caller of the stores (gorilla/sessions, net/http, the application); the *)
(* stores themselves are DatastoreStore, MemcacheStore and MongoStore.     *)
(*                                                                         *)
(* A session value is a pair <<b, k>>: key k, put there while serving      *)
(* browser b.  The browser is a tag the properties read, no code does.     *)
(***************************************************************************)
EXTENDS Naturals, FiniteSets

CONSTANTS
    Browsers,   \* clients, each with its own cookie jar
    Requests,   \* HTTP requests, each served once
    Ids,        \* what securecookie.GenerateRandomKey can return
    Keys,       \* keys of session.Values
    NoId,       \* session.ID = "", and "no cookie" in a jar or a request
    StoreOpt    \* the Options object the store points to

ASSUME NoIdAssumption == NoId \notin Ids
ASSUME StoreOptAssumption == StoreOpt \notin Requests

Values == SUBSET (Browsers \X Keys)
MaybeId == Ids \cup {NoId}
Ages == {"default", "expired"}     \* Options.MaxAge: 30 days, or negative

VARIABLES
    jar,        \* jar[b]: the cookie browser b holds
    used,       \* keys GenerateRandomKey has returned so far
    optAge,     \* MaxAge of every Options object
    pc,         \* where each request stands
    from,       \* the browser that sent the request
    cookie,     \* the cookie the request carried
    sid,        \* session.ID
    vals,       \* session.Values
    isNew,      \* session.IsNew
    optRef,     \* session.Options, a pointer
    asked,      \* the handler of this request changed session.Options.MaxAge
    sent        \* MaxAge of the cookie in the response

\* History variables: the Values behind the cookie the browser holds, as of its
\* last answered request, and whether its requests have so far been served one
\* at a time and without any failure.
VARIABLES acked, clean

reqVars == <<pc, from, cookie, sid, vals, isNew, optRef, asked, sent>>
history == <<acked, clean>>
sharedVars == <<jar, used, optAge>>

PcStates == {"idle", "new", "sweep", "handler", "cookie", "reply", "done"}

Active(r) == pc[r] \notin {"idle", "done"}
Alone(r) == \A q \in Requests \ {r} : Active(q) => from[q] # from[r]

RequestsTypeOK ==
    /\ jar \in [Browsers -> MaybeId]
    /\ used \in SUBSET Ids
    /\ optAge \in [{StoreOpt} \cup Requests -> Ages]
    /\ pc \in [Requests -> PcStates]
    /\ from \in [Requests -> Browsers]
    /\ cookie \in [Requests -> MaybeId]
    /\ sid \in [Requests -> MaybeId]
    /\ vals \in [Requests -> Values]
    /\ isNew \in [Requests -> BOOLEAN]
    /\ optRef \in [Requests -> {StoreOpt} \cup Requests]
    /\ asked \in [Requests -> BOOLEAN]
    /\ sent \in [Requests -> Ages]
    /\ acked \in [Browsers -> Values]
    /\ clean \in [Browsers -> BOOLEAN]

RequestsInit ==
    /\ jar = [b \in Browsers |-> NoId]
    /\ used = {}
    /\ optAge = [o \in {StoreOpt} \cup Requests |-> "default"]
    /\ pc = [r \in Requests |-> "idle"]
    /\ from \in [Requests -> Browsers]
    /\ cookie = [r \in Requests |-> NoId]
    /\ sid = [r \in Requests |-> NoId]
    /\ vals = [r \in Requests |-> {}]
    /\ isNew = [r \in Requests |-> TRUE]
    /\ optRef = [r \in Requests |-> StoreOpt]
    /\ asked = [r \in Requests |-> FALSE]
    /\ sent = [r \in Requests |-> "default"]
    /\ acked = [b \in Browsers |-> {}]
    /\ clean = [b \in Browsers |-> TRUE]

-----------------------------------------------------------------------------
(* The transport.                                                          *)

\* The browser sends request r with the cookie it holds.
Arrive(r) ==
    /\ pc[r] = "idle"
    /\ pc' = [pc EXCEPT ![r] = "new"]
    /\ cookie' = [cookie EXCEPT ![r] = jar[from[r]]]
    /\ clean' = [clean EXCEPT ![from[r]] = @ /\ Alone(r)]
    /\ UNCHANGED <<jar, used, optAge, from, sid, vals, isNew, optRef, asked,
                   sent, acked>>

\* The response reaches the browser, which keeps the cookie, or drops it when
\* its MaxAge is negative.
Reply(r) ==
    /\ pc[r] = "reply"
    /\ pc' = [pc EXCEPT ![r] = "done"]
    /\ jar' = [jar EXCEPT ![from[r]] = IF sent[r] = "expired" THEN NoId ELSE sid[r]]
    /\ acked' = [acked EXCEPT ![from[r]] = IF sent[r] = "expired" THEN {} ELSE vals[r]]
    /\ UNCHANGED <<used, optAge, from, cookie, sid, vals, isNew, optRef, asked,
                   sent, clean>>

\* The response is lost, or the instance serving the request dies.
Abandon(r) ==
    /\ Active(r)
    /\ pc' = [pc EXCEPT ![r] = "done"]
    /\ clean' = [clean EXCEPT ![from[r]] = FALSE]
    /\ UNCHANGED <<jar, used, optAge, from, cookie, sid, vals, isNew, optRef,
                   asked, sent, acked>>

-----------------------------------------------------------------------------
(* The handler, between Store.New and Store.Save.                          *)

\* session.Values[k] = v
SetValue(r, k) ==
    /\ pc[r] = "handler"
    /\ vals' = [vals EXCEPT ![r] = @ \cup {<<from[r], k>>}]
    /\ UNCHANGED <<sharedVars, history, pc, from, cookie, sid, isNew, optRef,
                   asked, sent>>

\* delete(session.Values, k), as Session.Flashes does
DeleteValue(r, k) ==
    /\ pc[r] = "handler"
    /\ <<from[r], k>> \in vals[r]
    /\ vals' = [vals EXCEPT ![r] = @ \ {<<from[r], k>>}]
    /\ UNCHANGED <<sharedVars, history, pc, from, cookie, sid, isNew, optRef,
                   asked, sent>>

\* session.Options.MaxAge = -1, the way a session is ended
ExpireSession(r) ==
    /\ pc[r] = "handler"
    /\ optAge' = [optAge EXCEPT ![optRef[r]] = "expired"]
    /\ asked' = [asked EXCEPT ![r] = TRUE]
    /\ UNCHANGED <<jar, used, history, pc, from, cookie, sid, vals, isNew,
                   optRef, sent>>

Environment ==
    \E r \in Requests :
        \/ Arrive(r)
        \/ Reply(r)
        \/ Abandon(r)
        \/ ExpireSession(r)
        \/ \E k \in Keys : SetValue(r, k) \/ DeleteValue(r, k)

-----------------------------------------------------------------------------
(* Properties every store shares.                                          *)

\* Browsers that hold, sent, or are being sent session ID i.
Holders(i) ==
    {b \in Browsers : jar[b] = i}
        \cup {from[r] : r \in {q \in Requests : sid[q] = i \/ cookie[q] = i}}

\* Where a request stands, as PrivateSessions counts.
Stage ==
    [r \in Requests |-> CASE pc[r] \in {"idle", "new"} -> "waiting"
                         [] pc[r] \in {"sweep", "handler"} -> "open"
                         [] OTHER -> "over"]

\* Session data stays with its browser: whatever requests are served at the
\* same time, retried, lost or failed, session.Values of a request only ever
\* holds values put there for the browser that sent it.
Confined == \A r \in Requests : \A v \in vals[r] : v[1] = from[r]

\* No two browsers hold the same session ID.
IdsNotShared == \A i \in Ids : \A b, d \in Holders(i) : b = d

\* Options is the store's "default configuration": the cookie of a request
\* expires only if the handler of that very request asked for it.
OwnOptions ==
    \A r \in Requests : sent[r] = "expired" => asked[r]
=============================================================================
