--------------------------- MODULE PrivateSessions ---------------------------
(***************************************************************************)
(* What a session store promises, without session IDs, cookies and a       *)
(* shared backend: as if each browser had a store of its own.  A request   *)
(* begins with all the Values of one earlier request of its browser, or    *)
(* with none; what it leaves behind is kept for its browser alone, and may *)
(* be forgotten.                                                           *)
(***************************************************************************)
CONSTANTS Browsers, Requests, Keys

VARIABLES
    from,       \* the browser that sent a request
    stage,      \* a request is "waiting", "open" or "over"
    vals,       \* session.Values of a request
    kept        \* kept[b]: the Values a request of browser b may begin with

vars == <<from, stage, vals, kept>>

Init ==
    /\ from \in [Requests -> Browsers]
    /\ stage = [r \in Requests |-> "waiting"]
    /\ vals = [r \in Requests |-> {}]
    /\ kept = [b \in Browsers |-> {}]

Begin(r) ==
    /\ stage[r] = "waiting"
    /\ stage' = [stage EXCEPT ![r] = "open"]
    /\ \E v \in kept[from[r]] \cup {{}} : vals' = [vals EXCEPT ![r] = v]
    /\ UNCHANGED <<from, kept>>

Change(r) ==
    /\ stage[r] = "open"
    /\ \E k \in Keys : \/ vals' = [vals EXCEPT ![r] = @ \cup {<<from[r], k>>}]
                       \/ vals' = [vals EXCEPT ![r] = @ \ {<<from[r], k>>}]
    /\ UNCHANGED <<from, stage, kept>>

\* A request that ends well leaves its Values in the place of those it began
\* with, or beside them; one that fails may have done so or not.
End(r) ==
    /\ stage[r] # "over"
    /\ stage' = [stage EXCEPT ![r] = "over"]
    /\ \E K \in SUBSET (kept[from[r]] \cup (IF stage[r] = "open" THEN {vals[r]} ELSE {})) :
          kept' = [kept EXCEPT ![from[r]] = K]
    /\ UNCHANGED <<from, vals>>

Forget ==
    /\ kept' = [b \in Browsers |-> kept'[b]]
    /\ \A b \in Browsers : kept'[b] \subseteq kept[b]
    /\ UNCHANGED <<from, stage, vals>>

Next ==
    \/ \E r \in Requests : Begin(r) \/ Change(r) \/ End(r)
    \/ Forget

Spec == Init /\ [][Next]_vars
==============================================================================
