-------------------------- MODULE CheckoutIngestion --------------------------
(***************************************************************************)
(* What the fetcher promises, without processes, failures or retries:      *)
(* check-outs are published, published check-outs are ingested, in any     *)
(* order and any number of times, and the horizon of an event moves only   *)
(* to where it leaves nothing behind.  cmd.go states the promise in the    *)
(* comments of processEventCheckouts; CheckoutFetcher implements it.       *)
(***************************************************************************)
EXTENDS Integers

CONSTANTS
    Events, Checkouts,
    Owner,      \* the event of a check-out
    Lookback,   \* what is older than this below the horizon is given up
    Slack       \* what is this little below the horizon is still looked at

VARIABLES
    publishedAt, \* 0 until the check-out is published
    ingested,    \* the check-outs in the checkins table
    horizon,     \* last_checked_out_time of each event
    live         \* the events that exist

vars == <<publishedAt, ingested, horizon, live>>

(* A check-out of this time is never shown again under horizon h, though   *)
(* it was recent enough to be.                                             *)
LeftBehind(t, h) == t < h - Slack /\ t >= h - Lookback - Slack

Init ==
    /\ publishedAt = [c \in Checkouts |-> 0]
    /\ ingested = {}
    /\ horizon = [e \in Events |-> 0]
    /\ live = Events

(* A check-out is published too late to be left behind.                    *)
Publish(c) ==
    /\ publishedAt[c] = 0
    /\ publishedAt' = [publishedAt EXCEPT ![c] = publishedAt'[c]]
    /\ publishedAt'[c] \in Nat \ {0}
    /\ Owner[c] \in live => ~LeftBehind(publishedAt'[c], horizon[Owner[c]])
    /\ UNCHANGED <<ingested, horizon, live>>

Ingest(c) ==
    /\ publishedAt[c] # 0
    /\ ingested' = ingested \cup {c}
    /\ UNCHANGED <<publishedAt, horizon, live>>

(* The horizon may move back, by a stale PATCH, as well as forth.          *)
MoveHorizon(e) ==
    /\ e \in live
    /\ horizon' = [horizon EXCEPT ![e] = horizon'[e]]
    /\ horizon'[e] \in Nat
    /\ \A c \in Checkouts \ ingested :
        Owner[c] = e /\ publishedAt[c] # 0 => ~LeftBehind(publishedAt[c], horizon'[e])
    /\ UNCHANGED <<publishedAt, ingested, live>>

Remove(e) ==
    /\ live' = live \ {e}
    /\ ingested' = {c \in ingested : Owner[c] # e}
    /\ horizon' = [horizon EXCEPT ![e] = 0]
    /\ UNCHANGED publishedAt

Next ==
    \/ \E c \in Checkouts : Publish(c) \/ Ingest(c)
    \/ \E e \in Events : MoveHorizon(e) \/ Remove(e)

Spec == Init /\ [][Next]_vars
=============================================================================
