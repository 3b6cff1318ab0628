--------------------------- MODULE PunctualFetcher ---------------------------
(***************************************************************************)
(* CheckoutFetcher on a machine that keeps up: a cycle starts when its     *)
(* timer fires and ends within one unit of the clock, the process is not   *)
(* killed, every location is known, and Planning Center fails an event at  *)
(* most MaxStreak times in a row.  Under these assumptions the retry and   *)
(* backoff schedule bounds how long a check-out can stay unstored, which   *)
(* is what keeps it from ageing out of the lookback window.                *)
(***************************************************************************)
EXTENDS CheckoutFetcher

CONSTANT MaxStreak  \* bound: consecutive failures of one event

ASSUME PunctualAssumption ==
    /\ MaxStreak \in 0..MaxFailures - 1
    /\ Windowed = {} /\ Requests = {}
    /\ Faults \subseteq {"fetch", "create"}

Punctual ==
    /\ clock' # clock => phase = "sleep" /\ clock < wakeAt
    /\ \A e \in Events : retry'[e].failures <= MaxStreak

PunctualInit == Init /\ locations = Locations

PunctualSpec == PunctualInit /\ [][Next /\ Punctual]_vars

(* An attempt that is due waits for the next cycle, less than Interval.    *)
Wait(delay) == delay + Interval - 1

(* The attempts after n failures in a row.                                 *)
Retries[n \in 0..MaxStreak] ==
    IF n = 0 THEN 0 ELSE Retries[n - 1] + Wait(BackoffDelay(n))

StalenessBound == Delay + Wait(UpdateInterval) + Retries[MaxStreak]

(* The lookback window is long enough for the longest streak.              *)
ASSUME LookbackAssumption == StalenessBound <= Lookback + Slack

(* Between two cycles, a check-out older than the update interval and all   *)
(* the backoffs of the longest streak of failures is a row of checkins: an  *)
(* event that keeps failing is retried early enough that nothing ages out   *)
(* of the lookback window (the alert in recordRetryFailure is about this). *)
Fresh ==
    \A c \in Checkouts :
        phase = "sleep" /\ clock < wakeAt /\ Missing(c)
        => clock + 1 - checkedOutAt[c] <= StalenessBound
=============================================================================
