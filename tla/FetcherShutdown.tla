--------------------------- MODULE FetcherShutdown ---------------------------
(***************************************************************************)
(* How the checkout-fetcher stops (internal/cmd/checkoutsfetcher/cmd.go):  *)
(* the goroutine of runSignalLoop, the force-exit timer it arms, and the   *)
(* main flow of run and eventCheckoutLoop, which talk through the channels *)
(* sigCh, sigDone, stopCh and forceExitCh.  What a fetch does is left to   *)
(* CheckoutFetcher: here it is a number of requests still to be made.      *)
(***************************************************************************)
EXTENDS Integers

CONSTANTS
    Workers,      \* the places in the semaphore of eventCheckoutLoop
    MaxEvents,    \* bound: events selected in one cycle
    MaxRequests,  \* bound: Planning Center requests of one fetch
    MaxSignals    \* bound: signals the process is sent

ASSUME ShutdownAssumption ==
    {MaxEvents, MaxRequests, MaxSignals} \subseteq Nat

VARIABLES
    sent,         \* signals sent so far
    sigCh,        \* a signal waits in the channel, whose buffer holds one
    handler,      \* runSignalLoop: before the first signal, after it, or gone
    timer,        \* forceExitTimer
    stopCh,       \* stopCh is closed
    forceExitCh,  \* forceExitCh is closed
    sigDone,      \* sigDone is closed
    expired,      \* the work context is done: the end of --runtime
    main,         \* where run is
    todo,         \* events selected and not launched yet
    jobs,         \* requests each in-flight goroutine still has to make
    erred,        \* errs of the cycle is not empty
    outcome          \* how the process ends

channels == <<stopCh, forceExitCh, sigDone>>
cycle == <<todo, jobs, erred>>
vars == <<sent, sigCh, handler, timer, stopCh, forceExitCh, sigDone, expired, main, todo,
          jobs, erred, outcome>>

Init ==
    /\ sent = 0 /\ sigCh = FALSE
    /\ handler = "listening" /\ timer = "none"
    /\ stopCh = FALSE /\ forceExitCh = FALSE /\ sigDone = FALSE
    /\ expired = FALSE
    /\ main = "top" /\ todo = 0 /\ erred = FALSE
    /\ jobs = [w \in Workers |-> 0]
    /\ outcome = "running"

Idle == \A w \in Workers : jobs[w] = 0

-----------------------------------------------------------------------------
(* The outside.                                                            *)

(* signal.Notify does not block: a signal that finds the buffer full is lost. *)
Signal ==
    /\ main # "ended" /\ sent < MaxSignals
    /\ sent' = sent + 1
    /\ sigCh' = TRUE
    /\ UNCHANGED <<handler, timer, channels, expired, main, cycle, outcome>>

Expire ==
    /\ ~expired
    /\ expired' = TRUE
    /\ UNCHANGED <<sent, sigCh, handler, timer, channels, main, cycle, outcome>>

-----------------------------------------------------------------------------
(* runSignalLoop.                                                          *)

(* Mutant of FirstSignal: stopCh is left to the force-exit timer.          *)
FirstSignalMutant ==
    /\ handler = "listening" /\ sigCh /\ main # "ended"
    /\ sigCh' = FALSE
    /\ handler' = "draining"
    /\ timer' = "armed"
    /\ UNCHANGED <<sent, channels, expired, main, cycle, outcome>>

FirstSignal ==
    /\ handler = "listening" /\ sigCh /\ main # "ended"
    /\ sigCh' = FALSE
    /\ handler' = "draining"
    /\ stopCh' = TRUE
    /\ timer' = "armed"
    /\ UNCHANGED <<sent, forceExitCh, sigDone, expired, main, cycle, outcome>>

StopTimer == timer' = IF timer = "armed" THEN "stopped" ELSE timer

(* Mutant of SecondSignal: the second signal is only counted.              *)
SecondSignalMutant ==
    /\ handler = "draining" /\ sigCh /\ main # "ended"
    /\ sigCh' = FALSE
    /\ UNCHANGED <<sent, handler, timer, channels, expired, main, cycle, outcome>>

(* errForceExitNow: os.Exit(1), whatever is in flight.                     *)
SecondSignal ==
    /\ handler = "draining" /\ sigCh /\ main # "ended"
    /\ sigCh' = FALSE
    /\ handler' = "gone"
    /\ StopTimer
    /\ main' = "ended" /\ outcome' = "hard"
    /\ UNCHANGED <<sent, channels, expired, cycle>>

LeaveSignalLoop ==
    /\ handler # "gone" /\ sigDone /\ main # "ended"
    /\ handler' = "gone"
    /\ StopTimer
    /\ UNCHANGED <<sent, sigCh, channels, expired, main, cycle, outcome>>

(* The grace period is over.                                               *)
GraceOver ==
    /\ timer = "armed" /\ main # "ended"
    /\ timer' = "fired"
    /\ forceExitCh' = TRUE
    /\ UNCHANGED <<sent, sigCh, handler, stopCh, sigDone, expired, main, cycle, outcome>>

-----------------------------------------------------------------------------
(* run and eventCheckoutLoop.                                              *)

(* FetchCheckouts returns, and its deferred calls close sigDone.           *)
Return(how) ==
    /\ main' = "returned"
    /\ outcome' = how
    /\ sigDone' = TRUE
    /\ UNCHANGED <<sent, sigCh, handler, timer, stopCh, forceExitCh, expired, cycle>>

(* The check before the loop body.                                         *)
LeaveAtTop ==
    /\ main = "top"
    /\ expired \/ stopCh
    /\ Return("clean")

(* List the events and select those to update.                             *)
BeginCycle ==
    /\ main = "top" /\ ~expired /\ ~stopCh
    /\ todo' \in 0..MaxEvents
    /\ erred' = FALSE
    /\ main' = "launching"
    /\ UNCHANGED <<sent, sigCh, handler, timer, channels, expired, jobs, outcome>>

(* A query before the launching loop fails.                                *)
ListFails ==
    /\ main = "top" /\ ~expired /\ ~stopCh
    /\ Return("error")

(* Mutant of Launch: one event too many.                                   *)
LaunchMutant(w) ==
    /\ main = "launching" /\ todo >= 0
    /\ jobs[w] = 0
    /\ \E n \in 1..MaxRequests : jobs' = [jobs EXCEPT ![w] = n]
    /\ todo' = todo - 1
    /\ UNCHANGED <<sent, sigCh, handler, timer, channels, expired, main, erred, outcome>>

(* select: a place in the semaphore, even when stopCh is closed as well.   *)
Launch(w) ==
    /\ main = "launching" /\ todo > 0
    /\ jobs[w] = 0
    /\ \E n \in 1..MaxRequests : jobs' = [jobs EXCEPT ![w] = n]
    /\ todo' = todo - 1
    /\ UNCHANGED <<sent, sigCh, handler, timer, channels, expired, main, erred, outcome>>

(* Mutant of LeaveLaunching: left at stopCh without waiting for the        *)
(* goroutines already launched.                                            *)
LeaveLaunchingMutant ==
    /\ main = "launching"
    /\ \/ todo = 0 /\ main' = "waiting" /\ UNCHANGED erred
       \/ stopCh /\ main' = "pause" /\ UNCHANGED erred
       \/ expired /\ main' = "waiting" /\ erred' = TRUE
    /\ todo' = 0
    /\ UNCHANGED <<sent, sigCh, handler, timer, channels, expired, jobs, outcome>>

(* The loop is over, or left at stopCh or the end of the context.          *)
LeaveLaunching ==
    /\ main = "launching"
    /\ \/ todo = 0 /\ UNCHANGED erred
       \/ stopCh /\ UNCHANGED erred
       \/ expired /\ erred' = TRUE
    /\ todo' = 0
    /\ main' = "waiting"
    /\ UNCHANGED <<sent, sigCh, handler, timer, channels, expired, jobs, outcome>>

(* A goroutine makes one of its requests.                                  *)
Request(w) ==
    /\ main # "ended"
    /\ jobs[w] > 1
    /\ jobs' = [jobs EXCEPT ![w] = @ - 1]
    /\ UNCHANGED <<sent, sigCh, handler, timer, channels, expired, main, todo, erred, outcome>>

(* It makes its last one and returns, with or without an error.            *)
Finish(w) ==
    /\ main # "ended"
    /\ jobs[w] = 1
    /\ jobs' = [jobs EXCEPT ![w] = 0]
    /\ erred' \in {erred, TRUE}
    /\ UNCHANGED <<sent, sigCh, handler, timer, channels, expired, main, todo, outcome>>

(* wg.Wait returns without errors: run goes to sleep.                      *)
Drained ==
    /\ main = "waiting" /\ Idle /\ ~erred
    /\ main' = "pause"
    /\ UNCHANGED <<sent, sigCh, handler, timer, channels, expired, cycle, outcome>>

(* With errors: they end run, unless it is ending anyway.                  *)
DrainedWithErrors ==
    /\ main = "waiting" /\ Idle /\ erred
    /\ IF stopCh \/ expired
       THEN /\ main' = "top"
            /\ UNCHANGED <<sent, sigCh, handler, timer, channels, expired, cycle, outcome>>
       ELSE Return("error")

(* The select at the end of an iteration.                                  *)
Wake ==
    /\ main = "pause"
    /\ main' = "top"
    /\ UNCHANGED <<sent, sigCh, handler, timer, channels, expired, cycle, outcome>>

LeavePause ==
    /\ main = "pause"
    /\ \/ (stopCh \/ expired) /\ Return("clean")
       \/ forceExitCh /\ Return("forced")

ProcessEnds ==
    /\ main = "returned"
    /\ main' = "ended"
    /\ UNCHANGED <<sent, sigCh, handler, timer, channels, expired, cycle, outcome>>

-----------------------------------------------------------------------------

SignalLoop == FirstSignal \/ SecondSignal \/ LeaveSignalLoop

Main ==
    \/ LeaveAtTop \/ BeginCycle \/ ListFails \/ LeaveLaunching
    \/ \E w \in Workers : Launch(w)
    \/ Drained \/ DrainedWithErrors \/ Wake \/ LeavePause \/ ProcessEnds

Job(w) == Request(w) \/ Finish(w)

Next ==
    \/ Signal \/ Expire \/ GraceOver
    \/ SignalLoop
    \/ Main
    \/ \E w \in Workers : Job(w)

Spec == Init /\ [][Next]_vars

(* The scheduler runs both goroutines and the timer; a fetch may hang.     *)
FairSpec == Spec /\ WF_vars(SignalLoop) /\ WF_vars(Main) /\ WF_vars(GraceOver)

(* Every fetch ends: the HTTP client has a timeout and a page limit.       *)
FetchesEnd == \A w \in Workers : WF_vars(Job(w))

-----------------------------------------------------------------------------
(* Properties.                                                             *)

Flags == {sigCh, stopCh, forceExitCh, sigDone, expired, erred} \subseteq BOOLEAN

Places ==
    /\ handler \in {"listening", "draining", "gone"}
    /\ timer \in {"none", "armed", "stopped", "fired"}
    /\ main \in {"top", "launching", "waiting", "pause", "returned", "ended"}
    /\ outcome \in {"running", "clean", "error", "forced", "hard"}
    /\ sent \in Nat
    /\ todo \in Nat
    /\ jobs \in [Workers -> Nat]

(* Every variable holds values of its type.                                *)
TypeOK == Flags /\ Places

(* A graceful end, with or without an error of the cycle, comes after the   *)
(* drain: FetchCheckouts does not close the database under a fetch in      *)
(* flight.  Nothing is claimed of an end that is not graceful: the hard    *)
(* exit of a second signal, or the forced exit, which is there to cut a    *)
(* drain short (shutdownGracePeriod, forceExit).                           *)
GracefulDrain == outcome \in {"clean", "error"} => Idle

(* If every fetch ends, a first signal always ends the process, wherever in *)
(* a cycle it arrives, with signals lost, timers firing and contexts ending *)
(* in any order.                                                           *)
ShutdownCompletes == FetchesEnd => (handler = "draining" ~> main = "ended")

(* A second signal that reaches the loop ends the process although every   *)
(* fetch hangs (runSignalLoop: must terminate even if the main flow is     *)
(* wedged).                                                                *)
SecondSignalEnds == (handler = "draining" /\ sigCh) ~> main = "ended"
=============================================================================
