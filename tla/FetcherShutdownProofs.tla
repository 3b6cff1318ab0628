------------------------ MODULE FetcherShutdownProofs ------------------------
(***************************************************************************)
(* Theorems about FetcherShutdown: no number of workers, events, requests  *)
(* or signals makes the worker end gracefully under a fetch in flight.     *)
(***************************************************************************)
EXTENDS FetcherShutdown, TLAPS

USE DEF channels, cycle

(* At the top of the loop and asleep, the main flow has nothing in flight;  *)
(* a graceful return is the last thing it does, from there.                *)
DrainInv ==
    /\ Places
    /\ main \in {"top", "pause"} => Idle
    /\ outcome \in {"clean", "error"} => Idle /\ main \in {"returned", "ended"}

LEMMA ConstantTypes == MaxEvents \in Nat /\ MaxRequests \in Nat /\ MaxSignals \in Nat
  BY ShutdownAssumption

LEMMA InitDrainInv == Init => DrainInv
  BY ConstantTypes DEF Init, DrainInv, Places, Idle

(* A step that ends in the return of FetchCheckouts.                       *)
LEMMA ReturnDrainInv ==
    ASSUME DrainInv, Idle, NEW how \in {"clean", "error", "forced"}, Return(how)
    PROVE  DrainInv'
  BY DEF DrainInv, Places, Idle, Return

LEMMA SignalsDrainInv ==
    ASSUME DrainInv, Signal \/ Expire \/ GraceOver \/ SignalLoop PROVE DrainInv'
<1> USE DEF DrainInv, Places, Idle
<1>1. CASE Signal
  BY <1>1, ConstantTypes DEF Signal
<1>2. CASE Expire
  BY <1>2 DEF Expire
<1>3. CASE GraceOver
  BY <1>3 DEF GraceOver
<1>4. CASE FirstSignal
  BY <1>4 DEF FirstSignal
<1>5. CASE SecondSignal
  BY <1>5 DEF SecondSignal, StopTimer
<1>6. CASE LeaveSignalLoop
  BY <1>6 DEF LeaveSignalLoop, StopTimer
<1> QED
  BY <1>1, <1>2, <1>3, <1>4, <1>5, <1>6 DEF SignalLoop

LEMMA MainDrainInv == ASSUME DrainInv, Main PROVE DrainInv'
<1>1. CASE LeaveAtTop
  BY <1>1, ReturnDrainInv DEF LeaveAtTop, DrainInv
<1>2. CASE BeginCycle
  BY <1>2 DEF BeginCycle, DrainInv, Places, Idle
<1>3. CASE ListFails
  BY <1>3, ReturnDrainInv DEF ListFails, DrainInv
<1>4. CASE LeaveLaunching
  BY <1>4, ConstantTypes DEF LeaveLaunching, DrainInv, Places, Idle
<1>5. ASSUME NEW w \in Workers, Launch(w) PROVE DrainInv'
  <2>1. jobs' \in [Workers -> Nat]
    BY <1>5, ConstantTypes DEF Launch, DrainInv, Places
  <2>2. todo' \in Nat
    BY <1>5, ConstantTypes DEF Launch, DrainInv, Places
  <2> QED
    BY <1>5, <2>1, <2>2 DEF Launch, DrainInv, Places
<1>6. CASE Drained \/ Wake
  BY <1>6 DEF Drained, Wake, DrainInv, Places, Idle
<1>7. CASE DrainedWithErrors
  <2>1. CASE stopCh \/ expired
    BY <1>7, <2>1 DEF DrainedWithErrors, DrainInv, Places, Idle
  <2>2. CASE ~(stopCh \/ expired)
    BY <1>7, <2>2, ReturnDrainInv DEF DrainedWithErrors
  <2> QED
    BY <2>1, <2>2
<1>8. CASE LeavePause
  BY <1>8, ReturnDrainInv DEF LeavePause, DrainInv
<1>9. CASE ProcessEnds
  BY <1>9 DEF ProcessEnds, DrainInv, Places, Idle
<1> QED
  BY <1>1, <1>2, <1>3, <1>4, <1>5, <1>6, <1>7, <1>8, <1>9 DEF Main

LEMMA JobDrainInv == ASSUME DrainInv, NEW w \in Workers, Job(w) PROVE DrainInv'
<1>1. (jobs[w] > 1 \/ jobs[w] = 1) /\ main # "ended"
  BY DEF Job, Request, Finish
<1>2. main \notin {"top", "pause"} /\ outcome \notin {"clean", "error"}
  BY <1>1 DEF DrainInv, Places, Idle
<1>3. \/ jobs' = [jobs EXCEPT ![w] = 0]
      \/ jobs' = [jobs EXCEPT ![w] = @ - 1] /\ jobs[w] > 1
  BY DEF Job, Request, Finish
<1>4. jobs' \in [Workers -> Nat]
  BY <1>3 DEF DrainInv, Places
<1>5. UNCHANGED <<main, outcome, sent, handler, timer, todo>>
  BY DEF Job, Request, Finish
<1> QED
  BY <1>2, <1>4, <1>5 DEF DrainInv, Places

(* DrainInv is inductive.                                                  *)
THEOREM DrainInvariant == Spec => []DrainInv
<1>1. DrainInv /\ UNCHANGED vars => DrainInv'
  BY DEF DrainInv, Places, Idle, vars
<1>2. DrainInv /\ [Next]_vars => DrainInv'
  BY <1>1, SignalsDrainInv, MainDrainInv, JobDrainInv DEF Next
<1> QED
  BY <1>2, InitDrainInv, PTL DEF Spec

LEMMA StepFlags == ASSUME Flags, [Next]_vars PROVE Flags'
<1> USE DEF Flags
<1>1. CASE Signal \/ Expire \/ GraceOver
  BY <1>1 DEF Signal, Expire, GraceOver
<1>2. CASE SignalLoop
  BY <1>2 DEF SignalLoop, FirstSignal, SecondSignal, LeaveSignalLoop
<1>3. ASSUME NEW how, Return(how) PROVE Flags'
  BY <1>3 DEF Return
<1>4. CASE BeginCycle \/ LeaveLaunching \/ Drained \/ Wake \/ ProcessEnds
  BY <1>4 DEF BeginCycle, LeaveLaunching, Drained, Wake, ProcessEnds
<1>5. CASE LeaveAtTop \/ ListFails \/ DrainedWithErrors \/ LeavePause
  BY <1>3, <1>5 DEF LeaveAtTop, ListFails, DrainedWithErrors, LeavePause
<1>6. ASSUME NEW w \in Workers, Launch(w) \/ Job(w) PROVE Flags'
  BY <1>6 DEF Launch, Job, Request, Finish
<1>7. CASE UNCHANGED vars
  BY <1>7 DEF vars
<1> QED
  BY <1>1, <1>2, <1>4, <1>5, <1>6, <1>7 DEF Next, Main

(* Every variable keeps its type, for any number of workers and signals.   *)
THEOREM ShutdownTypeCorrect == Spec => []TypeOK
<1>1. Init => Flags
  BY DEF Init, Flags
<1>2. Flags /\ [Next]_vars => Flags'
  BY StepFlags
<1>3. DrainInv /\ Flags => TypeOK
  BY DEF DrainInv, TypeOK
<1> QED
  BY <1>1, <1>2, <1>3, DrainInvariant, PTL DEF Spec

(* No graceful end under a fetch in flight (run and eventCheckoutLoop: the *)
(* wait group is waited for on every path).                                *)
THEOREM DrainsBeforeReturn == Spec => []GracefulDrain
<1>1. DrainInv => GracefulDrain
  BY DEF DrainInv, GracefulDrain
<1> QED
  BY <1>1, DrainInvariant, PTL
=============================================================================
