-------------------------- MODULE LifecycleProofs --------------------------
(***************************************************************************)
(* Theorems about Lifecycle for every retry policy and any number of       *)
(* overlapping jobs and requests.                                          *)
(*                                                                         *)
(* Exclusive accounts for SkipIfStillRunning's token and for the order of  *)
(* cold start, cron and drain; Clean for the way a nil result travels from *)
(* the listener through errCh to Server.Run's return.                      *)
(***************************************************************************)
EXTENDS Lifecycle, BackoffProofs, TLAPS

Idle == \A j \in Jobs : job[j] = "none"

(* Only a failed attempt that was not the last one sleeps. *)
Budget == sched = "sleep" => attempt + 1 < MaxAttempts

(* The token is out while a job refreshes, and there are no jobs before    *)
(* the cron starts nor once it has drained.                                *)
Exclusive ==
    /\ sched \notin {"cron", "draining"} => Idle
    /\ \A j \in Jobs : job[j] = "refresh" =>
            ~token /\ \A k \in Jobs : job[k] = "refresh" => k = j

(* Server.Run returns after its heartbeat, the process after the scheduler. *)
Ending ==
    /\ serve \in {"waiting", "exited"} => heartbeat = "done"
    /\ serve = "exited" => sched = "done"

(* The listener returns nil only when Shutdown has closed it, and Shutdown *)
(* leaves no request behind unless it times out.                           *)
Clean ==
    /\ serve = "select" => listener # "closed" /\ errCh # "nil"
    /\ serve \in {"select", "shutdown", "awaitErr"} => runErr = "none"
    /\ serve \in {"shutdown", "awaitErr"} => signalled /\ listener # "open"
    /\ serve = "awaitErr" => active = {}
    /\ errCh # "empty" => listener = "returned"
    /\ runErr = "nil" => signalled /\ active = {} /\ listener = "returned"

Inv == TypeOK /\ Budget /\ Exclusive /\ Ending /\ Clean

USE DEF vars, scheduler, server, Idle

----------------------------------------------------------------------------
(* The goroutines as runComponents starts them. *)
LEMMA InitInv == Init => Inv
<1> SUFFICES ASSUME Init PROVE Inv
  OBVIOUS
<1>1. signalled \in BOOLEAN /\ ready \in BOOLEAN /\ token \in BOOLEAN
  BY DEF Init
<1>2. TypeOK
  BY <1>1, PolicyAssumption DEF Init, TypeOK
<1> QED BY <1>2 DEF Init, Inv, Budget, Exclusive, Ending, Clean

(* Every step of every goroutine preserves Inv. *)
LEMMA NextInv == Inv /\ [Next]_vars => Inv'
<1> SUFFICES ASSUME Inv, [Next]_vars PROVE Inv'
  OBVIOUS
<1> USE PolicyAssumption
<1>stutter. CASE UNCHANGED vars
  BY <1>stutter DEF Inv, TypeOK, Budget, Exclusive, Ending, Clean
<1>Signal. ASSUME Signal PROVE Inv'
  <2>1. TypeOK'
    BY <1>Signal DEF Inv, TypeOK, Signal
  <2>2. Clean'
    BY <1>Signal DEF Inv, TypeOK, Clean, Signal
  <2>3. Budget' /\ Exclusive' /\ Ending'
    BY <1>Signal DEF Inv, Budget, Exclusive, Ending, Signal
  <2> QED BY <2>1, <2>2, <2>3 DEF Inv
<1>ColdTry. ASSUME ColdTry PROVE Inv'
  <2>1. TypeOK'
    BY <1>ColdTry DEF Inv, TypeOK, ColdTry, Cancelled
  <2>2. Budget'
    BY <1>ColdTry DEF Inv, TypeOK, Budget, ColdTry, Cancelled
  <2>3. Exclusive'
    BY <1>ColdTry DEF Inv, TypeOK, Exclusive, ColdTry, Cancelled
  <2>4. Ending'
    BY <1>ColdTry DEF Inv, Ending, ColdTry, Cancelled
  <2>5. Clean'
    BY <1>ColdTry DEF Inv, Clean, ColdTry
  <2> QED BY <2>1, <2>2, <2>3, <2>4, <2>5 DEF Inv
<1>ColdSucceeds. ASSUME ColdSucceeds PROVE Inv'
  <2>1. TypeOK'
    BY <1>ColdSucceeds DEF Inv, TypeOK, ColdSucceeds
  <2>2. Budget'
    BY <1>ColdSucceeds DEF Inv, TypeOK, Budget, ColdSucceeds
  <2>3. Exclusive'
    BY <1>ColdSucceeds DEF Inv, TypeOK, Exclusive, ColdSucceeds
  <2>4. Ending'
    BY <1>ColdSucceeds DEF Inv, Ending, ColdSucceeds
  <2>5. Clean'
    BY <1>ColdSucceeds DEF Inv, Clean, ColdSucceeds
  <2> QED BY <2>1, <2>2, <2>3, <2>4, <2>5 DEF Inv
<1>ColdGivesUp. ASSUME ColdGivesUp PROVE Inv'
  <2>1. TypeOK'
    BY <1>ColdGivesUp DEF Inv, TypeOK, ColdGivesUp, LastAttempt
  <2>2. Budget'
    BY <1>ColdGivesUp DEF Inv, TypeOK, Budget, ColdGivesUp, LastAttempt
  <2>3. Exclusive'
    BY <1>ColdGivesUp DEF Inv, TypeOK, Exclusive, ColdGivesUp, LastAttempt
  <2>4. Ending'
    BY <1>ColdGivesUp DEF Inv, Ending, ColdGivesUp, LastAttempt
  <2>5. Clean'
    BY <1>ColdGivesUp DEF Inv, Clean, ColdGivesUp
  <2> QED BY <2>1, <2>2, <2>3, <2>4, <2>5 DEF Inv
<1>ColdBacksOff. ASSUME ColdBacksOff PROVE Inv'
  <2>1. TypeOK'
    BY <1>ColdBacksOff DEF Inv, TypeOK, ColdBacksOff, LastAttempt
  <2>2. Budget'
    BY <1>ColdBacksOff DEF Inv, TypeOK, Budget, ColdBacksOff, LastAttempt
  <2>3. Exclusive'
    BY <1>ColdBacksOff DEF Inv, TypeOK, Exclusive, ColdBacksOff, LastAttempt
  <2>4. Ending'
    BY <1>ColdBacksOff DEF Inv, Ending, ColdBacksOff, LastAttempt
  <2>5. Clean'
    BY <1>ColdBacksOff DEF Inv, Clean, ColdBacksOff
  <2> QED BY <2>1, <2>2, <2>3, <2>4, <2>5 DEF Inv
<1>ColdWakes. ASSUME ColdWakes PROVE Inv'
  <2>1. TypeOK'
    BY <1>ColdWakes DEF Inv, Budget, TypeOK, ColdWakes, Cancelled
  <2>2. Budget'
    BY <1>ColdWakes DEF Inv, TypeOK, Budget, ColdWakes, Cancelled
  <2>3. Exclusive'
    BY <1>ColdWakes DEF Inv, TypeOK, Exclusive, ColdWakes, Cancelled
  <2>4. Ending'
    BY <1>ColdWakes DEF Inv, Ending, ColdWakes, Cancelled
  <2>5. Clean'
    BY <1>ColdWakes DEF Inv, Clean, ColdWakes
  <2> QED BY <2>1, <2>2, <2>3, <2>4, <2>5 DEF Inv
<1>StartCron. ASSUME StartCron PROVE Inv'
  <2>1. TypeOK'
    BY <1>StartCron DEF Inv, TypeOK, StartCron, Cancelled
  <2>2. Budget'
    BY <1>StartCron DEF Inv, TypeOK, Budget, StartCron, Cancelled
  <2>3. Exclusive'
    BY <1>StartCron DEF Inv, TypeOK, Exclusive, StartCron, Cancelled
  <2>4. Ending'
    BY <1>StartCron DEF Inv, Ending, StartCron, Cancelled
  <2>5. Clean'
    BY <1>StartCron DEF Inv, Clean, StartCron
  <2> QED BY <2>1, <2>2, <2>3, <2>4, <2>5 DEF Inv
<1>StopCron. ASSUME StopCron PROVE Inv'
  <2>1. TypeOK'
    BY <1>StopCron DEF Inv, TypeOK, StopCron, Cancelled
  <2>2. Budget'
    BY <1>StopCron DEF Inv, TypeOK, Budget, StopCron, Cancelled
  <2>3. Exclusive'
    BY <1>StopCron DEF Inv, TypeOK, Exclusive, StopCron, Cancelled
  <2>4. Ending'
    BY <1>StopCron DEF Inv, Ending, StopCron, Cancelled
  <2>5. Clean'
    BY <1>StopCron DEF Inv, Clean, StopCron
  <2> QED BY <2>1, <2>2, <2>3, <2>4, <2>5 DEF Inv
<1>CronDrained. ASSUME CronDrained PROVE Inv'
  <2>1. TypeOK'
    BY <1>CronDrained DEF Inv, TypeOK, CronDrained
  <2>2. Budget'
    BY <1>CronDrained DEF Inv, TypeOK, Budget, CronDrained
  <2>3. Exclusive'
    BY <1>CronDrained DEF Inv, TypeOK, Exclusive, CronDrained
  <2>4. Ending'
    BY <1>CronDrained DEF Inv, Ending, CronDrained
  <2>5. Clean'
    BY <1>CronDrained DEF Inv, Clean, CronDrained
  <2> QED BY <2>1, <2>2, <2>3, <2>4, <2>5 DEF Inv
<1>CronFires. ASSUME NEW j \in Jobs, CronFires(j) PROVE Inv'
  <2>1. TypeOK'
    BY <1>CronFires DEF Inv, TypeOK, CronFires
  <2>2. Exclusive'
    BY <1>CronFires DEF Inv, TypeOK, Exclusive, CronFires
  <2>3. Budget' /\ Ending' /\ Clean'
    BY <1>CronFires DEF Inv, Budget, Ending, Clean, CronFires
  <2> QED BY <2>1, <2>2, <2>3 DEF Inv
<1>JobRuns. ASSUME NEW j \in Jobs, JobRuns(j) PROVE Inv'
  <2>1. TypeOK'
    <3>1. token' \in BOOLEAN
      BY <1>JobRuns DEF JobRuns
    <3> QED BY <1>JobRuns, <3>1 DEF Inv, TypeOK, JobRuns
  <2>2. Exclusive'
    BY <1>JobRuns DEF Inv, TypeOK, Exclusive, JobRuns
  <2>3. Budget' /\ Ending' /\ Clean'
    BY <1>JobRuns DEF Inv, Budget, Ending, Clean, JobRuns
  <2> QED BY <2>1, <2>2, <2>3 DEF Inv
<1>JobSkips. ASSUME NEW j \in Jobs, JobSkips(j) PROVE Inv'
  <2>1. TypeOK'
    BY <1>JobSkips DEF Inv, TypeOK, JobSkips
  <2>2. Exclusive'
    BY <1>JobSkips DEF Inv, TypeOK, Exclusive, JobSkips
  <2>3. Budget' /\ Ending' /\ Clean'
    BY <1>JobSkips DEF Inv, Budget, Ending, Clean, JobSkips
  <2> QED BY <2>1, <2>2, <2>3 DEF Inv
<1>JobEnds. ASSUME NEW j \in Jobs, JobEnds(j) PROVE Inv'
  <2>1. TypeOK'
    BY <1>JobEnds DEF Inv, TypeOK, JobEnds
  <2>2. Exclusive'
    BY <1>JobEnds DEF Inv, TypeOK, Exclusive, JobEnds
  <2>3. Budget' /\ Ending' /\ Clean'
    BY <1>JobEnds DEF Inv, Budget, Ending, Clean, JobEnds
  <2> QED BY <2>1, <2>2, <2>3 DEF Inv
<1>Binds. ASSUME Binds PROVE Inv'
  <2>1. TypeOK'
    BY <1>Binds DEF Inv, TypeOK, Binds, ShuttingDown
  <2>2. Clean'
    BY <1>Binds DEF Inv, TypeOK, Clean, Binds, ShuttingDown
  <2>3. Budget' /\ Exclusive' /\ Ending'
    BY <1>Binds DEF Inv, Budget, Exclusive, Ending, Binds
  <2> QED BY <2>1, <2>2, <2>3 DEF Inv
<1>ListenerFails. ASSUME ListenerFails PROVE Inv'
  <2>1. TypeOK'
    BY <1>ListenerFails DEF Inv, TypeOK, ListenerFails
  <2>2. Clean'
    BY <1>ListenerFails DEF Inv, TypeOK, Clean, ListenerFails
  <2>3. Budget' /\ Exclusive' /\ Ending'
    BY <1>ListenerFails DEF Inv, Budget, Exclusive, Ending, ListenerFails
  <2> QED BY <2>1, <2>2, <2>3 DEF Inv
<1>ListenerReturns. ASSUME ListenerReturns PROVE Inv'
  <2>1. TypeOK'
    BY <1>ListenerReturns DEF Inv, TypeOK, ListenerReturns
  <2>2. Clean'
    BY <1>ListenerReturns DEF Inv, TypeOK, Clean, ListenerReturns
  <2>3. Budget' /\ Exclusive' /\ Ending'
    BY <1>ListenerReturns DEF Inv, Budget, Exclusive, Ending, ListenerReturns
  <2> QED BY <2>1, <2>2, <2>3 DEF Inv
<1>Accept. ASSUME NEW r \in Requests, Accept(r) PROVE Inv'
  <2>1. TypeOK'
    BY <1>Accept DEF Inv, TypeOK, Accept
  <2>2. Clean'
    BY <1>Accept DEF Inv, TypeOK, Clean, Accept
  <2>3. Budget' /\ Exclusive' /\ Ending'
    BY <1>Accept DEF Inv, Budget, Exclusive, Ending, Accept
  <2> QED BY <2>1, <2>2, <2>3 DEF Inv
<1>Answer. ASSUME NEW r \in Requests, Answer(r) PROVE Inv'
  <2>1. TypeOK'
    BY <1>Answer DEF Inv, TypeOK, Answer
  <2>2. Clean'
    BY <1>Answer DEF Inv, TypeOK, Clean, Answer
  <2>3. Budget' /\ Exclusive' /\ Ending'
    BY <1>Answer DEF Inv, Budget, Exclusive, Ending, Answer
  <2> QED BY <2>1, <2>2, <2>3 DEF Inv
<1>BeginShutdown. ASSUME BeginShutdown PROVE Inv'
  <2>1. TypeOK'
    BY <1>BeginShutdown DEF Inv, TypeOK, BeginShutdown, Cancelled
  <2>2. Ending'
    BY <1>BeginShutdown DEF Inv, Ending, BeginShutdown, Cancelled
  <2>3. Clean'
    BY <1>BeginShutdown DEF Inv, TypeOK, Clean, BeginShutdown, Cancelled
  <2>4. Budget' /\ Exclusive'
    BY <1>BeginShutdown DEF Inv, Budget, Exclusive, BeginShutdown
  <2> QED BY <2>1, <2>2, <2>3, <2>4 DEF Inv
<1>ShutdownDone. ASSUME ShutdownDone PROVE Inv'
  <2>1. TypeOK'
    BY <1>ShutdownDone DEF Inv, TypeOK, ShutdownDone
  <2>2. Ending'
    BY <1>ShutdownDone DEF Inv, Ending, ShutdownDone
  <2>3. Clean'
    BY <1>ShutdownDone DEF Inv, TypeOK, Clean, ShutdownDone
  <2>4. Budget' /\ Exclusive'
    BY <1>ShutdownDone DEF Inv, Budget, Exclusive, ShutdownDone
  <2> QED BY <2>1, <2>2, <2>3, <2>4 DEF Inv
<1>ShutdownTimesOut. ASSUME ShutdownTimesOut PROVE Inv'
  <2>1. TypeOK'
    BY <1>ShutdownTimesOut DEF Inv, TypeOK, ShutdownTimesOut
  <2>2. Ending'
    BY <1>ShutdownTimesOut DEF Inv, Ending, ShutdownTimesOut
  <2>3. Clean'
    BY <1>ShutdownTimesOut DEF Inv, TypeOK, Clean, ShutdownTimesOut
  <2>4. Budget' /\ Exclusive'
    BY <1>ShutdownTimesOut DEF Inv, Budget, Exclusive, ShutdownTimesOut
  <2> QED BY <2>1, <2>2, <2>3, <2>4 DEF Inv
<1>ReceiveErr. ASSUME ReceiveErr PROVE Inv'
  <2>1. TypeOK'
    BY <1>ReceiveErr DEF Inv, TypeOK, ReceiveErr
  <2>2. Ending'
    BY <1>ReceiveErr DEF Inv, Ending, ReceiveErr
  <2>3. Clean'
    BY <1>ReceiveErr DEF Inv, TypeOK, Clean, ReceiveErr
  <2>4. Budget' /\ Exclusive'
    BY <1>ReceiveErr DEF Inv, Budget, Exclusive, ReceiveErr
  <2> QED BY <2>1, <2>2, <2>3, <2>4 DEF Inv
<1>RunReturns. ASSUME RunReturns PROVE Inv'
  <2>1. TypeOK'
    BY <1>RunReturns DEF Inv, TypeOK, RunReturns
  <2>2. Ending'
    BY <1>RunReturns DEF Inv, Ending, RunReturns
  <2>3. Clean'
    BY <1>RunReturns DEF Inv, TypeOK, Clean, RunReturns
  <2>4. Budget' /\ Exclusive'
    BY <1>RunReturns DEF Inv, Budget, Exclusive, RunReturns
  <2> QED BY <2>1, <2>2, <2>3, <2>4 DEF Inv
<1>Exit. ASSUME Exit PROVE Inv'
  <2>1. TypeOK'
    BY <1>Exit DEF Inv, TypeOK, Exit
  <2>2. Ending'
    BY <1>Exit DEF Inv, Ending, Exit
  <2>3. Clean'
    BY <1>Exit DEF Inv, TypeOK, Clean, Exit
  <2>4. Budget' /\ Exclusive'
    BY <1>Exit DEF Inv, Budget, Exclusive, Exit
  <2> QED BY <2>1, <2>2, <2>3, <2>4 DEF Inv
<1>Beat. ASSUME Beat PROVE Inv'
  <2>1. TypeOK'
    BY <1>Beat DEF Inv, TypeOK, Beat
  <2>2. Ending'
    BY <1>Beat DEF Inv, Ending, Beat
  <2>3. Budget' /\ Exclusive' /\ Clean'
    BY <1>Beat DEF Inv, Budget, Exclusive, Clean, Beat
  <2> QED BY <2>1, <2>2, <2>3 DEF Inv
<1>HeartbeatReturns. ASSUME HeartbeatReturns PROVE Inv'
  <2>1. TypeOK'
    BY <1>HeartbeatReturns DEF Inv, TypeOK, HeartbeatReturns, HeartbeatCancelled, Cancelled
  <2>2. Ending'
    BY <1>HeartbeatReturns DEF Inv, Ending, HeartbeatReturns, HeartbeatCancelled, Cancelled
  <2>3. Budget' /\ Exclusive' /\ Clean'
    BY <1>HeartbeatReturns DEF Inv, Budget, Exclusive, Clean, HeartbeatReturns
  <2> QED BY <2>1, <2>2, <2>3 DEF Inv
<1> QED
  BY <1>stutter, <1>Signal, <1>ColdTry, <1>ColdSucceeds, <1>ColdGivesUp,
     <1>ColdBacksOff, <1>ColdWakes, <1>StartCron, <1>StopCron,
     <1>CronDrained, <1>CronFires, <1>JobRuns, <1>JobSkips, <1>JobEnds,
     <1>Binds, <1>ListenerFails, <1>ListenerReturns, <1>Accept, <1>Answer,
     <1>BeginShutdown, <1>ShutdownDone, <1>ShutdownTimesOut, <1>ReceiveErr,
     <1>RunReturns, <1>Exit, <1>Beat, <1>HeartbeatReturns
  DEF Next, ColdStart, Cron, Job, Listener, Shutdown

(* The inductive invariant holds throughout. *)
LEMMA AlwaysInv == Spec => []Inv
<1> QED BY InitInv, NextInv, PTL DEF Spec

(* Every variable keeps its type; the cold start stays within its budget. *)
THEOREM TypeCorrect == Spec => []TypeOK
<1>1. Inv => TypeOK
  BY DEF Inv
<1> QED BY <1>1, AlwaysInv, PTL

(* Whatever the schedule and however long a refresh takes, there is never  *)
(* a second one beside it.                                                 *)
THEOREM DisjointAlways == Spec => []RefreshesDisjoint
<1>1. Inv => RefreshesDisjoint
  BY DEF Inv, Exclusive, RefreshesDisjoint
<1> QED BY <1>1, AlwaysInv, PTL

(* The process never exits under a refresh, a cron job or a heartbeat. *)
THEOREM DrainedAlways == Spec => []DrainedOnExit
<1>1. Inv => DrainedOnExit
  BY DEF Inv, Exclusive, Ending, DrainedOnExit
<1> QED BY <1>1, AlwaysInv, PTL

(* A zero exit follows a signal, with every request answered. *)
THEOREM ZeroExitAlwaysClean == Spec => []ZeroExitClean
<1>1. Inv => ZeroExitClean
  BY DEF Inv, Clean, ZeroExitClean
<1> QED BY <1>1, AlwaysInv, PTL

----------------------------------------------------------------------------
(* Nobody waits for nothing.  Delivered adds the shutdown under way, which *)
(* has yet to wait for the listener's result.                              *)
Delivered ==
    /\ serve \in {"select", "shutdown", "awaitErr"} /\ listener = "returned"
          => errCh # "empty"
    /\ ~token => \E j \in Jobs : job[j] = "refresh"

(* A result is only taken by who returns with it, and a token only by a    *)
(* job that refreshes.                                                     *)
LEMMA NextDelivered == Inv /\ Delivered /\ [Next]_vars => Delivered'
<1> SUFFICES ASSUME Inv, Delivered, [Next]_vars PROVE Delivered'
  OBVIOUS
<1> USE DEF Delivered
<1>stutter. CASE UNCHANGED vars
  BY <1>stutter
<1>Signal. ASSUME Signal PROVE Delivered'
  BY <1>Signal DEF Signal
<1>ColdStart. ASSUME ColdStart PROVE Delivered'
  BY <1>ColdStart DEF ColdStart, ColdTry, ColdSucceeds, ColdGivesUp, ColdBacksOff, ColdWakes
<1>Cron. ASSUME Cron PROVE Delivered'
  BY <1>Cron DEF Cron, StartCron, StopCron, CronDrained
<1>CronFires. ASSUME NEW j \in Jobs, CronFires(j) PROVE Delivered'
  BY <1>CronFires DEF CronFires, Inv, TypeOK
<1>JobRuns. ASSUME NEW j \in Jobs, JobRuns(j) PROVE Delivered'
  BY <1>JobRuns DEF JobRuns, Inv, TypeOK
<1>JobSkips. ASSUME NEW j \in Jobs, JobSkips(j) PROVE Delivered'
  BY <1>JobSkips DEF JobSkips, Inv, TypeOK
<1>JobEnds. ASSUME NEW j \in Jobs, JobEnds(j) PROVE Delivered'
  BY <1>JobEnds DEF JobEnds
<1>Binds. ASSUME Binds PROVE Delivered'
  BY <1>Binds DEF Binds
<1>ListenerFails. ASSUME ListenerFails PROVE Delivered'
  BY <1>ListenerFails DEF ListenerFails
<1>ListenerReturns. ASSUME ListenerReturns PROVE Delivered'
  BY <1>ListenerReturns DEF ListenerReturns
<1>Accept. ASSUME NEW r \in Requests, Accept(r) PROVE Delivered'
  BY <1>Accept DEF Accept
<1>Answer. ASSUME NEW r \in Requests, Answer(r) PROVE Delivered'
  BY <1>Answer DEF Answer
<1>BeginShutdown. ASSUME BeginShutdown PROVE Delivered'
  BY <1>BeginShutdown DEF BeginShutdown
<1>ShutdownDone. ASSUME ShutdownDone PROVE Delivered'
  BY <1>ShutdownDone DEF ShutdownDone
<1>ShutdownTimesOut. ASSUME ShutdownTimesOut PROVE Delivered'
  BY <1>ShutdownTimesOut DEF ShutdownTimesOut
<1>ReceiveErr. ASSUME ReceiveErr PROVE Delivered'
  BY <1>ReceiveErr DEF ReceiveErr
<1>RunReturns. ASSUME RunReturns PROVE Delivered'
  BY <1>RunReturns DEF RunReturns
<1>Exit. ASSUME Exit PROVE Delivered'
  BY <1>Exit DEF Exit
<1>Beat. ASSUME Beat PROVE Delivered'
  BY <1>Beat DEF Beat
<1>HeartbeatReturns. ASSUME HeartbeatReturns PROVE Delivered'
  BY <1>HeartbeatReturns DEF HeartbeatReturns
<1> QED
  BY <1>stutter, <1>Signal, <1>ColdStart, <1>Cron, <1>CronFires, <1>JobRuns,
     <1>JobSkips, <1>JobEnds, <1>Binds, <1>ListenerFails, <1>ListenerReturns,
     <1>Accept, <1>Answer, <1>BeginShutdown, <1>ShutdownDone,
     <1>ShutdownTimesOut, <1>ReceiveErr, <1>RunReturns, <1>Exit, <1>Beat,
     <1>HeartbeatReturns
  DEF Next, Job, Listener, Shutdown

(* The shutdown never waits for a listener that has nothing left to say or *)
(* was not told to stop, and the token is never lost.                      *)
THEOREM NeverLostWakeup == Spec => []NoLostWakeup
<1>1. Init => Delivered
  BY DEF Init, Delivered
<1>2. Inv /\ Delivered => NoLostWakeup
  BY DEF Inv, Clean, Delivered, NoLostWakeup
<1> QED BY <1>1, <1>2, NextDelivered, AlwaysInv, PTL DEF Spec

----------------------------------------------------------------------------
(* The latest delay belongs to the latest attempt that failed. *)
Paced ==
    /\ delay \in Nat
    /\ sched = "sleep" => delay = Backoff(attempt)
    /\ sched \in {"loop", "refresh"} =>
            delay = IF attempt = 0 THEN 0 ELSE Backoff(attempt - 1)

LEMMA NextPaced == Inv /\ Paced /\ [Next]_vars => Paced'
<1> SUFFICES ASSUME Inv, Paced, [Next]_vars PROVE Paced'
  OBVIOUS
<1> USE DEF Paced
<1>1. attempt \in Nat
  BY PolicyAssumption DEF Inv, TypeOK
<1>2. CASE UNCHANGED <<sched, attempt, delay>>
  BY <1>2
<1>3. ASSUME ColdTry PROVE Paced'
  BY <1>3 DEF ColdTry
<1>4. ASSUME ColdSucceeds PROVE Paced'
  BY <1>4 DEF ColdSucceeds
<1>5. ASSUME ColdGivesUp PROVE Paced'
  BY <1>5 DEF ColdGivesUp
<1>6. ASSUME ColdBacksOff PROVE Paced'
  <2>1. Backoff(attempt) \in Nat
    BY <1>1, BackoffMonotone, PolicyAssumption
  <2> QED BY <1>6, <2>1 DEF ColdBacksOff
<1>7. ASSUME ColdWakes PROVE Paced'
  <2>1. attempt + 1 # 0 /\ (attempt + 1) - 1 = attempt
    BY <1>1
  <2> QED BY <1>7, <2>1 DEF ColdWakes
<1>8. ASSUME Cron PROVE Paced'
  BY <1>8 DEF Cron, StartCron, StopCron, CronDrained
<1>9. ASSUME Signal \/ Listener \/ ListenerFails \/ Shutdown \/ Beat \/ HeartbeatReturns
      PROVE  UNCHANGED <<sched, attempt, delay>>
  BY <1>9 DEF Signal, Listener, Binds, ListenerReturns, ListenerFails, Shutdown,
     BeginShutdown, ShutdownDone, ShutdownTimesOut, ReceiveErr, RunReturns, Exit,
     Beat, HeartbeatReturns
<1>10. ASSUME NEW j \in Jobs, CronFires(j) \/ Job(j)
       PROVE  UNCHANGED <<sched, attempt, delay>>
  BY <1>10 DEF CronFires, Job, JobRuns, JobSkips, JobEnds
<1>11. ASSUME NEW r \in Requests, Accept(r) \/ Answer(r)
       PROVE  UNCHANGED <<sched, attempt, delay>>
  BY <1>11 DEF Accept, Answer
<1>12. UNCHANGED vars => UNCHANGED <<sched, attempt, delay>>
  OBVIOUS
<1> QED
  BY <1>2, <1>3, <1>4, <1>5, <1>6, <1>7, <1>8, <1>9, <1>10, <1>11, <1>12
  DEF Next, ColdStart

(* Between two cold-start attempts the daemon waits at least as long as    *)
(* before, never not at all and never longer than MaxDelay, whatever the   *)
(* shift overflows to.                                                     *)
THEOREM BackoffAlwaysGrows == Spec => BackoffGrows
<1> DEFINE Growth == sched' = "sleep" /\ sched # "sleep" =>
                        0 < delay' /\ delay' <= MaxDelay /\ delay <= delay'
<1>1. Init => Paced
  BY DEF Init, Paced
<1>2. ASSUME Inv, Paced, [Next]_vars PROVE Growth
  <2> SUFFICES ASSUME sched' = "sleep", sched # "sleep"
               PROVE  0 < delay' /\ delay' <= MaxDelay /\ delay <= delay'
    OBVIOUS
  <2>1. ColdBacksOff
    BY <1>2 DEF Next, ColdStart, ColdTry, ColdSucceeds, ColdGivesUp, ColdWakes,
       Cron, StartCron, StopCron, CronDrained, CronFires, Job, JobRuns, JobSkips,
       JobEnds, Signal, Listener, Binds, ListenerReturns, ListenerFails, Accept,
       Answer, Shutdown, BeginShutdown, ShutdownDone, ShutdownTimesOut,
       ReceiveErr, RunReturns, Exit, Beat, HeartbeatReturns
  <2>2. sched = "refresh" /\ delay' = Backoff(attempt)
    BY <2>1 DEF ColdBacksOff
  <2>3. attempt \in Nat /\ MaxDelay \in Nat
    BY <1>2, PolicyAssumption DEF Inv, TypeOK
  <2>4. Backoff(attempt) \in 1..MaxDelay
    BY <2>3, BackoffMonotone
  <2>5. delay <= Backoff(attempt)
    <3>1. CASE attempt = 0
      BY <1>2, <2>2, <2>3, <2>4, <3>1 DEF Paced
    <3>2. CASE attempt # 0
      <4>1. attempt - 1 \in Nat /\ (attempt - 1) + 1 = attempt
        BY <2>3, <3>2
      <4>2. Backoff(attempt - 1) <= Backoff((attempt - 1) + 1)
        BY <4>1, BackoffMonotone
      <4> QED BY <1>2, <2>2, <3>2, <4>1, <4>2 DEF Paced
    <3> QED BY <3>1, <3>2
  <2> QED BY <2>2, <2>3, <2>4, <2>5
<1>3. Inv /\ Paced /\ [Next]_vars => [Growth]_vars
  BY <1>2
<1> QED BY <1>1, <1>3, NextPaced, AlwaysInv, PTL DEF Spec, BackoffGrows
============================================================================
