----------------------------- MODULE Lifecycle -----------------------------
(***************************************************************************)
(* The daemon's goroutines from runComponents to its exit: the scheduler   *)
(* with its cold-start budget and its cron jobs, the HTTP server with its  *)
(* listener, heartbeat and requests, and the shutdown that a signal or a   *)
(* failing listener starts.                                                *)
(*                                                                         *)
(* A refresh is one interval that succeeds or fails; module Refresh says   *)
(* what it does, and relies on what is shown here: there is one at a time. *)
(***************************************************************************)
EXTENDS Integers

CONSTANTS
    Jobs,          \* cron job goroutines that may exist at once
    Requests,      \* requests that may be in flight at once
    MaxAttempts,   \* RetryPolicy.MaxAttempts
    BaseDelay,     \* RetryPolicy.BaseDelay
    MaxDelay,      \* RetryPolicy.MaxDelay
    Width          \* bits of a time.Duration

ASSUME PolicyAssumption == /\ MaxAttempts \in Nat \ {0}
                           /\ BaseDelay \in Nat \ {0}
                           /\ MaxDelay \in Nat \ {0}
                           /\ Width \in Nat \ {0, 1}

(* 1 << n, in unbounded arithmetic. *)
Pow2[n \in Nat] == IF n = 0 THEN 1 ELSE 2 * Pow2[n - 1]

(* A shift that wraps does not come out between 0 and MaxDelay.  Of the    *)
(* default policy, 2 s and 5 min in nanoseconds over 64 bits, the odd part *)
(* is 1953125 (k = 10), and 1953125 * 3 * 10^11 is below 2^63.             *)
ASSUME ShiftAssumption ==
    /\ MaxDelay <= BaseDelay * Pow2[Width - 2]
    /\ \E odd \in 1..BaseDelay, k \in 0..Width :
          BaseDelay = odd * Pow2[k] /\ odd * MaxDelay < Pow2[Width - 1]

VARIABLES
    signalled,   \* SIGINT or SIGTERM has arrived: ctx is cancelled
    ready,       \* Ready(): a usable blocklist is loaded
    sched,       \* where Scheduler.Run is
    attempt,     \* runColdStart's loop counter
    delay,       \* its latest backoff
    job,         \* what each cron job goroutine does
    token,       \* SkipIfStillRunning's token is in its channel
    serve,       \* where Server.Run, then runComponents, is
    listener,    \* where the ListenAndServe goroutine is
    errCh,       \* the listener's result, waiting to be received
    runErr,      \* what Server.Run returns
    heartbeat,   \* where the heartbeat goroutine is
    active       \* requests being handled

scheduler == <<sched, attempt, delay, job, token>>
server    == <<serve, listener, errCh, runErr, heartbeat, active>>
vars      == <<signalled, ready, scheduler, server>>

(* runCtx: a signal cancels it, or the return of Server.Run does. *)
Cancelled == signalled \/ serve \in {"waiting", "exited"}

Init ==
    /\ signalled = FALSE
    /\ ready \in BOOLEAN
    /\ sched = "loop" /\ attempt = 0 /\ delay = 0
    /\ job = [j \in Jobs |-> "none"] /\ token = TRUE
    /\ serve = "select" /\ listener = "starting"
    /\ errCh = "empty" /\ runErr = "none"
    /\ heartbeat = "idle"
    /\ active = {}

Signal ==
    /\ ~signalled /\ serve # "exited"
    /\ signalled' = TRUE
    /\ UNCHANGED <<ready, scheduler, server>>

----------------------------------------------------------------------------
(* runColdStart.                                                           *)

(* The value of x in a signed word, as << leaves it. *)
Wrapped(x) == ((x + Pow2[Width - 1]) % Pow2[Width]) - Pow2[Width - 1]

\* Mutant of Backoff: the overflow check is missing.
BackoffUnchecked(n) ==
    LET d == Wrapped(BaseDelay * Pow2[n])
    IN IF d > MaxDelay THEN MaxDelay ELSE d

Backoff(n) ==
    LET d == Wrapped(BaseDelay * Pow2[n])
    IN IF n >= Width - 2 \/ d <= 0 \/ d > MaxDelay THEN MaxDelay ELSE d

ColdTry ==
    /\ sched = "loop"
    /\ sched' = IF Cancelled THEN "started" ELSE "refresh"
    /\ UNCHANGED <<signalled, ready, attempt, delay, job, token, server>>

(* A new trie, which may match nothing, or a 304. *)
ColdSucceeds ==
    /\ sched = "refresh"
    /\ sched' = "started"
    /\ ready' \in BOOLEAN
    /\ UNCHANGED <<signalled, attempt, delay, job, token, server>>

\* Mutant of LastAttempt: the budget allows one attempt too many.
LastAttemptLate == attempt >= MaxAttempts

LastAttempt == attempt + 1 >= MaxAttempts

\* Mutant of ColdGivesUp: an exhausted budget ends Run.
ColdGivesUpForGood ==
    /\ sched = "refresh" /\ (ready \/ LastAttempt)
    /\ sched' = IF ready THEN "started" ELSE "done"
    /\ UNCHANGED <<signalled, ready, attempt, delay, job, token, server>>

(* The refresh failed; a cached blocklist, or the cron, takes over. *)
ColdGivesUp ==
    /\ sched = "refresh" /\ (ready \/ LastAttempt)
    /\ sched' = "started"
    /\ UNCHANGED <<signalled, ready, attempt, delay, job, token, server>>

ColdBacksOff ==
    /\ sched = "refresh" /\ ~ready /\ ~LastAttempt
    /\ sched' = "sleep"
    /\ delay' = Backoff(attempt)
    /\ UNCHANGED <<signalled, ready, attempt, job, token, server>>

(* The timer fires, or the cancelled context ends the sleep. *)
ColdWakes ==
    /\ sched = "sleep"
    /\ \/ sched' = "loop" /\ attempt' = attempt + 1
       \/ Cancelled /\ sched' = "started" /\ UNCHANGED attempt
    /\ UNCHANGED <<signalled, ready, delay, job, token, server>>

ColdStart == ColdTry \/ ColdSucceeds \/ ColdGivesUp \/ ColdBacksOff \/ ColdWakes

----------------------------------------------------------------------------
(* Scheduler.Run after the cold start: cron, until runCtx is cancelled.    *)
(* AddFunc's refusal of the schedule is in Startup.                        *)

StartCron ==
    /\ sched = "started"
    /\ sched' = IF Cancelled THEN "done" ELSE "cron"
    /\ UNCHANGED <<signalled, ready, attempt, delay, job, token, server>>

(* The schedule comes due: cron starts a goroutine for the job. *)
CronFires(j) ==
    /\ sched = "cron" /\ job[j] = "none"
    /\ job' = [job EXCEPT ![j] = "fired"]
    /\ UNCHANGED <<signalled, ready, sched, attempt, delay, token, server>>

\* Mutant of JobRuns: a job that overlaps another is not skipped.
JobRunsAnyway(j) ==
    /\ job[j] = "fired"
    /\ token' = FALSE
    /\ job' = [job EXCEPT ![j] = "refresh"]
    /\ UNCHANGED <<signalled, ready, sched, attempt, delay, server>>

(* SkipIfStillRunning: the job that takes the token refreshes. *)
JobRuns(j) ==
    /\ job[j] = "fired" /\ token
    /\ token' = FALSE
    /\ job' = [job EXCEPT ![j] = "refresh"]
    /\ UNCHANGED <<signalled, ready, sched, attempt, delay, server>>

JobSkips(j) ==
    /\ job[j] = "fired" /\ ~token
    /\ job' = [job EXCEPT ![j] = "none"]
    /\ UNCHANGED <<signalled, ready, sched, attempt, delay, token, server>>

(* The refresh fails and the active blocklist stays, or it succeeds. *)
JobEnds(j) ==
    /\ job[j] = "refresh"
    /\ ready' \in BOOLEAN
    /\ token' = TRUE
    /\ job' = [job EXCEPT ![j] = "none"]
    /\ UNCHANGED <<signalled, sched, attempt, delay, server>>

Job(j) == JobRuns(j) \/ JobSkips(j) \/ JobEnds(j)

(* c.Stop(): no job starts any more; those under way go on. *)
StopCron ==
    /\ sched = "cron" /\ Cancelled
    /\ sched' = "draining"
    /\ UNCHANGED <<signalled, ready, attempt, delay, job, token, server>>

\* Mutant of CronDrained: Run returns without waiting for the jobs.
CronStopped ==
    /\ sched = "draining"
    /\ sched' = "done"
    /\ UNCHANGED <<signalled, ready, attempt, delay, job, token, server>>

CronDrained ==
    /\ sched = "draining" /\ \A j \in Jobs : job[j] = "none"
    /\ sched' = "done"
    /\ UNCHANGED <<signalled, ready, attempt, delay, job, token, server>>

Cron == StartCron \/ StopCron \/ CronDrained

----------------------------------------------------------------------------
(* ListenAndServe, in its goroutine, and the requests it accepts.          *)

ShuttingDown == serve \in {"shutdown", "awaitErr"}

Binds ==
    /\ listener = "starting"
    /\ listener' = IF ShuttingDown THEN "closed" ELSE "open"
    /\ UNCHANGED <<signalled, ready, scheduler, serve, errCh, runErr, heartbeat, active>>

(* The address is taken, or accepting fails for good. *)
ListenerFails ==
    /\ listener \in {"starting", "open"} /\ serve # "exited"
    /\ listener' = "returned"
    /\ errCh' = "failure"
    /\ UNCHANGED <<signalled, ready, scheduler, serve, runErr, heartbeat, active>>

\* Mutant of ListenerReturns: only a failure is sent.
ListenerReturnsSilently ==
    /\ listener = "closed" /\ serve # "exited"
    /\ listener' = "returned"
    /\ UNCHANGED <<signalled, ready, scheduler, serve, errCh, runErr, heartbeat, active>>

(* http.ErrServerClosed is not a failure. *)
ListenerReturns ==
    /\ listener = "closed" /\ serve # "exited"
    /\ listener' = "returned"
    /\ errCh' = "nil"
    /\ UNCHANGED <<signalled, ready, scheduler, serve, runErr, heartbeat, active>>

Accept(r) ==
    /\ listener = "open" /\ r \notin active
    /\ active' = active \cup {r}
    /\ UNCHANGED <<signalled, ready, scheduler, serve, listener, errCh, runErr, heartbeat>>

Answer(r) ==
    /\ r \in active /\ serve # "exited"
    /\ active' = active \ {r}
    /\ UNCHANGED <<signalled, ready, scheduler, serve, listener, errCh, runErr, heartbeat>>

Listener == Binds \/ ListenerReturns

----------------------------------------------------------------------------
(* Server.Run: select, shut down, return through its deferred calls.       *)

BeginShutdown ==
    /\ serve = "select" /\ Cancelled
    /\ serve' = "shutdown"
    /\ listener' = IF listener = "open" THEN "closed" ELSE listener
    /\ UNCHANGED <<signalled, ready, scheduler, errCh, runErr, heartbeat, active>>

ShutdownDone ==
    /\ serve = "shutdown" /\ active = {}
    /\ serve' = "awaitErr"
    /\ UNCHANGED <<signalled, ready, scheduler, listener, errCh, runErr, heartbeat, active>>

\* Mutant of ShutdownTimesOut: Shutdown's error is not looked at.
ShutdownTimesOutSilently ==
    /\ serve = "shutdown" /\ active # {}
    /\ serve' = "awaitErr"
    /\ UNCHANGED <<signalled, ready, scheduler, listener, errCh, runErr, heartbeat, active>>

(* Requests still in flight after ten seconds are given up. *)
ShutdownTimesOut ==
    /\ serve = "shutdown" /\ active # {}
    /\ serve' = "unwind"
    /\ runErr' = "timeout"
    /\ UNCHANGED <<signalled, ready, scheduler, listener, errCh, heartbeat, active>>

(* The listener's result, without a shutdown or after it. *)
ReceiveErr ==
    /\ serve \in {"select", "awaitErr"} /\ errCh # "empty"
    /\ serve' = "unwind"
    /\ runErr' = errCh
    /\ errCh' = "empty"
    /\ UNCHANGED <<signalled, ready, scheduler, listener, heartbeat, active>>

Beat ==
    /\ heartbeat = "idle" /\ serve # "exited"
    /\ heartbeat' = "beating"
    /\ UNCHANGED <<signalled, ready, scheduler, serve, listener, errCh, runErr, active>>

\* Mutant of HeartbeatCancelled: the loop is given ctx, not hbCtx.
HeartbeatCancelledByCtx == Cancelled

HeartbeatCancelled == Cancelled \/ serve = "unwind"

(* A beat ends; the idle loop ends when hbCtx is cancelled. *)
HeartbeatReturns ==
    /\ \/ heartbeat = "beating" /\ heartbeat' = "idle"
       \/ heartbeat = "idle" /\ HeartbeatCancelled /\ heartbeat' = "done"
    /\ UNCHANGED <<signalled, ready, scheduler, serve, listener, errCh, runErr, active>>

(* hbWG.Wait, the return, and runComponents' cancel. *)
RunReturns ==
    /\ serve = "unwind" /\ heartbeat = "done"
    /\ serve' = "waiting"
    /\ UNCHANGED <<signalled, ready, scheduler, listener, errCh, runErr, heartbeat, active>>

(* wg.Wait, and the process is gone. *)
Exit ==
    /\ serve = "waiting" /\ sched = "done"
    /\ serve' = "exited"
    /\ UNCHANGED <<signalled, ready, scheduler, listener, errCh, runErr, heartbeat, active>>

Shutdown == BeginShutdown \/ ShutdownDone \/ ShutdownTimesOut \/ ReceiveErr
            \/ RunReturns \/ Exit

----------------------------------------------------------------------------
Next == \/ Signal \/ ColdStart \/ Cron
        \/ \E j \in Jobs : CronFires(j) \/ Job(j)
        \/ Listener \/ ListenerFails
        \/ \E r \in Requests : Accept(r) \/ Answer(r)
        \/ Shutdown \/ Beat \/ HeartbeatReturns

Spec == Init /\ [][Next]_vars

(* Goroutines are scheduled, a refresh ends within refresh.timeout, and    *)
(* the cron schedule keeps coming due.  A request need not be answered: it *)
(* may outlast Shutdown's deadline.  Beat is left out, and HeartbeatReturns *)
(* is strongly fair: a due tick and a cancelled context are chosen between  *)
(* at random, so the tick is not chosen for ever.                           *)
Fairness == /\ WF_vars(ColdStart) /\ WF_vars(Cron)
            /\ WF_vars(\E j \in Jobs : CronFires(j))
            /\ \A j \in Jobs : WF_vars(Job(j))
            /\ WF_vars(Listener) /\ WF_vars(Shutdown)
            /\ SF_vars(HeartbeatReturns /\ heartbeat' = "done")
            /\ WF_vars(HeartbeatReturns /\ heartbeat' = "idle")

FairSpec == Spec /\ Fairness

----------------------------------------------------------------------------
TypeOK ==
    /\ signalled \in BOOLEAN /\ ready \in BOOLEAN /\ token \in BOOLEAN
    /\ sched \in {"loop", "refresh", "sleep", "started", "cron", "draining", "done"}
    /\ attempt \in 0..(MaxAttempts - 1)
    /\ job \in [Jobs -> {"none", "fired", "refresh"}]
    /\ serve \in {"select", "shutdown", "awaitErr", "unwind", "waiting", "exited"}
    /\ listener \in {"starting", "open", "closed", "returned"}
    /\ errCh \in {"empty", "nil", "failure"}
    /\ runErr \in {"none", "nil", "failure", "timeout"}
    /\ heartbeat \in {"idle", "beating", "done"}
    /\ active \subseteq Requests

(* Two refreshes never run at once, neither two cron jobs nor a cron job   *)
(* and the cold start: an overlapping tick is skipped, and nobody queues   *)
(* for the fetcher's mutex.                                                *)
RefreshesDisjoint ==
    \A j \in Jobs : job[j] = "refresh" =>
        /\ sched # "refresh"
        /\ \A k \in Jobs : job[k] = "refresh" => k = j

(* When the process exits, for whatever reason, no refresh is cut off in   *)
(* the middle: the scheduler has returned, its jobs and the heartbeat have *)
(* ended.                                                                  *)
DrainedOnExit ==
    serve = "exited" => /\ sched = "done" /\ heartbeat = "done"
                        /\ \A j \in Jobs : job[j] = "none"

(* A zero exit status is the answer to a signal, never to a listener that  *)
(* could not bind or stopped accepting, and no request was cut off for it. *)
ZeroExitClean ==
    serve = "exited" /\ runErr = "nil" => signalled /\ active = {}

(* What somebody waits for is still to come: a listener that has ended has *)
(* left its result where Server.Run receives it, Server.Run has closed the *)
(* listener whose end it waits for, and a token that is out is held by a   *)
(* job that will return it, or every later tick would be skipped.          *)
NoLostWakeup ==
    /\ serve \in {"select", "awaitErr"} /\ listener = "returned" => errCh # "empty"
    /\ serve = "awaitErr" => listener # "open"
    /\ ~token => \E j \in Jobs : job[j] = "refresh"

(* Every backoff is positive, capped, and no shorter than the one before,  *)
(* also when the shift overflows.                                          *)
BackoffGrows ==
    [][sched' = "sleep" /\ sched # "sleep" =>
            0 < delay' /\ delay' <= MaxDelay /\ delay <= delay']_vars

Refreshing == sched = "refresh" \/ \E j \in Jobs : job[j] = "refresh"

(* A daemon that is not shut down refreshes again and again: no exhausted  *)
(* budget and no skipped overlap is the last of it.                        *)
RefreshesRecur == <>Cancelled \/ []<>Refreshing

(* A signal, or a listener that fails, ends the process: nobody waits for  *)
(* somebody who is not told to stop.                                       *)
Terminates == (signalled \/ errCh = "failure") ~> (serve = "exited")
============================================================================
