----------------------------- MODULE Readiness -----------------------------
(***************************************************************************)
(* The HTTP side of the daemon: the /check and /healthz handlers, the      *)
(* heartbeat goroutine and the readiness tracker they share, against a     *)
(* blocklist Source that a refresh may Swap at any moment.                 *)
(*                                                                         *)
(* Every goroutine is a thread of its own, and one step is one operation   *)
(* on shared memory: a load or store of an atomic, or the mutex.           *)
(* Operations are merged only where no other goroutine can tell: the       *)
(* re-check with the acquisition of mu, the log line and the flag's store  *)
(* with its release, and the stores of unusableSince (read outside mu only *)
(* to print a duration) with the counter access next to them.              *)
(***************************************************************************)
EXTENDS Integers, Decision

CONSTANTS
    Heartbeat,   \* Run's own goroutine first, then the heartbeat loop's
    MaxSwaps     \* bound on the refreshes that publish a trie

ASSUME HeartbeatAssumption == Heartbeat \notin Reqs /\ None \notin Reqs \cup {Heartbeat}

ASSUME MaxSwapsAssumption == MaxSwaps \in Nat

Threads == Reqs \cup {Heartbeat}

VARIABLES
    current,                \* blocklist.Source.current
    swaps,                  \* tries published so far
    listening,              \* Run has reached ListenAndServe
    mu,                     \* holder of readiness.mu, or None
    usable,                 \* readiness.usable: the last observed predicate
    everReady,              \* readiness.everReady
    windowOpen,             \* readiness.unusableSince # 0
    failOpenTotal,          \* readiness.failOpenTotal
    failOpenSinceHeartbeat, \* readiness.failOpenSinceHeartbeat
    failOpenAtWindowStart,  \* readiness.failOpenAtWindowStart
    pc,                     \* where each goroutine is
    snap,                   \* its one s.lookup() result
    toldReady,              \* the ever_ready value it reports
    request,                \* what a request asks
    response,               \* what its caller was told
    \* What the log holds so far:
    unusableSignals,        \* ERROR lines on entering the unusable state
    recoveredSignals,       \* INFO lines on recovery
    windowAllows,           \* sum of their failopen_allowed_total_window
    beatAllows              \* sum of the heartbeats' failopen_allowed_since_last

counters == <<failOpenTotal, failOpenSinceHeartbeat, failOpenAtWindowStart>>
flags    == <<usable, everReady, windowOpen>>
log      == <<unusableSignals, recoveredSignals, windowAllows, beatAllows>>
source   == <<current, swaps>>
http     == <<listening, request, response>>
locals   == <<snap, toldReady>>
vars     == <<source, http, mu, flags, counters, log, pc, locals>>

Inside == {"opening", "resetting", "openLogging", "closing", "closeLogging"}

Labels == {"idle", "lookup", "latch", "compare", "lock", "observed",
           "countBeat", "beat", "done"} \cup Inside

Goto(t, from, to) == pc[t] = from /\ pc' = [pc EXCEPT ![t] = to]

----------------------------------------------------------------------------
(* newReadiness, and a Source that is empty or warm from the disk cache.   *)
(* Run's own observation comes before the first request.                   *)
Init ==
    /\ current \in {NoTrie} \cup Tries
    /\ swaps = 0
    /\ listening = FALSE
    /\ mu = None
    /\ usable = TRUE
    /\ everReady = FALSE
    /\ windowOpen = FALSE
    /\ failOpenTotal = 0
    /\ failOpenSinceHeartbeat = 0
    /\ failOpenAtWindowStart = 0
    /\ pc = [t \in Threads |-> IF t = Heartbeat THEN "lookup" ELSE "idle"]
    /\ snap = [t \in Threads |-> None]
    /\ toldReady = [t \in Threads |-> None]
    /\ request = [r \in Reqs |-> None]
    /\ response = [r \in Reqs |-> None]
    /\ unusableSignals = 0
    /\ recoveredSignals = 0
    /\ windowAllows = 0
    /\ beatAllows = 0

(* A refresh publishes the trie it has built; it never publishes nil. *)
Swap(t) ==
    /\ swaps < MaxSwaps
    /\ swaps' = swaps + 1
    /\ current' = t
    /\ UNCHANGED <<http, mu, flags, counters, log, pc, locals>>

----------------------------------------------------------------------------
(* observe, from the s.lookup() that feeds it to its return.               *)

\* Mutant of Lookup: the heartbeat keeps the blocklist it looked up first.
LookupOnce(t) ==
    /\ Goto(t, "lookup", "latch")
    /\ t \in Reqs => request[t].op # "otherMethod"
    /\ snap' = [snap EXCEPT ![t] = IF t \in Reqs \/ @ = None THEN current ELSE @]
    /\ UNCHANGED <<source, http, mu, flags, counters, log, toldReady>>

Lookup(t) ==
    /\ Goto(t, "lookup", "latch")
    /\ t \in Reqs => request[t].op # "otherMethod"
    /\ snap' = [snap EXCEPT ![t] = current]
    /\ UNCHANGED <<source, http, mu, flags, counters, log, toldReady>>

\* Mutant of Latch: readiness is latched on a recovery only, so never when warm.
LatchOnRecovery(t) ==
    /\ Goto(t, "latch", "compare")
    /\ everReady' = (everReady \/ (Usable(snap[t]) /\ ~usable))
    /\ UNCHANGED <<source, http, mu, usable, windowOpen, counters, log, locals>>

Latch(t) ==
    /\ Goto(t, "latch", "compare")
    /\ everReady' = (everReady \/ Usable(snap[t]))
    /\ UNCHANGED <<source, http, mu, usable, windowOpen, counters, log, locals>>

(* Unlocked test of the flag: the common case takes no lock. *)
Compare(t) ==
    /\ Goto(t, "compare", IF usable = Usable(snap[t]) THEN "observed" ELSE "lock")
    /\ UNCHANGED <<source, http, mu, flags, counters, log, locals>>

\* Mutant of StillPending: no second look at the flag under the lock.
AssumePending(t) == TRUE

(* The re-check: has nobody else reported this transition meanwhile? *)
StillPending(t) == usable # Usable(snap[t])

(* Acquire mu and re-check; a transition that another goroutine has        *)
(* already reported releases it at once.                                   *)
Lock(t) ==
    /\ mu = None
    /\ \/ /\ ~StillPending(t)
          /\ Goto(t, "lock", "observed")
          /\ UNCHANGED mu
       \/ /\ StillPending(t)
          /\ Goto(t, "lock", IF Usable(snap[t]) THEN "closing" ELSE "opening")
          /\ mu' = t
    /\ UNCHANGED <<source, http, flags, counters, log, locals>>

\* Mutant of OpenWindow: failOpenTotal is not remembered.
OpenWindowUnmarked(t) ==
    /\ Goto(t, "opening", "resetting")
    /\ windowOpen' = TRUE
    /\ UNCHANGED <<source, http, mu, usable, everReady, counters, log, locals>>

(* emitUnusable: the window opens, its counters are set, it is logged. *)
OpenWindow(t) ==
    /\ Goto(t, "opening", "resetting")
    /\ windowOpen' = TRUE
    /\ failOpenAtWindowStart' = failOpenTotal
    /\ UNCHANGED <<source, http, mu, usable, everReady, failOpenTotal,
                   failOpenSinceHeartbeat, log, locals>>

ResetSinceHeartbeat(t) ==
    /\ Goto(t, "resetting", "openLogging")
    /\ failOpenSinceHeartbeat' = 0
    /\ UNCHANGED <<source, http, mu, flags, failOpenTotal,
                   failOpenAtWindowStart, log, locals>>

EmitUnusable(t) ==
    /\ Goto(t, "openLogging", "observed")
    /\ unusableSignals' = unusableSignals + 1
    /\ usable' = FALSE
    /\ mu' = None
    /\ UNCHANGED <<source, http, everReady, windowOpen, counters,
                   recoveredSignals, windowAllows, beatAllows, locals>>

\* Mutant of WindowTally: the operands of the difference are swapped.
WindowTallySwapped == IF FailOpen THEN failOpenAtWindowStart - failOpenTotal ELSE 0

WindowTally == IF FailOpen THEN failOpenTotal - failOpenAtWindowStart ELSE 0

(* emitRecovered: what the window let through is worked out, then logged. *)
CloseWindow(t) ==
    /\ Goto(t, "closing", "closeLogging")
    /\ windowAllows' = windowAllows + WindowTally
    /\ windowOpen' = FALSE
    /\ UNCHANGED <<source, http, mu, usable, everReady, counters,
                   unusableSignals, recoveredSignals, beatAllows, locals>>

\* Mutant of EmitRecovered: a return path that does not release mu.
EmitRecoveredHoldingMu(t) ==
    /\ Goto(t, "closeLogging", "observed")
    /\ recoveredSignals' = recoveredSignals + 1
    /\ usable' = TRUE
    /\ UNCHANGED <<source, http, mu, everReady, windowOpen, counters,
                   unusableSignals, windowAllows, beatAllows, locals>>

EmitRecovered(t) ==
    /\ Goto(t, "closeLogging", "observed")
    /\ recoveredSignals' = recoveredSignals + 1
    /\ usable' = TRUE
    /\ mu' = None
    /\ UNCHANGED <<source, http, everReady, windowOpen, counters,
                   unusableSignals, windowAllows, beatAllows, locals>>

Observe(t) == \/ Lookup(t) \/ Latch(t) \/ Compare(t) \/ Lock(t)
              \/ OpenWindow(t) \/ ResetSinceHeartbeat(t) \/ EmitUnusable(t)
              \/ CloseWindow(t) \/ EmitRecovered(t)

----------------------------------------------------------------------------
(* The handlers.                                                           *)

Arrive(r, q) ==
    /\ listening
    /\ Goto(r, "idle", "lookup")
    /\ request' = [request EXCEPT ![r] = q]
    /\ UNCHANGED <<source, listening, response, mu, flags, counters, log, locals>>

MethodNotAllowed(r) ==
    /\ Goto(r, "lookup", "done")
    /\ request[r].op = "otherMethod"
    /\ response' = [response EXCEPT ![r] = "405"]
    /\ UNCHANGED <<source, listening, request, mu, flags, counters, log, locals>>

(* handleCheck without a usable blocklist.  Under fail-open the request is *)
(* counted twice, in two separate atomic additions, and then let through.  *)
CheckCount(r) ==
    /\ Goto(r, "observed", "countBeat")
    /\ request[r].op = "check" /\ ~Usable(snap[r]) /\ FailOpen
    /\ failOpenTotal' = failOpenTotal + 1
    /\ UNCHANGED <<source, http, mu, flags, failOpenSinceHeartbeat,
                   failOpenAtWindowStart, log, locals>>

CheckAllowAll(r) ==
    /\ Goto(r, "countBeat", "done")
    /\ failOpenSinceHeartbeat' = failOpenSinceHeartbeat + 1
    /\ response' = [response EXCEPT ![r] = "allow"]
    /\ UNCHANGED <<source, listening, request, mu, flags, failOpenTotal,
                   failOpenAtWindowStart, log, locals>>

CheckDenyAll(r) ==
    /\ Goto(r, "observed", "done")
    /\ request[r].op = "check" /\ ~Usable(snap[r]) /\ ~FailOpen
    /\ response' = [response EXCEPT ![r] = "block"]
    /\ UNCHANGED <<source, listening, request, mu, flags, counters, log, locals>>

\* Mutant of Blocked: a second s.lookup() decides.
BlockedAfterRereading(r) ==
    request[r].addr \in {Unparseable} \cup (IF current = NoTrie THEN {} ELSE current)

(* An unparseable address is blocked whatever the startup mode, otherwise  *)
(* Contains decides.                                                       *)
Blocked(r) == request[r].addr \in {Unparseable} \cup snap[r]

(* handleCheck with a usable blocklist. *)
CheckEnforce(r) ==
    /\ Goto(r, "observed", "done")
    /\ request[r].op = "check" /\ Usable(snap[r])
    /\ response' = [response EXCEPT ![r] = IF Blocked(r) THEN "block" ELSE "allow"]
    /\ UNCHANGED <<source, listening, request, mu, flags, counters, log, locals>>

(* handleHealthz: 503 whenever the blocklist is unusable, in both modes.   *)
Healthz(r) ==
    /\ Goto(r, "observed", "done")
    /\ request[r].op = "healthz"
    /\ \/ /\ ~Usable(snap[r])
          /\ response' = [response EXCEPT ![r] = "empty"]
          /\ toldReady' = [toldReady EXCEPT ![r] = everReady]
       \/ /\ Usable(snap[r])
          /\ response' = [response EXCEPT ![r] = "ok"]
          /\ toldReady' = [toldReady EXCEPT ![r] = TRUE]
    /\ UNCHANGED <<source, listening, request, mu, flags, counters, log, snap>>

Handle(r) == \/ MethodNotAllowed(r) \/ CheckCount(r) \/ CheckAllowAll(r)
             \/ CheckDenyAll(r) \/ CheckEnforce(r) \/ Healthz(r)

----------------------------------------------------------------------------
(* Run's initial observation, then one heartbeat per tick of its ticker.   *)

Listen ==
    /\ ~listening
    /\ Goto(Heartbeat, "observed", "idle")
    /\ listening' = TRUE
    /\ UNCHANGED <<source, request, response, mu, flags, counters, log, locals>>

\* Mutant of Tick: the heartbeat tests the blocklist without observing it.
TickUnobserved ==
    /\ Goto(Heartbeat, "idle", IF Usable(current) THEN "idle" ELSE "beat")
    /\ toldReady' = [toldReady EXCEPT ![Heartbeat] = everReady]
    /\ UNCHANGED <<source, http, mu, flags, counters, log, snap>>

Tick ==
    /\ Goto(Heartbeat, "idle", "lookup")
    /\ toldReady' = [toldReady EXCEPT ![Heartbeat] = None]
    /\ UNCHANGED <<source, http, mu, flags, counters, log, snap>>

\* Mutant of Silent: only a daemon that has never been ready is reported.
SilentOnceReady == Usable(snap[Heartbeat]) \/ everReady

Silent == Usable(snap[Heartbeat])

(* After the observation: silent when usable, else read ever_ready, which  *)
(* also picks the likely_cause, and report.                                *)
HeartbeatObserved ==
    /\ listening
    /\ \/ /\ Silent
          /\ Goto(Heartbeat, "observed", "idle")
          /\ UNCHANGED toldReady
       \/ /\ ~Silent
          /\ Goto(Heartbeat, "observed", "beat")
          /\ toldReady' = [toldReady EXCEPT ![Heartbeat] = everReady]
    /\ UNCHANGED <<source, http, mu, flags, counters, log, snap>>

\* Mutant of EmitHeartbeat: failOpenSinceHeartbeat is read and not reset.
EmitHeartbeatUnreset ==
    /\ Goto(Heartbeat, "beat", "idle")
    /\ beatAllows' = beatAllows + failOpenSinceHeartbeat
    /\ UNCHANGED <<source, http, mu, flags, counters, unusableSignals,
                   recoveredSignals, windowAllows, locals>>

EmitHeartbeat ==
    /\ Goto(Heartbeat, "beat", "idle")
    /\ \/ /\ FailOpen
          /\ beatAllows' = beatAllows + failOpenSinceHeartbeat
          /\ failOpenSinceHeartbeat' = 0
       \/ /\ ~FailOpen
          /\ UNCHANGED <<beatAllows, failOpenSinceHeartbeat>>
    /\ UNCHANGED <<source, http, mu, flags, failOpenTotal, failOpenAtWindowStart,
                   unusableSignals, recoveredSignals, windowAllows, locals>>

Beat == Listen \/ Tick \/ HeartbeatObserved \/ EmitHeartbeat

----------------------------------------------------------------------------
Next == \/ \E t \in Tries : Swap(t)
        \/ \E t \in Threads : Observe(t)
        \/ \E r \in Reqs : Handle(r) \/ \E q \in Requests : Arrive(r, q)
        \/ Beat

Spec == Init /\ [][Next]_vars

(* Goroutines are scheduled, the mutex is not withheld for ever, and the   *)
(* ticker keeps firing.  Requests and refreshes need not come.             *)
Fairness == /\ \A t \in Threads : WF_vars(Observe(t))
            /\ \A r \in Reqs : WF_vars(Handle(r))
            /\ WF_vars(Beat)

FairSpec == Spec /\ Fairness

----------------------------------------------------------------------------
TypeOK ==
    /\ current \in {NoTrie} \cup Tries
    /\ swaps \in 0..MaxSwaps
    /\ listening \in BOOLEAN
    /\ mu \in Threads \cup {None}
    /\ usable \in BOOLEAN /\ everReady \in BOOLEAN /\ windowOpen \in BOOLEAN
    /\ failOpenTotal \in Nat
    /\ failOpenSinceHeartbeat \in Nat
    /\ failOpenAtWindowStart \in Nat
    /\ pc \in [Threads -> Labels]
    /\ snap \in [Threads -> {NoTrie, None} \cup Tries]
    /\ toldReady \in [Threads -> BOOLEAN \cup {None}]
    /\ request \in [Reqs -> Requests \cup {None}]
    /\ response \in [Reqs -> Verdicts \cup {None}]
    /\ unusableSignals \in Nat /\ recoveredSignals \in Nat
    /\ windowAllows \in Nat /\ beatAllows \in Nat

(* However many goroutines see a change at once, the log alternates: one   *)
(* ERROR on entering the unusable state, one INFO on leaving it, never two *)
(* of a kind in a row, and the last one says what the tracker's flag and   *)
(* window say (observe's re-check under mu).                               *)
SignalsAlternate ==
    /\ unusableSignals = recoveredSignals + (IF usable THEN 0 ELSE 1)
    /\ mu = None => (windowOpen <=> ~usable)

(* The flag is right, and nobody is about to compare it with a blocklist   *)
(* that is no longer the active one.                                       *)
Agreed ==
    /\ usable <=> Usable(current)
    /\ \A t \in Threads : pc[t] \in {"latch", "compare", "lock"} \cup Inside
          => (Usable(snap[t]) <=> Usable(current))

(* From then on there is neither an outage nor a recovery in the log until *)
(* a refresh changes whether the blocklist is usable, however many         *)
(* goroutines observe it: only one that looked it up before a refresh and  *)
(* observes it after others have can raise a false alarm.                  *)
NoFalseAlarm ==
    [][Agreed /\ (Usable(current') <=> Usable(current))
          => Agreed' /\ UNCHANGED <<unusableSignals, recoveredSignals>>]_vars

(* No request let through is reported in two recovery lines: the windows'  *)
(* failopen_allowed_total_window figures never add up to more than         *)
(* failOpenTotal (the snapshot emitUnusable takes of it).                  *)
WindowsDisjoint == windowAllows <= failOpenTotal

(* Nor in two heartbeats, whatever the order of their additions and of the *)
(* heartbeat's Swap(0): a count awaiting the next heartbeat is already in  *)
(* the total.                                                              *)
BeatsDisjoint == beatAllows + failOpenSinceHeartbeat <= failOpenTotal

(* A goroutine that has been answered from a usable blocklist. *)
Enforced(r) == response[r] # None /\ snap[r] # None /\ Usable(snap[r])

(* ever_ready is never taken back: once any caller has been answered from  *)
(* a usable blocklist, no /healthz or heartbeat reports ever_ready false   *)
(* (observe latches before it returns, on a warm start too).               *)
EverReadyNeverTakenBack ==
    [][\A t \in Threads : toldReady'[t] = FALSE /\ toldReady[t] # FALSE
            => ~ \E r \in Reqs : Enforced(r)]_vars

(* The handlers, tracker and goroutines implement ForwardAuth: each answer *)
(* is the one the blocklist active at a single instant of the request      *)
(* gives, whatever the tracker's state.                                    *)
FA == INSTANCE ForwardAuth WITH against <- [r \in Reqs |-> snap[r]]
Answers == FA!Spec

(* Once refreshes cease, the tracker's flag agrees with the active         *)
(* blocklist for good, with or without traffic: the heartbeat observes     *)
(* before it reports.                                                      *)
TrackerConverges == <>[](usable <=> Usable(current))

(* A blocklist that stays unusable is reported for ever, with or without   *)
(* traffic, also after it was once ready.                                  *)
HeartbeatRecurs == <>[]~Usable(current) => []<>(pc[Heartbeat] = "beat")

(* Every request that arrives is answered: nobody waits for mu for ever. *)
EveryRequestAnswered ==
    \A r \in Reqs : request[r] # None ~> response[r] # None

----------------------------------------------------------------------------
(* What the repository says of the tracker and the code does not do.       *)

(* "a transition emits exactly once even when many requests observe the    *)
(* change concurrently": no more recoveries are reported than refreshes    *)
(* were published.  A goroutine that looked the blocklist up before the    *)
(* refresh and observes it afterwards turns the flag back.                 *)
RecoveryReportedOnce == recoveredSignals <= swaps

(* The heartbeat's likely_cause is true of the blocklist it looked at: "no *)
(* successful fetch since start" of none, "loaded but matched no           *)
(* configured countries" of an empty one (ever_ready alone picks it).      *)
LikelyCauseTrue ==
    pc[Heartbeat] = "beat" =>
        snap[Heartbeat] = (IF toldReady[Heartbeat] THEN {} ELSE NoTrie)

Quiet == pc[Heartbeat] = "idle" /\ \A r \in Reqs : pc[r] \in {"idle", "done"}

(* The recovery signals report how many requests their windows let         *)
(* through: when nobody is under way and the blocklist is usable, every    *)
(* fail-open allow is in one of them (a request is counted after its       *)
(* observation, when the window may have closed).                          *)
WindowsComplete == Quiet /\ usable => windowAllows = failOpenTotal
============================================================================
