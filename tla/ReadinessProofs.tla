-------------------------- MODULE ReadinessProofs --------------------------
(***************************************************************************)
(* Theorems about Readiness for any set of requests, any tries, either     *)
(* startup mode and any number of refreshes.                               *)
(*                                                                         *)
(* Inv gives the tracker's own consistency (types, signals, windows).  On  *)
(* top of it Handling says what a request has gone through at each label,  *)
(* Ready and Beats what the shared latch and counters owe to it.           *)
(***************************************************************************)
EXTENDS Readiness, FiniteSetTheorems, TLAPS

(* mu is held exactly by the goroutine inside observe's critical section. *)
Mutex == \A t \in Threads : pc[t] \in Inside <=> mu = t

(* What that goroutine knows: the flag still disagrees with its snapshot,  *)
(* and the window has been opened or closed just as far as it has got.     *)
Stage == \A t \in Threads :
    /\ pc[t] \in {"opening", "resetting", "openLogging"} =>
            usable /\ ~Usable(snap[t])
    /\ pc[t] \in {"closing", "closeLogging"} => ~usable /\ Usable(snap[t])
    /\ pc[t] \in {"opening", "closeLogging"} => ~windowOpen
    /\ pc[t] \in {"resetting", "openLogging", "closing"} => windowOpen

(* Windows reported so far end before the one that is open begins. *)
Windows ==
    /\ failOpenAtWindowStart <= failOpenTotal
    /\ windowOpen  => windowAllows <= failOpenAtWindowStart
    /\ ~windowOpen => windowAllows <= failOpenTotal

Inv == TypeOK /\ Mutex /\ Stage /\ SignalsAlternate /\ Windows

(* What a request has gone through by the time it is at a label. *)
Handling == \A r \in Reqs :
    /\ pc[r] # "beat"
    /\ pc[r] = "idle" => request[r] = None
    /\ pc[r] # "idle" => request[r] # None
    /\ pc[r] \in {"idle", "lookup"} => snap[r] = None
    /\ pc[r] \notin {"idle", "lookup", "done"} =>
            snap[r] # None /\ request[r].op # "otherMethod"
    /\ response[r] = None <=> pc[r] # "done"
    /\ pc[r] = "countBeat" =>
            request[r].op = "check" /\ ~Usable(snap[r]) /\ FailOpen

(* Past observe's first store, a usable snapshot has been latched. *)
Ready == \A r \in Reqs :
    pc[r] \notin {"idle", "lookup", "latch"} /\ snap[r] # None /\ Usable(snap[r])
        => everReady

(* Requests between their two additions: in the total, not yet in the      *)
(* count that the next heartbeat will report.                              *)
Counting == {r \in Reqs : pc[r] = "countBeat"}

Beats == /\ IsFiniteSet(Counting)
         /\ beatAllows + failOpenSinceHeartbeat + Cardinality(Counting)
                <= failOpenTotal

USE DEF vars, source, http, flags, counters, log, locals, Goto

(* A fresh tracker, before Run's first observation, satisfies Inv. *)
LEMMA InitInv == Init => Inv
<1> SUFFICES ASSUME Init PROVE Inv
  OBVIOUS
<1> USE HeartbeatAssumption, NoneAssumption, MaxSwapsAssumption
<1>1. TypeOK
  <2>1. /\ listening \in BOOLEAN /\ usable \in BOOLEAN
        /\ everReady \in BOOLEAN /\ windowOpen \in BOOLEAN
    BY Zenon DEF Init
  <2> QED BY <2>1 DEF Init, TypeOK, Threads, Labels, Inside
<1>2. Mutex
  BY DEF Init, Mutex, Threads, Inside
<1>3. Stage
  <2> SUFFICES ASSUME NEW t \in Threads
               PROVE  pc[t] \notin Inside
    BY DEF Stage, Inside
  <2> QED BY DEF Init, Threads, Inside
<1>4. SignalsAlternate /\ Windows
  BY DEF Init, SignalsAlternate, Windows
<1> QED BY <1>1, <1>2, <1>3, <1>4 DEF Inv

(* Every step of every goroutine preserves Inv. *)
LEMMA NextInv == Inv /\ [Next]_vars => Inv'
<1> SUFFICES ASSUME Inv, [Next]_vars PROVE Inv'
  OBVIOUS
<1> USE HeartbeatAssumption, NoneAssumption, MaxSwapsAssumption
<1>stutter. CASE UNCHANGED vars
  BY <1>stutter DEF Inv, TypeOK, Mutex, Stage, SignalsAlternate, Windows
<1>Swap. ASSUME NEW t \in Tries, Swap(t) PROVE Inv'
  BY <1>Swap DEF Inv, TypeOK, Mutex, Stage, SignalsAlternate, Windows, Swap
<1>Lookup. ASSUME NEW t \in Threads, Lookup(t) PROVE Inv'
  <2>1. TypeOK'
    BY <1>Lookup DEF Inv, TypeOK, Threads, Labels, Inside, Verdicts, Lookup
  <2>2. Mutex'
    BY <1>Lookup DEF Inv, TypeOK, Mutex, Inside, Threads, Lookup
  <2>3. Stage'
    BY <1>Lookup DEF Inv, TypeOK, Mutex, Stage, Inside, Threads, Lookup
  <2>4. SignalsAlternate'
    BY <1>Lookup DEF Inv, TypeOK, Mutex, Stage, SignalsAlternate, Inside, Threads, Lookup
  <2>5. Windows'
    BY <1>Lookup DEF Inv, TypeOK, Stage, Windows, Lookup
  <2>6. QED BY <2>1, <2>2, <2>3, <2>4, <2>5 DEF Inv
<1>Latch. ASSUME NEW t \in Threads, Latch(t) PROVE Inv'
  <2>1. TypeOK'
    BY <1>Latch DEF Inv, TypeOK, Threads, Labels, Inside, Verdicts, Latch
  <2>2. Mutex'
    BY <1>Latch DEF Inv, TypeOK, Mutex, Inside, Threads, Latch
  <2>3. Stage'
    BY <1>Latch DEF Inv, TypeOK, Mutex, Stage, Inside, Threads, Latch
  <2>4. SignalsAlternate'
    BY <1>Latch DEF Inv, TypeOK, Mutex, Stage, SignalsAlternate, Inside, Threads, Latch
  <2>5. Windows'
    BY <1>Latch DEF Inv, TypeOK, Stage, Windows, Latch
  <2>6. QED BY <2>1, <2>2, <2>3, <2>4, <2>5 DEF Inv
<1>Compare. ASSUME NEW t \in Threads, Compare(t) PROVE Inv'
  <2>1. TypeOK'
    BY <1>Compare DEF Inv, TypeOK, Threads, Labels, Inside, Verdicts, Compare
  <2>2. Mutex'
    BY <1>Compare DEF Inv, TypeOK, Mutex, Inside, Threads, Compare
  <2>3. Stage'
    BY <1>Compare DEF Inv, TypeOK, Mutex, Stage, Inside, Threads, Compare
  <2>4. SignalsAlternate'
    BY <1>Compare DEF Inv, TypeOK, Mutex, Stage, SignalsAlternate, Inside, Threads, Compare
  <2>5. Windows'
    BY <1>Compare DEF Inv, TypeOK, Stage, Windows, Compare
  <2>6. QED BY <2>1, <2>2, <2>3, <2>4, <2>5 DEF Inv
<1>Lock. ASSUME NEW t \in Threads, Lock(t) PROVE Inv'
  <2>1. TypeOK'
    BY <1>Lock DEF Inv, TypeOK, Threads, Labels, Inside, Verdicts, Lock, StillPending
  <2>2. Mutex'
    BY <1>Lock DEF Inv, TypeOK, Mutex, Inside, Threads, Lock, StillPending
  <2>3. Stage'
    <3> DEFINE u == Usable(snap[t])
    <3>1. u \in BOOLEAN /\ usable \in BOOLEAN
      BY DEF Inv, TypeOK, Usable
    <3>2. CASE usable = u
      BY <3>2, <1>Lock DEF Inv, TypeOK, Mutex, Stage, Inside, Lock, StillPending
    <3>3. CASE usable # u
      <4>1. /\ pc' = [pc EXCEPT ![t] = IF u THEN "closing" ELSE "opening"]
            /\ UNCHANGED <<usable, windowOpen, snap>>
            /\ mu = None
        BY <3>3, <1>Lock DEF Lock, StillPending
      <4>2. IF u THEN ~usable /\ windowOpen ELSE usable /\ ~windowOpen
        BY <3>1, <3>3, <4>1, Zenon DEF Inv, SignalsAlternate
      <4>3. \A s \in Threads : s # t => pc[s] \notin Inside /\ pc'[s] = pc[s]
        BY <4>1 DEF Inv, TypeOK, Mutex, Threads
      <4> QED BY <4>1, <4>2, <4>3 DEF Inv, TypeOK, Stage, Inside
    <3> QED BY <3>2, <3>3
  <2>4. SignalsAlternate'
    BY <1>Lock DEF Inv, TypeOK, Mutex, Stage, SignalsAlternate, Inside, Threads, Lock, StillPending
  <2>5. Windows'
    BY <1>Lock DEF Inv, TypeOK, Stage, Windows, Lock, StillPending
  <2>6. QED BY <2>1, <2>2, <2>3, <2>4, <2>5 DEF Inv
<1>OpenWindow. ASSUME NEW t \in Threads, OpenWindow(t) PROVE Inv'
  <2>1. TypeOK'
    BY <1>OpenWindow DEF Inv, TypeOK, Threads, Labels, Inside, Verdicts, OpenWindow
  <2>2. Mutex'
    BY <1>OpenWindow DEF Inv, TypeOK, Mutex, Inside, Threads, OpenWindow
  <2>3. Stage'
    BY <1>OpenWindow DEF Inv, TypeOK, Mutex, Stage, Inside, Threads, OpenWindow
  <2>4. SignalsAlternate'
    BY <1>OpenWindow DEF Inv, TypeOK, Mutex, Stage, SignalsAlternate, Inside, Threads, OpenWindow
  <2>5. Windows'
    BY <1>OpenWindow DEF Inv, TypeOK, Stage, Windows, OpenWindow
  <2>6. QED BY <2>1, <2>2, <2>3, <2>4, <2>5 DEF Inv
<1>ResetSinceHeartbeat. ASSUME NEW t \in Threads, ResetSinceHeartbeat(t) PROVE Inv'
  <2>1. TypeOK'
    BY <1>ResetSinceHeartbeat DEF Inv, TypeOK, Threads, Labels, Inside, Verdicts, ResetSinceHeartbeat
  <2>2. Mutex'
    BY <1>ResetSinceHeartbeat DEF Inv, TypeOK, Mutex, Inside, Threads, ResetSinceHeartbeat
  <2>3. Stage'
    BY <1>ResetSinceHeartbeat DEF Inv, TypeOK, Mutex, Stage, Inside, Threads, ResetSinceHeartbeat
  <2>4. SignalsAlternate'
    BY <1>ResetSinceHeartbeat DEF Inv, TypeOK, Mutex, Stage, SignalsAlternate, Inside, Threads, ResetSinceHeartbeat
  <2>5. Windows'
    BY <1>ResetSinceHeartbeat DEF Inv, TypeOK, Stage, Windows, ResetSinceHeartbeat
  <2>6. QED BY <2>1, <2>2, <2>3, <2>4, <2>5 DEF Inv
<1>EmitUnusable. ASSUME NEW t \in Threads, EmitUnusable(t) PROVE Inv'
  <2>1. TypeOK'
    <3>1. usable' \in BOOLEAN
      BY <1>EmitUnusable, Zenon DEF EmitUnusable
    <3> QED BY <3>1, <1>EmitUnusable DEF Inv, TypeOK, Labels, Inside, EmitUnusable
  <2>2. Mutex'
    BY <1>EmitUnusable DEF Inv, TypeOK, Mutex, Inside, Threads, EmitUnusable
  <2>3. Stage'
    BY <1>EmitUnusable DEF Inv, TypeOK, Mutex, Stage, Inside, Threads, EmitUnusable
  <2>4. SignalsAlternate'
    BY <1>EmitUnusable DEF Inv, TypeOK, Mutex, Stage, SignalsAlternate, Inside, Threads, EmitUnusable
  <2>5. Windows'
    BY <1>EmitUnusable DEF Inv, TypeOK, Stage, Windows, EmitUnusable
  <2>6. QED BY <2>1, <2>2, <2>3, <2>4, <2>5 DEF Inv
<1>CloseWindow. ASSUME NEW t \in Threads, CloseWindow(t) PROVE Inv'
  <2>1. TypeOK'
    <3>1. windowAllows' \in Nat
      BY <1>CloseWindow DEF Inv, TypeOK, Windows, Stage, CloseWindow, WindowTally
    <3> QED BY <3>1, <1>CloseWindow DEF Inv, TypeOK, Labels, Inside, CloseWindow
  <2>2. Mutex'
    BY <1>CloseWindow DEF Inv, TypeOK, Mutex, Inside, Threads, CloseWindow, WindowTally
  <2>3. Stage'
    BY <1>CloseWindow DEF Inv, TypeOK, Mutex, Stage, Inside, Threads, CloseWindow, WindowTally
  <2>4. SignalsAlternate'
    BY <1>CloseWindow DEF Inv, TypeOK, Mutex, Stage, SignalsAlternate, Inside, Threads, CloseWindow, WindowTally
  <2>5. Windows'
    BY <1>CloseWindow DEF Inv, TypeOK, Stage, Windows, CloseWindow, WindowTally
  <2>6. QED BY <2>1, <2>2, <2>3, <2>4, <2>5 DEF Inv
<1>EmitRecovered. ASSUME NEW t \in Threads, EmitRecovered(t) PROVE Inv'
  <2>1. TypeOK'
    BY <1>EmitRecovered DEF Inv, TypeOK, Threads, Labels, Inside, Verdicts, EmitRecovered
  <2>2. Mutex'
    BY <1>EmitRecovered DEF Inv, TypeOK, Mutex, Inside, Threads, EmitRecovered
  <2>3. Stage'
    BY <1>EmitRecovered DEF Inv, TypeOK, Mutex, Stage, Inside, Threads, EmitRecovered
  <2>4. SignalsAlternate'
    BY <1>EmitRecovered DEF Inv, TypeOK, Mutex, Stage, SignalsAlternate, Inside, Threads, EmitRecovered
  <2>5. Windows'
    BY <1>EmitRecovered DEF Inv, TypeOK, Stage, Windows, EmitRecovered
  <2>6. QED BY <2>1, <2>2, <2>3, <2>4, <2>5 DEF Inv
<1>MethodNotAllowed. ASSUME NEW r \in Reqs, MethodNotAllowed(r) PROVE Inv'
  <2>1. TypeOK'
    BY <1>MethodNotAllowed DEF Inv, TypeOK, Threads, Labels, Inside, Verdicts, MethodNotAllowed
  <2>2. Mutex'
    BY <1>MethodNotAllowed DEF Inv, TypeOK, Mutex, Inside, Threads, MethodNotAllowed
  <2>3. Stage'
    BY <1>MethodNotAllowed DEF Inv, TypeOK, Mutex, Stage, Inside, Threads, MethodNotAllowed
  <2>4. SignalsAlternate'
    BY <1>MethodNotAllowed DEF Inv, TypeOK, Mutex, Stage, SignalsAlternate, Inside, Threads, MethodNotAllowed
  <2>5. Windows'
    BY <1>MethodNotAllowed DEF Inv, TypeOK, Stage, Windows, MethodNotAllowed
  <2>6. QED BY <2>1, <2>2, <2>3, <2>4, <2>5 DEF Inv
<1>CheckCount. ASSUME NEW r \in Reqs, CheckCount(r) PROVE Inv'
  <2>1. TypeOK'
    BY <1>CheckCount DEF Inv, TypeOK, Threads, Labels, Inside, Verdicts, CheckCount
  <2>2. Mutex'
    BY <1>CheckCount DEF Inv, TypeOK, Mutex, Inside, Threads, CheckCount
  <2>3. Stage'
    BY <1>CheckCount DEF Inv, TypeOK, Mutex, Stage, Inside, Threads, CheckCount
  <2>4. SignalsAlternate'
    BY <1>CheckCount DEF Inv, TypeOK, Mutex, Stage, SignalsAlternate, Inside, Threads, CheckCount
  <2>5. Windows'
    BY <1>CheckCount DEF Inv, TypeOK, Stage, Windows, CheckCount
  <2>6. QED BY <2>1, <2>2, <2>3, <2>4, <2>5 DEF Inv
<1>CheckAllowAll. ASSUME NEW r \in Reqs, CheckAllowAll(r) PROVE Inv'
  <2>1. TypeOK'
    BY <1>CheckAllowAll DEF Inv, TypeOK, Threads, Labels, Inside, Verdicts, CheckAllowAll
  <2>2. Mutex'
    BY <1>CheckAllowAll DEF Inv, TypeOK, Mutex, Inside, Threads, CheckAllowAll
  <2>3. Stage'
    BY <1>CheckAllowAll DEF Inv, TypeOK, Mutex, Stage, Inside, Threads, CheckAllowAll
  <2>4. SignalsAlternate'
    BY <1>CheckAllowAll DEF Inv, TypeOK, Mutex, Stage, SignalsAlternate, Inside, Threads, CheckAllowAll
  <2>5. Windows'
    BY <1>CheckAllowAll DEF Inv, TypeOK, Stage, Windows, CheckAllowAll
  <2>6. QED BY <2>1, <2>2, <2>3, <2>4, <2>5 DEF Inv
<1>CheckDenyAll. ASSUME NEW r \in Reqs, CheckDenyAll(r) PROVE Inv'
  <2>1. TypeOK'
    BY <1>CheckDenyAll DEF Inv, TypeOK, Threads, Labels, Inside, Verdicts, CheckDenyAll
  <2>2. Mutex'
    BY <1>CheckDenyAll DEF Inv, TypeOK, Mutex, Inside, Threads, CheckDenyAll
  <2>3. Stage'
    BY <1>CheckDenyAll DEF Inv, TypeOK, Mutex, Stage, Inside, Threads, CheckDenyAll
  <2>4. SignalsAlternate'
    BY <1>CheckDenyAll DEF Inv, TypeOK, Mutex, Stage, SignalsAlternate, Inside, Threads, CheckDenyAll
  <2>5. Windows'
    BY <1>CheckDenyAll DEF Inv, TypeOK, Stage, Windows, CheckDenyAll
  <2>6. QED BY <2>1, <2>2, <2>3, <2>4, <2>5 DEF Inv
<1>CheckEnforce. ASSUME NEW r \in Reqs, CheckEnforce(r) PROVE Inv'
  <2>1. TypeOK'
    BY <1>CheckEnforce DEF Inv, TypeOK, Threads, Labels, Inside, Verdicts, CheckEnforce, Blocked
  <2>2. Mutex'
    BY <1>CheckEnforce DEF Inv, TypeOK, Mutex, Inside, Threads, CheckEnforce, Blocked
  <2>3. Stage'
    BY <1>CheckEnforce DEF Inv, TypeOK, Mutex, Stage, Inside, Threads, CheckEnforce, Blocked
  <2>4. SignalsAlternate'
    BY <1>CheckEnforce DEF Inv, TypeOK, Mutex, Stage, SignalsAlternate, Inside, Threads, CheckEnforce, Blocked
  <2>5. Windows'
    BY <1>CheckEnforce DEF Inv, TypeOK, Stage, Windows, CheckEnforce, Blocked
  <2>6. QED BY <2>1, <2>2, <2>3, <2>4, <2>5 DEF Inv
<1>Healthz. ASSUME NEW r \in Reqs, Healthz(r) PROVE Inv'
  <2>1. TypeOK'
    BY <1>Healthz DEF Inv, TypeOK, Threads, Labels, Verdicts, Usable, Healthz
  <2>2. Mutex'
    BY <1>Healthz DEF Inv, TypeOK, Mutex, Inside, Threads, Healthz
  <2>3. Stage'
    BY <1>Healthz DEF Inv, TypeOK, Mutex, Stage, Inside, Threads, Healthz
  <2>4. SignalsAlternate'
    BY <1>Healthz DEF Inv, TypeOK, Mutex, Stage, SignalsAlternate, Inside, Threads, Healthz
  <2>5. Windows'
    BY <1>Healthz DEF Inv, TypeOK, Stage, Windows, Healthz
  <2>6. QED BY <2>1, <2>2, <2>3, <2>4, <2>5 DEF Inv
<1>Arrive. ASSUME NEW r \in Reqs, NEW q \in Requests, Arrive(r, q) PROVE Inv'
  <2>1. TypeOK'
    BY <1>Arrive DEF Inv, TypeOK, Threads, Labels, Inside, Verdicts, Arrive
  <2>2. Mutex'
    BY <1>Arrive DEF Inv, TypeOK, Mutex, Inside, Threads, Arrive
  <2>3. Stage'
    BY <1>Arrive DEF Inv, TypeOK, Mutex, Stage, Inside, Threads, Arrive
  <2>4. SignalsAlternate'
    BY <1>Arrive DEF Inv, TypeOK, Mutex, Stage, SignalsAlternate, Inside, Threads, Arrive
  <2>5. Windows'
    BY <1>Arrive DEF Inv, TypeOK, Stage, Windows, Arrive
  <2>6. QED BY <2>1, <2>2, <2>3, <2>4, <2>5 DEF Inv
<1>Listen. ASSUME Listen PROVE Inv'
  <2>1. TypeOK'
    BY <1>Listen DEF Inv, TypeOK, Threads, Labels, Inside, Verdicts, Listen
  <2>2. Mutex'
    BY <1>Listen DEF Inv, TypeOK, Mutex, Inside, Threads, Listen
  <2>3. Stage'
    BY <1>Listen DEF Inv, TypeOK, Mutex, Stage, Inside, Threads, Listen
  <2>4. SignalsAlternate'
    BY <1>Listen DEF Inv, TypeOK, Mutex, Stage, SignalsAlternate, Inside, Threads, Listen
  <2>5. Windows'
    BY <1>Listen DEF Inv, TypeOK, Stage, Windows, Listen
  <2>6. QED BY <2>1, <2>2, <2>3, <2>4, <2>5 DEF Inv
<1>Tick. ASSUME Tick PROVE Inv'
  <2>1. TypeOK'
    BY <1>Tick DEF Inv, TypeOK, Threads, Labels, Inside, Verdicts, Tick
  <2>2. Mutex'
    BY <1>Tick DEF Inv, TypeOK, Mutex, Inside, Threads, Tick
  <2>3. Stage'
    BY <1>Tick DEF Inv, TypeOK, Mutex, Stage, Inside, Threads, Tick
  <2>4. SignalsAlternate'
    BY <1>Tick DEF Inv, TypeOK, Mutex, Stage, SignalsAlternate, Inside, Threads, Tick
  <2>5. Windows'
    BY <1>Tick DEF Inv, TypeOK, Stage, Windows, Tick
  <2>6. QED BY <2>1, <2>2, <2>3, <2>4, <2>5 DEF Inv
<1>HeartbeatObserved. ASSUME HeartbeatObserved PROVE Inv'
  <2>1. TypeOK'
    BY <1>HeartbeatObserved DEF Inv, TypeOK, Threads, Labels, Inside, Verdicts, HeartbeatObserved, Silent
  <2>2. Mutex'
    BY <1>HeartbeatObserved DEF Inv, TypeOK, Mutex, Inside, Threads, HeartbeatObserved, Silent
  <2>3. Stage'
    BY <1>HeartbeatObserved DEF Inv, TypeOK, Mutex, Stage, Inside, Threads, HeartbeatObserved, Silent
  <2>4. SignalsAlternate'
    BY <1>HeartbeatObserved DEF Inv, TypeOK, Mutex, Stage, SignalsAlternate, Inside, Threads, HeartbeatObserved, Silent
  <2>5. Windows'
    BY <1>HeartbeatObserved DEF Inv, TypeOK, Stage, Windows, HeartbeatObserved, Silent
  <2>6. QED BY <2>1, <2>2, <2>3, <2>4, <2>5 DEF Inv
<1>EmitHeartbeat. ASSUME EmitHeartbeat PROVE Inv'
  <2>1. TypeOK'
    BY <1>EmitHeartbeat DEF Inv, TypeOK, Threads, Labels, Inside, Verdicts, EmitHeartbeat
  <2>2. Mutex'
    BY <1>EmitHeartbeat DEF Inv, TypeOK, Mutex, Inside, Threads, EmitHeartbeat
  <2>3. Stage'
    BY <1>EmitHeartbeat DEF Inv, TypeOK, Mutex, Stage, Inside, Threads, EmitHeartbeat
  <2>4. SignalsAlternate'
    BY <1>EmitHeartbeat DEF Inv, TypeOK, Mutex, Stage, SignalsAlternate, Inside, Threads, EmitHeartbeat
  <2>5. Windows'
    BY <1>EmitHeartbeat DEF Inv, TypeOK, Stage, Windows, EmitHeartbeat
  <2>6. QED BY <2>1, <2>2, <2>3, <2>4, <2>5 DEF Inv
<1> QED
  BY <1>stutter, <1>Swap, <1>Lookup, <1>Latch, <1>Compare, <1>Lock, <1>OpenWindow, <1>ResetSinceHeartbeat, <1>EmitUnusable, <1>CloseWindow,
     <1>EmitRecovered, <1>MethodNotAllowed, <1>CheckCount, <1>CheckAllowAll, <1>CheckDenyAll, <1>CheckEnforce,
     <1>Healthz, <1>Arrive, <1>Listen, <1>Tick, <1>HeartbeatObserved, <1>EmitHeartbeat
  DEF Next, Observe, Handle, Beat

(* The tracker stays consistent for ever. *)
LEMMA AlwaysInv == Spec => []Inv
BY InitInv, NextInv, PTL DEF Spec

(* Types are preserved: in particular the difference emitRecovered logs    *)
(* never goes below zero, where the code's uint64 would wrap.              *)
THEOREM TypeCorrect == Spec => []TypeOK
<1>1. Inv => TypeOK
  BY DEF Inv
<1> QED BY <1>1, AlwaysInv, PTL

(* ERROR and INFO lines alternate however many goroutines observe the      *)
(* change at once: the re-check under mu suffices.                         *)
THEOREM SignalsAlways == Spec => []SignalsAlternate
<1>1. Inv => SignalsAlternate
  BY DEF Inv
<1> QED BY <1>1, AlwaysInv, PTL

(* No fail-open allow is reported by two recovery lines. *)
THEOREM WindowsAlways == Spec => []WindowsDisjoint
<1>1. Inv => WindowsDisjoint
  BY DEF Inv, TypeOK, Windows, WindowsDisjoint
<1> QED BY <1>1, AlwaysInv, PTL

----------------------------------------------------------------------------
(* A goroutine inside the critical section disagrees with the flag (Stage) *)
(* or with the active blocklist, so while all agree nobody is inside.      *)
LEMMA NextAgreed ==
    ASSUME Inv, [Next]_vars, Agreed, Usable(current') <=> Usable(current)
    PROVE  Agreed' /\ UNCHANGED <<unusableSignals, recoveredSignals>>
<1> DEFINE Observing == {"latch", "compare", "lock"} \cup Inside
           Unsignalled == UNCHANGED <<usable, unusableSignals, recoveredSignals>>
<1>1. ASSUME NEW t \in Threads PROVE pc[t] \notin Inside
  <2>1. pc[t] \in Inside => (Usable(snap[t]) <=> usable)
    BY DEF Agreed
  <2> QED BY <2>1 DEF Inv, Stage, Inside
<1>2. ASSUME Unsignalled, snap' = snap,
             \A t \in Threads : pc'[t] \in Observing => pc[t] \in Observing
      PROVE  Agreed' /\ Unsignalled
  BY <1>2 DEF Agreed
<1>3. ASSUME pc' = pc, Unsignalled, snap' = snap PROVE Agreed' /\ Unsignalled
  BY <1>2, <1>3
<1>Swap. ASSUME NEW l \in Tries, Swap(l) PROVE Agreed' /\ Unsignalled
  BY <1>3, <1>Swap DEF Swap
<1>stutter. CASE UNCHANGED vars
  BY <1>3, <1>stutter
<1>Lookup. ASSUME NEW t \in Threads, Lookup(t) PROVE Agreed' /\ Unsignalled
  <2>1. /\ current' = current /\ snap'[t] = current /\ Unsignalled
        /\ \A q \in Threads : q # t => snap'[q] = snap[q] /\ pc'[q] = pc[q]
    BY <1>Lookup DEF Lookup, Inv, TypeOK
  <2> QED BY <2>1 DEF Agreed
<1>Latch. ASSUME NEW t \in Threads, Latch(t) PROVE Agreed' /\ Unsignalled
  <2>1. Unsignalled /\ snap' = snap /\ pc[t] \in Observing
        /\ \A q \in Threads : q # t => pc'[q] = pc[q]
    BY <1>Latch DEF Latch, Inv, TypeOK
  <2> QED BY <1>2, <2>1
<1>Compare. ASSUME NEW t \in Threads, Compare(t) PROVE Agreed' /\ Unsignalled
  <2>1. Unsignalled /\ snap' = snap /\ pc[t] \in Observing
        /\ \A q \in Threads : q # t => pc'[q] = pc[q]
    BY <1>Compare DEF Compare, Inv, TypeOK
  <2> QED BY <1>2, <2>1
<1>Lock. ASSUME NEW t \in Threads, Lock(t) PROVE Agreed' /\ Unsignalled
  <2>1. Unsignalled /\ snap' = snap /\ pc[t] \in Observing
        /\ \A q \in Threads : q # t => pc'[q] = pc[q]
    BY <1>Lock DEF Lock, Inv, TypeOK
  <2> QED BY <1>2, <2>1
<1>Critical. ASSUME NEW t \in Threads,
                    \/ OpenWindow(t) \/ ResetSinceHeartbeat(t) \/ EmitUnusable(t)
                    \/ CloseWindow(t) \/ EmitRecovered(t)
             PROVE  FALSE
  BY <1>1, <1>Critical DEF OpenWindow, ResetSinceHeartbeat, EmitUnusable, CloseWindow,
     EmitRecovered, Inside
<1>Arrive. ASSUME NEW r \in Reqs, NEW q \in Requests, Arrive(r, q)
          PROVE  Agreed' /\ Unsignalled
  <2>1. Unsignalled /\ snap' = snap /\ pc' = [pc EXCEPT ![r] = "lookup"]
    BY <1>Arrive DEF Arrive
  <2>2. \A t \in Threads : pc'[t] \in Observing => pc[t] \in Observing
    BY <2>1 DEF Inv, TypeOK, Inside
  <2> QED BY <1>2, <2>1, <2>2
<1>Handle. ASSUME NEW r \in Reqs, Handle(r) PROVE Agreed' /\ Unsignalled
  <2>1. Unsignalled /\ snap' = snap
        /\ \E to \in {"done", "countBeat"} : pc' = [pc EXCEPT ![r] = to]
    BY <1>Handle DEF Handle, MethodNotAllowed, CheckCount, CheckAllowAll, CheckDenyAll,
       CheckEnforce, Healthz
  <2>2. \A t \in Threads : pc'[t] \in Observing => pc[t] \in Observing
    BY <2>1 DEF Inv, TypeOK, Inside
  <2> QED BY <1>2, <2>1, <2>2
<1>Beat. ASSUME Beat PROVE Agreed' /\ Unsignalled
  <2>1. Unsignalled /\ snap' = snap
        /\ \E to \in {"idle", "lookup", "beat"} : pc' = [pc EXCEPT ![Heartbeat] = to]
    BY <1>Beat DEF Beat, Listen, Tick, HeartbeatObserved, EmitHeartbeat
  <2>2. \A t \in Threads : pc'[t] \in Observing => pc[t] \in Observing
    BY <2>1 DEF Inv, TypeOK, Inside
  <2> QED BY <1>2, <2>1, <2>2
<1> QED
  BY <1>Swap, <1>stutter, <1>Lookup, <1>Latch, <1>Compare, <1>Lock, <1>Critical,
     <1>Arrive, <1>Handle, <1>Beat
  DEF Next, Observe

(* Once the tracker agrees with the active blocklist and no goroutine      *)
(* holds another, only a refresh that changes its usability is reported.   *)
THEOREM NeverFalseAlarm == Spec => NoFalseAlarm
<1>1. Inv /\ [Next]_vars =>
         [Agreed /\ (Usable(current') <=> Usable(current))
             => Agreed' /\ UNCHANGED <<unusableSignals, recoveredSignals>>]_vars
  BY NextAgreed
<1> QED BY <1>1, AlwaysInv, PTL DEF Spec, NoFalseAlarm

----------------------------------------------------------------------------
(* Every step preserves what is known of the requests under way. *)
LEMMA NextHandling == Inv /\ Handling /\ [Next]_vars => Handling'
<1> SUFFICES ASSUME Inv, Handling, [Next]_vars PROVE Handling'
  OBVIOUS
<1> USE HeartbeatAssumption, NoneAssumption
<1> USE DEF Inv, TypeOK, Handling, Threads, Verdicts
<1>stutter. CASE UNCHANGED vars
  BY <1>stutter
<1>Swap. ASSUME NEW t \in Tries, Swap(t) PROVE Handling'
  BY <1>Swap DEF Swap
<1>Lookup. ASSUME NEW t \in Threads, Lookup(t) PROVE Handling'
  BY <1>Lookup DEF Lookup
<1>Latch. ASSUME NEW t \in Threads, Latch(t) PROVE Handling'
  BY <1>Latch DEF Latch
<1>Compare. ASSUME NEW t \in Threads, Compare(t) PROVE Handling'
  BY <1>Compare DEF Compare
<1>Lock. ASSUME NEW t \in Threads, Lock(t) PROVE Handling'
  BY <1>Lock DEF Lock, StillPending
<1>OpenWindow. ASSUME NEW t \in Threads, OpenWindow(t) PROVE Handling'
  BY <1>OpenWindow DEF OpenWindow
<1>ResetSinceHeartbeat. ASSUME NEW t \in Threads, ResetSinceHeartbeat(t) PROVE Handling'
  BY <1>ResetSinceHeartbeat DEF ResetSinceHeartbeat
<1>EmitUnusable. ASSUME NEW t \in Threads, EmitUnusable(t) PROVE Handling'
  BY <1>EmitUnusable DEF EmitUnusable
<1>CloseWindow. ASSUME NEW t \in Threads, CloseWindow(t) PROVE Handling'
  BY <1>CloseWindow DEF CloseWindow, WindowTally
<1>EmitRecovered. ASSUME NEW t \in Threads, EmitRecovered(t) PROVE Handling'
  BY <1>EmitRecovered DEF EmitRecovered
<1>MethodNotAllowed. ASSUME NEW r \in Reqs, MethodNotAllowed(r) PROVE Handling'
  BY <1>MethodNotAllowed DEF MethodNotAllowed
<1>CheckCount. ASSUME NEW r \in Reqs, CheckCount(r) PROVE Handling'
  BY <1>CheckCount DEF CheckCount
<1>CheckAllowAll. ASSUME NEW r \in Reqs, CheckAllowAll(r) PROVE Handling'
  BY <1>CheckAllowAll DEF CheckAllowAll
<1>CheckDenyAll. ASSUME NEW r \in Reqs, CheckDenyAll(r) PROVE Handling'
  BY <1>CheckDenyAll DEF CheckDenyAll
<1>CheckEnforce. ASSUME NEW r \in Reqs, CheckEnforce(r) PROVE Handling'
  BY <1>CheckEnforce DEF CheckEnforce, Blocked
<1>Healthz. ASSUME NEW r \in Reqs, Healthz(r) PROVE Handling'
  BY <1>Healthz DEF Healthz
<1>Arrive. ASSUME NEW r \in Reqs, NEW q \in Requests, Arrive(r, q) PROVE Handling'
  BY <1>Arrive DEF Arrive
<1>Listen. ASSUME Listen PROVE Handling'
  BY <1>Listen DEF Listen
<1>Tick. ASSUME Tick PROVE Handling'
  BY <1>Tick DEF Tick
<1>HeartbeatObserved. ASSUME HeartbeatObserved PROVE Handling'
  BY <1>HeartbeatObserved DEF HeartbeatObserved, Silent
<1>EmitHeartbeat. ASSUME EmitHeartbeat PROVE Handling'
  BY <1>EmitHeartbeat DEF EmitHeartbeat
<1> QED
  BY <1>stutter, <1>Swap, <1>Lookup, <1>Latch, <1>Compare, <1>Lock, <1>OpenWindow, <1>ResetSinceHeartbeat, <1>EmitUnusable, <1>CloseWindow,
     <1>EmitRecovered, <1>MethodNotAllowed, <1>CheckCount, <1>CheckAllowAll, <1>CheckDenyAll, <1>CheckEnforce,
     <1>Healthz, <1>Arrive, <1>Listen, <1>Tick, <1>HeartbeatObserved, <1>EmitHeartbeat
  DEF Next, Observe, Handle, Beat

(* Before the first request, nothing has been gone through. *)
LEMMA InitHandling == Init => Handling
BY HeartbeatAssumption DEF Init, Handling, Threads

(* A request's label tells what it has gone through, at any time. *)
LEMMA AlwaysHandling == Spec => []Handling
BY InitHandling, NextHandling, AlwaysInv, PTL DEF Spec

----------------------------------------------------------------------------
(* Every step preserves the latch's debt to the requests. *)
LEMMA NextReady == Inv /\ Handling /\ Ready /\ [Next]_vars => Ready'
<1> SUFFICES ASSUME Inv, Handling, Ready, [Next]_vars PROVE Ready'
  OBVIOUS
<1> USE HeartbeatAssumption
<1> USE DEF Inv, TypeOK, Handling, Ready, Threads
<1>stutter. CASE UNCHANGED vars
  BY <1>stutter
<1>Swap. ASSUME NEW t \in Tries, Swap(t) PROVE Ready'
  BY <1>Swap DEF Swap
<1>Lookup. ASSUME NEW t \in Threads, Lookup(t) PROVE Ready'
  BY <1>Lookup DEF Lookup
<1>Latch. ASSUME NEW t \in Threads, Latch(t) PROVE Ready'
  BY <1>Latch DEF Latch
<1>Compare. ASSUME NEW t \in Threads, Compare(t) PROVE Ready'
  BY <1>Compare DEF Compare
<1>Lock. ASSUME NEW t \in Threads, Lock(t) PROVE Ready'
  BY <1>Lock DEF Lock
<1>OpenWindow. ASSUME NEW t \in Threads, OpenWindow(t) PROVE Ready'
  BY <1>OpenWindow DEF OpenWindow
<1>ResetSinceHeartbeat. ASSUME NEW t \in Threads, ResetSinceHeartbeat(t) PROVE Ready'
  BY <1>ResetSinceHeartbeat DEF ResetSinceHeartbeat
<1>EmitUnusable. ASSUME NEW t \in Threads, EmitUnusable(t) PROVE Ready'
  BY <1>EmitUnusable DEF EmitUnusable
<1>CloseWindow. ASSUME NEW t \in Threads, CloseWindow(t) PROVE Ready'
  BY <1>CloseWindow DEF CloseWindow
<1>EmitRecovered. ASSUME NEW t \in Threads, EmitRecovered(t) PROVE Ready'
  BY <1>EmitRecovered DEF EmitRecovered
<1>MethodNotAllowed. ASSUME NEW r \in Reqs, MethodNotAllowed(r) PROVE Ready'
  BY <1>MethodNotAllowed DEF MethodNotAllowed
<1>CheckCount. ASSUME NEW r \in Reqs, CheckCount(r) PROVE Ready'
  BY <1>CheckCount DEF CheckCount
<1>CheckAllowAll. ASSUME NEW r \in Reqs, CheckAllowAll(r) PROVE Ready'
  BY <1>CheckAllowAll DEF CheckAllowAll
<1>CheckDenyAll. ASSUME NEW r \in Reqs, CheckDenyAll(r) PROVE Ready'
  BY <1>CheckDenyAll DEF CheckDenyAll
<1>CheckEnforce. ASSUME NEW r \in Reqs, CheckEnforce(r) PROVE Ready'
  BY <1>CheckEnforce DEF CheckEnforce
<1>Healthz. ASSUME NEW r \in Reqs, Healthz(r) PROVE Ready'
  BY <1>Healthz DEF Healthz
<1>Arrive. ASSUME NEW r \in Reqs, NEW q \in Requests, Arrive(r, q) PROVE Ready'
  BY <1>Arrive DEF Arrive
<1>Listen. ASSUME Listen PROVE Ready'
  BY <1>Listen DEF Listen
<1>Tick. ASSUME Tick PROVE Ready'
  BY <1>Tick DEF Tick
<1>HeartbeatObserved. ASSUME HeartbeatObserved PROVE Ready'
  BY <1>HeartbeatObserved DEF HeartbeatObserved
<1>EmitHeartbeat. ASSUME EmitHeartbeat PROVE Ready'
  BY <1>EmitHeartbeat DEF EmitHeartbeat
<1> QED
  BY <1>stutter, <1>Swap, <1>Lookup, <1>Latch, <1>Compare, <1>Lock, <1>OpenWindow, <1>ResetSinceHeartbeat, <1>EmitUnusable, <1>CloseWindow,
     <1>EmitRecovered, <1>MethodNotAllowed, <1>CheckCount, <1>CheckAllowAll, <1>CheckDenyAll, <1>CheckEnforce,
     <1>Healthz, <1>Arrive, <1>Listen, <1>Tick, <1>HeartbeatObserved, <1>EmitHeartbeat
  DEF Next, Observe, Handle, Beat

(* The latch is set before any request is past observe's first store. *)
LEMMA AlwaysReady == Spec => []Ready
<1>1. Init => Ready
  BY HeartbeatAssumption DEF Init, Ready, Threads
<1> QED BY <1>1, NextReady, AlwaysInv, AlwaysHandling, PTL DEF Spec

(* A report of ever_ready false precedes every answer from a usable        *)
(* blocklist, on a warm start as on a cold one.                            *)
THEOREM EverReadyAlways == Spec => EverReadyNeverTakenBack
<1>1. ASSUME Inv, Handling, Ready, [Next]_vars,
             NEW t \in Threads, toldReady'[t] = FALSE, toldReady[t] # FALSE,
             NEW r \in Reqs, Enforced(r)
      PROVE  FALSE
  <2>1. everReady
    BY <1>1 DEF Handling, Ready, Enforced
  <2>2. ASSUME NEW s \in Reqs, Healthz(s) PROVE toldReady'[t] \in {toldReady[t], TRUE}
    BY <2>1, <2>2, <1>1 DEF Healthz, Inv, TypeOK
  <2>3. ASSUME Tick PROVE toldReady'[t] \in {toldReady[t], None}
    BY <2>3, <1>1 DEF Tick, Inv, TypeOK
  <2>4. ASSUME HeartbeatObserved PROVE toldReady'[t] \in {toldReady[t], TRUE}
    BY <2>1, <2>4, <1>1 DEF HeartbeatObserved, Inv, TypeOK
  <2>5. \/ UNCHANGED toldReady \/ Tick \/ HeartbeatObserved
        \/ \E s \in Reqs : Healthz(s)
    BY <1>1 DEF Next, Observe, Handle, Beat, Swap, Lookup, Latch, Compare, Lock,
        OpenWindow, ResetSinceHeartbeat, EmitUnusable, CloseWindow, EmitRecovered,
        MethodNotAllowed, CheckCount, CheckAllowAll, CheckDenyAll, CheckEnforce,
        Arrive, Listen, EmitHeartbeat
  <2>6. toldReady'[t] \in {toldReady[t], TRUE, None}
    BY <2>2, <2>3, <2>4, <2>5
  <2> QED BY <1>1, <2>6, NoneAssumption
<1>2. Inv /\ Handling /\ Ready /\ [Next]_vars =>
        [\A t \in Threads : toldReady'[t] = FALSE /\ toldReady[t] # FALSE
            => ~ \E r \in Reqs : Enforced(r)]_vars
  BY <1>1
<1> QED BY <1>2, AlwaysInv, AlwaysHandling, AlwaysReady, PTL
        DEF Spec, EverReadyNeverTakenBack

----------------------------------------------------------------------------
(* Every step preserves the counters' debt to the requests. *)
LEMMA NextBeats == Inv /\ Beats /\ [Next]_vars => Beats'
<1> SUFFICES ASSUME Inv, Beats, [Next]_vars PROVE Beats'
  OBVIOUS
<1> USE HeartbeatAssumption DEF Inv, TypeOK, Threads
<1>0. Cardinality(Counting) \in Nat
  BY FS_CardinalityType DEF Beats
<1>stutter. CASE UNCHANGED vars
  BY <1>stutter DEF Beats, Counting
<1>Swap. ASSUME NEW t \in Tries, Swap(t) PROVE Beats'
  BY <1>Swap DEF Swap, Beats, Counting
<1>Lookup. ASSUME NEW t \in Threads, Lookup(t) PROVE Beats'
  <2>1. Counting' = Counting
    BY <1>Lookup DEF Lookup, Counting
  <2> QED BY <1>Lookup, <1>0, <2>1 DEF Lookup, Beats
<1>Latch. ASSUME NEW t \in Threads, Latch(t) PROVE Beats'
  <2>1. Counting' = Counting
    BY <1>Latch DEF Latch, Counting
  <2> QED BY <1>Latch, <1>0, <2>1 DEF Latch, Beats
<1>Compare. ASSUME NEW t \in Threads, Compare(t) PROVE Beats'
  <2>1. Counting' = Counting
    BY <1>Compare DEF Compare, Counting
  <2> QED BY <1>Compare, <1>0, <2>1 DEF Compare, Beats
<1>Lock. ASSUME NEW t \in Threads, Lock(t) PROVE Beats'
  <2>1. Counting' = Counting
    BY <1>Lock DEF Lock, Counting
  <2> QED BY <1>Lock, <1>0, <2>1 DEF Lock, Beats
<1>OpenWindow. ASSUME NEW t \in Threads, OpenWindow(t) PROVE Beats'
  <2>1. Counting' = Counting
    BY <1>OpenWindow DEF OpenWindow, Counting
  <2> QED BY <1>OpenWindow, <1>0, <2>1 DEF OpenWindow, Beats
<1>ResetSinceHeartbeat. ASSUME NEW t \in Threads, ResetSinceHeartbeat(t) PROVE Beats'
  <2>1. Counting' = Counting
    BY <1>ResetSinceHeartbeat DEF ResetSinceHeartbeat, Counting
  <2> QED BY <1>ResetSinceHeartbeat, <1>0, <2>1 DEF ResetSinceHeartbeat, Beats
<1>EmitUnusable. ASSUME NEW t \in Threads, EmitUnusable(t) PROVE Beats'
  <2>1. Counting' = Counting
    BY <1>EmitUnusable DEF EmitUnusable, Counting
  <2> QED BY <1>EmitUnusable, <1>0, <2>1 DEF EmitUnusable, Beats
<1>CloseWindow. ASSUME NEW t \in Threads, CloseWindow(t) PROVE Beats'
  <2>1. Counting' = Counting
    BY <1>CloseWindow DEF CloseWindow, Counting
  <2> QED BY <1>CloseWindow, <1>0, <2>1 DEF CloseWindow, Beats
<1>EmitRecovered. ASSUME NEW t \in Threads, EmitRecovered(t) PROVE Beats'
  <2>1. Counting' = Counting
    BY <1>EmitRecovered DEF EmitRecovered, Counting
  <2> QED BY <1>EmitRecovered, <1>0, <2>1 DEF EmitRecovered, Beats
<1>MethodNotAllowed. ASSUME NEW r \in Reqs, MethodNotAllowed(r) PROVE Beats'
  <2>1. Counting' = Counting
    BY <1>MethodNotAllowed DEF MethodNotAllowed, Counting
  <2> QED BY <1>MethodNotAllowed, <1>0, <2>1 DEF MethodNotAllowed, Beats
<1>CheckCount. ASSUME NEW r \in Reqs, CheckCount(r) PROVE Beats'
  <2>1. Counting' = Counting \cup {r} /\ r \notin Counting
    BY <1>CheckCount DEF CheckCount, Counting
  <2>2. IsFiniteSet(Counting') /\ Cardinality(Counting') = Cardinality(Counting) + 1
    BY <2>1, FS_AddElement DEF Beats
  <2> QED BY <1>CheckCount, <1>0, <2>2 DEF CheckCount, Beats
<1>CheckAllowAll. ASSUME NEW r \in Reqs, CheckAllowAll(r) PROVE Beats'
  <2>1. Counting' = Counting \ {r} /\ r \in Counting
    BY <1>CheckAllowAll DEF CheckAllowAll, Counting
  <2>2. IsFiniteSet(Counting') /\ Cardinality(Counting') = Cardinality(Counting) - 1
    BY <2>1, FS_RemoveElement DEF Beats
  <2> QED BY <1>CheckAllowAll, <1>0, <2>2 DEF CheckAllowAll, Beats
<1>CheckDenyAll. ASSUME NEW r \in Reqs, CheckDenyAll(r) PROVE Beats'
  <2>1. Counting' = Counting
    BY <1>CheckDenyAll DEF CheckDenyAll, Counting
  <2> QED BY <1>CheckDenyAll, <1>0, <2>1 DEF CheckDenyAll, Beats
<1>CheckEnforce. ASSUME NEW r \in Reqs, CheckEnforce(r) PROVE Beats'
  <2>1. Counting' = Counting
    BY <1>CheckEnforce DEF CheckEnforce, Counting
  <2> QED BY <1>CheckEnforce, <1>0, <2>1 DEF CheckEnforce, Beats
<1>Healthz. ASSUME NEW r \in Reqs, Healthz(r) PROVE Beats'
  <2>1. Counting' = Counting
    BY <1>Healthz DEF Healthz, Counting
  <2> QED BY <1>Healthz, <1>0, <2>1 DEF Healthz, Beats
<1>Arrive. ASSUME NEW r \in Reqs, NEW q \in Requests, Arrive(r, q) PROVE Beats'
  <2>1. Counting' = Counting
    BY <1>Arrive DEF Arrive, Counting
  <2> QED BY <1>Arrive, <1>0, <2>1 DEF Arrive, Beats
<1>Listen. ASSUME Listen PROVE Beats'
  <2>1. Counting' = Counting
    BY <1>Listen DEF Listen, Counting
  <2> QED BY <1>Listen, <1>0, <2>1 DEF Listen, Beats
<1>Tick. ASSUME Tick PROVE Beats'
  <2>1. Counting' = Counting
    BY <1>Tick DEF Tick, Counting
  <2> QED BY <1>Tick, <1>0, <2>1 DEF Tick, Beats
<1>HeartbeatObserved. ASSUME HeartbeatObserved PROVE Beats'
  <2>1. Counting' = Counting
    BY <1>HeartbeatObserved DEF HeartbeatObserved, Counting
  <2> QED BY <1>HeartbeatObserved, <1>0, <2>1 DEF HeartbeatObserved, Beats
<1>EmitHeartbeat. ASSUME EmitHeartbeat PROVE Beats'
  <2>1. Counting' = Counting
    BY <1>EmitHeartbeat DEF EmitHeartbeat, Counting
  <2> QED BY <1>EmitHeartbeat, <1>0, <2>1 DEF EmitHeartbeat, Beats
<1> QED
  BY <1>stutter, <1>Swap, <1>Lookup, <1>Latch, <1>Compare, <1>Lock, <1>OpenWindow, <1>ResetSinceHeartbeat, <1>EmitUnusable, <1>CloseWindow,
     <1>EmitRecovered, <1>MethodNotAllowed, <1>CheckCount, <1>CheckAllowAll, <1>CheckDenyAll, <1>CheckEnforce,
     <1>Healthz, <1>Arrive, <1>Listen, <1>Tick, <1>HeartbeatObserved, <1>EmitHeartbeat
  DEF Next, Observe, Handle, Beat

(* No fail-open allow is reported by two heartbeats, and none before it is *)
(* in the total.                                                           *)
THEOREM BeatsAlways == Spec => []BeatsDisjoint
<1>1. Init => Beats
  <2> SUFFICES ASSUME Init PROVE Beats
    OBVIOUS
  <2>1. Counting = {}
    BY HeartbeatAssumption DEF Init, Counting, Threads
  <2> QED BY <2>1, FS_EmptySet DEF Init, Beats
<1>2. Inv /\ Beats => BeatsDisjoint
  BY FS_CardinalityType DEF Inv, TypeOK, Beats, BeatsDisjoint
<1> QED BY <1>1, <1>2, NextBeats, AlwaysInv, PTL DEF Spec

----------------------------------------------------------------------------
(* Each step of the server is a step of ForwardAuth or leaves it alone. *)
LEMMA NextRefines == Inv /\ Handling /\ [Next]_vars => [FA!Next]_FA!vars
<1> SUFFICES ASSUME Inv, Handling, [Next]_vars PROVE [FA!Next]_FA!vars
  OBVIOUS
<1> USE HeartbeatAssumption, NoneAssumption
<1> USE DEF Inv, TypeOK, Threads, FA!vars
<1>stutter. CASE UNCHANGED vars
  BY <1>stutter
<1>Swap. ASSUME NEW t \in Tries, Swap(t) PROVE FA!Next
  BY <1>Swap DEF Swap, FA!Next, FA!Swap
<1>Lookup. ASSUME NEW t \in Threads, Lookup(t) PROVE [FA!Next]_FA!vars
  <2>1. CASE t \in Reqs
    <3>1. FA!Choose(t)
      BY <1>Lookup, <2>1 DEF Lookup, Handling, FA!Choose
    <3> QED BY <2>1, <3>1 DEF FA!Next
  <2>2. CASE t = Heartbeat
    BY <1>Lookup, <2>2 DEF Lookup
  <2> QED BY <2>1, <2>2
<1>Latch. ASSUME NEW t \in Threads, Latch(t) PROVE UNCHANGED FA!vars
  BY <1>Latch DEF Latch
<1>Compare. ASSUME NEW t \in Threads, Compare(t) PROVE UNCHANGED FA!vars
  BY <1>Compare DEF Compare
<1>Lock. ASSUME NEW t \in Threads, Lock(t) PROVE UNCHANGED FA!vars
  BY <1>Lock DEF Lock
<1>OpenWindow. ASSUME NEW t \in Threads, OpenWindow(t) PROVE UNCHANGED FA!vars
  BY <1>OpenWindow DEF OpenWindow
<1>ResetSinceHeartbeat. ASSUME NEW t \in Threads, ResetSinceHeartbeat(t) PROVE UNCHANGED FA!vars
  BY <1>ResetSinceHeartbeat DEF ResetSinceHeartbeat
<1>EmitUnusable. ASSUME NEW t \in Threads, EmitUnusable(t) PROVE UNCHANGED FA!vars
  BY <1>EmitUnusable DEF EmitUnusable
<1>CloseWindow. ASSUME NEW t \in Threads, CloseWindow(t) PROVE UNCHANGED FA!vars
  BY <1>CloseWindow DEF CloseWindow
<1>EmitRecovered. ASSUME NEW t \in Threads, EmitRecovered(t) PROVE UNCHANGED FA!vars
  BY <1>EmitRecovered DEF EmitRecovered
<1>MethodNotAllowed. ASSUME NEW r \in Reqs, MethodNotAllowed(r) PROVE FA!Next
  <2>1. FA!Reject(r)
    BY <1>MethodNotAllowed DEF MethodNotAllowed, Handling, FA!Reject
  <2> QED BY <2>1 DEF FA!Next
<1>CheckCount. ASSUME NEW r \in Reqs, CheckCount(r) PROVE UNCHANGED FA!vars
  BY <1>CheckCount DEF CheckCount
<1>CheckAllowAll. ASSUME NEW r \in Reqs, CheckAllowAll(r) PROVE FA!Next
  <2>1. FA!Respond(r)
    BY <1>CheckAllowAll DEF CheckAllowAll, Handling, FA!Respond, FA!Verdict, FA!CheckVerdict, FA!HealthzVerdict, FA!Usable, FA!FailOpen, Usable, FailOpen
  <2> QED BY <2>1 DEF FA!Next
<1>CheckDenyAll. ASSUME NEW r \in Reqs, CheckDenyAll(r) PROVE FA!Next
  <2>1. FA!Respond(r)
    BY <1>CheckDenyAll DEF CheckDenyAll, Handling, FA!Respond, FA!Verdict, FA!CheckVerdict, FA!HealthzVerdict, FA!Usable, FA!FailOpen, Usable, FailOpen
  <2> QED BY <2>1 DEF FA!Next
<1>CheckEnforce. ASSUME NEW r \in Reqs, CheckEnforce(r) PROVE FA!Next
  <2>1. FA!Respond(r)
    BY <1>CheckEnforce DEF CheckEnforce, Blocked, Handling, FA!Respond, FA!Verdict, FA!CheckVerdict, FA!HealthzVerdict, FA!Usable, FA!FailOpen, Usable, FailOpen
  <2> QED BY <2>1 DEF FA!Next
<1>Healthz. ASSUME NEW r \in Reqs, Healthz(r) PROVE FA!Next
  <2>1. FA!Respond(r)
    BY <1>Healthz DEF Healthz, Handling, FA!Respond, FA!Verdict, FA!CheckVerdict, FA!HealthzVerdict, FA!Usable, FA!FailOpen, Usable, FailOpen
  <2> QED BY <2>1 DEF FA!Next
<1>Arrive. ASSUME NEW r \in Reqs, NEW q \in Requests, Arrive(r, q) PROVE FA!Next
  <2>1. FA!Arrive(r, q)
    BY <1>Arrive DEF Arrive, Handling, FA!Arrive
  <2> QED BY <2>1 DEF FA!Next, FA!Requests, Requests
<1>Listen. ASSUME Listen PROVE UNCHANGED FA!vars
  BY <1>Listen DEF Listen
<1>Tick. ASSUME Tick PROVE UNCHANGED FA!vars
  BY <1>Tick DEF Tick
<1>HeartbeatObserved. ASSUME HeartbeatObserved PROVE UNCHANGED FA!vars
  BY <1>HeartbeatObserved DEF HeartbeatObserved
<1>EmitHeartbeat. ASSUME EmitHeartbeat PROVE UNCHANGED FA!vars
  BY <1>EmitHeartbeat DEF EmitHeartbeat
<1> QED
  BY <1>stutter, <1>Swap, <1>Lookup, <1>Latch, <1>Compare, <1>Lock, <1>OpenWindow, <1>ResetSinceHeartbeat, <1>EmitUnusable, <1>CloseWindow,
     <1>EmitRecovered, <1>MethodNotAllowed, <1>CheckCount, <1>CheckAllowAll, <1>CheckDenyAll, <1>CheckEnforce,
     <1>Healthz, <1>Arrive, <1>Listen, <1>Tick, <1>HeartbeatObserved, <1>EmitHeartbeat
  DEF Next, Observe, Handle, Beat

(* Every answer is the one ForwardAuth's single blocklist gives, whatever  *)
(* the tracker, its lock and the other goroutines do.                      *)
THEOREM AnswersAlways == Spec => Answers
<1>1. Init => FA!Init
  BY DEF Init, FA!Init, Threads
<1> QED BY <1>1, NextRefines, AlwaysInv, AlwaysHandling, PTL
        DEF Spec, Answers, FA!Spec
============================================================================
