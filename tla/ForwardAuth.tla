---------------------------- MODULE ForwardAuth ----------------------------
(***************************************************************************)
(* What bitblocker's HTTP surface promises its callers, without the        *)
(* readiness tracker, its lock, its counters or its goroutines: every      *)
(* request is answered, in full, from the one blocklist that was active at *)
(* one instant between its arrival and its answer.                         *)
(***************************************************************************)
EXTENDS Decision

(* The forwardAuth decision: startup_mode governs a missing blocklist only, *)
(* an unparseable address is refused under both modes.                      *)
CheckVerdict(l, a) ==
    IF ~Usable(l) THEN IF FailOpen THEN "allow" ELSE "block"
    ELSE IF a = Unparseable \/ a \in l THEN "block" ELSE "allow"

HealthzVerdict(l) == IF Usable(l) THEN "ok" ELSE "empty"

Verdict(q, l) == IF q.op = "check" THEN CheckVerdict(l, q.addr)
                                  ELSE HealthzVerdict(l)

VARIABLES
    current,   \* the active blocklist
    request,   \* what each request asks, None before it arrives
    against,   \* the blocklist it is answered from, None until chosen
    response   \* what its caller has been told

vars == <<current, request, against, response>>

Init == /\ current \in {NoTrie} \cup Tries
        /\ request  = [r \in Reqs |-> None]
        /\ against  = [r \in Reqs |-> None]
        /\ response = [r \in Reqs |-> None]

Swap(t) == /\ current' = t
           /\ UNCHANGED <<request, against, response>>

Arrive(r, q) == /\ request[r] = None
                /\ request' = [request EXCEPT ![r] = q]
                /\ UNCHANGED <<current, against, response>>

(* The instant the request is answered at. *)
Choose(r) == /\ request[r] # None
             /\ request[r].op # "otherMethod"
             /\ against[r] = None
             /\ against' = [against EXCEPT ![r] = current]
             /\ UNCHANGED <<current, request, response>>

Respond(r) == /\ against[r] # None
              /\ response[r] = None
              /\ response' = [response EXCEPT ![r] = Verdict(request[r], against[r])]
              /\ UNCHANGED <<current, request, against>>

(* A method other than GET is refused without consulting the blocklist. *)
Reject(r) == /\ request[r] # None
             /\ request[r].op = "otherMethod"
             /\ response[r] = None
             /\ response' = [response EXCEPT ![r] = "405"]
             /\ UNCHANGED <<current, request, against>>

Next == \/ \E t \in Tries : Swap(t)
        \/ \E r \in Reqs : \/ \E q \in Requests : Arrive(r, q)
                           \/ Choose(r)
                           \/ Respond(r)
                           \/ Reject(r)

Spec == Init /\ [][Next]_vars
============================================================================
