------------------------------ MODULE Decision ------------------------------
(***************************************************************************)
(* The vocabulary shared by what the HTTP surface promises (ForwardAuth)   *)
(* and how the server does it (Readiness): requests, blocklists, and the   *)
(* readiness predicate.                                                    *)
(*                                                                         *)
(* A trie is abstracted to the set of client addresses it covers.  Len()   *)
(* is then zero exactly for the empty set, which is all the server asks of *)
(* it besides Contains.                                                    *)
(***************************************************************************)
CONSTANTS
    Reqs,         \* one net/http goroutine per request
    Addrs,        \* client addresses that parse
    Unparseable,  \* a request with no usable X-Real-IP or X-Forwarded-For
    NoTrie,       \* Source.Current() before the first Swap: nil
    Tries,        \* the tries a refresh or the disk cache may publish
    StartupMode,  \* behavior.startup_mode
    None          \* no value yet

ASSUME TriesAssumption == /\ Tries \subseteq SUBSET Addrs
                          /\ NoTrie \notin Tries
                          /\ Unparseable \notin Addrs

ASSUME ModeAssumption == StartupMode \in {"fail-open", "fail-closed"}

(* Only a GET of /check looks at the client's address. *)
Requests == [op : {"check"}, addr : Addrs \cup {Unparseable}]
            \cup [op : {"healthz", "otherMethod"}, addr : {Unparseable}]

Verdicts == {"allow", "block", "ok", "empty", "405"}

ASSUME NoneAssumption ==
    None \notin Requests \cup Verdicts \cup {NoTrie} \cup Tries \cup BOOLEAN

(* usable(l): a trie is published and it matched something. *)
Usable(l) == l # NoTrie /\ l # {}

FailOpen == StartupMode = "fail-open"
=============================================================================
