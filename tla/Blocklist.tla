----------------------------- MODULE Blocklist -----------------------------
(***************************************************************************)
(* From an MMDB file and a request's headers to a verdict: the loader that *)
(* builds a prefix trie, the pointer that publishes it, and the requests   *)
(* that extract a client address and walk a trie while the next one is     *)
(* being built.                                                            *)
(*                                                                         *)
(* Tries live in a heap and are known by reference, so that a trie changed *)
(* under its readers' feet would be seen.  A node is named by the path     *)
(* that leads to it.  Addresses have W4 and W6 bits instead of 32 and 128. *)
(***************************************************************************)
EXTENDS Integers, FiniteSets, Sequences

CONSTANTS
    W4, W6,       \* bits of an IPv4 and of an IPv6 address
    MappedTop,    \* the leading bits of the IPv4-mapped block, ::ffff:0:0/96
    Databases,    \* the MMDB files to load: sets of networks with a country
    Countries,    \* block.countries
    MaxLoads,     \* bound on the loads begun
    Reqs,         \* one net/http goroutine per request
    Headers,      \* what requests carry: X-Real-IP, X-Forwarded-For
    Blank, Junk,  \* a header value, or list element, that is empty; malformed
    Unparseable,  \* a request with no usable address
    NoTrie,       \* Source.Current() before the first Swap: nil
    StartupMode,  \* behavior.startup_mode
    None          \* no value yet

Bit == {0, 1}
Top == 0..(W6 - W4 - 1)

V4 == [fam : {"v4"}, bits : [0..(W4 - 1) -> Bit]]
V6 == [fam : {"v6"}, bits : [0..(W6 - 1) -> Bit]]

MaxBits(a) == IF a.fam = "v4" THEN W4 ELSE W6

(* ::/96 and ::ffff:0:0/96 differ, and an IPv6-framed length of a mapped   *)
(* prefix is longer than any IPv4 one.                                     *)
ASSUME WidthAssumption == /\ W4 \in Nat \ {0}
                          /\ W6 \in Nat
                          /\ W6 - W4 > W4
                          /\ MappedTop \in [Top -> Bit]
                          /\ MappedTop[W6 - W4 - 1] = 1

(* netip.Addr.Is4In6, Unmap, and netip.Prefix.Masked. *)
Is4In6(a) == a.fam = "v6" /\ \A k \in Top : a.bits[k] = MappedTop[k]

Unmap(a) == IF Is4In6(a)
            THEN [fam |-> "v4", bits |-> [k \in 0..(W4 - 1) |-> a.bits[W6 - W4 + k]]]
            ELSE a

Masked(a, n) == [fam  |-> a.fam,
                 bits |-> [k \in 0..(MaxBits(a) - 1) |-> IF k < n THEN a.bits[k] ELSE 0]]

(* Addresses in the form Contains looks them up in. *)
Addrs == {a \in V4 \cup V6 : ~Is4In6(a)}

Prefixes == {p \in [addr : V4 \cup V6, bits : 0..W6] : p.bits <= MaxBits(p.addr)}

(* The node n bits down the path of a. *)
Node(a, n) == [fam |-> a.fam, path |-> [k \in 0..(n - 1) |-> a.bits[k]]]

Nodes == {Node(p.addr, p.bits) : p \in Prefixes}

ASSUME DatabasesAssumption ==
    \A db \in Databases : \A rec \in db : rec.net \in Prefixes

(* A mapped prefix covers no address in the form it is looked up in. *)
Mapped(p) == W6 - W4 <= p.bits /\ Is4In6(p.addr)
Blocked(db) == {rec.net : rec \in {x \in db : x.country \in Countries}}

Covers(p, a) == p.addr.fam = a.fam /\ \A k \in 0..(p.bits - 1) : p.addr.bits[k] = a.bits[k]

(* What a database should block, whatever the order of its networks. *)
CoveredBy(db) == {a \in Addrs : \E p \in Blocked(db) : Covers(p, a)}
Contents == {CoveredBy(db) : db \in Databases}

ASSUME HeadersAssumption ==
    \A h \in Headers : /\ h.real \in V4 \cup V6 \cup {Blank, Junk}
                       /\ h.xff \in Seq(V4 \cup V6 \cup {Blank, Junk})

ASSUME LoadsAssumption == MaxLoads \in Nat

ASSUME NoneAssumption ==
    /\ None \notin Addrs /\ None \notin [addr : Addrs, bits : 0..W6]
    /\ None \notin Headers /\ None \notin {"allow", "block"}
    /\ None \notin [op : {"check"}, addr : Addrs \cup {Unparseable}]
    /\ None \notin Contents \cup {NoTrie}

ASSUME AbsentAssumption == NoTrie \notin Contents /\ Unparseable \notin Addrs

ASSUME ModeAssumption == StartupMode \in {"fail-open", "fail-closed"}

VARIABLES
    trie,      \* the heap: each trie's nodes, terminal nodes and count
    current,   \* Source.current: a reference, or 0 for nil
    loads,     \* loads begun so far
    building,  \* LoadCountryBlocklist: the trie it builds, 0 outside
    file,      \* the database it reads
    left,      \* the networks it has not visited
    net,       \* Insert: the masked and unmapped prefix, None outside
    depth,     \* how far down that prefix's path it is
    pc,        \* where each request is
    header,    \* what it carries
    snap,      \* the trie it looked up
    client,    \* the address extractClientIP returned
    i,         \* the index of its loop: over X-Forwarded-For, then over bits
    response   \* what its caller was told

source  == <<trie, current, loads>>
loader  == <<building, file, left, net, depth>>
request == <<pc, header, snap, client, i, response>>
vars    == <<source, loader, request>>

EmptyTrie == [nodes |-> {}, terminal |-> {}, count |-> 0]

Init ==
    /\ trie = [t \in 1..MaxLoads |-> EmptyTrie]
    /\ current = 0 /\ loads = 0
    /\ building = 0 /\ file = {} /\ left = {} /\ net = None /\ depth = 0
    /\ pc = [r \in Reqs |-> "idle"]
    /\ header = [r \in Reqs |-> None]
    /\ snap = [r \in Reqs |-> 0]
    /\ client = [r \in Reqs |-> None]
    /\ i = [r \in Reqs |-> 0]
    /\ response = [r \in Reqs |-> None]

----------------------------------------------------------------------------
(* LoadCountryBlocklist, one load at a time, and the Swap that follows it. *)

\* Mutant of BeginLoad: the published trie is brought up to date in place.
BeginLoadInPlace(db) ==
    /\ building = 0 /\ loads < MaxLoads
    /\ loads' = loads + 1
    /\ building' = IF current = 0 THEN loads + 1 ELSE current
    /\ file' = db /\ left' = db
    /\ UNCHANGED <<trie, current, net, depth, request>>

(* blocklist.New() and reader.Networks(). *)
BeginLoad(db) ==
    /\ building = 0 /\ loads < MaxLoads
    /\ loads' = loads + 1
    /\ building' = loads + 1
    /\ file' = db /\ left' = db
    /\ UNCHANGED <<trie, current, net, depth, request>>

(* What Insert makes of a prefix, and whether it keeps it: the length of an *)
(* IPv4-mapped prefix is not re-counted, which is more than W4.             *)
Canonical(p) == [addr |-> Unmap(Masked(p.addr, p.bits)), bits |-> p.bits]

Kept(p) == p.bits <= MaxBits(Canonical(p).addr)

Visit(rec) ==
    /\ building # 0 /\ net = None
    /\ rec \in left
    /\ left' = left \ {rec}

(* A country that is not blocked, or a prefix that Insert ignores. *)
Skip(rec) ==
    /\ Visit(rec)
    /\ rec.country \notin Countries \/ ~Kept(rec.net)
    /\ UNCHANGED <<source, building, file, net, depth, request>>

BeginInsert(rec) ==
    /\ Visit(rec)
    /\ rec.country \in Countries /\ Kept(rec.net)
    /\ net' = Canonical(rec.net) /\ depth' = 0
    /\ UNCHANGED <<source, building, file, request>>

\* Mutant of InsertBit: the loop runs one bit too far.
InsertBitBeyond ==
    /\ net # None /\ depth <= net.bits
    /\ trie' = [trie EXCEPT ![building].nodes = @ \cup {Node(net.addr, depth + 1)}]
    /\ depth' = depth + 1
    /\ UNCHANGED <<current, loads, building, file, left, net, request>>

(* One round of Insert's loop: down to a child, which is made if missing. *)
InsertBit ==
    /\ net # None /\ depth < net.bits
    /\ trie' = [trie EXCEPT ![building].nodes = @ \cup {Node(net.addr, depth + 1)}]
    /\ depth' = depth + 1
    /\ UNCHANGED <<current, loads, building, file, left, net, request>>

\* Mutant of InsertEnd: every insertion is counted.
InsertEndCounting ==
    /\ net # None /\ depth = net.bits
    /\ trie' = [trie EXCEPT ![building].terminal = @ \cup {Node(net.addr, depth)},
                            ![building].count = @ + 1]
    /\ net' = None /\ depth' = 0
    /\ UNCHANGED <<current, loads, building, file, left, request>>

(* The end of the path is marked, and counted unless it already was. *)
InsertEnd ==
    /\ net # None /\ depth = net.bits
    /\ LET n == Node(net.addr, depth)
           t == trie[building]
       IN trie' = [trie EXCEPT ![building] =
                     [t EXCEPT !.terminal = @ \cup {n},
                               !.count = IF n \in t.terminal THEN @ ELSE @ + 1]]
    /\ net' = None /\ depth' = 0
    /\ UNCHANGED <<current, loads, building, file, left, request>>

(* The file does not open, a record does not decode, the traversal fails,  *)
(* or a network has no prefix form: the trie is dropped.                   *)
LoadFails ==
    /\ building # 0 /\ net = None
    /\ building' = 0 /\ file' = {} /\ left' = {}
    /\ UNCHANGED <<source, net, depth, request>>

(* No network is left: the caller publishes the trie. *)
Swap ==
    /\ building # 0 /\ net = None /\ left = {}
    /\ current' = building
    /\ building' = 0 /\ file' = {}
    /\ UNCHANGED <<trie, loads, left, net, depth, request>>

Load == \/ \E db \in Databases : BeginLoad(db)
        \/ \E rec \in left : Skip(rec) \/ BeginInsert(rec)
        \/ InsertBit \/ InsertEnd
        \/ LoadFails \/ Swap

----------------------------------------------------------------------------
(* handleCheck, from the arrival of a GET to its answer.                   *)

Goto(r, from, to) == pc[r] = from /\ pc' = [pc EXCEPT ![r] = to]

Respond(r, from, verdict) ==
    /\ Goto(r, from, "done")
    /\ response' = [response EXCEPT ![r] = verdict]

Arrive(r, h) ==
    /\ Goto(r, "idle", "lookup")
    /\ header' = [header EXCEPT ![r] = h]
    /\ UNCHANGED <<source, loader, snap, client, i, response>>

(* One load of the pointer; everything else uses its result. *)
Lookup(r) ==
    /\ Goto(r, "lookup", "judge")
    /\ snap' = [snap EXCEPT ![r] = current]
    /\ UNCHANGED <<source, loader, header, client, i, response>>

(* usable(l): a trie is published and its Len() is not zero. *)
Usable(r) == snap[r] # 0 /\ trie[snap[r]].count # 0

StartupAnswer(r) ==
    /\ ~Usable(r)
    /\ Respond(r, "judge", IF StartupMode = "fail-open" THEN "allow" ELSE "block")
    /\ UNCHANGED <<source, loader, header, snap, client, i>>

Judge(r) ==
    /\ Usable(r)
    /\ Goto(r, "judge", "realIP")
    /\ UNCHANGED <<source, loader, header, snap, client, i, response>>

Parses(v) == v \in V4 \cup V6

(* The walk starts at the root. *)
Extracted(r, v) ==
    /\ client' = [client EXCEPT ![r] = Unmap(v)]
    /\ i' = [i EXCEPT ![r] = 0]

(* extractClientIP: X-Real-IP if it parses. *)
RealIP(r) ==
    /\ Goto(r, "realIP", "walk")
    /\ Parses(header[r].real)
    /\ Extracted(r, header[r].real)
    /\ UNCHANGED <<source, loader, header, snap, response>>

(* Absent, blank or malformed: on to X-Forwarded-For, from its right end. *)
NoRealIP(r) ==
    /\ Goto(r, "realIP", "xff")
    /\ ~Parses(header[r].real)
    /\ i' = [i EXCEPT ![r] = Len(header[r].xff)]
    /\ UNCHANGED <<source, loader, header, snap, client, response>>

(* rightmostXFF: an entry that parses is the client. *)
ForwardedFor(r) ==
    /\ pc[r] = "xff" /\ i[r] > 0 /\ Parses(header[r].xff[i[r]])
    /\ Goto(r, "xff", "walk")
    /\ Extracted(r, header[r].xff[i[r]])
    /\ UNCHANGED <<source, loader, header, snap, response>>

(* An empty or malformed entry is skipped to its left. *)
SkipEntry(r) ==
    /\ pc[r] = "xff" /\ i[r] > 0 /\ ~Parses(header[r].xff[i[r]])
    /\ i' = [i EXCEPT ![r] = @ - 1]
    /\ UNCHANGED <<source, loader, pc, header, snap, client, response>>

(* No address: refused under both startup modes. *)
NoAddress(r) ==
    /\ pc[r] = "xff" /\ i[r] = 0
    /\ Respond(r, "xff", "block")
    /\ UNCHANGED <<source, loader, header, snap, client, i>>

(* Contains, one bit a step. *)
Here(r)  == Node(client[r], i[r])
Child(r) == Node(client[r], i[r] + 1)

(* A prefix that ends here covers the client; after the last bit too. *)
Covered(r) ==
    /\ pc[r] = "walk" /\ Here(r) \in trie[snap[r]].terminal
    /\ Respond(r, "walk", "block")
    /\ UNCHANGED <<source, loader, header, snap, client, i>>

\* Mutant of NotCovered: the node after the last bit is not looked at.
NotCoveredAtLast(r) ==
    /\ pc[r] = "walk"
    /\ \/ i[r] = MaxBits(client[r])
       \/ Here(r) \notin trie[snap[r]].terminal /\ Child(r) \notin trie[snap[r]].nodes
    /\ Respond(r, "walk", "allow")
    /\ UNCHANGED <<source, loader, header, snap, client, i>>

(* The path, or the address, ends. *)
NotCovered(r) ==
    /\ pc[r] = "walk" /\ Here(r) \notin trie[snap[r]].terminal
    /\ i[r] = MaxBits(client[r]) \/ Child(r) \notin trie[snap[r]].nodes
    /\ Respond(r, "walk", "allow")
    /\ UNCHANGED <<source, loader, header, snap, client, i>>

Descend(r) ==
    /\ pc[r] = "walk" /\ Here(r) \notin trie[snap[r]].terminal
    /\ i[r] < MaxBits(client[r]) /\ Child(r) \in trie[snap[r]].nodes
    /\ i' = [i EXCEPT ![r] = @ + 1]
    /\ UNCHANGED <<source, loader, pc, header, snap, client, response>>

Check(r) == \/ \E h \in Headers : Arrive(r, h)
            \/ Lookup(r) \/ StartupAnswer(r) \/ Judge(r)
            \/ RealIP(r) \/ NoRealIP(r)
            \/ ForwardedFor(r) \/ SkipEntry(r) \/ NoAddress(r)
            \/ Covered(r) \/ NotCovered(r) \/ Descend(r)

Next == Load \/ \E r \in Reqs : Check(r)

Spec == Init /\ [][Next]_vars

----------------------------------------------------------------------------
(* What Insert keeps, in the form it keeps it. *)
Stored == {p \in Prefixes : p.addr \in Addrs}

Tries == [nodes : SUBSET Nodes, terminal : SUBSET Nodes, count : Nat]

Labels == {"idle", "lookup", "judge", "realIP", "xff", "walk", "done"}

TypeOK ==
    /\ trie \in [1..MaxLoads -> Tries]
    /\ current \in 0..MaxLoads /\ loads \in 0..MaxLoads
    /\ building \in 0..loads
    /\ file \in Databases \cup {{}} /\ left \subseteq file
    /\ net \in Stored \cup {None}
    /\ depth \in IF net = None THEN {0} ELSE 0..net.bits
    /\ pc \in [Reqs -> Labels]
    /\ header \in [Reqs -> Headers \cup {None}]
    /\ snap \in [Reqs -> 0..MaxLoads]
    /\ client \in [Reqs -> Addrs \cup {None}]
    /\ i \in [Reqs -> Nat]
    /\ response \in [Reqs -> {"allow", "block", None}]

(* What a trie answers, found without walking it. *)
OnPath(n, a) == n.fam = a.fam /\ \A k \in DOMAIN n.path : n.path[k] = a.bits[k]
Content(t) == {a \in Addrs : \E n \in trie[t].terminal : OnPath(n, a)}

(* Whose address a request should be judged by: X-Real-IP if it parses,    *)
(* else the rightmost entry of X-Forwarded-For that does.                  *)
ClientOf(h) ==
    LET valid == {k \in DOMAIN h.xff : Parses(h.xff[k])}
    IN IF Parses(h.real) THEN Unmap(h.real)
       ELSE IF valid = {} THEN Unparseable
       ELSE Unmap(h.xff[CHOOSE k \in valid : \A l \in valid : l <= k])

ContentAt(t) == IF t = 0 THEN NoTrie ELSE Content(t)

ForwardAuth == INSTANCE ForwardAuth WITH
    Tries    <- Contents,
    current  <- ContentAt(current),
    request  <- [r \in Reqs |-> IF header[r] = None THEN None
                               ELSE [op |-> "check", addr |-> ClientOf(header[r])]],
    against  <- [r \in Reqs |-> IF pc[r] \in {"idle", "lookup"} THEN None
                               ELSE ContentAt(snap[r])],
    response <- response

(* Every request is judged by the address its headers should yield,        *)
(* against exactly the networks of blocked countries in a database that    *)
(* was active at one instant of the request: the bits, the two loops, the  *)
(* address families and the builder's interleaving change nothing.         *)
Answers == ForwardAuth!Spec

(* A published trie is never touched again: "callers must treat t as       *)
(* immutable after this call" is what makes the lock-free read correct.    *)
PublishedFrozen ==
    [][\A t \in 1..MaxLoads :
          (t = current \/ \E r \in Reqs : t = snap[r]) => trie'[t] = trie[t]]_vars

(* Len(), which readiness and /healthz go by, is the number of distinct    *)
(* blocked prefixes that can match: zero exactly if nothing is covered.    *)
LenExact ==
    building # 0 /\ left = {} /\ net = None =>
        trie[building].count =
            Cardinality({Node(p.addr, p.bits) : p \in {x \in Blocked(file) : ~Mapped(x)}})
============================================================================
