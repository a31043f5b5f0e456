-------------------------- MODULE BlocklistProofs --------------------------
(***************************************************************************)
(* The properties of Blocklist for addresses of every width, and for every *)
(* set of databases, requests and headers.  The first lemmas are about     *)
(* addresses, prefixes and the nodes they name.                            *)
(***************************************************************************)
EXTENDS Blocklist, FiniteSetTheorems, WellFoundedInduction, TLAPS

LEMMA MaxBitsType ==
    ASSUME NEW a \in V4 \cup V6
    PROVE  /\ MaxBits(a) \in 1..W6
           /\ a.bits \in [0..(MaxBits(a) - 1) -> Bit]
           /\ a.fam \in {"v4", "v6"}
           /\ a = [fam |-> a.fam, bits |-> a.bits]
BY WidthAssumption DEF V4, V6, MaxBits

LEMMA UnmapType == ASSUME NEW a \in V4 \cup V6 PROVE Unmap(a) \in Addrs
<1>1. CASE Is4In6(a)
  <2>1. a \in V6 /\ a.bits \in [0..(W6 - 1) -> Bit]
    BY <1>1 DEF Is4In6, V4, V6
  <2>2. \A k \in 0..(W4 - 1) : W6 - W4 + k \in 0..(W6 - 1)
    BY WidthAssumption
  <2>3. [k \in 0..(W4 - 1) |-> a.bits[W6 - W4 + k]] \in [0..(W4 - 1) -> Bit]
    BY <2>1, <2>2
  <2>4. Unmap(a) \in V4
    BY <1>1, <2>3 DEF Unmap, V4
  <2> QED BY <2>4 DEF Addrs, V4, Is4In6
<1>2. CASE ~Is4In6(a)
  BY <1>2 DEF Unmap, Addrs
<1> QED BY <1>1, <1>2

(* Masking keeps the path of a prefix, and the family. *)
LEMMA MaskedType ==
    ASSUME NEW p \in Prefixes
    PROVE  /\ Masked(p.addr, p.bits) \in V4 \cup V6
           /\ MaxBits(Masked(p.addr, p.bits)) = MaxBits(p.addr)
           /\ Node(Masked(p.addr, p.bits), p.bits) = Node(p.addr, p.bits)
<1> DEFINE m == Masked(p.addr, p.bits)
<1>0. p.addr \in V4 \cup V6 /\ p.bits \in 0..MaxBits(p.addr)
  BY DEF Prefixes
<1>1. m.fam = p.addr.fam /\ MaxBits(m) = MaxBits(p.addr)
  BY DEF Masked, MaxBits
<1>2. m.bits \in [0..(MaxBits(p.addr) - 1) -> Bit]
  BY <1>0, MaxBitsType DEF Masked, Bit
<1>3. m \in V4 \cup V6
  BY <1>0, <1>2 DEF Masked, MaxBits, V4, V6
<1>4. \A k \in 0..(p.bits - 1) : m.bits[k] = p.addr.bits[k]
  BY <1>0, MaxBitsType DEF Masked
<1>5. Node(m, p.bits) = Node(p.addr, p.bits)
  BY <1>1, <1>4 DEF Node
<1> QED BY <1>1, <1>3, <1>5

LEMMA MaskedMapped ==
    ASSUME NEW p \in Prefixes PROVE Is4In6(Masked(p.addr, p.bits)) <=> Mapped(p)
<1> DEFINE m == Masked(p.addr, p.bits)
<1>0. p.addr \in V4 \cup V6 /\ p.bits \in 0..MaxBits(p.addr)
  BY DEF Prefixes
<1>1. CASE p.addr.fam # "v6"
  BY <1>1 DEF Masked, Mapped, Is4In6
<1>2. CASE p.addr.fam = "v6"
  <2>1. MaxBits(p.addr) = W6 /\ m.fam = "v6"
    BY <1>2 DEF MaxBits, Masked
  <2>2. \A k \in Top : m.bits[k] = IF k < p.bits THEN p.addr.bits[k] ELSE 0
    BY <2>1, WidthAssumption DEF Masked, Top
  <2>3. CASE W6 - W4 <= p.bits
    <3>1. \A k \in Top : k < p.bits
      BY <1>0, <2>1, <2>3, WidthAssumption DEF Top
    <3> QED BY <1>2, <2>1, <2>2, <2>3, <3>1 DEF Is4In6, Mapped
  <2>4. CASE ~(W6 - W4 <= p.bits)
    <3>1. W6 - W4 - 1 \in Top /\ ~(W6 - W4 - 1 < p.bits)
      BY <1>0, <2>1, <2>4, WidthAssumption DEF Top
    <3> QED BY <2>2, <2>4, <3>1, WidthAssumption DEF Is4In6, Mapped
  <2> QED BY <2>3, <2>4
<1> QED BY <1>1, <1>2

(* Insert keeps exactly the prefixes that can match, under their own node. *)
LEMMA KeptStored ==
    ASSUME NEW p \in Prefixes
    PROVE  /\ Kept(p) <=> ~Mapped(p)
           /\ Kept(p) => /\ Canonical(p) \in Stored
                         /\ Node(Canonical(p).addr, Canonical(p).bits) = Node(p.addr, p.bits)
<1> DEFINE m == Masked(p.addr, p.bits)
<1>0. p.addr \in V4 \cup V6 /\ p.bits \in 0..W6 /\ p.bits <= MaxBits(p.addr)
  BY DEF Prefixes
<1>1. CASE Mapped(p)
  <2>1. Unmap(m).fam = "v4" /\ MaxBits(Unmap(m)) = W4
    BY <1>1, MaskedMapped DEF Unmap, MaxBits
  <2>2. p.bits > W4
    BY <1>0, <1>1, WidthAssumption DEF Mapped
  <2> QED BY <1>0, <1>1, <2>1, <2>2, WidthAssumption DEF Kept, Canonical
<1>2. CASE ~Mapped(p)
  <2>1. Unmap(m) = m /\ m \in Addrs
    BY <1>2, MaskedMapped, MaskedType DEF Unmap, Addrs
  <2>2. Canonical(p) = [addr |-> m, bits |-> p.bits]
    BY <2>1 DEF Canonical
  <2>3. Kept(p)
    BY <1>0, <2>2, MaskedType DEF Kept
  <2>4. Canonical(p) \in Stored
    BY <1>0, <2>1, <2>2, MaskedType DEF Stored, Prefixes
  <2> QED BY <1>2, <2>2, <2>3, <2>4, MaskedType
<1> QED BY <1>1, <1>2

LEMMA NodeEqual ==
    ASSUME NEW a \in Addrs, NEW b \in Addrs,
           NEW m \in 0..MaxBits(a), NEW n \in 0..MaxBits(b), Node(a, m) = Node(b, n)
    PROVE  m = n /\ a.fam = b.fam /\ \A k \in 0..(m - 1) : a.bits[k] = b.bits[k]
<1>0. m \in Nat /\ n \in Nat
  BY MaxBitsType DEF Addrs
<1>1. Node(a, m).path = Node(b, n).path /\ Node(a, m).fam = Node(b, n).fam
  OBVIOUS
<1>2. DOMAIN Node(a, m).path = 0..(m - 1) /\ DOMAIN Node(b, n).path = 0..(n - 1)
  BY DEF Node
<1>3. 0..(m - 1) = 0..(n - 1)
  BY <1>1, <1>2
<1>4. m = n
  <2>1. CASE m < n
    <3>1. m \in 0..(n - 1) /\ m \notin 0..(m - 1)
      BY <1>0, <2>1
    <3> QED BY <1>3, <3>1
  <2>2. CASE n < m
    <3>1. n \in 0..(m - 1) /\ n \notin 0..(n - 1)
      BY <1>0, <2>2
    <3> QED BY <1>3, <3>1
  <2> QED BY <1>0, <2>1, <2>2
<1>5. \A k \in 0..(m - 1) : Node(a, m).path[k] = a.bits[k] /\ Node(b, m).path[k] = b.bits[k]
  BY DEF Node
<1>6. Node(a, m).fam = a.fam /\ Node(b, n).fam = b.fam
  BY DEF Node
<1>7. \A k \in 0..(m - 1) : a.bits[k] = b.bits[k]
  BY <1>1, <1>4, <1>5
<1>8. a.fam = b.fam
  BY <1>1, <1>6
<1> QED BY <1>4, <1>7, <1>8

LEMMA NodeType ==
    ASSUME NEW q \in Prefixes, NEW n \in 0..q.bits PROVE Node(q.addr, n) \in Nodes
<1>1. [addr |-> q.addr, bits |-> n] \in Prefixes
  <2>1. q.addr \in V4 \cup V6 /\ q.bits \in 0..W6 /\ q.bits <= MaxBits(q.addr)
    BY DEF Prefixes
  <2>2. MaxBits(q.addr) \in 1..W6
    BY <2>1, MaxBitsType
  <2>3. n \in 0..W6 /\ n <= MaxBits(q.addr)
    BY <2>1, <2>2, WidthAssumption
  <2> QED BY <2>1, <2>3 DEF Prefixes, MaxBits
<1> QED BY <1>1 DEF Nodes

(* A prefix covers the addresses whose path runs through its node. *)
LEMMA CoversPath ==
    ASSUME NEW q \in Prefixes, NEW a \in Addrs
    PROVE  OnPath(Node(q.addr, q.bits), a) <=> Covers(q, a)
BY DEF OnPath, Covers, Node

LEMMA CoversNode ==
    ASSUME NEW q \in Prefixes, NEW a \in Addrs, Covers(q, a)
    PROVE  q.bits \in 0..MaxBits(a) /\ Node(q.addr, q.bits) = Node(a, q.bits)
<1>1. q.bits \in 0..W6 /\ q.bits <= MaxBits(q.addr)
  BY DEF Prefixes
<1>2. MaxBits(a) = MaxBits(q.addr)
  BY DEF Covers, MaxBits
<1> QED BY <1>1, <1>2 DEF Covers, Node

LEMMA NodeOnPath ==
    ASSUME NEW a \in Addrs, NEW n \in 0..MaxBits(a) PROVE OnPath(Node(a, n), a)
BY DEF OnPath, Node

LEMMA MappedCoversNothing ==
    ASSUME NEW p \in Prefixes, Mapped(p), NEW a \in Addrs PROVE ~Covers(p, a)
<1> SUFFICES ASSUME Covers(p, a) PROVE FALSE
  OBVIOUS
<1>1. p.bits \in Nat /\ \A k \in Top : k \in 0..(p.bits - 1)
  BY WidthAssumption DEF Mapped, Prefixes, Top
<1>2. Is4In6(a)
  BY <1>1 DEF Covers, Mapped, Is4In6
<1> QED BY <1>2 DEF Addrs

(* A non-empty set of indices has a last one. *)
LEMMA LastExists ==
    ASSUME NEW n \in Nat, NEW S \in SUBSET (1..n), S # {}
    PROVE  \E k \in S : \A l \in S : l <= k
<1> DEFINE T == {n - k : k \in S}
<1>1. T \subseteq Nat /\ T # {}
  <2>1. \A k \in S : n - k \in Nat
    OBVIOUS
  <2>2. PICK k \in S : TRUE
    OBVIOUS
  <2>3. n - k \in T
    OBVIOUS
  <2> QED BY <2>1, <2>3
<1> DEFINE R == OpToRel(<, Nat)
<1>w. IsWellFoundedOn(R, Nat)
  BY NatLessThanWellFounded
<1>r. \A y, x \in Nat : y < x => <<y, x>> \in R
  BY DEF OpToRel
<1>2. PICK x \in T : \A y \in T : ~(<<y, x>> \in R)
  <2> HIDE DEF R, T
  <2> QED BY <1>1, <1>w, WFMin
<1>3. \A y \in T : x <= y
  <2> HIDE DEF R, T
  <2>1. \A y \in T : ~(y < x)
    BY <1>1, <1>2, <1>r
  <2> QED BY <1>1, <2>1
<1>4. PICK k \in S : x = n - k
  OBVIOUS
<1>5. \A l \in S : l <= k
  <2> TAKE l \in S
  <2>1. n - l \in T
    OBVIOUS
  <2> QED BY <1>3, <1>4, <2>1
<1> QED BY <1>5

(* extractClientIP yields an address in the form Contains looks up. *)
LEMMA ClientType ==
    ASSUME NEW h \in Headers PROVE ClientOf(h) \in Addrs \cup {Unparseable}
<1> DEFINE valid == {k \in DOMAIN h.xff : Parses(h.xff[k])}
<1>1. CASE Parses(h.real)
  BY <1>1, UnmapType DEF ClientOf, Parses
<1>2. CASE ~Parses(h.real) /\ valid = {}
  BY <1>2 DEF ClientOf
<1>3. CASE ~Parses(h.real) /\ valid # {}
  <2>1. h.xff \in Seq(V4 \cup V6 \cup {Blank, Junk})
    BY HeadersAssumption
  <2>2. Len(h.xff) \in Nat /\ valid \in SUBSET (1..Len(h.xff))
    BY <2>1
  <2>3. PICK k \in valid : \A l \in valid : l <= k
    BY <1>3, <2>2, LastExists
  <2>4. (CHOOSE x \in valid : \A l \in valid : l <= x) \in valid
    BY <2>3
  <2> QED BY <1>3, <2>4, UnmapType DEF ClientOf, Parses
<1> QED BY <1>1, <1>2, <1>3

----------------------------------------------------------------------------
(* The type invariant, and who holds which trie: the one being built is    *)
(* newer than all that were ever published, so no reader has it.           *)
Apart ==
    /\ current \in 0..loads /\ \A r \in Reqs : snap[r] \in 0..loads
    /\ building # 0 => current # building /\ \A r \in Reqs : snap[r] # building
    /\ IF building = 0 THEN net = None /\ left = {} ELSE file \in Databases

Asked == \A r \in Reqs : header[r] = None <=> pc[r] = "idle"

Owned == TypeOK /\ Apart /\ Asked

LEMMA NoneNotStored == None \notin Stored
<1> SUFFICES ASSUME None \in Stored PROVE FALSE
  OBVIOUS
<1>1. None \in [addr : Addrs, bits : 0..W6]
  <2>1. None \in Prefixes /\ None.addr \in Addrs
    BY DEF Stored
  <2>2. None \in [addr : V4 \cup V6, bits : 0..W6]
    BY <2>1 DEF Prefixes
  <2> QED BY <2>1, <2>2
<1> QED BY <1>1, NoneAssumption

LEMMA InitOwned == Init => Owned
<1> SUFFICES ASSUME Init PROVE Owned
  OBVIOUS
<1>1. EmptyTrie \in Tries
  BY DEF EmptyTrie, Tries
<1>2. TypeOK
  BY <1>1, LoadsAssumption DEF Init, TypeOK, Labels
<1>3. Apart /\ Asked
  BY DEF Init, Apart, Asked
<1> QED BY <1>2, <1>3 DEF Owned

(* A request writes nothing but its own state; a trie changes only by the  *)
(* steps of Insert, and only the one being built.                          *)
LEMMA RequestsOnlyRead ==
    ASSUME NEW r \in Reqs, Check(r) PROVE UNCHANGED <<source, loader>>
BY DEF Check, Arrive, Lookup, StartupAnswer, Judge, RealIP, NoRealIP, ForwardedFor,
       SkipEntry, NoAddress, Covered, NotCovered, Descend

LEMMA OnlyInserts == [Next]_vars /\ ~InsertBit /\ ~InsertEnd => UNCHANGED trie
<1> SUFFICES ASSUME [Next]_vars, ~InsertBit, ~InsertEnd PROVE UNCHANGED trie
  OBVIOUS
<1> USE DEF source
<1>1. ASSUME NEW db \in Databases, BeginLoad(db) PROVE UNCHANGED trie
  BY <1>1 DEF BeginLoad
<1>2. ASSUME NEW rec \in left, Skip(rec) \/ BeginInsert(rec) PROVE UNCHANGED trie
  BY <1>2 DEF Skip, BeginInsert
<1>3. CASE LoadFails \/ Swap
  BY <1>3 DEF LoadFails, Swap
<1>4. ASSUME NEW r \in Reqs, Check(r) PROVE UNCHANGED trie
  BY <1>4, RequestsOnlyRead
<1>5. CASE UNCHANGED vars
  BY <1>5 DEF vars
<1> QED BY <1>1, <1>2, <1>3, <1>4, <1>5 DEF Next, Load

LEMMA OnlyBuilding ==
    ASSUME Owned, [Next]_vars
    PROVE  \A t \in 1..MaxLoads : trie'[t] # trie[t] => building # 0 /\ t = building
BY OnlyInserts DEF InsertBit, InsertEnd, Owned, TypeOK, Apart

LEMMA TrieGrows ==
    ASSUME NEW t \in Tries, NEW n \in Nodes, NEW c \in Nat
    PROVE  /\ [t EXCEPT !.nodes = @ \cup {n}] \in Tries
           /\ [t EXCEPT !.terminal = @ \cup {n}, !.count = c] \in Tries
<1>1. /\ t = [nodes |-> t.nodes, terminal |-> t.terminal, count |-> t.count]
      /\ t.nodes \subseteq Nodes /\ t.terminal \subseteq Nodes /\ t.count \in Nat
  BY DEF Tries
<1>2. [t EXCEPT !.nodes = @ \cup {n}]
         = [nodes |-> t.nodes \cup {n}, terminal |-> t.terminal, count |-> t.count]
  BY <1>1
<1>3. [t EXCEPT !.terminal = @ \cup {n}, !.count = c]
         = [nodes |-> t.nodes, terminal |-> t.terminal \cup {n}, count |-> c]
  <2> DEFINE u == [nodes |-> t.nodes, terminal |-> t.terminal \cup {n}, count |-> t.count]
  <2>1. [t EXCEPT !.terminal = @ \cup {n}] = u
    BY <1>1
  <2>2. [u EXCEPT !.count = c] = [nodes |-> t.nodes, terminal |-> t.terminal \cup {n}, count |-> c]
    OBVIOUS
  <2>3. [t EXCEPT !.terminal = @ \cup {n}, !.count = c]
           = [[t EXCEPT !.terminal = @ \cup {n}] EXCEPT !.count = c]
    OBVIOUS
  <2> QED BY <2>1, <2>2, <2>3
<1>4. t.nodes \cup {n} \subseteq Nodes /\ t.terminal \cup {n} \subseteq Nodes
  BY <1>1, Zenon
<1> QED BY <1>1, <1>2, <1>3, <1>4 DEF Tries

LEMMA NextOwned == Owned /\ [Next]_vars => Owned'
<1> SUFFICES ASSUME Owned, [Next]_vars PROVE Owned'
  OBVIOUS
<1> USE LoadsAssumption, NoneNotStored
<1> USE DEF Owned, TypeOK, Apart, Asked, Labels, Goto, Respond
<1>stutter. CASE UNCHANGED vars
  BY <1>stutter DEF vars, source, loader, request
<1>BeginLoad. ASSUME NEW db \in Databases, BeginLoad(db) PROVE Owned'
  BY <1>BeginLoad DEF BeginLoad, request
<1>Skip. ASSUME NEW rec \in left, Skip(rec) PROVE Owned'
  BY <1>Skip DEF Skip, Visit, source, request
<1>BeginInsert. ASSUME NEW rec \in left, BeginInsert(rec) PROVE Owned'
  <2>1. rec.net \in Prefixes
    BY <1>BeginInsert, DatabasesAssumption DEF BeginInsert, Visit
  <2>2. net' \in Stored /\ net'.bits \in Nat
    BY <2>1, <1>BeginInsert, KeptStored DEF BeginInsert, Stored, Prefixes
  <2> QED BY <2>2, <1>BeginInsert DEF BeginInsert, Visit, source, request
<1>InsertBit. ASSUME InsertBit PROVE Owned'
  <2>1. net \in Prefixes /\ net.bits \in Nat /\ building \in 1..MaxLoads
    BY <1>InsertBit DEF InsertBit, Stored, Prefixes
  <2>2. depth + 1 \in 0..net.bits /\ Node(net.addr, depth + 1) \in Nodes
    BY <2>1, <1>InsertBit, NodeType DEF InsertBit
  <2>3. [trie[building] EXCEPT !.nodes = @ \cup {Node(net.addr, depth + 1)}] \in Tries
    <3>1. trie[building] \in Tries
      BY <2>1
    <3> QED BY <2>2, <3>1, TrieGrows
  <2>4. trie' = [trie EXCEPT ![building] =
                    [trie[building] EXCEPT !.nodes = @ \cup {Node(net.addr, depth + 1)}]]
    BY <1>InsertBit DEF InsertBit
  <2>5. trie' \in [1..MaxLoads -> Tries]
    BY <2>1, <2>3, <2>4
  <2> QED BY <2>2, <2>5, <1>InsertBit DEF InsertBit, request
<1>InsertEnd. ASSUME InsertEnd PROVE Owned'
  <2>1. net \in Prefixes /\ net.bits \in Nat /\ building \in 1..MaxLoads
    BY <1>InsertEnd DEF InsertEnd, Stored, Prefixes
  <2>2. Node(net.addr, depth) \in Nodes
    BY <2>1, <1>InsertEnd, NodeType DEF InsertEnd
  <2>3. \A c \in {trie[building].count, trie[building].count + 1} :
           [trie[building] EXCEPT !.terminal = @ \cup {Node(net.addr, depth)}, !.count = c] \in Tries
    <3>1. trie[building] \in Tries /\ trie[building].count \in Nat
      BY <2>1 DEF Tries
    <3>2. \A c \in {trie[building].count, trie[building].count + 1} : c \in Nat
      BY <3>1
    <3> QED BY <2>2, <3>1, <3>2, TrieGrows
  <2>4. PICK c \in {trie[building].count, trie[building].count + 1} :
           trie' = [trie EXCEPT ![building] =
              [trie[building] EXCEPT !.terminal = @ \cup {Node(net.addr, depth)}, !.count = c]]
    BY <1>InsertEnd DEF InsertEnd
  <2>5. trie' \in [1..MaxLoads -> Tries]
    BY <2>1, <2>3, <2>4
  <2> QED BY <2>5, <1>InsertEnd DEF InsertEnd, request
<1>LoadFails. ASSUME LoadFails PROVE Owned'
  BY <1>LoadFails DEF LoadFails, source, request
<1>Swap. ASSUME Swap PROVE Owned'
  BY <1>Swap DEF Swap, request
<1>Arrive. ASSUME NEW r \in Reqs, NEW h \in Headers, Arrive(r, h) PROVE Owned'
  BY <1>Arrive, NoneAssumption DEF Arrive, source, loader
<1>Lookup. ASSUME NEW r \in Reqs, Lookup(r) PROVE Owned'
  BY <1>Lookup DEF Lookup, source, loader
<1>StartupAnswer. ASSUME NEW r \in Reqs, StartupAnswer(r) PROVE Owned'
  BY <1>StartupAnswer DEF StartupAnswer, source, loader
<1>Judge. ASSUME NEW r \in Reqs, Judge(r) PROVE Owned'
  BY <1>Judge DEF Judge, source, loader
<1>RealIP. ASSUME NEW r \in Reqs, RealIP(r) PROVE Owned'
  <2>1. Unmap(header[r].real) \in Addrs
    BY <1>RealIP, UnmapType DEF RealIP, Parses
  <2> QED BY <2>1, <1>RealIP DEF RealIP, Extracted, source, loader
<1>NoRealIP. ASSUME NEW r \in Reqs, NoRealIP(r) PROVE Owned'
  <2>1. header[r] \in Headers
    BY <1>NoRealIP DEF NoRealIP
  <2>2. Len(header[r].xff) \in Nat
    BY <2>1, HeadersAssumption
  <2> QED BY <2>2, <1>NoRealIP DEF NoRealIP, source, loader
<1>ForwardedFor. ASSUME NEW r \in Reqs, ForwardedFor(r) PROVE Owned'
  <2>1. Unmap(header[r].xff[i[r]]) \in Addrs
    BY <1>ForwardedFor, UnmapType DEF ForwardedFor, Parses
  <2> QED BY <2>1, <1>ForwardedFor DEF ForwardedFor, Extracted, source, loader
<1>SkipEntry. ASSUME NEW r \in Reqs, SkipEntry(r) PROVE Owned'
  BY <1>SkipEntry DEF SkipEntry, source, loader
<1>NoAddress. ASSUME NEW r \in Reqs, NoAddress(r) PROVE Owned'
  BY <1>NoAddress DEF NoAddress, source, loader
<1>Covered. ASSUME NEW r \in Reqs, Covered(r) PROVE Owned'
  BY <1>Covered DEF Covered, source, loader
<1>NotCovered. ASSUME NEW r \in Reqs, NotCovered(r) PROVE Owned'
  BY <1>NotCovered DEF NotCovered, source, loader
<1>Descend. ASSUME NEW r \in Reqs, Descend(r) PROVE Owned'
  BY <1>Descend DEF Descend, source, loader
<1> QED
  BY <1>stutter, <1>BeginLoad, <1>Skip, <1>BeginInsert, <1>InsertBit, <1>InsertEnd,
     <1>LoadFails, <1>Swap, <1>Arrive, <1>Lookup, <1>StartupAnswer, <1>Judge, <1>RealIP,
     <1>NoRealIP, <1>ForwardedFor, <1>SkipEntry, <1>NoAddress, <1>Covered, <1>NotCovered,
     <1>Descend
  DEF Next, Load, Check

LEMMA AlwaysOwned == Spec => []Owned
BY InitOwned, NextOwned, PTL DEF Spec

(* Every variable keeps its type, for every width of address.              *)
THEOREM TypeCorrect == Spec => []TypeOK
<1>1. Owned => TypeOK
  BY DEF Owned
<1> QED BY <1>1, AlwaysOwned, PTL

(* No trie that a reader may hold is written to. *)
THEOREM AlwaysFrozen == Spec => PublishedFrozen
<1>1. Owned /\ [Next]_vars =>
        [\A t \in 1..MaxLoads :
            (t = current \/ \E r \in Reqs : t = snap[r]) => trie'[t] = trie[t]]_vars
  BY OnlyBuilding DEF Owned, Apart
<1> QED BY <1>1, AlwaysOwned, PTL DEF Spec, PublishedFrozen

----------------------------------------------------------------------------
(* What the loader has built: every terminal node ends the path of a       *)
(* stored prefix and all its path is there, the count is their number, and *)
(* the terminal nodes are those of the networks visited so far.            *)
StoredNodes == {Node(q.addr, q.bits) : q \in Stored}

Counted ==
    \A t \in 1..MaxLoads :
        /\ trie[t].terminal \subseteq StoredNodes
        /\ IsFiniteSet(trie[t].terminal)
        /\ trie[t].count = Cardinality(trie[t].terminal)

Pathed ==
    /\ \A t \in 1..MaxLoads : \A a \in Addrs : \A m \in 0..MaxBits(a) :
          Node(a, m) \in trie[t].terminal => \A j \in 1..m : Node(a, j) \in trie[t].nodes
    /\ net # None => \A j \in 1..depth : Node(net.addr, j) \in trie[building].nodes

Marks(db) == {Node(p.addr, p.bits) : p \in {x \in Blocked(db) : ~Mapped(x)}}

Pending == IF net = None THEN {} ELSE {Node(net.addr, net.bits)}

Marked ==
    /\ \A t \in 1..MaxLoads : t > loads => trie[t] = EmptyTrie
    /\ building # 0 => trie[building].terminal \cup Pending = Marks(file \ left)

Built == Counted /\ Pathed /\ Marked

LEMMA InitBuilt == Init => Built
<1> SUFFICES ASSUME Init PROVE Built
  OBVIOUS
<1>1. \A t \in 1..MaxLoads : trie[t] = EmptyTrie
  BY DEF Init
<1>2. Counted
  BY <1>1, FS_EmptySet DEF Counted, EmptyTrie
<1>3. Pathed
  BY <1>1 DEF Init, Pathed, EmptyTrie
<1>4. Marked
  BY <1>1 DEF Init, Marked
<1> QED BY <1>2, <1>3, <1>4 DEF Built

(* A visited record adds its node, unless Insert is not called, or ignores *)
(* its prefix.                                                             *)
LEMMA MarksVisited ==
    ASSUME NEW db, NEW rec \in db, NEW rest \in SUBSET db, rec \in rest,
           rec.net \in Prefixes
    PROVE  Marks(db \ (rest \ {rec})) =
              Marks(db \ rest) \cup
                 IF rec.country \in Countries /\ Kept(rec.net)
                 THEN {Node(Canonical(rec.net).addr, Canonical(rec.net).bits)} ELSE {}
<1>1. db \ (rest \ {rec}) = (db \ rest) \cup {rec}
  OBVIOUS
<1>2. Blocked((db \ rest) \cup {rec}) =
         Blocked(db \ rest) \cup IF rec.country \in Countries THEN {rec.net} ELSE {}
  BY DEF Blocked
<1>3. Marks((db \ rest) \cup {rec}) =
         Marks(db \ rest) \cup IF rec.country \in Countries /\ ~Mapped(rec.net)
                               THEN {Node(rec.net.addr, rec.net.bits)} ELSE {}
  BY <1>2 DEF Marks
<1> QED BY <1>1, <1>3, KeptStored

LEMMA NextCounted == Owned /\ Counted /\ [Next]_vars => Counted'
<1> SUFFICES ASSUME Owned, Counted, [Next]_vars PROVE Counted'
  OBVIOUS
<1>1. ASSUME NEW t \in 1..MaxLoads, trie'[t].terminal = trie[t].terminal,
             trie'[t].count = trie[t].count
      PROVE  /\ trie'[t].terminal \subseteq StoredNodes
             /\ IsFiniteSet(trie'[t].terminal)
             /\ trie'[t].count = Cardinality(trie'[t].terminal)
  BY <1>1 DEF Counted
<1>2. CASE InsertBit
  <2>1. \A t \in 1..MaxLoads : /\ trie'[t].terminal = trie[t].terminal
                               /\ trie'[t].count = trie[t].count
    BY <1>2 DEF InsertBit, Owned, TypeOK, Tries
  <2> QED BY <1>1, <2>1 DEF Counted
<1>3. CASE InsertEnd
  <2> DEFINE n == Node(net.addr, depth)
             T == trie[building].terminal
  <2>1. building \in 1..MaxLoads /\ net \in Stored /\ depth = net.bits
    BY <1>3, LoadsAssumption DEF InsertEnd, Owned, TypeOK, Apart
  <2>2. n \in StoredNodes
    BY <2>1 DEF StoredNodes
  <2>3. /\ trie'[building].terminal = T \cup {n}
        /\ trie'[building].count = IF n \in T THEN trie[building].count
                                   ELSE trie[building].count + 1
    BY <1>3, <2>1 DEF InsertEnd, Owned, TypeOK, Tries
  <2>4. IsFiniteSet(T) /\ trie[building].count = Cardinality(T) /\ T \subseteq StoredNodes
    BY <2>1 DEF Counted
  <2>5. /\ IsFiniteSet(T \cup {n})
        /\ Cardinality(T \cup {n}) = IF n \in T THEN Cardinality(T) ELSE Cardinality(T) + 1
    BY <2>4, FS_AddElement
  <2>6. \A t \in 1..MaxLoads : t # building => trie'[t] = trie[t]
    BY OnlyBuilding
  <2>7. ASSUME NEW t \in 1..MaxLoads
        PROVE  /\ trie'[t].terminal \subseteq StoredNodes
               /\ IsFiniteSet(trie'[t].terminal)
               /\ trie'[t].count = Cardinality(trie'[t].terminal)
    <3>1. CASE t = building
      BY <2>2, <2>3, <2>4, <2>5, <3>1
    <3>2. CASE t # building
      BY <1>1, <2>6, <3>2
    <3> QED BY <3>1, <3>2
  <2> QED BY <2>7 DEF Counted
<1>4. CASE UNCHANGED trie
  BY <1>4 DEF Counted
<1> QED BY <1>2, <1>3, <1>4, OnlyInserts

LEMMA NextPathed == Owned /\ Pathed /\ [Next]_vars => Pathed'
<1> SUFFICES ASSUME Owned, Pathed, [Next]_vars PROVE Pathed'
  OBVIOUS
<1> USE DEF Owned, TypeOK, Apart
<1>stutter. CASE UNCHANGED <<source, loader>>
  BY <1>stutter DEF Pathed, source, loader
<1>BeginLoad. ASSUME NEW db \in Databases, BeginLoad(db) PROVE Pathed'
  BY <1>BeginLoad DEF BeginLoad, Pathed
<1>Skip. ASSUME NEW rec \in left, Skip(rec) PROVE Pathed'
  BY <1>Skip DEF Skip, Pathed, source
<1>BeginInsert. ASSUME NEW rec \in left, BeginInsert(rec) PROVE Pathed'
  BY <1>BeginInsert DEF BeginInsert, Pathed, source
<1>InsertBit. ASSUME InsertBit PROVE Pathed'
  <2>1. building \in 1..MaxLoads /\ depth \in Nat
    BY <1>InsertBit, LoadsAssumption DEF InsertBit, Stored, Prefixes
  <2>2. trie'[building].nodes = trie[building].nodes \cup {Node(net.addr, depth + 1)}
    BY <1>InsertBit, <2>1 DEF InsertBit, Tries
  <2>3. \A t \in 1..MaxLoads : /\ trie'[t].terminal = trie[t].terminal
                               /\ trie[t].nodes \subseteq trie'[t].nodes
    BY <1>InsertBit, <2>1 DEF InsertBit, Tries
  <2>4. \A j \in 1..(depth + 1) : Node(net.addr, j) \in trie'[building].nodes
    BY <1>InsertBit, <2>1, <2>2 DEF InsertBit, Pathed
  <2> QED BY <1>InsertBit, <2>3, <2>4 DEF InsertBit, Pathed
<1>InsertEnd. ASSUME InsertEnd PROVE Pathed'
  <2>1. building \in 1..MaxLoads /\ net \in Stored /\ depth = net.bits
    BY <1>InsertEnd, LoadsAssumption DEF InsertEnd
  <2>2. net.addr \in Addrs /\ net.bits \in 0..MaxBits(net.addr)
    BY <2>1 DEF Stored, Prefixes
  <2>3. trie'[building].terminal = trie[building].terminal \cup {Node(net.addr, net.bits)}
    BY <1>InsertEnd, <2>1 DEF InsertEnd, Tries
  <2>4. \A t \in 1..MaxLoads : /\ trie'[t].nodes = trie[t].nodes
                               /\ t # building => trie'[t] = trie[t]
    BY <1>InsertEnd, <2>1 DEF InsertEnd, Tries
  <2>5. ASSUME NEW t \in 1..MaxLoads, NEW a \in Addrs, NEW m \in 0..MaxBits(a),
               Node(a, m) \in trie'[t].terminal, NEW j \in 1..m
        PROVE  Node(a, j) \in trie'[t].nodes
    <3>1. CASE Node(a, m) \in trie[t].terminal
      BY <2>4, <2>5, <3>1 DEF Pathed
    <3>2. CASE t = building /\ Node(a, m) = Node(net.addr, net.bits)
      <4>1. m = net.bits /\ Node(a, j) = Node(net.addr, j)
        <5>1. m = net.bits /\ a.fam = net.addr.fam
              /\ \A k \in 0..(m - 1) : a.bits[k] = net.addr.bits[k]
          BY <2>2, <3>2, NodeEqual
        <5>2. m \in Nat
          BY MaxBitsType DEF Addrs
        <5>3. \A k \in 0..(j - 1) : a.bits[k] = net.addr.bits[k]
          BY <5>1, <5>2
        <5> QED BY <5>1, <5>3 DEF Node
      <4> QED BY <1>InsertEnd, <2>1, <2>4, <3>2, <4>1 DEF InsertEnd, Pathed
    <3> QED BY <2>3, <2>4, <2>5, <3>1, <3>2
  <2> QED BY <1>InsertEnd, <2>5 DEF InsertEnd, Pathed
<1>LoadFails. ASSUME LoadFails PROVE Pathed'
  BY <1>LoadFails DEF LoadFails, Pathed, source
<1>Swap. ASSUME Swap PROVE Pathed'
  BY <1>Swap DEF Swap, Pathed
<1> QED
  BY <1>stutter, <1>BeginLoad, <1>Skip, <1>BeginInsert, <1>InsertBit, <1>InsertEnd,
     <1>LoadFails, <1>Swap, RequestsOnlyRead
  DEF Next, Load, vars

LEMMA NextMarked == Owned /\ Marked /\ [Next]_vars => Marked'
<1> SUFFICES ASSUME Owned, Marked, [Next]_vars PROVE Marked'
  OBVIOUS
<1> USE LoadsAssumption, NoneNotStored
<1> USE DEF Owned, TypeOK, Apart
<1>stutter. CASE UNCHANGED <<source, loader>>
  BY <1>stutter DEF Marked, Pending, source, loader
<1>BeginLoad. ASSUME NEW db \in Databases, BeginLoad(db) PROVE Marked'
  <2>1. Marks(db \ db) = {}
    BY DEF Marks, Blocked
  <2>2. trie[loads + 1] = EmptyTrie /\ Pending = {}
    BY <1>BeginLoad DEF BeginLoad, Marked, Pending
  <2>3. Pending' = {} /\ trie' = trie /\ building' = loads + 1 /\ loads' = loads + 1
    BY <1>BeginLoad DEF BeginLoad, Pending
  <2>4. trie'[building'].terminal = {} /\ Marks(file' \ left') = {}
    <3>1. EmptyTrie.terminal = {} /\ trie'[building'] = EmptyTrie
      BY <2>2, <2>3 DEF EmptyTrie
    <3>2. file' = db /\ left' = db
      BY <1>BeginLoad DEF BeginLoad
    <3>3. Marks(file' \ left') = Marks(db \ db)
      BY <3>2
    <3> QED BY <2>1, <3>1, <3>3
  <2>5. \A t \in 1..MaxLoads : t > loads' => trie'[t] = EmptyTrie
    BY <2>3 DEF Marked
  <2> QED BY <2>3, <2>4, <2>5 DEF Marked
<1>Skip. ASSUME NEW rec \in left, Skip(rec) PROVE Marked'
  <2>1. rec \in file /\ rec.net \in Prefixes
    BY <1>Skip, DatabasesAssumption DEF Skip, Visit
  <2>2. Marks(file \ (left \ {rec})) = Marks(file \ left)
    <3>1. left \in SUBSET file /\ ~(rec.country \in Countries /\ Kept(rec.net))
      BY <1>Skip DEF Skip
    <3>2. Marks(file \ (left \ {rec})) = Marks(file \ left) \cup {}
      BY <2>1, <3>1, MarksVisited
    <3> QED BY <3>2
  <2> QED BY <1>Skip, <2>2 DEF Skip, Visit, Marked, Pending, source
<1>BeginInsert. ASSUME NEW rec \in left, BeginInsert(rec) PROVE Marked'
  <2>1. rec \in file /\ rec.net \in Prefixes
    BY <1>BeginInsert, DatabasesAssumption DEF BeginInsert, Visit
  <2>2. Marks(file \ (left \ {rec})) =
           Marks(file \ left) \cup {Node(Canonical(rec.net).addr, Canonical(rec.net).bits)}
    BY <1>BeginInsert, <2>1, MarksVisited DEF BeginInsert
  <2>3. net' # None /\ Pending = {}
    BY <1>BeginInsert, <2>1, KeptStored DEF BeginInsert, Visit, Pending
  <2> QED BY <1>BeginInsert, <2>2, <2>3 DEF BeginInsert, Visit, Marked, Pending, source
<1>InsertBit. ASSUME InsertBit PROVE Marked'
  <2>1. building \in 1..loads /\ loads \in 0..MaxLoads
    BY <1>InsertBit DEF InsertBit
  <2>2. trie'[building].terminal = trie[building].terminal
    BY <1>InsertBit, <2>1 DEF InsertBit, Tries
  <2>3. \A t \in 1..MaxLoads : t # building => trie'[t] = trie[t]
    BY OnlyBuilding
  <2>4. /\ building' = building /\ loads' = loads /\ Pending' = Pending
        /\ Marks(file' \ left') = Marks(file \ left)
    BY <1>InsertBit DEF InsertBit, Pending
  <2>5. \A t \in 1..MaxLoads : t > loads' => trie'[t] = EmptyTrie
    <3> TAKE t \in 1..MaxLoads
    <3> HAVE t > loads'
    <3>1. t > loads /\ t # building
      BY <2>1, <2>4
    <3>2. trie[t] = EmptyTrie
      BY <3>1 DEF Marked
    <3> QED BY <2>3, <3>1, <3>2
  <2> QED BY <2>1, <2>2, <2>4, <2>5 DEF Marked
<1>InsertEnd. ASSUME InsertEnd PROVE Marked'
  <2>1. building \in 1..loads /\ loads \in 0..MaxLoads /\ depth = net.bits
    BY <1>InsertEnd DEF InsertEnd
  <2>2. trie'[building].terminal = trie[building].terminal \cup Pending
    BY <1>InsertEnd, <2>1 DEF InsertEnd, Tries, Pending
  <2>3. \A t \in 1..MaxLoads : t # building => trie'[t] = trie[t]
    BY OnlyBuilding
  <2>4. /\ building' = building /\ loads' = loads /\ Pending' = {}
        /\ Marks(file' \ left') = Marks(file \ left)
    BY <1>InsertEnd DEF InsertEnd, Pending
  <2>5. \A t \in 1..MaxLoads : t > loads' => trie'[t] = EmptyTrie
    <3> TAKE t \in 1..MaxLoads
    <3> HAVE t > loads'
    <3>1. t > loads /\ t # building
      BY <2>1, <2>4
    <3>2. trie[t] = EmptyTrie
      BY <3>1 DEF Marked
    <3> QED BY <2>3, <3>1, <3>2
  <2> QED BY <2>1, <2>2, <2>4, <2>5 DEF Marked
<1>LoadFails. ASSUME LoadFails PROVE Marked'
  BY <1>LoadFails DEF LoadFails, Marked, source
<1>Swap. ASSUME Swap PROVE Marked'
  BY <1>Swap DEF Swap, Marked
<1> QED
  BY <1>stutter, <1>BeginLoad, <1>Skip, <1>BeginInsert, <1>InsertBit, <1>InsertEnd,
     <1>LoadFails, <1>Swap, RequestsOnlyRead
  DEF Next, Load, vars

LEMMA NextBuilt == Owned /\ Built /\ [Next]_vars => Built'
BY NextCounted, NextPathed, NextMarked DEF Built

LEMMA AlwaysBuilt == Spec => []Built
BY InitBuilt, AlwaysOwned, NextBuilt, PTL DEF Spec

(* Len() of a finished trie is the number of distinct networks that it     *)
(* blocks and that can match, duplicates and mapped prefixes apart.        *)
THEOREM LenAlwaysExact == Spec => []LenExact
<1>1. Owned /\ Built => LenExact
  <2> SUFFICES ASSUME Owned, Built, building # 0, left = {}, net = None
               PROVE  trie[building].count = Cardinality(Marks(file))
    BY DEF LenExact, Marks
  <2>1. building \in 1..MaxLoads
    BY LoadsAssumption DEF Owned, TypeOK
  <2>2. trie[building].terminal = Marks(file)
    BY DEF Built, Marked, Pending
  <2> QED BY <2>1, <2>2 DEF Built, Counted
<1> QED BY <1>1, AlwaysOwned, AlwaysBuilt, PTL

----------------------------------------------------------------------------
(* What a trie answers, found from its terminal nodes.                     *)
LEMMA ContentNodes ==
    ASSUME Counted, NEW t \in 1..MaxLoads, NEW a \in Addrs
    PROVE  a \in Content(t) <=> \E m \in 0..MaxBits(a) : Node(a, m) \in trie[t].terminal
<1>1. ASSUME NEW n \in trie[t].terminal, OnPath(n, a)
      PROVE  \E m \in 0..MaxBits(a) : Node(a, m) \in trie[t].terminal
  <2>1. PICK q \in Stored : n = Node(q.addr, q.bits)
    BY DEF Counted, StoredNodes
  <2>2. q \in Prefixes
    BY DEF Stored
  <2>3. Covers(q, a)
    BY <1>1, <2>1, <2>2, CoversPath
  <2>4. q.bits \in 0..MaxBits(a) /\ Node(q.addr, q.bits) = Node(a, q.bits)
    BY <2>2, <2>3, CoversNode
  <2> QED BY <2>1, <2>4
<1>2. ASSUME NEW m \in 0..MaxBits(a), Node(a, m) \in trie[t].terminal PROVE a \in Content(t)
  BY <1>2, NodeOnPath DEF Content
<1> QED BY <1>1, <1>2 DEF Content

LEMMA ContentEmpty ==
    ASSUME Counted, NEW t \in 1..MaxLoads PROVE Content(t) = {} <=> trie[t].count = 0
<1>1. trie[t].count = 0 <=> trie[t].terminal = {}
  BY FS_EmptySet DEF Counted
<1>2. ASSUME NEW n \in trie[t].terminal PROVE Content(t) # {}
  <2>1. PICK q \in Stored : n = Node(q.addr, q.bits)
    BY DEF Counted, StoredNodes
  <2>2. q.addr \in Addrs /\ q.bits \in 0..MaxBits(q.addr)
    BY DEF Stored, Prefixes
  <2>3. q.addr \in Content(t)
    BY <2>1, <2>2, ContentNodes
  <2> QED BY <2>3
<1>3. trie[t].terminal = {} => Content(t) = {}
  BY DEF Content
<1> QED BY <1>1, <1>2, <1>3

(* A finished trie covers what its database says. *)
LEMMA ContentFinished ==
    ASSUME Owned, Built, building # 0, left = {}, net = None
    PROVE  Content(building) = CoveredBy(file) /\ CoveredBy(file) \in Contents
<1>0. file \in Databases /\ building \in 1..MaxLoads
  BY LoadsAssumption DEF Owned, TypeOK, Apart
<1>1. trie[building].terminal = Marks(file)
  BY DEF Built, Marked, Pending
<1>2. \A p \in Blocked(file) : p \in Prefixes
  BY <1>0, DatabasesAssumption DEF Blocked
<1>3. ASSUME NEW a \in Addrs
      PROVE  (\E n \in Marks(file) : OnPath(n, a)) <=> \E p \in Blocked(file) : Covers(p, a)
  <2>1. ASSUME NEW n \in Marks(file), OnPath(n, a) PROVE \E p \in Blocked(file) : Covers(p, a)
    <3>1. PICK p \in Blocked(file) : n = Node(p.addr, p.bits)
      BY DEF Marks
    <3> QED BY <1>2, <2>1, <3>1, CoversPath
  <2>2. ASSUME NEW p \in Blocked(file), Covers(p, a)
        PROVE  \E n \in Marks(file) : OnPath(n, a)
    <3>1. ~Mapped(p)
      BY <1>2, <2>2, MappedCoversNothing
    <3>2. Node(p.addr, p.bits) \in Marks(file)
      BY <3>1 DEF Marks
    <3> QED BY <1>2, <2>2, <3>2, CoversPath
  <2> QED BY <2>1, <2>2
<1>4. Content(building) = CoveredBy(file)
  BY <1>1, <1>3 DEF Content, CoveredBy
<1> QED BY <1>0, <1>4 DEF Contents

(* A trie a reader may hold has what some database says. *)
Served ==
    /\ current # 0 => Content(current) \in Contents
    /\ \A r \in Reqs : snap[r] # 0 => Content(snap[r]) \in Contents

LEMMA ContentFrozen ==
    ASSUME Owned, [Next]_vars
    PROVE  /\ current # 0 => /\ trie'[current] = trie[current]
                             /\ Content(current) = {a \in Addrs :
                                   \E n \in trie'[current].terminal : OnPath(n, a)}
           /\ \A r \in Reqs : snap[r] # 0 =>
                  /\ trie'[snap[r]] = trie[snap[r]]
                  /\ Content(snap[r]) = {a \in Addrs :
                        \E n \in trie'[snap[r]].terminal : OnPath(n, a)}
<1>1. current # 0 => trie'[current] = trie[current]
  BY OnlyBuilding DEF Owned, TypeOK, Apart
<1>2. \A r \in Reqs : snap[r] # 0 => trie'[snap[r]] = trie[snap[r]]
  BY OnlyBuilding DEF Owned, TypeOK, Apart
<1> QED BY <1>1, <1>2 DEF Content

LEMMA NextServed == Owned /\ Built /\ Served /\ [Next]_vars => Served'
<1> SUFFICES ASSUME Owned, Built, Served, [Next]_vars PROVE Served'
  OBVIOUS
<1> USE ContentFrozen
<1>1. CASE Swap
  <2>1. Content(building) \in Contents
    BY <1>1, ContentFinished DEF Swap
  <2>2. trie' = trie /\ current' = building /\ snap' = snap
    BY <1>1 DEF Swap, request
  <2> QED BY <2>1, <2>2 DEF Served, Content
<1>2. ASSUME NEW r \in Reqs, Lookup(r) PROVE Served'
  <2>1. trie' = trie /\ current' = current /\ snap' = [snap EXCEPT ![r] = current]
    BY <1>2 DEF Lookup, source
  <2>2. \A q \in Reqs : snap'[q] = snap[q] \/ snap'[q] = current
    BY <2>1 DEF Owned, TypeOK
  <2> QED BY <2>1, <2>2 DEF Served, Content
<1>3. CASE UNCHANGED <<current, snap>>
  BY <1>3 DEF Served, Content
<1>4. ASSUME ~Swap, ~(\E r \in Reqs : Lookup(r)) PROVE UNCHANGED <<current, snap>>
  BY <1>4 DEF Next, Load, BeginLoad, Skip, BeginInsert, InsertBit, InsertEnd, LoadFails,
     Check, Arrive, StartupAnswer, Judge, RealIP, NoRealIP, ForwardedFor, SkipEntry,
     NoAddress, Covered, NotCovered, Descend, vars, source, request
<1> QED BY <1>1, <1>2, <1>3, <1>4

LEMMA AlwaysServed == Spec => []Served
<1>1. Init => Served
  BY DEF Init, Served
<1> QED BY <1>1, AlwaysOwned, AlwaysBuilt, NextServed, PTL DEF Spec

----------------------------------------------------------------------------
(* How far a request has come: what its two loops have ruled out.          *)
Skipped(r) ==
    /\ ~Parses(header[r].real)
    /\ i[r] \in 0..Len(header[r].xff)
    /\ \A k \in 1..Len(header[r].xff) : k > i[r] => ~Parses(header[r].xff[k])

Walked(r) ==
    /\ client[r] \in Addrs /\ client[r] = ClientOf(header[r])
    /\ i[r] \in 0..MaxBits(client[r])
    /\ \A j \in 0..MaxBits(client[r]) :
          j < i[r] => Node(client[r], j) \notin trie[snap[r]].terminal

Progress(r) ==
    /\ response[r] = None <=> pc[r] # "done"
    /\ pc[r] \in {"realIP", "xff", "walk"} => Usable(r)
    /\ pc[r] = "xff" => Skipped(r)
    /\ pc[r] = "walk" => Walked(r)

(* Another's step, or the loader's, leaves a request where it was. *)
LEMMA OthersProgress ==
    ASSUME Owned, [Next]_vars, NEW r \in Reqs, Progress(r),
           pc'[r] = pc[r], header'[r] = header[r], snap'[r] = snap[r],
           client'[r] = client[r], i'[r] = i[r], response'[r] = response[r]
    PROVE  Progress(r)'
<1>1. snap[r] # 0 => trie'[snap[r]] = trie[snap[r]]
  BY ContentFrozen
<1>2. Usable(r) => Usable(r)'
  BY <1>1 DEF Usable
<1>3. Skipped(r) => Skipped(r)'
  BY DEF Skipped
<1>4. Usable(r) /\ Walked(r) => Walked(r)'
  BY <1>1 DEF Walked, Usable
<1> QED BY <1>2, <1>3, <1>4 DEF Progress

LEMMA OnlyOwn ==
    ASSUME Owned, NEW r \in Reqs, Check(r), NEW q \in Reqs, q # r
    PROVE  /\ pc'[q] = pc[q] /\ header'[q] = header[q] /\ snap'[q] = snap[q]
           /\ client'[q] = client[q] /\ i'[q] = i[q] /\ response'[q] = response[q]
BY DEF Check, Arrive, Lookup, StartupAnswer, Judge, RealIP, NoRealIP, ForwardedFor,
       SkipEntry, NoAddress, Covered, NotCovered, Descend, Goto, Respond, Extracted,
       Owned, TypeOK

LEMMA LoadOnly ==
    ASSUME Load PROVE UNCHANGED request
BY DEF Load, BeginLoad, Skip, BeginInsert, InsertBit, InsertEnd, LoadFails, Swap

(* The entry at which the right-to-left loop stops is the one ClientOf     *)
(* means.                                                                  *)
LEMMA StopsAtClient ==
    ASSUME NEW r \in Reqs, header[r] \in Headers, Skipped(r), i[r] > 0,
           Parses(header[r].xff[i[r]])
    PROVE  ClientOf(header[r]) = Unmap(header[r].xff[i[r]])
<1> DEFINE h == header[r]
           valid == {k \in DOMAIN h.xff : Parses(h.xff[k])}
<1>1. h.xff \in Seq(V4 \cup V6 \cup {Blank, Junk})
  BY HeadersAssumption
<1>2. DOMAIN h.xff = 1..Len(h.xff) /\ Len(h.xff) \in Nat
  BY <1>1
<1>3. i[r] \in valid /\ \A l \in valid : l <= i[r]
  BY <1>2 DEF Skipped
<1>4. \A x \in valid : (\A l \in valid : l <= x) => x = i[r]
  BY <1>2, <1>3
<1>5. (CHOOSE k \in valid : \A l \in valid : l <= k) = i[r]
  BY <1>3, <1>4
<1> QED BY <1>3, <1>5 DEF ClientOf, Skipped

LEMMA NothingParses ==
    ASSUME NEW r \in Reqs, header[r] \in Headers, Skipped(r), i[r] = 0
    PROVE  ClientOf(header[r]) = Unparseable
<1>1. header[r].xff \in Seq(V4 \cup V6 \cup {Blank, Junk})
  BY HeadersAssumption
<1>2. DOMAIN header[r].xff = 1..Len(header[r].xff) /\ Len(header[r].xff) \in Nat
  BY <1>1
<1>3. {k \in DOMAIN header[r].xff : Parses(header[r].xff[k])} = {}
  BY <1>2 DEF Skipped
<1> QED BY <1>3 DEF ClientOf, Skipped

LEMMA OwnProgress ==
    ASSUME Owned, NEW r \in Reqs, Check(r), Progress(r) PROVE Progress(r)'
<1> USE DEF Owned, TypeOK, Asked, Goto, Respond
<1>0. trie' = trie
  BY RequestsOnlyRead DEF source
<1>h. pc[r] # "idle" => header[r] \in Headers
  OBVIOUS
<1>Arrive. ASSUME NEW h \in Headers, Arrive(r, h) PROVE Progress(r)'
  BY <1>Arrive DEF Arrive, Progress
<1>Lookup. ASSUME Lookup(r) PROVE Progress(r)'
  BY <1>Lookup DEF Lookup, Progress
<1>StartupAnswer. ASSUME StartupAnswer(r) PROVE Progress(r)'
  BY <1>StartupAnswer, NoneAssumption DEF StartupAnswer, Progress
<1>Judge. ASSUME Judge(r) PROVE Progress(r)'
  BY <1>Judge, <1>0 DEF Judge, Progress, Usable
<1>RealIP. ASSUME RealIP(r) PROVE Progress(r)'
  <2>1. Unmap(header[r].real) \in Addrs /\ ClientOf(header[r]) = Unmap(header[r].real)
    BY <1>RealIP, UnmapType DEF RealIP, Parses, ClientOf
  <2>2. client'[r] = Unmap(header[r].real) /\ i'[r] = 0 /\ header' = header
    BY <1>RealIP DEF RealIP, Extracted
  <2>3. MaxBits(Unmap(header[r].real)) \in Nat
    BY <2>1, MaxBitsType DEF Addrs
  <2>4. Walked(r)'
    BY <2>1, <2>2, <2>3 DEF Walked
  <2>5. Usable(r)'
    BY <1>RealIP, <1>0 DEF RealIP, Progress, Usable
  <2> QED BY <1>RealIP, <2>4, <2>5 DEF RealIP, Progress
<1>NoRealIP. ASSUME NoRealIP(r) PROVE Progress(r)'
  <2>1. Len(header[r].xff) \in Nat
    BY <1>NoRealIP, <1>h, HeadersAssumption DEF NoRealIP
  <2>2. Skipped(r)'
    BY <1>NoRealIP, <2>1 DEF NoRealIP, Skipped
  <2>3. Usable(r)'
    BY <1>NoRealIP, <1>0 DEF NoRealIP, Progress, Usable
  <2> QED BY <1>NoRealIP, <2>2, <2>3 DEF NoRealIP, Progress
<1>ForwardedFor. ASSUME ForwardedFor(r) PROVE Progress(r)'
  <2>1. /\ Unmap(header[r].xff[i[r]]) \in Addrs
        /\ ClientOf(header[r]) = Unmap(header[r].xff[i[r]])
    BY <1>ForwardedFor, <1>h, UnmapType, StopsAtClient DEF ForwardedFor, Parses, Progress
  <2>2. client'[r] = Unmap(header[r].xff[i[r]]) /\ i'[r] = 0 /\ header' = header
    BY <1>ForwardedFor DEF ForwardedFor, Extracted
  <2>3. MaxBits(Unmap(header[r].xff[i[r]])) \in Nat
    BY <2>1, MaxBitsType DEF Addrs
  <2>4. Walked(r)'
    BY <2>1, <2>2, <2>3 DEF Walked
  <2>5. Usable(r)'
    BY <1>ForwardedFor, <1>0 DEF ForwardedFor, Progress, Usable
  <2> QED BY <1>ForwardedFor, <2>4, <2>5 DEF ForwardedFor, Progress
<1>SkipEntry. ASSUME SkipEntry(r) PROVE Progress(r)'
  <2>1. Len(header[r].xff) \in Nat
    BY <1>SkipEntry, <1>h, HeadersAssumption DEF SkipEntry
  <2>2. Skipped(r)'
    BY <1>SkipEntry, <2>1 DEF SkipEntry, Progress, Skipped
  <2>3. Usable(r)'
    BY <1>SkipEntry, <1>0 DEF SkipEntry, Progress, Usable
  <2> QED BY <1>SkipEntry, <2>2, <2>3 DEF SkipEntry, Progress
<1>NoAddress. ASSUME NoAddress(r) PROVE Progress(r)'
  BY <1>NoAddress, NoneAssumption DEF NoAddress, Progress
<1>Covered. ASSUME Covered(r) PROVE Progress(r)'
  BY <1>Covered, NoneAssumption DEF Covered, Progress
<1>NotCovered. ASSUME NotCovered(r) PROVE Progress(r)'
  BY <1>NotCovered, NoneAssumption DEF NotCovered, Progress
<1>Descend. ASSUME Descend(r) PROVE Progress(r)'
  <2>1. Walked(r) /\ Usable(r) /\ MaxBits(client[r]) \in Nat
    BY <1>Descend, MaxBitsType DEF Descend, Progress, Walked, Addrs
  <2>2. i'[r] = i[r] + 1 /\ client' = client /\ header' = header /\ snap' = snap /\ pc' = pc
        /\ response' = response
    BY <1>Descend DEF Descend
  <2>3. Walked(r)'
    BY <1>Descend, <1>0, <2>1, <2>2 DEF Descend, Here, Walked
  <2>4. Usable(r)'
    BY <1>0, <2>1, <2>2 DEF Usable
  <2> QED BY <1>Descend, <2>2, <2>3, <2>4 DEF Descend, Progress
<1> QED
  BY <1>Arrive, <1>Lookup, <1>StartupAnswer, <1>Judge, <1>RealIP, <1>NoRealIP,
     <1>ForwardedFor, <1>SkipEntry, <1>NoAddress, <1>Covered, <1>NotCovered, <1>Descend
  DEF Check

Handling == \A r \in Reqs : Progress(r)

LEMMA NextHandling == Owned /\ Handling /\ [Next]_vars => Handling'
<1> SUFFICES ASSUME Owned, Handling, [Next]_vars, NEW q \in Reqs PROVE Progress(q)'
  BY DEF Handling
<1>0. Progress(q)
  BY DEF Handling
<1>1. CASE Load
  BY <1>0, <1>1, LoadOnly, OthersProgress DEF request
<1>2. CASE UNCHANGED vars
  BY <1>0, <1>2, OthersProgress DEF vars, request
<1>3. ASSUME NEW r \in Reqs, Check(r) PROVE Progress(q)'
  <2>1. CASE q = r
    BY <1>0, <1>3, <2>1, OwnProgress
  <2>2. CASE q # r
    BY <1>0, <1>3, <2>2, OnlyOwn, OthersProgress
  <2> QED BY <2>1, <2>2
<1> QED BY <1>1, <1>2, <1>3 DEF Next

LEMMA AlwaysHandling == Spec => []Handling
<1>1. Init => Handling
  BY DEF Init, Handling, Progress
<1> QED BY <1>1, AlwaysOwned, NextHandling, PTL DEF Spec

----------------------------------------------------------------------------
(* The steps of ForwardAuth.  AbsRequest and the others are the values of  *)
(* its variables.                                                          *)
AbsRequest ==
    [r \in Reqs |-> IF header[r] = None THEN None
                    ELSE [op |-> "check", addr |-> ClientOf(header[r])]]

AbsAgainst ==
    [r \in Reqs |-> IF pc[r] \in {"idle", "lookup"} THEN None ELSE ContentAt(snap[r])]

Settled == Owned /\ Built /\ Served /\ Handling

LEMMA AbstractTypes ==
    ASSUME Settled
    PROVE  /\ ContentAt(current) \in Contents \cup {NoTrie}
           /\ \A r \in Reqs : ContentAt(snap[r]) \in Contents \cup {NoTrie}
           /\ \A h \in Headers : [op |-> "check", addr |-> ClientOf(h)] # None
BY ClientType, NoneAssumption DEF Settled, Served, ContentAt

(* An answer is ForwardAuth's for the client and the trie looked up. *)
LEMMA VerdictRefines ==
    ASSUME Settled, NEW r \in Reqs, NEW v,
           pc[r] \notin {"idle", "lookup", "done"},
           v = ForwardAuth!CheckVerdict(ContentAt(snap[r]), ClientOf(header[r])),
           pc' = [pc EXCEPT ![r] = "done"], response' = [response EXCEPT ![r] = v],
           UNCHANGED <<source, header, snap>>
    PROVE  ForwardAuth!Respond(r)
<1> USE DEF Settled, Owned, TypeOK
<1>1. header[r] \in Headers /\ ContentAt(snap[r]) # None
  BY AbstractTypes, NoneAssumption DEF Asked
<1>2. AbsAgainst[r] = ContentAt(snap[r])
      /\ AbsRequest[r] = [op |-> "check", addr |-> ClientOf(header[r])]
  BY <1>1, NoneAssumption DEF AbsAgainst, AbsRequest
<1>3. response[r] = None
  BY DEF Handling, Progress
<1>4. AbsRequest' = AbsRequest
  BY DEF AbsRequest
<1>5. AbsAgainst' = AbsAgainst /\ ContentAt(current)' = ContentAt(current)
  BY DEF AbsAgainst, ContentAt, Content, source
<1>6. ForwardAuth!Verdict(AbsRequest[r], AbsAgainst[r]) = v
  BY <1>2 DEF ForwardAuth!Verdict
<1> QED BY <1>1, <1>2, <1>3, <1>4, <1>5, <1>6
        DEF ForwardAuth!Respond, AbsRequest, AbsAgainst

LEMMA UsableRefines ==
    ASSUME Settled, NEW r \in Reqs
    PROVE  ForwardAuth!Usable(ContentAt(snap[r])) <=> Usable(r)
<1>1. CASE snap[r] = 0
  BY <1>1 DEF ForwardAuth!Usable, ContentAt, Usable
<1>2. CASE snap[r] # 0
  <2>1. snap[r] \in 1..MaxLoads
    BY <1>2, LoadsAssumption DEF Settled, Owned, TypeOK
  <2>2. ContentAt(snap[r]) = Content(snap[r]) /\ Content(snap[r]) # NoTrie
    BY <1>2, AbsentAssumption DEF ContentAt, Settled, Served
  <2>3. Content(snap[r]) = {} <=> trie[snap[r]].count = 0
    BY <2>1, ContentEmpty DEF Settled, Built
  <2> QED BY <1>2, <2>2, <2>3 DEF ForwardAuth!Usable, Usable
<1> QED BY <1>1, <1>2

(* The walk ends below the last terminal node of the client's path. *)
LEMMA WalkFinds ==
    ASSUME Settled, NEW r \in Reqs, pc[r] = "walk"
    PROVE  /\ Here(r) \in trie[snap[r]].terminal => client[r] \in Content(snap[r])
           /\ (/\ Here(r) \notin trie[snap[r]].terminal
               /\ i[r] = MaxBits(client[r]) \/ Child(r) \notin trie[snap[r]].nodes)
                 => client[r] \notin Content(snap[r])
<1>1. Walked(r) /\ Usable(r)
  BY DEF Settled, Handling, Progress
<1>2. snap[r] \in 1..MaxLoads
  BY <1>1, LoadsAssumption DEF Usable, Settled, Owned, TypeOK
<1>3. MaxBits(client[r]) \in Nat /\ client[r] \in Addrs /\ i[r] \in 0..MaxBits(client[r])
  BY <1>1, MaxBitsType DEF Walked, Addrs
<1>4. Here(r) \in trie[snap[r]].terminal => client[r] \in Content(snap[r])
  BY <1>2, <1>3, ContentNodes DEF Here, Settled, Built
<1>5. ASSUME Here(r) \notin trie[snap[r]].terminal,
             i[r] = MaxBits(client[r]) \/ Child(r) \notin trie[snap[r]].nodes,
             client[r] \in Content(snap[r])
      PROVE  FALSE
  <2>1. PICK m \in 0..MaxBits(client[r]) : Node(client[r], m) \in trie[snap[r]].terminal
    BY <1>2, <1>3, <1>5, ContentNodes DEF Settled, Built
  <2>2. ~(m < i[r]) /\ m # i[r]
    BY <1>1, <1>5, <2>1 DEF Walked, Here
  <2>3. i[r] + 1 \in 1..m
    BY <1>3, <2>2
  <2>4. Child(r) \in trie[snap[r]].nodes
    BY <1>2, <1>3, <2>1, <2>3 DEF Child, Settled, Built, Pathed
  <2> QED BY <1>3, <1>5, <2>3, <2>4
<1> QED BY <1>4, <1>5

LEMMA LoadRefines ==
    ASSUME Settled, Load PROVE ForwardAuth!Next \/ UNCHANGED ForwardAuth!vars
<1>1. pc' = pc /\ header' = header /\ snap' = snap /\ response' = response
  BY LoadOnly DEF request
<1>2. \A r \in Reqs : ContentAt(snap[r])' = ContentAt(snap[r])
  BY <1>1, ContentFrozen DEF ContentAt, Content, Settled, Next
<1>3. AbsRequest' = AbsRequest /\ AbsAgainst' = AbsAgainst
  BY <1>1, <1>2 DEF AbsRequest, AbsAgainst
<1>4. CASE Swap
  <2>1. trie' = trie /\ current' = building /\ building # 0 /\ left = {} /\ net = None
    BY <1>4 DEF Swap
  <2>2. ContentAt(current)' = CoveredBy(file) /\ CoveredBy(file) \in Contents
    BY <2>1, ContentFinished DEF ContentAt, Content, Settled
  <2>3. ForwardAuth!Swap(CoveredBy(file))
    BY <1>1, <1>3, <2>2 DEF ForwardAuth!Swap, AbsRequest, AbsAgainst
  <2> QED BY <2>2, <2>3 DEF ForwardAuth!Next
<1>5. CASE ~Swap
  <2>1. current' = current
    BY <1>5 DEF Load, BeginLoad, Skip, BeginInsert, InsertBit, InsertEnd, LoadFails, source
  <2>2. ContentAt(current)' = ContentAt(current)
    BY <2>1, ContentFrozen DEF ContentAt, Content, Settled, Next
  <2> QED BY <1>1, <1>3, <2>2 DEF ForwardAuth!vars, AbsRequest, AbsAgainst
<1> QED BY <1>4, <1>5

LEMMA CheckRefines ==
    ASSUME Settled, NEW r \in Reqs, Check(r)
    PROVE  ForwardAuth!Next \/ UNCHANGED ForwardAuth!vars
<1> USE DEF Settled, Owned, TypeOK, Goto
<1>0. UNCHANGED <<source, loader>> /\ ContentAt(current)' = ContentAt(current)
  BY RequestsOnlyRead DEF source, ContentAt, Content
<1>inside. ASSUME header' = header, snap' = snap, response' = response,
                  pc[r] \notin {"idle", "lookup"},
                  \/ pc' = pc
                  \/ \E to \in {"realIP", "xff", "walk"} : pc' = [pc EXCEPT ![r] = to]
           PROVE  UNCHANGED ForwardAuth!vars
  <2>1. AbsAgainst' = AbsAgainst /\ AbsRequest' = AbsRequest
    BY <1>0, <1>inside DEF AbsAgainst, AbsRequest, source, ContentAt, Content
  <2> QED BY <1>0, <1>inside, <2>1 DEF ForwardAuth!vars, AbsAgainst, AbsRequest
<1>Judge. ASSUME Judge(r) PROVE UNCHANGED ForwardAuth!vars
  BY <1>Judge, <1>inside DEF Judge
<1>RealIP. ASSUME RealIP(r) PROVE UNCHANGED ForwardAuth!vars
  BY <1>RealIP, <1>inside DEF RealIP
<1>NoRealIP. ASSUME NoRealIP(r) PROVE UNCHANGED ForwardAuth!vars
  BY <1>NoRealIP, <1>inside DEF NoRealIP
<1>ForwardedFor. ASSUME ForwardedFor(r) PROVE UNCHANGED ForwardAuth!vars
  BY <1>ForwardedFor, <1>inside DEF ForwardedFor
<1>SkipEntry. ASSUME SkipEntry(r) PROVE UNCHANGED ForwardAuth!vars
  BY <1>SkipEntry, <1>inside DEF SkipEntry
<1>Descend. ASSUME Descend(r) PROVE UNCHANGED ForwardAuth!vars
  BY <1>Descend, <1>inside DEF Descend
<1>Arrive. ASSUME NEW h \in Headers, Arrive(r, h) PROVE ForwardAuth!Next
  <2> DEFINE q == [op |-> "check", addr |-> ClientOf(h)]
  <2>1. q \in ForwardAuth!Requests
    BY ClientType DEF ForwardAuth!Requests
  <2>2. AbsRequest[r] = None /\ AbsRequest' = [AbsRequest EXCEPT ![r] = q]
    BY <1>Arrive, NoneAssumption DEF Arrive, AbsRequest, Asked
  <2>3. AbsAgainst' = AbsAgainst
    BY <1>0, <1>Arrive DEF Arrive, AbsAgainst, source, ContentAt, Content
  <2>4. ForwardAuth!Arrive(r, q)
    BY <1>0, <1>Arrive, <2>2, <2>3 DEF Arrive, ForwardAuth!Arrive, AbsRequest, AbsAgainst
  <2> QED BY <2>1, <2>4 DEF ForwardAuth!Next
<1>Lookup. ASSUME Lookup(r) PROVE ForwardAuth!Next
  <2>1. header[r] \in Headers
    BY <1>Lookup DEF Lookup, Asked
  <2>2. AbsRequest[r] # None /\ AbsRequest[r].op = "check" /\ AbsRequest' = AbsRequest
    BY <1>Lookup, <2>1, AbstractTypes, NoneAssumption DEF Lookup, AbsRequest
  <2>3. AbsAgainst[r] = None /\ AbsAgainst' = [AbsAgainst EXCEPT ![r] = ContentAt(current)]
    BY <1>0, <1>Lookup DEF Lookup, AbsAgainst, source, ContentAt, Content
  <2>4. ForwardAuth!Choose(r)
    BY <1>0, <1>Lookup, <2>2, <2>3 DEF Lookup, ForwardAuth!Choose, AbsRequest, AbsAgainst
  <2> QED BY <2>4 DEF ForwardAuth!Next
<1> USE DEF Respond, ForwardAuth!CheckVerdict
<1>StartupAnswer. ASSUME StartupAnswer(r) PROVE ForwardAuth!Next
  <2>1. ForwardAuth!Respond(r)
    BY <1>0, <1>StartupAnswer, UsableRefines, VerdictRefines
    DEF StartupAnswer, ForwardAuth!FailOpen
  <2> QED BY <2>1 DEF ForwardAuth!Next
<1>NoAddress. ASSUME NoAddress(r) PROVE ForwardAuth!Next
  <2>1. Usable(r) /\ ClientOf(header[r]) = Unparseable
    BY <1>NoAddress, NothingParses DEF NoAddress, Handling, Progress, Asked
  <2>2. ForwardAuth!Respond(r)
    BY <1>0, <1>NoAddress, <2>1, UsableRefines, VerdictRefines DEF NoAddress
  <2> QED BY <2>2 DEF ForwardAuth!Next
<1>walk. pc[r] = "walk" => /\ Usable(r) /\ client[r] = ClientOf(header[r])
                           /\ client[r] # Unparseable
                           /\ ContentAt(snap[r]) = Content(snap[r])
  BY AbsentAssumption DEF Handling, Progress, Walked, Usable, ContentAt
<1>Covered. ASSUME Covered(r) PROVE ForwardAuth!Next
  <2>1. client[r] \in Content(snap[r])
    BY <1>Covered, WalkFinds DEF Covered
  <2>2. ForwardAuth!Respond(r)
    BY <1>0, <1>walk, <1>Covered, <2>1, UsableRefines, VerdictRefines DEF Covered
  <2> QED BY <2>2 DEF ForwardAuth!Next
<1>NotCovered. ASSUME NotCovered(r) PROVE ForwardAuth!Next
  <2>1. client[r] \notin Content(snap[r])
    BY <1>NotCovered, WalkFinds DEF NotCovered
  <2>2. ForwardAuth!Respond(r)
    BY <1>0, <1>walk, <1>NotCovered, <2>1, UsableRefines, VerdictRefines DEF NotCovered
  <2> QED BY <2>2 DEF ForwardAuth!Next
<1> QED
  BY <1>Arrive, <1>Lookup, <1>StartupAnswer, <1>Judge, <1>RealIP, <1>NoRealIP,
     <1>ForwardedFor, <1>SkipEntry, <1>NoAddress, <1>Covered, <1>NotCovered, <1>Descend
  DEF Check

(* The answers are those of the plain set of blocked addresses: the bits,  *)
(* the two loops, the address families and the builder change nothing.     *)
THEOREM AnswersAlways == Spec => Answers
<1>1. Init => ForwardAuth!Init
  BY DEF Init, ForwardAuth!Init, ContentAt
<1>2. Settled /\ [Next]_vars => [ForwardAuth!Next]_(ForwardAuth!vars)
  <2>1. CASE UNCHANGED vars
    BY <2>1 DEF vars, source, loader, request, ForwardAuth!vars, ContentAt, Content
  <2> QED BY <2>1, LoadRefines, CheckRefines DEF Next
<1>3. Spec => []Settled
  BY AlwaysOwned, AlwaysBuilt, AlwaysServed, AlwaysHandling, PTL DEF Settled
<1> QED BY <1>1, <1>2, <1>3, PTL DEF Spec, Answers, ForwardAuth!Spec

----------------------------------------------------------------------------
(* What follows from ForwardAuth for one request: an answer is the verdict *)
(* on its address, and neither is revised afterwards.                      *)
Judged ==
    \A r \in Reqs : response[r] # None =>
        /\ AbsRequest[r] # None /\ AbsAgainst[r] # None
        /\ response[r] = ForwardAuth!Verdict(AbsRequest[r], AbsAgainst[r])

LEMMA NextJudged ==
    ASSUME Settled, Judged, [ForwardAuth!Next]_(ForwardAuth!vars)
    PROVE  Judged'
<1>0. /\ response \in [Reqs -> {"allow", "block", None}]
      /\ AbsRequest = [r \in Reqs |-> AbsRequest[r]]
      /\ AbsAgainst = [r \in Reqs |-> AbsAgainst[r]]
  BY DEF Settled, Owned, TypeOK, AbsRequest, AbsAgainst
<1>1. \A r \in Reqs : AbsRequest[r] # None => AbsRequest[r].op = "check"
  BY DEF AbsRequest
<1>2. ASSUME AbsRequest' = AbsRequest, AbsAgainst' = AbsAgainst, response' = response
      PROVE  Judged'
  BY <1>2 DEF Judged
<1>same. CASE UNCHANGED ForwardAuth!vars
  <2>1. AbsRequest' = AbsRequest /\ AbsAgainst' = AbsAgainst /\ response' = response
    BY <1>same DEF ForwardAuth!vars, AbsRequest, AbsAgainst
  <2> QED BY <1>2, <2>1
<1>Swap. ASSUME NEW l \in Contents, ForwardAuth!Swap(l) PROVE Judged'
  <2>1. AbsRequest' = AbsRequest /\ AbsAgainst' = AbsAgainst /\ response' = response
    BY <1>Swap DEF ForwardAuth!Swap, AbsRequest, AbsAgainst
  <2> QED BY <1>2, <2>1
<1>Arrive. ASSUME NEW r \in Reqs, NEW q \in ForwardAuth!Requests, ForwardAuth!Arrive(r, q)
           PROVE  Judged'
  <2>1. /\ AbsRequest[r] = None /\ AbsRequest' = [AbsRequest EXCEPT ![r] = q]
        /\ AbsAgainst' = AbsAgainst /\ response' = response
    BY <1>Arrive DEF ForwardAuth!Arrive, AbsRequest, AbsAgainst
  <2>2. response[r] = None /\ \A o \in Reqs : o # r => AbsRequest'[o] = AbsRequest[o]
    BY <1>0, <2>1 DEF Judged
  <2> QED BY <2>1, <2>2 DEF Judged
<1>Choose. ASSUME NEW r \in Reqs, ForwardAuth!Choose(r) PROVE Judged'
  <2>1. /\ AbsAgainst[r] = None /\ AbsAgainst' = [AbsAgainst EXCEPT ![r] = ContentAt(current)]
        /\ AbsRequest' = AbsRequest /\ response' = response
    BY <1>Choose DEF ForwardAuth!Choose, AbsRequest, AbsAgainst
  <2>2. response[r] = None /\ \A o \in Reqs : o # r => AbsAgainst'[o] = AbsAgainst[o]
    BY <1>0, <2>1 DEF Judged
  <2> QED BY <2>1, <2>2 DEF Judged
<1>Respond. ASSUME NEW r \in Reqs, ForwardAuth!Respond(r) PROVE Judged'
  <2>1. /\ AbsAgainst[r] # None
        /\ response' = [response EXCEPT ![r] = ForwardAuth!Verdict(AbsRequest[r], AbsAgainst[r])]
        /\ AbsRequest' = AbsRequest /\ AbsAgainst' = AbsAgainst
    BY <1>Respond DEF ForwardAuth!Respond, AbsRequest, AbsAgainst
  <2>2. AbsRequest[r] # None
    <3>1. header[r] \in Headers
      BY <2>1 DEF AbsAgainst, Settled, Owned, TypeOK, Asked
    <3> QED BY <3>1, AbstractTypes, NoneAssumption DEF AbsRequest
  <2> QED BY <1>0, <2>1, <2>2 DEF Judged
<1>Reject. ASSUME NEW r \in Reqs, ForwardAuth!Reject(r) PROVE FALSE
  <2>1. AbsRequest[r] # None /\ AbsRequest[r].op = "otherMethod"
    BY <1>Reject DEF ForwardAuth!Reject, AbsRequest
  <2> QED BY <1>1, <2>1
<1> QED
  BY <1>same, <1>Swap, <1>Arrive, <1>Choose, <1>Respond, <1>Reject DEF ForwardAuth!Next

(* Who is let through: a client whose address, as the headers give it, is  *)
(* in no network of a blocked country in the database that is enforced, or *)
(* anybody while none is and the operator chose fail-open.                 *)
NoBypass ==
    \A r \in Reqs : response[r] = "allow" =>
        IF Usable(r)
        THEN \E db \in Databases : /\ Content(snap[r]) = CoveredBy(db)
                                   /\ ClientOf(header[r]) \in Addrs \ CoveredBy(db)
        ELSE StartupMode = "fail-open"

(* /check's "allow" means what it says, from the MMDB file to the header,  *)
(* for every database, list of countries and width of address.             *)
THEOREM NeverBypassed == Spec => []NoBypass
<1>1. Init => Judged
  BY DEF Init, Judged
<1>2. Settled /\ [Next]_vars => [ForwardAuth!Next]_(ForwardAuth!vars)
  <2>1. CASE UNCHANGED vars
    BY <2>1 DEF vars, source, loader, request, ForwardAuth!vars, ContentAt, Content
  <2> QED BY <2>1, LoadRefines, CheckRefines DEF Next
<1>3. Spec => []Settled
  BY AlwaysOwned, AlwaysBuilt, AlwaysServed, AlwaysHandling, PTL DEF Settled
<1>4. ASSUME Settled, Judged PROVE NoBypass
  <2> SUFFICES ASSUME NEW r \in Reqs, response[r] = "allow"
               PROVE  IF Usable(r)
                      THEN \E db \in Databases :
                              /\ Content(snap[r]) = CoveredBy(db)
                              /\ ClientOf(header[r]) \in Addrs \ CoveredBy(db)
                      ELSE StartupMode = "fail-open"
    BY DEF NoBypass
  <2>1. pc[r] = "done" /\ header[r] \in Headers /\ response[r] # None
    BY <1>4, NoneAssumption DEF Settled, Owned, TypeOK, Asked, Handling, Progress
  <2>2. /\ AbsRequest[r] = [op |-> "check", addr |-> ClientOf(header[r])]
        /\ AbsAgainst[r] = ContentAt(snap[r])
    BY <2>1, NoneAssumption DEF AbsRequest, AbsAgainst
  <2>3. "allow" = ForwardAuth!CheckVerdict(ContentAt(snap[r]), ClientOf(header[r]))
    BY <1>4, <2>1, <2>2 DEF Judged, ForwardAuth!Verdict
  <2>4. ForwardAuth!Usable(ContentAt(snap[r])) <=> Usable(r)
    BY <1>4, UsableRefines
  <2>5. CASE Usable(r)
    <3>1. snap[r] # 0 /\ ContentAt(snap[r]) = Content(snap[r])
      BY <2>5 DEF Usable, ContentAt
    <3>2. /\ ClientOf(header[r]) # Unparseable
          /\ ClientOf(header[r]) \notin Content(snap[r])
      BY <2>3, <2>4, <2>5, <3>1 DEF ForwardAuth!CheckVerdict
    <3>3. PICK db \in Databases : Content(snap[r]) = CoveredBy(db)
      BY <1>4, <3>1 DEF Settled, Served, Contents
    <3>4. ClientOf(header[r]) \in Addrs
      BY <2>1, <3>2, ClientType
    <3> QED BY <2>5, <3>2, <3>3, <3>4
  <2>6. CASE ~Usable(r)
    BY <2>3, <2>4, <2>6 DEF ForwardAuth!CheckVerdict, ForwardAuth!FailOpen
  <2> QED BY <2>5, <2>6
<1>5. Spec => []Judged
  BY <1>1, <1>2, <1>3, NextJudged, PTL DEF Spec
<1> QED BY <1>3, <1>4, <1>5, PTL
============================================================================
