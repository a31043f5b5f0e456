---------------------------- MODULE MCBlocklist ----------------------------
(* Two-bit IPv4 and five-bit IPv6 addresses; the mapped block is 001xx.    *)
EXTENDS Blocklist

Address(f, s) == [fam |-> f, bits |-> [k \in 0..(Len(s) - 1) |-> s[k + 1]]]
MCMappedTop == [k \in 0..2 |-> IF k = 2 THEN 1 ELSE 0]

v4(s) == Address("v4", s)
v6(s) == Address("v6", s)
Net(a, n, c) == [net |-> [addr |-> a, bits |-> n], country |-> c]

(* Nested, duplicate (with host bits), whole-family, single-address and    *)
(* mapped prefixes; of a blocked country "X" and another, "Y".             *)
MCDatabases == {
    {Net(v4(<<1, 0>>), 1, "X"), Net(v4(<<1, 1>>), 2, "X"), Net(v4(<<1, 1>>), 1, "X")},
    {Net(v4(<<0, 1>>), 2, "X"), Net(v6(<<0, 0, 1, 1, 0>>), 4, "X"),
     Net(v6(<<0, 0, 1, 0, 0>>), 2, "X")},
    {Net(v6(<<1, 0, 1, 0, 1>>), 5, "X"), Net(v4(<<0, 0>>), 0, "X")},
    {Net(v6(<<0, 0, 1, 1, 1>>), 5, "X"), Net(v4(<<1, 0>>), 0, "Y")}}

MCHeaders ==
    [real : {v4(<<1, 0>>), v6(<<0, 0, 1, 1, 0>>), v6(<<1, 0, 1, 0, 1>>)},
     xff : {<<v4(<<0, 0>>)>>}]
    \cup [real : {Blank, Junk},
          xff : {<<>>, <<Junk, Blank>>, <<v4(<<1, 1>>), v4(<<0, 0>>)>>,
                 <<v4(<<0, 1>>), Junk, v6(<<0, 0, 1, 1, 1>>), Blank>>}]
============================================================================
