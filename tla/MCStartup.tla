----------------------------- MODULE MCStartup -----------------------------
(* A valid file with at most two settings changed: each to the values on   *)
(* both sides of every check, to another valid one, or to nothing.         *)
EXTENDS Startup

Base == [host |-> "0.0.0.0", port |-> 9090, countries |-> {"CN"}, asns |-> {},
         dbip |-> TRUE, bgptools |-> FALSE, schedule |-> "@hourly", timeout |-> 2,
         code |-> 451, mode |-> "fail-open", path |-> "/tmp/cache", maxAge |-> 1,
         level |-> "error", format |-> "text"]

Others ==
    [host |-> {""}, port |-> {0, 1, 65535, 65536}, countries |-> {{}, {"cn"}, {"CN", "R"}},
     asns |-> {{4134}}, dbip |-> {FALSE}, bgptools |-> {TRUE},
     schedule |-> {"", "daily"}, timeout |-> {0 - 1, 0, 1}, code |-> {399, 400, 599, 600},
     mode |-> {"fail-closed", "whatever"}, path |-> {""}, maxAge |-> {0, 2},
     level |-> {"debug", "verbose"}, format |-> {"json", "xml"}]

(* Every default at once. *)
Minimal == [s \in Settings |-> IF s \in {"countries", "dbip"} THEN Base[s] ELSE Omitted]

Changes == UNION {{<<s, v>> : v \in Others[s] \cup {Omitted}} : s \in Settings}
MCDocuments ==
    {Unreadable, Malformed, Base, Minimal}
    \cup {[Base EXCEPT ![c[1]] = c[2], ![d[1]] = d[2]] : c, d \in Changes}
============================================================================
