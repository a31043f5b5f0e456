------------------------------ MODULE Startup ------------------------------
(***************************************************************************)
(* run, from the configuration file to the running daemon: the file is     *)
(* decoded over the defaults and validated, then the logger, the disk      *)
(* cache, the server, the fetcher and the scheduler take what they need of *)
(* it in turn, and the first that refuses ends the process; cron takes the *)
(* schedule last.  A start finds any cache file, which is all that earlier *)
(* ones leave behind.                                                      *)
(*                                                                         *)
(* A configuration is a function from settings to values.  Durations are   *)
(* small numbers: only their sign, and the cache's age against max_age,    *)
(* matter.  log_blocked and log_allowed, which nothing validates and only  *)
(* per-request log lines use, are left out.                                *)
(***************************************************************************)
EXTENDS Integers

CONSTANTS
    Documents,    \* what may stand in the configuration file
    Omitted,      \* a setting the file is silent about, or null
    Unreadable,   \* a file that cannot be read
    Malformed,    \* not YAML, empty, an unknown setting, a value of a wrong type
    CountryCodes, \* what matches ^[A-Z]{2}$
    CronSpecs,    \* what cron.ParseStandard accepts
    MaxCacheAge,  \* bound on the age of the cache file
    NoFile, NoTrie, NoConfig

Settings == {"host", "port", "countries", "asns", "dbip", "bgptools", "schedule",
             "timeout", "code", "mode", "path", "maxAge", "level", "format"}

ASSUME DocumentsAssumption ==
    \A d \in Documents : d \in {Unreadable, Malformed} \/ DOMAIN d = Settings

ASSUME AgeAssumption == MaxCacheAge \in Nat

Modes   == {"fail-closed", "fail-open"}
Levels  == {"debug", "info", "warn", "error"}
Formats == {"json", "text"}

(* Required settings stay zero, so that Validate misses them. *)
defaults ==
    [host |-> "127.0.0.1", port |-> 8080, countries |-> {}, asns |-> {},
     dbip |-> FALSE, bgptools |-> FALSE, schedule |-> "0 3 * * *", timeout |-> 1,
     code |-> 403, mode |-> "fail-closed", path |-> "/var/cache/bitblocker",
     maxAge |-> 48, level |-> "info", format |-> "json"]

Decode(d) == [s \in Settings |-> IF d[s] = Omitted THEN defaults[s] ELSE d[s]]

validateListen(c)   == c.port \in 1..65535 /\ c.host # ""
validateBlock(c)    == /\ c.countries # {} \/ c.asns # {}
                       /\ c.countries \subseteq CountryCodes
validateSources(c)  == c.dbip \/ c.bgptools
\* Mutant of validateRefresh: the schedule is left for cron to parse.
validateRefreshUnparsed(c) == c.schedule # "" /\ c.timeout > 0
validateRefresh(c)  == c.schedule # "" /\ c.schedule \in CronSpecs /\ c.timeout > 0
validateBehavior(c) == c.mode \in Modes /\ c.code \in 400..599
validateCache(c)    == c.path # "" /\ c.maxAge > 0
validateLogging(c)  == c.level \in Levels /\ c.format \in Formats

Validate(c) == /\ validateListen(c) /\ validateBlock(c) /\ validateSources(c)
               /\ validateRefresh(c) /\ validateBehavior(c) /\ validateCache(c)
               /\ validateLogging(c)

ASSUME AbsentAssumption ==
    /\ NoConfig \notin {Decode(d) : d \in Documents \ {Unreadable, Malformed}}
    /\ NoFile \notin [kind : {"good", "corrupt"}, age : 0..MaxCacheAge]

VARIABLES
    doc,      \* the configuration file
    pc,       \* how far run has come
    cfg,      \* the configuration in use
    cache,    \* the file at cache.path: its kind and age
    src,      \* the countries the published trie blocks, or NoTrie
    found     \* history: the cache file as this start found it

vars == <<doc, pc, cfg, cache, src, found>>

Caches == [kind : {"good", "corrupt"}, age : 0..MaxCacheAge] \cup {NoFile}

Init ==
    /\ doc \in Documents
    /\ pc = "load" /\ cfg = NoConfig
    /\ cache \in Caches /\ found = cache
    /\ src = NoTrie

\* Mutant of Valid: the decoded file is not validated.
ValidUnchecked == doc \notin {Unreadable, Malformed}

(* config.Load. *)
Valid == doc \notin {Unreadable, Malformed} /\ Validate(Decode(doc))

RefuseConfig ==
    /\ pc = "load" /\ ~Valid
    /\ pc' = "exited"
    /\ UNCHANGED <<doc, cfg, cache, src, found>>

AcceptConfig ==
    /\ pc = "load" /\ Valid
    /\ pc' = "logging"
    /\ cfg' = Decode(doc)
    /\ UNCHANGED <<doc, cache, src, found>>

(* A constructor checks what it is given; an error ends run. *)
Construct(from, to, accepted) ==
    /\ pc = from
    /\ pc' = IF accepted THEN to ELSE "exited"
    /\ UNCHANGED <<doc, cfg, cache, src, found>>

NewLogger == Construct("logging", "cache", cfg.level \in Levels /\ cfg.format \in Formats)

(* loadDiskCache: the loader refuses an empty set of countries as it does  *)
(* a corrupt file.                                                         *)
Fresh(c)  == c.age <= cfg.maxAge
Loads(c)  == c.kind = "good" /\ cfg.countries # {}

CacheAbsent ==
    /\ pc = "cache" /\ cache = NoFile
    /\ pc' = "server"
    /\ UNCHANGED <<doc, cfg, cache, src, found>>

\* Mutant of CacheUnusable: a file is removed the hour it reaches max_age.
CacheUnusableAtAge ==
    /\ pc = "cache" /\ cache # NoFile
    /\ cache.age >= cfg.maxAge \/ ~Loads(cache)
    /\ pc' = "server"
    /\ cache' \in {NoFile, cache}
    /\ UNCHANGED <<doc, cfg, src, found>>

(* Stale or not loading: the file is removed, if it can be. *)
CacheUnusable ==
    /\ pc = "cache" /\ cache # NoFile
    /\ ~Fresh(cache) \/ ~Loads(cache)
    /\ pc' = "server"
    /\ cache' \in {NoFile, cache}
    /\ UNCHANGED <<doc, cfg, src, found>>

CacheLoaded ==
    /\ pc = "cache" /\ cache # NoFile
    /\ Fresh(cache) /\ Loads(cache)
    /\ pc' = "server"
    /\ src' = cfg.countries
    /\ UNCHANGED <<doc, cfg, cache, found>>

NewServer    == Construct("server", "fetcher", cfg.code \in 400..599 /\ cfg.mode \in Modes)
NewFetcher   == Construct("fetcher", "scheduler", cfg.path # "" /\ cfg.countries # {})
NewScheduler == Construct("scheduler", "running", cfg.schedule # "" /\ cfg.timeout > 0)

(* The daemon serves, and the scheduler, past its cold start, hands the    *)
(* schedule to cron: if that fails Run returns, runComponents logs it, and *)
(* the daemon goes on without refreshes.                                   *)
AddFunc ==
    /\ pc = "running"
    /\ pc' = IF cfg.schedule \in CronSpecs THEN "scheduled" ELSE "unscheduled"
    /\ UNCHANGED <<doc, cfg, cache, src, found>>

Next == \/ RefuseConfig \/ AcceptConfig \/ NewLogger
        \/ CacheAbsent \/ CacheUnusable \/ CacheLoaded
        \/ NewServer \/ NewFetcher \/ NewScheduler \/ AddFunc

Spec == Init /\ [][Next]_vars

----------------------------------------------------------------------------
Labels == {"load", "logging", "cache", "server", "fetcher", "scheduler",
           "running", "scheduled", "unscheduled", "exited"}

Accepted == cfg # NoConfig
Up       == pc \in {"running", "scheduled", "unscheduled"}

TypeOK ==
    /\ doc \in {Unreadable, Malformed} \/ DOMAIN doc = Settings
    /\ pc \in Labels
    /\ (pc \notin {"load", "exited"} => Accepted) /\ (pc = "load" => ~Accepted)
    /\ Accepted => cfg = Decode(doc) /\ Validate(cfg)
    /\ cache \in Caches /\ found \in Caches
    /\ src = NoTrie \/ (Accepted /\ src = cfg.countries)

(* Validate anticipates every check of every constructor, and of cron: a   *)
(* configuration that it accepts, and that names a country, is refused by  *)
(* none of them and never leaves a daemon that does not refresh.           *)
CountryConfigRuns ==
    Accepted /\ cfg.countries # {} => pc \notin {"exited", "unscheduled"}

(* "Validate checks that every field holds a value the daemon can actually *)
(* use": no configuration it accepts is refused later.                     *)
AcceptedConfigRuns == Accepted => pc # "exited"

(* No configuration costs a good cache file: a start that is refused       *)
(* leaves it alone (unless the list of countries is empty), and one that   *)
(* succeeds serves it if it is fresh by the max_age in force.              *)
GoodCacheSurvives ==
    /\ pc = "exited" /\ (Accepted => cfg.countries # {}) => cache = found
    /\ (/\ Up /\ found # NoFile
        /\ found.kind = "good" /\ found.age <= cfg.maxAge) =>
            cache = found /\ src = cfg.countries
============================================================================
