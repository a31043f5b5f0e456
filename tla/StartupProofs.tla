--------------------------- MODULE StartupProofs ---------------------------
(***************************************************************************)
(* What Startup's run shows of the documents it lists, for every set of    *)
(* documents.  Inv adds to the type invariant what each stage of run has   *)
(* already established: which constructors have passed, and what has been  *)
(* done with the cache file the start found.                               *)
(***************************************************************************)
EXTENDS Startup, TLAPS

Before == {"load", "logging", "cache"}

(* An exit after the configuration was accepted is the fetcher's, and only *)
(* for want of a country: what is past the fetcher names one.  Cron parses *)
(* what Validate has parsed.                                               *)
Passed ==
    /\ Accepted /\ pc = "exited" => cfg.countries = {}
    /\ pc = "scheduler" \/ Up => cfg.countries # {}
    /\ pc # "unscheduled"

(* The cache file is untouched until loadDiskCache, and after it unless it *)
(* was unusable; a usable one is served.                                   *)
Kept ==
    /\ pc \in Before => cache = found /\ src = NoTrie
    /\ pc = "exited" /\ ~Accepted => cache = found
    /\ pc \in Labels \ (Before \cup {"exited"}) /\ found # NoFile /\ Fresh(found) /\ Loads(found)
          => cache = found /\ src = cfg.countries

Inv == TypeOK /\ doc \in Documents /\ Passed /\ Kept

LEMMA Initially == Init => Inv
<1> SUFFICES ASSUME Init PROVE Inv
  OBVIOUS
<1>1. TypeOK /\ doc \in Documents
  BY DocumentsAssumption DEF Init, TypeOK, Labels, Accepted, Caches
<1>2. Passed /\ Kept
  BY DEF Init, Passed, Kept, Accepted, Before, Labels, Up
<1> QED BY <1>1, <1>2 DEF Inv

LEMMA Preserved == Inv /\ [Next]_vars => Inv'
<1> SUFFICES ASSUME Inv, [Next]_vars PROVE Inv'
  OBVIOUS
<1> USE DEF Inv, TypeOK, Passed, Kept, Labels, Before, Accepted, Up
<1>stutter. CASE UNCHANGED vars
  BY <1>stutter DEF vars, Fresh, Loads
<1>RefuseConfig. CASE RefuseConfig
  BY <1>RefuseConfig DEF RefuseConfig, Fresh, Loads
<1>AcceptConfig. CASE AcceptConfig
  <2>1. Decode(doc) # NoConfig
    BY <1>AcceptConfig, AbsentAssumption DEF AcceptConfig, Valid
  <2> QED BY <1>AcceptConfig, <2>1 DEF AcceptConfig, Valid, Fresh, Loads
<1>NewLogger. CASE NewLogger
  BY <1>NewLogger DEF NewLogger, Construct, Validate, validateLogging, Fresh, Loads
<1>CacheAbsent. CASE CacheAbsent
  BY <1>CacheAbsent DEF CacheAbsent, Fresh, Loads
<1>CacheUnusable. CASE CacheUnusable
  BY <1>CacheUnusable DEF CacheUnusable, Fresh, Loads, Caches
<1>CacheLoaded. CASE CacheLoaded
  BY <1>CacheLoaded DEF CacheLoaded, Fresh, Loads
<1>NewServer. CASE NewServer
  BY <1>NewServer DEF NewServer, Construct, Validate, validateBehavior, Fresh, Loads
<1>NewFetcher. CASE NewFetcher
  BY <1>NewFetcher DEF NewFetcher, Construct, Validate, validateCache, Fresh, Loads
<1>NewScheduler. CASE NewScheduler
  BY <1>NewScheduler DEF NewScheduler, Construct, Validate, validateRefresh, Fresh, Loads
<1>AddFunc. CASE AddFunc
  BY <1>AddFunc DEF AddFunc, Validate, validateRefresh, Fresh, Loads
<1> QED
  BY <1>stutter, <1>RefuseConfig, <1>AcceptConfig, <1>NewLogger, <1>CacheAbsent,
     <1>CacheUnusable, <1>CacheLoaded, <1>NewServer, <1>NewFetcher, <1>NewScheduler, <1>AddFunc
  DEF Next

LEMMA Always == Spec => []Inv
BY Initially, Preserved, PTL DEF Spec

(* Whatever the file holds, the configuration in use is its decoding, and  *)
(* a valid one.                                                            *)
THEOREM TypeCorrect == Spec => []TypeOK
<1>1. Inv => TypeOK
  BY DEF Inv
<1> QED BY <1>1, Always, PTL

(* Neither a constructor nor cron refuses an accepted configuration that   *)
(* names a country.                                                        *)
THEOREM CountryConfigAlwaysRuns == Spec => []CountryConfigRuns
<1>1. Inv => CountryConfigRuns
  BY DEF Inv, Passed, CountryConfigRuns
<1> QED BY <1>1, Always, PTL

(* A start that is refused does not touch the cache, one that succeeds     *)
(* serves it if it is good and fresh.                                      *)
THEOREM GoodCacheAlwaysSurvives == Spec => []GoodCacheSurvives
<1>1. Inv => GoodCacheSurvives
  <2> SUFFICES ASSUME Inv PROVE GoodCacheSurvives
    OBVIOUS
  <2>1. pc = "exited" /\ (Accepted => cfg.countries # {}) => cache = found
    BY DEF Inv, Passed, Kept
  <2>2. ASSUME Up, found # NoFile, found.kind = "good",
               found.age <= cfg.maxAge
        PROVE  cache = found /\ src = cfg.countries
    BY <2>2 DEF Inv, Passed, Kept, Fresh, Loads, Labels, Before, Up
  <2> QED BY <2>1, <2>2 DEF GoodCacheSurvives
<1> QED BY <1>1, Always, PTL
============================================================================
