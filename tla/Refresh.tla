------------------------------ MODULE Refresh ------------------------------
(***************************************************************************)
(* The blocklist's supply line: the fetcher's Refresh, the disk cache it   *)
(* writes through, and the cache load at start, over process crashes and   *)
(* power losses, against the DB-IP download site.                          *)
(*                                                                         *)
(* Time is counted in days.  The site has one file per month, which may    *)
(* not be there yet, may be published again, and may be missing for a time *)
(* or for good.  A file's content matters only in that it opens and        *)
(* decodes as an MMDB ("good") or does not ("bad").  Its ETag and          *)
(* Last-Modified are the identity of that publication.                     *)
(***************************************************************************)
EXTENDS Integers

CONSTANTS
    DaysPerMonth,
    MaxAge,         \* cache.max_age, in days
    MaxDay,         \* bound on the clock
    MaxPublished,   \* bound on the files published
    MaxFaults,      \* bound on failing operations and missing files
    MaxCrashes,     \* bound on crashes and power losses
    NoFile

ASSUME CalendarAssumption == /\ DaysPerMonth \in Nat \ {0}
                             /\ MaxDay \in Nat
                             /\ MaxAge \in Nat
ASSUME BoundsAssumption == MaxPublished \in Nat /\ MaxFaults \in Nat /\ MaxCrashes \in Nat

Days == 0..MaxDay

(* Month 0 is the one before the first day of the model. *)
MonthOf(d) == 1 + d \div DaysPerMonth
DayOf(d)   == 1 + (d % DaysPerMonth)

\* Mutant of PriorDay: one day less, the first of the same month.
PriorDayLate(d) == d - (DayOf(d) - 1)

(* now.AddDate(0, 0, -now.Day()): the last day of the prior month. *)
PriorDay(d) == d - DayOf(d)

Months == 0..MonthOf(MaxDay)

Kinds == {"good", "bad"}

(* Publications are numbered; the number stands for the ETag. *)
Files == [month : Months, rev : 1..MaxPublished, kind : Kinds]

(* What is left of a file whose data had not reached the disk. *)
Torn == [month |-> 0, rev |-> 0, kind |-> "torn"]

ASSUME NoFileAssumption ==
    /\ NoFile \notin Files \cup {Torn}
    /\ NoFile \notin [file : Files \cup {Torn}, mtime : Days, synced : BOOLEAN]

VARIABLES
    now,        \* the day
    site,       \* the latest file published for each month, or NoFile
    missing,    \* the months whose file the site answers with 404 all the same
    pc,         \* where the daemon is
    current,    \* the months a refresh asks for, taken once from the clock
    prior,
    missed,     \* history: this refresh was answered 404 for its month
    body,       \* the file a refresh has downloaded
    tag,        \* the validators its response carried
    active,     \* the file the active trie was built from (Source.current)
    etag,       \* Fetcher.etag and Fetcher.lastModified
    temp,       \* the temporary file Write is filling
    cache,      \* the file at cache.path: content, mtime, data synced
    durable,    \* what a power loss would leave of it
    published,  \* files published so far
    faults,     \* operations that have failed so far
    crashes     \* times the process has died so far

external == <<now, published, site, missing>>
fetch    == <<current, prior, missed, body, tag>>
memory   == <<active, etag>>
disk     == <<temp, cache, durable>>
vars     == <<external, pc, fetch, memory, disk, faults, crashes>>

Older(f, g) == f.month < g.month

(* mmdb.LoadCountryBlocklist opens and decodes the file. *)
Loads(f) == f.kind = "good"

(* One more operation fails, for a reason outside the program. *)
Fault == faults < MaxFaults /\ faults' = faults + 1

Goto(from, to) == pc = from /\ pc' = to

NoRefresh == /\ current' = 0 /\ prior' = 0 /\ missed' = FALSE
             /\ body' = NoFile /\ tag' = NoFile

(* Refresh returns, with an error or without; its locals are gone. *)
Return == pc' = "idle" /\ NoRefresh

Init ==
    /\ now = 0
    /\ \E f \in {NoFile} \cup {g \in Files : g.month = 0 /\ g.rev = 1} :
            /\ site = [m \in Months |-> IF m = 0 THEN f ELSE NoFile]
            /\ published = IF f = NoFile THEN 0 ELSE 1
    /\ missing = {}
    /\ pc = "boot"
    /\ current = 0 /\ prior = 0 /\ missed = FALSE /\ body = NoFile /\ tag = NoFile
    /\ active = NoFile /\ etag = NoFile
    /\ temp = NoFile /\ cache = NoFile /\ durable = NoFile
    /\ faults = 0 /\ crashes = 0

----------------------------------------------------------------------------
(* The world: the calendar, DB-IP's site, the operating system.            *)

Tick ==
    /\ now < MaxDay
    /\ now' = now + 1
    /\ UNCHANGED <<published, site, missing, pc, fetch, memory, disk, faults, crashes>>

(* DB-IP publishes this month's file, or publishes it again. *)
Publish(k) ==
    LET m == MonthOf(now)
    IN /\ published < MaxPublished
       /\ published' = published + 1
       /\ site' = [site EXCEPT ![m] = [month |-> m, rev |-> published', kind |-> k]]
       /\ missing' = missing \ {m}
       /\ UNCHANGED <<now, pc, fetch, memory, disk, faults, crashes>>

(* A file that was there is withdrawn, or cannot be found for a while. *)
GoesMissing(m) ==
    /\ site[m] # NoFile /\ m \notin missing
    /\ Fault
    /\ missing' = missing \cup {m}
    /\ UNCHANGED <<now, published, site, pc, fetch, memory, disk, crashes>>

ComesBack(m) ==
    /\ m \in missing
    /\ missing' = missing \ {m}
    /\ UNCHANGED <<now, published, site, pc, fetch, memory, disk, faults, crashes>>

(* The kernel writes the directory entry back; Write does not ask it to. *)
Writeback ==
    /\ durable # cache
    /\ durable' = cache
    /\ UNCHANGED <<external, pc, fetch, memory, temp, cache, faults, crashes>>

(* The process dies wherever it is.  An orphaned temporary file is never   *)
(* looked at again: the next CreateTemp takes a new name.                  *)
Stop ==
    /\ pc # "down" /\ crashes < MaxCrashes
    /\ pc' = "down"
    /\ crashes' = crashes + 1
    /\ active' = NoFile /\ etag' = NoFile /\ temp' = NoFile
    /\ NoRefresh

Crash ==
    /\ Stop
    /\ UNCHANGED <<external, cache, durable, faults>>

AfterPowerLoss == IF durable = NoFile \/ durable.synced THEN durable
                  ELSE [durable EXCEPT !.file = Torn]

PowerLoss ==
    /\ Stop
    /\ cache' = AfterPowerLoss /\ durable' = AfterPowerLoss
    /\ UNCHANGED <<external, faults>>

Restart ==
    /\ Goto("down", "boot")
    /\ UNCHANGED <<external, fetch, memory, disk, faults, crashes>>

----------------------------------------------------------------------------
(* loadDiskCache.  Removal of an unusable file is best-effort.             *)

Stale == now - cache.mtime > MaxAge

BootAbsent ==
    /\ cache = NoFile
    /\ Goto("boot", "idle")
    /\ UNCHANGED <<external, fetch, memory, disk, faults, crashes>>

(* The file is stale or corrupt, or reading it or removing it fails. *)
BootUnusable ==
    /\ cache # NoFile
    /\ Goto("boot", "idle")
    /\ \/ (Stale \/ ~Loads(cache.file)) /\ cache' = NoFile /\ UNCHANGED faults
       \/ Fault /\ cache' \in {NoFile, cache}
    /\ UNCHANGED <<external, fetch, memory, temp, durable, crashes>>

BootLoaded ==
    /\ cache # NoFile /\ ~Stale /\ Loads(cache.file)
    /\ Goto("boot", "idle")
    /\ active' = cache.file
    /\ UNCHANGED <<external, fetch, etag, disk, faults, crashes>>

Boot == BootAbsent \/ BootUnusable \/ BootLoaded

----------------------------------------------------------------------------
(* fetch: a conditional GET of this month's file, then of last month's.    *)

StartRefresh ==
    /\ Goto("idle", "get")
    /\ current' = MonthOf(now) /\ prior' = MonthOf(PriorDay(now))
    /\ UNCHANGED <<external, missed, body, tag, memory, disk, faults, crashes>>

Asking == pc \in {"get", "getPrior"}

OnSite(m) == IF m \in missing THEN NoFile ELSE site[m]

Asked == OnSite(IF pc = "get" THEN current ELSE prior)

\* Mutant of GetOK: the validators are remembered with the response.
GetOKRemembering ==
    /\ Asking /\ Asked # NoFile /\ Asked # etag
    /\ body' = Asked /\ tag' = Asked /\ etag' = Asked
    /\ pc' = "createTemp"
    /\ UNCHANGED <<external, current, prior, missed, active, disk, faults, crashes>>

(* 200: the body is decompressed in full; the response may carry no        *)
(* validators.                                                             *)
GetOK ==
    /\ Asking /\ Asked # NoFile /\ Asked # etag
    /\ body' = Asked
    /\ tag' \in {Asked, NoFile}
    /\ pc' = "createTemp"
    /\ UNCHANGED <<external, current, prior, missed, memory, disk, faults, crashes>>

(* 304: nothing is written, not even the cache's mtime. *)
GetNotModified ==
    /\ Asking /\ Asked # NoFile /\ Asked = etag
    /\ Return
    /\ UNCHANGED <<external, memory, disk, faults, crashes>>

\* Mutant of GetMissing: it goes back month by month until a file is found.
GetMissingOnward ==
    /\ Asking /\ Asked = NoFile
    /\ pc' = "getPrior" /\ missed' = TRUE
    /\ prior' = IF pc = "get" THEN prior ELSE prior - 1
    /\ UNCHANGED <<external, current, body, tag, memory, disk, faults, crashes>>

(* 404, on whatever day of the month and whatever is served already: fall  *)
(* back to the prior month once.                                           *)
GetMissing ==
    /\ Asking /\ Asked = NoFile
    /\ \/ Goto("get", "getPrior") /\ missed' = TRUE /\ UNCHANGED <<current, prior, body, tag>>
       \/ pc = "getPrior" /\ Return
    /\ UNCHANGED <<external, memory, disk, faults, crashes>>

\* Mutant of GetFails: any failure falls back to the prior month.
GetFailsOver ==
    /\ Fault
    /\ Goto("get", "getPrior")
    /\ UNCHANGED <<external, fetch, memory, disk, crashes>>

(* No response in time, another status, a truncated or corrupt stream. *)
GetFails ==
    /\ Asking /\ Fault
    /\ Return
    /\ UNCHANGED <<external, memory, disk, crashes>>

Get == GetOK \/ GetNotModified \/ GetMissing \/ GetFails

----------------------------------------------------------------------------
(* diskcache.Write: temporary file, copy, sync and close, rename.          *)

CreateTemp ==
    /\ Goto("createTemp", "copy")
    /\ UNCHANGED <<external, fetch, memory, disk, faults, crashes>>

Copy ==
    /\ Goto("copy", "sync")
    /\ temp' = [file |-> body, mtime |-> now, synced |-> FALSE]
    /\ UNCHANGED <<external, fetch, memory, cache, durable, faults, crashes>>

\* Mutant of Sync: the file is closed without being synced.
CloseOnly ==
    /\ Goto("sync", "rename")
    /\ UNCHANGED <<external, fetch, memory, disk, faults, crashes>>

Sync ==
    /\ Goto("sync", "rename")
    /\ temp' = [temp EXCEPT !.synced = TRUE]
    /\ UNCHANGED <<external, fetch, memory, cache, durable, faults, crashes>>

Rename ==
    /\ Goto("rename", "load")
    /\ cache' = temp
    /\ temp' = NoFile
    /\ UNCHANGED <<external, fetch, memory, durable, faults, crashes>>

Writing == pc \in {"createTemp", "copy", "sync", "rename"}

(* Any of them fails: the temporary file is discarded, Refresh gives up. *)
WriteFails ==
    /\ Writing /\ Fault
    /\ temp' = NoFile
    /\ Return
    /\ UNCHANGED <<external, memory, cache, durable, crashes>>

Write == CreateTemp \/ Copy \/ Sync \/ Rename \/ WriteFails

----------------------------------------------------------------------------
(* The trie is built from the cache file and published; only then are the  *)
(* validators remembered.                                                  *)

LoadAndSwap ==
    /\ pc = "load" /\ Loads(cache.file)
    /\ active' = cache.file
    /\ etag' = tag
    /\ Return
    /\ UNCHANGED <<external, disk, faults, crashes>>

\* Mutant of LoadFails: a file that does not load is removed, as at start.
LoadFailsRemoving ==
    /\ pc = "load"
    /\ \/ ~Loads(cache.file) /\ cache' = NoFile /\ UNCHANGED faults
       \/ Fault /\ UNCHANGED cache
    /\ Return
    /\ UNCHANGED <<external, memory, temp, durable, crashes>>

LoadFails ==
    /\ pc = "load"
    /\ \/ ~Loads(cache.file) /\ UNCHANGED faults
       \/ Fault
    /\ Return
    /\ UNCHANGED <<external, memory, disk, crashes>>

Load == LoadAndSwap \/ LoadFails

----------------------------------------------------------------------------
Daemon == Boot \/ StartRefresh \/ Get \/ Write \/ Load

World == \/ Tick \/ (\E k \in Kinds : Publish(k))
         \/ (\E m \in Months : GoesMissing(m) \/ ComesBack(m))
         \/ Writeback \/ Crash \/ PowerLoss

Next == Daemon \/ World \/ Restart

Spec == Init /\ [][Next]_vars

(* The daemon keeps going, cron keeps triggering refreshes, and a stopped  *)
(* daemon is started again.  Nothing is assumed of the world.              *)
FairSpec == Spec /\ WF_vars(Daemon \/ Restart)

----------------------------------------------------------------------------
Entries == [file : Files \cup {Torn}, mtime : Days, synced : BOOLEAN]

Labels == {"down", "boot", "idle", "get", "getPrior", "createTemp", "copy",
           "sync", "rename", "load"}

WorldOK ==
    /\ now \in Days /\ published \in 0..MaxPublished
    /\ site \in [Months -> Files \cup {NoFile}] /\ missing \subseteq Months
    /\ faults \in 0..MaxFaults /\ crashes \in 0..MaxCrashes

DaemonOK ==
    /\ pc \in Labels
    /\ current \in Months /\ prior \in Months /\ missed \in BOOLEAN
    /\ body \in Files \cup {NoFile} /\ tag \in Files \cup {NoFile}
    /\ active \in Files \cup {NoFile} /\ etag \in Files \cup {NoFile}

DiskOK ==
    /\ temp \in Entries \cup {NoFile}
    /\ cache \in Entries \cup {NoFile} /\ durable \in Entries \cup {NoFile}

TypeOK == WorldOK /\ DaemonOK /\ DiskOK

(* The validators sent to the site are those of the file being served, or  *)
(* none: only then does a 304 mean that the active blocklist is the site's *)
(* current one, whatever failed between the download and the swap.         *)
ValidatorsNameActive == etag # NoFile => etag = active

(* "A crash at any point leaves either the prior cache or no cache - never *)
(* a half-written file": not even after a power loss that reorders the     *)
(* rename before the data (Write's sync before its rename).                *)
CacheWhole == cache # NoFile => cache.file # Torn

FellBackTo(f) == missed /\ f.month = current - 1

(* A running daemon goes back to an earlier month, in what it serves or    *)
(* has cached, only because the site answered 404 for the month asked for, *)
(* and then by that one month: no timeout, other status, failed write or   *)
(* load, republished file or end of the month under way takes it back.     *)
RegressesOnlyWhenMissing ==
    [][/\ active # NoFile /\ active' # NoFile /\ Older(active', active)
            => FellBackTo(active')
       /\ pc' # "down" /\ cache # NoFile /\ cache' # NoFile
          /\ Older(cache'.file, cache.file)
            => FellBackTo(cache'.file)]_vars

Good   == {f \in Files : Loads(f)}
Before == {p \in Files \X Files : Older(p[1], p[2])}

FileIn(entry) == IF entry = NoFile THEN NoFile ELSE entry.file

Supply == INSTANCE Supply WITH
    stored <- FileIn(cache),
    kept   <- FileIn(durable),
    served <- active

(* Seen from outside, the steps of download, write, load, start, crash and *)
(* restart are those of Supply: the file on disk is whole, replaced in one *)
(* step, by an older one only after a 404, and never given up by a daemon  *)
(* that serves something; what is served was on disk when it was loaded.   *)
Supplies == Supply!Spec

(* The file a refresh should end up with: this month's, else last month's. *)
Target == LET m == MonthOf(now)
          IN IF OnSite(m) # NoFile THEN OnSite(m) ELSE OnSite(m - 1)

(* Once the world is quiet, the daemon comes to serve the site's file and  *)
(* keeps to it, whatever failed or was missing before: nothing leaves it   *)
(* with validators, or a cache, that keep the file away.                   *)
Converges == <>[](Target # NoFile /\ Loads(Target) => active = Target)

----------------------------------------------------------------------------
(* What the repository says of the cache and the code does not do.         *)

(* "A cache-write failure must never fail a load that otherwise succeeded" *)
(* (the code gives up on the refresh before it builds the trie).           *)
DownloadServed == [][Writing /\ pc' = "idle" /\ Loads(body) => active' = body]_vars
============================================================================
