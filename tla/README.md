# bitblocker in TLA+

bitblocker answers Traefik's forwardAuth question ("may this client pass?") from a
country blocklist that it downloads once a month from DB-IP, keeps in memory as a
prefix trie, and caches on disk. This directory models it from the configuration
file to the verdict, with care for the parts where goroutines, failures and restarts
meet. TLC checks the models on small instances; TLAPS proves their safety properties
for every value of the constants.

## 1. The system

| Component | State | Operations | Correct when |
|---|---|---|---|
| HTTP surface (`internal/server/server.go`) | none of its own | `handleCheck`, `handleHealthz` | every request is answered from one blocklist; `startup_mode` decides only when there is none |
| Readiness tracker (`internal/server/readiness.go`) | `usable`, `everReady`, `unusableSince`, three counters, `mu` | `observe`, `heartbeat`, `countFailOpenAllow` | signals are neither lost, repeated nor false; counts are not reported twice |
| Blocklist source (`internal/blocklist/source.go`) | one atomic pointer | `Current`, `Swap` | readers see one whole trie |
| Fetcher (`internal/fetcher/fetcher.go`) | validators of the last download | `Refresh` | a failure anywhere leaves the old blocklist and does not stop a later refresh from replacing it |
| Disk cache (`internal/diskcache/cache.go`) | the file at `cache.path` | `Write`, `Load` | a crash leaves a whole file or none; a good, fresh file survives a restart |
| Cache load at start (`cmd/bitblocker/main.go`) | - | `loadDiskCache` | no failure is fatal |
| Scheduler (`internal/scheduler/scheduler.go`) | attempt counter, cron | `Run`, `runColdStart` | refreshes never overlap, never cease, and are drained |
| Lifecycle (`main.go`, `Server.Run`) | contexts, wait groups, `errCh` | `runComponents`, shutdown | the process ends when told to and says how |
| Trie, MMDB loader (`internal/blocklist/trie.go`, `internal/mmdb`) | bit trie, its count | `Insert`, `Contains`, `Len`, `LoadCountryBlocklist` | an address is covered exactly when a prefix of a blocked country covers it; a published trie is never written to |
| Client address (`internal/server/clientip.go`) | - | `extractClientIP`, `rightmostXFF` | the address Traefik vouches for, or none |
| Configuration (`internal/config`) | read-only after `Load` | `Load`, `Validate` | an accepted configuration can run |
| Composition root (`main.go`, the `New` functions) | - | `run` up to `runComponents` | a start that is refused does no damage |
| Logging (`internal/logging`) | - | `New`, `Redact` | output only, but for `New`'s checks |

How they interact. A refresh (cold start or cron goroutine) downloads, writes the cache
file, builds a trie from that file and publishes it with `Swap`. Request goroutines and
the heartbeat read the pointer once each, `observe` what they read, and act on it; a
request then extracts its client's address and walks the trie it holds, while the next
one may be under construction. The
tracker is shared by all of them. Before any of this, `run` reads the configuration and
hands it from constructor to constructor, with the cache load in the middle. A signal, or a listener that fails, cancels contexts;
the goroutines wait for one another on the way out.

What is hard: observations that are applied after they have gone stale; counters added
to in two steps while others read and reset them; a refresh failing half-way; crashes
and power losses between two file operations; the month rolling over; a file gone from
the site; jobs that overlap; everyone waiting for everyone at shutdown; the edges of the bit walk (whole
families, single addresses, IPv4 in IPv6 clothes); settings that are checked twice, by
different code, with a file deleted in between. `PROJECT.json` lists each hazard at
its line with the properties that would catch it.

## 2. The modules

| Module | Content |
|---|---|
| `Decision` | requests, blocklists and the readiness predicate, shared by the next two |
| `ForwardAuth` | abstract: a request arrives, one blocklist is chosen at one instant, the answer follows from it. `Readiness` and `Blocklist` both implement it |
| `Readiness` | the handlers, the tracker, the heartbeat and a `Source` that refreshes swap |
| `Supply` | abstract: one file on disk, whole, replaced in one step, by an older one only after a missing file; only what is on disk is served. `Refresh` implements it |
| `Refresh` | fetcher, cache write, cache load at start, crashes, power losses, the download site |
| `Lifecycle` | scheduler, server goroutines, shutdown |
| `Blocklist` | MMDB loader, trie, published pointer, client address extraction, the walk |
| `Startup` | configuration, its validation, the constructors, the cache at start |
| `MCReadiness`, `MCRefresh`, `MCBlocklist`, `MCStartup` | constants for TLC; in `MCRefresh` a history variable for one run |
| `ReadinessProofs`, `RefreshProofs`, `BackoffProofs`, `LifecycleProofs`, `BlocklistProofs`, `StartupProofs` | theorems |

The modules meet at shared states rather than in one product. `Refresh` publishes a
file, `Readiness` a set of addresses; `Blocklist` is what lies between the two, a file
becoming a set of addresses. `Readiness` and `Blocklist` are two refinements of the
one `ForwardAuth`: the first opens up the tracker and leaves trie and headers closed, the
second the reverse. `Lifecycle` shows that refreshes do not overlap, which
`Refresh` and `Blocklist` assume; `Startup` ends where `Lifecycle` begins.

### Readiness

Every goroutine is a thread with a label `pc[t]`; one step is one load or store of an
atomic, or the mutex. `Lookup` is `s.lookup()`, `Latch` and `Compare` the two unlocked
tests of `observe`, `Lock` the acquisition with the re-check, `OpenWindow`,
`ResetSinceHeartbeat`, `EmitUnusable` are `emitUnusable`, `CloseWindow`, `EmitRecovered`
are `emitRecovered`. `CheckCount` and `CheckAllowAll` are the two additions of
`countFailOpenAllow`; the other `Check...` actions and `Healthz` are the rest of the
handlers. `Listen`, `Tick`, `HeartbeatObserved`, `EmitHeartbeat` are `Run`'s initial
observation and the heartbeat loop. Steps are merged only where no other goroutine can
tell (the module's header says which).

Left out: durations (`unusable_for`, `empty_for_seconds`), response bodies, per-request
log lines. The log is kept as four counters: signals of each kind and the sums of the
counts they report. A trie is the set of client addresses it covers, so `Len() = 0` is
the empty set; the client address is one that parses or `Unparseable`. The heartbeat's
`failopen_allowed_total` is not kept: it is read before `failopen_allowed_since_last`, so
one line may show a since-last count larger than the growth of the total.

### Refresh

Time is counted in days. The site has at most one file per month, published in that month
and possibly again; each publication has a number. Any file may go missing and come
back, or not (`GoesMissing`, `ComesBack`): the site then answers 404 although the file was
published, and may be served and cached here. A file is `good` or `bad` (it does not open
or decode). ETag and Last-Modified are abstracted to the publication they identify, and a
200 may come without them. `StartRefresh` takes both months from the clock, once:
`current` and, by `PriorDay`'s subtraction of the day of the month, `prior`. `GetOK`,
`GetNotModified`, `GetMissing`,
`GetFails` are the outcomes of `get` with `fetch`'s single fallback to the prior month, on
any 404 of any day (`missed` records that this refresh took it; history);
`CreateTemp`, `Copy`, `Sync`, `Rename`, `WriteFails` are `diskcache.Write`;
`LoadAndSwap`, `LoadFails` are the rest of `Fetcher.Refresh`; `BootAbsent`,
`BootUnusable`, `BootLoaded` are `loadDiskCache`. A fault may hit any network or disk
operation, a removal included. `Crash` stops the process anywhere; `PowerLoss` in addition
takes the disk back to `durable`, the directory entry last written back, with its data
torn if it had not been synced. Orphaned temporary files are ignored by the code and by
the model. The fetcher's mutex is not modelled: `Lifecycle` shows it is never contended.

A 404 for a month whose file is already served thus takes the daemon back: last month's
file is downloaded, cached and swapped in, and stays until the newer one can be had again. This
is what the code does, and `RegressesOnlyWhenMissing` says that nothing else does it, and
that it goes no further back than one month from the one asked for.

`Supply` is what is left of this when one looks only at the blocklist file: `stored` is
the file in `cache`, `kept` the one in `durable`, `served` the active one, `missed` whether
the refresh under way has been answered 404. `Rename` is `Store`, `LoadAndSwap` and
`BootLoaded` are `Serve`, `BootUnusable` is `Discard`, `GetMissing` is `Miss`, the returns of
`Refresh` without a swap are `GiveUp`, the write-back of the directory `Persist`; downloads,
validators and temporary copies stutter. Neither module promises that the newest file survives a power
loss: `Write` does not sync the directory, so one before the write-back brings back the
file that was there before, and the next start serves it.

### Lifecycle

`ColdTry` to `ColdWakes` are `runColdStart`; `StartCron`, `StopCron`, `CronDrained` are
`Scheduler.Run`; `CronFires`, `JobRuns`, `JobSkips`, `JobEnds` are cron with
`SkipIfStillRunning`. `Binds`, `ListenerFails`, `ListenerReturns` are the listener
goroutine, `BeginShutdown` to `RunReturns` are `Server.Run` with its deferred calls,
`Exit` is the end of `runComponents`. `Cancelled` is `runCtx`. A refresh is an interval
whose outcome is arbitrary. `Backoff` shifts in a signed word of `Width` bits.

The daemon always uses the default policy. Not every policy would do: where the shift
wraps to a small positive number (`Width` 6, `BaseDelay` 9, attempt 3) `backoff` returns
that number, since all it checks is `<= 0` and `> MaxDelay`. `ShiftAssumption` is what
rules this out: the odd part of `BaseDelay` is small enough for a wrapped shift to be 0,
negative or beyond `MaxDelay`. 2 s in nanoseconds is 1953125 * 2^10, and 1953125 times
5 min is below 2^63, so the default policy meets it over 64 bits. `Pow2` is a recursive
function and not `2^n` so that the provers can unfold it.

### Blocklist

Tries live in a heap `trie` and are referred to by number, so that a write to a trie
that readers hold is visible. A node is named by the path from the root (`Node(a, n)`: the first
`n` bits of `a`, in the root of its family); a trie is its nodes, its terminal nodes and
its count. `BeginLoad`, `Skip`, `BeginInsert`, `LoadFails` are `LoadCountryBlocklist`
over the networks in any order; `InsertBit` and `InsertEnd` the loop of `Insert` and what
follows it; `Canonical` and `Kept` its masking, `Unmap` and bounds. An
IPv4-mapped prefix keeps its IPv6-framed length after `Unmap` and is then too long, so it is
dropped, as in the code. `Swap` publishes. On the request's side `Lookup`,
`StartupAnswer`, `Judge` are `handleCheck`, without the tracker; `RealIP`, `NoRealIP`,
`ForwardedFor`, `SkipEntry`, `NoAddress` are `extractClientIP` and `rightmostXFF`, entry
by entry; `Covered`, `NotCovered`, `Descend` are `Contains`, bit by bit.

Addresses have `W4` and `W6` bits instead of 32 and 128. What matters of the difference
is kept as an assumption: the mapped block's prefix is longer than an IPv4 address
(96 > 32), and its last bit is set, so that it is not `::/96`. A header value is an address, blank or junk.
The MMDB reader is external: it yields any networks that fit their family.

### Startup

A configuration file is unreadable, malformed (not YAML, unknown key, wrong type) or a
function from settings to values, some `Omitted`. `Decode` lays it over `defaults`;
`validateListen` to `validateLogging` are the checks of `Validate`, conjoined because
all that is kept of an error is that there is one. `NewLogger`, `CacheAbsent`,
`CacheUnusable`, `CacheLoaded`, `NewServer`, `NewFetcher`, `NewScheduler` follow `run` in
its order. `AddFunc` is where the scheduler hands the schedule to cron: a refusal there
would not end the process but leave a daemon that serves and never refreshes. `found` is the cache as the start found it (history).

## 3. The runs

Passing runs:

| Run | Bounds | Shows |
|---|---|---|
| `readiness_open` | fail-open, 2 requests (symmetric), heartbeat, 2 refreshes, tries `{}` and `{a1}`; 0.9 M states | `SignalsAlternate`, `WindowsDisjoint`, `BeatsDisjoint`, `EverReadyNeverTakenBack`, `NoFalseAlarm`, `Answers` (implements `ForwardAuth`) |
| `readiness_live` | fail-closed, 1 request, 3 refreshes | `Answers`, `TrackerConverges`, `HeartbeatRecurs`, `EveryRequestAnswered` |
| `refresh` | 3 days (0 to 2) in months of 2, 3 publications, 1 fault or missing file, 1 crash, max age 1 day, `FairSpec`; 0.9 M states | `ValidatorsNameActive`, `CacheWhole`, `RegressesOnlyWhenMissing`, `Supplies` (implements `Supply`), `Converges` |
| `lifecycle` | 2 jobs, 1 request, 8 attempts (the default), 8-bit words | `RefreshesDisjoint`, `DrainedOnExit`, `ZeroExitClean`, `NoLostWakeup`, `BackoffGrows`, `RefreshesRecur`, `Terminates` |
| `blocklist` | IPv4 of 2 bits, IPv6 of 5, four databases with nested, duplicate, whole-family, single-address and mapped networks, 2 loads, 1 request with 11 header combinations; 72 k states | `LenExact`, `Answers` (implements `ForwardAuth`), `PublishedFrozen` |
| `startup` | a valid file with any two settings changed or omitted, a minimal file, an unreadable and a malformed one; every cache file up to 2 hours old; 29 k states | `CountryConfigRuns`, `GoodCacheSurvives` |

Why the bounds are enough. Two requests and the heartbeat are three observers: one that
is late, one that reports, one that reports again. Two refreshes make a blocklist usable
and empty again, three let it recover once more. Three days are a month
boundary with the cache both fresh and stale; three publications are a file for
last month and one for this month that is replaced between a download and the next request, or
the files of three months. Safety and liveness are checked in one
run because the interesting case is a fault, or a file gone missing, followed by recovery.
The same model was also run, for about as long as a routine check may take, with 2 crashes
(1.4 M states), with 2 faults or missing files (2.2 M, so that one may follow the
other) and with 4 days (2.2 M);
all pass. Two jobs are what it takes to overlap. Eight attempts
from 10 over eight-bit words reach a plain delay, the cap, a wrap to a negative number, one
to a positive number beyond the cap, and the shift guard.
Two loads let a request hold the old trie while a new one is built and published. Two
bits are enough for a network to lie inside another that lies inside the family, and for
a walk to stop at the root, inside and after the last bit; five are the least for a
mapped block longer than an IPv4 address. Two settings at once are what it
takes for one check to depend on another setting (countries with ASNs, one source with the
other); each takes the values on both sides of its check.
The safety properties are proved without these bounds (section 5).

Runs that show a disagreement between the repository's words and its code:

| Run | What TLC finds |
|---|---|
| `recovery_once` | a request looks up before a refresh and observes after the recovery was reported: a second outage and a second recovery are reported for one refresh |
| `likely_cause` | a first load (a fetch, or the disk cache) that matches no country is reported with the cause of no load at all, "no successful fetch since start" |
| `windows_complete` | an allow counted after its window has closed is in no recovery signal |
| `download_served` | a failing cache write drops a good download |
| `confirmed_cache` | a 304 does not renew the cache's mtime, so a file confirmed within `cache.max_age` is discarded at start (ADR 0005 describes this) |
| `accepted_config` | a file that blocks ASNs only passes `Validate`, costs a good cache file, and is refused by the fetcher's constructor |

Met on the way, and without a run of their own:

- README.md:60 gives `sources.dbip.enabled` the default `true`, but `defaults()` has none: a
  file that omits it is refused, or, if it enables `bgptools`, runs with it off. (It is
  ineffective besides: a file that enables `bgptools` only still downloads from DB-IP.)
- fetcher.go:131-132 ("falling back to the prior month on a rollover-day 404") and ADR
  0003:189-191 explain the fallback by the first days of a month, which the code does not
  test: it falls back on a 404 of any day, although this month's file may be served already.
- scheduler.go:145-147 says that returning AddFunc's error keeps a daemon from starting with
  a dead cron, but `runComponents` only logs what `Run` returns. No accepted
  configuration gets there (`CountryConfigRuns`).
- README.md:64 and the comment in `server.go` say that fail-closed denials are always
  logged, but a denial for want of a blocklist is not.
- docs/BitBlocker.md:159 announces a log line for ASNs that no code writes.

Each property of a passing run has a mutant (`PROJECT.json`): a plausible slip in one
mapped definition under which TLC finds the property violated. The mutated forms stand
in the modules just before the definitions they replace.

`Lifecycle`, `Blocklist` and `Startup` are checked without deadlock checking: the process
exits; loads are bounded and each request is answered once; a start ends.

## 4. Fairness

- `Readiness`: each goroutine's steps are weakly fair (the Go scheduler runs runnable
  goroutines), a mutex is handed on, and the ticker keeps firing. Neither requests nor
  refreshes need to come.
- `Refresh`: the daemon's next step is weakly fair, whether it is one of its own (cron keeps
  triggering, the client and the context have timeouts) or its restart after it has stopped
  (the systemd unit's `Restart=on-failure`, and at boot). Nothing is assumed of when the site
  publishes, withdraws or brings back a file, of the clock or of the disk; faults, files going
  missing and crashes are finite in number. What the model does assume of the site's answers is that
  validators identify a publication: if they are sent, a 304 comes for that file and no
  other. (A site that sent no ETag and compared Last-Modified only could answer 304 for an
  older month's file; the daemon would then keep the newer one.)
- `Blocklist` and `Startup` state none: their questions are about safety. That every
  request is answered is `Readiness`'s `EveryRequestAnswered`; the walk and the header loop it leaves
  closed are bounded by the address's length and the list's.
- `Lifecycle`: goroutines are scheduled, a refresh ends (`refresh.timeout`), the cron
  schedule keeps coming due. The heartbeat's return is strongly fair: `select` chooses at
  random between a due tick and a cancelled context. Requests need not end; `Shutdown`'s
  deadline takes care of them.

## 5. What is proved

All theorems hold for arbitrary constants under the named assumptions of the modules
(`TriesAssumption`, `ModeAssumption`, `NoneAssumption`, `HeartbeatAssumption`,
`MaxSwapsAssumption`; `CalendarAssumption`, `BoundsAssumption`, `NoFileAssumption`;
`PolicyAssumption`, `ShiftAssumption`; `WidthAssumption`, `DatabasesAssumption`,
`HeadersAssumption`, `LoadsAssumption`; `DocumentsAssumption`, `AgeAssumption`;
`AbsentAssumption` in both). All but one say no more than that constants are of the right
kind and model values are distinct. The exception is `ShiftAssumption`, a condition on
the backoff policy that the default one meets (section 2, Lifecycle); only the theorems about
the backoff use it.

`ReadinessProofs`: `TypeCorrect`, `SignalsAlways`, `WindowsAlways`, `BeatsAlways`,
`EverReadyAlways`, `NeverFalseAlarm`, `AnswersAlways`. None of these properties is inductive alone. `Inv` adds
to the types that `mu` is held exactly by the goroutine inside the critical section
(`Mutex`), what that goroutine knows about flag and window at each of its steps
(`Stage`), and that the windows reported so far end before the open one begins
(`Windows`). `Handling` says what a request has gone through at its label; over it,
`Ready` is the latch's debt to a request past `observe`'s first store, and `Beats` counts
the requests between their two additions (a cardinality, hence the finite-set
lemmas). `NeverFalseAlarm` narrows down `recovery_once`'s counterexample: once the flag is
right and no goroutine still holds an outdated blocklist (`Agreed`), no step of any
goroutine signals anything until a refresh changes usability, because by `Stage` whoever is
inside the critical section disagrees with the flag. The refinement is
step by step: `Lookup` is `Choose`, the handlers' last steps
are `Respond` or `Reject`, everything else stutters.

`RefreshProofs`: `TypeCorrect`, `ValidatorsAlways`, `CacheAlwaysWhole`,
`RegressionOnlyWhenMissing`, `SuppliesAlways`.
`Pipe` says what a refresh carries at each label (two consecutive months, a file, its
temporary copy, synced before the rename), `Whole` that both the cache and what a power loss would leave
of it are synced. The two months are consecutive by `MonthOfPriorDay`: subtracting the day of
the month leads into the month before, for every length of month and every day; one
day less would not, and `Converges` then fails (its mutant). `RegressionOnlyWhenMissing` needs
`Known` (no file on the site, served or stored is of a month that has not begun) and
`Ahead`: until a refresh is answered 404 nothing served or cached is of a later month than
it asks for, so what it brings is no older; after a 404 it brings the month before or nothing.
`SuppliesAlways` takes the same `Ahead` for `Store` and `Serve`, and by
`Whole` what a power loss leaves of the file is the file itself, not a torn one.

`BackoffProofs`: `BackoffExact`, the one theorem about arithmetic. For every attempt
number the machine-word `Backoff` is `BaseDelay * Pow2[n]` in unbounded arithmetic, capped
at `MaxDelay`: the cap, the overflow check and the guard on the shift together lose
nothing. A shift that wraps is a multiple of `Pow2[n + k]` modulo `Pow2[Width]` and so, when
positive, at least that (`WrappedMultiple`), which `ShiftAssumption` puts beyond `MaxDelay`.
The library's induction theorem takes an operator, which the provers cannot instantiate;
here induction is over a set (`NatSet`: one with 0 and the successor of each of its
members is `Nat`, from the well-foundedness of `<`), which suffices for the lemmas about
`Pow2`.

`LifecycleProofs`: `TypeCorrect`, `DisjointAlways`, `DrainedAlways`, `ZeroExitAlwaysClean`,
`NeverLostWakeup`, `BackoffAlwaysGrows`.
`Exclusive` ties `SkipIfStillRunning`'s token to the refreshing job and the jobs to the
time between cron's start and its drain; `Ending` orders the returns; `Clean` follows a nil result
from the closed listener through `errCh`. `NeverLostWakeup` is the safety half of
`Terminates`: `Delivered` extends it over the shutdown in progress. `Paced` says which
attempt the latest delay belongs to, and `BackoffExact` that the next one is no shorter.

`BlocklistProofs`: `TypeCorrect`, `AlwaysFrozen`, `LenAlwaysExact`, `AnswersAlways`,
`NeverBypassed`.
`Owned` is the ownership argument behind the lock-free read: the trie under
construction is neither the published one nor one that any request holds (`Apart`).
`Built` says what a trie under construction contains: its terminal nodes are
those of the blocked networks visited so far (`Marked`), it has every node above them
(`Pathed`), and the count is their number (`Counted`). When nothing is left to visit,
this is `CoveredBy` of the database, so every published trie is `Served`. `Handling`
is the request's side: what its headers yield is what the loop has still to find, and no
node above the walk's position is terminal. The walk's last step then agrees with the set, and
the refinement maps `Swap` to `Swap`, `Lookup` to `Choose` and the answers to `Respond`.
`NeverBypassed` uses the refinement to say what it is for: a client is let through only if
the address its headers give is in no network of a blocked country in the database whose
trie the request holds, or if there is none and the mode is fail-open. (It is the one theorem whose
statement, `NoBypass`, no run checks: it follows from `Answers`.)

`StartupProofs`: `TypeCorrect`, `CountryConfigAlwaysRuns`, `GoodCacheAlwaysSurvives`.
The invariant adds to the types what each constructor, and cron, may rely on
(`Passed`) and what has become of the cache by then (`Kept`).

Only model-checked: the liveness properties `TrackerConverges`, `HeartbeatRecurs`,
`EveryRequestAnswered`, `Converges`, `RefreshesRecur`, `Terminates` (the prover handles neither
fairness nor ENABLED). Every other property of a passing run is a theorem.

## 6. Not modelled

- Of a header its first line only, which is all `Header.Get` returns; zones in
  addresses and white space around list entries.
- Networks whose mask is not canonical: the MMDB reader builds every mask with
  `net.CIDRMask`, so `prefixFromIPNet`'s 0, 0 cannot come up.
- `behavior.log_blocked` and `log_allowed`: nothing checks them and only log lines use
  them. `logging`'s context helpers and `Redact`: output only, as are log formats, HTTP
  headers and bodies, and TLS set-up.
- In `Startup` a cache file that cannot be read is one that is `corrupt`; `Refresh` has the
  two apart.
- Whether a default is the documented one: a model could only repeat the table (section 3
  names the one that is not).
- Publication of a month's file after that month has ended.
- Packaging, CI: no program state.
- Clock jumps: `now` only goes forward, in `Refresh` by days.

## 7. Plan

Done, each with its proofs: `Decision`, `ForwardAuth`, `Readiness`; `Refresh`;
`Lifecycle`; `Blocklist`; `Startup`. What could still be added:

1. `Refresh` with files that load but match no country, composed with `ForwardAuth`: an
   outage seen from the request's side.
2. A load's result does not depend on the order of the networks, as a theorem about two
   loads (today it follows from `AnswersAlways`, since the abstract set has no order).
3. The safety halves of the other liveness properties, as `NoLostWakeup` is of
   `Terminates`: for `Converges`, that what a refresh still lacks is always what some
   step of it can supply.
