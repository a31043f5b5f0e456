--------------------------- MODULE RefreshProofs ---------------------------
(***************************************************************************)
(* Theorems about Refresh for every calendar, staleness bound, number of   *)
(* publications, faults and crashes.                                       *)
(*                                                                         *)
(* Pipe says what a refresh carries at each label, Whole that nothing      *)
(* unsynced is ever under cache.path, Known that no file is ahead of the   *)
(* calendar, and Ahead that a refresh carries nothing older than what it   *)
(* will replace unless it was answered 404: then, the month before its own.*)
(***************************************************************************)
EXTENDS Refresh, TLAPS

Carrying == {"createTemp", "copy", "sync", "rename", "load"}

Pipe ==
    /\ pc \in {"down", "boot", "idle"} => missed = FALSE
    /\ pc \in {"get", "getPrior"} => current >= 1 /\ prior = current - 1
    /\ pc \in Carrying => body \in Files /\ tag \in {body, NoFile}
    /\ pc \in {"sync", "rename"} => temp \in Entries /\ temp.file = body
    /\ pc = "rename" => temp.synced = TRUE
    /\ pc = "load" => cache \in Entries /\ cache.file = body
    /\ pc \in {"down", "boot"} => active = NoFile /\ etag = NoFile

(* Whatever cache.path names, now or after a power loss, is on disk in     *)
(* full.                                                                   *)
WholeEntry(e) == e # NoFile => e.synced = TRUE /\ e.file \in Files
Whole == WholeEntry(cache) /\ WholeEntry(durable)

Inv == TypeOK /\ Pipe /\ Whole /\ ValidatorsNameActive

(* Months of a file and of an entry are before m, or m itself. *)
By(f, m) == f # NoFile => f.month <= m
ByEntry(e, m) == e # NoFile => e.file.month <= m

Known ==
    /\ \A m \in Months : site[m] # NoFile => site[m].month = m /\ m <= MonthOf(now)
    /\ By(active, MonthOf(now)) /\ By(body, MonthOf(now))
    /\ ByEntry(cache, MonthOf(now)) /\ ByEntry(durable, MonthOf(now))

Ahead ==
    /\ pc = "get" => missed = FALSE /\ By(active, current) /\ ByEntry(cache, current)
    /\ pc = "getPrior" => missed = TRUE
    /\ pc \in Carrying /\ missed = TRUE => body.month = current - 1
    /\ pc \in Carrying /\ missed = FALSE =>
          By(active, body.month) /\ ByEntry(cache, body.month)

USE DEF vars, external, fetch, memory, disk, Goto, Return, NoRefresh

----------------------------------------------------------------------------
(* The month of a day is a month of the model, and never goes back. *)
LEMMA MonthOfDay ==
    ASSUME NEW d \in Days
    PROVE  /\ MonthOf(d) \in Months
           /\ MonthOf(d) >= 1
           /\ d + 1 \in Days => MonthOf(d) <= MonthOf(d + 1)
<1>1. ASSUME NEW a \in Nat, NEW b \in Nat, a <= b
      PROVE  a \div DaysPerMonth \in Nat /\ a \div DaysPerMonth <= b \div DaysPerMonth
  BY <1>1, CalendarAssumption
<1> QED BY <1>1, CalendarAssumption DEF MonthOf, Months, Days

(* The month before the model's first day is one of its months. *)
LEMMA MonthZero == 0 \in Months
BY MonthOfDay, CalendarAssumption DEF Months, Days

(* Going back by the day of the month leads into the month before: the     *)
(* prior month asked for is that of the calendar, on every day.            *)
LEMMA MonthOfPriorDay ==
    ASSUME NEW d \in Days
    PROVE  MonthOf(PriorDay(d)) = MonthOf(d) - 1
<1> DEFINE K == DaysPerMonth
           q == d \div K
<1>1. d \in Int /\ K \in Int /\ K > 0 /\ q \in Int
  BY CalendarAssumption DEF Days
<1>2. d % K = d - K * q
  BY <1>1
<1>3. PriorDay(d) = K * q - 1
  BY <1>1, <1>2 DEF PriorDay, DayOf
<1>4. (K * q - 1) \div K = q - 1
  BY <1>1
<1> QED BY <1>1, <1>3, <1>4 DEF MonthOf

(* The daemon's first start, with nothing on disk. *)
LEMMA InitInv == Init => Inv
<1> SUFFICES ASSUME Init PROVE Inv
  OBVIOUS
<1>1. TypeOK
  <2>1. 0 \in Days /\ 0 \in Months
    BY CalendarAssumption, MonthZero DEF Days
  <2>2. WorldOK
    <3>1. PICK f \in {NoFile} \cup {g \in Files : g.month = 0 /\ g.rev = 1} :
              /\ site = [m \in Months |-> IF m = 0 THEN f ELSE NoFile]
              /\ published = IF f = NoFile THEN 0 ELSE 1
      BY DEF Init
    <3>2. f # NoFile => f.rev \in 1..MaxPublished
      BY <3>1 DEF Files
    <3>3. site \in [Months -> Files \cup {NoFile}] /\ published \in 0..MaxPublished
      BY <3>1, <3>2, BoundsAssumption
    <3> QED BY <2>1, <3>3, BoundsAssumption DEF Init, WorldOK
  <2>3. DaemonOK
    BY <2>1 DEF Init, DaemonOK, Labels
  <2>4. DiskOK
    BY DEF Init, DiskOK
  <2> QED BY <2>2, <2>3, <2>4 DEF TypeOK
<1> QED BY <1>1 DEF Init, Inv, Pipe, Whole, WholeEntry, ValidatorsNameActive, Carrying

(* Every step of the daemon and of the world preserves Inv. *)
LEMMA NextInv == Inv /\ [Next]_vars => Inv'
<1> SUFFICES ASSUME Inv, [Next]_vars PROVE Inv'
  OBVIOUS
<1> USE CalendarAssumption, BoundsAssumption, NoFileAssumption, MonthZero
<1>stutter. CASE UNCHANGED vars
  BY <1>stutter DEF Inv, TypeOK, WorldOK, DaemonOK, DiskOK, Pipe, Whole, WholeEntry, ValidatorsNameActive
<1>Tick. ASSUME Tick PROVE Inv'
  <2>1. TypeOK'
    BY <1>Tick DEF Inv, TypeOK, WorldOK, DaemonOK, DiskOK, Labels, Days, Tick
  <2>2. Pipe'
    BY <1>Tick DEF Inv, Pipe, Carrying, Tick
  <2>3. Whole'
    BY <1>Tick DEF Inv, Pipe, Whole, WholeEntry, Tick
  <2>4. ValidatorsNameActive'
    BY <1>Tick DEF Inv, Pipe, ValidatorsNameActive, Carrying, Tick
  <2> QED BY <2>1, <2>2, <2>3, <2>4 DEF Inv
<1>Publish. ASSUME NEW k \in Kinds, Publish(k) PROVE Inv'
  <2>1. TypeOK'
    <3> DEFINE m == MonthOf(now)
    <3>1. m \in Months
      BY MonthOfDay DEF Inv, TypeOK, WorldOK
    <3>2. \A f \in Files : f.rev \in 1..MaxPublished
      BY DEF Files
    <3>3. site'[m] \in Files
      BY <1>Publish, <3>1, <3>2 DEF Inv, TypeOK, WorldOK, Publish, Files
    <3> QED BY <1>Publish, <3>1, <3>3 DEF Inv, TypeOK, WorldOK, DaemonOK, DiskOK, Publish
  <2>2. Pipe'
    BY <1>Publish DEF Inv, Pipe, Carrying, Publish
  <2>3. Whole'
    BY <1>Publish DEF Inv, Pipe, Whole, WholeEntry, Publish
  <2>4. ValidatorsNameActive'
    BY <1>Publish DEF Inv, Pipe, ValidatorsNameActive, Carrying, Publish
  <2> QED BY <2>1, <2>2, <2>3, <2>4 DEF Inv
<1>GoesMissing. ASSUME NEW m \in Months, GoesMissing(m) PROVE Inv'
  <2>1. TypeOK'
    BY <1>GoesMissing DEF Inv, TypeOK, WorldOK, DaemonOK, DiskOK, GoesMissing, Fault
  <2>2. Pipe'
    BY <1>GoesMissing DEF Inv, Pipe, Carrying, GoesMissing, Fault
  <2>3. Whole'
    BY <1>GoesMissing DEF Inv, Pipe, Whole, WholeEntry, GoesMissing, Fault
  <2>4. ValidatorsNameActive'
    BY <1>GoesMissing DEF Inv, Pipe, ValidatorsNameActive, Carrying, GoesMissing, Fault
  <2> QED BY <2>1, <2>2, <2>3, <2>4 DEF Inv
<1>ComesBack. ASSUME NEW m \in Months, ComesBack(m) PROVE Inv'
  <2>1. TypeOK'
    BY <1>ComesBack DEF Inv, TypeOK, WorldOK, DaemonOK, DiskOK, ComesBack
  <2>2. Pipe'
    BY <1>ComesBack DEF Inv, Pipe, Carrying, ComesBack
  <2>3. Whole'
    BY <1>ComesBack DEF Inv, Pipe, Whole, WholeEntry, ComesBack
  <2>4. ValidatorsNameActive'
    BY <1>ComesBack DEF Inv, Pipe, ValidatorsNameActive, Carrying, ComesBack
  <2> QED BY <2>1, <2>2, <2>3, <2>4 DEF Inv
<1>Writeback. ASSUME Writeback PROVE Inv'
  <2>1. TypeOK'
    BY <1>Writeback DEF Inv, TypeOK, WorldOK, DaemonOK, DiskOK, Labels, Writeback
  <2>2. Pipe'
    BY <1>Writeback DEF Inv, Pipe, Carrying, Writeback
  <2>3. Whole'
    BY <1>Writeback DEF Inv, Pipe, Whole, WholeEntry, Writeback
  <2>4. ValidatorsNameActive'
    BY <1>Writeback DEF Inv, Pipe, ValidatorsNameActive, Carrying, Writeback
  <2> QED BY <2>1, <2>2, <2>3, <2>4 DEF Inv
<1>Crash. ASSUME Crash PROVE Inv'
  <2>1. TypeOK'
    <3>1. WorldOK'
      BY <1>Crash DEF Inv, TypeOK, WorldOK, Crash, Stop
    <3>2. DaemonOK'
      BY <1>Crash DEF Inv, TypeOK, DaemonOK, Labels, Crash, Stop
    <3>3. DiskOK'
      BY <1>Crash DEF Inv, TypeOK, DiskOK, Crash, Stop
    <3> QED BY <3>1, <3>2, <3>3 DEF TypeOK
  <2>2. Pipe'
    BY <1>Crash DEF Inv, Pipe, Carrying, Crash, Stop
  <2>3. Whole'
    BY <1>Crash DEF Inv, Pipe, Whole, WholeEntry, Crash, Stop
  <2>4. ValidatorsNameActive'
    BY <1>Crash DEF Inv, Pipe, ValidatorsNameActive, Carrying, Crash, Stop
  <2> QED BY <2>1, <2>2, <2>3, <2>4 DEF Inv
<1>PowerLoss. ASSUME PowerLoss PROVE Inv'
  <2>1. TypeOK'
    <3>1. AfterPowerLoss = durable
      BY DEF Inv, Whole, WholeEntry, AfterPowerLoss
    <3> QED
      <4>1. WorldOK'
        BY <1>PowerLoss, <3>1 DEF Inv, TypeOK, WorldOK, PowerLoss, Stop
      <4>2. DaemonOK'
        BY <1>PowerLoss, <3>1 DEF Inv, TypeOK, DaemonOK, Labels, PowerLoss, Stop
      <4>3. DiskOK'
        BY <1>PowerLoss, <3>1 DEF Inv, TypeOK, DiskOK, PowerLoss, Stop
      <4> QED BY <4>1, <4>2, <4>3 DEF TypeOK
  <2>2. Pipe'
    BY <1>PowerLoss DEF Inv, Pipe, Carrying, PowerLoss, Stop, AfterPowerLoss
  <2>3. Whole'
    BY <1>PowerLoss DEF Inv, Pipe, Whole, WholeEntry, PowerLoss, Stop, AfterPowerLoss
  <2>4. ValidatorsNameActive'
    BY <1>PowerLoss DEF Inv, Pipe, ValidatorsNameActive, Carrying, PowerLoss, Stop, AfterPowerLoss
  <2> QED BY <2>1, <2>2, <2>3, <2>4 DEF Inv
<1>Restart. ASSUME Restart PROVE Inv'
  <2>1. TypeOK'
    BY <1>Restart DEF Inv, TypeOK, WorldOK, DaemonOK, DiskOK, Labels, Restart
  <2>2. Pipe'
    BY <1>Restart DEF Inv, Pipe, Carrying, Restart
  <2>3. Whole'
    BY <1>Restart DEF Inv, Pipe, Whole, WholeEntry, Restart
  <2>4. ValidatorsNameActive'
    BY <1>Restart DEF Inv, Pipe, ValidatorsNameActive, Carrying, Restart
  <2> QED BY <2>1, <2>2, <2>3, <2>4 DEF Inv
<1>BootAbsent. ASSUME BootAbsent PROVE Inv'
  <2>1. TypeOK'
    BY <1>BootAbsent DEF Inv, TypeOK, WorldOK, DaemonOK, DiskOK, Labels, BootAbsent
  <2>2. Pipe'
    BY <1>BootAbsent DEF Inv, Pipe, Carrying, BootAbsent
  <2>3. Whole'
    BY <1>BootAbsent DEF Inv, Pipe, Whole, WholeEntry, BootAbsent
  <2>4. ValidatorsNameActive'
    BY <1>BootAbsent DEF Inv, Pipe, ValidatorsNameActive, Carrying, BootAbsent
  <2> QED BY <2>1, <2>2, <2>3, <2>4 DEF Inv
<1>BootUnusable. ASSUME BootUnusable PROVE Inv'
  <2>1. TypeOK'
    BY <1>BootUnusable DEF Inv, TypeOK, WorldOK, DaemonOK, DiskOK, Labels, BootUnusable, Fault
  <2>2. Pipe'
    BY <1>BootUnusable DEF Inv, Pipe, Carrying, BootUnusable, Fault
  <2>3. Whole'
    BY <1>BootUnusable DEF Inv, Pipe, Whole, WholeEntry, BootUnusable, Fault
  <2>4. ValidatorsNameActive'
    BY <1>BootUnusable DEF Inv, Pipe, ValidatorsNameActive, Carrying, BootUnusable, Fault
  <2> QED BY <2>1, <2>2, <2>3, <2>4 DEF Inv
<1>BootLoaded. ASSUME BootLoaded PROVE Inv'
  <2>1. TypeOK'
    BY <1>BootLoaded DEF Inv, TypeOK, WorldOK, DaemonOK, DiskOK, Labels, Whole, WholeEntry, BootLoaded
  <2>2. Pipe'
    BY <1>BootLoaded DEF Inv, Pipe, Carrying, BootLoaded
  <2>3. Whole'
    BY <1>BootLoaded DEF Inv, Pipe, Whole, WholeEntry, BootLoaded
  <2>4. ValidatorsNameActive'
    BY <1>BootLoaded DEF Inv, Pipe, ValidatorsNameActive, Carrying, BootLoaded
  <2> QED BY <2>1, <2>2, <2>3, <2>4 DEF Inv
<1>StartRefresh. ASSUME StartRefresh PROVE Inv'
  <2>1. TypeOK'
    <3>1. WorldOK'
      BY <1>StartRefresh DEF Inv, TypeOK, WorldOK, StartRefresh
    <3>2. DaemonOK'
      <4>1. now \in Days /\ MonthOf(now) \in Months /\ MonthOf(now) >= 1
        BY MonthOfDay DEF Inv, TypeOK, WorldOK
      <4>2. MonthOf(PriorDay(now)) \in Months
        BY <4>1, MonthOfPriorDay, MonthOfDay DEF Months, Days
      <4> QED BY <1>StartRefresh, <4>1, <4>2 DEF Inv, TypeOK, DaemonOK, Labels, StartRefresh
    <3>3. DiskOK'
      BY <1>StartRefresh DEF Inv, TypeOK, DiskOK, StartRefresh
    <3> QED BY <3>1, <3>2, <3>3 DEF TypeOK
  <2>2. Pipe'
    BY <1>StartRefresh, MonthOfDay, MonthOfPriorDay
       DEF Inv, TypeOK, WorldOK, DiskOK, Pipe, Carrying, StartRefresh
  <2>3. Whole'
    BY <1>StartRefresh DEF Inv, Pipe, Whole, WholeEntry, StartRefresh
  <2>4. ValidatorsNameActive'
    BY <1>StartRefresh DEF Inv, Pipe, ValidatorsNameActive, Carrying, StartRefresh
  <2> QED BY <2>1, <2>2, <2>3, <2>4 DEF Inv
<1>GetOK. ASSUME GetOK PROVE Inv'
  <2>0. Asked \in Files
    <3>1. (IF pc = "get" THEN current ELSE prior) \in Months
      BY DEF Inv, TypeOK, DaemonOK
    <3> QED BY <1>GetOK, <3>1 DEF Inv, TypeOK, WorldOK, DaemonOK, GetOK, Asked, OnSite
  <2>1. TypeOK'
    BY <1>GetOK, <2>0 DEF Inv, TypeOK, WorldOK, DaemonOK, DiskOK, Labels, GetOK
  <2>2. Pipe'
    BY <1>GetOK, <2>0 DEF Inv, Pipe, Carrying, GetOK
  <2>3. Whole'
    BY <1>GetOK DEF Inv, Pipe, Whole, WholeEntry, GetOK, Asking, Asked
  <2>4. ValidatorsNameActive'
    BY <1>GetOK DEF Inv, Pipe, ValidatorsNameActive, Carrying, GetOK, Asking, Asked
  <2> QED BY <2>1, <2>2, <2>3, <2>4 DEF Inv
<1>GetNotModified. ASSUME GetNotModified PROVE Inv'
  <2>1. TypeOK'
    BY <1>GetNotModified DEF Inv, TypeOK, WorldOK, DaemonOK, DiskOK, Labels, GetNotModified, Asking
  <2>2. Pipe'
    BY <1>GetNotModified DEF Inv, Pipe, Carrying, GetNotModified, Asking
  <2>3. Whole'
    BY <1>GetNotModified DEF Inv, Pipe, Whole, WholeEntry, GetNotModified, Asking
  <2>4. ValidatorsNameActive'
    BY <1>GetNotModified DEF Inv, Pipe, ValidatorsNameActive, Carrying, GetNotModified, Asking
  <2> QED BY <2>1, <2>2, <2>3, <2>4 DEF Inv
<1>GetMissing. ASSUME GetMissing PROVE Inv'
  <2>1. TypeOK'
    BY <1>GetMissing DEF Inv, TypeOK, WorldOK, DaemonOK, DiskOK, Labels, GetMissing, Asking
  <2>2. Pipe'
    BY <1>GetMissing DEF Inv, Pipe, Carrying, GetMissing, Asking
  <2>3. Whole'
    BY <1>GetMissing DEF Inv, Pipe, Whole, WholeEntry, GetMissing, Asking
  <2>4. ValidatorsNameActive'
    BY <1>GetMissing DEF Inv, Pipe, ValidatorsNameActive, Carrying, GetMissing, Asking
  <2> QED BY <2>1, <2>2, <2>3, <2>4 DEF Inv
<1>GetFails. ASSUME GetFails PROVE Inv'
  <2>1. TypeOK'
    <3>1. WorldOK'
      BY <1>GetFails DEF Inv, TypeOK, WorldOK, GetFails, Asking, Fault
    <3>2. DaemonOK'
      BY <1>GetFails DEF Inv, TypeOK, DaemonOK, Labels, GetFails, Asking, Fault
    <3>3. DiskOK'
      BY <1>GetFails DEF Inv, TypeOK, DiskOK, GetFails, Asking, Fault
    <3> QED BY <3>1, <3>2, <3>3 DEF TypeOK
  <2>2. Pipe'
    BY <1>GetFails DEF Inv, Pipe, Carrying, GetFails, Asking, Fault
  <2>3. Whole'
    BY <1>GetFails DEF Inv, Pipe, Whole, WholeEntry, GetFails, Asking, Fault
  <2>4. ValidatorsNameActive'
    BY <1>GetFails DEF Inv, Pipe, ValidatorsNameActive, Carrying, GetFails, Asking, Fault
  <2> QED BY <2>1, <2>2, <2>3, <2>4 DEF Inv
<1>CreateTemp. ASSUME CreateTemp PROVE Inv'
  <2>1. TypeOK'
    BY <1>CreateTemp DEF Inv, TypeOK, WorldOK, DaemonOK, DiskOK, Labels, CreateTemp
  <2>2. Pipe'
    BY <1>CreateTemp DEF Inv, Pipe, Carrying, CreateTemp
  <2>3. Whole'
    BY <1>CreateTemp DEF Inv, Pipe, Whole, WholeEntry, CreateTemp
  <2>4. ValidatorsNameActive'
    BY <1>CreateTemp DEF Inv, Pipe, ValidatorsNameActive, Carrying, CreateTemp
  <2> QED BY <2>1, <2>2, <2>3, <2>4 DEF Inv
<1>Copy. ASSUME Copy PROVE Inv'
  <2>1. TypeOK'
    BY <1>Copy DEF Inv, TypeOK, WorldOK, DaemonOK, DiskOK, Labels, Pipe, Carrying, Entries, Copy
  <2>2. Pipe'
    BY <1>Copy DEF Inv, TypeOK, WorldOK, DaemonOK, DiskOK, Pipe, Carrying, Entries, Copy
  <2>3. Whole'
    BY <1>Copy DEF Inv, Pipe, Whole, WholeEntry, Copy
  <2>4. ValidatorsNameActive'
    BY <1>Copy DEF Inv, Pipe, ValidatorsNameActive, Carrying, Copy
  <2> QED BY <2>1, <2>2, <2>3, <2>4 DEF Inv
<1>Sync. ASSUME Sync PROVE Inv'
  <2>1. TypeOK'
    BY <1>Sync DEF Inv, TypeOK, WorldOK, DaemonOK, DiskOK, Labels, Pipe, Entries, Sync
  <2>2. Pipe'
    BY <1>Sync DEF Inv, Pipe, Carrying, Entries, Sync
  <2>3. Whole'
    BY <1>Sync DEF Inv, Pipe, Whole, WholeEntry, Sync
  <2>4. ValidatorsNameActive'
    BY <1>Sync DEF Inv, Pipe, ValidatorsNameActive, Carrying, Sync
  <2> QED BY <2>1, <2>2, <2>3, <2>4 DEF Inv
<1>Rename. ASSUME Rename PROVE Inv'
  <2>1. TypeOK'
    BY <1>Rename DEF Inv, TypeOK, WorldOK, DaemonOK, DiskOK, Labels, Rename
  <2>2. Pipe'
    BY <1>Rename DEF Inv, Pipe, Carrying, Rename
  <2>3. Whole'
    BY <1>Rename DEF Inv, Pipe, Carrying, Whole, WholeEntry, Rename
  <2>4. ValidatorsNameActive'
    BY <1>Rename DEF Inv, Pipe, ValidatorsNameActive, Carrying, Rename
  <2> QED BY <2>1, <2>2, <2>3, <2>4 DEF Inv
<1>WriteFails. ASSUME WriteFails PROVE Inv'
  <2>1. TypeOK'
    <3>1. WorldOK'
      BY <1>WriteFails DEF Inv, TypeOK, WorldOK, WriteFails, Writing, Fault
    <3>2. DaemonOK'
      BY <1>WriteFails DEF Inv, TypeOK, DaemonOK, Labels, WriteFails, Writing, Fault
    <3>3. DiskOK'
      BY <1>WriteFails DEF Inv, TypeOK, DiskOK, WriteFails, Writing, Fault
    <3> QED BY <3>1, <3>2, <3>3 DEF TypeOK
  <2>2. Pipe'
    BY <1>WriteFails DEF Inv, Pipe, Carrying, WriteFails, Writing, Fault
  <2>3. Whole'
    BY <1>WriteFails DEF Inv, Pipe, Whole, WholeEntry, WriteFails, Writing, Fault
  <2>4. ValidatorsNameActive'
    BY <1>WriteFails DEF Inv, Pipe, ValidatorsNameActive, Carrying, WriteFails, Writing, Fault
  <2> QED BY <2>1, <2>2, <2>3, <2>4 DEF Inv
<1>LoadAndSwap. ASSUME LoadAndSwap PROVE Inv'
  <2>1. TypeOK'
    BY <1>LoadAndSwap DEF Inv, TypeOK, WorldOK, DaemonOK, DiskOK, Labels, Pipe, Carrying, LoadAndSwap
  <2>2. Pipe'
    BY <1>LoadAndSwap DEF Inv, Pipe, Carrying, LoadAndSwap
  <2>3. Whole'
    BY <1>LoadAndSwap DEF Inv, Pipe, Whole, WholeEntry, LoadAndSwap
  <2>4. ValidatorsNameActive'
    BY <1>LoadAndSwap DEF Inv, Pipe, ValidatorsNameActive, Carrying, LoadAndSwap
  <2> QED BY <2>1, <2>2, <2>3, <2>4 DEF Inv
<1>LoadFails. ASSUME LoadFails PROVE Inv'
  <2>1. TypeOK'
    <3>1. WorldOK'
      BY <1>LoadFails DEF Inv, TypeOK, WorldOK, LoadFails, Fault
    <3>2. DaemonOK'
      BY <1>LoadFails DEF Inv, TypeOK, DaemonOK, Labels, LoadFails, Fault
    <3>3. DiskOK'
      BY <1>LoadFails DEF Inv, TypeOK, DiskOK, LoadFails, Fault
    <3> QED BY <3>1, <3>2, <3>3 DEF TypeOK
  <2>2. Pipe'
    BY <1>LoadFails DEF Inv, Pipe, Carrying, LoadFails, Fault
  <2>3. Whole'
    BY <1>LoadFails DEF Inv, Pipe, Whole, WholeEntry, LoadFails, Fault
  <2>4. ValidatorsNameActive'
    BY <1>LoadFails DEF Inv, Pipe, ValidatorsNameActive, Carrying, LoadFails, Fault
  <2> QED BY <2>1, <2>2, <2>3, <2>4 DEF Inv
<1> QED
  BY <1>stutter, <1>Tick, <1>Publish, <1>GoesMissing, <1>ComesBack, <1>Writeback, <1>Crash,
     <1>PowerLoss, <1>Restart, <1>BootAbsent, <1>BootUnusable, <1>BootLoaded, <1>StartRefresh,
     <1>GetOK, <1>GetNotModified, <1>GetMissing, <1>GetFails, <1>CreateTemp, <1>Copy, <1>Sync,
     <1>Rename, <1>WriteFails, <1>LoadAndSwap, <1>LoadFails
  DEF Next, Daemon, World, Boot, Get, Write, Load

(* The supply line stays consistent for ever. *)
LEMMA AlwaysInv == Spec => []Inv
BY InitInv, NextInv, PTL DEF Spec

(* Every variable keeps its type: a refresh asks for months of the         *)
(* calendar only, and what it carries, serves and stores are files.        *)
THEOREM TypeCorrect == Spec => []TypeOK
<1>1. Inv => TypeOK
  BY DEF Inv
<1> QED BY <1>1, AlwaysInv, PTL

(* Whatever fails after a download, the validators kept are those of the   *)
(* blocklist being served.                                                 *)
THEOREM ValidatorsAlways == Spec => []ValidatorsNameActive
<1>1. Inv => ValidatorsNameActive
  BY DEF Inv
<1> QED BY <1>1, AlwaysInv, PTL

(* No crash and no power loss leaves a half-written file at cache.path. *)
THEOREM CacheAlwaysWhole == Spec => []CacheWhole
<1>1. Inv => CacheWhole
  <2>1. Torn \notin Files
    BY DEF Files, Torn, Kinds
  <2> QED BY <2>1 DEF Inv, Whole, WholeEntry, CacheWhole
<1> QED BY <1>1, AlwaysInv, PTL

----------------------------------------------------------------------------
(* Every step keeps what is on the site, served and stored within the      *)
(* calendar.                                                               *)
LEMMA NextKnown == Inv /\ Known /\ [Next]_vars => Known'
<1> SUFFICES ASSUME Inv, Known, [Next]_vars PROVE Known'
  OBVIOUS
<1> USE CalendarAssumption, NoFileAssumption
<1> USE DEF Known, By, ByEntry
<1>stutter. CASE UNCHANGED vars
  BY <1>stutter
<1>Tick. ASSUME Tick PROVE Known'
  <2>1. MonthOf(now) \in Months /\ MonthOf(now') \in Months /\ MonthOf(now) <= MonthOf(now')
    BY <1>Tick, MonthOfDay DEF Inv, TypeOK, WorldOK, Days, Tick
  <2>2. \A f \in Files : f.month <= MonthOf(now) => f.month <= MonthOf(now')
    BY <2>1 DEF Files, Months
  <2>3. /\ active # NoFile => active \in Files
        /\ body # NoFile => body \in Files
        /\ cache # NoFile => cache.file \in Files
        /\ durable # NoFile => durable.file \in Files
    BY DEF Inv, TypeOK, DaemonOK, Whole, WholeEntry
  <2>4. \A m \in Months : m <= MonthOf(now) => m <= MonthOf(now')
    BY <2>1 DEF Months
  <2>5. /\ By(active, MonthOf(now')) /\ By(body, MonthOf(now'))
        /\ ByEntry(cache, MonthOf(now')) /\ ByEntry(durable, MonthOf(now'))
    BY <2>2, <2>3
  <2> QED BY <1>Tick, <2>4, <2>5 DEF Tick
<1>Publish. ASSUME NEW k \in Kinds, Publish(k) PROVE Known'
  <2>1. MonthOf(now) \in Months
    BY MonthOfDay DEF Inv, TypeOK, WorldOK
  <2>2. \A m \in Months : site'[m] # NoFile => site'[m].month = m /\ m <= MonthOf(now)
    BY <1>Publish, <2>1 DEF Inv, TypeOK, WorldOK, Publish, Months
  <2> QED BY <1>Publish, <2>2 DEF Publish
<1>GoesMissing. ASSUME NEW m \in Months, GoesMissing(m) PROVE Known'
  BY <1>GoesMissing DEF GoesMissing, Fault
<1>ComesBack. ASSUME NEW m \in Months, ComesBack(m) PROVE Known'
  BY <1>ComesBack DEF ComesBack
<1>Writeback. ASSUME Writeback PROVE Known'
  BY <1>Writeback DEF Writeback
<1>Crash. ASSUME Crash PROVE Known'
  BY <1>Crash DEF Crash, Stop
<1>PowerLoss. ASSUME PowerLoss PROVE Known'
  <2>1. AfterPowerLoss = durable
    BY DEF Inv, Whole, WholeEntry, AfterPowerLoss
  <2> QED BY <1>PowerLoss, <2>1 DEF PowerLoss, Stop
<1>Restart. ASSUME Restart PROVE Known'
  BY <1>Restart DEF Restart
<1>BootAbsent. ASSUME BootAbsent PROVE Known'
  BY <1>BootAbsent DEF BootAbsent
<1>BootUnusable. ASSUME BootUnusable PROVE Known'
  BY <1>BootUnusable DEF BootUnusable, Fault
<1>BootLoaded. ASSUME BootLoaded PROVE Known'
  BY <1>BootLoaded DEF BootLoaded
<1>StartRefresh. ASSUME StartRefresh PROVE Known'
  BY <1>StartRefresh DEF StartRefresh
<1>GetOK. ASSUME GetOK PROVE Known'
  <2>1. (IF pc = "get" THEN current ELSE prior) \in Months
    BY DEF Inv, TypeOK, DaemonOK
  <2> QED BY <1>GetOK, <2>1 DEF GetOK, Asked, OnSite
<1>GetNotModified. ASSUME GetNotModified PROVE Known'
  BY <1>GetNotModified DEF GetNotModified, Asking
<1>GetMissing. ASSUME GetMissing PROVE Known'
  BY <1>GetMissing DEF GetMissing, Asking
<1>GetFails. ASSUME GetFails PROVE Known'
  BY <1>GetFails DEF GetFails, Asking, Fault
<1>CreateTemp. ASSUME CreateTemp PROVE Known'
  BY <1>CreateTemp DEF CreateTemp
<1>Copy. ASSUME Copy PROVE Known'
  BY <1>Copy DEF Copy
<1>Sync. ASSUME Sync PROVE Known'
  BY <1>Sync DEF Sync
<1>Rename. ASSUME Rename PROVE Known'
  <2>1. temp.file = body /\ body # NoFile
    BY <1>Rename DEF Inv, Pipe, Carrying, Rename
  <2> QED BY <1>Rename, <2>1 DEF Rename
<1>WriteFails. ASSUME WriteFails PROVE Known'
  BY <1>WriteFails DEF WriteFails, Writing, Fault
<1>LoadAndSwap. ASSUME LoadAndSwap PROVE Known'
  <2>1. cache # NoFile
    BY <1>LoadAndSwap, NoFileAssumption DEF Inv, Pipe, Carrying, LoadAndSwap, Entries
  <2> QED BY <1>LoadAndSwap, <2>1 DEF LoadAndSwap
<1>LoadFails. ASSUME LoadFails PROVE Known'
  BY <1>LoadFails DEF LoadFails, Fault
<1> QED
  BY <1>stutter, <1>Tick, <1>Publish, <1>GoesMissing, <1>ComesBack, <1>Writeback, <1>Crash,
     <1>PowerLoss, <1>Restart, <1>BootAbsent, <1>BootUnusable, <1>BootLoaded, <1>StartRefresh,
     <1>GetOK, <1>GetNotModified, <1>GetMissing, <1>GetFails, <1>CreateTemp, <1>Copy, <1>Sync,
     <1>Rename, <1>WriteFails, <1>LoadAndSwap, <1>LoadFails
  DEF Next, Daemon, World, Boot, Get, Write, Load

(* Every step keeps a refresh ahead of what it is about to replace, or     *)
(* notes that its file was missing.                                        *)
LEMMA NextAhead == Inv /\ Known /\ Ahead /\ [Next]_vars => Ahead'
<1> SUFFICES ASSUME Inv, Known, Ahead, [Next]_vars PROVE Ahead'
  OBVIOUS
<1> USE CalendarAssumption, NoFileAssumption
<1> USE DEF Ahead, Carrying, By, ByEntry
<1>stutter. CASE UNCHANGED vars
  BY <1>stutter
<1>Tick. ASSUME Tick PROVE Ahead'
  BY <1>Tick DEF Tick
<1>Publish. ASSUME NEW k \in Kinds, Publish(k) PROVE Ahead'
  BY <1>Publish DEF Publish
<1>GoesMissing. ASSUME NEW m \in Months, GoesMissing(m) PROVE Ahead'
  BY <1>GoesMissing DEF GoesMissing, Fault
<1>ComesBack. ASSUME NEW m \in Months, ComesBack(m) PROVE Ahead'
  BY <1>ComesBack DEF ComesBack
<1>Writeback. ASSUME Writeback PROVE Ahead'
  BY <1>Writeback DEF Writeback
<1>Crash. ASSUME Crash PROVE Ahead'
  BY <1>Crash DEF Crash, Stop
<1>PowerLoss. ASSUME PowerLoss PROVE Ahead'
  BY <1>PowerLoss DEF PowerLoss, Stop, AfterPowerLoss
<1>Restart. ASSUME Restart PROVE Ahead'
  BY <1>Restart DEF Restart
<1>BootAbsent. ASSUME BootAbsent PROVE Ahead'
  BY <1>BootAbsent DEF BootAbsent
<1>BootUnusable. ASSUME BootUnusable PROVE Ahead'
  BY <1>BootUnusable DEF BootUnusable, Fault
<1>BootLoaded. ASSUME BootLoaded PROVE Ahead'
  BY <1>BootLoaded DEF BootLoaded
<1>StartRefresh. ASSUME StartRefresh PROVE Ahead'
  BY <1>StartRefresh DEF StartRefresh, Known, Inv, Pipe
<1>GetOK. ASSUME GetOK PROVE Ahead'
  <2> DEFINE m == IF pc = "get" THEN current ELSE prior
  <2>1. m \in Months /\ (pc = "get" => m = current) /\ (pc = "getPrior" => m = current - 1)
    BY DEF Inv, TypeOK, DaemonOK, Pipe
  <2>2. body' = site[m] /\ site[m].month = m
    BY <1>GetOK, <2>1 DEF Known, GetOK, Asked, OnSite
  <2> QED BY <1>GetOK, <2>1, <2>2 DEF GetOK, Asking
<1>GetNotModified. ASSUME GetNotModified PROVE Ahead'
  BY <1>GetNotModified DEF GetNotModified, Asking
<1>GetMissing. ASSUME GetMissing PROVE Ahead'
  BY <1>GetMissing DEF GetMissing, Asking
<1>GetFails. ASSUME GetFails PROVE Ahead'
  BY <1>GetFails DEF GetFails, Asking, Fault
<1>CreateTemp. ASSUME CreateTemp PROVE Ahead'
  BY <1>CreateTemp DEF CreateTemp
<1>Copy. ASSUME Copy PROVE Ahead'
  BY <1>Copy DEF Copy
<1>Sync. ASSUME Sync PROVE Ahead'
  BY <1>Sync DEF Sync
<1>Rename. ASSUME Rename PROVE Ahead'
  <2>1. temp.file = body /\ body \in Files /\ body.month <= body.month
    BY <1>Rename DEF Inv, Pipe, Rename, Files, Months
  <2> QED BY <1>Rename, <2>1 DEF Rename
<1>WriteFails. ASSUME WriteFails PROVE Ahead'
  BY <1>WriteFails DEF WriteFails, Writing, Fault
<1>LoadAndSwap. ASSUME LoadAndSwap PROVE Ahead'
  BY <1>LoadAndSwap DEF LoadAndSwap
<1>LoadFails. ASSUME LoadFails PROVE Ahead'
  BY <1>LoadFails DEF LoadFails, Fault
<1> QED
  BY <1>stutter, <1>Tick, <1>Publish, <1>GoesMissing, <1>ComesBack, <1>Writeback, <1>Crash,
     <1>PowerLoss, <1>Restart, <1>BootAbsent, <1>BootUnusable, <1>BootLoaded, <1>StartRefresh,
     <1>GetOK, <1>GetNotModified, <1>GetMissing, <1>GetFails, <1>CreateTemp, <1>Copy, <1>Sync,
     <1>Rename, <1>WriteFails, <1>LoadAndSwap, <1>LoadFails
  DEF Next, Daemon, World, Boot, Get, Write, Load

(* From the first start on, both hold. *)
LEMMA AlwaysAhead == Spec => [](Known /\ Ahead)
<1>1. Init => Known /\ Ahead
  <2> SUFFICES ASSUME Init PROVE Known /\ Ahead
    OBVIOUS
  <2>1. 0 <= MonthOf(0)
    BY MonthOfDay, CalendarAssumption DEF Days, Months
  <2>2. Known
    BY <2>1 DEF Init, Known, By, ByEntry
  <2>3. Ahead
    BY DEF Init, Ahead, Carrying
  <2> QED BY <2>2, <2>3
<1> QED BY <1>1, NextKnown, NextAhead, AlwaysInv, PTL DEF Spec

(* A file that is served or stored in place of a newer one is that of the  *)
(* month before, and the site had answered 404 for the month itself: no    *)
(* other step of a running daemon replaces either by an older one.         *)
THEOREM RegressionOnlyWhenMissing == Spec => RegressesOnlyWhenMissing
<1>1. ASSUME Inv, Ahead, [Next]_vars
      PROVE  /\ active # NoFile /\ active' # NoFile /\ Older(active', active)
                  => FellBackTo(active')
             /\ pc' # "down" /\ cache # NoFile /\ cache' # NoFile
                /\ Older(cache'.file, cache.file)
                  => FellBackTo(cache'.file)
  <2>1. \A f \in Files : ~Older(f, f)
    BY DEF Older, Files, Months
  <2>2. /\ active # NoFile => active \in Files
        /\ cache # NoFile => cache.file \in Files
    BY <1>1 DEF Inv, TypeOK, DaemonOK, Whole, WholeEntry
  <2>3. CASE UNCHANGED <<active, cache>>
    BY <2>1, <2>2, <2>3
  <2>4. CASE Crash \/ PowerLoss
    BY <2>4 DEF Crash, PowerLoss, Stop
  <2>5. CASE BootUnusable
    BY <2>1, <2>2, <2>5 DEF BootUnusable
  <2>6. CASE BootLoaded
    BY <1>1, <2>1, <2>2, <2>6 DEF BootLoaded, Inv, Pipe
  <2>7. CASE Rename
    <3>1. active' = active /\ cache' = temp /\ temp.file = body /\ body \in Files
      BY <1>1, <2>7 DEF Rename, Inv, Pipe, Carrying
    <3>2. missed = TRUE => FellBackTo(body)
      BY <1>1, <2>7 DEF Rename, Ahead, Carrying, FellBackTo
    <3>3. missed = FALSE /\ cache # NoFile => ~Older(body, cache.file)
      BY <1>1, <2>2, <2>7, <3>1 DEF Rename, Ahead, Carrying, ByEntry, Older, Files, Months
    <3>4. missed \in BOOLEAN
      BY <1>1 DEF Inv, TypeOK, DaemonOK
    <3> QED BY <2>1, <2>2, <3>1, <3>2, <3>3, <3>4
  <2>8. CASE LoadAndSwap
    <3>1. active' = cache.file /\ cache' = cache /\ cache.file = body /\ body \in Files
      BY <1>1, <2>8 DEF LoadAndSwap, Inv, Pipe, Carrying
    <3>2. missed = TRUE => FellBackTo(body)
      BY <1>1, <2>8 DEF LoadAndSwap, Ahead, Carrying, FellBackTo
    <3>3. missed = FALSE /\ active # NoFile => ~Older(body, active)
      BY <1>1, <2>2, <2>8, <3>1 DEF LoadAndSwap, Ahead, Carrying, By, Older, Files, Months
    <3>4. missed \in BOOLEAN
      BY <1>1 DEF Inv, TypeOK, DaemonOK
    <3> QED BY <2>1, <2>2, <3>1, <3>2, <3>3, <3>4
  <2>9. \/ UNCHANGED <<active, cache>> \/ Crash \/ PowerLoss
        \/ BootUnusable \/ BootLoaded \/ Rename \/ LoadAndSwap
    BY <1>1 DEF Next, Daemon, World, Boot, Get, Write, Load, Tick, Publish, GoesMissing,
        ComesBack, Writeback, Restart, BootAbsent, StartRefresh, GetOK, GetNotModified,
        GetMissing, GetFails, CreateTemp, Copy, Sync, WriteFails, LoadFails
  <2> QED BY <2>3, <2>4, <2>5, <2>6, <2>7, <2>8, <2>9
<1>2. Inv /\ Ahead /\ [Next]_vars =>
        [/\ active # NoFile /\ active' # NoFile /\ Older(active', active)
              => FellBackTo(active')
         /\ pc' # "down" /\ cache # NoFile /\ cache' # NoFile
            /\ Older(cache'.file, cache.file)
              => FellBackTo(cache'.file)]_vars
  BY <1>1
<1> QED BY <1>2, AlwaysInv, AlwaysAhead, PTL DEF Spec, RegressesOnlyWhenMissing

----------------------------------------------------------------------------
(* Refresh implements Supply.                                              *)

(* Both entries are NoFile or hold a file; a file is not older than NoFile. *)
LEMMA FileInEntry ==
    ASSUME Inv
    PROVE  /\ FileIn(NoFile) = NoFile /\ NoFile \notin Files
           /\ cache # NoFile => FileIn(cache) = cache.file /\ cache.file \in Files
           /\ durable # NoFile => FileIn(durable) = durable.file /\ durable.file \in Files
           /\ \A f, g \in Files \cup {NoFile} :
                 <<f, g>> \in Before => f \in Files /\ g \in Files /\ Older(f, g)
BY NoFileAssumption DEF Inv, Whole, WholeEntry, FileIn, Before

(* Every step of the daemon and of the world is one of Supply's, or leaves *)
(* its variables alone.                                                    *)
LEMMA NextSupplies == Inv /\ Ahead /\ [Next]_vars => [Supply!Next]_(Supply!vars)
<1> SUFFICES ASSUME Inv, Ahead, [Next]_vars PROVE [Supply!Next]_(Supply!vars)
  OBVIOUS
<1> USE DEF FileIn
<1>0. missed \in BOOLEAN /\ active \in Files \cup {NoFile}
  BY DEF Inv, TypeOK, DaemonOK
<1>1. CASE UNCHANGED <<active, cache, durable, missed>>
  BY <1>1 DEF Supply!vars
<1>2. ASSUME Writeback PROVE Supply!Persist
  BY <1>2 DEF Writeback, Supply!Persist
<1>3. ASSUME Crash PROVE Supply!Crash
  BY <1>3 DEF Crash, Stop, Supply!Crash
<1>4. ASSUME PowerLoss PROVE Supply!PowerLoss
  <2>1. AfterPowerLoss = durable
    BY DEF Inv, Whole, WholeEntry, AfterPowerLoss
  <2> QED BY <1>4, <2>1 DEF PowerLoss, Stop, Supply!PowerLoss
<1>5. ASSUME BootUnusable PROVE Supply!Discard \/ UNCHANGED <<active, cache, durable, missed>>
  <2>1. active = NoFile
    BY <1>5 DEF Inv, Pipe, BootUnusable
  <2> QED BY <1>5, <2>1 DEF BootUnusable, Supply!Discard
<1>6. ASSUME BootLoaded \/ LoadAndSwap PROVE Supply!Serve
  <2>1. /\ cache # NoFile /\ Loads(cache.file) /\ active' = cache.file
        /\ missed' = FALSE /\ UNCHANGED <<cache, durable>>
    BY <1>6, NoFileAssumption DEF Inv, Pipe, Carrying, BootLoaded, LoadAndSwap, Entries
  <2>2. FileIn(cache) \in Good
    BY <2>1, FileInEntry DEF Good
  <2>3. <<FileIn(cache), active>> \in Before => missed
    <3>1. CASE BootLoaded
      BY <3>1, FileInEntry DEF Inv, Pipe, BootLoaded
    <3>2. CASE LoadAndSwap
      <4>1. FileIn(cache) = body /\ (missed = FALSE => By(active, body.month))
        BY <2>1, <3>2 DEF Inv, Pipe, Ahead, Carrying, LoadAndSwap
      <4> QED BY <1>0, <4>1, FileInEntry DEF By, Older, Files, Months
    <3> QED BY <1>6, <3>1, <3>2
  <2> QED BY <2>1, <2>2, <2>3 DEF Supply!Serve, Supply!Replaces
<1>7. ASSUME Rename PROVE Supply!Store
  <2>1. temp # NoFile /\ temp.file = body /\ body \in Files
    BY <1>7, NoFileAssumption DEF Inv, Pipe, Carrying, Rename, Entries
  <2>2. missed = FALSE => By(active, body.month) /\ ByEntry(cache, body.month)
    BY <1>7 DEF Ahead, Carrying, Rename
  <2>3. <<body, active>> \in Before => missed
    BY <1>0, <2>1, <2>2, FileInEntry DEF By, Older, Files, Months
  <2>4. <<body, FileIn(cache)>> \in Before => missed
    BY <1>0, <2>1, <2>2, FileInEntry DEF ByEntry, Older, Files, Months
  <2>5. FileIn(cache)' = body /\ UNCHANGED <<active, durable, missed>>
    BY <1>7, <2>1 DEF Rename
  <2> QED BY <2>1, <2>3, <2>4, <2>5 DEF Supply!Store, Supply!Replaces
<1>8. ASSUME \/ Tick \/ (\E k \in Kinds : Publish(k)) \/ Restart \/ BootAbsent \/ StartRefresh
             \/ \E m \in Months : GoesMissing(m) \/ ComesBack(m)
             \/ GetOK \/ CreateTemp \/ Copy \/ Sync
      PROVE  UNCHANGED <<active, cache, durable, missed>>
  BY <1>8 DEF Tick, Publish, GoesMissing, ComesBack, Restart, BootAbsent, StartRefresh, GetOK,
     CreateTemp, Copy, Sync
<1>9. ASSUME GetMissing PROVE Supply!Miss \/ Supply!GiveUp
  BY <1>9 DEF GetMissing, Supply!Miss, Supply!GiveUp
<1>10. ASSUME GetNotModified \/ GetFails \/ WriteFails \/ LoadFails PROVE Supply!GiveUp
  BY <1>10 DEF GetNotModified, GetFails, WriteFails, LoadFails, Supply!GiveUp
<1>11. UNCHANGED vars => UNCHANGED <<active, cache, durable, missed>>
  OBVIOUS
<1> QED
  BY <1>1, <1>2, <1>3, <1>4, <1>5, <1>6, <1>7, <1>8, <1>9, <1>10, <1>11
  DEF Next, Daemon, World, Boot, Get, Write, Load, Supply!Next

(* The fetcher, the disk cache and the load at start implement Supply over *)
(* crashes and power losses: one whole file, replaced in one step, by an   *)
(* older one only after a 404, and the only thing that is ever served.     *)
THEOREM SuppliesAlways == Spec => Supplies
<1>1. Init => Supply!Init
  BY DEF Init, Supply!Init, FileIn
<1> QED BY <1>1, NextSupplies, AlwaysInv, AlwaysAhead, PTL DEF Spec, Supplies, Supply!Spec
============================================================================
