------------------------------- MODULE LogStore -------------------------------
(***************************************************************************)
(* The log files of the server: one live file per day, which the hourly    *)
(* job turns into a gzip file once the day is over, packs into the zip of  *)
(* its month once the month is over, and deletes when it is too old.  The  *)
(* job runs to its end before anything else is logged, but the process may *)
(* be killed, or the disk be full, at any of its file operations: a file   *)
(* that is being written is truncated then and what it held is gone.       *)
(***************************************************************************)
EXTENDS Integers

CONSTANTS
  MaxDay,    \* bound of the calendar
  MonthOf,   \* the month of each day
  Ttl,       \* PRODUCTION_LOG_TTL_DAYS, today included
  NoFile, Torn,
  MaxLines,  \* bound: lines logged a day
  MaxCuts    \* bound: how often the job is cut short

Days == 0..MaxDay
Months == {MonthOf[d] : d \in Days}

ASSUME LogStoreAssumption ==
  /\ MaxDay \in Nat /\ Ttl \in Nat \ {0} /\ MaxLines \in Nat /\ MaxCuts \in Nat
  /\ MonthOf \in [Days -> Nat]
  /\ \A d, e \in Days : d <= e => MonthOf[d] <= MonthOf[e]
  /\ NoFile \notin Nat /\ Torn \notin Nat /\ NoFile # Torn

VARIABLES
  today, cuts,
  logged,   \* lines logged on each day
  live,     \* live/<day>.log: its lines, or NoFile
  gz,       \* archive/<day>.log.gz: its lines, NoFile or Torn
  entry,    \* the entry of each day in archive/<month>.zip, or NoFile
  torn,     \* months whose zip is truncated
  step,     \* what the job does next
  asOf,     \* the date the job has taken from the clock
  at,       \* the day or the month whose files are to be deleted
  zips      \* the zips that are still to be purged

files == <<live, gz, entry, torn>>
storeJob == <<step, asOf, at, zips>>
storeVars == <<today, cuts, logged, files, storeJob>>

StoreInit ==
  /\ today = 0 /\ cuts = 0 /\ logged = [d \in Days |-> 0]
  /\ live = [d \in Days |-> NoFile] /\ gz = [d \in Days |-> NoFile]
  /\ entry = [d \in Days |-> NoFile] /\ torn = {}
  /\ step = "idle" /\ asOf = 0 /\ at = 0 /\ zips = {}

-----------------------------------------------------------------------------
(* appendLine.                                                             *)
AppendLine ==
  /\ step = "idle" /\ logged[today] < MaxLines
  /\ logged' = [logged EXCEPT ![today] = @ + 1]
  /\ live' = [live EXCEPT ![today] = IF @ = NoFile THEN 1 ELSE @ + 1]
  /\ UNCHANGED <<today, cuts, gz, entry, torn, storeJob>>

Midnight ==
  /\ today < MaxDay
  /\ today' = today + 1
  /\ UNCHANGED <<cuts, logged, files, storeJob>>

(* Every stage of the job asks the clock for the date.                     *)
Enter(stage) == step' = stage /\ asOf' = today

Over(d) == d < asOf

ToGzip == {d \in Days : live[d] # NoFile /\ Over(d)}

StartJob ==
  /\ step = "idle"
  /\ Enter("gzip")
  /\ UNCHANGED <<today, cuts, logged, files, at, zips>>

(* archiveClosedDays: write the gzip file, then delete the live file.      *)
WriteGzip(d) ==
  /\ step = "gzip" /\ d \in ToGzip
  /\ gz' = [gz EXCEPT ![d] = live[d]]
  /\ step' = "unlink" /\ at' = d
  /\ UNCHANGED <<today, cuts, logged, live, entry, torn, asOf, zips>>

UnlinkLive ==
  /\ step = "unlink"
  /\ live' = [live EXCEPT ![at] = NoFile]
  /\ step' = "gzip"
  /\ UNCHANGED <<today, cuts, logged, gz, entry, torn, asOf, at, zips>>

StartPack ==
  /\ step = "gzip" /\ ToGzip = {}
  /\ Enter("pack")
  /\ UNCHANGED <<today, cuts, logged, files, at, zips>>

-----------------------------------------------------------------------------
(* groupClosedGzipFilesByMonth.                                            *)
MonthOver(d) == MonthOf[d] < MonthOf[asOf]
ToPack == {d \in Days : gz[d] # NoFile /\ MonthOver(d)}
ToPackOf(m) == {d \in ToPack : MonthOf[d] = m}

Merged(m) == [d \in Days |-> IF d \in ToPackOf(m) THEN gz[d] ELSE entry[d]]

(* writeMonthZip: the entries the zip already has are read first; a zip    *)
(* that is truncated makes that fail and ends the job.                     *)
WriteZip(m) ==
  /\ step = "pack" /\ ToPackOf(m) # {} /\ m \notin torn
  /\ entry' = Merged(m)
  /\ step' = "unlinkPacked" /\ at' = m
  /\ UNCHANGED <<today, cuts, logged, live, gz, torn, asOf, zips>>

UnlinkPacked(d) ==
  /\ step = "unlinkPacked" /\ d \in ToPackOf(at)
  /\ gz' = [gz EXCEPT ![d] = NoFile]
  /\ step' = IF ToPackOf(at) = {d} THEN "pack" ELSE step
  /\ UNCHANGED <<today, cuts, logged, live, entry, torn, asOf, at, zips>>

PackFails(m) ==
  /\ step = "pack" /\ ToPackOf(m) # {} /\ m \in torn
  /\ step' = "idle"
  /\ UNCHANGED <<today, cuts, logged, files, asOf, at, zips>>

StartPurge ==
  /\ step = "pack" /\ ToPack = {}
  /\ Enter("purge")
  /\ UNCHANGED <<today, cuts, logged, files, at, zips>>

-----------------------------------------------------------------------------
(* Mutant: the oldest day that is to be kept is deleted.                   *)
ExpiredEarly(d) == d <= asOf - (Ttl - 1)

(* Mutant: a day that is past the TTL is kept.                             *)
ExpiredLate(d) == d < asOf - Ttl

(* formatLogRetentionCutoffDate: Ttl days are kept, today included.        *)
Expired(d) == d < asOf - (Ttl - 1)

(* purgeDirByDate: first the live files, then the gzip files.              *)
PurgeLive(d) ==
  /\ step = "purge" /\ Expired(d) /\ live[d] # NoFile
  /\ live' = [live EXCEPT ![d] = NoFile]
  /\ UNCHANGED <<today, cuts, logged, gz, entry, torn, storeJob>>

PurgeGzip(d) ==
  /\ step = "purge" /\ Expired(d) /\ gz[d] # NoFile
  /\ \A e \in Days : Expired(e) => live[e] = NoFile
  /\ gz' = [gz EXCEPT ![d] = NoFile]
  /\ UNCHANGED <<today, cuts, logged, live, entry, torn, storeJob>>

StartPurgeZips ==
  /\ step = "purge"
  /\ \A d \in Days : Expired(d) => live[d] = NoFile /\ gz[d] = NoFile
  /\ step' = "purgeZips"
  /\ zips' = {MonthOf[d] : d \in {e \in Days : entry[e] # NoFile}} \cup torn
  /\ UNCHANGED <<today, cuts, logged, files, asOf, at>>

Kept(m) ==
  [d \in Days |-> IF MonthOf[d] = m /\ Expired(d) THEN NoFile ELSE entry[d]]

(* purgeExpiredZipEntries: every zip is written again, or deleted.         *)
PurgeZip(m) ==
  /\ step = "purgeZips" /\ m \in zips
  /\ IF m \in torn
     THEN step' = "idle" /\ zips' = {} /\ UNCHANGED entry
     ELSE entry' = Kept(m) /\ zips' = zips \ {m} /\ UNCHANGED step
  /\ UNCHANGED <<today, cuts, logged, live, gz, torn, asOf, at>>

EndJob ==
  /\ step = "purgeZips" /\ zips = {}
  /\ step' = "idle"
  /\ UNCHANGED <<today, cuts, logged, files, asOf, at, zips>>

-----------------------------------------------------------------------------
(* The job is cut short: between two operations, ...                       *)
CutShort ==
  /\ step # "idle" /\ cuts < MaxCuts
  /\ cuts' = cuts + 1 /\ step' = "idle" /\ zips' = {}

Cut == CutShort /\ UNCHANGED <<today, logged, files, asOf, at>>

(* ... while it writes a gzip file, ...                                    *)
TearGzip(d) ==
  /\ CutShort /\ step = "gzip" /\ d \in ToGzip
  /\ gz' = [gz EXCEPT ![d] = Torn]
  /\ UNCHANGED <<today, logged, live, entry, torn, asOf, at>>

(* ... or while it writes a zip: to pack a month or to purge one.          *)
WritesZip(m) ==
  \/ step = "pack" /\ ToPackOf(m) # {}
  \/ step = "purgeZips" /\ m \in zips /\ \E d \in Days : MonthOf[d] = m /\ Kept(m)[d] # NoFile

TearZip(m) ==
  /\ CutShort /\ m \notin torn /\ WritesZip(m)
  /\ torn' = torn \cup {m}
  /\ entry' = [d \in Days |-> IF MonthOf[d] = m THEN NoFile ELSE entry[d]]
  /\ UNCHANGED <<today, logged, live, gz, asOf, at>>

StoreStep ==
  \/ StartJob \/ UnlinkLive \/ StartPack \/ StartPurge \/ StartPurgeZips \/ EndJob
  \/ \E d \in Days : WriteGzip(d) \/ UnlinkPacked(d) \/ PurgeLive(d) \/ PurgeGzip(d)
  \/ \E m \in Months : WriteZip(m) \/ PackFails(m) \/ PurgeZip(m)

StoreNext ==
  \/ StoreStep \/ AppendLine \/ Midnight
  \/ Cut \/ (\E d \in Days : TearGzip(d)) \/ (\E m \in Months : TearZip(m))

StoreSpec == StoreInit /\ [][StoreNext]_storeVars

(* The job is started every hour and then runs to its end.                 *)
StoreFairSpec == StoreSpec /\ WF_storeVars(StoreStep)

-----------------------------------------------------------------------------
Files == 0..MaxLines \cup {NoFile}
Stages == {"idle", "gzip", "unlink", "pack", "unlinkPacked", "purge", "purgeZips"}

StoreTypeOK ==
  /\ today \in Days /\ cuts \in 0..MaxCuts /\ logged \in [Days -> 0..MaxLines]
  /\ live \in [Days -> Files] /\ gz \in [Days -> Files \cup {Torn}]
  /\ entry \in [Days -> Files] /\ torn \subseteq Months
  /\ step \in Stages /\ asOf \in 0..today /\ at \in Days \cup Months
  /\ zips \subseteq Months

(* What readDayPlaintext finds: the live file, the gzip file or the zip.   *)
Content(d) ==
  IF live[d] # NoFile THEN live[d]
  ELSE IF gz[d] # NoFile THEN gz[d]
  ELSE IF MonthOf[d] \in torn THEN Torn ELSE entry[d]

Retained(d) == d > today - Ttl /\ logged[d] > 0

(* Wherever the job is cut short, every line of the days that are retained *)
(* can be read, unless the zip of the month is truncated and has the only  *)
(* copy.                                                                   *)
RetainedReadable ==
  \A d \in Days : Retained(d) =>
    \/ Content(d) = logged[d]
    \/ live[d] = NoFile /\ gz[d] = NoFile /\ MonthOf[d] \in torn

HasFile(d) == live[d] # NoFile \/ gz[d] # NoFile \/ entry[d] # NoFile

(* Files past the TTL are deleted, however often the job is cut short,     *)
(* unless a truncated zip makes every run fail.                            *)
ExpiredDeletedIfWhole ==
  \A d \in Days : (HasFile(d) /\ d <= today - Ttl) ~> ~HasFile(d) \/ torn # {}
=============================================================================
