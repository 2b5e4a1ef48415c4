# Formal models of system-backend

TLA+ models, TLC runs and TLAPS proofs for the backend of a gamified course
system: a NestJS / TypeORM / PostgreSQL server (`src/src/`) with a few cron
jobs and a directory of log files.

Contents: [the system](#the-system) · [inventory](#inventory) ·
[modules](#modules) · [runs](#runs) · [bounds](#bounds) ·
[fairness](#fairness) · [proofs](#proofs) ·
[disagreements](#disagreements-with-the-documentation) ·
[not modelled](#not-modelled) · [plan](#plan)

## The system

One Node.js process (any number of replicas may run) serves HTTP requests. A
handler awaits PostgreSQL for every statement, so two requests interleave
between statements, on up to `DATABASE_POOL_MAX` connections. What all models rest on:

- PostgreSQL runs READ COMMITTED: a plain `SELECT` sees the latest committed
  rows and takes no lock; `SELECT ... FOR UPDATE` (`pessimistic_write`),
  `UPDATE` and `DELETE` lock rows until the transaction ends. Waiting
  transactions are queued per row, and a circle of waiting transactions is
  resolved by aborting one of them.
- TypeORM's `save(entity)` reads the row again, compares it column by column
  with the entity in memory and updates the columns that differ, whoever
  changed them; if the row is gone it inserts it.
- Outside an explicit transaction every statement is committed when it ends.
- The process, a connection or a statement may fail at any point; PostgreSQL
  then rolls the transaction back.

These are modelled from how the code uses them and marked external in
`PROJECT.json`. Everything else is translated from the handlers.

## Inventory

`PROJECT.json` lists every component with its status, and every hazard with
its line and the properties that cover it. In short:

| component | state | operations | what is hard | what makes it correct |
|---|---|---|---|---|
| student shop (`gamification/shop-student-service.ts`) | stock, balance, lives, owned quantities | buy, use | concurrent purchases, lock order, rollback | a purchase is indivisible, nothing is sold twice or paid without being granted |
| prices (`gamification/discount-calculator.ts`) | listing, promotions, badges, points | edit, promote, grant, earn | stacking of discounts, rounding | a badge never hurts, without badges the best rank counts |
| shop catalogue (`gamification/shop-items-service.ts`) | items, listings, categories and their links | create, update, delete, extra-life item on demand | stale saves, check-then-insert, an item's first category is kept twice | the page shows what the tables say, an edit that sends no stock leaves it alone |
| statistics and awards (`student-management/`) | `student_stats`, completions, earned badges | toggle or set completions, toggle badges, bulk edit, lives, remove | unlocked read-modify-write, crosswise locks | no points invented, spent points stay spent, rank follows points |
| ranks and badges (`gamification/ranks-service.ts`, `badges-service.ts`) | thresholds, rewards, holders | create, edit, delete, recalculation | recalculation outside the transaction, holders read before it | automatic ranks fit the thresholds, a member has a rank of the group |
| joining (`groups/groups-enrollment-service.ts`, `enrollment-codes-service.ts`) | enrollments, statistics, codes | join, create / update / delete code | no transaction, two joins at once, seats of a code | limits hold, enrollments have statistics |
| shop opening (`groups/shop-scheduler-service.ts`, parts of `groups-service.ts`) | `shop_open`, `shop_opens_at` | cron job, open/close, schedule | overlapping runs, errors in the job | opens on time, never early, students are told |
| groups and lives (`groups/groups-service.ts`) | group row, lives | create, update, lives configuration, lists | capping lives read before | members are within the configuration |
| posts (`groups/groups-posts-service.ts`) | posts | create, edit, delete, publish on schedule | overlapping runs of the job | a published post was announced |
| templates (`groups/group-templates/`) | JSON of a group | export, import, share, favourite | mapping ids, a snapshot outlives what it was taken from | references stay inside the group |
| stages and activities (`stages/`, `activities/`) | ordered stages, activities | create, edit, reorder, delete | deletes of what was read before, moves to other groups | a delete takes all of a stage or fails (foreign keys); no property of its own |
| backlog (`backlog/`) | events, read marks | log, list, mark read, clear | events outside the transaction | events tell what happened |
| reports and profile (`student-management/`, `student-profile/`) | none of their own | read | different queries for the same fact, rows of several tables | an automatic rank on a profile is one of the group |
| sessions (`auth/session/`) | session rows | issue, refresh, revoke, switch role | sliding expiry written late, an absolute limit | who uses a session stays logged in, a revoked one does not come back |
| magic links (`auth/magic-link/`) | tokens | request, verify | claim and release, cool-down, crashes | a link logs in once and is not lost by an error |
| SAML and organization login (`auth/saml/`, `auth/login/`) | strategy cache | login, logout, provisioning | cached configuration, organization and certificate read one after the other | whoever is let in met a ready organization and a recent key |
| organizations (`admin/organizations/`) | organization and certificate rows | create, update, rotate, revoke, synchronise | several saves of stale copies without a transaction | a listed organization can be logged in to |
| accounts, roles, registration, profile | users, accounts | provision, grant, remove, register, edit | check-then-insert, read before save | few duplicates, a user keeps an account, who completed had submitted |
| super-administrator bootstrap (`admin/bootstrap/`) | one account row | grant at start or login | check-then-insert | as above |
| log files (`ops/logs/`) | live, gzip and zip files | append, archive, pack, purge | the process dies at any file operation | retained lines can be read, expired ones go |
| broadcasts, maintenance mode | messages, one status row | publish, mark read, switch | nothing relates two steps | |
| exports, drive, counter, banners, filters, test IdP | none of their own | | I/O | |

Components meet in shared rows: the shop, awards, lecturers' edits, lives and
joining all write `student_stats`; the shop job, lecturers and buyers share
`groups.shop_open`; prices are computed from listings that lecturers edit and
ranks that awards change; removals of accounts end sessions; sign-ins read the
organizations that administrators change; every component appends to the
backlog. There are no queues or messages between components: they interact
through rows, and through the locks PostgreSQL holds on them.

## Modules

The shop and what students own:

| module | models | state and actions |
|---|---|---|
| `ShopData` | constants, assumptions and row helpers of the shop | |
| `ShopLedger` | the abstract shop: a purchase or a use is one step on balance, stock, lives and inventory | `Buy`, `Use` |
| `Shop` | `buyItem` and `useItem`, a step per locking `SELECT`, the writes and the `COMMIT` as one | `pc`, `req`, `seen` are what a request has run, is about and has read; backlog rows are counted in `sold`, `bought`, `spent`, `used` |
| `StudentStats` | the lecturer's calls on `student_stats`, each an unlocked read-modify-write in one transaction; `buyItem` as one locked step | `tx[r]` holds what a request has read and its uncommitted writes; `held` has the ids of completion and badge rows, so an award can be there twice; `granted` and `spent` are what the backlog says |
| `DiscountCalculator` | `calculateDiscountedPrice` as operators, with the rounding of the JavaScript code | |
| `Pricing` | a listing that lecturers edit and promote while a student earns badges and points | |
| `Catalogue` | items, listings, categories and links; an update reads item and listing, then rewrites links, item and listing in a transaction | `edit[r]` is the copy a call has read |

Groups:

| module | models | state and actions |
|---|---|---|
| `Enrollment` | joining, statement by statement without a transaction, and the calls on codes | `call[r]` is the code, instant and enrollment a call works on; `seats`, `admitted`, `removals`, `rewound`, `broken` watch from outside |
| `ShopOpening` | the cron job (find, update, notify) and the lecturer's calls | overlapping runs of the job; `untold` are shops opened whose students have no notice yet |
| `Access` | who may do what in a group: the five ownership rules the services ask, and the role that decides | operators only |
| `GroupRows` | the rows of a group, of its members and of the calls in progress; creating, changing and listing groups, lives, joining | `groups`, `stats`, `ranks`, `notices`, `pc`, `call` |
| `Ranks`, `Stages`, `Posts`, `Backlog` | one service each over `GroupRows` | the table of the service and its statements |
| `Templates` | export, import and sharing over `Ranks`, `Stages` and `Posts` | `templates` are snapshots, `offers` what is for sale |
| `Reports` | what lecturers and students are shown, each page by its own query | operators only |
| `GroupPages` | the composition: all of these services called on the same rows | `Next` is a call's next step or the publishing job |

People:

| module | models | state and actions |
|---|---|---|
| `Sessions` | issue, sliding refresh in two statements, logout, active role | `session`, `now` and the calls under way |
| `Login` | `Sessions` composed with magic links, private login and the removal of an account with its user, a step per statement | `link`; `mailed`, `logins`, `cut`, `revoked`, `seen` watch from outside |
| `Accounts` | users and accounts: sign-ins, bootstrap, grants, scripts, removals, registration, profile | `user`, `account` are rows by primary key: not yet born, there or gone |
| `Organizations` | organizations and certificates under the administrators' calls and the scripts | `org`, `cert`, `call` |
| `SamlLogin` | `Organizations` composed with sign-ins by browsers and the strategy cache of the process | `web[b]` is how far a browser's sign-in is, `strategy` the cached key; `met`, `recent` watch from outside |

Logs: `LogStore` models the log directory and the hourly job, a step per file
operation: `live`, `gz`, `entry` are what each file says about a day;
`CutShort`, `TearGzip`, `TearZip` are the process dying.

`MC*` modules only give constants their values. `*Proofs` modules hold the
proofs. `ShopLedger` is what the shop promises; `Shop` implements it under the
identity mapping on rows (`Ledger == INSTANCE ShopLedger`), checked as
`ImplementsLedger` and proved.

Definitions whose comment begins with "Mutant:" are plausible mistakes in the
code that stand next to what they replace; no action uses them. Each property
of a passing run has one that makes TLC find it violated.

Abstractions all modules share: a single SQL statement is one step, and so is a
transaction whose rows nobody else can change under it. TypeORM's `save` of
entities read before is two steps where several columns matter: it reads the
rows again, and later updates the columns that differed then, or inserts a row
it did not find. So it is for `student_stats` in `GroupRows` and `Ranks`
(`Compare`, `WriteRows`), for users in `Accounts` (`CompareProfile`,
`WriteProfile`, `RestoreProfile`), and in `StudentStats`. Elsewhere the two are
one step: for ranks and badges, of which the models keep one column that
changes, so that the write is the same either way; for items and codes, where
`mixed` and `rewound` except every row saved from an overtaken copy; for
organizations, where the column the property is about, the certificate, differs
in every rotation and `crossed` excepts the other saves; and for stages,
activities and templates, which no property relates to what was read.
Amounts are small numbers; names, messages and texts are left out.
What no guard of the code reads is a history variable: `granted`, `spent`,
`sold`, `bought`, `used`, `rewound`, `broken`, `admitted`, `seats`, `removals`, `once`, `untold`,
`mixed`, `blurred`, `raced`, `gone`, `crossed`, `met`, `recent`, `mailed`,
`logins`, `revoked`, `seen`, `cut`; `begun` and `calls` only count up to the
bound `MaxCalls`. Where a
module has no rule of `Access`, the authorization guards are taken to have let
the call through.

Particular ones: in `Enrollment` generated code texts are among `Names`, and
that `findLatestActiveCode` looks at the ten newest codes only is left out; in
`Pricing` `FloatShort` lists the products at which JavaScript's floating-point
multiplication falls below the exact value, a whole number, before it is
floored, and ranks are named by their places in the query's result; in `Catalogue`
the stored template of an item is only the category it gives; in `Organizations` the read and save
of a certificate that is revoked are one step (it only ever becomes inactive)
and an update changes one column a call; in `SamlLogin` what `passport-saml`
verifies is the comparison of two keys.

## Runs

| run | asks |
|---|---|
| `shop` | Two requests of two students on a scarce item and the extra life, with failures and the shop opening and closing. What was read under a lock is current at the write (`SnapshotsCurrent`); stock, balances and the inventory page agree with the backlog (`StockConserved`, `BalanceConserved`, `InventoryExplained`); `LimitRespected`; refinement of `ShopLedger` (`ImplementsLedger`); every request ends (`RequestsEnd`). |
| `stats_overlap` | Two overlapping calls on the rows of two students, which may not exist yet and are locked in either order, and a purchase in between. Lost updates happen, but balance and total never exceed what the backlog says was granted (`BalanceCovered`); every call ends, also those that deadlock (`RequestsEnd`). |
| `stats_serial` | One call at a time, every kind of call, rewards that change: spent points are gone (`SpentIsGone`), automatic ranks follow the total (`RankFollowsEarned`). |
| `pricing` | Edits, promotions, badges and points in every order: `BadgeNeverHurts`; without badges the best rank counts (`BestRankAlone`). |
| `catalogue` | Two edits of items and categories at once and purchases: the page shows existing categories only and the extra life on sale, and an item its listing and first category (`PageSound`); a stock changes by a purchase or an edit that sends one (`StockUntouched`). Items saved from an overtaken copy (`mixed`) are excepted where the code does not hold it. |
| `enrollment` | Two joining calls at once, of one student or of two, with failures, removals and codes made, changed and deleted: a code admits no more students than it counts, but for one with each removal by a lecturer (`AdmittedArePaid`); only a failure leaves an enrollment without statistics (`CompleteOrBroken`), `SeatsWithinLimit`. |
| `shop_opening` | Two overlapping runs of the job, a lecturer, a failing statement: `OpensOnTime`, `OpeningAnnounced`, and no shop that is due stays closed (`DueOpens`). |
| `group_pages` | Every pair of calls on a group's pages, interleaved statement by statement, and the publishing job: settled ranks fit the thresholds, though awards, revocations, joins and caps save what they have computed from older rows and ranks (`RanksSettled`); starting lives stay within the limit (`StartWithinLives`); a published post was announced (`PublishedAnnounced`); promotions refer into their own group (`PromotionsInGroup`); an automatic rank on a profile is one of the group, also after a deleted rank is inserted again (`ProfileRankShown`). 131,173 states. |
| `login` | Verifications of one mailed link that overlap, fail and crash, and requests of a session that overlap with each other, a logout, a change of role, and the removal of the account and its user, statement by statement: `OneLoginPerLink`, `LinkNotLost`, `KeptAlive`, `RevokedIsOver`. |
| `accounts` | One or two users with two spellings of an address under two overlapping calls: `FewDuplicates`; who has completed the registration had submitted the profile, whatever saves overlap (`CompletedOnceSubmitted`); and no removal, unless another overlaps it, takes a user's last account and leaves the user (`KeptUserHasAccount`). |
| `organizations` | Two overlapping calls on one organization, its certificates, the scripts, restarts, and a sign-in whose answer may come without a login and for any organization: a listed organization has a certificate that is good, however rotations overlap (`ListedIsReady`), `StrategyIsRecent`, `AdmittedWhileReady`. 652,614 states. |
| `log_store` | Five days over two month ends, the job cut short twice at any file operation: `RetainedReadable`, `ExpiredDeletedIfWhole`. |

Symmetry of interchangeable ids and requests is used in `accounts`,
`catalogue`, `enrollment`, `group_pages`, `login` and `organizations`, none of
which checks liveness.

## Bounds

- Two requests: every property relates at most two requests and a row; a third
  adds no kind of interleaving between a reader and a writer of a row. Where
  there are proofs they cover any number.
- `shop`: two students and two items, one scarce with a limit per student, one
  the extra life; a student whose rank an item is locked for.
- `stats_overlap`: two students, because lock order matters, four keys for
  award rows so that an award can be there twice, one grant each
  (`MaxGranted`); the calls are `OverlapCalls`, those that write the same
  columns. `stats_serial`: one student, two ranks, three grants: enough for
  grant, revoke, grant again and for a rank to be won and lost.
- `catalogue`: the extra life and one more item, one category; ids are born
  once, so the run ends when they are used up.
- `enrollment`: two ids, so that a student can leave and another can join or
  the same one again; `MaxSeats` 2, so that a limit of 1 is reached and passed
  by an unlimited code; a clock of two instants, so that a code expires
  between two statements.
- `shop_opening`: two instants and one beyond, so that shops open at the same
  time, at different times, and not yet; one failing statement.
- `group_pages`: two of every id, also of earned badges so that a member can have
  one twice, activities that are worth nothing (what they pay is the part of
  `StudentStats`), and `MaxCalls` 2: all pairs of calls. So that
  two calls are enough to reach what a long history would, they begin from
  three stages of a group's life: nobody has joined; a student has joined; a
  badge is earned, an activity done and there is a second group. The publishing
  job and the clock come on top.
- `login`: a clock of four instants with an idle time of 3, an absolute limit
  of 5 and a threshold of 2, so that a write is skipped, late (`Slowest`), or cut
  by the limit; two session ids and one link, which is mailed, used, given back
  and used again. `Mixed` FALSE keeps verifications of links and requests of a
  session from being between their statements at the same time, which makes the
  run small; they still follow each other in every order, logouts, removals and
  crashes come in between, and the proofs hold for either value.
- `accounts`: two users and three accounts of one organization, so that a
  duplicate and a removal can meet. One role comes with a SAML sign-in
  (`Mapped`) and one user edits the profile (`Editors`): two saves of one row
  and a removal can overlap, saves of two rows do not meet. The proofs hold for
  any of both.
- `organizations`: three certificates and two keys, so that a rotation can
  return to an old key; it begins with nothing or with a registered SAML
  organization.
- `log_store`: two whole months of two days and a begun third, retention of
  three days, so that a zip holds expired and retained days; the job is cut
  short twice, so that what repairs the first cut is cut short as well.
- `pricing`: percentages that add up past 100, promotions that tie after
  flooring, and a listing whose minimum is above its base price, which the
  service has to refuse.

Deadlock is checked in `shop`, `stats_overlap`, `stats_serial`, `enrollment`,
`pricing`, `shop_opening` and `log_store`. The other runs stop for good where
primary keys, tokens, the calls or the clock run out, which are bounds of the
models and not of the code.

## Fairness

- `Shop`, `StudentStats` (`FairSpec`): strong fairness of the next step of each
  running request. A statement that waits for a row lock is enabled only while
  nobody holds it, and PostgreSQL grants a lock in the order of waiting, so it
  is not overtaken for ever; the other statements simply run. In `StudentStats`
  the steps include `DeadlockVictim`, PostgreSQL's deadlock detector. None for
  starting requests, failures or edits.
- `ShopOpening`: weak fairness of each run of the job, which the scheduler
  starts every minute whatever happened to the previous one. None for
  lecturers, the clock or failures.
- `LogStore`: weak fairness of the job's steps: it is started every hour and
  runs synchronously. None for logging, midnight or being cut short.
- The other modules state safety only: their calls run to an answer without
  waiting for each other, and nobody has to call.

## Proofs

TLAPS checks these for every value of the constants that satisfies the named
assumptions (`ShopDataAssumption`, `LoginAssumption` and the like: amounts are
natural numbers, SQL NULL is not one of them, the DTO validators' bounds), also
for infinitely many students, items and requests unless a cardinality is in the
statement. TLC evaluates every assumption, and each inductive invariant was a
TLC invariant before it was proved.

- `ShopProofs`. `ShopTyped`: no balance, stock or quantity becomes negative.
  Its invariant is strengthened by what a request has checked at each step,
  because a decrement is only safe under the check made under the lock.
  `ShopLocksProtect`: locks exclude and snapshots are current, by
  `IInv == TypeOK /\ LocksExclusive /\ SnapshotsCurrent`: a snapshot stays
  current because only the holder of the lock writes the row.
  `ShopImplementsLedger`: every step is a step of `ShopLedger` or a stutter,
  which rests on the previous theorem. `ShopConserves` with its corollaries
  `BalancesConserved`, `InventoriesExplained`, `LimitsRespected`.
- `StudentStatsProofs`. `StatsTyped`, and `StatsNotInvented` for
  `BalanceCovered`: `IInv` adds `Working` (what a request has read has the right
  type at each step) and `WritesCovered` (what a request is about to write, or
  has written without committing, is covered by what is granted now plus what
  it will log). `BalanceCovered` alone is not inductive: a stale write may
  raise the balance, and only its cover bounds it.
  `StatsSpentIsGone` and `StatsRankFollows` are about one call at a time, as
  `stats_serial` runs it: their hypothesis is `Serial`, that there is one request
  at most, without which both are false (see the disagreements below).
  `SerialInv` adds to them what a request is about to write: an affordable row
  whose rank is that of its points (`Affordable`, `RankSound`), and that the
  columns an update leaves alone still are as they were read (`Merges`).
- `EnrollmentProofs`. `AdmissionIsPaid`, `EnrollmentComplete` and `LimitHolds`
  share an invariant: the seats a code counts, with one for each removal, cover
  those it admitted and those under way (`SeatsCover`, `UsesCounted`), ids are
  unique, and who is logged as joined has statistics (`LogsComplete`). Under way
  are calls that have counted (`Holding`) and students whom a call goes on to
  enroll without having counted, which it can once the student it found in the
  group has been removed (`Owed`): each removal makes one student owe at most. The conditional update of `use_count`
  is the only place where the limit is decided, so the proof needs no lock.
- `UpkeepProofs`, opening hours. `OpeningIsAnnounced` adds `Carried`: what a job has still
  to announce is in the list it works on. `NeverOpensEarly` holds step by step,
  because the update asks for the time again.
- `LoginProofs`. `LinkLogsInOnce`, `LinkStaysGood` and `LogoutIsFinal` by `IInv`,
  which adds `Exclusive`: a link is verified by one call at a time and is used
  while it is. That a session has a user is not among them: it is a foreign key. `UseKeepsAlive` by `KInv`: a
  request between its two statements remembers a row that is `Slowest` old at
  most (`Recent`), so what it writes takes back a bounded time. Proving it
  showed that threshold and late writes are taken off after the minimum with
  the absolute limit, not before; the property says so.
- `AccountsProofs`. `DuplicatesAreFew`: rows of one organization and role plus
  the calls that are about to insert one never exceed the calls there are
  (`Bounded`), because whoever looks and finds a row inserts none.
  `CompletionWasSubmitted` for `CompletedOnceSubmitted`, by `Recorded`: the
  user of a row that says submitted or completed is in `once`, and so is the
  user of a call that is about to complete one, whether it holds a copy of the
  row or the columns to write.
  `KeptUsersHaveAccounts` for `KeptUserHasAccount`, by `KInv`: whose accounts
  there are is there (`Alive`), a removal deletes only accounts of its own user
  (`Mine`), and what it has counted as remaining remains, unless it met another
  removal of the user (`Kept`).
- `SamlLoginProofs`. `StrategiesAreRecent`, `AdmissionMetReady`: a certificate
  that exists never gets another key, owner or a second life (`CertsSettle`), so
  what a browser has read of it stays true (`Relies`).
  `ListedAreReady` for `ListedIsReady`, by `CInv`: a certificate that is
  deactivated while its organization names it has been deactivated by a call
  that is still on its way to name its own (`Served`), nobody else can
  deactivate that one before it is named (`Fresh`), and a call of another kind
  is alone with its organization or has left a trace (`Orderly`). The
  registration script has looked before it writes, but what it then replaces it
  replaces in one transaction; a call that fails leaves a trace only when it has
  written part of its work (`HalfDone`).
- `UpkeepProofs`, catalogue. `PageIsSound` and `StockIsUntouched` by
  `CatalogueInv`: links and first categories exist, and what an update holds
  that nothing has overtaken is what there is (`Upheld`): the item, its first
  category if none is sent, the links it has deleted, and the stock it is going
  to write unless one is sent.
- `UpkeepProofs`, logs. `LogStoreTyped`, and `LogStoreReadable` for
  `RetainedReadable`: `StoreInv` adds `Copies` (every copy of a day is complete, or
  torn with the live file still there), `ArchivedAreOver` (only days and months
  that are over are in the archive, so appending never makes a copy stale) and
  `Stage` (what was written before the next file is deleted).

- `GroupPagesProofs`. One inductive invariant, `PagesInv`, for all the services
  on a group's rows: `StartsWithinLives`, `PostsAnnounced`,
  `PromotionsStayInGroup`, `RanksGetSettled` and `ProfilesShowRanks` follow from
  it (`PagesInvariant`), for any number of groups, rows, accounts and calls. It has a part for each kind of row, and each
  part says what the tables hold and what a call holds that is going to write
  them: `SettingsOK` (a change of settings fits the row as it still is, or the
  group is `raced`), `TemplatesOK`, `PostsOK` (a call that has seen a post
  published need not announce it), `StagesOK`, `RanksOK` and `BadgesOK`,
  `MembersOK`, `OffersOK`, and `SettledOK` (a row is the best, a recalculation of
  its group is to come, or it is marked). `SettledOK` follows a save through its
  steps: what a call has computed is the best as long as nothing it was computed
  from has changed (`DraftBest`), it leaves the flag for automatic ranks alone
  (`DraftAuto`), and what it has read for the comparison is what it writes over
  (`DraftSeen`); a change in between marks the call (`old`), and its write marks
  the row (`blurred`) until the next recalculation. The idea it rests on is `KnownRank` and
  `KnownBadge`: what a call has read may be gone by the time it writes, but its
  id is never given again (`gone`), and a save that inserts it once more puts it
  back in the group it was of, so that a late write cannot refer to another
  group's row. Whether the write goes through is then up to the foreign keys,
  which the actions ask for.
  A step disturbs only the parts of the rows it writes: for each part there is
  a lemma per service that says what its steps leave alone (`RowsStep`,
  `GroupsStay`, `OthersStay` and their like) and one for all steps
  (`SettingsNext`, `PostsNext`, `RowsNext`, `SettledNext`), which `StepInv` puts
  together. The assumptions are `RowsAssumption`, that SQL NULL is none of
  the rows and that the accounts of students are among `Students`, and
  `StartsAssumption`, that calls begin on tables whose foreign keys hold, whose
  settings fit and whose ranks are settled: the properties are false from tables
  that break it. Both were implicit in the instance TLC runs on.

- `UpkeepProofs`, prices. `BadgesNeverHurt` and `BestRankCounts` for
  `BadgeNeverHurts` and `BestRankAlone`. What varies is typed
  (`PricingTyped`), the rest is about the operators. The badges' discounts are
  added up in the order `CHOOSE` takes them; that the sum does not depend on it
  is shown by a function that has the sum of every part of the set (`Adds`),
  which exists for a finite set (`SumsExist`) and agrees with every way of
  counting (`CountedIsSum`). The prover has no induction over sets: both facts
  take a counterexample of least cardinality instead, with `WFMin`. So a further
  badge adds to the percentage and the amount (`BadgesAdd`), and more taken off
  is no higher price (`DiscountedFalls`) because what floating point loses at one
  percentage is less than the step to the next (`ReducedFalls`). Here the proof
  needed what the instance had by luck: `DiscountAssumption` says that only a
  product that is a whole number can come out one too low, which is how the
  rounding of doubles works, and without it a higher percentage could cost more.
  `BestSaves` says which rank `BestRank` picks; without badges its price is what
  it leaves, but at least the minimum (`PriceWithoutBadges`).

Only model-checked: liveness (`RequestsEnd`, `DueOpens`,
`ExpiredDeletedIfWhole`), which is outside the reach of the prover.

## Disagreements with the documentation

Each can be reproduced in the module named, by stating the quoted sentence as
an invariant; the properties of the passing runs say what is true instead.

Statistics, shop and prices:

- a lecturer's save of a stale `student_stats` row gives spent points back
  (`student-management-service.ts:360`, against the comment at
  `shop-student-service.ts:26`): `StudentStats` with a purchase between read and
  save;
- setting completions is called idempotent (`docs/api.md:342`), but two
  identical overlapping calls insert a completion twice and pay twice
  (`StudentStats`, two requests `Complete(quiz, {s1})`);
- an award recalculates a rank that was set by hand
  (`student-stats-reward.helper.ts:46`, against `student-stats.entity.ts:27`);
- rows that a change of lives inserts have no rank until the next award
  (`student-management-service.ts:351`), which is why `RankFollowsEarned` excepts
  them;
- with badges, the rank chosen before the badges' percentage may not be the
  best one (`discount-calculator.ts:80`).

Groups:

- a shop closed by hand is opened again by its schedule
  (`groups-service.ts:448`, `docs/api.md:518`): `ShopOpening`;
- the job may open a shop that became due after its find, without a notice
  (`shop-scheduler-service.ts:35`), which is why `OpeningAnnounced` is about
  shops it has found;
- the second of two overlapping joins of one student gets a database error,
  not the enrollment (`groups-enrollment-service.ts:124`, `docs/api.md:723`);
- an overlapping `updateCode` writes back an old `use_count` or inserts a
  deleted code again (`enrollment-codes-service.ts:138`): `rewound` marks such
  codes and `SeatsWithinLimit` excepts them;
- `updateGroup` lowers the lives without capping the members, unlike the lives
  configuration (`GroupRows`);
- an activity, or its stage, that moves to another group leaves its completions
  with the old one: the profile lists them, but the report and the progress
  page of neither group mark them, and no toggle can revoke them (`Reports`);
- a join by code that finds its student enrolled goes on without counting: when
  a lecturer removes the student before its next read it enrolls for free
  (`groups-enrollment-service.ts:228`), against the limit of the code, which is
  why `AdmittedArePaid` allows one for each removal;
- `earned_badges` has no unique key: of two overlapping toggles both grant, the
  member has the badge and its reward twice, and the next toggle takes one
  (`student-badges-service.ts:88`); deleting the badge beside a toggle that
  revokes it takes the reward twice (`badges-service.ts:101`): `Ranks`;
- a bulk edit takes a rank of any group (`student-management-service.ts:260`):
  the profile then shows a rank that the group's page does not, and that rank
  cannot be deleted, since `deleteRank` takes it from members of its own group
  only (`ranks-service.ts:94`). `ProfileRankShown` is therefore about automatic
  ranks, and bulk edits, which belong to `StudentStats`, are no calls of
  `GroupPages`;
- `markAsRead` lets who oversees a group mark a member's own news as read
  (`Backlog`, `Markable`);
- importing an item of a template sets its first category but makes no link to
  it, drops the other categories, and knows the extra life only by its name.

Sign-in and accounts:

- a settings save read before the profile was submitted, and compared after,
  clears `profile_submitted_at` beside a save that sets
  `registration_completed`: a registration can be completed and not submitted,
  against the check of `acceptEula` (`registration.service.ts:91`), which is why
  `CompletedOnceSubmitted` is about a submission at some time;
- the answer of an identity provider is taken from a browser that never asked for
  it, for the organization its relay state names
  (`saml.controller.ts:153`): `SamlLogin.HandleAcs`;
- the endpoints that rotate a signing certificate (`docs/api.md:70`) do not
  reach the cached strategy: answers are checked with the old key until the
  process restarts, which is why `StrategyIsRecent` goes back to its start;
- `updateOrganization`, soft deletion and revocation save stale copies: they
  can undo a deactivation or a rotation and insert an unregistered organization
  again, without a certificate (`crossed` marks these in `ListedIsReady`);
- a creation whose metadata cannot be fetched keeps the organization's row;
- `auth.sessions.organization_id` has no foreign key: a login may open a session
  for an organization that is unregistered meanwhile.

Logs: after a month's zip was truncated no later run packs or purges any more
(`log-store.service.ts:223`, against `docs/api.md:85`), which is why
`ExpiredDeletedIfWhole` is about whole zips.

## Not modelled

Cryptography, SMTP, SAML messages, HTTP and cookies; encodings of files (a file
is complete or torn); texts; generated data (migrations, swagger); static data
(banners); the demonstration counter; the test identity provider; listing,
repair and development scripts (those that change users, roles and
organizations are actions of `Accounts` and `Organizations`).

- Broadcasts and maintenance mode: single statements on rows nothing else
  refers to; no two steps of them relate two pieces of state.
- Drive, log and backup export: streams of files and encrypted bytes.
- `revokeAllSessionsForUser`: it has no caller.
- The currency's labels: one `UPDATE` of texts.
- Events of lives, one of which is logged outside its transaction
  (`student-management-service.ts:480`): no balance depends on them.
- The connection pool: `calculateRankForPoints` takes a second connection while
  its caller's transaction holds one, so as many such calls as there are
  connections wait for each other until the driver's time-out.

## Plan

What could be taken next, most useful first:

1. A pool of connections around `StudentStats`: that calls end rests on there
   being one more connection than transactions that ask for a second.
2. An abstract specification of sessions (a token is good from its login to its
   end) that `Login` implements.
