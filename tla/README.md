# Pasteberth: a verification development

Pasteberth is a self-hosted clipboard and file drop: an HTTP server keeps named
*zones*, each a plain directory of data files with a JSON sidecar per file,
which browsers, command-line tools and other programs on the machine share.
There is no database. What makes the program hard is that the directories are
its only state, that other processes write to them without asking, that a
process may die between any two system calls, and that every request runs in a
thread of its own.

This directory holds TLA+ models of that behaviour, TLC configurations that
check them, and theorems with proofs that TLAPS checks. Paths below are
relative to `src/PasteBerth/runtime/` unless they start with `docs/`.

## 1. Inventory

| Component | State it keeps | Operations | Modelled in |
| --- | --- | --- | --- |
| Item transactions (`storage.py`) | the names and links of a zone directory; journal files; recovery handles | save, replace, rename, delete; cleanup, rollback, reconcile | `TransactionScripts`, `ItemTransaction`, `AtomicItem`, `ItemRefinement` |
| Directory operations (`storage.py`, `platformfs/*`) | entries and inode identities | move, link, remove, write, restore, each identity-checked | `ZoneDirectory` |
| Uploads, transfers and retention (`service.py`, `storage.py`) | the items of the zones, what journals are left, the locks of zones and devices, staging files | upload, direct drop, delete, rename, comment, copy, move, register; retention; reconcile | `ZoneContents` |
| Zone registry and zone operations (`service.py`) | zone tables swapped as a whole, a lock per zone, refresh state | refresh, enter and leave a directory, close | `ZoneOperations` |
| Zone collections (`zone_collection.py`) | none between scans | walk each rule's directories, merge what they found | `ZoneCollections` |
| Connection admission (`server.py`) | two sets of sockets, two semaphores, the accept loop | accept, promote, release, shut down | `ConnectionAdmission` |
| Request lifecycle (`webapp.py`) | what a handler caches of its client; owner and timer of the request; stream, archive deadline and slots | authenticate, judge, serve, stream, expire, next request | `Requests` |
| Access tokens (`tokens.py`) | SQLite registry of tokens, grants, suspensions | create, extend, rotate, revoke, suspend, authorize | `TokenRegistry` |
| Sessions and login throttling (`auth.py`, login handler of `webapp.py`) | limiter table and semaphore, session store, password file | acquire, complete, release; create, validate, revoke | `Login` |
| Browser client (`static/app.js`) | the zones shown, refresh generation, busy zones, queue of questions | poll, upload, delete, transfer, comment, ask | `BrowserPage` |
| Command line (`cli.py`, `client.py`) | none | direct drops; registration of files; operations beside the daemon | `ZoneContents`, `ZoneOperations`; else not modelled |
| Windows platform layer | none | the contract of `platformfs/base.py` over Win32 | not modelled |
| Configuration, content recognition, MCP adapter, deployment helpers | none that changes | parse, classify, call the service | not modelled |

### How they interact

`PasteberthServer` gives each connection a thread. The handler
(`PasteberthHandler`) authenticates the request with a session (`SessionStore`)
or a token (`TokenStore`), and calls `PasteService`. The service looks the zone
up in the registry, takes the zone's thread lock and its destination's
`operation_lock` (two `flock`s, shared with every other Pasteberth process of
the user), for a write also the lock of the device, and calls
`LocalDestination`. The destination turns a mutation into a *transaction*: a
sequence of identity-checked links and renames under private names, opened by a
prepared marker and decided by a commit file. The next operation of any process
that finds a journal without a live owner *reconciles* it first.

What runs concurrently: threads of requests with each other and with the main
thread; the signal handler inside the main thread; discovery in a background
thread; Pasteberth processes with each other (excluded from a directory by
`operation_lock`); and processes outside Pasteberth, which take no lock.

### What makes each part correct

- **Item transactions.** A reader never sees a data file with the sidecar of
  another version, nor a mutation that did not commit. After any failures and
  process deaths the item is the old one or the new one. No step drops the last
  copy of what recovery needs, as far as it can see. A foreign file is never
  unlinked. The reply to the caller agrees with what happened. A journal does
  not stay for ever.
- **Connection admission.** Each slot is free or taken for one connection,
  whichever thread releases it; a signal stops the server whatever was open
  (unless its handler waits for its own thread, or fails in the middle of an
  admission: finding 3 and the first weakness in section 3).
- **Login.** A delay is kept although the table forgets clients; reservations
  are given back once; sessions leave the store only for a reason.
- **Zone operations.** Conflicting operations of a directory exclude
  each other although the registry may replace a zone's lock meanwhile; locks
  are taken in one order; a refresh has one owner and everybody who waits for it
  goes on; a zone is never refused as busy for ever.
- **Zone contents.** An item disappears only by a request that is entitled to
  it: in particular a move does not delete a source whose copy has gone. What an
  answer of success says is so. A write leaves the reserve of its zone. No request
  leaves a lock, no command its staging file.
- **Zone collections.** Two discovered zones never share an id or a directory,
  and none takes either from a configured zone.
- **Tokens and requests.** No request is served with a token that was not valid
  at some moment since it came, nor with rights that the grants, the zones and
  the suspensions of some moments since then do not give (zones and suspensions
  are read one after the other, so the moments may differ). A timer of one
  request never closes the connection of the next; a silent client, a stalled
  stream and an endless archive are cut; slots of archives do not leak.
- **Browser.** An older list never replaces a newer one; a file is replaced only
  if the user was asked about it; the page catches up with the server.

Every hazard that was found while reading is listed at its line in
`PROJECT.json`, with the properties that would catch it, or with a note when no
property does yet.

## 2. Modules and how they correspond to the code

### Item transactions

`ZoneDirectory` is one directory: `dir` maps names to inodes. A name is one of
the public names of the item (`public`; `source` and `target` of a rename), one
of the private names a transaction derives from its token (`temp`, `backup`,
`guard`, `spare`), the `marker` and `commit` files of the journal, or an
anonymous `.pbtrash-*` name. An inode is an old or new file of the item, a
journal file, or a foreign file. A transaction is a *script* in `todo`; every
step is one of the helpers of `storage.py` and is named after it in its comment
(`_move_expected`, `_link_expected`, `_remove_expected`, ...). A helper that
looks at an identity, acts, looks again and unlinks takes up to four transitions
(`stage`), so that an external writer or a process death may come between them:
in particular between the last look at the public pair and the unlink of the
copy that protects it (`Discard` and `UnlinkEntry`, `ConfirmClose` and
`UnlinkCopy`). `ok` is the exception under way, `handles` the recovery copies of
`_cleanup_pair_guard`.

`TransactionScripts` gives the scripts of the four mutations: what they write
first (`Staging`), how they publish (`Install`), how a published one is cleaned
up after (`Cleanup`, `HealNew`, `KeepNew`, `Retire`), how an unpublished one is
undone (`Rollback`, `RetireMarker`, `HealOld`, `KeepOld`), how a deletion is
finished (`Finish`, `EmptyTrash`, `Untomb`).

`ItemTransaction` is the control around the scripts: `phase` says which function
of `storage.py` runs, `reply` what the caller has heard. `Crash` stops the
process between any two steps; `Reconcile` is the restart. `committed` is a
history variable: the commit file has existed, or the deletion has passed the
point after which it is finished and not undone. A file of the journal that
cannot be read is no journal for the code: `InstalledUnread` and `RecoverUnread`
take a commit file that is there for absent (`misread` records it), `Overlook`
is a start that can read none of a journal's files, and `Shows(read)` is what a
reader is shown who can read the journal files `read`.

`AtomicItem` is what a mutation promises: one value, before or after, that
changes at most once, never after a failure was reported (unless the mutation is
a deletion: `late`). `ItemRefinement` reads that value off the directory and
states that the transaction implements it (`Atomic`).

`MCItem` instantiates all of it for TLC.

### Connection admission

`ConnectionAdmission` models `PasteberthServer`. The main thread has a program
point for each statement of `process_request` and `_release_request` that a
signal may separate; a connection's thread has one for each part of
`parse_request`, `promote_request` and `_release_request` that is atomic under
`_sockets_lock`. `Interrupt` runs the signal handler in the main thread wherever
it is; `HandleSignal` needs the lock, which the interrupted thread may hold.
`HandlerRaises` is a handler that cannot start the thread that stops the server:
the exception ends the accept loop (`signal` is "left"), is swallowed with the
request that was being admitted ("swallowed"), or stops the bookkeeping of that
request half-way too ("leaked").
`LeaveLoop`, `CloseServer` and `JoinThreads` are the end of `serve_forever` and
`server_close`.

### Login

`Login` models `LoginRateLimiter` and `SessionStore` as the login, request and
logout handlers use them. A login goes through `Arrive` (reads the clock before
it takes the lock), `Acquire`, `ReadHash`, `Complete` or `Abandon` (the locked
parts), `ReturnSlot` (the semaphore is given back after the lock), and
`OpenSession`. `BeginValidate` and `EndValidate` are the two halves of
`validate()`, which reads the version of the password file before it takes the
lock. The sessions are a dict whose order matters: each is a record with the
turn at which it was inserted, and `Trim` keeps those that few enough turns come
after. `Rotate` is `pasteberth passwd`; `Tick` is the monotonic clock. `barred`
and `revoked` are history variables.

### Zone operations

`ZoneOperations` models how `PasteService` gets an operation into a directory.
`registry` stands for `_zone_cfg`, `_destinations` and `_locks`, which
`_install_registry` replaces together; `scan` for the refresh in progress, its
owner (a request, or `None` for the background thread) and the directories it
still has to open; `passed` for the generation number that lets a joiner tell
its own refresh from the next. `StartScan` is the walk, `OpenZone` the
constructor of a new destination, which reconciles under the exclusive file
lock, `Install` the swap and the notification of all who wait.

An operation goes through `Arrive` (and `Joined`), `Look` (the entries under
`_registry_lock`), `CheckState`, `TakeLock` and `TakeFlock` for each zone in the
order of the directories, `Enter`, `Leave` and `Release`. Previews and archives
(`read`) skip `_operation_state` and the thread locks. A command works on the
directories without the daemon's tables and may be killed (`Die`). `disk` and
`MoveZone` are the project directories below a collection's root.

### Zone collections

`ZoneCollections` is discovery as a function of one pass's observations (`fs`:
the identity of each canonical path, and where its entries lead). `Walk` is the
loop of `_scan_collection`, with its stack and the keys it has seen, as a
recursive function of the number of pops; `Records`, `Candidates` and
`Discovered` are the three stages of `discover_zone_collections`: what the rules
found without the configured zones, one candidate for each identity whose
collections agree on its settings, named after the first of its paths, and one
zone for each id that no two candidates claim. It has no behaviours;
`ZoneOperations` has those of the registry a discovery replaces, and takes from
here that different zones have different directories. `MCZoneOperations`
instantiates it on small trees.

### Zone contents

`ZoneContents` models what requests do to items once `ZoneOperations` has let
them in. A zone is a function from names to items (content, time, comment) or
`None`, with a mark for each name whose journal has been left behind (`journal`)
or whose file an external process has deleted ("orphan"), or that is a file without
a sidecar ("foreign"). A change of one item is one step
with the outcomes a transaction allows it: it happens, it happens and its
cleanup is deferred, it fails and is undone, it fails and its marker stays.
A listing (`Lists`) may pass over items whose sidecar or data it cannot read, and
show items whose marker it cannot read, as `list()` does without a word; it is
what retention, the search for a duplicate, the choice of a transfer and its
second look go by. `blind` remembers that a request has relied on such a listing.
The program points of a request (`at`) are those between two such changes:
`LookAtUpload` and `LookAtTransfer` are the checks before anything is written,
`Measure` takes the lock of the device, looks for a duplicate and compares with
the reserve of the zone (`Room`, which may differ on one device), `Save`
publishes one item, `ListVictims` and `Evict` are `apply_retention`, `Retained`
the end of it, `Confirm` the second look of a transfer at its target, `Remove`
the deletion of the sources of a move, `Delete`, `Rename` and `Comment` the
single operations. The command that registers a file it finds reads it
(`ReadForeign`), compares it with what it read (`Register`) and publishes its
sidecar (`Publish`). `Begin`, `Refuse`, `Unstage`, `Collect` and `GiveUp` are
the two sides of a direct drop: the daemon removes the staging file before it
answers with success, and the command removes it after any other answer. `Die`
ends a process, `Reconcile` is the start of the next, `Vanish` an external
deletion.

### Tokens and requests

`TokenRegistry` is `TokenStore`: rows with their grants, suspended scopes, and
the zones the service has published; each change is one SQLite transaction.
`Access` and `MayReplace` are `token_zone_access`. `Requests` extends it with the
handler of a connection: `Start` forgets the client of the request before,
`ReadRow` and `ReadGrants` are the two statements of `authenticate()`,
`ReadSnapshot` and `ReadRules` fill the caches of the request, `Judge` decides.
`StartStream` to `StopStream` are the streams of a preview and of an archive
(`_send_zip_response`).
Timers are a stage for each request: `Fire` starts the function, `Expire` runs
its locked part, `Rearm` the second locked part after a stream has made
progress; `FireArchive` and `ExpireArchive` are the timer of an archive. `Tick`
lets time go by for timers, streams and tokens alike. `lately` is a history
variable: what the registry has said since the request came.

### The browser page

`BrowserPage` is one page of `app.js`. A *flow* is an asynchronous function that
runs: the poll, or one operation of the user; each action is what happens
between two awaits. `current` and `active` are `refreshGeneration` and
`activeRefreshController`, as the flow they belong to. `GetList` and `GetTokens`
are the two halves of `refresh()`, `Uploaded`, `Refused` and `Relist` what
follows an upload, `ReceiveItem` and `ReceiveBatch` the other operations, `Ask`,
`Show` and `Answer` the queue of questions and its dialog. Of the server, the
outcomes of a request are left (`Serve`); a batch may also be answered with
success and change nothing, when each of its names has failed. `asOf` and
`consent` are history variables.

## 3. What is checked

| Run | Bounds | Shows |
| --- | --- | --- |
| `item_external` | all four mutations; one write or deletion by an external process, one failing call or read, one process death, at any point | `TypeOK`, `OutcomeVisible`, `LastCopyKept`, `ForeignKept`, `ReplyFinal` |
| `item_alone` | all four mutations; two failing calls or reads, two process deaths, no external writer | `AllOrNothing`; `Atomic` (refinement of `AtomicItem`); `JournalRetired` (liveness) |
| `item_foreign_moved` | a fresh save, one external write | violation of `ForeignInPlace` |
| `item_rename_copy` | a rename, one external deletion | violation of `CopyRetained` |
| `admission` | three connections, two pending slots, one active slot, one signal | `TypeOK`, `SlotsAccounted`, `NothingLeaked`, `ShutdownCompletes` (liveness) |
| `admission_signal` | one connection, one signal | violation of `GracefulShutdown` |
| `login` | three logins, two clients, room for one in the table, two slots, two sessions, five instants, one rotation | `TypeOK`, `ChecksAccounted`, `LockoutHeld`, `SessionsLast` |
| `login_rotation` | one login, one rotation | violation of `SessionPassword` |
| `zone_operations` | two zones, one of them discovered; pairs of operations (six combinations); two changes of the project directory; any number of scans | `TypeOK`, `Exclusive`, `StateKnown`, `ClosedForGood`; `OperationsEnd`, `CloseEnds` (liveness); discovery on 7419 trees (assumptions of `MCZoneOperations`) |
| `zone_contents` | two zones of one device that hold five items before the reserve of the one is touched and four before that of the other, retention of two and one; twelve pairs of requests, four initial stocks; two faults | `TypeOK`, `StageRetired`; `SpaceKept`, `NothingLost`, `AnswerTrue` (steps); `AllAnswered` (liveness) |
| `requests` | two requests, on one connection or two; six requests to choose from; one change of the registry or the zones; timers of one tick, an archive of two | `TypeOK`, `SlotsKept`, `RightsCurrent`; `CutJust` (steps); `RequestsEnd` (liveness) |
| `browser_page` | two operations of the user, one change on the server besides the first content, any number of polls | `ReplaceAsked`; `NewerKept` (steps); `Converges` (liveness) |

### Why the bounds are enough

- *One item.* A transaction touches the names of its own item and private names
  with 96 random bits; another item's names are other names. The operation lock
  admits one transaction at a time.
- *One external act, one or two failures and deaths.* Each check of the code
  guards against one surprise between a look and an act; the runs put it at
  every such place. A second process death hits the recovery of the first, and
  a second failure the handling of the first. With both, a longer behaviour
  repeats a recovery from a directory the runs already start one from.
- *Twelve quarantine names.* More than are ever in use within these bounds, so
  `FreshScrap` is never empty: the model never stops for lack of one.
- *Three connections, 2 + 1 slots.* Both pools can be exhausted, with one
  connection in each pool and one on its way between them.
- *Three logins, one tracked client, two slots.* The table is full while another
  client is locked out or checked; the semaphore is full as well; a client can
  come back after its entry was forgotten. The delays are chosen around the
  time after which a client is forgotten, so that either may end first.
- *One validation under way at a time* (`probe`): a validation only removes its
  own token, and two of them differ only in which version they have read.
- *Pairs of operations, two zones.* Exclusion is a statement about two
  operations, and the theorem covers any number. A cycle of waits needs two
  zones in opposite orders, or a scan and an operation; both occur. Two changes
  of a directory let a zone vanish and return, with another thread lock or
  another directory, while an operation works under the first; the third
  directory sorts after that of the other zone, so the order of the two changes
  too. Scans are not counted, so a joiner may meet any number of them.
- *Pairs of requests, two zones.* `NothingLost` and `AnswerTrue` are about the
  items of one request and what another does between two of its steps; a third
  request finds the same states. The pairs bring together each kind of request
  and the steps of a move; the stocks make a name taken, a target newer and a
  zone full. One zone retains fewer items than a move brings, so that retention
  removes an item published before. With room for five items and for four two saves
  each fit and together not, also when only the zone written to objects, and a
  name that retention has just deleted can be published again by the same
  transfer. Two faults put a failure into the handling of another one, or let a
  listing pass over what the first has left.
- *Two requests of one client.* A timer outlives one request and meets the next.
  The token has a grant of each kind of scope but the global one; what is
  published lets a path move, be shared and vanish, and a group change.
- *Two operations of a page and its poll.* Three flows overlap: two generations
  and one that is superseded. Each change on the server has a number of its own,
  so that an older list can be told from a newer one of the same content.

Deadlock is checked in `browser_page`, whose poll never ends. Elsewhere it is not
(`CHECK_DEADLOCK FALSE`): a mutation, a server, the logins and requests of a
behaviour end. What must happen is stated as liveness instead, and
a wait for ever shows there, as it does in `admission_signal`.

### Fairness

`LiveSpec` of `ItemTransaction` assumes weak fairness of the steps of a live
process and of the restart: a thread that waits for nobody runs on, and the
next operation on a zone reconciles. Crashes and failing calls are not fair.
`LiveSpec` of `ConnectionAdmission` assumes it of the main thread, of threads
that do not wait for a peer, and of reads and writes on a socket the server has
closed, which return at once. Nothing is assumed of an open connection: its
timeouts may be configured to be unlimited.
`LiveSpec` of `ZoneOperations` assumes it of the scanning thread, of `close()`
and of each operation. It is weak: a lock that is free now and then is not
promised to anybody, and a process may ask for scans without end. An operation
does end once it is inside, which is what a body without further locks of zones
does.
`LiveSpec` of `ZoneContents` assumes it of each request and each client that
waits for its answer; faults, reconciliation and giving up are not fair.
`LiveSpec` of `Requests` assumes that time goes by, that a timer runs once it is
due, and that a handler goes on unless it waits for its client. `TimeAssumption`
gives every timer a time: the configuration also permits unlimited ones, with
which a silent client may keep its thread for ever, and `RequestsEnd` claims
nothing for them. Nothing is
assumed of the client; a read or write fails for certain only once a timer has
shut the socket down.
`LiveSpec` of `BrowserPage` assumes that the page polls, and strong fairness of
one thing: of ever so many overviews one is received, not aborted, and finds the
zone free. Nothing is assumed of the user.

### Findings

1. `item_rename_copy`, a code bug. `rename()` removes its temporary sidecar in
   its exception handler although the rename is committed (`_save_named` asks
   first). If the target's sidecar vanishes during cleanup, that handler deletes
   the copy recovery has just kept. `LastCopyKept` exempts exactly this handler,
   so that it says that there is no other such place.
2. `item_foreign_moved`, a divergence from `docs/deployment.md`. A foreign file
   put under a public name in the right instant is renamed to a private name and
   stays there. It is never unlinked: `ForeignKept` holds, and is proved.
3. `admission_signal`, a code bug. The signal handler takes a lock the thread it
   interrupts may hold; the server then never stops.
4. `login_rotation`, a divergence from `docs/operations.md`. A session records
   the version of the password file of the moment it is made, not of the hash
   its password was compared with, so a rotation during the comparison leaves a
   session of the former password valid.

A deletion that was reported as failed may still be carried out by the next
start, when its marker could not be removed during the rollback. `ReplyFinal`
and `AtomicItem` say that nothing else is ever late.

Weaknesses met while modelling that no run is spent on:

- The signal handler closes all connections and then starts a thread that calls
  `shutdown()` (`server.py:238`). If no thread can be started, the exception ends
  up in what the main thread was doing: while a request is being admitted,
  socketserver reports it and accepts the next, and the server stays up.
  `ShutdownCompletes` exempts this (`signal` is "swallowed" or "leaked") and, with
  finding 3, says that with one signal there is no third way; without the
  exemption TLC finds the behaviour.
- A commit file that cannot be read once counts as absent (`storage.py:1481`,
  `2716`), at a start or after a failed write. The committed mutation is rolled
  back while its commit file stays: what was published is unlinked, and what was
  restored stays hidden behind the commit file. `LastCopyKept` exempts it
  (`misread`), as do the theorems that name `misread`; without the exemption TLC
  finds the behaviour.
- Before a move deletes its sources it looks at its target again
  (`service.py:1226`), with a list that passes over a marker it cannot read
  (`storage.py:3916-3920`). An item that retention is about to delete for good
  is taken to be there, and its source is deleted. In `NothingLost` and
  `AnswerTrue` `blind` marks the requests that relied on such a list, and they
  say that nothing else X- `docs/operations.md:142-145` and the comment at
  `storage.py:4295-4297` say that startup finishes a deletion. If the process
  dies while a failed call is being rolled back, a file may be public and in the
  trash at once; the next start then empties the trash but keeps the marker
  (`Gone` in `EmptyTrash`), and only the start after that one finishes the
  deletion. Both outcomes are allowed by `AtomicItem`, and `JournalRetired`
  counts every start.
- `deleteItem()` advances the refresh generation before its request only. A poll
  that starts after it and is listed before the deletion is displayed
  after it, and shows the deleted file until the next poll
  (the test at `tests/e2e/app.spec.js:2183` promises the opposite, for another
  order). `Converges` bounds it.
- `refresh()` waits for `loadTokenAdmin()` between the check of its generation
  and the assignment of `state.zones` (`app.js:3267-3284`), so that an older list
  can replace what an upload has put there. `NewerKept` exempts exactly that.
- The `AbortError` of the refresh at the end of `deleteSelected`,
  `transferSelected` and `uploadBatch` is shown to the user as a failure; the
  `finally` of `uploadBatch` gives back a zone that a concurrent batch holds
  busy; the answer to `saveComment` may replace a newer item until the next poll.
- The source of a move that has disappeared meanwhile is both in `failed` and in
  `transferred` of the answer (`Remove`).
- A directory that a bind mount shows at two places below a base is walked at
  one of them only; a pattern that matches the other alone may miss it
  (`Walk` against `Reachable` in `MCZoneOperations`).

## 4. What is proved

| Theorem | Module | Statement |
| --- | --- | --- |
| `ProgramStep` | `ItemTransactionProofs` | every file operation, in any script, keeps the directory well formed and every foreign file linked |
| `TypeCorrect` | `ItemTransactionProofs` | `Spec => []TypeOK` |
| `ForeignFilesKept` | `ItemTransactionProofs` | `Spec => ForeignKept` |
| `NothingStaleShown` | `ItemTransactionProofs` | `Spec => [](~misread => OutcomeVisible)` |
| `BeforeOrAfter` | `ItemTransactionProofs` | `Spec => [](~misread => AllOrNothing)` |
| `RepliesFinal` | `ItemTransactionProofs` | `Spec => ReplyFinal` |
| `Atomicity` | `ItemTransactionProofs` | `Spec /\ [](used = {}) /\ []~misread => Atomic`: the refinement of `AtomicItem` |
| `CopiesApart` | `ItemTransactionProofs` | `Spec => []SafeCopies`: which copies each step left to run may unlink |
| `LastCopyNeverLost` | `ItemTransactionProofs` | `Spec => LastCopyKept` |
| `TypeCorrect` | `ConnectionAdmissionProofs` | `Spec => []TypeOK` |
| `SlotsNeverLeak` | `ConnectionAdmissionProofs` | `Spec => []SlotsAccounted` |
| `IdleIsEmpty` | `ConnectionAdmissionProofs` | `Spec => []NothingLeaked` |
| `LockoutKept` | `LoginProofs` | `Spec => LockoutHeld` |
| `ChecksNeverLost` | `LoginProofs` | `Spec => []ChecksAccounted` |
| `TypesKept` | `LoginProofs` | `Spec => []TypeOK` |
| `SessionsKept` | `LoginProofs` | `Spec => SessionsLast` |
| `ZonesTyped` | `ZoneOperationsProofs` | `Spec => []TypeOK` |
| `DirectoriesExclusive` | `ZoneOperationsProofs` | `Spec => []Exclusive` |
| `StatesTrue` | `ZoneOperationsProofs` | `Spec => []StateKnown` |
| `ClosesForGood` | `ZoneOperationsProofs` | `Spec => []ClosedForGood` |
| `DiscoveredApart` | `ZoneCollectionsProofs` | two discovered zones differ in id and directory |
| `ConfiguredSpared` | `ZoneCollectionsProofs` | configured zones keep their ids and directories |
| `CollectionsAgree` | `ZoneCollectionsProofs` | a zone belongs to all collections that found it, which agree on it |
| `LocksAlwaysHeld` | `ZoneContentsProofs` | `Spec => []TypeOK`, with the locks of each request |
| `StagingRetired` | `ZoneContentsProofs` | `Spec => []StageRetired` |
| `ReserveKept` | `ZoneContentsProofs` | `Spec => SpaceKept` |
| `ItemsNotLost` | `ZoneContentsProofs` | `Spec => NothingLost` |
| `AnswersTrue` | `ZoneContentsProofs` | `Spec => AnswerTrue` |
| `RequestsTyped` | `RequestsProofs` | `Spec => []TypeOK` |
| `SlotsGivenBack` | `RequestsProofs` | `Spec => []SlotsKept` |
| `RightsOfTheRequest` | `RequestsProofs` | `Spec => []RightsCurrent` |
| `TimersCutInTime` | `RequestsProofs` | `Spec => CutJust` |
| `ReplacesOnlyAsked` | `BrowserPageProofs` | `Spec => []ReplaceAsked` |
| `NeverOlder` | `BrowserPageProofs` | `Spec => NewerKept` |

They hold for every value of the constants: any number of foreign files,
quarantine names, failures, process deaths, connections, logins, clients, zones,
operations, scans, names, requests, tokens, grants, tasks and changes, and any
size of the pools, tables, rooms, limits and delays, under the assumptions the
modules name (`NoneAssumption`, `FaultAssumption`, `CrashAssumption`,
`KindAssumption`; `ConnAssumption`, `SlotsAssumption`; `SetsAssumption`,
`LimitsAssumption`; `JobsAssumption`, `ZonesAssumption`; `OrdersAssumption`,
`StocksAssumption`; `RegistryAssumption`, `AskAssumption`, `TimeAssumption`;
`PageAssumption`). These say that bounds are numbers, that the sets counted are
finite and that `None` is not a value; and, of the inputs, what the program
checks before it acts on them (a transfer has two different zones, a rename
another name, a token at most one grant for each scope, an order that is neither
a deletion nor a transfer at most one name).

Three theorems have a hypothesis besides. `Atomicity` is about the behaviours in
which no external writer touches the names of the item (`[](used = {})`): with
one, neither value need be there any more. It, `NothingStaleShown` and
`BeforeOrAfter` speak of behaviours in which no commit file was misread so far:
after one, a committed mutation is being rolled back, which is what the
invariants rule out; section 3 says what becomes of it. The runs check the
three properties with misread commit files as well, for one item and within
their bounds. There, `Atomic` holds as far as the journal tells the value: the
commit file stands, although what it promises may be gone.

*Directory.* `DirectoryInv` says that the state is typed, that recovery copies
hold files of the program only (`CopiesOwn`) and that a quarantined entry under
a check is not one of them (`QuarantineApart`). `TypeOK` alone does not carry
`ForeignKept`: unlinking a recovery copy is harmless only because no foreign
file can be under its name. A *tame* step (`Tame`) leaves the directory as it
is, renames or links to a free name, or rewrites an entry that holds a file of
the program; every operation is shown to be tame, and a tame step keeps each
foreign file linked. Every script is shown to be a sequence of steps (`StagingType`
and its like), so that this part of the proof treats scripts as opaque. `Inv`
adds the types of the control variables and that a deletion never enters the
phases of a publication.

*Outcome of a transaction.* None of `OutcomeVisible`, `AllOrNothing` and
`ReplyFinal` is inductive: they speak of moments between operations, when no
script is left that could tell how the directory came to be so. `OutcomeInv`
relates the directory to the rest of the script at every moment:

- `ScriptsOK`: what is left to do is a sequence of the kinds of step that the
  phase may take (`StagingSteps` to `UntombSteps`), and each kind says what it may
  touch: a publication removes private names and the journal only, a rollback
  retracts new files only. While a mutation is installed, what is left is a
  suffix of `Install(kind)`.
- `NamesOK`: which files each name may hold (`May`), and what the step that is
  between its two looks has seen.
- `JournalOK`: the commit file exists only when the mutation is committed, and
  the marker goes before it (`MarkerFirst`), so that a start that finds a marker
  without a commit file undoes only what did not commit.
- `PhaseOK`: which phases follow the commit, and what the caller has heard then.
- `InstallOK`: the steps of the installation already taken have had their effect.
- `StaleOK`: where old files are not any more, or new ones not yet; while a
  rollback or the emptying of the trash goes on, each exception has a step left
  that will deal with it (`ToUndo`, `Pending`).
- `OutcomeOK`: without external writers the right pair is there in full.

A misread commit file breaks this on purpose: a committed mutation is rolled
back. So what is carried on is `Judged`: `OutcomeInv` until a commit file is
misread, and that the mutation was committed from then on, which `RepliesFinal`
and `ForeignFilesKept` need no more than. `NothingStaleShown` adds that a reader
who can read one file of the journal at least is shown a pair only when a commit
file is among them and the pair is the committed one.

The proof has three kinds of step. A file step (`FileOutcome`, from `Effects`,
which says what each operation may do to a named entry) keeps each part by the
kind it is of. The actions that take up another script are all instances of
`TakeUp`: what its script needs is known at that point of the code (`Ready`). An
external writer (`OutsideOutcome`) replaces or deletes what is under one public
name, and never brings a stale file back. For `Atomicity`, `ValueDecided` shows
that without external writers the value read off the directory is "after"
exactly when the mutation is committed; what remains is how `committed` and
`reply` change in a step (`AtomicStep`).

*The last copy.* `LastCopyKept` is a statement about one step, but why a step
may unlink a file is decided when its script is put together. `CopiesOK` says so
of each step left to run (`Careful`): a part of the mutation that protects a
pair (`Protected`: the old one until the commit, the new one after it) unlinks a
file of the pair only in a step that looks at the public names of the whole pair
after the quarantine and before the unlinking (no look can be the unlink itself:
an external process may come in between, `Overtaken`; so the property is that no
look decides on the unlink of a last link, and that a last link goes only when
overtaken), closes recovery copies only while they hold the pair, and purges
only at the end of a rollback. That is shown of every script (`CleanupCareful`
and its like) and carried over to each part that is taken up (`TakeCopies`).
There is one exception in the code: the cleanup of a rename looks at the pair
before it drops the backup of the data, but not again between quarantine and
unlinking (`DropIf`). It is safe because the data has a second private link, the
guard. `GuardOK` follows that: the guard is linked from the backup, which was
just seen to be the data file (`LinkSeen`); no installation commits without it
(`InstallGuards`); the cleanup drops the backup before the guard
(`BackupFirst`); when copies are kept after a failure, the guard gets its name
back before the backup does (`GuardKeptFirst`). So the guard is there as long as
the backup of a committed rename is, or may come back (`DataGuarded`). What
remains is that only the unlinking of a quarantined entry (`Unlinks`), the
closing of a copy (`Closes`) and a purge can take the last link of anything
(`Losses`): every other operation fills a free name. The exceptions in the
statement are real: `item_rename_copy` shows that of the handler of a rename, a
misread commit file is among the weaknesses of section 3, and `Overtaken` is
what no check before an unlink can rule out.

*Admission.* `SlotsAccounted` needs to know where each connection can be: the
one in the main thread's hand is registered exactly at the points after
`Register`, a thread that moves on has been registered, and a thread and the
main thread never give the same slot back. `Inv` states that (`MainOK`,
`SetsOK`, `OnceOK`). Each step then either leaves a pool alone or exchanges one
free slot for one holder (`Exchange`), which keeps their sum. `NothingLeaked`
follows from both: when no thread is under way nobody is a holder.

*Login.* `TableOK` says that the table records one comparison for a client that
has one and none for others; `DelaysOK` that a delay is over or the table still
knows of it. `RoomKeeps` shows that pruning and making room forget only clients
that are idle and no longer delayed, also when judged by a clock read before the
lock was taken. The slots are counted as in admission (`Moves`). Of the sessions,
`SessionsOK` says that each has a turn of its own and that the order of the turns
is that of the expiries: the monotonic clock is read under the lock. So those that
`Trim` cuts expire no later than those that stay, and the store had been full.
`ProbeOK` says that a validation compares with a version no older than that of the
session it found; a version that differs is therefore one that was replaced. The
number of sessions is bounded because, of the sessions after which few enough others
were inserted, there are as few (by the least turn).

*Zone operations.* `Excluded` says that a directory is locked twice only by two
readers; it is inductive with `Entered` (no file lock before the zones are found,
and all of them inside) and uses no thread lock: exclusion rests on the file
locks alone, as it must when a zone has had several thread locks. `OwnerScans`
says that the owner of a scan is at no other point, so that the end of a scan
moves nobody out of a directory (`Apart`). `StateKnown` is inductive by itself:
whoever entered last is still inside, or has taken the entry out.
`ClosedForGood` too: a scan begins only while nobody has asked to close, and
`close()` waits for the one under way.

*Zone collections.* Nothing is assumed of the walk, nor of the file system: the
merge alone keeps zones apart. The argument is that a candidate comes from the
records of one identity (`CandidateOrigin`), for which the first record must
exist (`CanonicalExists`, from the least number of a set, twice: by place, then
by rule). The hypothesis `WellPlaced` says that rules are numbered and that the
paths found have a place in the order of names. What the walk finds is compared
with what can be reached by TLC only: it is a recursion over data.

*Zone contents.* `Base` (types and locks, `OrdersOK`, `PointsOK`,
`ForeignThere`) says at which point a request of each kind may be and what it
has left to do there. `SpaceKept` is about `Save`, which looks at no limit: the
holder of the lock of a device has measured all it still has to publish against
the reserve of its zone, so `RoomPromised` counts what is `Owed` as stored
already, and staging files are finite in number (`StagedFinite`). `NothingLost`
needs to know what has become of an item between the looks at it: what a
transfer has read is still in its source unless an external process took it, and
what it has published and confirmed is still in its target (`TransfersOK`),
which the locks of both zones guarantee against every other request; so that a
source is removed only when its copy is there, or hidden by a marker the last
listing could not read (`Seen`). `StageRetired` rests on `StagesOK`: a request
that was answered with success has no staging file any more. What retention
deletes was more than the zone retains when it was listed, and still is when it
is deleted, though the zone shrinks with each deletion (`EvictionsOK`, from
`VictimsBeyond`, which counts the items younger than a victim). `AnswerTrue` is
about an answer that is put together during the whole run of a request.
`AnswersOK` says, on top of that invariant, what the lists already say of the
items: names still to do, done and failed make up those asked for (`ListedOK`);
what is done is in the target and gone from the source, what has failed is still
there (`DoneOK`); what retention is said to have deleted is gone unless the same
transfer has published it again (`DroppedOK`); and when the victims that were
listed are gone, what is left is within the retention of the zone (`WithinOK`,
from `VictimsEnough`, the converse of `VictimsBeyond`). Another request touches
none of it, as it has none of the locks; an external process can only make items
fade (`FadesKeeps`), which the answer never contradicts.

*Requests.* `ControlOK` says what a request knows at each point. `AlarmsOK`
relates timers to time: the timer of the request under way is due when the
request has lasted `Timeout`, and that of a later one is not armed; timers of
former requests, which may still fire, find that they are not the owner's.
`CachesOK` says that each of the caches (`principal`, `snapshot`, `rules`) is
something the registry has said since the head came (`lately`); `RightsOK` that
the verdict drawn from them gives what `RightsCurrent` asks for. `ForEntitles`
is the step between the two: a grant that `_zone_permissions` counts for a zone names
it, and no suspended scope does, in the terms of the documents (`Names`).

*Browser.* `QuestionsOK` says that the open dialog and the queue are about
different tasks, each of which waits for its answer, and that the dialog that is
open does not hold an earlier "replace"; without that last part an Escape would be
taken for consent. `ConsentOK` extends `ReplaceAsked` to all points at which a task
goes on with the permission to replace. `AgesOK` says that the list of the current
generation is as new as what the page shows and as the lists that wait for
the tokens.

Only model-checked: every safety property of a passing run is proved, so what is
left is liveness under fairness (`JournalRetired`, `ShutdownCompletes`,
`OperationsEnd`, `CloseEnds`, `AllAnswered`, `RequestsEnd`, `Converges`), which
is out of the prover's reach, as is anything about ENABLED; and what a recursion
over data computes (the walk of `ZoneCollections`, compared with what can be
reached on the trees of `MCZoneOperations`).

## 5. Abstractions

*Directory and transactions.* External writers act on public names only. Looking
at a private name and unlinking it is one step, as nobody else changes private
names; looking at the public pair and unlinking a private copy is two. Files of
the journal are written whole or not at all: one that a death leaves
half-written, like any that cannot be read, is one the code passes over, which
`Overlook`, `InstalledUnread`, `RecoverUnread` and `Shows` do for files that are
there. A mutation is not let in beside a journal that cannot be read: the code
passes over such a marker there too (`_active_transaction_names`), but a second
mutation in the directory is not modelled. A reader that can read no file of a
journal takes the mutation for finished (`list()`; `acquire_reads()` refuses):
`OutcomeVisible` speaks of those who can read at least one, and `ZoneContents`
models what the others do (`Lists`, `blind`). The order in which entries reach
the disk after a power failure is not modelled (a death keeps what was done),
nor the link-and-unlink replacement for `renameat2`, nor entries that are not
regular files. A second quarantine rename inside `_unlink_expected` and the
safety link of `_close_recovery_handles` are part of the step they belong to.
`FailCall` lets any system call of a step fail, `FailTwice` a write and its
undoing. Not modelled: journals of older versions.

*Admission.* A pool without a limit behaves as one with a slot for every
connection. A handler that raises while `start()` waits for the new thread leaves
it running or not yet started (`HandlerRaises`). One signal per behaviour: a second
one interrupts the first handler at worst, and meets the same lock.

*Login.* Limits that are `None` behave as limits never reached. `retry_after`,
`register_failure` and `register_success` are not called by the program. The
session store without a password file behaves as if the file never changed.

*Zone operations.* The two `flock`s of a directory are one lock; two paths of one
directory are excluded by the second of them, and are two directories here. The
start of a command opens every zone one after the other and holds one lock at a
time; it is left out. The lock of a device is only taken inside, one at a time,
and nothing is waited for under it. The cooldown of background scans makes them
rarer; they may start at any time here. `upload` stands for every exclusive
operation of one zone other than a batch deletion. An operation on a directory
that has vanished fails when it opens it (`TakeFlock`). A scan that fails leaves
the tables alone.

*Zone collections.* Names are numbers; `ZoneId` and `Place` stand for the
lower-casing and joining of path parts and for the order of strings. The path
itself is compared without `normcase`, which changes nothing on POSIX.

*Zone contents.* The locks of the zones of a request are taken in one step, as
`ZoneOperations` shows they may be regarded. Contents are compared by digest,
sizes are one item each. Times are those of the sidecars, and ties are broken by
name. A death inside a change of an item is a failed change with a death after
it. Staging files count as used space, but are written unchecked, so that they
may use the reserve; items may not, nor may an item of one zone use less than that
zone's own reserve, while it may use that of another zone with a larger one. A
sidecar that registration cannot read is replaced and its comment lost, as in the
code; external processes rewrite only files that are no items. A mutation of an
item reads the marker of its name (as above). Archives and previews change nothing.

*Requests.* One connection; other connections only fill the slots of archives.
A tick lets timers, tokens and streams age by the same unit; within it anything
may happen in any order. A body is read whole or refused. A socket that a timer
has shut down can still be read, as its buffer can. Administration is a step of
its own: its own request is one of `Login` and `Requests` like any other.

*Browser.* One zone and one name: others do not interact except by the lists
that carry all zones. A request's effect and its answer are one step on the
server, but the answer may be lost. Rename, selection and drag and drop change
nothing the properties speak of.

### Not modelled

Windows (`platformfs/windows.py`): the same contract over another API.
`config.py`: read once and validated. `images.py`, `content.py`, `multipart.py`:
pure byte-level parsers. `mcp.py`, `contrib/`: one request per call, without
state. `support/`, `site/`: build time. Of `cli.py` and `webapp.py`, arguments,
routing, headers, rendering and output. Of `storage.py`, the parsing of
sidecars and markers, and permissions.

## 6. Plan

Done: all modules of section 2; the proofs of section 4.

Next, in the order of importance:

1. Several items in one directory: recovery at start handles all journals of a
   zone, and the model has one item. The proofs would carry over item by item once
   the names are indexed.
2. The order in which entries reach the disk, for a loss of power.
3. The journals of older versions, which `reconcile` still understands.
