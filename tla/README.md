# Verification of the LV_EpdReder firmware

TLA+ specifications of the control logic of an e-paper reader (SF32LB57, RT-Thread,
LVGL), with model checking by TLC and proofs checked by TLAPS. Everything here is read
from the C sources; paths below are relative to `src/`, the root of the repository.

    cd tla
    tlc -workers 2 -config MCSdCard.cfg MCSdCard     # or any other pair of the table of runs
    tlapm SdCardProofs.tla                           # and AppServiceProofs, PlatformProofs,
                                                     # AppInstallerProofs, DocumentCacheProofs,
                                                     # WordsProofs, NetworkProofs, PartsProofs

Contents: [the system](#1-the-system), [the modules](#2-the-modules),
[the runs](#3-the-runs), [what is assumed](#4-assumptions-and-abstractions),
[fairness](#5-fairness), [the proofs](#6-the-proofs),
[divergences found](#7-where-the-code-and-its-comments-disagree),
[what is not modelled](#8-what-is-not-modelled), [the plan](#9-plan).

## 1. The system

The firmware loads reader applications as dynamic modules, from flash or from an SD card
that may be pulled at any time. It has one UI thread (LVGL, `src/src/main.c`), one worker
thread per background service, a worker for the card, one for the installer, the TCP/IP and
Bluetooth threads, shell threads, and interrupt handlers. They share state under short
interrupt guards, mutexes and the storage lock, and talk through events, semaphores and
mailboxes.

| Component (sources) | State it keeps | Operations | Talks to | Modelled by |
|---|---|---|---|---|
| SD card service (`components/sdcard`) | pin edges and removals, grant and session, worker state, release request, fault | pin interrupt, worker pass (sample, probe, mount, retire), `sdcard_release_complete`, `sdcard_start` | SDK mmcsd host, dfs, platform (events, snapshot) | `SdCard`, `CardLease` |
| Storage volumes (`src/src/services/storage.c`) | sessions per volume, permission to run applications | availability, sessions, lock | card service, everybody | in its users |
| File replacement (`src/src/services/storage_file.c`) | `.tmp`/`.old` files | write, commit, recover | file system | `StorageFile`, `DurableFile` |
| Background services (`src/src/services/app_service.c`) | list of services: stop and done marks, callers, events, summaries | start, stop, worker wrapper, wait, command, UI step, `app_service_process` | module loader, network, board, shell | `AppService`, `Platform` |
| Module loader (`src/src/ui/platform/app_module.c`) | loaded modules, references, session of each | open, retain, close | catalogue, services | `AppService`, `Platform` |
| Application catalogue (`src/src/ui/platform/app_catalog.c`) | discovered applications, revision | scan, start of background services, release of a storage | installer, launcher | `Platform` |
| Application installer (`src/src/ui/platform/app_installer.c`) | job, result, readiness of each volume; on the medium: journal, staging, backup, removed directory, data directories | start, process, thread, recovery, data migration | UI, catalogue, storage, services | `AppInstaller`, `AppStore`, `DataMigration`, `Platform` |
| Package format (`app_package.c`, `app_content.c`, `app_library.c`, `app_image.c`) | none | parse, verify | installer | - |
| Launcher and navigation (`src/src/ui/launcher.c`) | page stack, revisions seen, release under way | switch pages, storage process | card service, catalogue, services | `Platform` (storage process) |
| Card application prompt (`app_card.c`) | what the user answered for this session | ask, enable | storage, launcher, keys | `Platform`, `EpdInput` |
| Key input (`src/src/ui/platform/epd_input.c`) | bounded key queue, dispatch barrier | push from the ADC callback, read by LVGL in batches | launcher | `EpdInput` |
| Bluetooth PAN (`src/src/services/net/bt_pan.c`) | switch, stack and link state, retry timers | thread over a mailbox of four | network | `BtPan` |
| Network selection (`src/src/services/net/network.c`) | chosen interface, epochs, generation, subscribers | sample on the TCP/IP thread, publish | services | `Network` |
| Network time (`src/src/services/net/network_time.c`) | attempt bound to a generation | resolve, request, apply | network | `NetworkTime` |
| Words (`modules/words`) | queue of jobs, serials, learning records in files, counts of the day | worker loop, flush, rate, mark, choose | pages, storage | `Words` |
| Gallery (`modules/gallery`) | request and result by serial, reference counts | worker loop, pages | pages, storage | `Gallery` |
| Weather (`modules/weather`) | configuration, weather, requests, retry | worker loop, fetch, save | network, HTTP, storage | `Weather` |
| Books (`modules/books`) | documents, page index, cache of converted documents | open, convert, keep, reclaim, paginate | storage, UI | `DocumentCache` |
| Board page (`modules/board`) | summaries shown, revision seen | refresh | services | `AppService` |
| Start-up (`src/src/main.c`) | - | order of recovery, services, UI | installer | `AppInstaller` |
| WeRead (`modules/weread`), HTTP client (`modules/common/http`), reader view, recovery mode, framework glue, shell, settings, fonts, board drivers, hang diagnosis | small, or data | | the above | - |

**Behaviours that are hard here**, and what must hold:

* *The card may leave at any instant.* A session must speak only of the card in the slot;
  a card is unmounted only from users who let go of it; nobody waits for a wake-up that was
  lost; a failed card is isolated.
* *Code is unloaded while threads may be in it.* A service is freed and its module unloaded
  only when the worker, the UI step and all shell commands are out; a stop always completes.
* *The power may fail, or an operation may fail, at any point of a transaction.* The
  installer must find a way on from whatever is left on the medium, keep the old version
  until the new one is in place, and never touch a running application; a data directory
  that moves to another volume must not be lost; two files replaced one after the other
  must still fit; a mark that says "complete" must stand beside a complete text.
* *Results arrive late.* Serials, generations, sessions and epochs must tell them apart; a
  change that comes while it is being read must be read again.
* *Queues and mailboxes are bounded*, and an event several waits share may be swallowed by
  the wrong one.

`PROJECT.json` lists every hazard at the line where it bites, and the properties that would
catch it.

## 2. The modules

| Module | What it is |
|---|---|
| `CardLease` | abstract: what the card service promises its users |
| `SdCard` | the card service, its SDK host, slot and file users; implements `CardLease` |
| `SdCardProofs` | its inductive invariants, action properties and the refinement |
| `AppService` | background services with the references of the module loader, and the board page |
| `AppServiceProofs` | its inductive invariant: who is inside a service, and who keeps its code loaded |
| `Platform` | composition: the UI thread's pass over the card's lease (an instance of `CardLease`), the prompt, the catalogue, services and the installer's threads |
| `PlatformProofs` | that an answered release leaves nothing that could use a volume |
| `AppStore` | abstract: what the installer promises |
| `AppInstaller` | the installer's job, thread, journal and recovery; implements `AppStore` |
| `AppInstallerProofs` | its inductive invariant, and that it implements `AppStore` |
| `DataMigration` | the data directory of an application that changes its volume |
| `DurableFile` | abstract: a file replaced at one point or not at all |
| `StorageFile` | the replacement of a file, step by step |
| `DocumentCache` | the cache of converted books over two instances of `StorageFile`; the mark's file implements `DurableFile` |
| `DocumentCacheProofs` | its inductive invariant, and that the mark's file implements `DurableFile` |
| `Words` | the vocabulary application |
| `WordsProofs` | its inductive invariant: index and counts, files that read back whole, the pending card, the tokens |
| `Network` | interface selection, generation and subscribers |
| `NetworkTime` | composition: the time worker as a subscriber of `Network` |
| `NetworkProofs` | `Network`'s invariants, and that the composition keeps them |
| `Gallery`, `Weather`, `BtPan`, `EpdInput` | the pictures' and the weather's services, the Bluetooth switch, the keys |
| `PartsProofs` | the invariants of these four and of `DataMigration`, proved of the module that runs them |
| `MC*` | constants (and symmetry) for TLC; `MCParts` runs five modules that share nothing |

Definitions keep the names of the C functions they stand for (`_pin_irq`, `_reconcile`,
`app_service_process`, `recover_locked`, ...). A definition whose comment begins with
"(seeded fault)" is not part of the model: it is a plausible bug, put in place of the
definition it precedes to confirm that the properties notice it.

Each module has one type invariant `TypeOK`. Where a module has proofs it is proved there,
with the invariants of section 6; in the run it is a conjunct of the first property (`NoUseAfterFree`,
`RecoveryNeverStuck`, `NeverReplacedUnderReader`, `MemoryIsTruth`, `AnswerMeansEmpty`,
`ReferencesAreHolders`, `NeverMixed`, `NothingForgotten`, `KeysInOrder`).

### SdCard

One action is a stretch of the worker between two points at which the interrupt handler,
the SDK detector or another thread can be noticed. `pc` is the worker's control point;
`sem`, `clear` are the wait and the clearing of `wake_pending` (499-511), `sample` ...
`compare` the debouncing (`_sample`, 156-190), `status` ... `publish` the rest of `_reconcile`
(348-497), `retire` ... `removed` the function `_retire` (258-346).

| Variables | Code |
|---|---|
| `edges removals invalidated available session wakePending` | the fields of `s_card` the handler writes too |
| `event`, `released` | the two semaphores |
| `state overdue lifecycle present mounted releaseId fatal faultRemovals observed bootChecked nextRelease acknowledged` | fields of `s_card`; `overdue` is the error stage RELEASE_WAIT, the only one anything depends on |
| `acking` | `sdcard_release_complete` accepted an answer and has not posted it yet |
| `change op hostCard block` | the SDK's mmcsd host (external) |
| `wEdges first second adopted` | locals of the worker |
| `io files` | the dfs lock and the files open on the card (external) |
| `pin card irq armed moves` | the slot |

`pin` and `card` let the card change under a worker that has looked at the pin already:
the properties compare the published session with what is really in the slot.

`CardLease` is the view of a user: a medium is mounted, granted under a token, withdrawn at
any time, asked back by number, and unmounted only after the answer to that number.

### AppService

One action is one critical section. `ui` is the UI thread's control point in
`app_service_process` (283-324) or in the board's `refresh` (`modules/board/app_main.c:52`);
`uStopping uCallers uDone` is its snapshot of one service. `worker[s]` is the thread's point
in the wrapper `run` (185-211): in the module's code (`run`, `recv`), draining the commands,
unsubscribing, done. `refs page valid` are the references of `app_module.c`, those held by
pages, and whether the session a module was loaded under still holds.

### Platform

The pass of the UI thread (`launcher.c:553-602` and what it calls), against everything that
may move meanwhile. `granted ... last` is the card as `CardLease` describes it; `ui` is where
the pass is, `target page seen todo` its locals while it loads an application; `changed` and
`stale` say which revisions it has yet to notice; `modal prompt_session apps_session` are what
`app_card.c` and `storage.c` keep; `recovery recovering` and `job ...` the two threads of the
installer, cut where they look at what the UI thread writes; `pages service session` say
for each application whether a page shows it, how far its service is, and the session its
code was loaded under. `migrated` is history: the session whose data was last prepared.

### AppInstaller

One action is one operation on the file system, or one step of the UI thread. `disk` is the
medium: the directory of each application, `staging`, `backup`, `removing`, the version each
cache is of, and the last complete record of the journal. A failing operation may leave its
work half done: a torn copy, a tree partly removed, a journal with a torn or - see below - a
complete record. On the card the journal is a sequence: `disk.journal` is its last complete
record and `disk.earlier` what is before it, since a read that fails there passes for the end
of the journal (`sd_transaction_read`, 159-173) and a save then writes over what follows
(183). `transaction` is the record a pass goes by, which need not be the last one. `pc` runs
through the thread of a job (`worker`, 467-562) and `recover_locked`
(204-277), which boot, a job and a card change all call (`caller`). `live` is which version
of an application is loaded. `volume` is where the transaction is, flash or card; the
package comes from the card in both cases.

History: `hampered`, an operation of the current pass failed; `asked`, the jobs asked for and
not carried out; `inDoubt`, a save on the card was reported failed with its record written;
`suspect`, the journal there is was mistaken for a shorter one, and `misread`, the applications
this has happened to.

`AppStore` is the promise: an application is installed in one whole version or not at all, a
change is one of those asked for, a version gives way only to a later one, another build of its
release, or a removal,
and a job reported done was carried out. Of an application that has gone `astray` - one of
`misread` - nothing is promised any more; what happens to it touches no other.

### DataMigration

`migrate_data` (307-353) file by file, by its control point `pc` and target `to`: mark the
copy under way, copy, compare, rename into place, delete the source. `there` is which
volumes hold a data directory, `file` the write each of its files has its content from,
`marked` which directory holds `.migrating`, `copy` the staging directory. The platform
around it (`installed available enabled ready running`) says when a migration may run and
when the application writes. History: `writes`, `alive` number the contents of each file and
tell which were never written over; `remains`, `split`, `turnedBack` how the two directories
came about; `passedOver`, a migration left data where they were and called that in order: the
application is on the other volume too, that volume is not there, or a look-up failed.
`AppInstaller` takes the whole as one step that succeeds or fails.

### StorageFile, DocumentCache

`StorageFile` has no properties of its own: it is the pieces of a replacement (`op.pc`), to
be instantiated. On flash the rename replaces; on the card the file is set aside as `.old`
first. `DocumentCache` instantiates it for the `.meta` and the `.bin` of one converted book.
`doc` has the fields of `document_t` and of its cache that matter, `job` is who holds the
storage lock and how far he is (`document_prepare`, `document_cache_commit`, invalidation,
`touch`), `condemned` (history) whether a finding that the kept text is bad was taken up by the
worker, and has left its mark on the medium.

### Words

`pc` is the worker's point in `words_service.c`, `after` where a save returns to; `queue job
res generation failed_serial completed flush` the service's record, `cfg cache cached_chunk
dirty_chunk dirty_config index daily` the store in memory: one chunk of records, the index
of states, the counts of the day, the configuration with its pending card; `chunks saved_cfg`
are the files. `daily` carries with its counts whether a refused recount left them half made,
and whether the clock was set back since they were whole. A page is one step (it runs with
interrupts off inside the service).

### Network, NetworkTime

`netif route dns` are lwIP's state, by source; `epochs` the counts by which the worker tells
a new lease from the old one; `candidate` its sample, taken on the TCP/IP thread, `state` and
`generation` what is published; `owed` the threads past the lock that have not called
`network_changed` yet, `wakeup` the worker's event; `panReady` what
`btpan_is_network_ready` answers and `heard` (history) what it answered when the worker last
asked or was last notified; `event` and `looking` the subscribers.
`NetworkTime` is the time worker's loop (`timePc connected attempts synced elapsed`) as one
of the subscribers.

### Gallery, Weather, BtPan, EpdInput

`Gallery`: `generation requested pending completed references` are the service's record,
`work` the worker with its job and a result it displaced, `todo` what a page's callback has
still to do, interleaved with the worker. `Weather`: `saved_config` is the configuration the
module takes for saved (`Load` may fail to read it), `task` is the worker's point with its
copy of configuration and weather (`decide` ... `finish`), `awake` its event, `owed` and
`fresh` history: a fetch is owed; the one under way began after all that asked for it.
`BtPan`: pages, stack callback, timer thread and worker share one record without a lock;
`mailbox` between them. `EpdInput`: `key_queue` the ring, `at`, `batch` the UI thread
between read, dispatch and release, `shown` the page or the prompt above it, `presses`
history: what was accepted and not yet handled, with the surface it was meant for.

## 3. The runs

| Run | Module, cfg | Shows | Distinct states |
|---|---|---|---|
| `sdcard` | MCSdCard | `SessionIsOfInsertedCard`, `ProtocolInv`, `CleanUnmount`, `RequestMeansIntent`, implements `CardLease`; `Settles`: with the slot left alone the service comes to rest on what the slot holds | 704k |
| `appservice` | MCAppService | `NoUseAfterFree`, `CodeStaysLoaded`, `UiCleanupAlone`, `SummaryIsCurrent`; `StopCompletes`: a stop is carried out, and the loss of the card stops a service of the card | 462k |
| `appinstaller` | MCAppInstaller | `RecoveryNeverStuck`, `ReadyMeansSettled`, `CacheIsOwn`, `NoLiveModuleUnlessInDoubt`, implements `AppStore` | 2.90M |
| `documentcache` | MCDocumentCache | `CompleteMeansKept`, `NeverReplacedUnderReader`, `NoReuseOfCondemned`, `MetaKeepsPromise` (the mark's file implements `DurableFile`) | 4.95M |
| `words` | MCWords | `MemoryIsTruth`, `SavedPendingExists`, `SavesWhole`, `RatedOnce` | 4.65M |
| `network` | MCNetwork | `QuietMeansCurrent`, `NoMissedChange`; `TimeSettles`: a device that stays online asks for the time until it is settled | 1.73M |
| `platform` | MCPlatform | `AnswerMeansEmpty`; `NobodyWaitsForEver`, `ServicesReturn` | 558k |
| `parts` | MCParts | `NothingLost`, `SeesItsData` (data); `ReferencesAreHolders`, `EveryRequestIsAnswered` (pictures); `NeverMixed`, `SyncFollows` and again `EveryRequestIsAnswered` (weather); `NothingForgotten` (Bluetooth); `KeysInOrder`, `KeysMeetTheirSurface`, `FocusAsPressed` (keys) | 804k |
| `appinstaller_in_doubt` | MCAppInstaller, MCAppInstallerInDoubt.cfg | violates `NoLiveModule`, see section 7 | |
| `documentcache_flash` | MCDocumentCache, MCDocumentCacheFlash.cfg | violates `CompleteMeansKept`, see section 7 | |
| `words_flush` | MCWords, MCWordsFlush.cfg | violates `FlushCovers`, see section 7 | |
| `platform_gate` | MCPlatform, MCPlatformGate.cfg | violates `GateHolds`, see section 7 | |

Safety and liveness of a module are checked by one run. `parts` holds five modules that share
no variable and no code: one of them, `part`, is chosen at the start and takes all steps, so
their states add up (data 200k, pictures 46k, weather 458k, Bluetooth 55k, keys 46k) and
every property is checked as it would be alone.

Bounds, and why they are enough:

* **`sdcard`**: the pin changes four times. The card can be withdrawn, replaced and
  withdrawn again within one pass of the worker, and bounce can hide a swap from the pin
  level; what the worker remembers is one sample, so a second exchange during one pass adds
  no new comparison. Two cards, one an SDIO combo the service must refuse. `MaxId = 3`
  instead of 2^32-1 makes both counters wrap within the run, which shows that zero is
  skipped. `MaxFiles = 1`: the check is for none or some.
* **`appservice`**: one service and one shell. Services share nothing but the list, the
  revision and the UI thread's loop; the loop visits them one by one with a fresh snapshot,
  and a module belongs to one application. The service of the run has all three executions,
  is on the card and subscribes to the network. `MaxRevision = 5` bounds starts and
  publications: enough to start, publish, stop, free and start again; stopping and freeing
  go beyond it.
* **`appinstaller`**: two applications, two versions, two jobs, one failing operation, one
  outage. A job for one application has to recover what the job of the other left, an update
  has something to replace, and each recovery can be cut short once by a failure and once by
  power or card. At the start (`MCSpec`) only the older version may be installed: the
  later one comes by a job, and an attempt to go back is the second job. Neither the recovery
  nor its callers count anything, so a third interruption starts from the same states on the
  medium. A read of the journal that passes for its end counts as the failing operation; with
  two jobs there are records of both for it to confuse.
* **`documentcache`**: two documents of one book: the one that converts and the one that
  reads or waits. Two states of the pictures (`MaxDep`): a mark of the older one must not
  serve the newer. Two sessions (`MaxSession`): before and after one removal or restart.
  `Card` is TRUE in this run, FALSE in `documentcache_flash`.
* **`words`**: three words, two to a file, so that one file is full and one is not, and a
  save of one may leave the other behind, and two of them with a record from an earlier day
  (`Kept`), so that a recount can be refused after it has counted something; a queue of one, which
  is full while its job waits;
  two days, between which the clock may be set back as one of the faults; four requests or
  cancellations (rate, undo by leaving, rate
  another, flush); two faults, so that a retry after a failure may fail too.
* **`network`**: three changes of interfaces or settings (gone, back, and other servers
  between a sample and its publication, the PAN ready or not with or without a notification), two
  attempts, one refused call of the TCP/IP thread.
* **`platform`**: one application on flash with a service, one on the card without (a
  service of the card is covered by `appservice`); one card, mounted once, one job,
  `MaxId = 2`. An instance with two cards in a row, 11M states, was run once and held.
* **`parts`**: data of two files and three writes (four were run once and held); four
  serials, so that a request is cancelled while one is being decoded and another displaced;
  two cities, two tickets, two network changes or half hours, one failure; a mailbox of two,
  two reconnects, three events of the stack and two turns of the switch, so that it is full
  while the switch is turned back; a ring of two entries counting to two, three controls,
  four presses waiting, so that the ring is full, a counter is full, and a batch spans both.

Deadlock is checked in the runs of `Platform`. It is off in the others: their environment is
bounded, and with the bounds used up these systems rest.

## 4. Assumptions and abstractions

*Card.* A different card is only put in when no edge waits for the handler and the worker
has looked at the host since boot: a card is not exchanged faster than an interrupt is
served, nor within the time between the SDK's boot probe and the worker's first pass.
Contact bounce of the same card is allowed everywhere. Counters of edges and removals do not
wrap; ids do. The SDK may finish a request at any time, find the card or not, refuse a
removal, and be late (the poll of `_wait_change` then runs out).

*Services.* A service is named by its id, of which at most one exists (223). If memory or
a thread is not to be had, a start has no effect.

*Files.* Renaming and unlinking are atomic on the medium; what fsync or rename reported
done stays done. On flash a rename replaces, on the card it cannot (`StorageFile`). Words and
Weather use a file by the promise of `DurableFile`: a save answers "done" exactly when it
took effect.

*Installer.* Records of the card's journal are appended and may be torn. A read of it that
fails, in a recovery or before a save, is taken by the code for the end of the journal, after
any number of its records: each is a choice of `Look` and `save_transaction`. A card comes back
only while the installer's thread is idle - mounting needs the storage lock, and the
launcher does not answer the release request while a job runs - and, when it is the volume,
while no application from it runs. The card that comes back holds what was left on it; one
with other contents is another volume. The UI does not run before boot recovery has ended
(`src/src/main.c:92`). A version of the model is one pair of version and build; `Release`
gives the first of the two, and as in the code an installed version may be replaced by a
different build of the same release, in either direction.

*Data migration.* A look-up that fails is taken for an answer where the code does so (315, 371,
374). The renaming of `reader` to `books` (357-362) and applications of resources only are left out.

*Platform.* A job updates an application or fails to remove one: every application stays
installed. Loading a module and starting a thread succeed. The prompt of an application that
is already loaded, which offers only to cancel, is left out. "加载失败" may be shown
although a recovery is only pending, as in the code.

*Books.* The dependencies of a Markdown book change one way only. All conversions of a book
have the same length, so the length kept in the meta tells less in the model than in the code.

*Words.* Which learned card is due and what FSRS makes of a rating are open. There is one
learning range. A record's text in `content.bin` is written before the record and not
followed further. The counts of a day are unsigned in the code; one that would fall below zero,
which takes counts that are half made, is below zero in the model.

*Network.* Whether the PAN is ready the worker knows as of its last sample or the last
notification, and `QuietMeansCurrent` claims no more: `btpan_enable` turns the answer without
a notification, and `btpan_notify_state` sends none if the state is that of the last one
(`PanTurns`; see section 7). A lease is a number, and two leases in a row may have the same
address. A driver
registers its interface before it brings it up; `network_set_dns` and
`network_register_interface` have no other callers in the tree yet. Without servers of its own a
source uses the resolver of lwIP as it was when sampled (`network.c:47-49`). That the retry
interval of the time worker ends is only a step while it waits with attempts left.

*Weather.* A module is unloaded only between two services. The record of the history that
a refresh writes adds nothing to the list of cities.

*Bluetooth.* Which events the stack reports is open, but "stack ready" comes before any other.
It may meet a mailbox that turns of the switch have filled, and is lost then (260).

*Keys.* The ring is kept as the sequence it holds. What a page answers for itself (`ready`,
`move`, `key`), and which of its controls can be focused, is open.

## 5. Fairness

* `SdCard`: weak fairness of the handler, the worker and the detector (interrupts are served,
  threads of a preemptive system run), and of users leaving the I/O lock, closing files and
  answering requests. The last is what the launcher promises, and what `NobodyWaitsForEver`
  of `Platform` shows of it; without it the worker waits for ever, as the code does (280).
* `AppService`: weak fairness of `app_service_process` and the board, which the UI loop calls
  in every round, of each thread's own progress, and of commands returning. A run function
  returns once told to stop, the contract of `epd_service_wait`. Strong fairness for a UI
  step finishing (`CallbackDone`): it is called again and again, and finishes when told to
  often enough.
* `Platform`: weak fairness of the UI thread's steps, of the recovery and job threads, and of
  the end of a service that was told to stop (`StopCompletes` of `AppService`). That a card
  is put in, the user presses anything or a job is asked for is assumed of nobody.
  `ServicesReturn` grants that the user does not press "load" for ever.
* `Network`, `NetworkTime`: weak fairness of the threads that owe a notification, of the
  workers, and of the retry interval.
* `Gallery`: of the UI thread's steps, of the page's poll, of the worker and of
  `app_service_process`. `Weather`: of the worker and the end of the five seconds; not of
  the half hour, so that a fetch that is owed may not wait for it.

No fairness is assumed of the installer, the document cache, the words, the Bluetooth switch
and the keys: what is checked of them is safety.

The subscript of each condition holds the variables that every step of its action changes:
this is `WF_vars`, and quicker to check.

## 6. The proofs

| Theorem | States | Assumes |
|---|---|---|
| `SdCardProofs!TypeCorrect`, `ProtocolHolds`, `HandshakeCorrect` | `Spec => []TypeOK`, `[]ProtocolInv`, `[]ReleaseHandshake` | `MaxId` positive, `NoCard` not a card |
| `SdCardProofs!UnmountsCleanly`, `RequestsMeanIntent`, `FatalIsolated` | `Spec => CleanUnmount`, `RequestMeansIntent`, `FatalIsolation` | the same |
| `SdCardProofs!ImplementsLease` | `Spec => LeaseSpec`, the refinement of `CardLease` | the same |
| `NetworkProofs!TypeCorrect`, `RouteIsCurrent`, `ChangesAreSeen` | `Spec => []TypeOK`, `[]QuietMeansCurrent`, `[]NoMissedChange` | the `ASSUME`s of `Network` |
| `NetworkProofs!TimeIsASubscriber` | `TimeSpec => Spec`, so the three above hold of the composition | those of `NetworkTime` |
| `SdCardProofs!SessionIsCurrent` | `Spec => []SessionIsOfInsertedCard` | the same as the card's others |
| `AppServiceProofs!FreedIsUntouched`, `LoadedWhileInside`, `CleanupIsAlone`, `BoardIsCurrent` | `Spec => []NoUseAfterFree`, `[]CodeStaysLoaded`, `[]UiCleanupAlone`, `[]SummaryIsCurrent` | those of `AppService`, and `CommandsHaveWorkers` |
| `PlatformProofs!AnswerIsEmpty` | `Spec => []AnswerMeansEmpty` | those of `Platform` |
| `AppInstallerProofs!RecoveryEnds`, `OfferedIsSettled`, `CacheBelongs`, `NothingLiveIsMoved` | `Spec => []RecoveryNeverStuck`, `[]ReadyMeansSettled`, `[]CacheIsOwn`, `[]NoLiveModuleUnlessInDoubt` | those of `AppInstaller` |
| `AppInstallerProofs!StoreIsKept` | `Spec => StoreSpec`, the refinement of `AppStore` | the same |
| `PartsProofs!NothingIsLost`, `AllIsSeen`, `MigrationRuns` | `Spec => []NothingLost`, `[]SeesItsData`, for every set of files and any number of writes; `PartsSpec => Spec` | those of `DataMigration` |
| `DocumentCacheProofs!CompleteIsKept`, `ReadersKeepTheirText` | `Spec => []CompleteMeansKept`, `[]NeverReplacedUnderReader` | those of `DocumentCache`, and `Card`: the cache is on the card |
| `DocumentCacheProofs!CondemnedIsNotReused`, `MetaIsDurable` | `Spec => NoReuseOfCondemned`, and the refinement of `DurableFile` by the mark's file | those of `DocumentCache`, card or flash |
| `PartsProofs!BluetoothIsTold`, `PicturesAreCounted`, `WeatherIsOfItsCity` | `PartsSpec => []NothingForgotten`, `[]ReferencesAreHolders`, `[]NeverMixed` | those of the five modules (`PartsAssumption`) |
| `PartsProofs!KeysAreMeant`, `NoPressIsLost`, `FocusIsPressed` | `PartsSpec => []KeysMeetTheirSurface`, `[]KeysInOrder`, `FocusAsPressed` | `PartsAssumption`: sizes of at least one |
| `WordsProofs!MemoryTellsTruth`, `PendingExists`, `SavesAreWhole`, `CardsRatedOnce` | `Spec => []MemoryIsTruth`, `[]SavedPendingExists`, `SavesWhole`, `RatedOnce` | those of `Words` |

*The card.* `ReleaseHandshake` is not inductive: that no second answer is posted depends on
the request being open exactly while the worker retires, and the file system being unmounted
only then depends on what each control point knows of the mount and the host. `ProtocolInv`
gathers this: `StartInv` (nothing has happened before the worker exists), `RequestInv` (a
request is open exactly while the worker retires, or froze doing so), `ReleaseHandshake`
itself, `GrantInv` (who may be mounted, granted, or marked for retirement at each point) and
`HostInv` (the host stands still unless the worker waits for it, and holds a card whenever
one is to be mounted or given back). It is checked by the run `sdcard` and proved preserved
by one lemma per group of actions. The action properties and the refinement follow from it
step by step: `StepGuarantee` is their conjunction for one step, so
each action is taken apart once.
`SessionIsOfInsertedCard` compares what the worker believes with the slot, which the worker
cannot see. `SlotInv` adds that an edge the handler has not served is pending, that one it
has served counts beyond what the worker took (`EdgesHeard`), and that the card object of the
SDK is of the inserted card unless the handler has withdrawn it (`HostIsInserted`).

*The services.* `IInv` counts. `Stages` says which marks of a service may stand at each point of
its worker; `Commands` that `callers` is the number of shells inside, for any finite set of
shells; `References` that a module holds one reference for its page and one for its service;
`Snapshot` that what the UI thread read of a service is old but not stale: the end of the
worker stays, and so does "no callers" once the service is stopping; `Board` the same of the
revision the board read. `Snapshot` needs `CommandsHaveWorkers`: a service on the card with a
command has a run function. The two services of the repository that have commands do
(`modules/books/app_main.c`, `modules/weather/weather.c`), but `app_service_start` does not ask
for it (section 7).

*The platform.* `AnswerMeansEmpty` becomes inductive with three facts. Nothing is granted while a
release is asked for, so no code of the card can be read in (`GrantedInv`, from the lease).
From the answer to the end of the release the UI thread only moves between the prompt and
`launcher_storage_process`, whose mark of the answered request keeps it there (`EmptyInv`); and
without the UI thread nobody starts a service, a job or a recovery.

*The installer.* `RecoveryNeverStuck` holds because of what each phase of the journal allows
on the medium: `Shape` lists the directories by the last complete record, at every point
at which power or the card may leave, and `At` what the thread has made sure of when it is
about to perform an operation. `Lives`, `Settled`, `LetGo` and `Known` bind the medium to what runs and
to what is offered; `Caches` follows the cache through a publication that is cut short. For the
refinement
`Owed` says that what lies ready to be published or removed was asked for and is later than
what it replaces, and what was carried out is no longer owed; `AskedFor` and `FinalPass`
that a pass begun for a job ends with that job, so that "done" is only reported of one carried
out. An operation that
fails half way is one of a few changes of the medium; each is shown once to keep the
part of the invariant about the medium (`DiskInv`), and the control (`PcInv`) follows for the operation
that succeeds, fails or is cut off. The steps of `AppStore` are a publication, a removal,
and a job's end; every other step is shown to leave its variables alone. All this (`Strict`)
is of a journal that was read as it is. From the first read of it that passed for a shorter one
until the journal is deleted (`suspect`) the invariant is the weaker `Mixed`, which gives up what
the one application of the transaction is owed and keeps the rest: no directory in place is torn,
every other application is on its own cache, and the volume is not offered. `IInv` is the
disjunction; a mistaken read leads from the first to the second, and the deletion of the
journal back.

*The network.* `QuietMeansCurrent` speaks of the worker asleep with no wake-up to come. It
holds because two samples with the same interface and epoch are the same sample. `RouteInv`
states this for the published route and the candidate (`SameRoute ... => lease = lease`),
that a route names the lease its epoch stood for as long as that epoch lasts (`Names`), that
an interface being taken down leaves a wake-up behind, and that what is published or slept on,
when quiet, is
current. `Disturbs` is what any change from outside does to the invariant: it counts every
epoch it touches and leaves a wake-up to come; the changes are shown to do this once each,
and the invariant to survive it once.

*The data.* These proofs are in `PartsProofs`, where `MigrationRuns` carries them over to what TLC
runs. `NothingLost` is not inductive. `MigrationInv` adds the types the argument needs
(`Shape`), that a directory which is not there holds no file (`NoGhosts`), that past its
first check a migration has the application to itself (`Alone`), that the target is free
until the copy is renamed into place (`FreeTarget`), and that a file is deleted at the
source only while the target has the same (`Covered`).

For `SeesItsData`, `WholeInv` adds the order in which the platform enables, installs and
runs (`Order`), and where all the data are at every point of a migration and in every volume
whose applications are offered (`Places`). The three cases the property excepts are history
variables that only rise: data on both volumes (`split`), data left on the other volume with
"in order", a failed look-up included (`passedOver`), and a return to remains (`turnedBack`);
section 7 says what the last two look like.

*The cache of books.* A reader of a file recovers it first, so the proof speaks of the mark and
the text he would get (`Mark`, `Text`). A replacement changes that at one point (`MetaMoves`,
`BinMoves`, one lemma for each of the two instances of `StorageFile`), from its published copy on
(`FilesInv`). `LockInv` ties the replacement to the holder of the storage lock and says that
nobody else has the book open while a text is being kept; `OrderInv` what the holder has written
by then: "incomplete" before the text, the text before "complete", a sweep's `.old` before the
mark and the mark before the text. `KeptInv` is then the claim together with what it needs of
the documents: a finished text that is not kept has no mark when its document is disposed of,
and one that is kept has its own. Only this part needs the cache on the card; on flash it is
false (`documentcache_flash`). `CondemnedInv` says that the mark of a text found bad is gone, or
being removed, or nothing is offered any more, from the moment the worker takes the finding up;
before that `document_cache_lookup` may still hit, which the property leaves open and says so. The
refinement maps a replacement to a save, its
publication to the point where it takes effect, and the deletion in a sweep to `Erase`. The
invariant was first checked by TLC on the constants of both runs.

*The parts.* `MCParts` chooses one of five modules and runs it, so the pictures, the
weather, the switch and the keys are proved of that specification, where the steps of the others
leave its variables alone.
`NothingForgotten` needs only the types of its mailbox. `ReferencesAreHolders` needs to know
which serial each holder has: `PicturesInv` says that no serial is later than the
generation, that a result is in one place besides the worker's hands (`OnePlace`), that one
asked for has no result yet (`NoneYet`), which is where cancels, pages and results overlap,
and that what the worker displaced it gives back (`WorkerLives`). `NeverMixed` follows from
`OneCity`: what the worker writes and publishes is of one city, and what it publishes it has
written before. A start that could not read the configuration knows of none
(`saved_config`), and the claim about the file waits until one is saved.

*The words.* `WordsInv` first says that the files can always be read back: they hold the first
slots, each in its place and no word twice, and the pending card of the saved configuration is
among them (`FilesWhole`, from which `SavedPendingExists` follows). The file in memory is at
least what it is on the medium, with the same words, and the same if nothing is unsaved
(`InMemory`); with that, what a save writes is what a start reads (`SavesWhole`). `Truth` and
`Counted` are the claim about index and counts: `put_record` changes a count by a difference,
and the lemmas on sums show that the count of the day, a cardinality, changes by just that. A
recount that is refused leaves counts that are half made, under the day they had: until they
are made again `DayKnown` says that no job is past the look at the day, or that the clock has
been set back since. Then
come the facts that let a job be carried out long after it was queued: every slot named
anywhere has a record (`WithinIndex`), nothing is unsaved when a job begins (`Clean`), a token
that was used up is not the current one again (`Spent`, which gives `RatedOnce`). A new word
finds room because no word has two records and all come from the range. TLC checked the
invariant on the constants of the run before it was proved.

*The keys.* `KeysInv` gives `KeysMeetTheirSurface`: what waits was pressed for the surface shown,
but for the moment in which the prompt is up and the keys are not cleared yet
(`MeantForShown`), and a queued page change finds the barrier up (`BarrierUp`). `OrderInv` gives
`KeysInOrder`: the entries stand for the presses, counted as a cardinality (`Presses`), so that
one lemma each for a press more, an entry more and entries that go carries the order through
every step. For `FocusAsPressed` the controls that can be focused are numbered by their
places: one press goes to the next place around the end, an entry of many presses
moves by their remainder, and a batch by one entry after the other. `landing` and `walked` are
recursive functions, unfolded by one lemma (`ByRecursion`); what holds along them is shown by the
least number for which it would fail (`LeastElement`), since the induction theorems of the
library cannot be used.

Every invariant, action property and refinement that a passing run checks is stated by a
theorem. Only model-checked are the liveness properties, since neither fairness nor ENABLED is
within the prover's reach: `Settles`, `StopCompletes`, `TimeSettles`, `NobodyWaitsForEver`,
`ServicesReturn`, `EveryRequestIsAnswered` and `SyncFollows`.

## 7. Where the code and its comments disagree

Four runs are expected to fail; `PROJECT.json` has each in detail, under "findings".

* `appinstaller_in_doubt`: `app_installer.c:202` asks for no live module of the transaction.
  When fsync or close fails after the record of a removal reached the card (187-189), the job is
  reported failed, the application may run again, and the recovery of the next job removes
  it while it runs. `NoLiveModuleUnlessInDoubt` in the run `appinstaller` shows that this is
  the only way.
* `documentcache_flash`: a finished conversion is to be kept (`modules/books/README.md:90`).
  With the application on flash and the book on the card, a card that leaves between the
  saving of the complete mark and the look at the session (`document_cache.c:431`) makes the
  document take the kept text for its own temporary file and delete it when it is freed
  (`document.c:758-761`), also under another document that reads it by then. With the cache
  on the card the session guards the deletion as well.
* `words_flush`: a normal exit saves what is pending (`modules/words/README.md:58`). The worker
  saves with an empty queue (`words_service.c:463`) and answers a flush afterwards (464): a
  rating submitted in between is answered as saved, and dropped when the service stops (491).
* `platform_gate`: after "load" no application of the card is to run before its data was
  migrated (`app_card.c:26`). The recovery that the insertion started may already be past its
  look at the enabled session (`app_installer.c:363`) when the user answers; it skips the
  migration and opens the gate of the same session (405).

Met while modelling, below the level of a run:

* `app_service.c:301` says that UI cleanup cannot race a command. The loop reads `callers`
  (291) before it looks at the session (294). A worker holds the cleanup back, so it takes a
  service with `ui_process` and `command` but no `run`; no application of the repository is
  one, and `UiCleanupAlone` is checked for a service with a worker and proved for services
  whose commands come with a worker (`CommandsHaveWorkers`).
* `app_installer.c:156-157` says that the preceding complete phase remains recoverable, and 217
  that without a complete first phase nothing can have begun. A failed open or read of the
  card's journal passes for its end (159-173): the recovery then clears the staging area or
  goes by an older phase, deletes the journal and returns true (216-219, 272), so that a
  removal may be reported done with the application still there, or a new version run on the
  cache of the old one; and a save writes over the records it did not read (183), which can
  leave a journal no later recovery can carry through. `RecoveryNeverStuck`, `CacheIsOwn` and
  `AppStore` except the application this happened to, and hold of all others;
  `ReadyMeansSettled` and `NoLiveModuleUnlessInDoubt` hold without exception.
* `words_store.c:262` clears the counts of the day before it reads the files, and a refused read
  leaves them half made under the day they were for (`words_service.c:116-126`). The next job
  counts again, unless the clock has gone back to that very day by then: the half made counts
  are shown and changed by differences.
* `app_installer.c:315`: a look-up that fails counts as an application that is on the other
  volume too, so the migration is passed over and the application starts without its data,
  which stay where they are (`passedOver`).
* `weather_store.c:32-34`, `weather.c:445-453`: a start that cannot read the configuration goes on
  as if none had been imported, and an import then replaces one that was whole.
* `bt_pan.c:260`: "stack ready" is posted without a look at the result. Turns of the switch
  that filled the mailbox before the worker ran would leave the stack "initializing" for good.
* `bt_pan.c:97-106`, `601`: the switch turned off and on, with the state back at `last_state` when
  the worker looks, changes what the network would find twice and notifies nobody; a sample taken
  in between stays until something else wakes the network's worker.
* A document's finding that its text is bad (`document.c:879-888`) is known to nobody else until
  the worker takes it up; a second open of the book in between hits the bad text, and finds it
  bad in turn. If the mark that condemns it cannot be written, the finding ends with the power.
* `SeesItsData` excludes `turnedBack`: if power fails while the source on flash is partly
  deleted and the user then uninstalls from the card and installs on flash again, the
  remains carry no mark and count as the application's own data. Nothing is lost, but the
  application starts on a part of its data. And an application that created its data
  directory on the new volume first is never migrated (`app_installer.c:321`).
* A copy of an application on the card takes over without migration when the one on flash is
  removed.
* `tmp-*.bin` files left by a power failure are never removed (`document.c:427`, `461`).
* After a power failure between the saving of the records and that of `config.dat` a word
  already rated is still the pending one and is shown again (`words_store.c:57-75`).
* `bt_pan.c:97-106`: two threads that notify at once may leave the older state in
  `last_state`. A callback that looked at `enabled` before the switch was turned off may set
  the connection marks after the worker has applied "off" (338-352, 364-378 against 445-469),
  and the scan may be opened again (285-287).
* A gallery page whose submit is refused (the service is being stopped) shows "正在读取" until
  it is closed.
* A confirmation pressed while the prompt shows "正在加载" may reach the buttons that come back
  after a failed load (`app_card.c:68-74` does not clear the keys).
* A weather command of the shell may overwrite the result a page has not polled yet, so that
  the page reports a success as a failure (`weather_view.c:188-191`).

## 8. What is not modelled

Within the modelled components: the revision counter, error numbers and delays of the card
service; the UI deadlines as wrapping ticks (`app_service.c:136`), flush (333-342) and the
thread that fails to start after its service was listed; the lookup of modules by name and
the links of the list of services, which the installer's thread walks without a lock
(`app_installer.c:323`); navigation between pages, and page changes that a touch or a timer queues
while keys wait; the
pointer to its worker that `gallery_start` fills in after the thread may already run; the document
worker's shutdown, a document
without a cache, converters, index files and paging; the words' quota setting, old
configuration format and dictionary search; the decoding and cache of pictures; weather
parsing, history and pages; `storage_info`, imports and signatures of `storage_file.c`.

Left out for good: package parsing, layout, pagination, glyph caches and the review
scheduling of `words/core` (data, not control; parsers have their own tests); board drivers
and panel timing; hang diagnosis; the framework glue, whose life cycle is the SDK's; vendored
libraries (miniz, the JSON parser), the SDK, LVGL and the host tools. They are most of the
lines of the tree.

Not modelled yet: the WeRead client and the HTTP client it shares with Weather (requests,
cancellation, time-outs, reuse of a connection), the recovery mode's boot record, and the
reader pages over the document cache.

## 9. Plan

Done: the card with its lease and proofs; services; the installer and its store; file
replacement and the document cache; the platform; data migration with its proof; words;
network and time with proofs; gallery, weather, Bluetooth, keys; the proofs of section 6.

1. Theorems: the safety a liveness property rests on, stated as invariants (who owes whom a
   wake-up, in `Platform`, `AppService` and the parts); the refinements still to be found, of
   `Platform` by the services and the installer it abstracts. Models that are proved about use
   no recursive operator.
2. `WeRead` and `Http`: cancellation against a late answer, and the connection kept for the
   next request.
3. `Recovery`: the boot record against power failures during start-up.
4. The document worker's shutdown, and the reader page as a user of `DocumentCache`.
