# git-span in TLA+

git-span records *spans*: named sets of anchors (`path#Lx-Ly` with a content
hash) that say which places of a repository belong together. A span is one file
below `.span/`. Commands report anchors that drifted, re-anchor text that only
moved, and edit span files; a resident service answers context queries for
editor and agent hooks.

This directory models the parts of git-span that are hard to get right. In the
CLI and its service (`packages/git-span`, Rust) several processes share the span
files, a repair rewrites several of them, and any process may die between two
system calls. In the agent hooks (`packages/agent-hooks`, TypeScript)
short-lived processes share a store of commit receipts. In the VS Code extension
(`packages/extension`, TypeScript) render passes, child processes, watchers and a
web page overlap on one thread.

## 1. Inventory

| Component | State | Operations | Interacts by | Hard because |
|---|---|---|---|---|
| Recovery domain (`cli/recovery_domain.rs`) | flock on `<git-dir>/span/recovery-domain.lock` | `acquire`, `acquire_reader`, `acquire_writer` | every command takes it | hand-over from shared to exclusive and back, bounded waits, death of a holder |
| Context repair (`cli/context_repair.rs`) | span files, temporaries, `recovery.pending`, one journal per operation ID | `execute`, `recover_pending_locked`, `acknowledge`, expiry | files; entered from the CLI, the service, and from every reader and writer that finds the marker | crashes between any two writes, retries with the same ID, third-party edits |
| Context query (`cli/context.rs`) | none of its own; a deadline thread | `run_context` | service RPC, else a reader in the domain | the answer is lost after the mutation is done |
| Context service (`cli/context_service.rs`) | cached generation, epoch, dirty flag, inotify watches; `service.sock`, `service.lock`, `supervisor.lock`, `instance.nonce` | query, repair, health, shutdown, election | socket RPC; inotify; the recovery domain and then its mutex | stale caches, lost events, racing starts |
| Receipt lock (`cli/receipt_lock.rs`) | flocks held by a helper process | lock, nested lock, release at end of input | agent hooks hold it through a pipe | nesting order, death of a holder |
| Receipt store (`agent-hooks/src/common/commit-*.ts`) | one directory per shell invocation: enrollment, state, observations, receipts; claim files | enroll with eviction, terminal hook, drain, clean-up | receipt lock; `git-span notes`; files shared by the hooks of a session | killed hooks, lost answers, unlocked snapshots, two claims nested |
| Pending and commit context | captured comparison | read, compute, read again | git objects, service | change between the two reads |
| Span editing (`cli/commit.rs`, `config.rs`, `span/structural.rs`) | span files | add, remove, replace, why, config, delete, move | writers in the domain | read-modify-write of one file |
| `drift --fix` (`cli/drift_fix.rs`) | span files | re-anchor | writer in the domain | residue entries, duplicate identities |
| Conflict settlement (`cli/resolve.rs`, `merge_driver.rs`, `git-span-core/span_file.rs`) | one span file | three-way merge, resolve | git merge | order independence, no lost anchor |
| Resolver (`resolver/engine`, `layers`, `session`) | in-process memo | resolve an anchor in HEAD, index and work tree | git objects, filters | overlays, renames |
| Resolution store (`resolver/store`, `exact`, `incremental`, `dirty`) | SQLite, `publish` and `maintenance` locks | lookup, publish, prune | shared by processes | capture, publish and revalidate |
| Notes, update check | append-only files, SQLite stamps | append, daily claim | file locks | racing first runs |
| Other agent hooks (TypeScript) | memo of surfaced spans per session | observe tools, surface spans | spawn the CLI | lost updates of the memo |
| Span viewer (`extension/src/spanViewer`) | render session: generation, live passes, timer, watchers, last document; the page | open, start, run a pass, schedule, dispose; ready and reload from the page | spawns the CLI, reads files, posts to a webview | overlapping passes, edits between reads, a page that is replaced |
| CLI calls of the extension (`extension/src/utils/gitSpanBinary.ts`) | promise, timers, capped buffers | run, abort, escalate, give up | child processes and their pipes | a child that ignores signals, descendants that hold the pipes |
| Discovery, website, rendering commands | none | output | — | — |

What makes the first two correct: nobody changes a span file while another
process reads; planned bytes are never live before a durable journal says so;
whatever is prepared is named by the marker; a reader never sees a repair half
done; a committed repair is complete; one operation ID is applied once;
third-party bytes survive; a crash-left marker is settled in the end.

What makes the context service correct: a document it serves is the one a
direct run would compute at that moment, whatever changed, was missed or was
overflowed since it was cached, and never one from the middle of a repair; when
it cannot know, it declines and the client computes the document itself; every
request ends; and no disturbance stops it from serving for good.

What makes the receipt store correct: no two hooks work on one invocation or on
the note of one commit; the claim of a live hook is never taken; hooks never
wait for each other in a circle; a receipt goes only when its commit has its
note or needs none, when its invocation is abandoned for the retention period, or
when an invocation that is still running publishes more than its window holds,
and then the window stays full; a commit gets one note per session; a finished
invocation has nothing left to deliver and never reopens.

What makes the viewer correct: the page shows, once things are quiet, what is on
disk; a preview called clean is the recorded text, or another pass is about to
replace it; only the newest pass spends
time on a child or posts; nothing happens after the tab is closed; the view does
come to rest. What makes a CLI call correct: one answer, in the end, with the
whole output or a flag that it is not whole, and no process, timer or listener
left behind.

## 2. Modules

| Module | Models |
|---|---|
| `RecoveryDomain` | The flock: who holds which mode, what is granted, the conversion. |
| `AtomicRepair` | What a repair is promised to be: one step or none. |
| `ContextRepair` (extends `RecoveryDomain`) | `context --fix`, recovery, and the readers and writers around them; implements `AtomicRepair`. |
| `MCContextRepair` | Small instances for TLC. |
| `ContextRepairProofs` | Theorems about `ContextRepair`, checked by TLAPS: types, locks, marker. |
| `ContextRepairJournalProofs` (extends it) | Theorems about the journal, the files and the readers. |
| `AtomicRepairProofs` (extends it) | The theorem that `ContextRepair` implements `AtomicRepair`. |
| `FreshAnswers` | What a context query is promised: a fresh document or a fallback. |
| `ContextService` (extends `RecoveryDomain`) | The resident service; implements `FreshAnswers`. |
| `MCContextService`, `ContextServiceProofs` | Small instances; theorems. |
| `CommitReceipts` | The receipt store, its hooks, their claims and the lock helpers. |
| `MCCommitReceipts`, `CommitReceiptsProofs` | Small instances; theorems. |
| `OneShotCommand` | What a call of the CLI is promised to be. |
| `GitSpanCommand` | `runGitSpanCommand`; implements `OneShotCommand`. |
| `MCGitSpanCommand`, `GitSpanCommandProofs` | A small instance; theorems. |
| `SpanViewer` | The custom editor, its render session and its page. |
| `MCSpanViewer`, `SpanViewerProofs` | A small instance; theorems. |

### ContextRepair

A process is one CLI invocation or one request of the service. Its label `pc`
follows the functions:

| Labels | Code |
|---|---|
| want, enter, rewant | `acquire`, `acquire_reader`, `acquire_writer`, `pending_recovery` |
| settle, abort | `recover_pending_locked`, `abort_unjournaled_preparation` |
| inspect, back, forward | `recover_prepared`: look at all targets, then roll back or forward |
| verify, commit, clear | `verify_persisted_response`, `persist_journal(Committed)`, `clear_recovery_pending` |
| downgrade, rejoin, read; write | what `acquire_reader` and `acquire_writer` lead to |
| replay, plan, temps, mark, prepare, apply, rename, reply | `execute`, in its order |

Each write to the file system is a step of its own, so a `Crash`, an edit or
another process fits between any two of them. A failing system call makes the
function return its error; the guard is dropped and the files stay as they are,
which is what a crash at that point leaves, so `Crash` stands for both, for the
failing binding checks (`validate_bindings`, `validate_targets`) and for the
4500 ms deadline of a request, which exits the process.

Three abstractions leave executions out. `acknowledge` is one step, although the
code reads the journal and persists it without a lock, so a journal that another
request expires in between cannot come back. `Age` counts the time to live from
delivery, the code from creation, and it takes only journals whose operation
nobody is retrying: an ID is repeated within seconds, not after days. Counted
from creation, TLC finds `WriteAhead` violated, when a late acknowledgement of an
ID that is used once more days later marks the new journal delivered. `EditSpan`
writes bytes never seen before, or removes the file: an edit that restores the
very bytes a repair has replaced (a checkout of one span) is left out.

Data is abstracted to what decides a branch. The bytes of a span are a record:
`edit` tells texts apart, `at` is the version of the source its anchors were
verified against; a span drifted when `at` is behind `src`. `Relocated` says
which drift a source version allows `plan_span` to repair. A response is the
snapshot it is computed from, so `verify_persisted_response` compares snapshots.
`plan_repair` is one step: `revalidate_capture` fails the request when anything
it read changed meanwhile. One span root is modelled; a marker of another span
root is skipped by recovery and refused by `mark_recovery_pending`.

`EditWindow` says whether an unlocked edit may land between the repair's
comparison of live bytes and its write, `AtomicDowngrade` whether flock
converts an exclusive lock in one step. The code assumes the good case of both;
section 3 says which run makes which choice.

`AtomicRepair` has no processes, temporaries, markers, locks or crashes: an
operation is prepared, then committed in one step that replaces all texts it was
planned for, and answered; a command reads files only while nothing is pending.
The mapping takes

- the span files to `Before`, what they would hold had the prepared repair not
  written to them: planned bytes that are live under a prepared journal count as
  the original ones. Renames, rolling back and rolling forward are stutters, and
  `persist_journal(Committed)` is the step in which the repair happens;
- an operation's request to its journal: none, prepared with plan and answer,
  committed, delivered;
- edits by others, counted, to themselves. A step of a repair cannot pass for an
  edit, because an edit counts.

What an operation without entries answers is left open, because `execute` plans
before it settles the marker of another operation, so it may have read a file of
a pending repair (`FindNothing`).

### ContextService

A process is a client together with the service thread that works on its
request. `query_state` visits the state mutex three times, and so does a query
here:

| Labels | Code |
|---|---|
| enter | first visit: `try_lock`, copy the repository's path |
| domain | `acquire_reader` with its deadline |
| hold | second visit: `drain`, then the cached generation or a rebuild |
| rebuild, capture, publish | `rebuild_locked`: drain, capture, drain and publish |
| check | third visit: drain, compare the epoch, answer or try once more |
| repair, exclusive, write, finish, republish, late | `repair_state`: its mutex visits, the transaction, the publish callback, late notifications |

`watcher` is `FailClosedWatcher`: its external roots, the inode each watched
path had when its watch was installed, the coverage flag and what its queue
holds. `Drains` lists the outcomes of `ServiceState::drain`: nothing new, news
that needs no or additional watches, a complete new watch, a fall back to the
base roots, and an error. A queue that overflows and one that takes more than
20 ms to read both lead to the new watch, so that outcome is always allowed.

What a document depends on is four places: `work` (the watched base trees),
`sub` (a directory below them that comes and goes, so its watch has to be
installed late), `ext` (a directory elsewhere that the base trees may link to:
a filter program's, an alternate object database) and `config` (user and system
Git configuration). A capture reads them one at a time while others write.
`new_scoped` is one step; the repair is two writes below the base trees under
the exclusive domain, because `ContextRepair` has the transaction itself,
including one that stops half way. `Restart` ends the service at any moment and
starts another one. `Blind` names the changes that no watch can report.

`FreshAnswers` knows only the document a direct run would compute, whether a
repair is under way, and the replies. The refinement maps its `truth` to what
the four places hold, `repairing` to the label between the repair's two writes,
and keeps `reply`.

### CommitReceipts

A hook is a process with one operation: `enroll` (with the eviction before it),
`terminal` or `cleanup`. The labels follow the code:

| Labels | Code |
|---|---|
| next | the loops of `evictInvocations` and `cleanupCommitInvocations` |
| lock, release | `acquireReceiptClaim` and the claim's `release` |
| body | what an operation reads and decides first under its claim |
| create | the three files of a new invocation, one step each |
| observe | `publishReceipt`, one receipt per step, and the status written after it |
| drain, list, add, ack | `drainDirectory`, one receipt at a time |
| retire | the clean-up's last write |

An invocation's directory is which of its files exist, its status, its receipts,
and whether an interrupted publication left a temporary file (`leftover`). A
receipt is its commit, because its name is determined by it. Notes are the
transcript locators of this session's documents on a commit. Two layers of
exclusion are kept apart: `lock` is the operating system's lock that a helper
process holds, by stripe (`LockName`: the stripes of the two roles are
disjoint), `claim` the owner that the claim file names. `Crash` kills a hook at
any step: its helpers let go, its claim files stay and name a dead process, and
a `notes add` runs on in its own process group (`orphan`). `HelperDies` frees
the lock under a hook that does not notice.

`publishReceipt` is three steps: the receipt's file (`Publish`), the deletion of
those that its list no longer has room for (`DropOldest`), and the list in
state.json (`SaveList`). `nonces` is the list, `receipts` the files; a hook that
is killed between the steps leaves them apart. `ReceiptWindow` stands for the
256 receipts that an invocation keeps; what is dropped may be the only evidence
of a commit that has no note yet. `EvidenceKept` says when that may happen, and
that the window stays full. Which receipts stay is not claimed: after a kill the
list may lack a newer one. The listing of a drain throws when the directory
holds more entries than the window, and so it does for good once temporary files
of killed hooks are among them (`Complete` and `CleanupReads` then leave the
status as it was). The second listing of a drain is taken to work when the first
did.

The clock is not modelled: wherever the code compares it with the deadline of
the phase, both outcomes are possible. Left out: the helper that dies between
the reading of the claim file and its replacement, process IDs that are reused,
and invocations of other sessions. A
directory and its enrollment file appear in one step. A directory that was
renamed for eviction and not deleted yet can end a clean-up, which `CleanupEnds`
allows at any time. A hook that waits for the claim of an invocation that is
evicted and enrolled again gives up in the code; the model lets it go on, which
allows more.

### GitSpanCommand

A step is one callback of the host's event loop or one thing that happens
outside of it. `child` distinguishes a process that is dead from one that the
host has reaped, because `kill` succeeds on the former and `onAbort` arms its
grace timer by it, and from one that failed to start: the `error` event comes
when promise, listener and deadline are in place (`SpawnFails`, `SpawnError`),
and before any timer can fire. stdout and stderr are handled alike and apart, so
one stream is modelled, and bytes are counted. When the child has exited and
descendants still hold its pipes, an abort does nothing and only the deadline
answers, although the comment on the function calls the deadline a backstop; the
model shows that the promise is kept all the same. Descendants are never killed,
and `NothingLeftBehind` is about the child. A kill that fails with EPERM is left
out.

`OneShotCommand` knows the answer and whether the child is alive, doomed or
gone. `GitSpanCommand` maps `killed` to doomed, an exited child, reaped or
not, to gone, and one that failed to start to none.

### SpanViewer

A step is what runs between two awaits of the extension host, which is one
thread. A pass is a record in `pass` by its generation; superseded passes run on
until they notice. Its stages are the awaits of `loadSpanHistory`,
`readCleanContents` and `runPass`; the reads of one stage are one step. The CLI
is a step that reads the span file, the anchored files and the commits at a time
of its own, or fails. `watched`, `events` and `timer` are the watchers, their
events on the way and the debounce timer; `inbox` and `outbox` the messages
between host and page. Replacing the page's HTML drops what the old page had not
received, and messages that arrive before the provider subscribes are dropped.

An anchored file is its text, as far as drift goes (`recorded`, `edited`,
`missing`), and a stamp for its mtime and size: every edit is assumed to change
one of them. `committed` is which anchors have a lineage in the history; a
commit, a reset or a checkout changes it (`MoveHead`). `missed` records what
changed without a watcher since the last pass began, HEAD always among it. An
editor opened on a file that cannot be read gets no panel (the error leaves
`resolveCustomEditor`), on one that does not parse it does. Left out: the
fallback for a document that cannot be built, and the texts and dates on the
cards.

## 3. Runs

The repair runs use two spans and, unless said, two processes that may each be
a reader, a writer or a repair any number of times.

| Run | Instance | Result |
|---|---|---|
| `repair_safety` | 2 overlapping requests, 1 crash, 1 edit (by a writer or third party), source one version ahead of some anchors | 1.2M states; type, lone mutation, write-ahead, marker, settled and stable reads, complete rollback, surviving edits, single application; implements `AtomicRepair` |
| `repair_two_crashes` | 1 request, 2 crashes, 1 edit, 1 source change that leaves span 2 unrepairable, `EditWindow` | 465k states; a committed repair is complete, no torn read |
| `repair_settles` | 1 request, 1 crash, 1 lock timeout, non-atomic conversion, fairness | a pending marker is settled |
| `abort_after_own_crash` | 1 request, 2 crashes, no edit | violated |
| `service_answers` | 2 clients, 1 change, 1 repair of two writes | 638k states; implements `FreshAnswers` |
| `service_cache` | 1 client, 3 changes or faults | 383k states; types, a generation that may be used is right, coverage is complete, answers are fresh |
| `service_requests_end` | 2 clients, 1 repair, fairness | 47k states; every request ends |
| `service_reuse_resumes` | 2 clients one at a time, 2 changes, the blind ones too, fairness | 273k states; the cache serves again once things are quiet |
| `receipts` | 2 hooks, 2 invocations that observed 2 commits (one needs no note), room for 1 receipt each, 1 fault | 1.5M states; types, exclusive claims, no standoff, one note, evidence kept, nothing reopened |
| `interrupted_publication` | the same with room for 3 receipts | violated |
| `command` | a cap of 2 bytes, up to 4 written | 763 states; implements `OneShotCommand`, no remnants, whole or flagged |
| `viewer` | 2 anchored files, one with history, 2 edits or moves of HEAD | 294k states; current view, clean previews, newest pass, final disposal, liveness |

Bounds of the repair runs. Two spans are the least for "some targets renamed,
some not", which is all the protocol distinguishes; two processes give a repair
beside a reader, a second repair or a recovery (a third only queues for the
lock); two crashes allow the crash of a recovery; two requests let one meet the
other's marker and journal. `MaxEdit`, `MaxSrc`, `MaxCrash` and `MaxTimeout`
bound the environment, nothing bounds the processes' own steps. Processes are
symmetric, so the safety runs use symmetry; the liveness runs do not.

Bounds of the service runs. `MaxChange` counts changes, failed watches and
restarts together, `MaxRepair` the repairs; requests are not counted. Two
clients give a query beside a query or beside a repair: a third would find the
mutex taken and decline. Three changes, in the run on the cache, allow
one that creates or breaks the link to the external directory, one below it, and
a fault or a restart between them; the document of a second client can go stale
between two of its steps with a single change. `MaxWorkers` is 2, or 1 where
requests come one at a time and the second client is turned away. Deadlock is
not checked in the service runs: a service without requests may stay idle.

Bounds of the receipt runs. Two hooks are a hook beside another (a third queues
for the same claims); two invocations give an eviction's victim and the
invocation enrolled, and two drains of the same commit. Two commits and
`ReceiptWindow = 1` make every second receipt push out the first; one of the
commits only moves span metadata (`MetadataOnly`) and needs no note and no second
claim. `interrupted_publication` has room for all receipts, so that the file left
behind does not make the listing itself fail. `Window = 0`, so that every
enrollment evicts. `MaxFault` counts kills, dead helpers and abandonments.
Both kinds of exchange in `Exchanges` respect the constants: an invocation is
exchanged with its locator and its stripe, and the locators and stripes occur
nowhere else.

Bounds of the other two. Two edits allow an edit during a pass and one during
the pass that follows, three passes in all, hence two superseded ones; a third
edit only repeats this; moves of HEAD count among them. The second anchored file
is not anchored at first, so an edit of the span file can add it. A cap of 2
with 4 bytes written gives chunks that fit, that overlap the cap and that come
after it. Deadlock is not checked in `viewer` and `command`: a quiet viewer and
a settled call stop.

Fairness. `repair_settles` assumes that a running process goes on (weak
fairness of its steps: the code runs to its end or dies) and that readers keep
being started (hooks query the context on every tool call). It assumes nothing
of crashes, edits, timeouts or retries. In the service runs a thread that has a
step to take takes it (weak fairness of `Work`): its waits for the recovery
domain end at their deadline, its captures read a finite repository. A repair
waits in `Mutex::lock` while queries come and go with `try_lock`, so weak
fairness is not enough there: the waits are strongly fair, because a release
wakes the parked thread and a capture, which holds the mutex long, cannot
follow another without a drain, a domain wait and a document in between.
Nobody has to ask anything. In `command` timers fire, the host
hears of an exit, and SIGKILL cannot be ignored; nothing is assumed of a child
that was not killed, of descendants, or of reading. In `viewer` the host and the
page run what is ready, a budget of the load phase that has run out is noticed,
and an aborted child ends, which is what `command` shows; nobody has to edit or
to close the tab, and a CLI that is not aborted may hang.

### What the violated runs say

1. `abort_after_own_crash`: recovery removes the temporaries of an unjournaled
   preparation one by one before it removes the marker. A crash in that loop, or
   in the loop of a retry that rewrites them, makes the next recovery believe
   that somebody else touched the files, and every command is refused. A retry
   with the same ID still gets through.
2. `interrupted_publication`: `atomicJson` writes a receipt through a temporary
   file in the same `receipts` directory. A hook that is killed there leaves the
   file, and every later drain counts it as a pending receipt: a retry delivers
   everything, and the invocation is still "completed", is drained again at
   every session end and is never retired. It goes when it is abandoned for the
   retention period.

Other gaps are known and have no run of their own. A retry after a crash between
marker and journal, whose new plan is empty, commits without clearing the
marker, whose entries are no longer the journal's: recovery then refuses every
command (the exit of `SettleJournaled`) until the same request is sent once
more. Recovery reads all targets and writes them
later: an unlocked edit in between is lost (`EditWindow = TRUE` violates
`ExternalEditSurvives`), so that property is stated for the closed window. An
inotify watch follows the directory, not its path: when a parent of an external
root is replaced, nothing is reported (`SwapAncestor`), so freshness is stated
without `Blind` changes. The same holds for configuration files of the user and
the system: they are neither watched nor part of the service's identity (that
hashes only environment variables), and a hit reads no configuration. If a
source file changes while a repair is prepared, its journaled response never
matches again and every retry with its ID fails; and a committed repair with
entries answers a repeated ID only as long as nothing it shows has changed,
although the reference says that the original response is returned. flock(2)
does not promise an atomic conversion: with `AtomicDowngrade = FALSE`
`ReadersSeeSettled` and `NoTornRead` fail, because the marker is not looked at
again. A
`notes add` that outlives its hook may add a second document to a commit, after
which every hook rejects that commit as ambiguous (`OneAssociation` leaves
such late adds out). The viewer watches, after its first pass, only the anchors
that were declared when the tab was opened, and after a failed pass only what
earlier ones covered: a file that the span file names since is not watched until
a later pass succeeds, although the comment on `scheduleRender` says that the
final state always renders (`SettledViewIsCurrent` is stated for edits that a
watcher saw). `statsEqual` takes a file that is absent before the CLI runs and
absent after the pass has read it for unchanged, although it may have been
there in between, with one text for the CLI and another for the read: such a
preview is certified as clean and is not (`CleanPreviewIsRecorded` is stated for
files that were present at the first look). It takes three edits of one file
during one pass, more than the bound of the run allows; the attempt to prove the
property for every bound showed it. `matchAnchor` calls an anchor clean that has a
lineage and no current entry: when an edited file's anchor is dropped from the
span file between the pass's read and the CLI's, its edited bytes are posted as
clean (TLC shows it within the bounds of `viewer` when the exception is taken out
of the property). The next pass corrects it; there is none when the edit of the
span file was not watched yet, as during the first pass. A commit changes which
anchors dangle, and nothing watches HEAD: the page shows the old lineage until
some file changes.

## 4. Proofs

`ContextRepairProofs` proves for every set of processes, operations and spans
and for every bound, from `RepairAssumption` and `NoneAssumption` alone:

- `TypeCorrect`: `TypeOK`. The inductive invariant is `TypeInv`: `TypeOK` and,
  by label, that a process past `enter` carries an operation and a response and
  that its loop runs over entries of its plan (`LocalsOK`).
- `MutatesAlone`: `MutationIsAlone`. `GuardHeld` says which guard each label
  holds; with flock's own promise (`DomainExclusion`, which follows from how
  locks are granted and is used, not claimed) it keeps others away.
- `PreparedIsMarked`: `MarkerNamesPrepared`. It needs `MarkerKnown`: what each
  process knows of the marker and its journal while nobody else can change
  them, e.g. that a recovery works on the operation the marker names, and that
  a process about to clear it finds the journal no longer prepared.
- `SettledReads`: `ReadersSeeSettled`, assuming `AtomicDowngrade`, which is
  needed (section 3).
- `ReadsAreStable`: `ReadsStable`, with or without atomic conversions.

`SafeInv` is the conjunction of all of these and is proved inductive step by
step (`TypeStep`, `GuardStep`, `MarkerStep`, one case per action).

`ContextRepairJournalProofs` proves the remaining safety properties of
`ContextRepair`, with `AbsentAssumption` besides (the marks for no file and no
journal are not a text or a journal): `WritesAhead` (`WriteAhead`),
`CommitsAreComplete` (`CommittedIsComplete`), `RollbacksAreComplete`
(`RollbackComplete`), `AppliedOnce` (`OperationAppliedOnce`), `ReadsAreWhole`
(`NoTornRead`, assuming `AtomicDowngrade`) and `ThirdPartiesAreSafe`
(`ExternalEditSurvives`, assuming `~EditWindow`). Both hypotheses are needed
(section 3). First, a few lemmas say what a step can do at all: while one
process has the domain for itself, no other step of a process touches the files
but an acknowledgement (`Undisturbed`); and a journal, a span file or a marker
moves only in the ways that `JournalMoves`, `SpanMoves` and `MarkerMoves` list.
Each part of the invariant is then proved from these few cases and not from all
actions again. `JournalInv`, inductive together with `SafeInv`, is

- `RolesKnown`, `JournalKnown`, `OldIsDelivered`: by label, what a process knows
  of the journal of its operation; e.g. that one in a loop over its plan carries
  the plan and response of the prepared journal;
- `PlansFromPast`: a plan raises the version of a span and is no newer than the
  source. Nothing it is about to write was there before;
- `WriteAheadKnown`: no planned bytes are live before the journal is, also when
  a retry has replaced the journal's plan and the marker is still the old one,
  and an acknowledged journal never leaves its own marker behind;
- `RolledBack`, `TempsHold`, `ResponsesShow`: what the loops have done so far,
  what is in the temporaries, and that a response shows what its plan writes;
- `CompleteKnown`: commits are complete, and (`Apart`) no later plan starts from
  or leads back to bytes that a commit has replaced;
- `SeenKnown`: a reader has seen nothing that a committed repair has replaced;
- `Checked`: without an edit in the window, a write replaces what was checked.

`AtomicRepairProofs` proves `RepairIsAtomic`, that `ContextRepair` implements
`AtomicRepair`, from `SafeInv` and `JournalInv` and no further invariant, assuming
`~EditWindow` (else a rename can replace an edit nobody compared with, which no
step of `AtomicRepair` does) and `AtomicDowngrade` (else a command can read
while a repair is pending). Under a prepared journal, the marker names its plan,
so `Before` is a function of the files and the journal (`ToUndo`); and without
one it is the files (`NothingToUndo`). Then every write of a rename, a roll back
or a roll forward is invisible in `Before` (`WriteHidden`, `FilesMapped`), since
its target holds original or planned bytes; an edit by others is one edit
(`ThirdMapped`). The steps that write a journal have a lemma each
(`PrepareMapped`, `CommitMapped`, `FindNothingMapped`, `DeliverMapped`,
`ExpireMapped`), all other steps of a process one (`QuietMapped`), and the steps
of no process one (`EnvironmentMapped`). `CommitMapped` is where the parts of the
invariant meet: the domain is exclusive, the journal is the one the marker names,
and no target still holds its original bytes (`CompleteKnown`).

`CommitReceiptsProofs` proves all properties of the run `receipts`, for any
number of hooks, invocations, commits and faults and any assignment of stripes,
from `Parameters` and `NoDirectory`. The inductive invariant `IInv` is the
conjunction of

- `TypeOK`;
- `Owned`: a hook past `lock` is the owner that the claim file names, of the
  invocation and, when nested, of the association, and an operating-system lock
  that is held is held for that claim. Exclusion is the claim file's alone: the
  lock may be lost to a dead helper;
- `Placed`: what a hook may rely on at each label: the directory it works on
  exists and can be read, its status, and that nobody else changes it;
- `Noted`: a commit without an association in progress has at most one note
  besides late ones, and one that is about to be added finds none;
- `Counted`: the list of an invocation is no longer than its window nor than the
  files there are, also between the three steps of a publication. Else an
  interrupted publication would make the window drop receipts it has room for.

From it follow `Exclusive`, `NothingUndelivered`, `OneNote` and `SomeoneGoesOn`
(if every running hook were blocked, one would hold an association, and it
waits for nothing), and with one case per action the action properties
`OwnerKeeps`, `EvidenceStays` (by `Counted`, where a full window drops a receipt)
and `StaysClosed`.

`GitSpanCommandProofs` proves all invariants of the run `command` for every cap
and every amount of output, and `RefinesOneShot`: every step is a step of
`OneShotCommand` or a stutter. Its invariant says which timers and listeners
exist in which phase of the call, that a settled call's child is gone, never
started or was killed, and that what was written is read or still in the pipe.
The fairness part of `ImplementsOneShot` is model-checked.

`SpanViewerProofs` proves every safety property of the run `viewer` for any
anchored files, histories and number of changes, from the named assumptions of
`SpanViewer` (what the files hold on opening, and that `None` is no document).
First each step of a pass is reduced to one of three effects (`PassStepIs`): it
goes on with what it has read, ends without a document, or posts one. The
inductive invariant `Inv` is the conjunction of

- `TypeOK`, `Shaped` (what a pass has in hand at each await) and `Counted`: a
  pass that is started uses up the opening or an armed timer, and these come
  from changes, so there are at most `MaxEdit + 1` generations;
- `Steady`: as long as a file has the stamp that the pass saw first, whatever the
  CLI and the pass read of it since is what it holds; and `SpanHeld`: a pass that
  is the last word on the span file, and the CLI it ran, have read the span file
  that there is. `CleanPreviews` follows from the two;
- `Synced`: while no edit was made that is not noticed, what the newest pass has
  read, or the document that it left, is what is on disk;
- `Answered`, `Ordered` and `Delivered`: the newest pass leaves its outcome
  behind, documents are queued in the order of their passes, and the newest one
  is on the page, on its way, or will be asked for by a message on its way;
- `Closed` and `OnlyNewestRuns`.

`SettledIsCurrent` combines `Synced` and `Delivered`; `FinalDisposal` and
`NeverBack` need one case per effect.

`ContextServiceProofs` proves every safety property of the service runs for any
set of clients and documents and every bound, from `ServiceAssumption` and
`AnswersDiffer` (the marks for no document, no owner and no answer are not
documents or clients). The inductive invariant has three parts, because they
need different things of the watches:

- `TypeInv`, which needs nothing: `TypeOK`; the guard and the mutex that each
  label of a request holds (`Known`); and that a repair
  is under way exactly between the two writes of a pair (`WritesPaired`);
- `Coverage`, which needs that no parent of an external root is replaced: every
  root that a valid watcher should cover is watched at its present inode, or
  what replaced it is in the queue. `WatchesAreComplete` follows;
- `FreshInv`, which needs `Blind = {}`: while the watcher is valid and its queue
  is empty, every place that a capture under way has read still holds what was
  read, an external directory that is not watched yet aside (`CaptureKnown`);
  the clean generation (`GenerationKnown`) and a document of the present epoch in
  a request's hand (`HeldKnown`) are what a direct run would compute, and what
  the base trees link to is watched. `GenerationIsTrue` follows.

Both hypotheses are needed (section 3). The proof rests on what a drain can do
(`DrainOutcomes`) and on `ChangesAreCalm`: a change that leaves a valid watcher
with an empty queue was to a place that no document depends on at that moment.
`KeepsItsPromise` is the refinement of `FreshAnswers`, with one lemma for each
kind of step (`ChangeMapped`, `FallBackMapped`, `ServeMapped`, `QueryMapped`,
`RestartMapped`); `AnswersAreTrue` follows from it.

Model-checked only: liveness, which is out of the prover's reach
(`PendingSettles`, `RequestsEnd`, `ReuseResumes`, `SessionSettles`, the fairness
part of `ImplementsOneShot`).

## 5. Not modelled, and the plan

Not modelled: durability across power loss (fsync and directory syncs),
descriptor-relative path walks and ownership checks, journal versions and
digests, output, the service's protocol and the client's own time limits (a
client that gives up computes the document itself), and the components marked so
in `PROJECT.json`: rendering, discovery and the website have no state worth
checking; byte-level readers are data the properties do not tell apart.

The models cover all of `context_repair.rs`, `recovery_domain.rs`, the receipt
store and the render session, and the cache half of `context_service.rs`. In
lines this is a small part of the repository: most of its JavaScript is
generated (the bundled hooks below `src/plugins-*`, each of which contains the
sources of `packages/agent-hooks` once more), and the map names sources and
never bundles. Of the TypeScript that is written by hand, what is left out is
parsing, rendering and command-line plumbing without state of its own.

Plan, in order:

1. `ServiceElection`: supervisor and service locks, socket, nonce, health
   probes and deadlines; at most one serving process, nobody unlinks another's
   socket, the nonce belongs to the owner.
2. `ResolutionStore` (capture, publish, revalidate, maintenance);
   `UpdateCheck`; the memo of surfaced spans.
3. Pure algorithms with reference definitions: the structural three-way merge of
   span files, the projection of ranges through hunks, the convergence of
   re-anchoring with collapsed identities.
