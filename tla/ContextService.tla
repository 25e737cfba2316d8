--------------------------- MODULE ContextService ---------------------------
(***************************************************************************)
(* The resident service behind `git span context` (context_service.rs).    *)
(* Its threads answer queries from one cached generation, which they may   *)
(* use only while an inotify watcher proves that nothing the generation    *)
(* was computed from has changed; its repairs run the transaction of       *)
(* ContextRepair and then rebuild the generation.  The threads share a     *)
(* state mutex, and with every other git-span process the recovery domain. *)
(*                                                                         *)
(* Abstractions.  What a capture reads is four places: "work", the watched *)
(* base trees; "sub", a directory below them that may come and go; "ext",  *)
(* a directory elsewhere (an alternate object database, the directory of a *)
(* filter program) that the base trees may or may not link to; "config",   *)
(* Git configuration outside the repository.  A place's content is the     *)
(* number of the change that made it, 0 when there is none; a generation   *)
(* is the content a capture read of each place.  A capture reads the       *)
(* places one by one while they change: the token comparison that          *)
(* close_context_capture adds only rejects captures.  A thread stands for  *)
(* its client too.  A thread that dies past an error answers "declined".   *)
(***************************************************************************)
EXTENDS RecoveryDomain, Naturals, FiniteSets

CONSTANTS
    Nobody,      \* the state mutex is free
    Unasked,     \* a client that has asked nothing yet
    Waiting,     \* a client whose query is open
    Declined,    \* a client told to compute the document itself
    Blind,       \* changes no watch can report: "config", "ancestor"
    MaxWorkers,  \* MAX_WORKERS, requests the service works on at once
    MaxChange,   \* bound on changes of the environment, faults included
    MaxRepair    \* bound on repairs

ASSUME ServiceAssumption ==
    /\ Blind \subseteq {"config", "ancestor"}
    /\ MaxWorkers \in Nat /\ MaxChange \in Nat /\ MaxRepair \in Nat

VARIABLES
    stamp,       \* the content of each place
    inode,       \* the directory each watchable path names, 0 when missing
    linked,      \* do the base trees name the external directory?
    changes, writes, \* changes made so far by the environment, by repairs
    watcher,     \* FailClosedWatcher
    epoch, dirty, generation, \* the rest of ServiceState
    mutex,       \* who holds Mutex<ServiceState>
    capture,     \* the capture under way, of the thread that holds the mutex
    pc,          \* where the thread of each client is
    held,        \* what a query carries from its hit to its stability check
    reply        \* what each client's last query got

world   == <<stamp, inode, linked>>
bounds  == <<changes, writes>>
state   == <<watcher, epoch, dirty, generation>>
locals  == <<capture, held>>
vars    == <<lock, world, bounds, state, mutex, locals, pc, reply>>

-----------------------------------------------------------------------------

Place     == {"work", "sub", "ext", "config"}
Base      == {"work", "sub"}
Watchable == Base \cup {"ext"}
Stamp     == 0..(MaxChange + 2 * MaxRepair + 1)
Document  == [Place -> Stamp]
Nothing   == [p \in Place |-> 0]

Watcher == [roots : SUBSET {"ext"}, watched : [Watchable -> Stamp],
            valid : BOOLEAN, queue : SUBSET {"event", "newdir", "gone"}]
Capture == [todo : SUBSET Place, read : Document, round : 1..2]
Held    == [document : Document, epoch : Nat, attempt : 0..1]

Label == {"idle", "enter", "domain", "hold", "rebuild", "capture", "publish",
          "check", "repair", "exclusive", "write", "finish", "republish", "late"}

\* No thread is nobody, and what a client may be told is no document.
ASSUME AnswersDiffer ==
    /\ Nobody \notin Proc
    /\ Unasked # Waiting /\ Declined # Waiting
    /\ Unasked \notin Document /\ Waiting \notin Document /\ Declined \notin Document

\* Fields that no step will read are reset, so that states do not differ in them.
NoCapture == [todo |-> {}, read |-> Nothing, round |-> 1]
NoHeld    == [document |-> Nothing, epoch |-> 0, attempt |-> 0]

TypeOK ==
    /\ LockTypeOK
    /\ stamp \in Document /\ inode \in [Watchable -> Stamp] /\ linked \in BOOLEAN
    /\ changes \in 0..MaxChange /\ writes \in 0..(2 * MaxRepair)
    /\ watcher \in Watcher
    /\ epoch \in Nat /\ dirty \in BOOLEAN /\ generation \in Document
    /\ mutex \in Proc \cup {Nobody}
    /\ capture \in Capture
    /\ pc \in [Proc -> Label]
    /\ held \in [Proc -> Held]
    /\ reply \in [Proc -> Document \cup {Unasked, Waiting, Declined}]

\* What one place contributes to the document: an external directory counts
\* only while the base trees link to it.
Content(p) == IF p = "ext" /\ ~linked THEN 0 ELSE stamp[p]

\* The document a direct run would compute now.
Truth == [p \in Place |-> Content(p)]

Repairing == \E c \in Proc : pc[c] = "finish"

Asking(c) == reply[c] = Waiting

-----------------------------------------------------------------------------
(* The environment: editors, git, package managers.  inotify reports what  *)
(* happens to a directory that is watched under its present inode.         *)

Fresh == changes + writes + 2

Covered(p) == watcher.watched[p] = inode[p]

Notify(S) == watcher' = [watcher EXCEPT !.queue = @ \cup S]

Disturb ==
    /\ changes < MaxChange
    /\ changes' = changes + 1
    /\ UNCHANGED <<lock, writes, epoch, dirty, generation, mutex, locals, pc, reply>>

\* A write below the base trees may also make or break the link to "ext".
WriteWork ==
    /\ Disturb
    /\ stamp' = [stamp EXCEPT !["work"] = Fresh]
    /\ linked' \in BOOLEAN
    /\ Notify(IF Covered("work") THEN {"event"} ELSE {})
    /\ UNCHANGED inode

WriteDir(p) ==
    /\ Disturb
    /\ inode[p] # 0
    /\ stamp' = [stamp EXCEPT ![p] = Fresh]
    /\ Notify(IF Covered(p) THEN {"event"} ELSE {})
    /\ UNCHANGED <<inode, linked>>

\* A directory appears with its files; only the one below the base trees has
\* a watched parent.
MakeDir(p) ==
    /\ Disturb
    /\ inode[p] = 0
    /\ stamp' = [stamp EXCEPT ![p] = Fresh]
    /\ inode' = [inode EXCEPT ![p] = Fresh]
    /\ Notify(IF p = "sub" /\ Covered("work") THEN {"newdir"} ELSE {})
    /\ UNCHANGED linked

\* A removed directory reports itself gone (IN_DELETE_SELF, IN_IGNORED).
RemoveDir(p) ==
    /\ Disturb
    /\ inode[p] # 0
    /\ stamp' = [stamp EXCEPT ![p] = 0]
    /\ inode' = [inode EXCEPT ![p] = 0]
    /\ Notify((IF Covered(p) THEN {"gone"} ELSE {})
              \cup (IF p = "sub" /\ Covered("work") THEN {"event"} ELSE {}))
    /\ UNCHANGED linked

\* Configuration outside the repository is watched by nobody.
WriteConfig ==
    /\ "config" \in Blind
    /\ Disturb
    /\ stamp' = [stamp EXCEPT !["config"] = Fresh]
    /\ UNCHANGED <<inode, linked, watcher>>

\* A parent of the external directory is replaced: its path names another
\* directory now, and the watched one has neither moved nor gone.
SwapAncestor ==
    /\ "ancestor" \in Blind
    /\ Disturb
    /\ inode["ext"] # 0
    /\ stamp' = [stamp EXCEPT !["ext"] = Fresh]
    /\ inode' = [inode EXCEPT !["ext"] = Fresh]
    /\ UNCHANGED <<linked, watcher>>

Environment ==
    \/ WriteWork \/ WriteConfig \/ SwapAncestor
    \/ \E p \in {"sub", "ext"} : WriteDir(p) \/ MakeDir(p) \/ RemoveDir(p)

-----------------------------------------------------------------------------
(* FailClosedWatcher.                                                      *)

Missing(roots) == \E p \in roots : inode[p] = 0

\* add_tree over the roots: install what the path-to-descriptor map lacks.
Extended(w) ==
    [w EXCEPT !.watched = [p \in Watchable |->
        IF @[p] = 0 /\ p \in Base \cup w.roots THEN inode[p] ELSE @[p]]]

\* new_scoped, where every root is there: a new inotify instance.
NewWatcher(roots) ==
    Extended([roots |-> roots, watched |-> [p \in Watchable |-> 0],
              valid |-> TRUE, queue |-> {}])

\* One outcome of ServiceState::drain.  `news`: the epoch moves and the
\* generation is dirty; `fault`: a watch that should install does not
\* (inotify limits, permissions, a directory that vanishes meanwhile).
Outcome(w, news, ok, fault) == [watcher |-> w, news |-> news, ok |-> ok, fault |-> fault]

\* Mutant: the reset keeps the roots that no longer exist.
DrainsKeepingRoots ==
    IF watcher.valid /\ watcher.queue = {}
    THEN {Outcome(watcher, FALSE, TRUE, 0)}
    ELSE IF Missing(watcher.roots)
    THEN {Outcome([watcher EXCEPT !.valid = FALSE, !.queue = {}], TRUE, TRUE, 0)}
    ELSE {Outcome(NewWatcher(watcher.roots), TRUE, TRUE, 0)}

\* Mutant: the loss of a watched directory is an ordinary event.
DrainsOverlookingLoss ==
    IF watcher.valid /\ watcher.queue = {}
    THEN {Outcome(watcher, FALSE, TRUE, 0)}
    ELSE IF watcher.valid
    THEN {Outcome([IF "newdir" \in watcher.queue THEN Extended(watcher) ELSE watcher
                     EXCEPT !.queue = {}], TRUE, TRUE, 0)}
    ELSE {Outcome(NewWatcher({}), TRUE, TRUE, 0)}

Drains ==
    IF watcher.valid /\ watcher.queue = {}
    THEN {Outcome(watcher, FALSE, TRUE, 0)}
    ELSE
    \* Ordinary events: only a new directory needs new watches.
    (IF watcher.valid /\ "gone" \notin watcher.queue
     THEN {Outcome([IF "newdir" \in watcher.queue THEN Extended(watcher) ELSE watcher
                      EXCEPT !.queue = {}], TRUE, TRUE, 0)}
     ELSE {})
    \cup
    \* A lost watch, a queue the kernel overflowed or that takes over 20 ms
    \* to read, invalid coverage: watch everything anew, or else, when a root
    \* is missing or a watch fails, only the base roots.
    (IF Missing(watcher.roots)
     THEN {Outcome(NewWatcher({}), TRUE, TRUE, 0)}
     ELSE {Outcome(NewWatcher(watcher.roots), TRUE, TRUE, 0),
           Outcome(NewWatcher({}), TRUE, TRUE, 1)})
    \cup
    \* The base roots cannot be watched either: the error is the caller's.
    {Outcome([watcher EXCEPT !.valid = FALSE, !.queue = {}], TRUE, FALSE, 1)}

Took(d) ==
    /\ changes + d.fault <= MaxChange
    /\ changes' = changes + d.fault
    /\ watcher' = d.watcher
    /\ epoch' = IF d.news THEN epoch + 1 ELSE epoch

-----------------------------------------------------------------------------
(* Threads.                                                                *)

Goto(c, label) == pc' = [pc EXCEPT ![c] = label]

Hold(c, h) == held' = [held EXCEPT ![c] = h]

\* The thread is done with its request: its guards are dropped.
Finish(c, answer) ==
    /\ Goto(c, "idle")
    /\ Release(c)
    /\ Hold(c, NoHeld)
    /\ reply' = [reply EXCEPT ![c] = answer]

Busy == {c \in Proc : pc[c] # "idle"}

IsRepair(c) == ~Asking(c)

Ask(c) ==
    /\ pc[c] = "idle"
    /\ Cardinality(Busy) < MaxWorkers
    /\ Goto(c, "enter")
    /\ reply' = [reply EXCEPT ![c] = Waiting]
    /\ UNCHANGED <<lock, world, bounds, state, mutex, locals>>

\* MAX_WORKERS requests are under way: this one is turned away at once.
TurnAway(c) ==
    /\ pc[c] = "idle"
    /\ Cardinality(Busy) >= MaxWorkers
    /\ reply' = [reply EXCEPT ![c] = Declined]
    /\ UNCHANGED <<lock, world, bounds, state, mutex, locals, pc>>

\* query_state takes the mutex for a moment, to copy the repository's path.
Enter(c) ==
    /\ pc[c] = "enter"
    /\ IF mutex = Nobody
       THEN Goto(c, "domain") /\ UNCHANGED <<lock, held, reply>>
       ELSE Finish(c, Declined)
    /\ UNCHANGED <<world, bounds, state, mutex, capture>>

\* Mutant: the query does not enter the recovery domain.
DomainIgnored(c) ==
    /\ pc[c] = "domain"
    /\ Goto(c, "hold")
    /\ UNCHANGED <<lock, world, bounds, state, mutex, locals, reply>>

\* acquire_reader; what it does about a pending repair is ContextRepair's.
Domain(c) ==
    /\ pc[c] = "domain"
    /\ TryAcquire(c, "shared")
    /\ Goto(c, "hold")
    /\ UNCHANGED <<world, bounds, state, mutex, locals, reply>>

\* The wait for the recovery domain reaches its deadline.
DomainTimeout(c) ==
    /\ \/ pc[c] = "domain" /\ ~Compatible(c, "shared") /\ Finish(c, Declined)
       \/ pc[c] = "exclusive" /\ ~Compatible(c, "exclusive") /\ Finish(c, reply[c])
    /\ UNCHANGED <<world, bounds, state, mutex, capture>>

\* The second visit of the mutex: the cached generation if a drain finds no
\* reason to doubt it, a new one otherwise.
HitOrRebuild(c) ==
    /\ pc[c] = "hold"
    /\ mutex = Nobody
    /\ \E d \in Drains :
        /\ Took(d)
        /\ dirty' = (dirty \/ d.news)
        /\ \/ /\ ~d.ok
              /\ Finish(c, Declined)
              /\ UNCHANGED mutex
           \/ /\ d.ok /\ dirty'
              /\ mutex' = c
              /\ Goto(c, "rebuild")
              /\ UNCHANGED <<lock, held, reply>>
           \/ /\ d.ok /\ ~dirty'
              /\ Hold(c, [held[c] EXCEPT !.document = generation, !.epoch = epoch])
              /\ Goto(c, "check")
              /\ UNCHANGED <<lock, mutex, reply>>
    /\ UNCHANGED <<world, writes, generation, capture>>

\* try_lock fails: a capture is under way, or a repair's publication.
StateBusy(c) ==
    /\ pc[c] \in {"hold", "check"}
    /\ mutex # Nobody
    /\ Finish(c, Declined)
    /\ UNCHANGED <<world, bounds, state, mutex, capture>>

-----------------------------------------------------------------------------
(* rebuild_locked, for a query or for a repair that holds the domain.      *)

\* The rebuild gives the mutex back.  A query falls back; a repair has its
\* answer already, and leaves the generation dirty.
Fail(c) ==
    /\ mutex' = Nobody
    /\ capture' = NoCapture
    /\ IF IsRepair(c)
       THEN Goto(c, "late") /\ Release(c) /\ UNCHANGED <<held, reply>>
       ELSE Finish(c, Declined)

\* The configuration is read once per request, when the repository is opened;
\* nothing of the request uses it before this.
FirstCapture == [todo |-> Place \ {"config"}, round |-> 1,
                 read |-> [Nothing EXCEPT !["config"] = stamp["config"]]]

Rebuild(c) ==
    /\ pc[c] = "rebuild"
    /\ dirty' = TRUE
    /\ \E d \in Drains :
        /\ Took(d)
        /\ \/ ~d.ok /\ Fail(c)
           \/ /\ d.ok
              /\ Goto(c, "capture")
              /\ capture' = FirstCapture
              /\ UNCHANGED <<lock, mutex, held, reply>>
    /\ UNCHANGED <<world, writes, generation>>

ReadPlace(c) ==
    /\ pc[c] = "capture"
    /\ \E p \in capture.todo :
        capture' = [capture EXCEPT !.todo = @ \ {p}, !.read[p] = Content(p)]
    /\ UNCHANGED <<lock, world, bounds, state, mutex, held, pc, reply>>

\* The linked directories nobody watches.  The code takes them from what the
\* capture read, the model from what is linked now: a link changed in between
\* has an event in the queue, so that what was captured is not trusted.
NewRoots == {p \in {"ext"} : linked} \ watcher.roots

\* build_service_seed fails when a linked directory is missing, and may fail
\* when its second look differs from what the capture read.
CaptureFails(c) ==
    /\ pc[c] = "capture" /\ capture.todo = {}
    /\ (linked /\ inode["ext"] = 0) \/ capture.read # Truth
    /\ Fail(c)
    /\ UNCHANGED <<world, bounds, state>>

\* Mutant: the capture that found the new root is published.
PublishFirstCapture(c) ==
    /\ pc[c] = "capture" /\ capture.todo = {}
    /\ NewRoots # {} /\ inode["ext"] # 0
    /\ watcher' = Extended([watcher EXCEPT !.roots = @ \cup NewRoots])
    /\ Goto(c, "publish")
    /\ UNCHANGED <<lock, world, bounds, epoch, dirty, generation, mutex, locals, reply>>

\* The capture found a directory nobody watches: watch it, and capture once
\* more, because this capture may predate the watch.
WatchNewRoots(c) ==
    /\ pc[c] = "capture" /\ capture.todo = {}
    /\ NewRoots # {} /\ inode["ext"] # 0
    /\ LET grown == [watcher EXCEPT !.roots = @ \cup NewRoots] IN
       \/ /\ capture.round = 1
          /\ watcher' = Extended(grown)
          /\ capture' = [capture EXCEPT !.todo = Place \ {"config"}, !.round = 2]
          /\ UNCHANGED <<lock, changes, mutex, held, pc, reply>>
       \/ /\ capture.round = 2
          /\ watcher' = Extended(grown)
          /\ Fail(c)
          /\ UNCHANGED changes
       \/ /\ changes < MaxChange \* a watch fails to install
          /\ changes' = changes + 1
          /\ watcher' = [grown EXCEPT !.valid = FALSE]
          /\ Fail(c)
    /\ UNCHANGED <<world, writes, epoch, dirty, generation>>

Captured(c) ==
    /\ pc[c] = "capture" /\ capture.todo = {}
    /\ NewRoots = {}
    /\ linked => inode["ext"] # 0
    /\ Goto(c, "publish")
    /\ UNCHANGED <<lock, world, bounds, state, mutex, locals, reply>>

\* Mutant: a repair's publication lets go of the domain, not of the mutex.
PublishKeepsMutex(c) ==
    /\ pc[c] = "publish"
    /\ \E d \in Drains :
        /\ Took(d)
        /\ dirty' = (~d.ok \/ d.news)
    /\ generation' = capture.read
    /\ Release(c)
    /\ IF IsRepair(c)
       THEN Goto(c, "late") /\ UNCHANGED <<mutex, reply>>
       ELSE Goto(c, "idle") /\ mutex' = Nobody /\ reply' = [reply EXCEPT ![c] = Declined]
    /\ capture' = NoCapture
    /\ UNCHANGED <<world, writes, held>>

\* The last drain decides whether the new generation is clean; the query
\* that built it goes on only if it is.
Publish(c) ==
    /\ pc[c] = "publish"
    /\ \E d \in Drains :
        /\ Took(d)
        /\ dirty' = (~d.ok \/ d.news)
        /\ generation' = IF d.ok THEN capture.read ELSE generation
        /\ \/ (dirty' \/ IsRepair(c)) /\ Fail(c)
           \/ /\ ~dirty' /\ ~IsRepair(c)
              /\ mutex' = Nobody
              /\ capture' = NoCapture
              /\ Hold(c, [held[c] EXCEPT !.document = capture.read, !.epoch = epoch])
              /\ Goto(c, "check")
              /\ UNCHANGED <<lock, reply>>
    /\ UNCHANGED <<world, writes>>

\* Mutant: the query is tried until it succeeds.
CheckRetriesForever(c) ==
    /\ pc[c] = "check"
    /\ mutex = Nobody
    /\ \E d \in Drains :
        /\ Took(d)
        /\ dirty' = (dirty \/ d.news)
        /\ \/ /\ d.ok /\ epoch' = held[c].epoch
              /\ Finish(c, held[c].document)
           \/ /\ ~d.ok \/ epoch' # held[c].epoch
              /\ Release(c)
              /\ Hold(c, [NoHeld EXCEPT !.attempt = held[c].attempt + 1])
              /\ Goto(c, "enter")
              /\ UNCHANGED reply
    /\ UNCHANGED <<world, writes, generation, mutex, capture>>

\* Mutant: the check trusts the epoch without draining.
CheckUndrained(c) ==
    /\ pc[c] = "check"
    /\ mutex = Nobody
    /\ Finish(c, IF epoch = held[c].epoch THEN held[c].document ELSE Declined)
    /\ UNCHANGED <<world, bounds, state, mutex, capture>>

\* The third visit of the mutex: the document is good if nothing has moved
\* the epoch since the generation was taken.  The query is tried twice.
Check(c) ==
    /\ pc[c] = "check"
    /\ mutex = Nobody
    /\ \E d \in Drains :
        /\ Took(d)
        /\ dirty' = (dirty \/ d.news)
        /\ \/ /\ d.ok /\ epoch' = held[c].epoch
              /\ Finish(c, held[c].document)
           \/ /\ d.ok /\ epoch' # held[c].epoch /\ held[c].attempt = 0
              /\ Release(c)
              /\ Hold(c, [NoHeld EXCEPT !.attempt = 1])
              /\ Goto(c, "enter")
              /\ UNCHANGED reply
           \/ /\ ~d.ok \/ (epoch' # held[c].epoch /\ held[c].attempt = 1)
              /\ Finish(c, Declined)
    /\ UNCHANGED <<world, writes, generation, mutex, capture>>

-----------------------------------------------------------------------------
(* repair_state: the transaction itself is ContextRepair's.  Here it is    *)
(* two writes below the base trees, under the exclusive domain.            *)

AskRepair(c) ==
    /\ pc[c] = "idle" /\ ~Asking(c)
    /\ Cardinality(Busy) < MaxWorkers
    /\ writes < 2 * MaxRepair
    /\ Goto(c, "repair")
    /\ UNCHANGED <<lock, world, bounds, state, mutex, locals, reply>>

\* The mutex for a moment, as in Enter, but waiting for it.
EnterRepair(c) ==
    /\ pc[c] = "repair"
    /\ mutex = Nobody
    /\ Goto(c, "exclusive")
    /\ UNCHANGED <<lock, world, bounds, state, mutex, locals, reply>>

Exclusive(c) ==
    /\ pc[c] = "exclusive"
    /\ TryAcquire(c, "exclusive")
    /\ Goto(c, "write")
    /\ UNCHANGED <<world, bounds, state, mutex, locals, reply>>

Rewrite ==
    /\ writes' = writes + 1
    /\ stamp' = [stamp EXCEPT !["work"] = Fresh]
    /\ Notify(IF Covered("work") THEN {"event"} ELSE {})
    /\ UNCHANGED <<inode, linked, changes, epoch, dirty, generation>>

\* The first span is renamed into place; a request that replays a journal
\* only publishes, one with nothing to repair does not even do that, and one
\* that is refused leaves at once.
Write(c) ==
    /\ pc[c] = "write"
    /\ \/ /\ writes < 2 * MaxRepair
          /\ Rewrite
          /\ Goto(c, "finish")
          /\ UNCHANGED <<lock, held, reply>>
       \/ /\ Goto(c, "republish")
          /\ UNCHANGED <<lock, held, reply, world, bounds, state>>
       \/ /\ Goto(c, "late") /\ Release(c)
          /\ UNCHANGED <<held, reply, world, bounds, state>>
       \/ /\ Finish(c, reply[c])
          /\ UNCHANGED <<world, bounds, state>>
    /\ UNCHANGED <<mutex, capture>>

FinishWrite(c) ==
    /\ pc[c] = "finish"
    /\ Rewrite
    /\ Goto(c, "republish")
    /\ UNCHANGED <<lock, mutex, locals, reply>>

\* The publish callback, still under the exclusive domain.
Republish(c) ==
    /\ pc[c] = "republish"
    /\ mutex = Nobody
    /\ mutex' = c
    /\ Goto(c, "rebuild")
    /\ UNCHANGED <<lock, world, bounds, state, locals, reply>>

\* Late notifications: the result of this drain is not looked at.
Late(c) ==
    /\ pc[c] = "late"
    /\ mutex = Nobody
    /\ \E d \in Drains :
        /\ Took(d)
        /\ dirty' = (dirty \/ d.news)
    /\ Finish(c, reply[c])
    /\ UNCHANGED <<world, writes, generation, mutex, capture>>

\* The service exits (idle, asked to, killed) and the next request starts
\* another: no generation, new watches, and every open request falls back.
\* One that dies inside a repair's writes leaves them to ContextRepair.
Restart ==
    /\ Busy # {} /\ ~Repairing
    /\ changes < MaxChange
    /\ changes' = changes + 1
    /\ watcher' = NewWatcher({})
    /\ epoch' = 0 /\ dirty' = TRUE /\ generation' = Nothing
    /\ mutex' = Nobody
    /\ capture' = NoCapture
    /\ pc' = [c \in Proc |-> "idle"]
    /\ held' = [c \in Proc |-> NoHeld]
    /\ lock' = [c \in Proc |-> "none"]
    /\ reply' = [c \in Proc |-> IF Asking(c) THEN Declined ELSE reply[c]]
    /\ UNCHANGED <<world, writes>>

-----------------------------------------------------------------------------

Init ==
    /\ LockInit
    /\ inode \in [Watchable -> {0, 1}] /\ inode["work"] = 1
    /\ stamp = [p \in Place |-> IF p = "config" THEN 1 ELSE inode[p]]
    /\ linked \in BOOLEAN
    /\ changes = 0 /\ writes = 0
    /\ watcher = NewWatcher({})
    /\ epoch = 0 /\ dirty = TRUE /\ generation = Nothing
    /\ mutex = Nobody
    /\ capture = NoCapture
    /\ pc = [c \in Proc |-> "idle"]
    /\ held = [c \in Proc |-> NoHeld]
    /\ reply = [c \in Proc |-> Unasked]

Query(c) ==
    \/ Enter(c) \/ Domain(c) \/ DomainTimeout(c) \/ HitOrRebuild(c)
    \/ StateBusy(c) \/ Rebuild(c) \/ ReadPlace(c) \/ CaptureFails(c)
    \/ WatchNewRoots(c) \/ Captured(c) \/ Publish(c) \/ Check(c)

Repair(c) ==
    \/ EnterRepair(c) \/ Exclusive(c) \/ Write(c) \/ FinishWrite(c)
    \/ Republish(c) \/ Late(c)

Work(c) == Query(c) \/ Repair(c)

Next ==
    \/ Environment \/ Restart
    \/ \E c \in Proc : Ask(c) \/ TurnAway(c) \/ AskRepair(c) \/ Work(c)

\* The steps that wait in Mutex::lock: releases wake the threads parked there.
AwaitState(c) == EnterRepair(c) \/ Republish(c) \/ Late(c)

\* A thread that has a step to take takes it; a wait for the recovery domain
\* ends at the latest at its deadline, and no parked thread is overtaken for
\* ever.  Nobody has to ask anything.
Fairness == \A c \in Proc : WF_vars(Work(c)) /\ SF_vars(AwaitState(c))

Spec == Init /\ [][Next]_vars /\ Fairness

-----------------------------------------------------------------------------
(***************************************************************************)
(* Whoever finds the mutex free, the watches of a valid watcher in place,  *)
(* no notification pending and the generation not dirty may use the        *)
(* generation: it is what a direct run would compute.  (`dirty`, the       *)
(* epoch and the drain are all that query_state looks at.)                 *)
(***************************************************************************)
TrustedGeneration ==
    mutex = Nobody /\ ~dirty /\ watcher.valid /\ watcher.queue = {}
        => generation = Truth

(***************************************************************************)
(* While its queue is empty a valid watcher watches, under its present     *)
(* inode, every tree of its roots: nothing has been replaced behind a      *)
(* path-to-descriptor entry.                                               *)
(***************************************************************************)
CoverageComplete ==
    watcher.valid /\ watcher.queue = {} =>
        \A p \in Base \cup watcher.roots : Covered(p)

(***************************************************************************)
(* A query that the service answers gets, at the moment the service has    *)
(* checked its epoch, the document a direct run would compute.             *)
(***************************************************************************)
AnswersAreFresh ==
    [][\A c \in Proc : Asking(c) /\ reply'[c] \in Document => reply'[c] = Truth]_vars

(***************************************************************************)
(* The service implements the promise of FreshAnswers: fresh documents,    *)
(* never one from the middle of a repair, and otherwise a fallback.        *)
(***************************************************************************)
Promise == INSTANCE FreshAnswers WITH
    Client <- Proc, truth <- Truth, repairing <- Repairing

ImplementsFreshAnswers == Promise!FreshSpec

(***************************************************************************)
(* Every request ends, whatever locks the others hold: queries take the    *)
(* recovery domain before they may keep the mutex, repairs as well, and    *)
(* nobody waits for the domain while holding the mutex.                    *)
(***************************************************************************)
RequestsEnd == \A c \in Proc : pc[c] # "idle" ~> pc[c] = "idle"

(***************************************************************************)
(* Where requests come one at a time: once the environment is quiet and    *)
(* the directory the base trees link to, if any, exists, the next query is *)
(* answered from the service.  No failed watch, no root that is gone and   *)
(* no late notification disables it for good.                              *)
(***************************************************************************)
ReuseResumes ==
    \A c \in Proc :
        /\ pc[c] = "enter" /\ changes = MaxChange
        /\ linked => inode["ext"] # 0
        ~> reply[c] \in Document

=============================================================================
