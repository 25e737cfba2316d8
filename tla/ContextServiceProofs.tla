------------------------- MODULE ContextServiceProofs -------------------------
(***************************************************************************)
(* Theorems about ContextService, for every set of clients and every bound:*)
(* types, the completeness of its watches, the generation it may use, and  *)
(* that it implements FreshAnswers.                                        *)
(***************************************************************************)
EXTENDS ContextService, TLAPS

-----------------------------------------------------------------------------
(* The inductive invariant.                                                *)

\* Labels of the thread that has the mutex, of queries and of repairs.
Rebuilding   == {"rebuild", "capture", "publish"}
QueryLabel   == {"enter", "domain", "hold", "check"}
RepairLabel  == {"repair", "exclusive", "write", "finish", "republish", "late"}
Unguarded    == {"idle", "enter", "domain", "repair", "exclusive", "late"}

\* What a thread is doing, which locks it holds for it, and that a repair
\* between its two writes has made an odd number of them.
ThreadsKnown ==
    \A c \in Proc :
        /\ pc[c] \in Rebuilding <=> mutex = c
        /\ pc[c] \in QueryLabel => Asking(c)
        /\ pc[c] \in RepairLabel \cup {"idle"} => ~Asking(c)

GuardsHeld ==
    \A c \in Proc :
        /\ pc[c] \in Unguarded => lock[c] = "none"
        /\ pc[c] \in {"hold", "check"} => lock[c] = "shared"
        /\ pc[c] \in {"write", "finish", "republish"} => lock[c] = "exclusive"
        /\ pc[c] \in Rebuilding => lock[c] = IF Asking(c) THEN "shared" ELSE "exclusive"

WritesPaired == writes % 2 = IF Repairing THEN 1 ELSE 0

ThreadInv == ThreadsKnown /\ GuardsHeld /\ DomainExclusion /\ WritesPaired

\* What a watcher w that has lost nothing covers.  Only a directory below the
\* base trees may have come without a watch, and then it was reported.
Coverage(w) ==
    /\ "ext" \notin w.roots => w.watched["ext"] = 0
    /\ w.valid /\ "gone" \notin w.queue =>
        /\ w.watched["work"] = inode["work"]
        /\ \/ w.watched["sub"] = inode["sub"]
           \/ w.watched["sub"] = 0 /\ "newdir" \in w.queue
        /\ "ext" \in w.roots => w.watched["ext"] = inode["ext"] /\ inode["ext"] # 0

\* Nothing has happened that the service would not see; what the base trees
\* link to is watched.
Silent(w) == w.valid /\ w.queue = {}
Quiet     == Silent(watcher)
Scoped    == linked => "ext" \in watcher.roots

\* While it is quiet, what a capture has read is still there, but for an
\* external directory that is not watched yet.
CaptureKnown ==
    \A c \in Proc : pc[c] \in {"capture", "publish"} =>
        /\ dirty
        /\ Quiet => \A p \in Place \ capture.todo :
              (p = "ext" => Scoped) => capture.read[p] = Content(p)
        /\ pc[c] = "publish" => capture.todo = {} /\ (Quiet => Scoped)

GenerationKnown == ~dirty /\ Quiet => Scoped /\ generation = Truth

\* A query that holds a document of the present epoch holds a right one.
HeldRight(c) ==
    /\ held[c].epoch <= epoch
    /\ pc[c] = "check" /\ held[c].epoch = epoch /\ Quiet
         => Scoped /\ held[c].document = Truth

HeldKnown == \A c \in Proc : HeldRight(c)

FreshInv == CaptureKnown /\ GenerationKnown /\ HeldKnown

-----------------------------------------------------------------------------
(* Operators and types.                                                    *)

LEMMA FreshStamp ==
    ASSUME TypeOK, changes < MaxChange \/ writes < 2 * MaxRepair
    PROVE  Fresh \in Stamp
BY ServiceAssumption DEF TypeOK, Fresh, Stamp

LEMMA TruthType == TypeOK => Truth \in Document /\ \A p \in Place : Content(p) \in Stamp
<1>1. ASSUME TypeOK, NEW p \in Place PROVE Content(p) \in Stamp
  BY <1>1, ServiceAssumption DEF TypeOK, Content, Document, Stamp
<1> QED BY <1>1 DEF Truth, Document

LEMMA ExtendedType ==
    ASSUME TypeOK, NEW w \in Watcher
    PROVE  Extended(w) \in Watcher
BY DEF TypeOK, Extended, Watcher

LEMMA NewWatcherType ==
    ASSUME TypeOK, NEW roots \in SUBSET {"ext"}
    PROVE  NewWatcher(roots) \in Watcher
<1> DEFINE bare == [roots |-> roots, watched |-> [p \in Watchable |-> 0],
                    valid |-> TRUE, queue |-> {}]
<1>1. bare \in Watcher
  BY ServiceAssumption DEF Watcher, Stamp
<1> QED BY <1>1, ExtendedType DEF NewWatcher

\* New watches cover their roots, where these are there.
LEMMA NewWatcherCovers ==
    ASSUME TypeOK, NEW roots \in SUBSET {"ext"}, ~Missing(roots)
    PROVE  Coverage(NewWatcher(roots)) /\ Silent(NewWatcher(roots))
BY DEF TypeOK, NewWatcher, Extended, Coverage, Silent, Missing, Watchable, Base

\* What a drain may do: without news it finds everything quiet and changes
\* nothing, and when it succeeds it leaves complete watches.
Drained(d) ==
    /\ d.watcher \in Watcher /\ d.news \in BOOLEAN /\ d.ok \in BOOLEAN /\ d.fault \in 0..1
    /\ Coverage(watcher) => Coverage(d.watcher)
    /\ d.ok => Silent(d.watcher)
    /\ ~d.news => d.ok /\ d.watcher = watcher

LEMMA DrainOutcomes ==
    ASSUME TypeOK, NEW d \in Drains
    PROVE  Drained(d)
<1>1. CASE d = Outcome(watcher, FALSE, TRUE, 0) /\ Silent(watcher)
  <2>1. d.watcher = watcher /\ d.news \in BOOLEAN /\ d.ok \in BOOLEAN
        /\ ~d.news /\ d.ok /\ d.fault = 0
    BY <1>1 DEF Outcome
  <2>2. watcher \in Watcher /\ Silent(watcher)
    BY <1>1 DEF TypeOK
  <2> QED BY <2>1, <2>2 DEF Drained
<1>2. CASE /\ watcher.valid /\ "gone" \notin watcher.queue
           /\ d = Outcome([IF "newdir" \in watcher.queue THEN Extended(watcher) ELSE watcher
                             EXCEPT !.queue = {}], TRUE, TRUE, 0)
  <2> DEFINE w == [IF "newdir" \in watcher.queue THEN Extended(watcher) ELSE watcher
                     EXCEPT !.queue = {}]
  <2>1. w \in Watcher
    BY ExtendedType DEF Watcher, TypeOK
  <2>2. \A p \in Watchable : watcher.watched[p] \in Stamp /\ inode[p] \in Stamp
    BY DEF Watcher, TypeOK
  <2>3. (Coverage(watcher) => Coverage(w)) /\ Silent(w)
    BY <1>2, <2>2 DEF Coverage, Silent, Extended, Watcher, Watchable, Base, TypeOK
  <2>4. d = Outcome(w, TRUE, TRUE, 0)
    BY <1>2, Zenon
  <2> HIDE DEF w
  <2>5. d.watcher = w /\ d.news \in BOOLEAN /\ d.ok \in BOOLEAN
        /\ d.news /\ d.ok /\ d.fault = 0
    BY <2>4 DEF Outcome
  <2> QED BY <2>1, <2>3, <2>5 DEF Drained
<1>3. CASE \E roots \in SUBSET {"ext"}, fault \in 0..1 :
               ~Missing(roots) /\ d = Outcome(NewWatcher(roots), TRUE, TRUE, fault)
  <2>1. PICK roots \in SUBSET {"ext"}, fault \in 0..1 :
            ~Missing(roots) /\ d = Outcome(NewWatcher(roots), TRUE, TRUE, fault)
    BY <1>3, Zenon
  <2>2. d.watcher = NewWatcher(roots) /\ d.news \in BOOLEAN /\ d.ok \in BOOLEAN
        /\ d.news /\ d.ok /\ d.fault = fault
    BY <2>1 DEF Outcome
  <2> QED BY <2>1, <2>2, NewWatcherType, NewWatcherCovers DEF Drained
<1>4. CASE d = Outcome([watcher EXCEPT !.valid = FALSE, !.queue = {}], TRUE, FALSE, 1)
  <2> DEFINE w == [watcher EXCEPT !.valid = FALSE, !.queue = {}]
  <2>1. w \in Watcher /\ (Coverage(watcher) => Coverage(w))
    BY DEF Watcher, Coverage, TypeOK
  <2> HIDE DEF w
  <2>2. d.watcher = w /\ d.news \in BOOLEAN /\ d.ok \in BOOLEAN
        /\ d.news /\ ~d.ok /\ d.fault = 1
    BY <1>4 DEF Outcome, w
  <2> QED BY <2>1, <2>2 DEF Drained
<1>5. watcher.roots \in SUBSET {"ext"} /\ ~Missing({}) /\ {} \in SUBSET {"ext"}
  BY DEF Watcher, Missing, TypeOK
<1>6. 0 \in 0..1 /\ 1 \in 0..1
  OBVIOUS
<1> QED BY <1>1, <1>2, <1>3, <1>4, <1>5, <1>6, Zenon DEF Drains, Silent

\* What a step takes over from a drain.
LEMMA Takes ==
    ASSUME TypeOK, NEW d \in Drains, Took(d)
    PROVE  /\ d.news \in BOOLEAN /\ d.ok \in BOOLEAN
           /\ watcher' \in Watcher /\ changes' \in 0..MaxChange /\ epoch' \in Nat
           /\ Coverage(watcher) => Coverage(watcher')
           /\ d.ok => Quiet'
           /\ ~d.news => d.ok /\ watcher' = watcher /\ epoch' = epoch
           /\ d.news => epoch' = epoch + 1
<1>1. Drained(d)
  BY DrainOutcomes
<1>2. (Coverage(watcher) => Coverage(watcher')) /\ (d.ok => Quiet')
  BY <1>1 DEF Drained, Took, Quiet
<1>3. changes' \in 0..MaxChange /\ epoch' \in Nat
  BY <1>1, ServiceAssumption DEF Drained, Took, TypeOK
<1> QED BY <1>1, <1>2, <1>3 DEF Drained, Took

-----------------------------------------------------------------------------
(* Steps keep the types.                                                   *)

LEMMA TypeInit == Init => TypeOK
<1> SUFFICES ASSUME Init PROVE TypeOK
  OBVIOUS
<1>1. /\ inode \in [Watchable -> Stamp] /\ stamp \in Document /\ generation \in Document
      /\ changes \in 0..MaxChange /\ writes \in 0..(2 * MaxRepair)
  BY ServiceAssumption DEF Init, Stamp, Document, Nothing, Place, Watchable, Base
<1>2. watcher \in Watcher
  <2>1. watcher.watched \in [Watchable -> Stamp]
    BY <1>1, ServiceAssumption DEF Init, NewWatcher, Extended, Stamp
  <2> QED BY <2>1 DEF Init, NewWatcher, Extended, Watcher
<1>3. capture \in Capture /\ held \in [Proc -> Held]
  BY <1>1 DEF Init, Capture, Held, NoCapture, NoHeld
<1> QED BY <1>1, <1>2, <1>3 DEF Init, TypeOK, LockInit, LockTypeOK, Mode, Label

LEMMA NotifyType ==
    ASSUME TypeOK, NEW S \in SUBSET {"event", "newdir", "gone"}, Notify(S)
    PROVE  watcher' \in Watcher
BY DEF TypeOK, Notify, Watcher

LEMMA TypeEnvironment ==
    ASSUME TypeOK, Environment
    PROVE  TypeOK'
<1>1. changes < MaxChange => Fresh \in Stamp
  BY FreshStamp
<1>2. 0 \in Stamp
  BY ServiceAssumption DEF Stamp
<1>3. changes < MaxChange => changes + 1 \in 0..MaxChange
  BY ServiceAssumption DEF TypeOK
<1> USE <1>1, <1>2, <1>3 DEF TypeOK, Disturb, locals, Document
<1>4. CASE WriteWork
  <2>1. watcher' \in Watcher
    BY <1>4, NotifyType DEF WriteWork
  <2> QED BY <1>4, <2>1 DEF WriteWork, LockTypeOK
<1>5. ASSUME NEW p \in {"sub", "ext"}, WriteDir(p) \/ MakeDir(p) \/ RemoveDir(p) PROVE TypeOK'
  <2>1. watcher' \in Watcher
    BY <1>5, NotifyType DEF WriteDir, MakeDir, RemoveDir
  <2>2. inode' \in [Watchable -> Stamp] /\ stamp' \in Document
    BY <1>5 DEF WriteDir, MakeDir, RemoveDir
  <2> QED BY <1>5, <2>1, <2>2 DEF WriteDir, MakeDir, RemoveDir, LockTypeOK
<1>6. CASE WriteConfig \/ SwapAncestor
  BY <1>6 DEF WriteConfig, SwapAncestor, LockTypeOK
<1> QED BY <1>4, <1>5, <1>6 DEF Environment

LEMMA ResetTypes == NoCapture \in Capture /\ NoHeld \in Held /\ Nothing \in Document
<1>1. Nothing \in Document
  BY ServiceAssumption DEF Nothing, Document, Stamp
<1> QED BY <1>1 DEF NoCapture, Capture, NoHeld, Held

LEMMA TypeRestart ==
    ASSUME TypeOK, Restart
    PROVE  TypeOK'
<1>1. watcher' \in Watcher /\ changes' \in 0..MaxChange
  BY NewWatcherType, ServiceAssumption DEF Restart, TypeOK
<1>2. reply' \in [Proc -> Document \cup {Unasked, Waiting, Declined}]
  BY DEF Restart, TypeOK
<1> QED BY <1>1, <1>2, ResetTypes DEF Restart, TypeOK, LockTypeOK, Mode, Label, world

\* The requests that begin, and the steps of a query but for the rebuild.
LEMMA TypeRequests ==
    ASSUME TypeOK, NEW c \in Proc, Ask(c) \/ TurnAway(c) \/ AskRepair(c)
    PROVE  TypeOK'
BY DEF Ask, TurnAway, AskRepair, Goto, TypeOK, LockTypeOK, Label, world, bounds, state, locals

LEMMA FinishType ==
    ASSUME TypeOK, NEW c \in Proc,
           NEW answer \in Document \cup {Unasked, Waiting, Declined}, Finish(c, answer)
    PROVE  /\ LockTypeOK' /\ pc' \in [Proc -> Label] /\ held' \in [Proc -> Held]
           /\ reply' \in [Proc -> Document \cup {Unasked, Waiting, Declined}]
BY ResetTypes DEF TypeOK, Finish, Goto, Release, Hold, LockTypeOK, Mode, Label

LEMMA FailType ==
    ASSUME TypeOK, NEW c \in Proc, Fail(c)
    PROVE  /\ LockTypeOK' /\ pc' \in [Proc -> Label] /\ held' \in [Proc -> Held]
           /\ reply' \in [Proc -> Document \cup {Unasked, Waiting, Declined}]
           /\ mutex' \in Proc \cup {Nobody} /\ capture' \in Capture
<1>1. mutex' \in Proc \cup {Nobody} /\ capture' \in Capture
  BY ResetTypes DEF Fail
<1>2. CASE Finish(c, Declined)
  BY <1>1, <1>2, FinishType
<1>3. CASE Goto(c, "late") /\ Release(c) /\ UNCHANGED <<held, reply>>
  BY <1>1, <1>3 DEF TypeOK, Goto, Release, LockTypeOK, Mode, Label
<1> QED BY <1>2, <1>3 DEF Fail

LEMMA TypeQuery ==
    ASSUME TypeOK, NEW c \in Proc, Query(c)
    PROVE  TypeOK'
<1> USE DEF TypeOK, world, bounds, state, locals
<1>1. CASE Enter(c)
  <2>1. CASE Finish(c, Declined)
    BY <1>1, <2>1, FinishType DEF Enter
  <2>2. CASE Goto(c, "domain") /\ UNCHANGED <<lock, held, reply>>
    BY <1>1, <2>2 DEF Enter, Goto, LockTypeOK, Label
  <2> QED BY <1>1, <2>1, <2>2 DEF Enter
<1>2. CASE Domain(c)
  BY <1>2 DEF Domain, TryAcquire, Goto, LockTypeOK, Mode, Label
<1>3. CASE DomainTimeout(c)
  <2>1. PICK answer \in Document \cup {Unasked, Waiting, Declined} : Finish(c, answer)
    BY <1>3 DEF DomainTimeout
  <2> QED BY <1>3, <2>1, FinishType DEF DomainTimeout
<1>4. CASE StateBusy(c)
  BY <1>4, FinishType DEF StateBusy
<1>5. CASE HitOrRebuild(c)
  <2>1. PICK d \in Drains :
           /\ Took(d) /\ dirty' = (dirty \/ d.news)
           /\ \/ Finish(c, Declined) /\ UNCHANGED mutex
              \/ mutex' = c /\ Goto(c, "rebuild") /\ UNCHANGED <<lock, held, reply>>
              \/ /\ Hold(c, [held[c] EXCEPT !.document = generation, !.epoch = epoch])
                 /\ Goto(c, "check") /\ UNCHANGED <<lock, mutex, reply>>
    BY <1>5 DEF HitOrRebuild
  <2>2. watcher' \in Watcher /\ changes' \in 0..MaxChange /\ epoch' \in Nat /\ dirty' \in BOOLEAN
    BY <2>1, Takes
  <2>3. CASE Finish(c, Declined) /\ UNCHANGED mutex
    BY <1>5, <2>2, <2>3, FinishType DEF HitOrRebuild
  <2>4. CASE mutex' = c /\ Goto(c, "rebuild") /\ UNCHANGED <<lock, held, reply>>
    BY <1>5, <2>2, <2>4 DEF HitOrRebuild, Goto, LockTypeOK, Label
  <2>5. CASE /\ Hold(c, [held[c] EXCEPT !.document = generation, !.epoch = epoch])
             /\ Goto(c, "check") /\ UNCHANGED <<lock, mutex, reply>>
    <3>1. held' \in [Proc -> Held]
      BY <2>5 DEF Hold, Held
    <3> QED BY <1>5, <2>2, <2>5, <3>1 DEF HitOrRebuild, Goto, LockTypeOK, Label
  <2> QED BY <2>1, <2>3, <2>4, <2>5
<1>6. CASE Rebuild(c)
  <2>1. PICK d \in Drains : Took(d) /\ (Fail(c) \/ (/\ Goto(c, "capture") /\ capture' = FirstCapture
                                                   /\ UNCHANGED <<lock, mutex, held, reply>>))
    BY <1>6 DEF Rebuild
  <2>2. watcher' \in Watcher /\ changes' \in 0..MaxChange /\ epoch' \in Nat /\ dirty' \in BOOLEAN
    BY <1>6, <2>1, Takes DEF Rebuild
  <2>3. CASE Fail(c)
    BY <1>6, <2>2, <2>3, FailType DEF Rebuild
  <2>4. CASE /\ Goto(c, "capture") /\ capture' = FirstCapture
             /\ UNCHANGED <<lock, mutex, held, reply>>
    <3>1. FirstCapture \in Capture
      BY ResetTypes DEF FirstCapture, Capture, Document, Place
    <3> QED BY <1>6, <2>2, <2>4, <3>1 DEF Rebuild, Goto, LockTypeOK, Label
  <2> QED BY <2>1, <2>3, <2>4
<1>7. CASE ReadPlace(c)
  <2>1. capture' \in Capture
    <3>1. PICK p \in capture.todo :
             capture' = [capture EXCEPT !.todo = @ \ {p}, !.read[p] = Content(p)]
      BY <1>7 DEF ReadPlace
    <3>2. /\ capture.todo \in SUBSET Place /\ capture.read \in [Place -> Stamp]
          /\ p \in Place /\ Content(p) \in Stamp
      BY TruthType DEF Capture, Document
    <3>3. [capture.read EXCEPT ![p] = Content(p)] \in [Place -> Stamp]
      BY <3>2
    <3> QED BY <3>1, <3>2, <3>3 DEF Capture, Document
  <2> QED BY <1>7, <2>1 DEF ReadPlace, LockTypeOK
<1>8. CASE CaptureFails(c)
  BY <1>8, FailType DEF CaptureFails
<1>9. CASE WatchNewRoots(c)
  <2> DEFINE grown == [watcher EXCEPT !.roots = @ \cup NewRoots]
  <2>1. grown \in Watcher /\ [grown EXCEPT !.valid = FALSE] \in Watcher
    BY DEF Watcher, NewRoots
  <2>2. Extended(grown) \in Watcher
    BY <2>1, ExtendedType
  <2>3. watcher' \in Watcher /\ changes' \in 0..MaxChange
    BY <1>9, <2>1, <2>2, ServiceAssumption DEF WatchNewRoots
  <2>4. CASE Fail(c)
    BY <1>9, <2>3, <2>4, FailType DEF WatchNewRoots
  <2>5. CASE /\ capture' = [capture EXCEPT !.todo = Place \ {"config"}, !.round = 2]
             /\ UNCHANGED <<lock, changes, mutex, held, pc, reply>>
    <3>1. capture' \in Capture
      <4>1. Place \ {"config"} \in SUBSET Place /\ 2 \in 1..2
        OBVIOUS
      <4> QED BY <2>5, <4>1 DEF Capture
    <3> QED BY <1>9, <2>3, <2>5, <3>1 DEF WatchNewRoots, LockTypeOK
  <2> QED BY <1>9, <2>4, <2>5 DEF WatchNewRoots
<1>10. CASE Captured(c)
  BY <1>10 DEF Captured, Goto, LockTypeOK, Label
<1>11. CASE Publish(c)
  <2>1. PICK d \in Drains :
           /\ Took(d) /\ dirty' = (~d.ok \/ d.news)
           /\ generation' = IF d.ok THEN capture.read ELSE generation
           /\ \/ Fail(c)
              \/ /\ mutex' = Nobody /\ capture' = NoCapture
                 /\ Hold(c, [held[c] EXCEPT !.document = capture.read, !.epoch = epoch])
                 /\ Goto(c, "check") /\ UNCHANGED <<lock, reply>>
    BY <1>11 DEF Publish
  <2>2. /\ watcher' \in Watcher /\ changes' \in 0..MaxChange /\ epoch' \in Nat
        /\ dirty' \in BOOLEAN /\ generation' \in Document
    BY <2>1, Takes DEF Capture
  <2>3. CASE Fail(c)
    BY <1>11, <2>2, <2>3, FailType DEF Publish
  <2>4. CASE /\ mutex' = Nobody /\ capture' = NoCapture
             /\ Hold(c, [held[c] EXCEPT !.document = capture.read, !.epoch = epoch])
             /\ Goto(c, "check") /\ UNCHANGED <<lock, reply>>
    <3>1. held' \in [Proc -> Held]
      BY <2>4 DEF Hold, Held, Capture
    <3> QED BY <1>11, <2>2, <2>4, <3>1, ResetTypes DEF Publish, Goto, LockTypeOK, Label
  <2> QED BY <2>1, <2>3, <2>4
<1>12. CASE Check(c)
  <2>1. PICK d \in Drains :
           /\ Took(d) /\ dirty' = (dirty \/ d.news)
           /\ \/ Finish(c, held[c].document)
              \/ /\ Release(c) /\ Hold(c, [NoHeld EXCEPT !.attempt = 1])
                 /\ Goto(c, "enter") /\ UNCHANGED reply
              \/ Finish(c, Declined)
    BY <1>12 DEF Check
  <2>2. watcher' \in Watcher /\ changes' \in 0..MaxChange /\ epoch' \in Nat /\ dirty' \in BOOLEAN
    BY <2>1, Takes
  <2>3. CASE Finish(c, held[c].document) \/ Finish(c, Declined)
    <3>1. held[c].document \in Document
      BY DEF Held
    <3>2. PICK answer \in Document \cup {Unasked, Waiting, Declined} : Finish(c, answer)
      BY <2>3, <3>1
    <3> QED BY <1>12, <2>2, <3>2, FinishType DEF Check
  <2>4. CASE /\ Release(c) /\ Hold(c, [NoHeld EXCEPT !.attempt = 1])
             /\ Goto(c, "enter") /\ UNCHANGED reply
    <3>1. held' \in [Proc -> Held]
      BY <2>4, ResetTypes DEF Hold, Held, NoHeld
    <3> QED BY <1>12, <2>2, <2>4, <3>1 DEF Check, Goto, Release, LockTypeOK, Mode, Label
  <2> QED BY <2>1, <2>3, <2>4
<1> QED BY <1>1, <1>2, <1>3, <1>4, <1>5, <1>6, <1>7, <1>8, <1>9, <1>10, <1>11, <1>12 DEF Query

LEMMA RewriteType ==
    ASSUME TypeOK, writes < 2 * MaxRepair, Rewrite
    PROVE  /\ stamp' \in Document /\ writes' \in 0..(2 * MaxRepair) /\ watcher' \in Watcher
           /\ UNCHANGED <<inode, linked, changes, epoch, dirty, generation>>
<1>1. Fresh \in Stamp
  BY FreshStamp
<1>2. watcher' \in Watcher
  BY NotifyType DEF Rewrite
<1>3. stamp' \in Document
  BY <1>1 DEF Rewrite, TypeOK, Document
<1>4. writes' \in 0..(2 * MaxRepair)
  BY ServiceAssumption DEF Rewrite, TypeOK
<1> QED BY <1>2, <1>3, <1>4 DEF Rewrite

LEMMA TypeRepair ==
    ASSUME TypeOK, WritesPaired, NEW c \in Proc, Repair(c)
    PROVE  TypeOK'
<1> USE DEF TypeOK, world, bounds, state, locals
<1>1. CASE EnterRepair(c)
  BY <1>1 DEF EnterRepair, Goto, LockTypeOK, Label
<1>2. CASE Exclusive(c)
  BY <1>2 DEF Exclusive, TryAcquire, Goto, LockTypeOK, Mode, Label
<1>3. CASE Write(c)
  <2>1. CASE /\ writes < 2 * MaxRepair /\ Rewrite /\ Goto(c, "finish")
             /\ UNCHANGED <<lock, held, reply>>
    BY <1>3, <2>1, RewriteType DEF Write, Goto, LockTypeOK, Label
  <2>2. CASE /\ Goto(c, "republish")
             /\ UNCHANGED <<lock, held, reply, world, bounds, state>>
    BY <1>3, <2>2 DEF Write, Goto, LockTypeOK, Label
  <2>3. CASE /\ Goto(c, "late") /\ Release(c)
             /\ UNCHANGED <<held, reply, world, bounds, state>>
    BY <1>3, <2>3 DEF Write, Goto, Release, LockTypeOK, Mode, Label
  <2>4. CASE Finish(c, reply[c]) /\ UNCHANGED <<world, bounds, state>>
    BY <1>3, <2>4, FinishType DEF Write
  <2> QED BY <1>3, <2>1, <2>2, <2>3, <2>4 DEF Write
<1>4. CASE FinishWrite(c)
  <2>1. writes % 2 = 1
    BY <1>4 DEF FinishWrite, WritesPaired, Repairing
  <2>2. writes < 2 * MaxRepair
    BY <2>1, ServiceAssumption
  <2> QED BY <1>4, <2>2, RewriteType DEF FinishWrite, Goto, LockTypeOK, Label
<1>5. CASE Republish(c)
  BY <1>5 DEF Republish, Goto, LockTypeOK, Label
<1>6. CASE Late(c)
  <2>1. PICK d \in Drains : Took(d) /\ dirty' = (dirty \/ d.news)
    BY <1>6 DEF Late
  <2>2. watcher' \in Watcher /\ changes' \in 0..MaxChange /\ epoch' \in Nat /\ dirty' \in BOOLEAN
    BY <2>1, Takes
  <2> QED BY <1>6, <2>2, FinishType DEF Late
<1> QED BY <1>1, <1>2, <1>3, <1>4, <1>5, <1>6 DEF Repair

LEMMA TypeStep ==
    ASSUME TypeOK, WritesPaired, [Next]_vars
    PROVE  TypeOK'
<1>1. CASE UNCHANGED vars
  BY <1>1 DEF vars, world, bounds, state, locals, TypeOK, LockTypeOK
<1> QED BY <1>1, TypeEnvironment, TypeRestart, TypeRequests, TypeQuery, TypeRepair DEF Next, Work

-----------------------------------------------------------------------------
(* Steps keep what is known of the threads.                                *)

Known == ThreadsKnown /\ GuardsHeld /\ DomainExclusion

\* What the steps below have in common: a thread goes on, and lets go of the
\* domain when it ends or goes back.
LEMMA KnownFinish ==
    ASSUME TypeOK, Known, NEW c \in Proc, NEW answer \in Document \cup {Unasked, Declined},
           Finish(c, answer), mutex' = mutex, mutex # c
    PROVE  Known'
BY AnswersDiffer DEF TypeOK, Known, ThreadsKnown, GuardsHeld, DomainExclusion, Finish, Goto,
   Release, Hold, Asking, LockTypeOK, Rebuilding, QueryLabel, RepairLabel, Unguarded

LEMMA KnownFail ==
    ASSUME TypeOK, Known, NEW c \in Proc, mutex = c, Fail(c)
    PROVE  Known'
<1> USE AnswersDiffer DEF TypeOK, Known, ThreadsKnown, GuardsHeld, DomainExclusion, Fail, Goto,
    Release, Hold, Asking, IsRepair, LockTypeOK, Rebuilding, QueryLabel, RepairLabel, Unguarded
<1>1. CASE IsRepair(c)
  BY <1>1
<1>2. CASE ~IsRepair(c)
  BY <1>2 DEF Finish
<1> QED BY <1>1, <1>2

LEMMA KnownRequests ==
    ASSUME TypeOK, Known, NEW c \in Proc, Ask(c) \/ TurnAway(c) \/ AskRepair(c)
    PROVE  Known'
BY AnswersDiffer DEF TypeOK, Known, ThreadsKnown, GuardsHeld, DomainExclusion, Ask, TurnAway,
   AskRepair, Goto, Asking, LockTypeOK, Rebuilding, QueryLabel, RepairLabel, Unguarded

LEMMA KnownQuery ==
    ASSUME TypeOK, Known, NEW c \in Proc, Query(c)
    PROVE  Known'
<1>0. \A e \in Proc : pc[e] \in Rebuilding <=> mutex = e
  BY DEF Known, ThreadsKnown
<1>1. CASE \/ Enter(c) /\ mutex = Nobody
           \/ Domain(c)
           \/ HitOrRebuild(c) /\ pc'[c] # "idle"
  BY <1>1, AnswersDiffer DEF Enter, Domain, HitOrRebuild, TryAcquire, Compatible, TypeOK, Known,
     ThreadsKnown, GuardsHeld, DomainExclusion, Goto, Asking, LockTypeOK, Rebuilding,
     QueryLabel, RepairLabel, Unguarded, Finish
<1>2. CASE (Enter(c) /\ mutex # Nobody) \/ StateBusy(c)
  BY <1>0, <1>2, KnownFinish DEF Enter, StateBusy, Rebuilding
<1>3. CASE DomainTimeout(c)
  <2>1. pc[c] = "exclusive" => reply[c] \in Document \cup {Unasked, Declined}
    BY DEF Known, ThreadsKnown, RepairLabel, Asking, TypeOK
  <2> QED BY <1>0, <1>3, <2>1, KnownFinish DEF DomainTimeout, Rebuilding
<1>4. CASE HitOrRebuild(c) /\ pc'[c] = "idle"
  BY <1>0, <1>4, KnownFinish, AnswersDiffer DEF HitOrRebuild, Rebuilding, TypeOK, Goto
<1>5. CASE Rebuild(c)
  <2>1. CASE Fail(c)
    BY <1>0, <1>5, <2>1, KnownFail DEF Rebuild, Rebuilding
  <2>2. CASE Goto(c, "capture") /\ UNCHANGED <<lock, mutex, reply>>
    BY <1>5, <2>2 DEF Rebuild, TypeOK, Known, ThreadsKnown, GuardsHeld, DomainExclusion, Goto,
       Asking, Rebuilding, QueryLabel, RepairLabel, Unguarded
  <2> QED BY <1>5, <2>1, <2>2 DEF Rebuild
<1>6. CASE ReadPlace(c)
  BY <1>6 DEF ReadPlace, Known, ThreadsKnown, GuardsHeld, DomainExclusion, Asking
<1>7. CASE CaptureFails(c)
  BY <1>0, <1>7, KnownFail DEF CaptureFails, Rebuilding
<1>8. CASE WatchNewRoots(c)
  <2>1. CASE Fail(c)
    BY <1>0, <1>8, <2>1, KnownFail DEF WatchNewRoots, Rebuilding
  <2>2. CASE UNCHANGED <<lock, mutex, pc, reply>>
    BY <2>2 DEF Known, ThreadsKnown, GuardsHeld, DomainExclusion, Asking
  <2> QED BY <1>8, <2>1, <2>2 DEF WatchNewRoots
<1>9. CASE Captured(c)
  BY <1>9 DEF Captured, TypeOK, Known, ThreadsKnown, GuardsHeld, DomainExclusion, Goto, Asking,
     Rebuilding, QueryLabel, RepairLabel, Unguarded
<1>10. CASE Publish(c)
  <2>1. CASE Fail(c)
    BY <1>0, <1>10, <2>1, KnownFail DEF Publish, Rebuilding
  <2>2. CASE ~IsRepair(c) /\ mutex' = Nobody /\ Goto(c, "check") /\ UNCHANGED <<lock, reply>>
    BY <1>0, <1>10, <2>2, AnswersDiffer DEF Publish, IsRepair, TypeOK, Known, ThreadsKnown,
       GuardsHeld, DomainExclusion, Goto, Asking, Rebuilding, QueryLabel, RepairLabel, Unguarded
  <2> QED BY <1>10, <2>1, <2>2 DEF Publish
<1>11. CASE Check(c)
  <2>1. CASE Finish(c, held[c].document) \/ Finish(c, Declined)
    <3>1. held[c].document \in Document
      BY DEF TypeOK, Held
    <3> QED BY <1>0, <1>11, <2>1, <3>1, KnownFinish DEF Check, Rebuilding
  <2>2. CASE Release(c) /\ Goto(c, "enter") /\ UNCHANGED reply
    BY <1>11, <2>2 DEF Check, Release, TypeOK, LockTypeOK, Known, ThreadsKnown, GuardsHeld,
       DomainExclusion, Goto, Asking, Rebuilding, QueryLabel, RepairLabel, Unguarded
  <2> QED BY <1>11, <2>1, <2>2 DEF Check
<1> QED BY <1>1, <1>2, <1>3, <1>4, <1>5, <1>6, <1>7, <1>8, <1>9, <1>10, <1>11
        DEF Query

LEMMA KnownRepair ==
    ASSUME TypeOK, Known, NEW c \in Proc, Repair(c)
    PROVE  Known'
<1>0. /\ \A e \in Proc : pc[e] \in Rebuilding <=> mutex = e
      /\ pc[c] \in RepairLabel => reply[c] \in Document \cup {Unasked, Declined}
  BY DEF Known, ThreadsKnown, Asking, TypeOK
<1>1. CASE EnterRepair(c) \/ Exclusive(c) \/ FinishWrite(c) \/ Republish(c)
  BY <1>1, AnswersDiffer DEF EnterRepair, Exclusive, FinishWrite, Republish, TryAcquire,
     Compatible, TypeOK, LockTypeOK, Known, ThreadsKnown, GuardsHeld, DomainExclusion, Goto,
     Asking, Rebuilding, QueryLabel, RepairLabel, Unguarded
<1>2. CASE Write(c)
  <2>1. CASE Finish(c, reply[c])
    BY <1>0, <1>2, <2>1, KnownFinish DEF Write, Rebuilding, RepairLabel
  <2>2. CASE (Goto(c, "finish") \/ Goto(c, "republish")) /\ UNCHANGED <<lock, reply>>
    BY <1>2, <2>2 DEF Write, TypeOK, LockTypeOK, Known, ThreadsKnown, GuardsHeld,
       DomainExclusion, Goto, Asking, Rebuilding, QueryLabel, RepairLabel, Unguarded
  <2>3. CASE Goto(c, "late") /\ Release(c) /\ UNCHANGED reply
    BY <1>2, <2>3 DEF Write, Release, TypeOK, LockTypeOK, Known, ThreadsKnown, GuardsHeld,
       DomainExclusion, Goto, Asking, Rebuilding, QueryLabel, RepairLabel, Unguarded
  <2> QED BY <1>2, <2>1, <2>2, <2>3 DEF Write
<1>3. CASE Late(c)
  BY <1>0, <1>3, KnownFinish DEF Late, Rebuilding, RepairLabel
<1> QED BY <1>1, <1>2, <1>3 DEF Repair

LEMMA KnownStep ==
    ASSUME TypeOK, Known, [Next]_vars
    PROVE  Known'
<1>1. CASE Environment \/ UNCHANGED vars
  <2>1. UNCHANGED <<lock, mutex, pc, reply>>
    BY <1>1 DEF Environment, WriteWork, WriteDir, MakeDir, RemoveDir, WriteConfig, SwapAncestor,
       Disturb, vars
  <2> QED BY <2>1 DEF Known, ThreadsKnown, GuardsHeld, DomainExclusion, Asking
<1>2. CASE Restart
  BY <1>2, AnswersDiffer DEF Restart, TypeOK, Known, ThreadsKnown, GuardsHeld, DomainExclusion,
     Asking, Rebuilding, QueryLabel, RepairLabel, Unguarded
<1> QED BY <1>1, <1>2, KnownRequests, KnownQuery, KnownRepair DEF Next, Work

\* Only the two writes of a repair change their number or who is between them.
LEMMA PairedStep ==
    ASSUME TypeOK, Known, WritesPaired, [Next]_vars
    PROVE  WritesPaired'
<1>1. ASSUME writes' = writes, \A e \in Proc : pc'[e] = "finish" <=> pc[e] = "finish"
      PROVE  WritesPaired'
  BY <1>1 DEF WritesPaired, Repairing
<1>2. CASE Environment \/ UNCHANGED vars
  BY <1>1, <1>2 DEF Environment, WriteWork, WriteDir, MakeDir, RemoveDir, WriteConfig,
     SwapAncestor, Disturb, vars, bounds
<1>3. CASE Restart
  BY <1>1, <1>3 DEF Restart, Repairing
<1>4. ASSUME NEW c \in Proc, Ask(c) \/ TurnAway(c) \/ AskRepair(c) PROVE WritesPaired'
  BY <1>1, <1>4 DEF Ask, TurnAway, AskRepair, Goto, TypeOK, bounds
<1>5. ASSUME NEW c \in Proc, Query(c) PROVE WritesPaired'
  <2> USE DEF TypeOK, Goto, Finish, Fail, bounds
  <2>1. CASE Enter(c) \/ Domain(c) \/ DomainTimeout(c) \/ HitOrRebuild(c) \/ StateBusy(c)
    BY <1>1, <2>1 DEF Enter, Domain, DomainTimeout, HitOrRebuild, StateBusy, Took
  <2>2. CASE Rebuild(c) \/ ReadPlace(c) \/ CaptureFails(c)
    BY <1>1, <2>2 DEF Rebuild, ReadPlace, CaptureFails, Took
  <2>3. CASE WatchNewRoots(c) \/ Captured(c)
    BY <1>1, <2>3 DEF WatchNewRoots, Captured
  <2>4. CASE Publish(c) \/ Check(c)
    BY <1>1, <2>4 DEF Publish, Check, Took
  <2> QED BY <1>5, <2>1, <2>2, <2>3, <2>4 DEF Query
<1>6. ASSUME NEW c \in Proc, Repair(c) PROVE WritesPaired'
  <2> USE DEF TypeOK, Goto, Finish, bounds
  <2>1. CASE EnterRepair(c) \/ Exclusive(c) \/ Republish(c) \/ Late(c)
    BY <1>1, <2>1 DEF EnterRepair, Exclusive, Republish, Late, Took
  <2>2. CASE Write(c) /\ pc'[c] # "finish"
    BY <1>1, <2>2 DEF Write, Rewrite
  <2>3. ASSUME lock[c] = "exclusive", NEW e \in Proc, e # c PROVE pc[e] # "finish"
    BY <2>3 DEF Known, GuardsHeld, DomainExclusion
  <2>4. CASE Write(c) /\ pc'[c] = "finish"
    <3>1. ~Repairing /\ Repairing'
      BY <2>3, <2>4 DEF Write, Repairing, Known, GuardsHeld
    <3>2. writes % 2 = 0 /\ writes' = writes + 1
      BY <2>4, <3>1 DEF Write, Rewrite, WritesPaired
    <3> QED BY <3>1, <3>2 DEF WritesPaired
  <2>5. CASE FinishWrite(c)
    <3>1. Repairing /\ ~Repairing'
      BY <2>3, <2>5 DEF FinishWrite, Repairing, Known, GuardsHeld
    <3>2. writes % 2 = 1 /\ writes' = writes + 1
      BY <2>5, <3>1 DEF FinishWrite, Rewrite, WritesPaired
    <3> QED BY <3>1, <3>2 DEF WritesPaired
  <2> QED BY <1>6, <2>1, <2>2, <2>4, <2>5 DEF Repair
<1> QED BY <1>2, <1>3, <1>4, <1>5, <1>6 DEF Next, Work

-----------------------------------------------------------------------------
(* Steps keep the coverage.                                                *)

\* A new root is installed, or the watcher is known to be incomplete.
LEMMA NewRootCovered ==
    ASSUME TypeOK, Coverage(watcher), NewRoots # {}, inode["ext"] # 0
    PROVE  LET grown == [watcher EXCEPT !.roots = @ \cup NewRoots]
           IN  /\ Coverage(Extended(grown)) /\ Coverage([grown EXCEPT !.valid = FALSE])
               /\ Extended(grown).roots = {"ext"}
               /\ Extended(grown).valid = watcher.valid /\ Extended(grown).queue = watcher.queue
BY DEF TypeOK, Coverage, NewRoots, Extended, Watcher, Watchable, Base

LEMMA CoverageStep ==
    ASSUME TypeOK, Coverage(watcher), "ancestor" \notin Blind, [Next]_vars
    PROVE  Coverage(watcher)'
<1>0. ASSUME Coverage(watcher'), inode' = inode PROVE Coverage(watcher)'
  BY <1>0 DEF Coverage
<1>1. CASE UNCHANGED <<watcher, inode>>
  BY <1>1 DEF Coverage
<1>2. ASSUME NEW S, Notify(S), UNCHANGED inode PROVE Coverage(watcher)'
  BY <1>2 DEF TypeOK, Watcher, Notify, Coverage
<1>3. CASE Environment
  <2>1. CASE WriteWork \/ \E p \in {"sub", "ext"} : WriteDir(p)
    BY <1>2, <2>1 DEF WriteWork, WriteDir
  <2>2. ASSUME NEW p \in {"sub", "ext"}, MakeDir(p) PROVE Coverage(watcher)'
    BY <2>2 DEF TypeOK, Watcher, MakeDir, Notify, Coverage, Covered, Watchable, Base
  <2>3. ASSUME NEW p \in {"sub", "ext"}, RemoveDir(p) PROVE Coverage(watcher)'
    BY <2>3 DEF TypeOK, Watcher, RemoveDir, Notify, Coverage, Covered, Watchable, Base
  <2>4. CASE WriteConfig
    BY <1>1, <2>4 DEF WriteConfig
  <2> QED BY <1>3, <2>1, <2>2, <2>3, <2>4 DEF Environment, SwapAncestor
<1>4. CASE Restart
  <2>1. Coverage(NewWatcher({}))
    BY NewWatcherCovers DEF Missing
  <2> QED BY <1>0, <1>4, <2>1 DEF Restart, world
<1>5. ASSUME NEW c \in Proc, Ask(c) \/ TurnAway(c) \/ AskRepair(c) PROVE Coverage(watcher)'
  BY <1>1, <1>5 DEF Ask, TurnAway, AskRepair, world, state
<1>6. ASSUME NEW d \in Drains, Took(d), UNCHANGED world PROVE Coverage(watcher)'
  BY <1>0, <1>6, Takes DEF world
<1>7. ASSUME NEW c \in Proc, Query(c) PROVE Coverage(watcher)'
  <2>1. CASE Enter(c) \/ Domain(c) \/ DomainTimeout(c) \/ StateBusy(c)
    BY <1>1, <2>1 DEF Enter, Domain, DomainTimeout, StateBusy, world, state
  <2>2. CASE HitOrRebuild(c) \/ Rebuild(c) \/ Publish(c) \/ Check(c)
    BY <1>6, <2>2 DEF HitOrRebuild, Rebuild, Publish, Check
  <2>3. CASE ReadPlace(c) \/ CaptureFails(c) \/ Captured(c)
    BY <1>1, <2>3 DEF ReadPlace, CaptureFails, Captured, world, state
  <2>4. CASE WatchNewRoots(c)
    BY <1>0, <2>4, NewRootCovered DEF WatchNewRoots, world
  <2> QED BY <1>7, <2>1, <2>2, <2>3, <2>4 DEF Query
<1>8. ASSUME NEW c \in Proc, Repair(c) PROVE Coverage(watcher)'
  <2>1. CASE EnterRepair(c) \/ Exclusive(c) \/ Republish(c)
    BY <1>1, <2>1 DEF EnterRepair, Exclusive, Republish, world, state
  <2>2. CASE Write(c) \/ FinishWrite(c)
    BY <1>1, <1>2, <2>2 DEF Write, FinishWrite, Rewrite, world, state
  <2>3. CASE Late(c)
    BY <1>6, <2>3 DEF Late
  <2> QED BY <1>8, <2>1, <2>2, <2>3 DEF Repair
<1>9. CASE UNCHANGED vars
  BY <1>1, <1>9 DEF vars, world, state
<1> QED BY <1>3, <1>4, <1>5, <1>7, <1>8, <1>9 DEF Next, Work

-----------------------------------------------------------------------------
(* Steps keep what the service knows of the world.                         *)

\* A step that the service does not notice: if all is quiet after it, it was
\* quiet before, and nothing moved but what is not watched and not linked to.
Calm ==
    Quiet' =>
        /\ Quiet /\ linked' = linked /\ watcher'.roots = watcher.roots
        /\ \A p \in Place : (p = "ext" => Scoped) => Content(p)' = Content(p)

\* Whatever changes in the world is reported, unless it is not watched.
LEMMA ChangesAreCalm ==
    ASSUME TypeOK, Coverage(watcher), Blind = {}, Environment \/ Rewrite
    PROVE  Calm
<1> SUFFICES ASSUME Quiet' PROVE Calm
  BY DEF Calm
<1>1. ASSUME NEW S \in SUBSET {"event", "newdir", "gone"}, Notify(S)
      PROVE  Quiet /\ S = {} /\ watcher' = watcher
  BY <1>1 DEF TypeOK, Watcher, Notify, Quiet, Silent
<1>2. Quiet => /\ Covered("work") /\ Covered("sub")
               /\ "ext" \in watcher.roots => Covered("ext") /\ inode["ext"] # 0
               /\ "ext" \notin watcher.roots => watcher.watched["ext"] = 0
  BY DEF Quiet, Silent, Coverage, Covered
<1> USE DEF Calm, Content, Scoped, TypeOK, Document, Place
<1>3. CASE WriteWork \/ Rewrite
  BY <1>1, <1>2, <1>3 DEF WriteWork, Rewrite
<1>4. ASSUME NEW p \in {"sub", "ext"}, WriteDir(p) PROVE Calm
  BY <1>1, <1>2, <1>4 DEF WriteDir
<1>5. ASSUME NEW p \in {"sub", "ext"}, MakeDir(p) PROVE Calm
  BY <1>1, <1>2, <1>5 DEF MakeDir
<1>6. ASSUME NEW p \in {"sub", "ext"}, RemoveDir(p) PROVE Calm
  BY <1>1, <1>2, <1>6 DEF RemoveDir
<1> QED BY <1>3, <1>4, <1>5, <1>6 DEF Environment, WriteConfig, SwapAncestor

\* Where the watcher and the world stand still, all is calm.
LEMMA StillIsCalm ==
    ASSUME UNCHANGED <<watcher, world>>
    PROVE  Calm /\ (Quiet' <=> Quiet) /\ (Scoped' <=> Scoped) /\ Truth' = Truth
           /\ \A p \in Place : Content(p)' = Content(p)
BY DEF Calm, Quiet, Silent, Scoped, Content, Truth, world

\* A thread that does not come to hold a document keeps a right one.
Holds(e) ==
    /\ held'[e] = held[e] \/ held'[e].epoch = 0
    /\ pc'[e] = "check" => pc[e] = "check" /\ held'[e] = held[e]

LEMMA CalmTruth ==
    ASSUME Calm, Quiet', Scoped
    PROVE  Scoped' /\ Truth' = Truth
<1>1. \A p \in Place : Content(p)' = Content(p)
  BY DEF Calm
<1> QED BY <1>1 DEF Calm, Scoped, Truth

LEMMA CalmKeeps ==
    ASSUME TypeOK, FreshInv, Calm, UNCHANGED <<epoch, dirty, generation>>,
           \A e \in Proc : Holds(e),
           \A e \in Proc : pc'[e] \in {"capture", "publish"}
                              => pc'[e] = pc[e] /\ capture' = capture
    PROVE  FreshInv'
<1>1. GenerationKnown'
  BY CalmTruth DEF FreshInv, GenerationKnown, Calm
<1>2. HeldKnown'
  <2> SUFFICES ASSUME NEW e \in Proc PROVE HeldRight(e)'
    BY DEF HeldKnown
  <2>1. HeldRight(e) /\ Holds(e) /\ epoch \in Nat
    BY DEF FreshInv, HeldKnown, TypeOK
  <2>2. held'[e].epoch <= epoch'
    BY <2>1 DEF HeldRight, Holds
  <2>3. ASSUME pc'[e] = "check", held'[e].epoch = epoch', Quiet'
        PROVE  Scoped' /\ held'[e].document = Truth'
    <3>1. Scoped /\ held[e].document = Truth
      BY <2>1, <2>3 DEF HeldRight, Holds, Calm
    <3> QED BY <2>1, <2>3, <3>1, CalmTruth DEF Holds
  <2> QED BY <2>2, <2>3 DEF HeldRight
<1>3. CaptureKnown'
  <2> SUFFICES ASSUME NEW e \in Proc, pc'[e] \in {"capture", "publish"}
               PROVE  /\ dirty'
                      /\ Quiet' => \A p \in Place \ capture'.todo :
                            (p = "ext" => Scoped') => capture'.read[p] = Content(p)'
                      /\ pc'[e] = "publish" => capture'.todo = {} /\ (Quiet' => Scoped')
    BY DEF CaptureKnown
  <2>1. Quiet' => (Scoped' <=> Scoped)
    BY DEF Calm, Scoped
  <2> QED BY <2>1 DEF FreshInv, CaptureKnown, Calm
<1> QED BY <1>1, <1>2, <1>3 DEF FreshInv

\* After a drain an old epoch is recognised, and without news all is as before.
LEMMA DrainKeeps ==
    ASSUME TypeOK, FreshInv, NEW d \in Drains, Took(d), UNCHANGED world,
           NEW e \in Proc, Holds(e)
    PROVE  HeldRight(e)'
<1>1. HeldRight(e) /\ epoch \in Nat /\ held[e].epoch \in Nat
  BY DEF FreshInv, HeldKnown, TypeOK, Held
<1>2. CASE d.news
  <2>1. epoch' = epoch + 1
    BY <1>2, Takes
  <2> QED BY <1>1, <2>1 DEF HeldRight, Holds
<1>3. CASE ~d.news
  <2>1. watcher' = watcher /\ epoch' = epoch
    BY <1>3, Takes
  <2> QED BY <1>1, <2>1, StillIsCalm DEF HeldRight, Holds
<1>4. d.news \in BOOLEAN
  BY Takes
<1> QED BY <1>2, <1>3, <1>4

LEMMA DrainGeneration ==
    ASSUME TypeOK, FreshInv, NEW d \in Drains, Took(d), UNCHANGED world,
           dirty' = (dirty \/ d.news), UNCHANGED generation
    PROVE  GenerationKnown'
<1>1. CASE ~dirty'
  <2>1. ~dirty /\ ~d.news /\ watcher' = watcher
    BY <1>1, Takes
  <2> QED BY <2>1, StillIsCalm DEF FreshInv, GenerationKnown
<1> QED BY <1>1 DEF GenerationKnown

\* The thread with the mutex is the only one that captures.
LEMMA NobodyElse ==
    ASSUME Known, NEW c \in Proc, mutex = c \/ mutex = Nobody, NEW e \in Proc, e # c
    PROVE  pc[e] \notin Rebuilding
BY AnswersDiffer DEF Known, ThreadsKnown

LEMMA FreshQuietSteps ==
    ASSUME TypeOK, Known, Coverage(watcher), Blind = {}, FreshInv, NEW c \in Proc,
           \/ Ask(c) \/ TurnAway(c) \/ AskRepair(c)
           \/ Enter(c) \/ Domain(c) \/ DomainTimeout(c) \/ StateBusy(c) \/ CaptureFails(c)
           \/ EnterRepair(c) \/ Exclusive(c) \/ Write(c) \/ FinishWrite(c) \/ Republish(c)
    PROVE  FreshInv'
<1> USE DEF Finish, Fail, Goto, Hold, NoHeld, TypeOK, state, locals, bounds
<1>1. Calm
  <2>1. CASE UNCHANGED <<watcher, world>>
    BY <2>1, StillIsCalm
  <2>2. CASE Write(c) \/ FinishWrite(c)
    BY <2>1, <2>2, ChangesAreCalm DEF Write, FinishWrite
  <2> QED BY <2>1, <2>2 DEF Ask, TurnAway, AskRepair, Enter, Domain, DomainTimeout, StateBusy,
             CaptureFails, EnterRepair, Exclusive, Republish
<1>2. UNCHANGED <<epoch, dirty, generation>>
  BY DEF Ask, TurnAway, AskRepair, Enter, Domain, DomainTimeout, StateBusy, CaptureFails,
     EnterRepair, Exclusive, Write, FinishWrite, Republish, Rewrite
<1>3. ASSUME NEW e \in Proc PROVE Holds(e)
  BY <1>3 DEF Holds, Ask, TurnAway, AskRepair, Enter, Domain, DomainTimeout, StateBusy,
     CaptureFails, EnterRepair, Exclusive, Write, FinishWrite, Republish
<1>4. ASSUME NEW e \in Proc, pc'[e] \in {"capture", "publish"}
      PROVE  pc'[e] = pc[e] /\ capture' = capture
  <2>1. CASE CaptureFails(c)
    <3>1. mutex = c
      BY <2>1 DEF CaptureFails, Known, ThreadsKnown, Rebuilding
    <3>2. e = c
      BY <1>4, <2>1, <3>1, NobodyElse DEF CaptureFails, Rebuilding
    <3> QED BY <1>4, <2>1, <3>2 DEF CaptureFails
  <2> QED BY <1>4, <2>1 DEF Ask, TurnAway, AskRepair, Enter, Domain, DomainTimeout, StateBusy,
             EnterRepair, Exclusive, Write, FinishWrite, Republish
<1> HIDE DEF Finish, Fail, Goto, Hold, NoHeld, TypeOK, state, locals, bounds
<1> QED BY <1>1, <1>2, <1>3, <1>4, CalmKeeps

\* The visits of the mutex that do not keep it.
LEMMA FreshVisits ==
    ASSUME TypeOK, Known, FreshInv, NEW c \in Proc,
           HitOrRebuild(c) \/ Check(c) \/ Late(c)
    PROVE  FreshInv'
<1> USE DEF Finish, Goto, Hold, NoHeld
<1>1. ASSUME NEW e \in Proc PROVE e # c => Holds(e)
  BY <1>1 DEF HitOrRebuild, Check, Late, Holds, TypeOK
<1>2. ASSUME NEW e \in Proc PROVE pc'[e] \notin {"capture", "publish"}
  <2>1. e # c => pc[e] \notin Rebuilding
    BY NobodyElse DEF HitOrRebuild, Check, Late
  <2> QED BY <2>1 DEF HitOrRebuild, Check, Late, TypeOK, Rebuilding
<1>3. CaptureKnown'
  BY <1>2 DEF CaptureKnown
<1>4. UNCHANGED <<world, generation>>
  BY DEF HitOrRebuild, Check, Late
<1>5. CASE Check(c) \/ Late(c)
  <2>1. PICK d \in Drains : Took(d) /\ dirty' = (dirty \/ d.news)
    BY <1>5 DEF Check, Late
  <2>2. Holds(c)
    BY <1>5 DEF Check, Late, Holds, TypeOK
  <2>3. GenerationKnown' /\ \A e \in Proc : HeldRight(e)'
    BY <1>1, <1>4, <2>1, <2>2, DrainKeeps, DrainGeneration
  <2> QED BY <1>3, <2>3 DEF FreshInv, HeldKnown
<1>6. CASE HitOrRebuild(c)
  <2>1. PICK d \in Drains :
          /\ Took(d) /\ dirty' = (dirty \/ d.news)
          /\ \/ pc' = [pc EXCEPT ![c] = "idle"] /\ held' = [held EXCEPT ![c] = NoHeld]
             \/ pc' = [pc EXCEPT ![c] = "rebuild"] /\ held' = held
             \/ /\ d.ok /\ ~dirty'
                /\ held' = [held EXCEPT ![c] =
                               [held[c] EXCEPT !.document = generation, !.epoch = epoch]]
                /\ pc' = [pc EXCEPT ![c] = "check"]
    BY <1>6 DEF HitOrRebuild
  <2>2. GenerationKnown' /\ \A e \in Proc : e # c => HeldRight(e)'
    BY <1>1, <1>4, <2>1, DrainKeeps, DrainGeneration
  <2>3. CASE \/ pc' = [pc EXCEPT ![c] = "idle"] /\ held' = [held EXCEPT ![c] = NoHeld]
             \/ pc' = [pc EXCEPT ![c] = "rebuild"] /\ held' = held
    <3>1. Holds(c)
      BY <2>3 DEF Holds, TypeOK
    <3>2. HeldRight(c)'
      BY <1>4, <2>1, <3>1, DrainKeeps
    <3> QED BY <1>3, <2>2, <3>2 DEF FreshInv, HeldKnown
  <2>4. CASE /\ d.ok /\ ~dirty'
             /\ held' = [held EXCEPT ![c] =
                            [held[c] EXCEPT !.document = generation, !.epoch = epoch]]
             /\ pc' = [pc EXCEPT ![c] = "check"]
    <3>1. held'[c].document = generation /\ held'[c].epoch = epoch
      BY <2>4 DEF TypeOK, Held
    <3>2. ~d.news /\ epoch' = epoch /\ Quiet'
      BY <2>1, <2>4, Takes
    <3>3. Scoped' /\ generation = Truth'
      BY <1>4, <2>2, <2>4, <3>2 DEF GenerationKnown
    <3>4. epoch \in Nat
      BY DEF TypeOK
    <3>5. HeldRight(c)'
      BY <3>1, <3>2, <3>3, <3>4 DEF HeldRight
    <3> QED BY <1>3, <2>2, <3>5 DEF FreshInv, HeldKnown
  <2> QED BY <2>1, <2>3, <2>4
<1> QED BY <1>5, <1>6

\* The steps of the thread that has the mutex.
LEMMA FreshCapture ==
    ASSUME TypeOK, Known, Coverage(watcher), Blind = {}, FreshInv, NEW c \in Proc,
           Rebuild(c) \/ ReadPlace(c) \/ WatchNewRoots(c) \/ Captured(c) \/ Publish(c)
    PROVE  FreshInv'
<1>0. mutex = c /\ \A e \in Proc : e # c => pc[e] \notin Rebuilding
  <2>1. mutex = c
    BY DEF Rebuild, ReadPlace, WatchNewRoots, Captured, Publish, Known, ThreadsKnown, Rebuilding
  <2> QED BY <2>1, NobodyElse
<1> USE DEF Finish, Fail, Goto, Hold, NoHeld
<1>1. ASSUME NEW e \in Proc, e # c PROVE Holds(e) /\ pc'[e] = pc[e]
  BY <1>1 DEF Rebuild, ReadPlace, WatchNewRoots, Captured, Publish, Holds, TypeOK, locals
<1>2. ASSUME pc'[c] \notin {"capture", "publish"} PROVE CaptureKnown'
  BY <1>0, <1>1, <1>2 DEF CaptureKnown, Rebuilding
<1>3. UNCHANGED world
  BY DEF Rebuild, ReadPlace, WatchNewRoots, Captured, Publish
<1> HIDE DEF Finish, Fail, Goto, Hold, NoHeld
<1>4. ASSUME Fail(c) PROVE Holds(c) /\ pc'[c] \notin {"capture", "publish"}
  BY <1>4 DEF Fail, Finish, Goto, Hold, NoHeld, Holds, TypeOK
<1>5. CASE Rebuild(c)
  <2>1. PICK d \in Drains :
          /\ Took(d)
          /\ \/ ~d.ok /\ Fail(c)
             \/ /\ d.ok /\ Goto(c, "capture") /\ capture' = FirstCapture
                /\ UNCHANGED <<lock, mutex, held, reply>>
    BY <1>5 DEF Rebuild
  <2>2. GenerationKnown' /\ dirty'
    BY <1>5 DEF Rebuild, GenerationKnown
  <2>3. Holds(c)
    BY <1>4, <2>1 DEF Holds, Goto, TypeOK
  <2>4. HeldKnown'
    BY <1>1, <1>3, <2>1, <2>3, DrainKeeps DEF HeldKnown
  <2>5. CASE Fail(c)
    BY <1>2, <1>4, <2>2, <2>4, <2>5 DEF FreshInv
  <2>6. CASE Goto(c, "capture") /\ capture' = FirstCapture
    <3>1. \A p \in Place \ capture'.todo : capture'.read[p] = Content(p)'
      <4>1. \A p \in Place \ capture'.todo : p = "config"
        BY <2>6 DEF FirstCapture
      <4>2. capture'.read["config"] = stamp["config"]
        BY <2>6 DEF FirstCapture, Nothing, Place
      <4>3. Content("config")' = stamp["config"]
        BY <1>3 DEF Content, world
      <4> QED BY <4>1, <4>2, <4>3
    <3>2. \A e \in Proc : pc'[e] \in {"capture", "publish"} => pc'[e] = "capture"
      BY <1>0, <1>1, <2>6 DEF Goto, TypeOK, Rebuilding
    <3>3. CaptureKnown'
      BY <2>2, <3>1, <3>2 DEF CaptureKnown
    <3> QED BY <2>2, <2>4, <3>3 DEF FreshInv
  <2> QED BY <2>1, <2>5, <2>6
<1>6. CASE ReadPlace(c)
  <2>1. PICK p \in capture.todo :
          capture' = [capture EXCEPT !.todo = @ \ {p}, !.read[p] = Content(p)]
    BY <1>6 DEF ReadPlace
  <2>2. /\ capture'.todo = capture.todo \ {p}
        /\ \A q \in Place : capture'.read[q] = IF q = p THEN Content(p) ELSE capture.read[q]
    BY <2>1 DEF TypeOK, Capture, Document
  <2>3. UNCHANGED <<watcher, world, pc, held, epoch, dirty, generation>>
    BY <1>6 DEF ReadPlace, state
  <2>4. UNCHANGED <<watcher, world>> /\ pc[c] = "capture"
    BY <1>6, <2>3 DEF ReadPlace
  <2>5. CaptureKnown'
    <3>1. \A e \in Proc : pc'[e] \in {"capture", "publish"} => e = c
      BY <1>0, <2>3 DEF Rebuilding
    <3>2. /\ dirty
          /\ Quiet => \A q \in Place \ capture.todo :
                (q = "ext" => Scoped) => capture.read[q] = Content(q)
      BY <2>4 DEF FreshInv, CaptureKnown
    <3>3. Quiet' => \A q \in Place \ capture'.todo :
                (q = "ext" => Scoped') => capture'.read[q] = Content(q)'
      BY <2>2, <2>4, <3>2, StillIsCalm
    <3> QED BY <2>3, <2>4, <3>1, <3>2, <3>3 DEF CaptureKnown
  <2>6. GenerationKnown'
    BY <2>3, <2>4, StillIsCalm DEF FreshInv, GenerationKnown
  <2>7. HeldKnown'
    BY <2>3, <2>4, StillIsCalm DEF FreshInv, HeldKnown, HeldRight
  <2> QED BY <2>5, <2>6, <2>7 DEF FreshInv
<1>7. CASE Captured(c)
  <2>1. UNCHANGED <<watcher, world, capture, held, epoch, dirty, generation>> /\ Goto(c, "publish")
    BY <1>7 DEF Captured, state, locals
  <2>2. UNCHANGED <<watcher, world>> /\ pc[c] = "capture"
    BY <1>7, <2>1 DEF Captured
  <2>3. capture.todo = {} /\ Scoped
    BY <1>7 DEF Captured, NewRoots, Scoped
  <2>4. CaptureKnown'
    <3>1. \A e \in Proc : pc'[e] \in {"capture", "publish"} => e = c
      BY <1>0, <2>1 DEF Goto, TypeOK, Rebuilding
    <3>2. dirty /\ (Quiet => \A q \in Place : capture.read[q] = Content(q))
      BY <2>2, <2>3 DEF FreshInv, CaptureKnown
    <3> QED BY <2>1, <2>2, <2>3, <3>1, <3>2, StillIsCalm DEF CaptureKnown
  <2>5. GenerationKnown'
    BY <2>1, <2>2, StillIsCalm DEF FreshInv, GenerationKnown
  <2>6. HeldKnown'
    <3>1. \A e \in Proc : pc'[e] = "check" => pc[e] = "check"
      BY <2>1 DEF Goto, TypeOK
    <3> QED BY <2>1, <2>2, <3>1, StillIsCalm DEF FreshInv, HeldKnown, HeldRight
  <2> QED BY <2>4, <2>5, <2>6 DEF FreshInv
<1>8. CASE WatchNewRoots(c)
  <2>1. UNCHANGED <<world, epoch, dirty, generation>> /\ pc[c] = "capture" /\ dirty
    BY <1>8 DEF WatchNewRoots, FreshInv, CaptureKnown
  <2>2. Quiet' => Quiet /\ Scoped'
    BY <1>8, NewRootCovered DEF WatchNewRoots, Quiet, Silent, Scoped, TypeOK, Watcher, NewRoots
  <2>3. Holds(c)
    BY <1>4, <1>8 DEF WatchNewRoots, Holds
  <2>4. HeldKnown'
    <3> SUFFICES ASSUME NEW e \in Proc PROVE HeldRight(e)'
      BY DEF HeldKnown
    <3>1. HeldRight(e) /\ Holds(e) /\ epoch \in Nat
      BY <1>1, <2>3 DEF FreshInv, HeldKnown, TypeOK
    <3>2. Truth' = Truth
      BY <2>1 DEF Truth, Content, world
    <3> QED BY <2>1, <2>2, <3>1, <3>2 DEF HeldRight, Holds
  <2>5. GenerationKnown'
    BY <2>1 DEF GenerationKnown
  <2>6. CaptureKnown'
    <3>1. CASE Fail(c)
      BY <1>2, <1>4, <3>1
    <3>2. CASE /\ capture' = [capture EXCEPT !.todo = Place \ {"config"}, !.round = 2]
               /\ capture.todo = {} /\ UNCHANGED pc
      <4>1. capture'.todo = Place \ {"config"} /\ capture'.read = capture.read
        BY <3>2 DEF TypeOK, Capture
      <4>2. \A e \in Proc : pc'[e] \in {"capture", "publish"} => e = c
        BY <1>0, <3>2 DEF Rebuilding
      <4>3. Quiet => capture.read["config"] = Content("config")
        BY <2>1, <3>2 DEF FreshInv, CaptureKnown, Place
      <4>4. Content("config")' = Content("config")
        BY <2>1 DEF Content, world
      <4> QED BY <2>1, <2>2, <3>2, <4>1, <4>2, <4>3, <4>4 DEF CaptureKnown
    <3> QED BY <1>8, <3>1, <3>2 DEF WatchNewRoots
  <2> QED BY <2>4, <2>5, <2>6 DEF FreshInv
<1>9. CASE Publish(c)
  <2>1. PICK d \in Drains :
          /\ Took(d) /\ dirty' = (~d.ok \/ d.news)
          /\ generation' = IF d.ok THEN capture.read ELSE generation
          /\ \/ Fail(c)
             \/ /\ ~dirty'
                /\ Hold(c, [held[c] EXCEPT !.document = capture.read, !.epoch = epoch])
                /\ Goto(c, "check")
    BY <1>9 DEF Publish
  <2>2. ASSUME ~dirty'
        PROVE  Scoped' /\ capture.read = Truth' /\ generation' = Truth' /\ epoch' = epoch
    <3>1. d.ok /\ ~d.news /\ watcher' = watcher /\ epoch' = epoch /\ Quiet'
      BY <2>1, <2>2, Takes
    <3>2. UNCHANGED <<watcher, world>> /\ Quiet
      BY <1>3, <3>1, StillIsCalm
    <3>3. Scoped /\ \A p \in Place : capture.read[p] = Content(p)
      BY <1>9, <3>2 DEF Publish, FreshInv, CaptureKnown
    <3>4. capture.read = Truth
      BY <3>3 DEF TypeOK, Capture, Document, Truth
    <3> QED BY <2>1, <3>1, <3>2, <3>3, <3>4, StillIsCalm
  <2>3. GenerationKnown'
    BY <2>2 DEF GenerationKnown
  <2>4. \A e \in Proc : e # c => HeldRight(e)'
    BY <1>1, <1>3, <2>1, DrainKeeps
  <2>5. HeldRight(c)'
    <3>1. CASE Fail(c)
      BY <1>3, <1>4, <2>1, <3>1, DrainKeeps
    <3>2. CASE /\ ~dirty'
               /\ Hold(c, [held[c] EXCEPT !.document = capture.read, !.epoch = epoch])
      <4>1. held'[c].document = capture.read /\ held'[c].epoch = epoch /\ epoch \in Nat
        BY <3>2 DEF Hold, TypeOK, Held
      <4> QED BY <2>2, <3>2, <4>1 DEF HeldRight
    <3> QED BY <2>1, <3>1, <3>2
  <2>6. CaptureKnown'
    BY <1>2, <1>4, <2>1 DEF Goto, TypeOK
  <2> QED BY <2>3, <2>4, <2>5, <2>6 DEF FreshInv, HeldKnown
<1> QED BY <1>5, <1>6, <1>7, <1>8, <1>9

LEMMA FreshStep ==
    ASSUME TypeOK, Known, Coverage(watcher), Blind = {}, FreshInv, [Next]_vars
    PROVE  FreshInv'
<1>1. CASE Environment \/ UNCHANGED vars
  <2>1. UNCHANGED <<epoch, dirty, generation, capture, held, pc>>
    BY <1>1 DEF Environment, WriteWork, WriteDir, MakeDir, RemoveDir, WriteConfig, SwapAncestor,
       Disturb, vars, state, locals
  <2>2. Calm
    BY <1>1, ChangesAreCalm, StillIsCalm DEF vars, state
  <2>3. \A e \in Proc : Holds(e)
    BY <2>1 DEF Holds
  <2> QED BY <2>1, <2>2, <2>3, CalmKeeps
<1>2. CASE Restart
  BY <1>2 DEF Restart, NoHeld, FreshInv, CaptureKnown, GenerationKnown, HeldKnown, HeldRight
<1> QED BY <1>1, <1>2, FreshQuietSteps, FreshVisits, FreshCapture DEF Next, Work, Query, Repair

-----------------------------------------------------------------------------
(* The invariant, in three parts: the first holds whatever no watch        *)
(* reports, the second needs directories that are not replaced by others,  *)
(* the third that every change is reported.                                *)

TypeInv == TypeOK /\ Known /\ WritesPaired

LEMMA KnownInit == Init => Known /\ WritesPaired
<1>1. Init => Known
  BY AnswersDiffer DEF Init, LockInit, Known, ThreadsKnown, GuardsHeld, DomainExclusion, Asking,
     Rebuilding, QueryLabel, RepairLabel, Unguarded
<1> QED BY <1>1 DEF Init, WritesPaired, Repairing

LEMMA CoverageInit == Init => Coverage(watcher)
<1>1. Init => Coverage(NewWatcher({}))
  BY TypeInit, NewWatcherCovers DEF Missing
<1> QED BY <1>1 DEF Init

LEMMA FreshStart == Init => FreshInv
BY DEF Init, NoHeld, FreshInv, CaptureKnown, GenerationKnown, HeldKnown, HeldRight

LEMMA TypeInvariance == Spec => []TypeInv
<1>1. Init => TypeInv
  BY TypeInit, KnownInit DEF TypeInv
<1>2. TypeInv /\ [Next]_vars => TypeInv'
  BY TypeStep, KnownStep, PairedStep DEF TypeInv
<1> QED BY <1>1, <1>2, PTL DEF Spec

LEMMA CoverageInvariance ==
    ASSUME "ancestor" \notin Blind
    PROVE  Spec => []Coverage(watcher)
<1>1. TypeInv /\ Coverage(watcher) /\ [Next]_vars => Coverage(watcher)'
  BY CoverageStep DEF TypeInv
<1> QED BY CoverageInit, <1>1, TypeInvariance, PTL DEF Spec

LEMMA FreshInvariance ==
    ASSUME Blind = {}
    PROVE  Spec => []FreshInv
<1>1. TypeInv /\ Coverage(watcher) /\ FreshInv /\ [Next]_vars => FreshInv'
  BY FreshStep DEF TypeInv
<1>2. Spec => []Coverage(watcher)
  BY CoverageInvariance
<1> QED BY FreshStart, <1>1, <1>2, TypeInvariance, PTL DEF Spec

-----------------------------------------------------------------------------
(* The theorems.                                                           *)

\* Every reachable state of the service is well typed.
THEOREM TypeCorrect == Spec => []TypeOK
BY TypeInvariance, PTL DEF TypeInv

\* A valid watcher whose queue is empty watches every tree of its roots under
\* the inode that the tree has now, if no parent directory is replaced.
THEOREM WatchesAreComplete ==
    ASSUME "ancestor" \notin Blind
    PROVE  Spec => []CoverageComplete
<1>1. TypeInv /\ Coverage(watcher) => CoverageComplete
  BY DEF TypeInv, TypeOK, Watcher, Coverage, CoverageComplete, Covered, Base
<1>2. Spec => []Coverage(watcher)
  BY CoverageInvariance
<1> QED BY <1>1, <1>2, TypeInvariance, PTL

\* If every change is reported, a clean generation behind a quiet watcher is
\* what a direct run would compute.
THEOREM GenerationIsTrue ==
    ASSUME Blind = {}
    PROVE  Spec => []TrustedGeneration
<1>1. FreshInv => TrustedGeneration
  BY DEF FreshInv, GenerationKnown, TrustedGeneration, Quiet, Silent
<1>2. Spec => []FreshInv
  BY FreshInvariance
<1> QED BY <1>1, <1>2, PTL

-----------------------------------------------------------------------------
(* The refinement.                                                         *)

\* A thread that is not between its writes and does not get there leaves the
\* repairs alone.
LEMMA SameRepairs ==
    ASSUME TypeOK, NEW c \in Proc, NEW label \in Label, label # "finish", pc[c] # "finish",
           Goto(c, label)
    PROVE  Repairing' = Repairing
BY DEF TypeOK, Goto, Repairing

\* A step that leaves the replies alone is one of the environment or a repair.
LEMMA ChangeMapped ==
    ASSUME TypeOK', UNCHANGED reply
    PROVE  Promise!Change
<1>1. Truth' \in Document
  <2>1. stamp' \in [Place -> Stamp] /\ 0 \in Stamp
    BY ServiceAssumption DEF TypeOK, Document, Stamp
  <2>2. \A p \in Place : Content(p)' \in Stamp
    BY <2>1 DEF Content
  <2> QED BY <2>2 DEF Truth, Document
<1> QED BY <1>1 DEF Promise!Change, Repairing

\* A query that ends without a document falls back.
LEMMA FallBackMapped ==
    ASSUME TypeOK, NEW c \in Proc, Asking(c), pc[c] # "finish", Finish(c, Declined),
           UNCHANGED world
    PROVE  Promise!FallBack
<1>1. Truth' = Truth /\ Repairing' = Repairing
  BY SameRepairs DEF Finish, Truth, Content, world, Label
<1>2. {c} \in SUBSET {e \in Proc : reply[e] = Waiting}
  BY DEF Asking
<1>3. Promise!ReplyOf({c}, Declined)
  BY DEF Promise!ReplyOf, Finish, TypeOK
<1> QED BY <1>1, <1>2, <1>3 DEF Promise!FallBack

\* A document that is served is the present one, and no repair is halfway: the
\* thread still holds the recovery domain.
LEMMA ServeMapped ==
    ASSUME TypeInv, FreshInv, NEW c \in Proc, Check(c)
    PROVE  [Promise!FreshNext]_(Promise!freshVars) \/ UNCHANGED reply
<1> USE DEF TypeInv
<1>1. Asking(c) /\ pc[c] = "check" /\ lock[c] = "shared" /\ UNCHANGED world
  BY DEF Check, Known, ThreadsKnown, GuardsHeld, QueryLabel
<1>2. PICK d \in Drains :
        /\ Took(d)
        /\ \/ d.ok /\ epoch' = held[c].epoch /\ Finish(c, held[c].document)
           \/ UNCHANGED reply
           \/ Finish(c, Declined)
  BY DEF Check
<1>3. CASE d.ok /\ epoch' = held[c].epoch /\ Finish(c, held[c].document)
  <2>1. HeldRight(c) /\ epoch \in Nat /\ held[c].epoch \in Nat
    BY DEF FreshInv, HeldKnown, TypeOK, Held
  <2>2. epoch' = epoch /\ Quiet
    BY <1>2, <1>3, <2>1, Takes DEF HeldRight, Quiet, Silent
  <2>3. held[c].document = Truth
    BY <1>1, <1>3, <2>1, <2>2 DEF HeldRight
  <2>4. ~Repairing
    BY <1>1 DEF Repairing, Known, GuardsHeld, DomainExclusion
  <2>5. Truth' = Truth /\ Repairing' = Repairing
    BY <1>1, <1>3, SameRepairs DEF Finish, Truth, Content, world, Label
  <2>6. Promise!ReplyOf({c}, Truth)
    BY <1>3, <2>3 DEF Promise!ReplyOf, Finish, TypeOK
  <2>7. Promise!Serve(c)
    BY <1>1, <2>4, <2>5, <2>6 DEF Promise!Serve, Asking
  <2> QED BY <2>7 DEF Promise!FreshNext
<1>4. CASE Finish(c, Declined)
  BY <1>1, <1>4, FallBackMapped DEF Promise!FreshNext
<1> QED BY <1>2, <1>3, <1>4

LEMMA QueryMapped ==
    ASSUME TypeInv, FreshInv, NEW c \in Proc, Query(c)
    PROVE  [Promise!FreshNext]_(Promise!freshVars) \/ UNCHANGED reply
<1> USE DEF TypeInv
<1>1. ASSUME pc[c] \in QueryLabel \/ Asking(c), pc[c] # "finish", Finish(c, Declined),
             UNCHANGED world
      PROVE  [Promise!FreshNext]_(Promise!freshVars)
  <2>1. Asking(c)
    BY <1>1 DEF Known, ThreadsKnown
  <2> QED BY <1>1, <2>1, FallBackMapped DEF Promise!FreshNext
<1>2. ASSUME pc[c] \in Rebuilding, Fail(c), UNCHANGED world
      PROVE  [Promise!FreshNext]_(Promise!freshVars) \/ UNCHANGED reply
  <2>1. CASE IsRepair(c)
    BY <1>2, <2>1 DEF Fail
  <2>2. CASE ~IsRepair(c)
    BY <1>1, <1>2, <2>2 DEF Fail, IsRepair, Rebuilding
  <2> QED BY <2>1, <2>2
<1>3. CASE Enter(c) \/ StateBusy(c)
  BY <1>1, <1>3 DEF Enter, StateBusy, QueryLabel
<1>4. CASE DomainTimeout(c)
  <2>1. CASE pc[c] = "exclusive" /\ Finish(c, reply[c])
    BY <2>1 DEF Finish, TypeOK
  <2> QED BY <1>1, <1>4, <2>1 DEF DomainTimeout, QueryLabel
<1>5. CASE HitOrRebuild(c)
  BY <1>1, <1>5 DEF HitOrRebuild, QueryLabel
<1>6. CASE Rebuild(c) \/ CaptureFails(c) \/ WatchNewRoots(c)
  BY <1>2, <1>6 DEF Rebuild, CaptureFails, WatchNewRoots, Rebuilding
<1>7. CASE Publish(c)
  BY <1>2, <1>7 DEF Publish, Rebuilding
<1>8. CASE Domain(c) \/ ReadPlace(c) \/ Captured(c)
  BY <1>8 DEF Domain, ReadPlace, Captured
<1> QED BY <1>3, <1>4, <1>5, <1>6, <1>7, <1>8, ServeMapped DEF Query

LEMMA RestartMapped ==
    ASSUME TypeInv, Restart
    PROVE  Promise!FallBack
<1> DEFINE S == {c \in Proc : reply[c] = Waiting}
<1>1. Truth' = Truth /\ Repairing' = Repairing
  BY DEF Restart, Truth, Content, world, Repairing
<1>2. Promise!ReplyOf(S, Declined)
  BY DEF Promise!ReplyOf, Restart, Asking
<1> QED BY <1>1, <1>2 DEF Promise!FallBack

LEMMA StepMapped ==
    ASSUME TypeInv, TypeOK', FreshInv, [Next]_vars
    PROVE  [Promise!FreshNext]_(Promise!freshVars)
<1>1. CASE UNCHANGED reply
  BY <1>1, ChangeMapped DEF Promise!FreshNext
<1>2. CASE Environment \/ UNCHANGED vars
  BY <1>1, <1>2 DEF Environment, WriteWork, WriteDir, MakeDir, RemoveDir, WriteConfig,
     SwapAncestor, Disturb, vars
<1>3. CASE Restart
  BY <1>3, RestartMapped DEF Promise!FreshNext
<1>4. ASSUME NEW c \in Proc, Ask(c) \/ TurnAway(c)
      PROVE  Promise!Request(c) \/ Promise!Refuse(c)
  <2>1. reply[c] # Waiting
    BY <1>4 DEF Ask, TurnAway, TypeInv, Known, ThreadsKnown, Asking
  <2>2. Truth' = Truth /\ Repairing' = Repairing
    BY <1>4, SameRepairs DEF TypeInv, Ask, TurnAway, Truth, Content, world, Label, Repairing
  <2> QED BY <1>4, <2>1, <2>2 DEF Ask, TurnAway, TypeInv, TypeOK, Promise!Request,
             Promise!Refuse, Promise!ReplyOf
<1>5. ASSUME NEW c \in Proc, Repair(c) \/ AskRepair(c) PROVE UNCHANGED reply
  BY <1>5 DEF AskRepair, Repair, EnterRepair, Exclusive, Write, FinishWrite, Republish, Late,
     Finish, TypeInv, TypeOK
<1> QED BY <1>1, <1>2, <1>3, <1>4, <1>5, QueryMapped DEF Next, Work, Promise!FreshNext

\* If every change is reported, the service implements the promise: fresh
\* documents, none from the middle of a repair, and otherwise a fallback.
THEOREM KeepsItsPromise ==
    ASSUME Blind = {}
    PROVE  Spec => ImplementsFreshAnswers
<1>1. Init => Promise!FreshInit
  BY TypeInit, TruthType DEF Init, Promise!FreshInit, Repairing
<1>2. TypeInv /\ TypeInv' /\ FreshInv /\ [Next]_vars => [Promise!FreshNext]_(Promise!freshVars)
  BY StepMapped DEF TypeInv
<1>3. Spec => []FreshInv
  BY FreshInvariance
<1> QED BY <1>1, <1>2, <1>3, TypeInvariance, PTL
        DEF Spec, ImplementsFreshAnswers, Promise!FreshSpec

\* A query that is answered gets what a direct run would compute at that
\* moment.
THEOREM AnswersAreTrue ==
    ASSUME Blind = {}
    PROVE  Spec => AnswersAreFresh
<1>1. ASSUME TypeInv, [Promise!FreshNext]_(Promise!freshVars),
             NEW c \in Proc, Asking(c), reply'[c] \in Document
      PROVE  reply'[c] = Truth
  BY <1>1, AnswersDiffer DEF TypeInv, TypeOK, Asking, Promise!FreshNext, Promise!freshVars,
     Promise!Change, Promise!FallBack, Promise!Request, Promise!Serve, Promise!Refuse,
     Promise!ReplyOf
<1>2. TypeInv /\ [Promise!FreshNext]_(Promise!freshVars)
        => (\A c \in Proc : Asking(c) /\ reply'[c] \in Document => reply'[c] = Truth)
  BY <1>1
<1>3. Spec => [][Promise!FreshNext]_(Promise!freshVars)
  BY KeepsItsPromise, PTL DEF ImplementsFreshAnswers, Promise!FreshSpec
<1> QED BY <1>2, <1>3, TypeInvariance, PTL DEF AnswersAreFresh

=============================================================================
