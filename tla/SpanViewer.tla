----------------------------- MODULE SpanViewer -----------------------------
(***************************************************************************)
(* The VS Code viewer of one span file: the custom editor that opens it    *)
(* (SpanFileEditorProvider), the render session behind it                  *)
(* (SpanRenderSession) and the page in the editor's webview, while the     *)
(* span file and the files it anchors are edited.                          *)
(*                                                                         *)
(* The extension host is one thread: a step is what runs between two       *)
(* awaits.  Render passes that were superseded run on until they notice.   *)
(* An anchored file is the text it holds, as far as drift goes, and a      *)
(* stamp that stands for its mtime and size.  The committed history is the *)
(* set of anchors that have a lineage in it; HEAD may move, and no watcher *)
(* sees it.  All reads of a pass of one kind (stats, contents, stats       *)
(* again) are one step each.                                               *)
(***************************************************************************)
EXTENDS Naturals, FiniteSets, Sequences

CONSTANTS Anchor,       \* the files that the span may anchor
          SpanFile,     \* the path of the span file itself
          HEAD,         \* the branch's tip, which nothing watches
          Unreadable,   \* the span file is gone or does not parse
          None,
          FirstNames,   \* what the span file may declare on opening
          FirstText,    \* what the anchored files may hold on opening
          FirstCommits, \* the histories there may be on opening
          MaxEdit       \* how often files are changed or HEAD is moved

ASSUME EditAssumption == MaxEdit \in Nat
ASSUME PathAssumption == SpanFile \notin Anchor /\ HEAD \notin Anchor \cup {SpanFile}

VARIABLES
  names,       \* what the span file declares: anchors, or Unreadable
  file,        \* per anchored file, its text and stamp
  committed,   \* the anchors that have a lineage in the commits up to HEAD
  edits,       \* how many of these changes were made
  phase,       \* how far resolveCustomEditor got
  openNames,   \* the anchors of the read made on opening
  tornDown,    \* the session was disposed
  generation,  \* how many passes were started
  pass,        \* the passes that have not returned, by generation
  timer,       \* the debounce timer is armed
  watched,     \* the paths that have a watcher
  events,      \* the watchers' events on their way
  lastPosted,  \* the document kept for a page that signals ready
  outcome,     \* what the newest pass that finished came to
  page,        \* the page in the webview
  inbox,       \* documents on their way to the page
  outbox,      \* messages on their way to the host
  missed       \* what changed without a watcher since the last pass began

disk    == <<names, file, committed, edits>>
session == <<openNames, tornDown, generation, timer, watched>>
view    == <<lastPosted, outcome, page, inbox>>
vars    == <<names, file, committed, edits, phase, openNames, tornDown, generation, pass,
             timer, watched, events, lastPosted, outcome, page, inbox, outbox,
             missed>>

Path         == Anchor \cup {SpanFile}
Declaration  == (SUBSET Anchor) \cup {Unreadable}
FileText     == {"recorded", "edited", "missing"}
File         == [text : FileText, stamp : 0..MaxEdit]
Kind         == {"clean", "drifted", "reconciled", "dangling", "unavailable", "changed"}
Card         == [kind : Kind, text : FileText]
Generation   == 1..(MaxEdit + 1)
Document     == [gen : Generation, card : UNION {[N -> Card] : N \in SUBSET Anchor}]

ASSUME NoDocument == None \notin Document
ASSUME FirstAssumption ==
  /\ FirstNames \subseteq Declaration /\ FirstText \subseteq FileText
  /\ FirstCommits \subseteq SUBSET Anchor

-----------------------------------------------------------------------------
(* Matching and building: pure functions of what a pass has read.          *)

\* What fs.stat tells apart.
Stat(f) == IF f.text = "missing" THEN None ELSE f.stamp

\* The CLI reports an anchor as current drift when it declares it itself.
Drifts(a, history) == a \in history.names /\ history.text[a] # "recorded"

\* matchAnchor: lineage from the commits, drift from the current entry.  An
\* anchor that the CLI does not find declared has no current entry, so it is
\* clean when it has a lineage.
MatchAnchor(a, history) ==
  CASE ~Drifts(a, history) /\ a \in history.lineage     -> "clean"
    [] ~Drifts(a, history) /\ a \notin history.lineage  -> "dangling"
    [] Drifts(a, history) /\ history.text[a] = "missing" -> "unavailable"
    [] OTHER -> IF a \in history.lineage THEN "drifted" ELSE "reconciled"

\* What git span history tells of the files and commits as they are.
HistoryNow ==
  [names |-> names, text |-> [a \in Anchor |-> file[a].text], lineage |-> committed]

CleanAnchors(p) == {a \in p.names : MatchAnchor(a, p.history) = "clean"}
AllDangling(p)  == \A a \in p.names : MatchAnchor(a, p.history) = "dangling"

\* A clean card shows what the pass read itself, when the file held still.
CardOf(a, p) ==
  LET kind == MatchAnchor(a, p.history)
  IN  IF kind # "clean" THEN [kind |-> kind, text |-> p.history.text[a]]
      ELSE IF a \in p.steady THEN [kind |-> "clean", text |-> p.content[a]]
      ELSE [kind |-> "changed", text |-> "missing"]

DocumentOf(g, p) == [gen |-> g, card |-> [a \in p.names |-> CardOf(a, p)]]

-----------------------------------------------------------------------------
(* The page.  Replacing the HTML drops what the old page had not received. *)

BlankPage(kind) == [kind |-> kind, loaded |-> FALSE, shows |-> None]

SetPage(kind) == page' = BlankPage(kind) /\ inbox' = <<>>

Post(doc) == inbox' = Append(inbox, doc)

PageLoad ==
  /\ ~page.loaded
  /\ page' = [page EXCEPT !.loaded = TRUE]
  /\ outbox' = IF page.kind = "viewer" THEN Append(outbox, "ready") ELSE outbox
  /\ UNCHANGED <<disk, phase, session, pass, events, lastPosted, outcome, inbox, missed>>

\* The viewer renders a document; the panel asks to be replaced by the viewer.
PageReceive ==
  /\ page.loaded
  /\ inbox # <<>>
  /\ inbox' = Tail(inbox)
  /\ IF page.kind = "viewer"
     THEN page' = [page EXCEPT !.shows = Head(inbox)] /\ UNCHANGED outbox
     ELSE outbox' = Append(outbox, "reload") /\ UNCHANGED page
  /\ UNCHANGED <<disk, phase, session, pass, events, lastPosted, outcome, missed>>

\* Mutant: a page that signals ready is not handed the document it missed.
OnReadyForgotten == Head(outbox) = "ready" /\ UNCHANGED <<page, inbox>>

\* Before the provider subscribes (phase "reading", "resolving") nobody listens.
OnReady ==
  /\ Head(outbox) = "ready"
  /\ IF phase \in {"starting", "open"} /\ lastPosted # None
     THEN Post(lastPosted)
     ELSE UNCHANGED inbox
  /\ UNCHANGED page

OnReload ==
  /\ Head(outbox) = "reload"
  /\ IF phase \in {"starting", "open"} THEN SetPage("viewer") ELSE UNCHANGED <<page, inbox>>

HostReceive ==
  /\ ~tornDown
  /\ outbox # <<>>
  /\ OnReady \/ OnReload
  /\ outbox' = Tail(outbox)
  /\ UNCHANGED <<disk, phase, session, pass, events, lastPosted, outcome, missed>>

-----------------------------------------------------------------------------
(* The provider: read the file, find the repository and the CLI, start.    *)

Refuse ==
  /\ phase' = "refused"
  /\ SetPage("panel")
  /\ UNCHANGED <<pass, generation>>

StartedPass(g) ==
  [stage |-> "read", aborted |-> FALSE, names |-> {}, stat |-> <<>>,
   history |-> None, content |-> <<>>, steady |-> {}]

\* Mutants: older passes run on; the pass is not counted.
StartBeside ==
  LET g == generation + 1
  IN  /\ generation' = g
      /\ pass' = [h \in DOMAIN pass \cup {g} |-> IF h = g THEN StartedPass(g) ELSE pass[h]]
      /\ missed' = {}

StartUncounted ==
  /\ pass' = [h \in DOMAIN pass \cup {generation + 1} |-> StartedPass(h)]
  /\ missed' = {}
  /\ UNCHANGED generation

\* start: every live pass is aborted, the new one gets the next generation.
Start ==
  LET g == generation + 1
  IN  /\ generation' = g
      /\ pass' = [h \in DOMAIN pass \cup {g} |->
                    IF h = g THEN StartedPass(g) ELSE [pass[h] EXCEPT !.aborted = TRUE]]
      /\ missed' = {}

\* A span file that does not parse is refused with a panel.  When it cannot be
\* read at all the error leaves resolveCustomEditor, which shows nothing.
OpenRead ==
  /\ ~tornDown
  /\ phase = "reading"
  /\ \/ names = Unreadable /\ Refuse /\ UNCHANGED openNames
     \/ /\ names = Unreadable
        /\ phase' = "refused"
        /\ UNCHANGED <<openNames, pass, generation, page, inbox>>
     \/ /\ names # Unreadable
        /\ openNames' = names
        /\ phase' = "resolving"
        /\ UNCHANGED <<pass, generation, page, inbox>>
  /\ UNCHANGED <<disk, tornDown, timer, watched, events, lastPosted, outcome, outbox, missed>>

OpenResolve ==
  /\ ~tornDown
  /\ phase = "resolving"
  /\ \/ Refuse /\ UNCHANGED missed
     \/ Start /\ phase' = "starting" /\ UNCHANGED <<page, inbox>>
  /\ UNCHANGED <<disk, openNames, tornDown, timer, watched, events, lastPosted,
                 outcome, outbox>>

-----------------------------------------------------------------------------
(* One render pass.                                                        *)

LoadStages == {"read", "stat", "cli", "cliRead"}

At(g, stage) == g \in DOMAIN pass /\ pass[g].stage = stage

Update(g, p) == pass' = [pass EXCEPT ![g] = p]

\* Mutant: a superseded pass posts.
MayPostWhileAlive(g) == ~tornDown /\ g \in DOMAIN pass

\* A pass may post only while it is the newest and the session lives.
MayPost(g) == ~tornDown /\ g = generation

Remove(g) == pass' = [h \in DOMAIN pass \ {g} |-> pass[h]]

\* Who awaits the pass: the provider (pass 1), which watches what it read on
\* opening, whatever the pass came to; or the timer's callback, which watches
\* what the pass covered.
EnsureWatchers(g, covered) ==
  LET wanted == IF g = 1 THEN openNames \cup {SpanFile} ELSE covered
  IN  /\ watched' = IF tornDown THEN watched ELSE watched \cup wanted
      /\ phase'   = IF g = 1 THEN "open" ELSE phase

PostDocument(g, doc) ==
  /\ lastPosted' = doc
  /\ Post(doc)
  /\ outcome' = [gen |-> g, kind |-> "document"]
  /\ UNCHANGED page

ShowFallback(g) ==
  /\ SetPage("panel")
  /\ outcome' = [gen |-> g, kind |-> "failure"]
  /\ UNCHANGED lastPosted

\* The load phase failed: nothing is covered.
FailLoad(g) ==
  /\ IF MayPost(g) THEN ShowFallback(g) ELSE UNCHANGED view
  /\ EnsureWatchers(g, {})
  /\ Remove(g)
  /\ UNCHANGED <<disk, openNames, tornDown, generation, timer, events, outbox, missed>>

Await(g, p) ==
  /\ Update(g, p)
  /\ UNCHANGED <<disk, phase, session, events, view, outbox, missed>>

ReadSpan(g) ==
  /\ At(g, "read")
  /\ IF names = Unreadable THEN FailLoad(g)
     ELSE Await(g, [pass[g] EXCEPT !.stage = "stat", !.names = names])

\* An aborted signal refuses to spawn the CLI.
StatAnchors(g) ==
  /\ At(g, "stat")
  /\ IF pass[g].aborted THEN FailLoad(g)
     ELSE Await(g, [pass[g] EXCEPT !.stage = "cli",
                      !.stat = [a \in pass[g].names |-> Stat(file[a])]])

\* The CLI reads the span file, the anchored files and the commits, in its own
\* time.
CliRead(g) ==
  /\ At(g, "cli")
  /\ names # Unreadable
  /\ Await(g, [pass[g] EXCEPT !.stage = "cliRead", !.history = HistoryNow])

\* It fails, prints what does not parse, or is killed for the abort signal.
CliFail(g) == (At(g, "cli") \/ At(g, "cliRead")) /\ FailLoad(g)

\* A pass that may not post any more returns without a trace.
Discard(g) == ~MayPost(g) /\ FailLoad(g)

\* The CLI's output arrives and is matched.  When every anchor dangles the
\* document is posted at once, else the clean previews are read first.
CliEnd(g) ==
  /\ At(g, "cliRead")
  /\ LET p == pass[g] IN
     \/ (tornDown \/ AllDangling(p)) /\ Discard(g)
     \/ /\ AllDangling(p)
        /\ MayPost(g)
        /\ PostDocument(g, DocumentOf(g, p))
        /\ EnsureWatchers(g, p.names \cup {SpanFile})
        /\ Remove(g)
        /\ UNCHANGED <<disk, openNames, tornDown, generation, timer, events, outbox, missed>>
     \/ /\ ~tornDown
        /\ ~AllDangling(p)
        /\ Await(g, [p EXCEPT !.stage = "content"])

ReadContent(g) ==
  /\ At(g, "content")
  /\ Await(g, [pass[g] EXCEPT !.stage = "restat",
                 !.content = [a \in CleanAnchors(pass[g]) |-> file[a].text]])

\* Mutant: the file is not looked at again.
StatOnce(g) ==
  /\ At(g, "restat")
  /\ LET p == pass[g] IN
     Await(g, [p EXCEPT !.stage = "date",
                 !.steady = {a \in CleanAnchors(p) : p.content[a] # "missing"}])

\* A clean preview counts when the file could be read and has not changed
\* since before the CLI ran.
StatAgain(g) ==
  /\ At(g, "restat")
  /\ LET p == pass[g] IN
     Await(g, [p EXCEPT !.stage = "date",
                 !.steady = {a \in CleanAnchors(p) :
                               /\ p.content[a] # "missing"
                               /\ Stat(file[a]) = p.stat[a]}])

\* The build awaits the declaration's date and hands over the document.
Finish(g) ==
  /\ At(g, "date")
  /\ LET p == pass[g] IN
     /\ IF MayPost(g) THEN PostDocument(g, DocumentOf(g, p)) ELSE UNCHANGED view
     /\ EnsureWatchers(g, IF MayPost(g) THEN p.names \cup {SpanFile} ELSE {})
     /\ Remove(g)
  /\ UNCHANGED <<disk, openNames, tornDown, generation, timer, events, outbox, missed>>

\* Mutant: the load phase has no budget.
TimeoutUnarmed(g) == g \in DOMAIN pass /\ pass[g].stage = "timer" /\ UNCHANGED vars

\* The budget of the load phase ran out.
Timeout(g) ==
  /\ g \in DOMAIN pass
  /\ pass[g].stage \in LoadStages
  /\ ~pass[g].aborted
  /\ Await(g, [pass[g] EXCEPT !.aborted = TRUE])

-----------------------------------------------------------------------------
(* Watchers, the timer, disposal, and the people who edit files.           *)

Notice(p) ==
  /\ IF p \in watched THEN events' = events \cup {p} /\ UNCHANGED missed
                      ELSE missed' = missed \cup {p} /\ UNCHANGED events
  /\ edits' = edits + 1
  /\ UNCHANGED <<phase, session, pass, view, outbox>>

EditSpan ==
  /\ edits < MaxEdit
  /\ \E d \in Declaration \ {names} : names' = d
  /\ Notice(SpanFile)
  /\ UNCHANGED <<file, committed>>

EditAnchor(a) ==
  /\ edits < MaxEdit
  /\ \E t \in FileText : file' = [file EXCEPT ![a] = [text |-> t, stamp |-> @.stamp + 1]]
  /\ Notice(a)
  /\ UNCHANGED <<names, committed>>

\* A commit, a reset, another branch: the files stay as they are.
MoveHead ==
  /\ edits < MaxEdit
  /\ \E c \in SUBSET Anchor \ {committed} : committed' = c
  /\ Notice(HEAD)
  /\ UNCHANGED <<names, file>>

\* An event schedules a render, or puts off the one already scheduled.
ScheduleRender(p) ==
  /\ p \in events
  /\ events' = events \ {p}
  /\ timer' = TRUE
  /\ UNCHANGED <<disk, phase, openNames, tornDown, generation, watched, pass, view,
                 outbox, missed>>

TimerFires ==
  /\ timer
  /\ timer' = FALSE
  /\ IF tornDown THEN UNCHANGED <<generation, pass, missed>> ELSE Start
  /\ UNCHANGED <<disk, phase, openNames, tornDown, watched, events, view, outbox>>

\* Mutant: a pending render survives the tab.
DisposeKeepsTimer ==
  /\ ~tornDown
  /\ tornDown' = TRUE
  /\ pass' = [g \in DOMAIN pass |-> [pass[g] EXCEPT !.aborted = TRUE]]
  /\ watched' = {}
  /\ events' = {}
  /\ UNCHANGED <<disk, phase, openNames, generation, timer, view, outbox, missed>>

Dispose ==
  /\ ~tornDown
  /\ tornDown' = TRUE
  /\ timer' = FALSE
  /\ pass' = [g \in DOMAIN pass |-> [pass[g] EXCEPT !.aborted = TRUE]]
  /\ watched' = {}
  /\ events' = {}
  /\ UNCHANGED <<disk, phase, openNames, generation, view, outbox, missed>>

-----------------------------------------------------------------------------
Init ==
  /\ names \in FirstNames
  /\ file \in [Anchor -> [text : FirstText, stamp : {0}]]
  /\ committed \in FirstCommits
  /\ edits = 0
  /\ phase = "reading"
  /\ openNames = {}
  /\ tornDown = FALSE
  /\ generation = 0
  /\ pass = <<>>
  /\ timer = FALSE
  /\ watched = {}
  /\ events = {}
  /\ lastPosted = None
  /\ outcome = None
  /\ page = BlankPage("viewer")
  /\ inbox = <<>>
  /\ outbox = <<>>
  /\ missed = {}

PassStep(g) ==
  \/ ReadSpan(g) \/ StatAnchors(g) \/ CliRead(g) \/ CliFail(g) \/ CliEnd(g)
  \/ ReadContent(g) \/ StatAgain(g) \/ Finish(g) \/ Timeout(g)

Provider == OpenRead \/ OpenResolve \/ HostReceive \/ TimerFires
Webview  == ~tornDown /\ (PageLoad \/ PageReceive)
Events   == \E p \in Path : ScheduleRender(p)
Edit     == EditSpan \/ MoveHead \/ \E a \in Anchor : EditAnchor(a)

Next ==
  \/ Provider \/ Webview \/ Events \/ Edit \/ Dispose
  \/ \E g \in Generation : PassStep(g)

\* The host runs what is ready to run; a child process may hang, but a pass
\* is timed out, and an aborted child ends (see GitSpanCommand).  Nobody has
\* to edit a file or to close the tab.
PassFairness(g) ==
  /\ WF_vars(ReadSpan(g) \/ StatAnchors(g) \/ ReadContent(g) \/ StatAgain(g) \/ Finish(g))
  /\ WF_vars(Timeout(g))
  /\ WF_vars(g \in DOMAIN pass /\ pass[g].aborted /\ (CliFail(g) \/ CliEnd(g)))

Fairness ==
  /\ WF_vars(OpenRead) /\ WF_vars(OpenResolve) /\ WF_vars(HostReceive) /\ WF_vars(TimerFires)
  /\ WF_vars(Webview)
  /\ \A p \in Path : WF_vars(ScheduleRender(p))
  /\ \A g \in Generation : PassFairness(g)

Spec == Init /\ [][Next]_vars /\ Fairness
-----------------------------------------------------------------------------
(* Properties.                                                             *)

TypeOK ==
  /\ names \in Declaration
  /\ file \in [Anchor -> File]
  /\ committed \subseteq Anchor
  /\ edits \in 0..MaxEdit
  /\ phase \in {"reading", "resolving", "refused", "starting", "open"}
  /\ openNames \subseteq Anchor
  /\ tornDown \in BOOLEAN
  /\ generation \in 0..(MaxEdit + 1)
  /\ DOMAIN pass \subseteq 1..generation
  /\ \A g \in DOMAIN pass :
        /\ pass[g].stage \in LoadStages \cup {"content", "restat", "date"}
        /\ pass[g].aborted \in BOOLEAN
        /\ pass[g].names \subseteq Anchor
        /\ pass[g].steady \subseteq pass[g].names
  /\ timer \in BOOLEAN
  /\ watched \subseteq Path /\ events \subseteq Path /\ missed \subseteq Path \cup {HEAD}
  /\ page.kind \in {"viewer", "panel"}
  /\ \A i \in DOMAIN inbox  : inbox[i].gen \in Generation
  /\ \A i \in DOMAIN outbox : outbox[i] \in {"ready", "reload"}

\* Nothing is under way that could still change what the page shows.
Quiescent ==
  /\ phase = "open" /\ ~tornDown
  /\ generation \notin DOMAIN pass
  /\ ~timer /\ events = {}
  /\ page.loaded /\ inbox = <<>> /\ outbox = <<>>

\* The card that the files on disk and the commits call for now.
CurrentCard(a) == [kind |-> MatchAnchor(a, HistoryNow), text |-> file[a].text]

ShowsDisk ==
  /\ page.kind = "viewer"
  /\ page.shows # None
  /\ names # Unreadable
  /\ page.shows.card = [a \in names |-> CurrentCard(a)]

\* Once everything came to rest after a pass that produced a document, the page
\* shows that document and it agrees with the files and the commits -- across
\* races of edits with the reads of a pass, superseded passes, and an error panel
\* that had to be replaced first -- provided that, since the newest pass began, a
\* watcher saw every edit and HEAD stayed where it was.
SettledViewIsCurrent ==
  Quiescent /\ outcome.kind = "document" /\ missed = {} => ShowsDisk

\* The pass is not the last word on the span file: it will not be posted, or an
\* edit of the span file is about to start another pass, or went unseen.
NotTheLastWord(g) ==
  tornDown \/ g # generation \/ timer \/ SpanFile \in events \cup missed

\* A preview that a pass certifies as clean is the recorded text, although the
\* CLI and the pass read the files at different times.  There are two exceptions.
\* An anchor that the span file dropped before the CLI read it has a lineage and
\* no current entry: it is taken for clean with whatever bytes it has; but then
\* the pass does not last, unless the edit of the span file went unseen.  And a
\* file that is absent both when the pass first looks and when it looks again may
\* have held anything in between: statsEqual takes absent for equal to absent.
CleanPreviewIsRecorded ==
  \A g \in DOMAIN pass : pass[g].stage = "date" =>
    LET p == pass[g] IN
    \A a \in p.names :
       CardOf(a, p).kind = "clean" /\ p.stat[a] # None =>
          \/ CardOf(a, p).text = "recorded"
          \/ a \notin p.history.names /\ NotTheLastWord(g)

\* start and dispose: only the newest pass may still be spending time on a
\* child process, and no pass does after the tab is closed.
OnlyNewestRuns ==
  \A g \in DOMAIN pass : ~pass[g].aborted => g = generation /\ ~tornDown

\* "teardown cancels the pending timer so no render ever fires into a dead
\* panel": whatever was in flight when the tab was closed, nothing is watched,
\* scheduled, started or posted any more.
DisposalIsFinal ==
  [][tornDown => /\ UNCHANGED <<generation, lastPosted, inbox, page>>
                 /\ watched' = {} /\ events' = {} /\ ~timer']_vars

\* The document kept for the page and the document on the page are replaced by
\* those of later passes only.
ViewNeverGoesBack ==
  [][/\ lastPosted # None => lastPosted'.gen >= lastPosted.gen
     /\ page.shows # None /\ page'.shows # None => page'.shows.gen >= page.shows.gen]_vars

\* However edits, hung child processes, timeouts, page loads and reload
\* requests interleave, the session comes to rest (or was refused or closed).
SessionSettles == <>[](Quiescent \/ tornDown \/ phase = "refused")
=============================================================================
