-------------------------- MODULE SpanViewerProofs --------------------------
(***************************************************************************)
(* Theorems about SpanViewer, for every set of anchored files and every    *)
(* number of edits: what the page shows when everything has come to rest,  *)
(* what a clean preview is worth, and what superseded passes and a closed  *)
(* tab may no longer do.                                                   *)
(***************************************************************************)
EXTENDS SpanViewer, FiniteSetTheorems, SequenceTheorems, TLAPS

-----------------------------------------------------------------------------
(* The inductive invariant.                                                *)

Fields    == {"stage", "aborted", "names", "stat", "history", "content", "steady"}
AfterStat == {"cli", "cliRead", "content", "restat", "date"}
AfterCli  == {"cliRead", "content", "restat", "date"}
AfterRead == {"restat", "date"}

\* What a pass has in hand at each of its awaits.
PassOK(p) ==
  /\ DOMAIN p = Fields
  /\ p.stage \in LoadStages \cup {"content", "restat", "date"}
  /\ p.aborted \in BOOLEAN
  /\ p.names \subseteq Anchor
  /\ p.stage \in AfterCli =>
       /\ p.history.names \subseteq Anchor
       /\ p.history.text \in [Anchor -> FileText]
  /\ p.stage \in AfterRead => \A a \in CleanAnchors(p) : p.content[a] \in FileText
  /\ p.steady \subseteq (IF p.stage = "date" THEN CleanAnchors(p) ELSE {})

\* The counted starts come from edits, each by way of an event and the timer.
Pending == Cardinality(events) + (IF timer THEN 1 ELSE 0)

Counted ==
  /\ generation \in Nat /\ edits \in Nat
  /\ IsFiniteSet(events)
  /\ generation + Pending <= edits + (IF phase \in {"starting", "open"} THEN 1 ELSE 0)
  /\ phase \in {"starting", "open"} <=> generation # 0
  /\ generation = 0 => watched = {} /\ events = {} /\ ~timer

Shaped ==
  /\ \A g \in DOMAIN pass : PassOK(pass[g])
  /\ \A a \in Anchor : file[a].stamp <= edits
  /\ DOMAIN page = {"kind", "loaded", "shows"}
  /\ outbox \in Seq({"ready", "reload"})

\* A closed tab watches and schedules nothing.
Closed == tornDown => watched = {} /\ events = {} /\ ~timer

\* The newest pass, once it has ended, left its outcome behind.
Answered ==
  generation # 0 /\ generation \notin DOMAIN pass /\ ~tornDown => outcome.gen = generation

\* Documents reach the page in the order of their passes.
Ordered ==
  /\ inbox \in Seq(Document)
  /\ lastPosted # None => lastPosted \in Document /\ lastPosted.gen <= generation
  /\ \A i \in 1..Len(inbox) : lastPosted # None /\ inbox[i].gen <= lastPosted.gen
  /\ \A i, j \in 1..Len(inbox) : i <= j => inbox[i].gen <= inbox[j].gen
  /\ page.shows # None =>
       /\ page.shows \in Document
       /\ lastPosted # None /\ page.shows.gen <= lastPosted.gen
       /\ \A i \in 1..Len(inbox) : page.shows.gen <= inbox[i].gen

\* As long as an anchored file has the stamp that the pass saw first, whatever
\* was read of it since is what it holds.
Steady(p) ==
  /\ p.stage \in AfterStat \ {"date"} =>
       \A a \in p.names : p.stat[a] # None =>
          /\ p.stat[a] \in Nat /\ p.stat[a] <= file[a].stamp
          /\ p.stage \in AfterCli /\ file[a].stamp = p.stat[a]
                => p.history.text[a] = file[a].text
          /\ p.stage = "restat" /\ a \in CleanAnchors(p) /\ file[a].stamp = p.stat[a]
                => p.content[a] = file[a].text
  /\ p.stage = "date" =>
       \A a \in p.steady : p.stat[a] # None => p.content[a] = p.history.text[a]

AllSteady == \A g \in DOMAIN pass : Steady(pass[g])

\* No edit was made since the newest pass began, or it is known to be seen.
Undisturbed == generation # 0 /\ ~tornDown /\ events = {} /\ ~timer /\ missed = {}

\* The pass and the CLI have read the span file that there is.
SameSpan(p) ==
  /\ p.stage # "read" => names # Unreadable /\ p.names = names
  /\ p.stage \in AfterCli => p.history.names = names

\* As long as the pass is the last word on the span file.
SpanHeld ==
  \A g \in DOMAIN pass : NotTheLastWord(g) \/ SameSpan(pass[g])

\* What an undisturbed pass has read is what there is.
Current(p) ==
  /\ p.stage # "read" => names # Unreadable /\ p.names = names
  /\ p.stage \in AfterStat => \A a \in p.names : p.stat[a] = Stat(file[a])
  /\ p.stage \in AfterCli =>
       /\ p.history.names = names /\ p.history.lineage = committed
       /\ \A a \in Anchor : p.history.text[a] = file[a].text
  /\ p.stage \in AfterRead => \A a \in CleanAnchors(p) : p.content[a] = file[a].text
  /\ p.stage = "date" => \A a \in CleanAnchors(p) : p.content[a] # "missing" => a \in p.steady

Synced ==
  Undisturbed =>
    IF generation \in DOMAIN pass THEN Current(pass[generation])
    ELSE outcome.kind = "document" =>
           names # Unreadable /\ lastPosted.card = [a \in names |-> CurrentCard(a)]

Sent(m) == \E i \in 1..Len(outbox) : outbox[i] = m

\* The document of the newest pass is on the page or on its way there.
Delivered ==
  generation # 0 /\ generation \notin DOMAIN pass /\ ~tornDown /\ outcome.kind = "document" =>
    /\ lastPosted # None
    /\ inbox # <<>> => inbox[Len(inbox)] = lastPosted
    /\ page.kind = "panel" => inbox # <<>> \/ Sent("reload")
    /\ page.kind = "viewer" =>
         ~page.loaded \/ inbox # <<>> \/ page.shows = lastPosted \/ Sent("ready")

Inv ==
  /\ TypeOK /\ Counted /\ Shaped /\ Closed /\ OnlyNewestRuns /\ Answered
  /\ Ordered /\ AllSteady /\ SpanHeld /\ Synced /\ Delivered

-----------------------------------------------------------------------------
(* What the steps of a pass come to.                                       *)

\* It goes on to its next await, with what it has read since the last one.
Good(p, q) ==
  /\ ~q.aborted => ~p.aborted
  /\ PassOK(q)
  /\ Steady(q)
  /\ SameSpan(p) => SameSpan(q)
  /\ Current(p) => Current(q)

Advances(g, q) == g \in DOMAIN pass /\ Await(g, q) /\ Good(pass[g], q)

\* It ends without a document.
Fails(g) == g \in DOMAIN pass /\ FailLoad(g)

\* It ends with one.
Posts(g) ==
  /\ g \in DOMAIN pass
  /\ MayPost(g)
  /\ (At(g, "cliRead") /\ AllDangling(pass[g])) \/ At(g, "date")
  /\ PostDocument(g, DocumentOf(g, pass[g]))
  /\ EnsureWatchers(g, pass[g].names \cup {SpanFile})
  /\ Remove(g)
  /\ UNCHANGED <<disk, openNames, tornDown, generation, timer, events, outbox, missed>>

\* An abort signal changes nothing of what a pass has read.
LEMMA Aborting ==
  ASSUME NEW p, PassOK(p)
  PROVE  LET q == [p EXCEPT !.aborted = TRUE] IN
         /\ PassOK(q) /\ (Steady(p) => Steady(q))
         /\ (SameSpan(p) => SameSpan(q)) /\ (Current(p) => Current(q))
<1> DEFINE q == [p EXCEPT !.aborted = TRUE]
<1>1. /\ DOMAIN q = Fields /\ q.aborted = TRUE
      /\ q.stage = p.stage /\ q.names = p.names /\ q.stat = p.stat
      /\ q.history = p.history /\ q.content = p.content /\ q.steady = p.steady
  BY DEF PassOK, Fields
<1> HIDE DEF q
<1>2. CleanAnchors(q) = CleanAnchors(p)
  BY <1>1 DEF CleanAnchors
<1>3. PassOK(q)
  BY <1>1, <1>2 DEF PassOK
<1>4. Steady(p) => Steady(q)
  BY <1>1, <1>2 DEF Steady
<1>5. (SameSpan(p) => SameSpan(q)) /\ (Current(p) => Current(q))
  BY <1>1, <1>2 DEF SameSpan, Current
<1> QED BY <1>3, <1>4, <1>5 DEF q

LEMMA PassStepIs ==
  ASSUME Inv, NEW g \in Generation, PassStep(g)
  PROVE  \/ Fails(g)
         \/ Posts(g)
         \/ \E q : Advances(g, q)
<1> DEFINE p == pass[g]
<1>0. g \in DOMAIN pass
  BY DEF PassStep, ReadSpan, StatAnchors, CliRead, CliFail, CliEnd, ReadContent, StatAgain,
         Finish, Timeout, At
<1>f. PassOK(p) /\ Steady(p)
  BY <1>0 DEF Inv, Shaped, AllSteady
<1>t. file \in [Anchor -> File] /\ (names # Unreadable => names \subseteq Anchor)
  BY DEF Inv, TypeOK, Declaration
<1>n. \A a \in Anchor : file[a].stamp \in Nat
  BY <1>t, EditAssumption DEF File
<1>a. ASSUME NEW q, Await(g, q), Good(p, q)
      PROVE  \E r : Advances(g, r)
  <2>1. Advances(g, q)
    BY <1>0, <1>a DEF Advances
  <2> QED BY <2>1
<1> HIDE DEF p
<1>1. CASE ReadSpan(g)
  <2>1. CASE names = Unreadable
    BY <1>0, <1>1, <2>1 DEF ReadSpan, Fails
  <2>2. CASE names # Unreadable
    <3> DEFINE q == [p EXCEPT !.stage = "stat", !.names = names]
    <3>1. Await(g, q) /\ p.stage = "read"
      BY <1>1, <2>2 DEF ReadSpan, At, p
    <3>2. /\ DOMAIN q = Fields /\ q.aborted = p.aborted
          /\ q.stage = "stat" /\ q.names = names /\ q.steady = p.steady
      BY <1>f DEF PassOK, Fields
    <3>s. p.steady = {}
      BY <1>f, <3>1 DEF PassOK
    <3> HIDE DEF q
    <3>3. PassOK(q)
      BY <1>f, <1>t, <2>2, <3>2, <3>s DEF PassOK, LoadStages, AfterCli, AfterRead
    <3>4. Steady(q) /\ SameSpan(q) /\ Current(q)
      BY <2>2, <3>2 DEF Steady, SameSpan, Current, AfterStat, AfterCli, AfterRead
    <3> QED BY <1>a, <3>1, <3>2, <3>3, <3>4 DEF Good
  <2> QED BY <2>1, <2>2
<1>2. CASE StatAnchors(g)
  <2>1. CASE pass[g].aborted
    BY <1>0, <1>2, <2>1 DEF StatAnchors, Fails
  <2>2. CASE ~pass[g].aborted
    <3> DEFINE q == [p EXCEPT !.stage = "cli", !.stat = [a \in p.names |-> Stat(file[a])]]
    <3>1. Await(g, q) /\ p.stage = "stat"
      BY <1>2, <2>2 DEF StatAnchors, At, p
    <3>2. /\ DOMAIN q = Fields /\ q.aborted = p.aborted
          /\ q.stage = "cli" /\ q.names = p.names /\ q.steady = p.steady
          /\ q.stat = [a \in p.names |-> Stat(file[a])]
      BY <1>f DEF PassOK, Fields
    <3> HIDE DEF q
    <3>3. PassOK(q)
      BY <1>f, <3>1, <3>2 DEF PassOK, LoadStages, AfterCli, AfterRead
    <3>4. Steady(q)
      <4> SUFFICES ASSUME NEW a \in p.names, q.stat[a] # None
                   PROVE  q.stat[a] \in Nat /\ q.stat[a] <= file[a].stamp
        BY <3>2 DEF Steady, AfterStat, AfterCli
      <4>1. q.stat[a] = file[a].stamp
        BY <3>2 DEF Stat
      <4> QED BY <1>n, <1>f, <4>1 DEF PassOK
    <3>5. (SameSpan(p) => SameSpan(q)) /\ (Current(p) => Current(q))
      BY <3>1, <3>2 DEF SameSpan, Current, AfterStat, AfterCli, AfterRead
    <3> QED BY <1>a, <3>1, <3>2, <3>3, <3>4, <3>5 DEF Good
  <2> QED BY <2>1, <2>2
<1>3. CASE CliRead(g)
  <2> DEFINE q == [p EXCEPT !.stage = "cliRead", !.history = HistoryNow]
  <2>1. Await(g, q) /\ p.stage = "cli" /\ names # Unreadable
    BY <1>3 DEF CliRead, At, p
  <2>2. /\ DOMAIN q = Fields /\ q.aborted = p.aborted
        /\ q.stage = "cliRead" /\ q.names = p.names /\ q.steady = p.steady
        /\ q.stat = p.stat /\ q.history = HistoryNow
    BY <1>f DEF PassOK, Fields
  <2>h. /\ HistoryNow.names = names /\ HistoryNow.lineage = committed
        /\ HistoryNow.text = [a \in Anchor |-> file[a].text]
    BY DEF HistoryNow
  <2> HIDE DEF q
  <2>3. PassOK(q)
    BY <1>f, <1>t, <2>1, <2>2, <2>h DEF PassOK, LoadStages, AfterCli, AfterRead, File
  <2>4. Steady(q)
    BY <1>f, <2>1, <2>2, <2>h DEF Steady, AfterStat, AfterCli, PassOK
  <2>5. (SameSpan(p) => SameSpan(q)) /\ (Current(p) => Current(q))
    BY <2>1, <2>2, <2>h DEF SameSpan, Current, AfterStat, AfterCli, AfterRead
  <2> QED BY <1>a, <2>1, <2>2, <2>3, <2>4, <2>5 DEF Good
<1>4. CASE CliFail(g)
  BY <1>0, <1>4 DEF CliFail, Fails
<1>5. CASE CliEnd(g)
  <2>1. CASE Discard(g)
    BY <1>0, <2>1 DEF Discard, Fails
  <2>2. CASE /\ AllDangling(pass[g])
             /\ MayPost(g)
             /\ PostDocument(g, DocumentOf(g, pass[g]))
             /\ EnsureWatchers(g, pass[g].names \cup {SpanFile})
             /\ Remove(g)
             /\ UNCHANGED <<disk, openNames, tornDown, generation, timer, events, outbox, missed>>
    BY <1>0, <1>5, <2>2 DEF CliEnd, Posts
  <2>3. CASE Await(g, [pass[g] EXCEPT !.stage = "content"])
    <3> DEFINE q == [p EXCEPT !.stage = "content"]
    <3>1. Await(g, q) /\ p.stage = "cliRead"
      BY <1>5, <2>3 DEF CliEnd, At, p
    <3>2. /\ DOMAIN q = Fields /\ q.aborted = p.aborted
          /\ q.stage = "content" /\ q.names = p.names /\ q.steady = p.steady
          /\ q.stat = p.stat /\ q.history = p.history
      BY <1>f DEF PassOK, Fields
    <3> HIDE DEF q
    <3>3. PassOK(q)
      BY <1>f, <3>1, <3>2 DEF PassOK, LoadStages, AfterCli, AfterRead
    <3>4. Steady(q)
      BY <1>f, <3>1, <3>2 DEF Steady, AfterStat, AfterCli
    <3>5. (SameSpan(p) => SameSpan(q)) /\ (Current(p) => Current(q))
      BY <3>1, <3>2 DEF SameSpan, Current, AfterStat, AfterCli, AfterRead
    <3> QED BY <1>a, <3>1, <3>2, <3>3, <3>4, <3>5 DEF Good
  <2> QED BY <1>5, <2>1, <2>2, <2>3 DEF CliEnd
<1>6. CASE ReadContent(g)
  <2> DEFINE q == [p EXCEPT !.stage = "restat",
                     !.content = [a \in CleanAnchors(p) |-> file[a].text]]
  <2>1. Await(g, q) /\ p.stage = "content"
    BY <1>6 DEF ReadContent, At, p
  <2>2. /\ DOMAIN q = Fields /\ q.aborted = p.aborted
        /\ q.stage = "restat" /\ q.names = p.names /\ q.steady = p.steady
        /\ q.stat = p.stat /\ q.history = p.history
        /\ q.content = [a \in CleanAnchors(p) |-> file[a].text]
    BY <1>f DEF PassOK, Fields
  <2> HIDE DEF q
  <2>c. CleanAnchors(q) = CleanAnchors(p) /\ CleanAnchors(p) \subseteq Anchor
    BY <1>f, <2>2 DEF CleanAnchors, PassOK
  <2>3. PassOK(q)
    BY <1>f, <1>t, <2>1, <2>2, <2>c DEF PassOK, LoadStages, AfterCli, AfterRead, File
  <2>4. Steady(q)
    BY <1>f, <2>1, <2>2, <2>c DEF Steady, AfterStat, AfterCli
  <2>5. (SameSpan(p) => SameSpan(q)) /\ (Current(p) => Current(q))
    BY <2>1, <2>2, <2>c DEF SameSpan, Current, AfterStat, AfterCli, AfterRead
  <2> QED BY <1>a, <2>1, <2>2, <2>3, <2>4, <2>5 DEF Good
<1>7. CASE StatAgain(g)
  <2> DEFINE q == [p EXCEPT !.stage = "date",
                     !.steady = {a \in CleanAnchors(p) :
                                   /\ p.content[a] # "missing"
                                   /\ Stat(file[a]) = p.stat[a]}]
  <2>1. Await(g, q) /\ p.stage = "restat"
    BY <1>7 DEF StatAgain, At, p
  <2>2. /\ DOMAIN q = Fields /\ q.aborted = p.aborted
        /\ q.stage = "date" /\ q.names = p.names
        /\ q.stat = p.stat /\ q.history = p.history /\ q.content = p.content
        /\ q.steady = {a \in CleanAnchors(p) : p.content[a] # "missing" /\ Stat(file[a]) = p.stat[a]}
    BY <1>f DEF PassOK, Fields
  <2> HIDE DEF q
  <2>c. CleanAnchors(q) = CleanAnchors(p) /\ CleanAnchors(p) \subseteq p.names
    BY <2>2 DEF CleanAnchors
  <2>3. PassOK(q)
    BY <1>f, <2>1, <2>2, <2>c DEF PassOK, LoadStages, AfterCli, AfterRead
  <2>4. Steady(q)
    <3> SUFFICES ASSUME NEW a \in q.steady, q.stat[a] # None
                 PROVE  q.content[a] = q.history.text[a]
      BY <2>2 DEF Steady, AfterStat
    <3>1. a \in CleanAnchors(p) /\ a \in p.names /\ Stat(file[a]) = p.stat[a]
      BY <2>2, <2>c
    <3>2. p.stat[a] # None /\ file[a].stamp = p.stat[a]
      BY <2>2, <3>1 DEF Stat
    <3> QED BY <1>f, <2>1, <2>2, <3>1, <3>2 DEF Steady, AfterStat, AfterCli
  <2>5. (SameSpan(p) => SameSpan(q)) /\ (Current(p) => Current(q))
    BY <2>1, <2>2, <2>c DEF SameSpan, Current, AfterStat, AfterCli, AfterRead
  <2> QED BY <1>a, <2>1, <2>2, <2>3, <2>4, <2>5 DEF Good
<1>8. CASE Finish(g)
  <2>1. CASE MayPost(g)
    BY <1>0, <1>8, <2>1 DEF Finish, Posts
  <2>2. CASE ~MayPost(g)
    BY <1>0, <1>8, <2>2 DEF Finish, Fails, FailLoad
  <2> QED BY <2>1, <2>2
<1>9. CASE Timeout(g)
  <2> DEFINE q == [p EXCEPT !.aborted = TRUE]
  <2>1. Await(g, q) /\ q.aborted = TRUE
    BY <1>9, <1>f DEF Timeout, p, PassOK, Fields
  <2>2. PassOK(q) /\ Steady(q) /\ (SameSpan(p) => SameSpan(q)) /\ (Current(p) => Current(q))
    BY <1>f, Aborting
  <2> QED BY <1>a, <2>1, <2>2 DEF Good
<1> QED
  BY <1>1, <1>2, <1>3, <1>4, <1>5, <1>6, <1>7, <1>8, <1>9 DEF PassStep

-----------------------------------------------------------------------------
(* The counted starts, and the types.                                      *)

\* Every step is one of these.
Steps ==
  \/ OpenRead \/ OpenResolve \/ HostReceive \/ TimerFires
  \/ ~tornDown /\ (PageLoad \/ PageReceive)
  \/ \E x \in Path : ScheduleRender(x)
  \/ EditSpan \/ MoveHead \/ \E a \in Anchor : EditAnchor(a)
  \/ Dispose
  \/ \E g \in Generation : Fails(g) \/ Posts(g) \/ \E q : Advances(g, q)
  \/ UNCHANGED vars

LEMMA StepIs == ASSUME Inv, [Next]_vars PROVE Steps
<1>1. CASE \E g \in Generation : PassStep(g)
  BY <1>1, PassStepIs, Zenon DEF Steps
<1>2. CASE UNCHANGED vars
  BY <1>2 DEF Steps
<1>3. CASE Provider \/ Webview \/ Events \/ Edit \/ Dispose
  BY <1>3, Zenon DEF Provider, Webview, Events, Edit, Steps
<1> QED BY <1>1, <1>2, <1>3 DEF Next

\* Only Start counts a pass, and it uses up the timer or the opening.
LEMMA CountedStep == ASSUME Inv, Steps PROVE Counted'
<1> USE DEF Counted, Pending
<1>0. /\ Counted /\ timer \in BOOLEAN /\ DOMAIN pass \subseteq 1..generation
      /\ events \subseteq Path
  BY DEF Inv, TypeOK
<1>c. Cardinality(events) \in Nat
  BY <1>0, FS_CardinalityType
<1>k. ASSUME UNCHANGED <<generation, edits, events, timer, phase, watched>>
      PROVE  Counted'
  BY <1>0, <1>k
<1>w. ASSUME NEW g \in DOMAIN pass, NEW S, EnsureWatchers(g, S),
             UNCHANGED <<generation, edits, events, timer>>
      PROVE  Counted'
  <2>1. generation # 0 /\ phase \in {"starting", "open"}
    BY <1>0
  <2>2. phase' \in {"starting", "open"}
    BY <1>w, <2>1 DEF EnsureWatchers
  <2> QED BY <1>0, <1>w, <2>1, <2>2
<1>1. CASE OpenRead
  BY <1>0, <1>1 DEF OpenRead, Refuse, disk
<1>2. CASE OpenResolve
  <2>1. CASE Refuse
    BY <1>0, <1>2, <2>1 DEF OpenResolve, Refuse, disk
  <2>2. CASE Start /\ phase' = "starting"
    <3>1. /\ generation = 0 /\ generation' = 1
          /\ UNCHANGED <<edits, events, timer>>
      BY <1>0, <1>2, <2>2 DEF OpenResolve, Start, disk
    <3> QED BY <1>0, <1>2, <2>2, <3>1, <1>c DEF OpenResolve
  <2> QED BY <1>2, <2>1, <2>2 DEF OpenResolve
<1>3. CASE HostReceive
  BY <1>k, <1>3 DEF HostReceive, disk, session
<1>4. CASE TimerFires
  <2>1. UNCHANGED <<edits, events, phase>> /\ timer /\ ~timer'
    BY <1>4 DEF TimerFires, disk
  <2>2. generation' \in {generation, generation + 1}
    BY <1>4 DEF TimerFires, Start
  <2>3. generation # 0
    BY <1>0, <2>1
  <2> QED BY <1>0, <1>c, <2>1, <2>2, <2>3
<1>5. CASE PageLoad \/ PageReceive
  BY <1>k, <1>5 DEF PageLoad, PageReceive, disk, session
<1>6. ASSUME NEW x \in Path, ScheduleRender(x) PROVE Counted'
  <2>1. x \in events /\ events' = events \ {x} /\ timer' = TRUE
        /\ UNCHANGED <<generation, edits, phase, watched>>
    BY <1>6 DEF ScheduleRender, disk
  <2>2. IsFiniteSet(events') /\ Cardinality(events') = Cardinality(events) - 1
    BY <1>0, <2>1, FS_RemoveElement
  <2> QED BY <1>0, <1>c, <2>1, <2>2
<1>7. ASSUME NEW x, Notice(x) PROVE Counted'
  <2>1. /\ edits' = edits + 1 /\ UNCHANGED <<generation, timer, phase, watched>>
        /\ events' = events \/ (x \in watched /\ events' = events \cup {x})
    BY <1>7 DEF Notice, session
  <2>2. IsFiniteSet(events') /\ Cardinality(events') <= Cardinality(events) + 1
    <3>1. CASE events' = events
      BY <1>0, <1>c, <3>1
    <3>2. CASE events' = events \cup {x}
      <4>1. /\ IsFiniteSet(events \cup {x})
            /\ Cardinality(events \cup {x}) \in {Cardinality(events), Cardinality(events) + 1}
        BY <1>0, FS_AddElement, Zenon
      <4> QED BY <1>c, <3>2, <4>1
    <3> QED BY <2>1, <3>1, <3>2
  <2>3. Cardinality(events') \in Nat
    BY <2>2, FS_CardinalityType
  <2> QED BY <1>0, <1>c, <2>1, <2>2, <2>3
<1>8. CASE Dispose
  <2>1. events' = {} /\ watched' = {} /\ timer' = FALSE
        /\ UNCHANGED <<generation, edits, phase>>
    BY <1>8 DEF Dispose, disk
  <2>2. IsFiniteSet(events') /\ Cardinality(events') = 0
    BY <2>1, FS_EmptySet
  <2> QED BY <1>0, <1>c, <2>1, <2>2
<1>9. ASSUME NEW g, Fails(g) PROVE Counted'
  BY <1>w, <1>9 DEF Fails, FailLoad, disk
<1>10. ASSUME NEW g, Posts(g) PROVE Counted'
  BY <1>w, <1>10 DEF Posts, disk
<1>11. ASSUME NEW g, NEW q, Advances(g, q) PROVE Counted'
  BY <1>k, <1>11 DEF Advances, Await, disk, session
<1>12. CASE UNCHANGED vars
  BY <1>k, <1>12 DEF vars
<1> QED
  BY <1>1, <1>2, <1>3, <1>4, <1>5, <1>6, <1>7, <1>8, <1>9, <1>10, <1>11, <1>12
     DEF Steps, EditSpan, MoveHead, EditAnchor

\* What became of the passes: most are left alone, aborted or gone.
LEMMA PassAfter ==
  ASSUME Inv, Steps, NEW h \in DOMAIN pass'
  PROVE  \/ /\ h \in DOMAIN pass /\ pass'[h] = pass[h]
            /\ UNCHANGED <<generation, tornDown>>
         \/ h \in DOMAIN pass /\ pass'[h] = [pass[h] EXCEPT !.aborted = TRUE]
         \/ h = generation + 1 /\ generation' = h /\ ~tornDown' /\ pass'[h] = StartedPass(h)
         \/ Advances(h, pass'[h])
<1>0. DOMAIN pass \subseteq 1..generation /\ generation \in Nat
  BY DEF Inv, TypeOK, Counted
<1>1. CASE UNCHANGED <<pass, generation, tornDown>>
  BY <1>1
<1>2. ASSUME Start, tornDown' = tornDown, ~tornDown
      PROVE  \/ h \in DOMAIN pass /\ pass'[h] = [pass[h] EXCEPT !.aborted = TRUE]
             \/ h = generation + 1 /\ generation' = h /\ ~tornDown' /\ pass'[h] = StartedPass(h)
  BY <1>0, <1>2 DEF Start
<1>3. CASE OpenRead \/ OpenResolve
  BY <1>1, <1>2, <1>3 DEF OpenRead, OpenResolve, Refuse
<1>4. CASE TimerFires
  BY <1>1, <1>2, <1>4 DEF TimerFires
<1>5. CASE HostReceive \/ PageLoad \/ PageReceive
  BY <1>1, <1>5 DEF HostReceive, PageLoad, PageReceive, session
<1>6. CASE \/ \E x \in Path : ScheduleRender(x)
           \/ EditSpan \/ MoveHead \/ \E a \in Anchor : EditAnchor(a)
  BY <1>1, <1>6 DEF ScheduleRender, EditSpan, MoveHead, EditAnchor, Notice, session
<1>7. CASE Dispose
  BY <1>7 DEF Dispose
<1>8. ASSUME NEW g, Fails(g) \/ Posts(g)
      PROVE  h \in DOMAIN pass /\ pass'[h] = pass[h] /\ UNCHANGED <<generation, tornDown>>
  BY <1>8 DEF Fails, Posts, FailLoad, Remove
<1>9. ASSUME NEW g, NEW q, Advances(g, q)
      PROVE  \/ /\ h \in DOMAIN pass /\ pass'[h] = pass[h]
                /\ UNCHANGED <<generation, tornDown>>
             \/ Advances(h, pass'[h])
  <2>1. /\ pass' = [pass EXCEPT ![g] = q] /\ g \in DOMAIN pass
        /\ UNCHANGED <<generation, tornDown>>
    BY <1>9 DEF Advances, Await, Update, session
  <2>2. CASE h = g
    <3>1. pass'[h] = q
      BY <2>1, <2>2
    <3> QED BY <1>9, <2>2, <3>1, Zenon
  <2>3. CASE h # g
    BY <2>1, <2>3
  <2> QED BY <2>2, <2>3
<1>10. CASE UNCHANGED vars
  BY <1>1, <1>10 DEF vars, session
<1> QED
  BY <1>3, <1>4, <1>5, <1>6, <1>7, <1>8, <1>9, <1>10 DEF Steps

\* start and dispose abort whatever else is running.
LEMMA NewestStep == ASSUME Inv, Steps PROVE OnlyNewestRuns'
<1> SUFFICES ASSUME NEW h \in DOMAIN pass', ~pass'[h].aborted
             PROVE  h = generation' /\ ~tornDown'
  BY DEF OnlyNewestRuns
<1>0. \A g \in DOMAIN pass : PassOK(pass[g]) /\ (~pass[g].aborted => g = generation /\ ~tornDown)
  BY DEF Inv, Shaped, OnlyNewestRuns
<1>1. CASE h \in DOMAIN pass /\ pass'[h] = pass[h] /\ UNCHANGED <<generation, tornDown>>
  BY <1>0, <1>1
<1>2. CASE h \in DOMAIN pass /\ pass'[h] = [pass[h] EXCEPT !.aborted = TRUE]
  BY <1>0, <1>2 DEF PassOK, Fields
<1>3. CASE h = generation + 1 /\ generation' = h /\ ~tornDown'
  BY <1>3
<1>4. CASE Advances(h, pass'[h])
  BY <1>0, <1>4 DEF Advances, Good, Await, session
<1> QED BY <1>1, <1>2, <1>3, <1>4, PassAfter

LEMMA PassesOK == ASSUME Inv, Steps, NEW h \in DOMAIN pass' PROVE PassOK(pass'[h])
<1>0. \A g \in DOMAIN pass : PassOK(pass[g])
  BY DEF Inv, Shaped
<1>1. CASE h \in DOMAIN pass /\ pass'[h] = pass[h]
  BY <1>0, <1>1
<1>2. CASE h \in DOMAIN pass /\ pass'[h] = [pass[h] EXCEPT !.aborted = TRUE]
  BY <1>0, <1>2, Aborting
<1>3. CASE pass'[h] = StartedPass(h)
  BY <1>3 DEF StartedPass, PassOK, Fields, LoadStages, AfterCli, AfterRead
<1>4. CASE Advances(h, pass'[h])
  BY <1>4 DEF Advances, Good
<1> QED BY <1>1, <1>2, <1>3, <1>4, PassAfter

\* What PageLoad and PageReceive leave of the page.
LEMMA PageFields ==
  ASSUME Inv
  PROVE  /\ PageLoad => page'.shows = page.shows /\ page'.kind = page.kind /\ page'.loaded
         /\ PageReceive =>
              /\ page'.kind = page.kind /\ page'.loaded
              /\ page.kind = "viewer" => page'.shows = Head(inbox)
              /\ page.kind # "viewer" => page'.shows = page.shows
<1>1. DOMAIN page = {"kind", "loaded", "shows"}
  BY DEF Inv, Shaped
<1> QED BY <1>1 DEF PageLoad, PageReceive

\* Pages and messages keep their shape.
LEMMA PageShape ==
  ASSUME Inv, Steps
  PROVE  /\ page'.kind \in {"viewer", "panel"}
         /\ DOMAIN page' = {"kind", "loaded", "shows"}
         /\ outbox' \in Seq({"ready", "reload"})
<1>0. /\ page.kind \in {"viewer", "panel"} /\ DOMAIN page = {"kind", "loaded", "shows"}
      /\ outbox \in Seq({"ready", "reload"})
  BY DEF Inv, TypeOK, Shaped
<1>1. CASE HostReceive
  <2>1. outbox' = Tail(outbox) /\ outbox # <<>>
    BY <1>1 DEF HostReceive
  <2>2. page' = page \/ page' = BlankPage("viewer")
    BY <1>1 DEF HostReceive, OnReady, OnReload, SetPage
  <2> QED BY <1>0, <2>1, <2>2 DEF BlankPage
<1>2. CASE PageLoad
  <2>1. outbox' = outbox \/ outbox' = Append(outbox, "ready")
    BY <1>2 DEF PageLoad
  <2>2. page' = [page EXCEPT !.loaded = TRUE]
    BY <1>2 DEF PageLoad
  <2> QED BY <1>0, <2>1, <2>2
<1>3. CASE PageReceive
  <2>1. outbox' = outbox \/ outbox' = Append(outbox, "reload")
    BY <1>3 DEF PageReceive
  <2>2. page' = page \/ page' = [page EXCEPT !.shows = Head(inbox)]
    BY <1>3 DEF PageReceive
  <2> QED BY <1>0, <2>1, <2>2
<1>4. CASE outbox' = outbox /\ (page' = page \/ page' = BlankPage("panel"))
  BY <1>0, <1>4 DEF BlankPage
<1> QED
  BY <1>1, <1>2, <1>3, <1>4
     DEF Steps, OpenRead, OpenResolve, Refuse, TimerFires, ScheduleRender, EditSpan, MoveHead,
         EditAnchor, Notice, Dispose, Fails, FailLoad, ShowFallback, SetPage, Posts, PostDocument, Advances,
         Await, view, vars

\* A watched path, an event and a missed change are of a path of the span.
LEMMA TypeStep == ASSUME Inv, Steps, Counted', Ordered' PROVE TypeOK'
<1>0. TypeOK /\ edits \in Nat /\ generation \in Nat
  BY DEF Inv, Counted
<1>1. DOMAIN pass' \subseteq 1..generation'
  <2> SUFFICES ASSUME NEW h \in DOMAIN pass' PROVE h \in 1..generation'
    OBVIOUS
  <2>1. CASE h = generation + 1 /\ generation' = h
    BY <1>0, <2>1
  <2>2. CASE Advances(h, pass'[h])
    BY <1>0, <2>2 DEF Advances, Await, session, TypeOK
  <2>3. CASE h \in DOMAIN pass /\ generation' \in {generation, generation + 1}
    BY <1>0, <2>3 DEF TypeOK
  <2>4. generation' \in {generation, generation + 1}
    BY DEF Steps, OpenRead, OpenResolve, Refuse, Start, HostReceive, TimerFires, PageLoad,
           PageReceive, ScheduleRender, EditSpan, MoveHead, EditAnchor, Notice, Dispose,
           Fails, FailLoad, Posts, Advances, Await, session, vars
  <2> QED BY <2>1, <2>2, <2>3, <2>4, PassAfter
<1>2. \A h \in DOMAIN pass' : PassOK(pass'[h])
  BY PassesOK
<1>3. \A h \in DOMAIN pass' :
        /\ pass'[h].stage \in LoadStages \cup {"content", "restat", "date"}
        /\ pass'[h].aborted \in BOOLEAN
        /\ pass'[h].names \subseteq Anchor
        /\ pass'[h].steady \subseteq pass'[h].names
  BY <1>2, Zenon DEF PassOK, CleanAnchors
<1>4. /\ names' \in Declaration /\ committed' \subseteq Anchor
      /\ edits' \in 0..MaxEdit /\ file' \in [Anchor -> File]
  <2>1. CASE UNCHANGED disk
    BY <1>0, <2>1 DEF TypeOK, disk
  <2>2. CASE EditSpan \/ MoveHead
    BY <1>0, <2>2, EditAssumption DEF TypeOK, EditSpan, MoveHead, Notice
  <2>3. ASSUME NEW a \in Anchor, EditAnchor(a)
        PROVE  /\ names' \in Declaration /\ committed' \subseteq Anchor
               /\ edits' \in 0..MaxEdit /\ file' \in [Anchor -> File]
    <3>1. PICK t \in FileText : file' = [file EXCEPT ![a] = [text |-> t, stamp |-> @.stamp + 1]]
      BY <2>3 DEF EditAnchor
    <3>2. file[a].stamp \in Nat /\ file[a].stamp + 1 <= MaxEdit
      BY <1>0, <2>3, EditAssumption DEF EditAnchor, Inv, Shaped, TypeOK, File
    <3>3. [text |-> t, stamp |-> file[a].stamp + 1] \in File
      BY <3>2, EditAssumption DEF File
    <3> QED BY <1>0, <2>3, <3>1, <3>3, EditAssumption DEF TypeOK, EditAnchor, Notice
  <2> QED
    BY <2>1, <2>2, <2>3
       DEF Steps, OpenRead, OpenResolve, HostReceive, TimerFires, PageLoad, PageReceive,
           ScheduleRender, Dispose, Fails, FailLoad, Posts, Advances, Await, disk, vars
<1>5. phase' \in {"reading", "resolving", "refused", "starting", "open"}
  BY <1>0
     DEF Steps, OpenRead, OpenResolve, Refuse, HostReceive, TimerFires, PageLoad, PageReceive,
         ScheduleRender, EditSpan, MoveHead, EditAnchor, Notice, Dispose, Fails, FailLoad, Posts,
         EnsureWatchers, Advances, Await, vars, TypeOK
<1>6. openNames' \subseteq Anchor /\ tornDown' \in BOOLEAN /\ timer' \in BOOLEAN
  BY <1>0
     DEF Steps, OpenRead, OpenResolve, HostReceive, TimerFires, PageLoad, PageReceive,
         ScheduleRender, EditSpan, MoveHead, EditAnchor, Notice, Dispose, Fails, FailLoad, Posts,
         Advances, Await, session, vars, TypeOK, Declaration
<1>7. watched' \subseteq Path /\ events' \subseteq Path /\ missed' \subseteq Path \cup {HEAD}
  <2>1. \A g \in DOMAIN pass : pass[g].names \subseteq Path
    BY <1>0 DEF TypeOK, Path
  <2>2. watched' \subseteq Path
    BY <1>0, <2>1
       DEF Steps, OpenRead, OpenResolve, HostReceive, TimerFires, PageLoad, PageReceive,
           ScheduleRender, EditSpan, MoveHead, EditAnchor, Notice, Dispose, Fails, FailLoad, Posts,
           EnsureWatchers, Advances, Await, session, vars, TypeOK, Path
  <2>s. events \subseteq Path /\ missed \subseteq Path \cup {HEAD} /\ watched \subseteq Path
    BY <1>0, Zenon DEF TypeOK
  <2>3. ASSUME NEW x \in Path \cup {HEAD}, Notice(x)
        PROVE  events' \subseteq Path /\ missed' \subseteq Path \cup {HEAD}
    BY <2>s, <2>3 DEF Notice
  <2>4. CASE events' \subseteq events /\ (missed' = missed \/ missed' = {})
    BY <2>2, <2>s, <2>4
  <2>5. CASE EditSpan \/ MoveHead \/ \E a \in Anchor : EditAnchor(a)
    <3>1. PICK x \in Path \cup {HEAD} : Notice(x)
      BY <2>5 DEF EditSpan, MoveHead, EditAnchor, Path
    <3> QED BY <2>2, <2>3, <3>1
  <2> QED
    BY <2>2, <2>4, <2>5
       DEF Steps, OpenRead, OpenResolve, Start, HostReceive, TimerFires, PageLoad, PageReceive,
           ScheduleRender, Dispose, Fails, FailLoad, Posts, Advances, Await, vars
<1>8. page'.kind \in {"viewer", "panel"} /\ outbox' \in Seq({"ready", "reload"})
  BY PageShape
<1>9. \A i \in DOMAIN inbox' : inbox'[i].gen \in Generation
  <2>1. inbox' \in Seq(Document)
    BY DEF Ordered
  <2>2. \A i \in DOMAIN inbox' : inbox'[i] \in Document
    BY <2>1
  <2> QED BY <2>2 DEF Document
<1>10. \A i \in DOMAIN outbox' : outbox'[i] \in {"ready", "reload"}
  BY <1>8
<1>11. generation' \in 0..(MaxEdit + 1)
  <2>1. Cardinality(events') \in Nat
    BY FS_CardinalityType DEF Counted
  <2> QED BY <1>4, <2>1, EditAssumption DEF Counted, Pending
<1> QED BY <1>1, <1>3, <1>4, <1>5, <1>6, <1>7, <1>8, <1>9, <1>10, <1>11 DEF TypeOK

LEMMA ShapedStep == ASSUME Inv, Steps PROVE Shaped'
<1>1. \A h \in DOMAIN pass' : PassOK(pass'[h])
  BY PassesOK
<1>2. ASSUME NEW a \in Anchor PROVE file'[a].stamp <= edits'
  <2>0. file \in [Anchor -> File] /\ file[a].stamp <= edits /\ file[a].stamp \in Nat /\ edits \in Nat
    BY EditAssumption DEF Inv, TypeOK, Shaped, Counted, File
  <2>1. CASE UNCHANGED disk
    BY <2>0, <2>1 DEF disk
  <2>2. CASE EditSpan \/ MoveHead
    BY <2>0, <2>2 DEF EditSpan, MoveHead, Notice
  <2>3. ASSUME NEW b \in Anchor, EditAnchor(b) PROVE file'[a].stamp <= edits'
    <3>1. PICK t : file' = [file EXCEPT ![b] = [text |-> t, stamp |-> @.stamp + 1]]
      BY <2>3 DEF EditAnchor
    <3>2. edits' = edits + 1
      BY <2>3 DEF EditAnchor, Notice
    <3>3. CASE a = b
      <4>1. file'[a].stamp = file[a].stamp + 1
        BY <2>0, <3>1, <3>3
      <4> QED BY <2>0, <3>2, <4>1
    <3>4. CASE a # b
      BY <2>0, <3>1, <3>2, <3>4
    <3> QED BY <3>3, <3>4
  <2> QED
    BY <2>1, <2>2, <2>3
       DEF Steps, OpenRead, OpenResolve, HostReceive, TimerFires, PageLoad, PageReceive,
           ScheduleRender, Dispose, Fails, FailLoad, Posts, Advances, Await, disk, vars
<1> QED BY <1>1, <1>2, PageShape DEF Shaped

LEMMA ClosedStep == ASSUME Inv, Steps PROVE Closed'
<1>0. Closed
  BY DEF Inv
<1> QED
  BY <1>0
     DEF Closed, Steps, OpenRead, OpenResolve, HostReceive, TimerFires, PageLoad, PageReceive,
         ScheduleRender, EditSpan, MoveHead, EditAnchor, Notice, Dispose, Fails, FailLoad, Posts,
         EnsureWatchers, Advances, Await, MayPost, session, vars

\* Before the first pass is started nobody waits for one.
LEMMA Unstarted ==
  ASSUME Inv
  PROVE  /\ phase \notin {"starting", "open"} => generation = 0
         /\ generation \in Nat
         /\ DOMAIN pass \subseteq 1..generation
         /\ generation = 0 => DOMAIN pass = {}
<1>1. /\ phase \notin {"starting", "open"} => generation = 0
      /\ generation \in Nat
  BY DEF Inv, Counted
<1>2. DOMAIN pass \subseteq 1..generation
  BY Zenon DEF Inv, TypeOK
<1> QED BY <1>1, <1>2

\* What the steps do to the answer of the newest pass.
LEMMA AnswerIs ==
  ASSUME Inv, Steps, generation' # 0, generation' \notin DOMAIN pass', ~tornDown'
  PROVE  /\ generation' = generation /\ ~tornDown
         /\ \/ /\ generation \notin DOMAIN pass
               /\ UNCHANGED <<lastPosted, outcome>>
               /\ \/ HostReceive \/ PageLoad \/ PageReceive
                  \/ UNCHANGED <<page, inbox, outbox>>
            \/ generation \in DOMAIN pass /\ Posts(generation)
            \/ generation \in DOMAIN pass /\ ShowFallback(generation)
<1>1. ~OpenRead /\ ~OpenResolve
  <2>1. ~Start
    BY Unstarted DEF Start
  <2> QED BY <2>1, Unstarted DEF OpenRead, OpenResolve, Refuse
<1>2. ~TimerFires
  BY DEF TimerFires, Start, Inv, Closed
<1>3. ASSUME NEW g, NEW q, Advances(g, q)
      PROVE  generation' = generation /\ ~tornDown /\ generation \notin DOMAIN pass
             /\ UNCHANGED <<lastPosted, outcome, page, inbox, outbox>>
  BY <1>3 DEF Advances, Await, Update, session, view
<1>4. ASSUME NEW g, Fails(g)
      PROVE  /\ generation' = generation /\ ~tornDown
             /\ \/ /\ generation \notin DOMAIN pass
                   /\ UNCHANGED <<lastPosted, outcome, page, inbox, outbox>>
                \/ generation \in DOMAIN pass /\ ShowFallback(generation)
  <2>1. generation' = generation /\ tornDown' = tornDown /\ outbox' = outbox
        /\ DOMAIN pass' = DOMAIN pass \ {g} /\ g \in DOMAIN pass
    BY <1>4 DEF Fails, FailLoad, Remove
  <2>2. CASE g = generation
    BY <1>4, <2>1, <2>2 DEF Fails, FailLoad, MayPost
  <2>3. CASE g # generation
    BY <1>4, <2>1, <2>3 DEF Fails, FailLoad, MayPost, view
  <2> QED BY <2>2, <2>3
<1>5. ASSUME NEW g, Posts(g)
      PROVE  generation' = generation /\ ~tornDown /\ generation \in DOMAIN pass /\ Posts(generation)
  BY <1>5 DEF Posts, MayPost
<1>6. CASE \/ HostReceive \/ PageLoad \/ PageReceive
           \/ \E x \in Path : ScheduleRender(x)
           \/ EditSpan \/ MoveHead \/ \E a \in Anchor : EditAnchor(a)
           \/ UNCHANGED vars
  BY <1>6 DEF HostReceive, PageLoad, PageReceive, ScheduleRender, EditSpan, MoveHead, EditAnchor,
              Notice, session, view, vars
<1>7. ~Dispose
  BY DEF Dispose
<1> QED BY <1>1, <1>2, <1>3, <1>4, <1>5, <1>6, <1>7, Zenon DEF Steps

\* The newest pass always answers before it goes.
LEMMA AnsweredStep == ASSUME Inv, Steps PROVE Answered'
<1> SUFFICES ASSUME generation' # 0, generation' \notin DOMAIN pass', ~tornDown'
             PROVE  outcome'.gen = generation'
  BY DEF Answered
<1>1. CASE Posts(generation)
  BY <1>1, AnswerIs DEF Posts, PostDocument
<1>2. CASE ShowFallback(generation)
  BY <1>2, AnswerIs DEF ShowFallback
<1>3. CASE generation \notin DOMAIN pass /\ UNCHANGED outcome
  BY <1>3, AnswerIs DEF Inv, Answered
<1> QED BY <1>1, <1>2, <1>3, AnswerIs

-----------------------------------------------------------------------------
(* The documents and their order.                                          *)

LEMMA DocumentGen == ASSUME NEW d \in Document PROVE d.gen \in Nat
BY EditAssumption DEF Document, Generation

LEMMA DocumentFields ==
  ASSUME NEW g \in Generation, NEW p, PassOK(p), p.stage \in AfterCli
  PROVE  DocumentOf(g, p) \in Document /\ DocumentOf(g, p).gen = g
<1>1. ASSUME NEW a \in p.names PROVE CardOf(a, p) \in Card
  <2>1. a \in Anchor /\ p.history.text[a] \in FileText
    BY DEF PassOK
  <2>2. MatchAnchor(a, p.history) \in Kind
    BY DEF MatchAnchor, Kind
  <2>3. ASSUME a \in p.steady PROVE p.content[a] \in FileText
    BY <2>3 DEF PassOK, AfterRead
  <2> QED BY <2>1, <2>2, <2>3 DEF CardOf, Card, Kind, FileText
<1>2. [a \in p.names |-> CardOf(a, p)] \in [p.names -> Card]
  BY <1>1
<1>3. [a \in p.names |-> CardOf(a, p)] \in UNION {[N -> Card] : N \in SUBSET Anchor}
  BY <1>2 DEF PassOK
<1> QED BY <1>3 DEF DocumentOf, Document

\* A document joins the queue behind older ones.
LEMMA Enqueue ==
  ASSUME Ordered, generation \in Nat, NEW doc \in Document, doc.gen <= generation,
         lastPosted # None => lastPosted.gen <= doc.gen,
         lastPosted' = doc, Post(doc), UNCHANGED <<page, generation>>
  PROVE  Ordered'
<1> DEFINE s == inbox' n == Len(inbox)
<1>1. /\ inbox \in Seq(Document) /\ s = Append(inbox, doc)
      /\ n \in Nat /\ \A i \in 1..n : inbox[i] \in Document
  BY DEF Ordered, Post
<1>2. /\ s \in Seq(Document) /\ Len(s) = n + 1
      /\ \A i \in 1..n : s[i] = inbox[i]
      /\ s[n + 1] = doc
  BY <1>1
<1>3. /\ \A i \in 1..n : inbox[i].gen \in Nat
      /\ doc.gen \in Nat
      /\ lastPosted # None => lastPosted.gen \in Nat
      /\ page.shows # None => page.shows.gen \in Nat
  BY <1>1, DocumentGen DEF Ordered
<1>d. doc # None
  BY NoDocument
<1>n. n \in Nat
  BY <1>1
<1> HIDE DEF s, n
<1>4. \A i \in 1..(n + 1) : s[i].gen <= doc.gen
  <2> TAKE i \in 1..(n + 1)
  <2>1. CASE i = n + 1
    BY <1>1, <1>2, <1>3, <2>1
  <2>2. CASE i \in 1..n
    <3>1. lastPosted # None /\ inbox[i].gen <= lastPosted.gen
      BY <2>2 DEF Ordered, n
    <3>2. inbox[i].gen \in Nat /\ lastPosted.gen \in Nat /\ doc.gen \in Nat
      BY <1>3, <2>2, <3>1
    <3>3. s[i] = inbox[i] /\ lastPosted.gen <= doc.gen
      BY <1>2, <2>2, <3>1
    <3> QED BY <3>1, <3>2, <3>3
  <2> QED BY <1>n, <2>1, <2>2
<1>5. \A i, j \in 1..(n + 1) : i <= j => s[i].gen <= s[j].gen
  <2> TAKE i, j \in 1..(n + 1)
  <2> HAVE i <= j
  <2>1. CASE j = n + 1
    BY <1>2, <1>4, <2>1
  <2>2. CASE j \in 1..n
    <3>1. i \in 1..n /\ inbox[i].gen <= inbox[j].gen
      BY <1>n, <2>2 DEF Ordered, n
    <3>2. s[i] = inbox[i] /\ s[j] = inbox[j]
      BY <1>2, <2>2, <3>1
    <3> QED BY <3>1, <3>2
  <2> QED BY <1>n, <2>1, <2>2
<1>6. ASSUME page.shows # None
      PROVE  /\ page.shows \in Document /\ page.shows.gen <= doc.gen
             /\ \A i \in 1..(n + 1) : page.shows.gen <= s[i].gen
  <2>1. /\ page.shows \in Document /\ lastPosted # None /\ page.shows.gen <= lastPosted.gen
        /\ \A i \in 1..n : page.shows.gen <= inbox[i].gen
    BY <1>6 DEF Ordered, n
  <2>2. page.shows.gen <= doc.gen
    BY <1>3, <1>6, <2>1
  <2> QED BY <1>1, <1>2, <2>1, <2>2
<1>7. Len(inbox') = n + 1 /\ s = inbox'
  BY <1>2 DEF s
<1> QED BY <1>2, <1>4, <1>5, <1>6, <1>7, <1>d DEF Ordered

\* The oldest document leaves the queue, for the page or for nothing.
LEMMA Dequeue ==
  ASSUME Ordered, inbox # <<>>, inbox' = Tail(inbox), UNCHANGED <<lastPosted, generation>>,
         page'.shows = page.shows \/ page'.shows = Head(inbox)
  PROVE  Ordered'
<1> DEFINE s == inbox' n == Len(inbox)
<1>1. inbox \in Seq(Document) /\ n \in Nat \ {0} /\ \A i \in 1..n : inbox[i] \in Document
  BY DEF Ordered
<1>2. /\ s \in Seq(Document) /\ Len(s) = n - 1
      /\ \A i \in 1..(n - 1) : s[i] = inbox[i + 1]
      /\ Head(inbox) = inbox[1]
  BY <1>1
<1> HIDE DEF s, n
<1>3. /\ \A i \in 1..n : lastPosted # None /\ inbox[i].gen <= lastPosted.gen
      /\ \A i, j \in 1..n : i <= j => inbox[i].gen <= inbox[j].gen
  BY DEF Ordered, n
<1>4. /\ \A i \in 1..(n - 1) : lastPosted # None /\ s[i].gen <= lastPosted.gen
      /\ \A i, j \in 1..(n - 1) : i <= j => s[i].gen <= s[j].gen
      /\ \A i \in 1..(n - 1) : inbox[1].gen <= s[i].gen
  <2>1. ASSUME NEW i \in 1..(n - 1)
        PROVE  /\ i + 1 \in 1..n /\ 1 \in 1..n /\ s[i] = inbox[i + 1]
               /\ lastPosted # None /\ s[i].gen <= lastPosted.gen
               /\ inbox[1].gen <= s[i].gen
    <3>1. i + 1 \in 1..n /\ 1 \in 1..n /\ 1 <= i + 1
      BY <1>1
    <3>2. s[i] = inbox[i + 1]
      BY <1>2
    <3>3. lastPosted # None /\ inbox[i + 1].gen <= lastPosted.gen /\ inbox[1].gen <= inbox[i + 1].gen
      BY <1>3, <3>1
    <3> QED BY <3>1, <3>2, <3>3
  <2>2. ASSUME NEW i \in 1..(n - 1), NEW j \in 1..(n - 1), i <= j
        PROVE  s[i].gen <= s[j].gen
    <3>1. i + 1 <= j + 1
      BY <1>1, <2>2
    <3>2. inbox[i + 1].gen <= inbox[j + 1].gen
      BY <1>3, <2>1, <3>1
    <3> QED BY <2>1, <3>2
  <2> QED BY <2>1, <2>2
<1>5. ASSUME page'.shows # None
      PROVE  /\ page'.shows \in Document
             /\ lastPosted # None /\ page'.shows.gen <= lastPosted.gen
             /\ \A i \in 1..(n - 1) : page'.shows.gen <= s[i].gen
  <2>1. CASE page'.shows = Head(inbox)
    BY <1>1, <1>2, <1>3, <1>4, <2>1
  <2>2. CASE page'.shows = page.shows
    <3>1. /\ page.shows \in Document
          /\ lastPosted # None /\ page.shows.gen <= lastPosted.gen
          /\ \A i \in 1..n : page.shows.gen <= inbox[i].gen
      BY <1>5, <2>2 DEF Ordered, n
    <3> QED BY <1>1, <1>2, <2>2, <3>1
  <2> QED BY <2>1, <2>2
<1>6. Len(inbox') = n - 1 /\ s = inbox'
  BY <1>2 DEF s
<1>7. lastPosted # None => lastPosted \in Document /\ lastPosted.gen <= generation
  BY DEF Ordered
<1> QED BY <1>2, <1>4, <1>5, <1>6, <1>7 DEF Ordered

LEMMA OrderedStep == ASSUME Inv, Steps PROVE Ordered'
<1>0. Ordered /\ generation \in Nat /\ generation' \in Nat /\ generation' >= generation
  <2>1. generation' \in {generation, generation + 1}
    BY DEF Steps, OpenRead, OpenResolve, Refuse, Start, HostReceive, TimerFires, PageLoad,
           PageReceive, ScheduleRender, EditSpan, MoveHead, EditAnchor, Notice, Dispose,
           Fails, FailLoad, Posts, Advances, Await, session, vars
  <2> QED BY <2>1 DEF Inv, Counted
<1>k. ASSUME UNCHANGED <<inbox, lastPosted>>, page'.shows = page.shows PROVE Ordered'
  <2>1. ASSUME lastPosted # None PROVE lastPosted.gen <= generation'
    BY <1>0, <2>1, DocumentGen DEF Ordered
  <2> QED BY <1>0, <1>k, <2>1 DEF Ordered
<1>b. ASSUME NEW kind, SetPage(kind), UNCHANGED <<lastPosted, generation>> PROVE Ordered'
  <2>1. inbox' = <<>> /\ page'.shows = None /\ Len(inbox') = 0
    BY <1>b DEF SetPage, BlankPage
  <2> QED BY <1>0, <1>b, <2>1 DEF Ordered
<1>1. CASE OpenRead \/ OpenResolve
  <2>1. CASE Refuse
    BY <1>b, <1>1, <2>1 DEF Refuse, OpenRead, OpenResolve
  <2>2. CASE ~Refuse
    BY <1>k, <1>1, <2>2 DEF OpenRead, OpenResolve
  <2> QED BY <2>1, <2>2
<1>2. CASE HostReceive
  <2>1. CASE OnReady
    <3>1. CASE UNCHANGED inbox
      BY <1>k, <1>2, <2>1, <3>1 DEF HostReceive, OnReady
    <3>2. CASE lastPosted # None /\ Post(lastPosted)
      <4>1. lastPosted \in Document /\ lastPosted.gen <= generation
        BY <1>0, <3>2 DEF Ordered
      <4> QED BY <1>0, <1>2, <2>1, <3>2, <4>1, DocumentGen, Enqueue
                 DEF HostReceive, OnReady, session
    <3> QED BY <2>1, <3>1, <3>2 DEF OnReady
  <2>2. CASE OnReload
    <3>1. CASE SetPage("viewer")
      BY <1>b, <1>2, <3>1 DEF HostReceive, session
    <3>2. CASE UNCHANGED <<page, inbox>>
      BY <1>k, <1>2, <3>2 DEF HostReceive
    <3> QED BY <2>2, <3>1, <3>2 DEF OnReload
  <2> QED BY <1>2, <2>1, <2>2 DEF HostReceive
<1>3. CASE PageLoad
  BY <1>k, <1>3, PageFields DEF PageLoad
<1>4. CASE PageReceive
  BY <1>0, <1>4, PageFields, Dequeue DEF PageReceive, session
<1>5. ASSUME NEW g, Fails(g) PROVE Ordered'
  <2>1. CASE MayPost(g)
    BY <1>b, <1>5, <2>1 DEF Fails, FailLoad, ShowFallback
  <2>2. CASE ~MayPost(g)
    BY <1>k, <1>5, <2>2 DEF Fails, FailLoad, view
  <2> QED BY <2>1, <2>2
<1>6. ASSUME NEW g \in Generation, Posts(g) PROVE Ordered'
  <2> DEFINE doc == DocumentOf(g, pass[g])
  <2>1. PassOK(pass[g]) /\ pass[g].stage \in AfterCli /\ g = generation
    BY <1>6 DEF Posts, At, AfterCli, MayPost, Inv, Shaped
  <2>2. doc \in Document /\ doc.gen = generation
    BY <2>1, DocumentFields
  <2>3. lastPosted # None => lastPosted.gen <= doc.gen
    BY <1>0, <2>2 DEF Ordered
  <2>4. lastPosted' = doc /\ Post(doc) /\ UNCHANGED <<page, generation>>
    BY <1>6 DEF Posts, PostDocument
  <2> HIDE DEF doc
  <2> QED BY <1>0, <2>2, <2>3, <2>4, Enqueue
<1>7. CASE UNCHANGED <<inbox, lastPosted, page>>
  BY <1>k, <1>7
<1> QED
  BY <1>1, <1>2, <1>3, <1>4, <1>5, <1>6, <1>7
     DEF Steps, TimerFires, ScheduleRender, EditSpan, MoveHead, EditAnchor, Notice, Dispose, Advances,
         Await, view, vars

-----------------------------------------------------------------------------
(* What a pass has read, and what is there.                                *)

\* An edit leaves a stamp that no pass has seen.
LEMMA SteadyEdited ==
  ASSUME file \in [Anchor -> File], NEW p, PassOK(p), Steady(p), NEW b \in Anchor, EditAnchor(b)
  PROVE  Steady(p)'
<1>1. PICK t : file' = [file EXCEPT ![b] = [text |-> t, stamp |-> @.stamp + 1]]
  BY DEF EditAnchor
<1>2. \A a \in Anchor : file[a].stamp \in Nat
  BY EditAssumption DEF File
<1>3. \A a \in Anchor : \/ file'[a] = file[a]
                        \/ file'[a].stamp = file[a].stamp + 1
  BY <1>1
<1>4. p.names \subseteq Anchor
  BY DEF PassOK
<1> QED BY <1>2, <1>3, <1>4 DEF Steady

LEMMA SteadyStep == ASSUME Inv, Steps PROVE AllSteady'
<1> SUFFICES ASSUME NEW h \in DOMAIN pass' PROVE Steady(pass[h])'
  BY DEF AllSteady
<1>0. \A g \in DOMAIN pass : PassOK(pass[g]) /\ Steady(pass[g])
  BY DEF Inv, Shaped, AllSteady
<1>1. CASE \E b \in Anchor : EditAnchor(b)
  <2>1. PICK b \in Anchor : EditAnchor(b)
    BY <1>1
  <2>2. pass' = pass /\ file \in [Anchor -> File]
    BY <2>1 DEF EditAnchor, Notice, Inv, TypeOK
  <2> QED BY <1>0, <2>1, <2>2, SteadyEdited
<1>2. CASE file' = file
  <2>1. Steady(pass'[h])
    <3>1. CASE h \in DOMAIN pass /\ pass'[h] = pass[h]
      BY <1>0, <3>1
    <3>2. CASE h \in DOMAIN pass /\ pass'[h] = [pass[h] EXCEPT !.aborted = TRUE]
      BY <1>0, <3>2, Aborting
    <3>3. CASE pass'[h] = StartedPass(h)
      BY <3>3 DEF StartedPass, Steady, AfterStat
    <3>4. CASE Advances(h, pass'[h])
      BY <3>4 DEF Advances, Good
    <3> QED BY <3>1, <3>2, <3>3, <3>4, PassAfter
  <2> QED BY <1>2, <2>1 DEF Steady
<1> QED
  BY <1>1, <1>2
     DEF Steps, OpenRead, OpenResolve, HostReceive, TimerFires, PageLoad, PageReceive,
         ScheduleRender, EditSpan, MoveHead, Dispose, Fails, FailLoad, Posts, Advances, Await, disk, vars

\* An edit of the span file ends a pass's last word: it starts another pass, or
\* it went unseen.
LEMMA SpanHeldStep == ASSUME Inv, Steps PROVE SpanHeld'
<1> SUFFICES ASSUME NEW h \in DOMAIN pass', ~NotTheLastWord(h)' PROVE SameSpan(pass[h])'
  BY DEF SpanHeld
<1>0. /\ \A g \in DOMAIN pass : PassOK(pass[g]) /\ (NotTheLastWord(g) \/ SameSpan(pass[g]))
      /\ ~tornDown' /\ h = generation' /\ ~timer' /\ SpanFile \notin events' \cup missed'
  BY DEF Inv, Shaped, SpanHeld, NotTheLastWord
<1>1. CASE Start
  <2>1. pass'[h] = StartedPass(h)
    BY <1>0, <1>1 DEF Start
  <2> QED BY <2>1 DEF SameSpan, StartedPass, AfterCli
<1>2. ASSUME ~NotTheLastWord(h), UNCHANGED <<names, generation>> PROVE SameSpan(pass[h])'
  <2>1. h \in DOMAIN pass => SameSpan(pass[h])
    BY <1>0, <1>2
  <2>2. SameSpan(pass'[h])
    <3>1. CASE h \in DOMAIN pass /\ pass'[h] = pass[h]
      BY <2>1, <3>1
    <3>2. CASE h \in DOMAIN pass /\ pass'[h] = [pass[h] EXCEPT !.aborted = TRUE]
      BY <1>0, <2>1, <3>2, Aborting
    <3>3. CASE pass'[h] = StartedPass(h)
      BY <3>3 DEF StartedPass, SameSpan, AfterCli
    <3>4. CASE Advances(h, pass'[h])
      BY <2>1, <3>4 DEF Advances, Good
    <3> QED BY <3>1, <3>2, <3>3, <3>4, PassAfter
  <2> QED BY <1>2, <2>2 DEF SameSpan
<1>3. CASE UNCHANGED <<names, generation, tornDown, timer, events, missed>>
  BY <1>0, <1>2, <1>3 DEF NotTheLastWord
<1>4. ASSUME NEW x, Notice(x), UNCHANGED names PROVE SameSpan(pass[h])'
  <2>1. UNCHANGED <<generation, tornDown, timer>> /\ events \cup missed \subseteq events' \cup missed'
    BY <1>4 DEF Notice, session
  <2> QED BY <1>0, <1>2, <1>4, <2>1 DEF NotTheLastWord
<1>5. ~EditSpan
  BY <1>0 DEF EditSpan, Notice
<1>6. CASE (\E x \in Path : ScheduleRender(x)) \/ Dispose
  BY <1>0, <1>6 DEF ScheduleRender, Dispose
<1>7. CASE OpenRead \/ OpenResolve \/ TimerFires
  <2>1. DOMAIN pass = {} \/ ~(OpenRead \/ OpenResolve)
    BY Unstarted DEF OpenRead, OpenResolve
  <2>2. CASE pass' = pass
    BY <1>0, <1>1, <1>7, <2>1, <2>2 DEF OpenRead, OpenResolve, TimerFires
  <2> QED BY <1>0, <1>1, <1>7, <2>2 DEF OpenRead, OpenResolve, Refuse, TimerFires
<1> QED
  BY <1>3, <1>4, <1>5, <1>6, <1>7
     DEF Steps, HostReceive, PageLoad, PageReceive, MoveHead, EditAnchor, Fails, FailLoad,
         Posts, Advances, Await, disk, session, vars

\* A document made of what is there shows what is there.
LEMMA CurrentCards ==
  ASSUME NEW g \in Generation, NEW p, PassOK(p), Current(p),
         (p.stage = "cliRead" /\ AllDangling(p)) \/ p.stage = "date"
  PROVE  names # Unreadable /\ DocumentOf(g, p).card = [a \in names |-> CurrentCard(a)]
<1>1. /\ names # Unreadable /\ p.names = names /\ p.history.names = names
      /\ p.history.lineage = committed
      /\ \A a \in Anchor : p.history.text[a] = file[a].text
      /\ p.names \subseteq Anchor
  BY DEF Current, AfterCli, PassOK
<1>2. ASSUME NEW a \in names PROVE CardOf(a, p) = CurrentCard(a)
  <2>1. a \in Anchor /\ a \in p.names /\ p.history.text[a] = file[a].text
    BY <1>1
  <2>2. MatchAnchor(a, p.history) = MatchAnchor(a, HistoryNow)
    BY <1>1, <2>1 DEF MatchAnchor, Drifts, HistoryNow
  <2>3. CASE MatchAnchor(a, p.history) # "clean"
    BY <2>1, <2>2, <2>3 DEF CardOf, CurrentCard
  <2>4. CASE MatchAnchor(a, p.history) = "clean"
    <3>1. p.stage = "date" /\ a \in CleanAnchors(p)
      BY <2>1, <2>4 DEF AllDangling, CleanAnchors
    <3>2. p.content[a] = file[a].text /\ (p.content[a] # "missing" => a \in p.steady)
      BY <3>1 DEF Current, AfterRead
    <3>3. file[a].text = "recorded"
      BY <1>1, <2>1, <2>4 DEF MatchAnchor, Drifts
    <3>4. CardOf(a, p) = [kind |-> "clean", text |-> file[a].text]
      BY <2>4, <3>2, <3>3 DEF CardOf
    <3> QED BY <2>2, <2>4, <3>4 DEF CurrentCard
  <2> QED BY <2>3, <2>4
<1> QED BY <1>1, <1>2 DEF DocumentOf

\* A later edit is watched or missed; a pass in between notices nothing.
LEMMA SyncedStep == ASSUME Inv, Steps PROVE Synced'
<1> SUFFICES ASSUME Undisturbed' PROVE Synced'
  BY DEF Synced
<1>0. Synced /\ generation' # 0 /\ ~tornDown' /\ events' = {} /\ ~timer' /\ missed' = {}
  BY DEF Inv, Undisturbed
<1>1. CASE Start
  <2>1. generation' \in DOMAIN pass' /\ pass'[generation'] = StartedPass(generation')
    BY <1>1, Unstarted DEF Start
  <2>2. Current(pass[generation])'
    BY <2>1 DEF Current, StartedPass, AfterStat, AfterCli, AfterRead
  <2> QED BY <2>1, <2>2 DEF Synced
<1>2. CASE /\ UNCHANGED <<disk, generation, pass, tornDown, events, timer, missed>>
           /\ UNCHANGED <<outcome, lastPosted>>
  <2>1. Undisturbed
    BY <1>0, <1>2 DEF Undisturbed
  <2> QED BY <1>0, <1>2, <2>1 DEF Synced, Current, CurrentCard, HistoryNow, disk
<1>3. ASSUME NEW x, Notice(x) PROVE FALSE
  BY <1>0, <1>3 DEF Notice
<1>4. ASSUME NEW g, Fails(g) PROVE Synced'
  <2>1. /\ g \in DOMAIN pass /\ DOMAIN pass' = DOMAIN pass \ {g}
        /\ \A h \in DOMAIN pass' : pass'[h] = pass[h]
        /\ UNCHANGED <<disk, generation, tornDown, events, timer, missed>>
    BY <1>4 DEF Fails, FailLoad, Remove
  <2>2. Undisturbed
    BY <1>0, <2>1 DEF Undisturbed
  <2>3. CASE g = generation
    <3>1. outcome'.kind = "failure"
      BY <1>0, <1>4, <2>1, <2>3 DEF Fails, FailLoad, MayPost, ShowFallback
    <3> QED BY <2>1, <2>3, <3>1 DEF Synced
  <2>4. CASE g # generation
    <3>1. UNCHANGED <<outcome, lastPosted>>
      BY <1>4, <2>4 DEF Fails, FailLoad, MayPost, view
    <3> QED BY <1>0, <2>1, <2>2, <2>4, <3>1 DEF Synced, Current, CurrentCard, HistoryNow, disk
  <2> QED BY <2>3, <2>4
<1>5. ASSUME NEW g \in Generation, Posts(g) PROVE Synced'
  <2>1. /\ g \in DOMAIN pass /\ g = generation /\ generation' \notin DOMAIN pass'
        /\ UNCHANGED <<disk, generation, tornDown, events, timer, missed>>
        /\ lastPosted' = DocumentOf(g, pass[g])
        /\ (pass[g].stage = "cliRead" /\ AllDangling(pass[g])) \/ pass[g].stage = "date"
    BY <1>0, <1>5 DEF Posts, MayPost, Remove, PostDocument, At
  <2>2. Undisturbed
    BY <1>0, <2>1, EditAssumption, Unstarted DEF Undisturbed, Generation
  <2>3. PassOK(pass[g]) /\ Current(pass[g])
    BY <1>0, <2>1, <2>2 DEF Inv, Shaped, Synced
  <2>4. names # Unreadable /\ lastPosted'.card = [a \in names |-> CurrentCard(a)]
    BY <2>1, <2>3, CurrentCards
  <2> QED BY <2>1, <2>4 DEF Synced, CurrentCard, HistoryNow, disk
<1>6. ASSUME NEW g \in Generation, NEW q, Advances(g, q) PROVE Synced'
  <2>1. /\ g \in DOMAIN pass /\ pass' = [pass EXCEPT ![g] = q]
        /\ Current(pass[g]) => Current(q)
        /\ UNCHANGED <<disk, generation, tornDown, events, timer, missed, outcome, lastPosted>>
    BY <1>6 DEF Advances, Await, Update, Good, session, view
  <2>2. Undisturbed
    BY <1>0, <2>1 DEF Undisturbed
  <2>3. CASE g = generation
    <3>1. Current(q) /\ pass'[generation'] = q /\ generation' \in DOMAIN pass'
      BY <1>0, <2>1, <2>2, <2>3 DEF Synced
    <3> QED BY <2>1, <3>1 DEF Synced, Current, disk
  <2>4. CASE g # generation
    <3>1. /\ DOMAIN pass' = DOMAIN pass
          /\ generation \in DOMAIN pass => pass'[generation'] = pass[generation]
      BY <2>1, <2>4
    <3> QED BY <1>0, <2>1, <2>2, <2>4, <3>1 DEF Synced, Current, CurrentCard, HistoryNow, disk
  <2> QED BY <2>3, <2>4
<1>7. CASE OpenRead \/ OpenResolve
  BY <1>0, <1>1, <1>7, Unstarted DEF OpenRead, OpenResolve, Refuse
<1>8. CASE TimerFires
  BY <1>0, <1>1, <1>8 DEF TimerFires
<1>9. CASE (\E x \in Path : ScheduleRender(x)) \/ Dispose
  BY <1>0, <1>9 DEF ScheduleRender, Dispose
<1>10. CASE HostReceive \/ PageLoad \/ PageReceive \/ UNCHANGED vars
  BY <1>2, <1>10 DEF HostReceive, PageLoad, PageReceive, session, disk, vars
<1> QED
  BY <1>3, <1>4, <1>5, <1>6, <1>7, <1>8, <1>9, <1>10 DEF Steps, EditSpan, MoveHead, EditAnchor

\* Whatever the page and the host say to each other, the newest document is not lost.
LEMMA DeliveredStep == ASSUME Inv, Steps, outbox' \in Seq({"ready", "reload"}) PROVE Delivered'
<1> SUFFICES ASSUME generation' # 0, generation' \notin DOMAIN pass', ~tornDown',
                    outcome'.kind = "document"
             PROVE  Delivered'
  BY DEF Delivered
<1>0. /\ outbox \in Seq({"ready", "reload"}) /\ inbox \in Seq(Document)
      /\ page.kind \in {"viewer", "panel"}
  BY DEF Inv, Shaped, Ordered, TypeOK
<1>d. ASSUME NEW d PROVE Len(Append(inbox, d)) = Len(inbox) + 1 /\ Append(inbox, d) # <<>>
                         /\ Append(inbox, d)[Len(inbox) + 1] = d
  BY <1>0
<1>1. ASSUME NEW d, lastPosted' = d, d # None, Post(d), UNCHANGED page PROVE Delivered'
  BY <1>1, <1>d DEF Delivered, Post
<1>2. CASE Posts(generation)
  <2>1. DocumentOf(generation, pass[generation]) # None
    <3>1. /\ generation \in Generation
          /\ PassOK(pass[generation]) /\ pass[generation].stage \in AfterCli
      BY <1>2, Unstarted, EditAssumption DEF Posts, At, AfterCli, Inv, Shaped, TypeOK, Generation
    <3> QED BY <3>1, DocumentFields, NoDocument
  <2> QED BY <1>1, <1>2, <2>1 DEF Posts, PostDocument
<1>3. CASE ShowFallback(generation)
  BY <1>3 DEF ShowFallback
<1>4. CASE /\ generation' = generation /\ ~tornDown /\ generation \notin DOMAIN pass
           /\ UNCHANGED <<lastPosted, outcome>>
  <2>0. /\ lastPosted # None
        /\ inbox # <<>> => inbox[Len(inbox)] = lastPosted
        /\ page.kind = "panel" => inbox # <<>> \/ Sent("reload")
        /\ page.kind = "viewer" =>
             ~page.loaded \/ inbox # <<>> \/ page.shows = lastPosted \/ Sent("ready")
    BY <1>4 DEF Inv, Delivered
  <2>1. CASE UNCHANGED <<page, inbox, outbox>>
    BY <1>4, <2>0, <2>1 DEF Delivered, Sent
  <2>2. CASE HostReceive
    <3>1. phase \in {"starting", "open"}
      BY <1>4, Unstarted
    <3>2. CASE OnReady
      BY <1>1, <1>4, <2>0, <3>1, <3>2 DEF OnReady
    <3>3. CASE OnReload
      <4>1. page' = BlankPage("viewer") /\ inbox' = <<>>
        BY <3>1, <3>3 DEF OnReload, SetPage
      <4> QED BY <1>4, <2>0, <4>1 DEF Delivered, BlankPage
    <3> QED BY <2>2, <3>2, <3>3 DEF HostReceive
  <2>3. CASE PageLoad
    <3>1. page'.kind = page.kind /\ inbox' = inbox
      BY <2>3, PageFields DEF PageLoad
    <3>2. CASE page.kind = "viewer"
      <4>1. outbox' = Append(outbox, "ready")
        BY <2>3, <3>2 DEF PageLoad
      <4>2. Len(outbox) + 1 \in 1..Len(outbox') /\ outbox'[Len(outbox) + 1] = "ready"
        BY <1>0, <4>1
      <4> QED BY <1>4, <2>0, <3>1, <3>2, <4>2 DEF Delivered, Sent
    <3>3. CASE page.kind # "viewer"
      <4>1. outbox' = outbox
        BY <2>3, <3>3 DEF PageLoad
      <4> QED BY <1>4, <2>0, <3>1, <3>3, <4>1 DEF Delivered, Sent
    <3> QED BY <3>2, <3>3
  <2>4. CASE PageReceive
    <3>1. page'.kind = page.kind /\ inbox # <<>> /\ inbox' = Tail(inbox)
      BY <2>4, PageFields DEF PageReceive
    <3>2. Len(inbox) \in Nat \ {0}
      BY <1>0, <3>1
    <3>3. inbox' # <<>> => inbox'[Len(inbox')] = lastPosted
      <4>1. ASSUME inbox' # <<>> PROVE inbox'[Len(inbox')] = inbox[Len(inbox)]
        BY <1>0, <3>1, <4>1
      <4> QED BY <2>0, <3>1, <4>1
    <3>4. CASE page.kind = "viewer"
      <4>1. page'.shows = Head(inbox)
        BY <2>4, <3>4, PageFields
      <4>2. Head(inbox) = inbox[1] /\ Len(Tail(inbox)) = Len(inbox) - 1
        BY <1>0, <3>1
      <4>3. inbox' = <<>> => Len(inbox) = 1
        <5>1. Len(<<>>) = 0
          OBVIOUS
        <5>2. ASSUME Tail(inbox) = <<>> PROVE Len(inbox) - 1 = 0
          BY <4>2, <5>1, <5>2, Zenon
        <5> QED BY <3>1, <3>2, <5>2
      <4> QED BY <1>4, <2>0, <3>1, <3>3, <3>4, <4>1, <4>2, <4>3 DEF Delivered
    <3>5. CASE page.kind # "viewer"
      <4>1. outbox' = Append(outbox, "reload")
        BY <2>4, <3>5 DEF PageReceive
      <4>2. Len(outbox) + 1 \in 1..Len(outbox') /\ outbox'[Len(outbox) + 1] = "reload"
        BY <1>0, <4>1
      <4> QED BY <1>4, <2>0, <3>1, <3>3, <3>5, <4>2 DEF Delivered, Sent
    <3> QED BY <3>4, <3>5
  <2> QED BY <1>4, <2>1, <2>2, <2>3, <2>4, AnswerIs
<1> QED BY <1>2, <1>3, <1>4, AnswerIs

-----------------------------------------------------------------------------
(* The theorems.                                                           *)

LEMMA InitInv == Init => Inv
<1> SUFFICES ASSUME Init PROVE Inv
  OBVIOUS
<1> USE DEF Init
<1>1. /\ DOMAIN pass = {} /\ DOMAIN inbox = {} /\ DOMAIN outbox = {}
      /\ Len(inbox) = 0 /\ Len(outbox) = 0
  OBVIOUS
<1>2. file \in [Anchor -> File] /\ \A a \in Anchor : file[a].stamp = 0
  BY FirstAssumption, EditAssumption DEF File
<1>3. TypeOK
  <2>1. /\ names \in Declaration /\ committed \subseteq Anchor
        /\ edits \in 0..MaxEdit /\ generation \in 0..(MaxEdit + 1)
    BY FirstAssumption, EditAssumption
  <2>2. page.kind \in {"viewer", "panel"}
    BY DEF BlankPage
  <2> QED BY <1>1, <1>2, <2>1, <2>2 DEF TypeOK
<1>4. Counted
  <2>1. IsFiniteSet({}) /\ Cardinality({}) = 0
    BY FS_EmptySet
  <2> QED BY <2>1 DEF Counted, Pending
<1>5. Shaped
  BY <1>1, <1>2 DEF Shaped, BlankPage
<1>6. Closed /\ OnlyNewestRuns /\ Answered /\ AllSteady /\ SpanHeld /\ Synced /\ Delivered
  BY <1>1 DEF Closed, OnlyNewestRuns, Answered, AllSteady, SpanHeld, Synced, Undisturbed, Delivered
<1>7. Ordered
  BY <1>1 DEF Ordered, BlankPage
<1> QED BY <1>3, <1>4, <1>5, <1>6, <1>7 DEF Inv

LEMMA NextInv == Inv /\ [Next]_vars => Inv'
<1> SUFFICES ASSUME Inv, [Next]_vars PROVE Inv'
  OBVIOUS
<1>0. Steps
  BY StepIs
<1>1. Counted' /\ Ordered' /\ Shaped'
  BY <1>0, CountedStep, OrderedStep, ShapedStep
<1>2. TypeOK'
  BY <1>0, <1>1, TypeStep
<1>3. Closed' /\ OnlyNewestRuns' /\ Answered' /\ AllSteady' /\ SpanHeld' /\ Synced'
  BY <1>0, ClosedStep, NewestStep, AnsweredStep, SteadyStep, SpanHeldStep, SyncedStep
<1>4. Delivered'
  BY <1>0, PageShape, DeliveredStep
<1> QED BY <1>1, <1>2, <1>3, <1>4 DEF Inv

\* The inductive invariant holds of every reachable state of the viewer: of the
\* provider, the render session and the page together.
THEOREM Invariance == Spec => []Inv
BY InitInv, NextInv, PTL DEF Spec

\* Every variable keeps its type, however many files the span anchors and
\* however often they are edited (the whole session and the page).
THEOREM TypeCorrect == Spec => []TypeOK
BY Invariance, PTL DEF Inv

\* start and dispose abort every other pass (spanRenderSession.ts, start).
THEOREM NewestRuns == Spec => []OnlyNewestRuns
BY Invariance, PTL DEF Inv

\* A preview that was certified as clean is the recorded text, unless the CLI no
\* longer found the anchor declared, and then the pass does not last; or unless
\* the file was absent both times it was looked at (readCleanPreviews, statsEqual,
\* matchAnchor).
THEOREM CleanPreviews == Spec => []CleanPreviewIsRecorded
<1>1. Inv => CleanPreviewIsRecorded
  <2> SUFFICES ASSUME Inv, NEW g \in DOMAIN pass, pass[g].stage = "date",
                      NEW a \in pass[g].names,
                      CardOf(a, pass[g]).kind = "clean", pass[g].stat[a] # None
               PROVE  \/ CardOf(a, pass[g]).text = "recorded"
                      \/ a \notin pass[g].history.names /\ NotTheLastWord(g)
    BY DEF CleanPreviewIsRecorded
  <2> DEFINE p == pass[g]
  <2>1. Steady(p) /\ (NotTheLastWord(g) \/ SameSpan(p))
    BY DEF Inv, AllSteady, SpanHeld
  <2>2. MatchAnchor(a, p.history) = "clean" /\ a \in p.steady
    BY DEF CardOf
  <2>3. CASE a \in p.history.names
    <3>1. p.history.text[a] = "recorded"
      BY <2>2, <2>3 DEF MatchAnchor, Drifts
    <3>2. p.content[a] = "recorded"
      BY <2>1, <2>2, <3>1 DEF Steady, AfterStat
    <3> QED BY <2>2, <3>2 DEF CardOf
  <2>4. CASE a \notin p.history.names
    BY <2>1, <2>4 DEF SameSpan, AfterCli
  <2> QED BY <2>3, <2>4
<1> QED BY <1>1, Invariance, PTL

\* When everything has come to rest after a pass that produced a document, and
\* a watcher saw every edit, the page shows what is on disk.
THEOREM SettledIsCurrent == Spec => []SettledViewIsCurrent
<1>1. Inv => SettledViewIsCurrent
  <2> SUFFICES ASSUME Inv, Quiescent, outcome.kind = "document", missed = {} PROVE ShowsDisk
    BY DEF SettledViewIsCurrent
  <2>1. generation # 0 /\ generation \notin DOMAIN pass /\ ~tornDown
    BY DEF Quiescent, Inv, Counted
  <2>2. Undisturbed
    BY <2>1 DEF Quiescent, Undisturbed
  <2>3. names # Unreadable /\ lastPosted.card = [a \in names |-> CurrentCard(a)]
    BY <2>1, <2>2 DEF Inv, Synced
  <2>4. ~Sent("reload") /\ ~Sent("ready") /\ inbox = <<>> /\ page.loaded
    BY DEF Quiescent, Sent
  <2>5. page.kind \in {"viewer", "panel"}
    BY DEF Inv, TypeOK
  <2>6. lastPosted # None /\ page.kind = "viewer" /\ page.shows = lastPosted
    BY <2>1, <2>4, <2>5 DEF Inv, Delivered
  <2> QED BY <2>3, <2>6 DEF ShowsDisk
<1> QED BY <1>1, Invariance, PTL

\* Whatever was in flight when the tab was closed, nothing is watched,
\* scheduled, started or posted afterwards (dispose).
THEOREM FinalDisposal == Spec => DisposalIsFinal
<1> DEFINE Quiet == /\ UNCHANGED <<generation, lastPosted, inbox, page>>
                    /\ watched' = {} /\ events' = {} /\ ~timer'
<1>1. ASSUME Inv, [Next]_vars, tornDown PROVE Quiet
  <2>1. Steps
    BY <1>1, StepIs
  <2>2. watched = {} /\ events = {} /\ ~timer
    BY <1>1 DEF Inv, Closed
  <2>3. ASSUME NEW g, Fails(g) PROVE Quiet
    BY <1>1, <2>2, <2>3 DEF Fails, FailLoad, EnsureWatchers, MayPost, view
  <2>4. ASSUME NEW g, NEW q, Advances(g, q) PROVE Quiet
    BY <2>2, <2>4 DEF Advances, Await, session, view
  <2>5. ASSUME NEW x, Notice(x) PROVE Quiet
    BY <2>2, <2>5 DEF Notice, session, view
  <2>6. CASE UNCHANGED vars
    BY <2>2, <2>6 DEF vars
  <2>7. ~TimerFires /\ ~OpenRead /\ ~OpenResolve /\ ~HostReceive /\ ~Dispose
    BY <1>1, <2>2 DEF TimerFires, OpenRead, OpenResolve, HostReceive, Dispose
  <2>8. \A x, g : ~ScheduleRender(x) /\ ~Posts(g)
    BY <1>1, <2>2 DEF ScheduleRender, Posts, MayPost
  <2> HIDE DEF Quiet
  <2> QED
    BY <1>1, <2>1, <2>3, <2>4, <2>5, <2>6, <2>7, <2>8, Zenon DEF Steps, EditSpan, MoveHead, EditAnchor
<1> HIDE DEF Quiet
<1>2. Inv /\ [Next]_vars => [tornDown => Quiet]_vars
  BY <1>1
<1>3. Spec => [][tornDown => Quiet]_vars
  BY <1>2, Invariance, PTL DEF Spec
<1> QED BY <1>3 DEF DisposalIsFinal, Quiet

\* A later pass's document is never replaced by an earlier one's, neither in
\* the host nor on the page (the generation token of spanRenderSession.ts).
THEOREM NeverBack == Spec => ViewNeverGoesBack
<1> DEFINE Forward ==
      /\ lastPosted # None => lastPosted'.gen >= lastPosted.gen
      /\ page.shows # None /\ page'.shows # None => page'.shows.gen >= page.shows.gen
<1>1. ASSUME Inv, [Next]_vars PROVE Forward
  <2>0. Steps
    BY <1>1, StepIs
  <2>1. Ordered
    BY <1>1 DEF Inv
  <2>2. /\ lastPosted # None => lastPosted.gen \in Nat /\ lastPosted.gen <= generation
        /\ page.shows # None => page.shows.gen \in Nat
    BY <2>1, DocumentGen DEF Ordered
  <2>3. CASE PageReceive
    <3>1. page'.shows = page.shows \/ (page'.shows = inbox[1] /\ 1 \in 1..Len(inbox))
      BY <1>1, <2>1, <2>3, PageFields DEF PageReceive, Ordered
    <3>2. page.shows # None /\ page'.shows # None => page'.shows.gen >= page.shows.gen
      BY <2>1, <2>2, <3>1 DEF Ordered
    <3> QED BY <2>2, <2>3, <3>2 DEF PageReceive
  <2>4. ASSUME NEW g, Posts(g) PROVE Forward
    <3>1. lastPosted'.gen = generation /\ page' = page
      BY <2>4 DEF Posts, PostDocument, DocumentOf, MayPost
    <3> QED BY <2>2, <3>1
  <2>5. CASE lastPosted' = lastPosted /\ (page'.shows = page.shows \/ page'.shows = None)
    BY <2>2, <2>5
  <2>6. CASE PageLoad
    BY <1>1, <2>5, <2>6, PageFields DEF PageLoad
  <2>7. ASSUME NEW g, Fails(g) PROVE Forward
    BY <2>5, <2>7 DEF Fails, FailLoad, ShowFallback, SetPage, BlankPage, view
  <2> HIDE DEF Forward
  <2>8. CASE OpenRead \/ OpenResolve \/ HostReceive
    BY <2>5, <2>8 DEF OpenRead, OpenResolve, Refuse, HostReceive, OnReady, OnReload, SetPage, BlankPage
  <2> QED
    BY <2>0, <2>3, <2>4, <2>5, <2>6, <2>7, <2>8
       DEF Steps, TimerFires, ScheduleRender, EditSpan, MoveHead, EditAnchor, Notice, Dispose, Advances,
           Await, view, vars
<1> HIDE DEF Forward
<1>2. Inv /\ [Next]_vars => [Forward]_vars
  BY <1>1
<1>3. Spec => [][Forward]_vars
  BY <1>2, Invariance, PTL DEF Spec
<1> QED BY <1>3 DEF ViewNeverGoesBack, Forward
=============================================================================
