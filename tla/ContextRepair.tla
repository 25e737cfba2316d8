---------------------------- MODULE ContextRepair ----------------------------
(***************************************************************************)
(* `git span context --fix`: the journaled repair of several span files,   *)
(* with the readers and writers that settle what a crashed repair left     *)
(* behind (packages/git-span/src/cli/context_repair.rs, entered through    *)
(* recovery_domain.rs).                                                    *)
(*                                                                         *)
(* A repair writes one temporary per planned span, then the repository-    *)
(* wide marker `recovery.pending`, then a journal in state Prepared, then  *)
(* renames the temporaries over the live spans one by one, then moves the  *)
(* journal to Committed and removes the marker.  A process may die between *)
(* any two of these steps.  The next reader or writer that finds the       *)
(* marker takes the domain exclusively and finishes, or refuses.           *)
(*                                                                         *)
(* Abstractions.  The bytes of a span file are a record: `edit` names who  *)
(* wrote the text, `at` the version of the source files its anchors were   *)
(* last verified against; an anchor has drifted when `at` is behind `src`. *)
(* The rendered response document is the record of the selected spans'     *)
(* bytes and of the source version, which is what it is computed from.     *)
(* The error of a failing system call leaves the state a crash at the same *)
(* point leaves: both are Crash.  Durability across power loss (fsync) is  *)
(* not modelled.                                                           *)
(***************************************************************************)
EXTENDS RecoveryDomain, Naturals, FiniteSets

CONSTANTS
    Op,           \* operation IDs of the --fix requests
    Span,         \* span names, as numbers in the order plans list them
    Selected,     \* [Op -> SUBSET Span]: the spans each request can touch
    Relocated,    \* [version -> SUBSET Span]: whose anchored text a version
                  \* of the source still holds, word for word, elsewhere
    None,         \* no marker, no journal, no temporary, no response
    Absent,       \* what a deleted span file reads as
    EditWindow,   \* may an unlocked edit land between a check and its write?
    AtomicDowngrade, \* does flock convert exclusive to shared in one step?
    MaxEdit,      \* bound on edits of span files, by editors and writers
    MaxSrc,       \* bound on versions of the source files
    MaxCrash,     \* bound on processes that die
    MaxTimeout    \* bound on lock waits that run into their deadline

ASSUME RepairAssumption ==
    /\ Span \subseteq Nat
    /\ Selected \in [Op -> SUBSET Span]
    /\ Relocated \in [0..MaxSrc -> SUBSET Span]
    /\ EditWindow \in BOOLEAN /\ AtomicDowngrade \in BOOLEAN
    /\ MaxEdit \in Nat /\ MaxSrc \in Nat \ {0}
    /\ MaxCrash \in Nat /\ MaxTimeout \in Nat

VARIABLES
    span,         \* live span files
    src,          \* version of the source files the anchors point into
    temp,         \* temp[o][s]: `.context-<o>-<index of s>.tmp`
    marker,       \* `recovery.pending`: None or the operation and its plan
    journal,      \* journal[o]: `operation-<o>.json`
    pc,           \* where each process is
    role,         \* what each process runs: a reader, a writer or a repair
    cur,          \* the operation a process works on
    plan,         \* the process's copy of the journal's entries
    resp,         \* the process's copy of the journal's response
    todo,         \* spans its current loop has still to visit
    seen,         \* what a reader has read so far
    edits, crashes, timeouts

files   == <<span, src, temp, marker, journal>>
locals  == <<role, cur, plan, resp, todo, seen>>
bounds  == <<edits, crashes, timeouts>>
vars    == <<lock, files, pc, locals, bounds>>

-----------------------------------------------------------------------------

Text     == [edit : 0..MaxEdit, at : 0..MaxSrc]
Bytes    == Text \cup {Absent}
Entry    == [orig : Text, new : Text]
Plan     == UNION {[S -> Entry] : S \in SUBSET Span}
Response == UNION {[spans : [S -> Bytes], src : 0..MaxSrc] : S \in SUBSET Span}
Journal  == [state : {"prepared", "committed", "delivered"},
             plan : Plan, resp : Response, old : BOOLEAN]
Marker   == [op : Op, plan : Plan]

\* A file that is not there is no file's contents.
ASSUME NoneAssumption == None \notin Marker
ASSUME AbsentAssumption == Absent \notin Text /\ None \notin Journal

Label == {"idle", "want", "enter", "rewant", "settle", "abort", "inspect",
          "back", "forward", "verify", "commit", "clear", "downgrade", "rejoin",
          "read", "write", "replay", "plan", "temps", "mark", "prepare", "apply",
          "rename", "reply"}

TypeOK ==
    /\ LockTypeOK
    /\ span \in [Span -> Bytes]
    /\ src \in 0..MaxSrc
    /\ temp \in [Op -> [Span -> Text \cup {None}]]
    /\ marker \in Marker \cup {None}
    /\ journal \in [Op -> Journal \cup {None}]
    /\ pc \in [Proc -> Label]
    /\ role \in [Proc -> {"none", "reader", "writer", "repair"}]
    /\ cur \in [Proc -> Op \cup {None}]
    /\ plan \in [Proc -> Plan]
    /\ resp \in [Proc -> Response \cup {None}]
    /\ todo \in [Proc -> SUBSET Span]
    /\ seen \in [Proc -> UNION {[S -> Bytes] : S \in SUBSET Span}]
    /\ edits \in 0..MaxEdit
    /\ crashes \in 0..MaxCrash
    /\ timeouts \in 0..MaxTimeout

EmptyMap == [s \in {} |-> None]

\* What the response document is computed from: the selected spans and the
\* source files they point into.
Snapshot(o, live) == [spans |-> [s \in Selected[o] |-> live[s]], src |-> src]

Journaled(o, state) == journal[o] # None /\ journal[o].state = state

\* The next span of a loop over the entries, which follow name order.
First(S, s) == s \in S /\ \A t \in S : s <= t

-----------------------------------------------------------------------------
(* Program-counter and guard bookkeeping.                                  *)

Goto(p, label) == pc' = [pc EXCEPT ![p] = label]

Clean(p) ==
    /\ role' = [role EXCEPT ![p] = "none"]
    /\ cur'  = [cur EXCEPT ![p] = None]
    /\ plan' = [plan EXCEPT ![p] = EmptyMap]
    /\ resp' = [resp EXCEPT ![p] = None]
    /\ todo' = [todo EXCEPT ![p] = {}]
    /\ seen' = [seen EXCEPT ![p] = EmptyMap]

\* The invocation ends, with an answer or an error: its guard is dropped.
Exit(p) == Goto(p, "idle") /\ Release(p) /\ Clean(p)

\* Where a process goes once nothing is pending (the end of acquire_reader,
\* acquire_writer and execute).
Settled(p) == CASE role[p] = "reader" -> "downgrade"
                [] role[p] = "writer" -> "write"
                [] OTHER -> "reply"

-----------------------------------------------------------------------------
(* Entering the recovery domain.                                           *)

Begin(p, r, o) ==
    /\ pc[p] = "idle"
    /\ Goto(p, "want")
    /\ role' = [role EXCEPT ![p] = r]
    /\ cur' = [cur EXCEPT ![p] = o]
    /\ UNCHANGED <<lock, files, plan, resp, todo, seen, bounds>>

\* list, show, drift, context, ...; add, why, delete, drift --fix, ...; and
\* context --fix with an operation ID, which clients may send again.
BeginReader(p) == Begin(p, "reader", None)
BeginWriter(p) == Begin(p, "writer", None)
BeginRepair(p, o) == Begin(p, "repair", o)

\* Mutant: a mutating command is classified as a reader.
ModeForgetsWriters(p) == IF role[p] = "repair" THEN "exclusive" ELSE "shared"

\* command_mode: readers ask for the shared mode, writers and execute for the
\* exclusive one.
ModeOf(p) == IF role[p] = "reader" THEN "shared" ELSE "exclusive"

Acquire(p) ==
    /\ pc[p] = "want"
    /\ TryAcquire(p, ModeOf(p))
    /\ Goto(p, "enter")
    /\ UNCHANGED <<files, locals, bounds>>

\* The wait for a contended lock reaches its deadline.
LockTimeout(p) ==
    /\ \/ pc[p] = "want" /\ ~Compatible(p, ModeOf(p))
       \/ pc[p] = "rewant" /\ ~Compatible(p, "exclusive")
    /\ timeouts < MaxTimeout
    /\ timeouts' = timeouts + 1
    /\ Exit(p)
    /\ UNCHANGED <<files, edits, crashes>>

\* Mutant: the marker is not looked at.
EnterUnchecked(p) ==
    /\ pc[p] = "enter" /\ role[p] # "repair"
    /\ IF role[p] = "reader"
       THEN Goto(p, "read") /\ todo' = [todo EXCEPT ![p] = Span]
       ELSE Goto(p, "write") /\ UNCHANGED todo
    /\ UNCHANGED <<lock, files, role, cur, plan, resp, seen, bounds>>

\* pending_recovery finds no marker: the guard just taken is the one to use.
EnterClean(p) ==
    /\ pc[p] = "enter" /\ role[p] # "repair"
    /\ marker = None
    /\ IF role[p] = "reader"
       THEN Goto(p, "read") /\ todo' = [todo EXCEPT ![p] = Span]
       ELSE Goto(p, "write") /\ UNCHANGED todo
    /\ UNCHANGED <<lock, files, role, cur, plan, resp, seen, bounds>>

\* Mutant: a reader starts to recover under its shared guard.
EnterPendingKeepsGuard(p) ==
    /\ pc[p] = "enter" /\ role[p] # "repair"
    /\ marker # None
    /\ Goto(p, "settle")
    /\ UNCHANGED <<lock, files, locals, bounds>>

\* A marker is pending.  A reader drops its shared guard to ask for the
\* exclusive one; a writer already holds it.
EnterPending(p) ==
    /\ pc[p] = "enter" /\ role[p] # "repair"
    /\ marker # None
    /\ IF role[p] = "reader"
       THEN Goto(p, "rewant") /\ Release(p)
       ELSE Goto(p, "settle") /\ UNCHANGED lock
    /\ UNCHANGED <<files, locals, bounds>>

Reacquire(p) ==
    /\ pc[p] = "rewant"
    /\ TryAcquire(p, "exclusive")
    /\ Goto(p, "settle")
    /\ UNCHANGED <<files, locals, bounds>>

-----------------------------------------------------------------------------
(* recover_pending_locked: the marker is read again under the exclusive    *)
(* guard, because another process may have settled it meanwhile.           *)

SettleNothing(p) ==
    /\ pc[p] = "settle"
    /\ marker = None
    /\ Goto(p, Settled(p))
    /\ UNCHANGED <<lock, files, locals, bounds>>

\* abort_unjournaled_preparation proves that no live span was touched: every
\* temporary still holds its planned bytes, every target its original bytes.
BeforeMutation(m) ==
    \A s \in DOMAIN m.plan :
        temp[m.op][s] = m.plan[s].new /\ span[s] = m.plan[s].orig

SettleUnjournaled(p) ==
    /\ pc[p] = "settle"
    /\ marker # None
    /\ journal[marker.op] = None
    /\ IF BeforeMutation(marker)
       THEN /\ Goto(p, "abort")
            /\ cur' = [cur EXCEPT ![p] = marker.op]
            /\ todo' = [todo EXCEPT ![p] = DOMAIN marker.plan]
            /\ UNCHANGED <<lock, role, plan, resp, seen>>
       ELSE Exit(p)
    /\ UNCHANGED <<files, bounds>>

\* What recovery takes over from the journal the marker names.
Adopt(p, label) ==
    /\ Goto(p, label)
    /\ cur' = [cur EXCEPT ![p] = marker.op]
    /\ plan' = [plan EXCEPT ![p] = journal[marker.op].plan]
    /\ resp' = [resp EXCEPT ![p] = journal[marker.op].resp]
    /\ UNCHANGED <<lock, role, todo, seen>>

\* Mutants: a prepared journal is committed as it stands; a committed one is
\* taken for settled although its marker is still there.
SettleCommitsAsIs(p) ==
    /\ pc[p] = "settle" /\ marker # None /\ journal[marker.op] # None
    /\ Adopt(p, IF Journaled(marker.op, "prepared") THEN "commit" ELSE "clear")
    /\ UNCHANGED <<files, bounds>>

SettleKeepsMarker(p) ==
    /\ pc[p] = "settle" /\ marker # None /\ journal[marker.op] # None
    /\ Adopt(p, IF Journaled(marker.op, "prepared") THEN "inspect" ELSE Settled(p))
    /\ UNCHANGED <<files, bounds>>

\* The marker names a journal: it must list the same temporaries.  Only a
\* prepared one needs its spans settled, and one with no entries nothing.
SettleJournaled(p) ==
    /\ pc[p] = "settle"
    /\ marker # None
    /\ journal[marker.op] # None
    /\ LET j == journal[marker.op] IN
       IF j.plan # marker.plan
       THEN Exit(p)
       ELSE Adopt(p, IF j.state # "prepared" THEN "clear"
                     ELSE IF j.plan = EmptyMap THEN "commit" ELSE "inspect")
    /\ UNCHANGED <<files, bounds>>

Abort(p) ==
    /\ pc[p] = "abort"
    /\ \/ /\ todo[p] = {}
          /\ Goto(p, "clear")
          /\ UNCHANGED <<temp, todo>>
       \/ \E s \in todo[p] :
          /\ First(todo[p], s)
          /\ temp' = [temp EXCEPT ![cur[p]][s] = None]
          /\ todo' = [todo EXCEPT ![p] = @ \ {s}]
          /\ UNCHANGED pc
    /\ UNCHANGED <<lock, span, src, marker, journal, role, cur, plan, resp, seen, bounds>>

\* recover_prepared reads every target before it writes any.  A missing one
\* is an error; a foreign one turns the recovery into a rollback.
Foreign(p, s) == span[s] \notin {plan[p][s].orig, plan[p][s].new}

\* Mutant: the rollback stops at the first foreign span.
InspectStopsEarly(p) ==
    /\ pc[p] = "inspect"
    /\ IF \E s \in DOMAIN plan[p] : Foreign(p, s)
       THEN /\ Goto(p, "back")
            /\ todo' = [todo EXCEPT ![p] =
                 {s \in DOMAIN plan[p] :
                    /\ span[s] = plan[p][s].new
                    /\ \A f \in DOMAIN plan[p] : Foreign(p, f) => s < f}]
       ELSE /\ Goto(p, "forward")
            /\ todo' = [todo EXCEPT ![p] =
                 {s \in DOMAIN plan[p] : span[s] # plan[p][s].new}]
    /\ UNCHANGED <<lock, files, role, cur, plan, resp, seen, bounds>>

Inspect(p) ==
    /\ pc[p] = "inspect"
    /\ IF \E s \in DOMAIN plan[p] : span[s] = Absent
       THEN Exit(p)
       ELSE /\ IF \E s \in DOMAIN plan[p] : Foreign(p, s)
               THEN /\ Goto(p, "back")
                    /\ todo' = [todo EXCEPT ![p] =
                         {s \in DOMAIN plan[p] : span[s] = plan[p][s].new}]
               ELSE /\ Goto(p, "forward")
                    /\ todo' = [todo EXCEPT ![p] =
                         {s \in DOMAIN plan[p] : span[s] # plan[p][s].new}]
            /\ UNCHANGED <<lock, role, cur, plan, resp, seen>>
    /\ UNCHANGED <<files, bounds>>

\* Mutant: roll back from the temporaries, which a rename has consumed.
RollBackFromTemps(p) ==
    /\ pc[p] = "back"
    /\ \/ todo[p] = {} /\ Exit(p) /\ UNCHANGED span
       \/ \E s \in todo[p] :
          /\ First(todo[p], s)
          /\ span' = [span EXCEPT ![s] = temp[cur[p]][s]]
          /\ todo' = [todo EXCEPT ![p] = @ \ {s}]
          /\ UNCHANGED <<lock, pc, role, cur, plan, resp, seen>>
    /\ UNCHANGED <<src, temp, marker, journal, bounds>>

\* Restore the transaction's own bytes, then give up: the journal stays
\* prepared and the marker stays pending.
RollBack(p) ==
    /\ pc[p] = "back"
    /\ \/ todo[p] = {} /\ Exit(p) /\ UNCHANGED span
       \/ \E s \in todo[p] :
          /\ First(todo[p], s)
          /\ span' = [span EXCEPT ![s] = plan[p][s].orig]
          /\ todo' = [todo EXCEPT ![p] = @ \ {s}]
          /\ UNCHANGED <<lock, pc, role, cur, plan, resp, seen>>
    /\ UNCHANGED <<src, temp, marker, journal, bounds>>

RollForward(p) ==
    /\ pc[p] = "forward"
    /\ \/ todo[p] = {} /\ Goto(p, "verify") /\ UNCHANGED <<span, todo>>
       \/ \E s \in todo[p] :
          /\ First(todo[p], s)
          /\ span' = [span EXCEPT ![s] = plan[p][s].new]
          /\ todo' = [todo EXCEPT ![p] = @ \ {s}]
          /\ UNCHANGED pc
    /\ UNCHANGED <<lock, src, temp, marker, journal, role, cur, plan, resp, seen, bounds>>

\* verify_persisted_response, shared by execute and recovery; execute then
\* publishes the response to the resident service, whose failure is a Crash.
Verify(p) ==
    /\ pc[p] = "verify"
    /\ IF resp[p] = Snapshot(cur[p], span)
       THEN Goto(p, "commit") /\ UNCHANGED <<lock, locals>>
       ELSE Exit(p)
    /\ UNCHANGED <<files, bounds>>

Commit(p) ==
    /\ pc[p] = "commit"
    /\ journal' = [journal EXCEPT ![cur[p]] =
         [state |-> "committed", plan |-> plan[p], resp |-> resp[p], old |-> FALSE]]
    /\ Goto(p, "clear")
    /\ UNCHANGED <<lock, span, src, temp, marker, locals, bounds>>

\* Mutant: the marker is removed whatever it names.
ClearAny(p) ==
    /\ pc[p] = "clear"
    /\ marker' = None
    /\ Goto(p, Settled(p))
    /\ IF role[p] = "repair" THEN Release(p) ELSE UNCHANGED lock
    /\ UNCHANGED <<span, src, temp, journal, locals, bounds>>

\* clear_recovery_pending removes the marker only if it names this operation.
\* A repair then returns, dropping its guard; a reader or a writer goes on.
Clear(p) ==
    /\ pc[p] = "clear"
    /\ marker' = IF marker # None /\ marker.op = cur[p] THEN None ELSE marker
    /\ Goto(p, Settled(p))
    /\ IF role[p] = "repair" THEN Release(p) ELSE UNCHANGED lock
    /\ UNCHANGED <<span, src, temp, journal, locals, bounds>>

-----------------------------------------------------------------------------
(* What readers and writers do in the domain.                              *)

\* The reader that settled a repair turns its exclusive guard into the shared
\* one it asked for.  Where flock gives the lock up in between, it waits for the
\* shared one without a deadline, and does not look at the marker again.
DowngradeReader(p) ==
    /\ pc[p] = "downgrade"
    /\ IF AtomicDowngrade
       THEN Downgrade(p) /\ Goto(p, "read") /\ todo' = [todo EXCEPT ![p] = Span]
       ELSE Release(p) /\ Goto(p, "rejoin") /\ UNCHANGED todo
    /\ UNCHANGED <<files, role, cur, plan, resp, seen, bounds>>

Rejoin(p) ==
    /\ pc[p] = "rejoin"
    /\ TryAcquire(p, "shared")
    /\ Goto(p, "read")
    /\ todo' = [todo EXCEPT ![p] = Span]
    /\ UNCHANGED <<files, role, cur, plan, resp, seen, bounds>>

\* A reader loads the span files one at a time and then answers.
Read(p) ==
    /\ pc[p] = "read"
    /\ \/ todo[p] = {} /\ Exit(p)
       \/ \E s \in todo[p] :
          /\ First(todo[p], s)
          /\ seen' = [seen EXCEPT ![p] =
               [t \in DOMAIN @ \cup {s} |-> IF t = s THEN span[s] ELSE @[t]]]
          /\ todo' = [todo EXCEPT ![p] = @ \ {s}]
          /\ UNCHANGED <<lock, pc, role, cur, plan, resp>>
    /\ UNCHANGED <<files, bounds>>

\* Bytes nobody has written before: `edit` is new, anchors are current.
Fresh == [edit |-> edits + 1, at |-> src]

\* A mutating command replaces or deletes one span file and ends.
Write(p) ==
    /\ pc[p] = "write"
    /\ \/ /\ edits < MaxEdit
          /\ \E s \in Span, b \in {Fresh, Absent} : span' = [span EXCEPT ![s] = b]
          /\ edits' = edits + 1
       \/ UNCHANGED <<span, edits>>
    /\ Exit(p)
    /\ UNCHANGED <<src, temp, marker, journal, crashes, timeouts>>

-----------------------------------------------------------------------------
(* execute: the repair itself, under one exclusive guard.                  *)

\* Mutant: every answered request is forgotten at once.
ExpiredEarly(j) == j # None /\ j.state # "prepared"

\* expire_delivered_journals, then the request's own journal decides.
Expired(j) == j # None /\ j.state = "delivered" /\ j.old

Unexpired == [o \in Op |-> IF Expired(journal[o]) THEN None ELSE journal[o]]

Open(p) ==
    /\ pc[p] = "enter" /\ role[p] = "repair"
    /\ journal' = Unexpired
    /\ LET j == Unexpired[cur[p]] IN
       IF j = None
       THEN Goto(p, "plan") /\ UNCHANGED <<plan, resp>>
       ELSE /\ Goto(p, IF j.state = "prepared"
                       THEN IF j.plan = EmptyMap THEN "commit" ELSE "inspect"
                       ELSE IF j.plan = EmptyMap THEN "clear" ELSE "replay")
            /\ plan' = [plan EXCEPT ![p] = j.plan]
            /\ resp' = [resp EXCEPT ![p] = j.resp]
    /\ UNCHANGED <<lock, span, src, temp, marker, role, cur, todo, seen, bounds>>

\* A committed repair is answered from its journal, once the durable spans
\* are found to match it still.
Replay(p) ==
    /\ pc[p] = "replay"
    /\ IF resp[p] = Snapshot(cur[p], span)
       THEN Goto(p, "clear") /\ UNCHANGED <<lock, locals>>
       ELSE Exit(p)
    /\ UNCHANGED <<files, bounds>>

\* plan_repair: re-anchor the selected spans that drifted and whose anchored
\* text was only relocated (plan_span leaves every other drift alone), and fix
\* the response that the repair will leave true.
Repairable(s) == span[s] # Absent /\ span[s].at # src /\ s \in Relocated[src]

PlanRepair(p) ==
    /\ pc[p] = "plan"
    /\ LET fix == {s \in Selected[cur[p]] : Repairable(s)}
           entries == [s \in fix |-> [orig |-> span[s], new |-> [span[s] EXCEPT !.at = src]]]
           after == [s \in Span |-> IF s \in fix THEN entries[s].new ELSE span[s]]
       IN /\ plan' = [plan EXCEPT ![p] = entries]
          /\ resp' = [resp EXCEPT ![p] = Snapshot(cur[p], after)]
          /\ todo' = [todo EXCEPT ![p] = fix]
    /\ Goto(p, "temps")
    /\ UNCHANGED <<lock, files, role, cur, seen, bounds>>

\* One temporary per entry.  A plan with no entries is journaled as committed
\* at once and never touches the marker.
Temps(p) ==
    /\ pc[p] = "temps"
    /\ \/ \E s \in todo[p] :
          /\ First(todo[p], s)
          /\ temp' = [temp EXCEPT ![cur[p]][s] = plan[p][s].new]
          /\ todo' = [todo EXCEPT ![p] = @ \ {s}]
          /\ UNCHANGED <<lock, pc, journal>>
       \/ /\ todo[p] = {} /\ plan[p] # EmptyMap
          /\ Goto(p, "mark")
          /\ UNCHANGED <<lock, temp, todo, journal>>
       \/ /\ todo[p] = {} /\ plan[p] = EmptyMap
          /\ journal' = [journal EXCEPT ![cur[p]] =
               [state |-> "committed", plan |-> plan[p], resp |-> resp[p], old |-> FALSE]]
          /\ Goto(p, "reply") /\ Release(p)
          /\ UNCHANGED <<temp, todo>>
    /\ UNCHANGED <<span, src, marker, role, cur, plan, resp, seen, bounds>>

\* Mutant: the marker is not written.
MarkSkipped(p) ==
    /\ pc[p] = "mark"
    /\ Goto(p, "prepare")
    /\ UNCHANGED <<lock, files, locals, bounds>>

\* mark_recovery_pending refuses to replace the marker of another preparation.
MarkPending(p) ==
    /\ pc[p] = "mark"
    /\ LET m == [op |-> cur[p], plan |-> plan[p]] IN
       IF marker \in {None, m}
       THEN marker' = m /\ Goto(p, "prepare") /\ UNCHANGED <<lock, locals>>
       ELSE Exit(p) /\ UNCHANGED marker
    /\ UNCHANGED <<span, src, temp, journal, bounds>>

\* Mutant: the renames start before the journal is written.
PrepareLate(p) ==
    /\ pc[p] = "prepare"
    /\ todo' = [todo EXCEPT ![p] = DOMAIN plan[p]]
    /\ Goto(p, "apply")
    /\ UNCHANGED <<lock, files, role, cur, plan, resp, seen, bounds>>

Prepare(p) ==
    /\ pc[p] = "prepare"
    /\ journal' = [journal EXCEPT ![cur[p]] =
         [state |-> "prepared", plan |-> plan[p], resp |-> resp[p], old |-> FALSE]]
    /\ todo' = [todo EXCEPT ![p] = DOMAIN plan[p]]
    /\ Goto(p, "apply")
    /\ UNCHANGED <<lock, span, src, temp, marker, role, cur, plan, resp, seen, bounds>>

\* Mutant: the live bytes are not compared with the original ones.
ApplyUnchecked(p) ==
    /\ pc[p] = "apply"
    /\ Goto(p, IF todo[p] = {} THEN "verify" ELSE "rename")
    /\ UNCHANGED <<lock, files, locals, bounds>>

\* apply_prepared_retained: a target that no longer holds its original bytes
\* stops the repair with the journal prepared ...
Apply(p) ==
    /\ pc[p] = "apply"
    /\ \/ /\ todo[p] = {}
          /\ Goto(p, "verify") /\ UNCHANGED <<lock, locals>>
       \/ \E s \in todo[p] :
          /\ First(todo[p], s)
          /\ IF span[s] = plan[p][s].orig
             THEN Goto(p, "rename") /\ UNCHANGED <<lock, locals>>
             ELSE Exit(p)
    /\ UNCHANGED <<files, bounds>>

\* ... and the rename moves the temporary over it; the progress is journaled.
Rename(p) ==
    /\ pc[p] = "rename"
    /\ \E s \in todo[p] :
       /\ First(todo[p], s)
       /\ temp[cur[p]][s] # None
       /\ span' = [span EXCEPT ![s] = temp[cur[p]][s]]
       /\ temp' = [temp EXCEPT ![cur[p]][s] = None]
       /\ todo' = [todo EXCEPT ![p] = @ \ {s}]
    /\ Goto(p, "apply")
    /\ UNCHANGED <<lock, src, marker, journal, role, cur, plan, resp, seen, bounds>>

\* The response reached the caller, which acknowledges it without the domain
\* lock.  (The process that loses its caller instead dies here: Crash.)  The
\* journal is read and written in one step here, so that an acknowledgement
\* does not bring back a journal that expires between the two.
Acknowledge(p) ==
    /\ pc[p] = "reply"
    /\ journal' = IF journal[cur[p]] = None \/ Journaled(cur[p], "prepared") THEN journal
                  ELSE [journal EXCEPT ![cur[p]].state = "delivered"]
    /\ Exit(p)
    /\ UNCHANGED <<span, src, temp, marker, bounds>>

-----------------------------------------------------------------------------
(* The environment.                                                        *)

\* A process dies, or a system call fails and its error is returned.  Inside
\* the temporaries' loop the old temporary may be gone and the new one not
\* yet written.
Crash(p) ==
    /\ pc[p] # "idle"
    /\ crashes < MaxCrash
    /\ crashes' = crashes + 1
    /\ \/ UNCHANGED temp
       \/ /\ pc[p] = "temps"
          /\ \E s \in todo[p] : First(todo[p], s) /\ temp' = [temp EXCEPT ![cur[p]][s] = None]
    /\ Exit(p)
    /\ UNCHANGED <<span, src, marker, journal, edits, timeouts>>

\* An editor or `git checkout` changes a span file without the lock, to bytes
\* that were not there before.  (One that restores the very bytes a repair
\* replaced is left out: recovery compares bytes, and to it such a target is
\* one that the repair has not reached.)  With EditWindow FALSE it does not hit the gap between a repair's check of the
\* live bytes and the write that follows.
EditSpan(s) ==
    /\ edits < MaxEdit
    /\ EditWindow \/ \A p \in Proc : pc[p] \notin {"rename", "forward", "back"}
    /\ \E b \in {Fresh, Absent} : span' = [span EXCEPT ![s] = b]
    /\ edits' = edits + 1
    /\ UNCHANGED <<lock, src, temp, marker, journal, pc, locals, crashes, timeouts>>

\* The source files change, so that anchors drift.
EditSource ==
    /\ src < MaxSrc
    /\ src' = src + 1
    /\ UNCHANGED <<lock, span, temp, marker, journal, pc, locals, bounds>>

\* JOURNAL_TTL_SECS (seven days) pass.  The code counts them from the journal's
\* creation; here they are counted from its delivery, for clients repeat an
\* operation ID for seconds and not for days.  No request is that long in flight.
Age(o) ==
    /\ Journaled(o, "delivered") /\ ~journal[o].old
    /\ \A p \in Proc : cur[p] # o
    /\ journal' = [journal EXCEPT ![o].old = TRUE]
    /\ UNCHANGED <<lock, span, src, temp, marker, pc, locals, bounds>>

-----------------------------------------------------------------------------

\* A prepared no-op an earlier build left: its journal has no entries.
LegacyNoOp(o) ==
    /\ marker = [op |-> o, plan |-> EmptyMap]
    /\ journal = [q \in Op |-> IF q # o THEN None ELSE
         [state |-> "prepared", plan |-> EmptyMap, resp |-> Snapshot(o, span), old |-> FALSE]]

\* The source has moved under some of the spans.
Init ==
    /\ LockInit
    /\ src = 1
    /\ span \in [Span -> {[edit |-> 0, at |-> v] : v \in {0, 1}}]
    /\ temp = [o \in Op |-> [s \in Span |-> None]]
    /\ \/ marker = None /\ journal = [o \in Op |-> None]
       \/ \E o \in Op : LegacyNoOp(o)
    /\ pc = [p \in Proc |-> "idle"]
    /\ role = [p \in Proc |-> "none"]
    /\ cur = [p \in Proc |-> None]
    /\ plan = [p \in Proc |-> EmptyMap]
    /\ resp = [p \in Proc |-> None]
    /\ todo = [p \in Proc |-> {}]
    /\ seen = [p \in Proc |-> EmptyMap]
    /\ edits = 0 /\ crashes = 0 /\ timeouts = 0

\* The steps a running process takes by itself.
Step(p) ==
    \/ Acquire(p) \/ EnterClean(p) \/ EnterPending(p) \/ Reacquire(p)
    \/ SettleNothing(p) \/ SettleUnjournaled(p) \/ SettleJournaled(p)
    \/ Abort(p) \/ Inspect(p) \/ RollBack(p) \/ RollForward(p)
    \/ Verify(p) \/ Commit(p) \/ Clear(p)
    \/ DowngradeReader(p) \/ Rejoin(p) \/ Read(p) \/ Write(p)
    \/ Open(p) \/ Replay(p) \/ PlanRepair(p) \/ Temps(p) \/ MarkPending(p)
    \/ Prepare(p) \/ Apply(p) \/ Rename(p) \/ Acknowledge(p)

Start(p) == BeginReader(p) \/ BeginWriter(p) \/ \E o \in Op : BeginRepair(p, o)

Environment ==
    \/ \E p \in Proc : LockTimeout(p) \/ Crash(p)
    \/ \E s \in Span : EditSpan(s)
    \/ EditSource
    \/ \E o \in Op : Age(o)

Next == (\E p \in Proc : Start(p) \/ Step(p)) \/ Environment

Spec == Init /\ [][Next]_vars
-----------------------------------------------------------------------------
(* Safety.                                                                 *)

\* Where a process must own the domain exclusively.
ExclusiveLabels ==
    {"settle", "abort", "inspect", "back", "forward", "verify", "commit", "clear",
     "downgrade", "write", "replay", "plan", "temps", "mark", "prepare", "apply", "rename"}

(***************************************************************************)
(* The write-ahead rule: planned bytes are never live before their journal *)
(* is durable.  It is what lets abort_unjournaled_preparation delete the   *)
(* temporaries of a marker that has no journal.                            *)
(***************************************************************************)
WriteAhead ==
    marker # None /\ journal[marker.op] = None =>
        \A s \in DOMAIN marker.plan : span[s] # marker.plan[s].new

(***************************************************************************)
(* Every prepared journal is named by the pending marker, so a reader that *)
(* looks at the marker alone (pending_recovery) misses no unsettled repair *)
(* and at most one repair is ever prepared.                                *)
(***************************************************************************)
MarkerNamesPrepared ==
    \A o \in Op : Journaled(o, "prepared") =>
        marker # None /\ marker.op = o /\ marker.plan = journal[o].plan

(***************************************************************************)
(* Whoever plans, applies or settles a repair, or writes, does so alone:   *)
(* nobody else is at any of these or reads, through the release and the    *)
(* re-acquisition of a reader that turns to recovery (acquire_reader),     *)
(* deadlines, errors and deaths.                                           *)
(***************************************************************************)
MutationIsAlone ==
    \A p, q \in Proc : p # q /\ pc[p] \in ExclusiveLabels =>
        pc[q] \notin ExclusiveLabels \cup {"read"}

(***************************************************************************)
(* Readers observe settled spans only: while any process reads, nothing is *)
(* pending or prepared, however the previous repair ended.                 *)
(***************************************************************************)
ReadersSeeSettled ==
    (\E p \in Proc : pc[p] = "read") =>
        /\ marker = None
        /\ \A o \in Op : ~Journaled(o, "prepared")

(***************************************************************************)
(* While any process reads, no step of a repair, a recovery or a writer    *)
(* changes a span file: only an unlocked edit does.                        *)
(***************************************************************************)
ReadStability ==
    (\E p \in Proc : pc[p] = "read") /\ edits' = edits => span' = span

ReadsStable == [][ReadStability]_vars

(***************************************************************************)
(* No reader sees half a repair: it never reads one span as a journaled    *)
(* plan found it and another as the same plan left it.                     *)
(***************************************************************************)
NoTornRead ==
    \A p \in Proc, o \in Op : journal[o] # None =>
        LET entries == journal[o].plan IN
        ~ \E s, t \in DOMAIN entries \cap DOMAIN seen[p] :
            seen[p][s] = entries[s].orig /\ seen[p][t] = entries[t].new

(***************************************************************************)
(* A committed repair is complete: none of its targets still has, or gets  *)
(* back, the bytes the repair replaced, whatever crashed and whoever       *)
(* recovered since.                                                        *)
(***************************************************************************)
CommittedIsComplete ==
    \A o \in Op : Journaled(o, "committed") \/ Journaled(o, "delivered") =>
        \A s \in DOMAIN journal[o].plan : span[s] # journal[o].plan[s].orig

\* Where a process is about to overwrite a live span for its repair.
RepairWrites(p) == pc[p] \in {"rename", "forward", "back"}

\* Bytes that an editor or a writer put in place: no plan made them.
ByHand(o, s) == journal[o] # None /\ s \in DOMAIN journal[o].plan
                /\ span[s] \notin {journal[o].plan[s].orig, journal[o].plan[s].new}

(***************************************************************************)
(* Third-party bytes survive: no step of a repair or of a recovery         *)
(* replaces bytes that are neither the original nor the planned ones of    *)
(* the operation it works on.                                              *)
(***************************************************************************)
ExternalEditSurvives ==
    [][\A p \in Proc, s \in Span :
         RepairWrites(p) /\ lock[p] = "exclusive" /\ ByHand(cur[p], s)
            /\ edits' = edits => span'[s] = span[s]]_vars

(***************************************************************************)
(* The journal of an operation ID only moves from prepared to committed to *)
(* delivered, keeps the plan and response it was prepared with, and        *)
(* disappears only after delivery and expiry: a retry with the same ID is  *)
(* a replay, never a second repair.                                        *)
(***************************************************************************)
Rank(j) == IF j = None THEN 0
           ELSE CASE j.state = "prepared" -> 1 [] j.state = "committed" -> 2
                  [] OTHER -> 3

OperationAppliedOnce ==
    [][\A o \in Op :
         /\ Rank(journal'[o]) < Rank(journal[o]) =>
              journal'[o] = None /\ journal[o].state = "delivered" /\ journal[o].old
         /\ journal[o] # None /\ journal'[o] # None =>
              /\ journal'[o].plan = journal[o].plan
              /\ journal'[o].resp = journal[o].resp
              /\ Rank(journal'[o]) <= Rank(journal[o]) + 1]_vars

(***************************************************************************)
(* A recovery that refuses because of third-party bytes leaves none of the *)
(* transaction's own bytes behind: when the rollback of recover_prepared   *)
(* returns its error, no target holds planned bytes.                       *)
(***************************************************************************)
RollbackComplete ==
    \A p \in Proc : pc[p] = "back" /\ todo[p] = {} =>
        \A s \in DOMAIN plan[p] : span[s] # plan[p][s].new

-----------------------------------------------------------------------------
(* Refinement.                                                             *)

\* What a span file would hold if the prepared repair had not written to it.
Unrepaired(s) ==
    IF /\ marker # None /\ Journaled(marker.op, "prepared") /\ s \in DOMAIN marker.plan
       /\ span[s] = marker.plan[s].new
    THEN marker.plan[s].orig ELSE span[s]

Before == [s \in Span |-> Unrepaired(s)]

Request == [o \in Op |->
    IF journal[o] = None THEN [state |-> "none", plan |-> EmptyMap, answer |-> EmptyMap]
    ELSE [state |-> journal[o].state, plan |-> journal[o].plan, answer |-> journal[o].resp.spans]]

Promise == INSTANCE AtomicRepair WITH
    Reader <- Proc, file <- Before, request <- Request

(***************************************************************************)
(* The journaled repair implements the atomic one: whatever crashes, and   *)
(* whoever completes or takes back what was left, the renames of one plan  *)
(* count as one step, which happens when its journal is committed.         *)
(***************************************************************************)
ImplementsAtomicRepair == Promise!RepairSpec

-----------------------------------------------------------------------------
(* Liveness.                                                               *)

\* A running process goes on until it ends, and commands that read spans keep
\* being run.  Nothing is assumed of crashes, editors, writers or retries.
Fairness == \A p \in Proc : WF_vars(Step(p)) /\ WF_vars(BeginReader(p))

FairSpec == Spec /\ Fairness

(***************************************************************************)
(* A crash-left marker does not stay: some reader, writer or retry settles *)
(* it.                                                                     *)
(***************************************************************************)
PendingSettles == marker # None ~> marker = None

-----------------------------------------------------------------------------
(* What the repository says of the program and the code does not do.       *)

(***************************************************************************)
(* "Any mismatch means a rename or external mutation could have occurred"  *)
(* (the comment on abort_unjournaled_preparation): with no external edit,  *)
(* a marker without a journal finds its temporaries and targets intact     *)
(* whenever the domain is free.                                            *)
(***************************************************************************)
MismatchMeansMutation ==
    marker # None /\ journal[marker.op] = None /\ edits = 0
      /\ (\A p \in Proc : lock[p] # "exclusive")
    => BeforeMutation(marker)
=============================================================================
