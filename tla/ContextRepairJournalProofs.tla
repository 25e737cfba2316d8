---------------------- MODULE ContextRepairJournalProofs ----------------------
(***************************************************************************)
(* Theorems about the journal of ContextRepair: the write-ahead rule, the  *)
(* life of an operation, completeness of commits and rollbacks, and what   *)
(* readers and third parties may rely on, for every value of the constants.*)
(***************************************************************************)
EXTENDS ContextRepairProofs

-----------------------------------------------------------------------------
(* The inductive invariant, on top of SafeInv.                             *)

\* Labels at which a repair has no journal yet, and those at which the plan
\* a process carries is that of a prepared journal.
Unjournaled == {"plan", "temps", "mark", "prepare"}
Executing   == {"inspect", "back", "forward", "verify", "commit", "apply", "rename"}

Answerable(o) == Journaled(o, "committed") \/ Journaled(o, "delivered")

\* A running process has a role; readers and writers settle, only repairs reply.
RolesKnown ==
    \A p \in Proc :
        /\ pc[p] # "idle" => role[p] # "none"
        /\ pc[p] \in {"settle", "rewant", "abort", "downgrade", "rejoin", "read", "write"}
             => role[p] # "repair"
        /\ pc[p] = "reply" => role[p] = "repair"

\* What a process knows of the journal of its operation.
JournalKnown ==
    \A p \in Proc :
        /\ pc[p] \in Unjournaled => journal[cur[p]] = None
        /\ pc[p] \in Executing =>
             /\ Journaled(cur[p], "prepared")
             /\ journal[cur[p]].plan = plan[p] /\ journal[cur[p]].resp = resp[p]
        /\ role[p] = "repair" /\ pc[p] \in {"replay", "clear", "reply"} =>
             cur[p] \in Op /\ Answerable(cur[p]) /\ ~journal[cur[p]].old

\* Only delivered journals age.
OldIsDelivered == \A o \in Op : journal[o] # None /\ journal[o].old => Journaled(o, "delivered")

\* A plan moves spans to a later version, and comes from the past.
FromPast(f) ==
    \A s \in DOMAIN f :
        /\ f[s].orig.edit <= edits /\ f[s].new.edit <= edits
        /\ f[s].orig.at < f[s].new.at /\ f[s].new.at <= src

PlansFromPast ==
    /\ \A s \in Span : span[s] # Absent => span[s].edit <= edits /\ span[s].at <= src
    /\ \A p \in Proc : FromPast(plan[p])
    /\ \A o \in Op : journal[o] # None => FromPast(journal[o].plan)
    /\ marker # None => FromPast(marker.plan)

\* No span holds what a plan is about to write.
Unwritten(f) == \A s \in DOMAIN f : span[s] # f[s].new

\* The write-ahead rule, for a marker that its journal does not confirm too,
\* and what keeps an expiring journal from leaving its marker behind.
WriteAheadKnown ==
    /\ \A p \in Proc : pc[p] \in {"temps", "mark"} => Unwritten(plan[p])
    /\ marker # None /\ (journal[marker.op] = None \/ journal[marker.op].plan # marker.plan)
         => Unwritten(marker.plan)
    /\ \A o \in Op : /\ marker # None /\ marker.op = o /\ DOMAIN marker.plan # {}
                     /\ \/ Journaled(o, "delivered")
                        \/ \E p \in Proc : pc[p] = "reply" /\ cur[p] = o
                     => journal[o] # None /\ journal[o].plan # marker.plan

\* A rollback has restored what its loop has visited.
RolledBack ==
    \A p \in Proc : pc[p] = "back" =>
        \A s \in DOMAIN plan[p] \ todo[p] : span[s] # plan[p][s].new

\* A response shows the entries of its plan.
Shows(o, f, r) == \A s \in DOMAIN f : s \in Selected[o] /\ r.spans[s] = f[s].new

ResponsesShow ==
    /\ \A p \in Proc : pc[p] \in WithResponse => Shows(cur[p], plan[p], resp[p])
    /\ \A o \in Op : journal[o] # None => Shows(o, journal[o].plan, journal[o].resp)

\* The temporaries hold the planned bytes.
TempsHold ==
    \A p \in Proc :
        /\ pc[p] \in {"temps", "mark", "prepare"} =>
             \A s \in DOMAIN plan[p] :
                (pc[p] = "temps" => s \notin todo[p]) => temp[cur[p]][s] = plan[p][s].new
        /\ pc[p] \in {"apply", "rename"} =>
             \A s \in todo[p] : temp[cur[p]][s] = plan[p][s].new

\* What a plan writes is not what an answered repair has replaced.
Apart(f) ==
    \A o \in Op : Answerable(o) =>
        \A s \in DOMAIN f \cap DOMAIN journal[o].plan :
            /\ f[s].orig # journal[o].plan[s].orig
            /\ f[s].new # journal[o].plan[s].orig

CompleteKnown ==
    /\ CommittedIsComplete
    /\ \A p \in Proc : pc[p] = "commit" => \A s \in DOMAIN plan[p] : span[s] # plan[p][s].orig
    /\ \A p \in Proc : pc[p] \in {"temps", "mark", "prepare"} => Apart(plan[p])
    /\ \A o \in Op : Journaled(o, "prepared") => Apart(journal[o].plan)

\* A reader has seen nothing that an answered repair replaced.
SeenKnown ==
    \A p \in Proc :
        /\ pc[p] # "read" => DOMAIN seen[p] = {}
        /\ AtomicDowngrade => \A o \in Op : journal[o] # None =>
             \A s \in DOMAIN seen[p] \cap DOMAIN journal[o].plan :
                seen[p][s] # journal[o].plan[s].orig

\* With no edit between check and write, a write replaces what was checked.
Checked ==
    ~EditWindow =>
        \A p \in Proc :
            /\ pc[p] = "rename" => \A s \in todo[p] : First(todo[p], s) => span[s] = plan[p][s].orig
            /\ pc[p] = "forward" => \A s \in todo[p] : span[s] \in {plan[p][s].orig, plan[p][s].new}
            /\ pc[p] = "back" => \A s \in todo[p] : span[s] = plan[p][s].new

JournalInv ==
    /\ RolesKnown /\ JournalKnown /\ OldIsDelivered /\ PlansFromPast /\ WriteAheadKnown
    /\ RolledBack /\ ResponsesShow /\ TempsHold /\ CompleteKnown /\ SeenKnown /\ Checked
-----------------------------------------------------------------------------
(* Steps, by who takes them.                                               *)

\* A step of process p.
Acts(p) == Start(p) \/ Step(p) \/ LockTimeout(p) \/ Crash(p)

\* The steps are those of the processes and of the environment.
LEMMA NextCases ==
    ASSUME [Next]_vars
    PROVE  \/ \E p \in Proc : Acts(p)
           \/ \E s \in Span : EditSpan(s)
           \/ EditSource
           \/ \E o \in Op : Age(o)
           \/ UNCHANGED vars
BY DEF Next, Environment, Acts

\* A process changes its own locals only.
LEMMA LocalsOfOthers ==
    ASSUME ProcOK, NEW p \in Proc, Acts(p), NEW q \in Proc, q # p
    PROVE  /\ pc'[q] = pc[q] /\ role'[q] = role[q] /\ cur'[q] = cur[q]
           /\ plan'[q] = plan[q] /\ resp'[q] = resp[q]
           /\ todo'[q] = todo[q] /\ seen'[q] = seen[q]
<1> USE DEF ProcOK, Goto, locals
<1>1. CASE Start(p)
  BY <1>1 DEF Start, BeginReader, BeginWriter, BeginRepair, Begin
<1>2. CASE Exit(p)
  BY <1>2 DEF Exit, Clean
<1>3. CASE Acquire(p) \/ EnterClean(p) \/ EnterPending(p) \/ Reacquire(p)
             \/ SettleNothing(p) \/ SettleUnjournaled(p) \/ SettleJournaled(p)
  BY <1>2, <1>3 DEF Acquire, EnterClean, EnterPending, Reacquire, SettleNothing,
     SettleUnjournaled, SettleJournaled, Adopt
<1>4. CASE Abort(p) \/ Inspect(p) \/ RollBack(p) \/ RollForward(p)
             \/ Verify(p) \/ Commit(p) \/ Clear(p)
  BY <1>2, <1>4 DEF Abort, Inspect, RollBack, RollForward, Verify, Commit, Clear
<1>5. CASE DowngradeReader(p) \/ Rejoin(p) \/ Read(p) \/ Write(p)
             \/ Open(p) \/ Replay(p)
  BY <1>2, <1>5 DEF DowngradeReader, Rejoin, Read, Write, Open, Replay
<1>6. CASE PlanRepair(p)
  BY <1>6 DEF PlanRepair
<1>7. CASE Temps(p) \/ MarkPending(p)
             \/ Prepare(p) \/ Apply(p) \/ Rename(p) \/ Acknowledge(p)
  BY <1>2, <1>7 DEF Temps, MarkPending, Prepare, Apply, Rename, Acknowledge
<1> QED BY <1>1, <1>2, <1>3, <1>4, <1>5, <1>6, <1>7
        DEF Acts, Step, LockTimeout, Crash

\* What the acknowledgement of process p does to a journal, and what a process
\* may do to the journals beside it: an answered one is delivered.
Delivered(o, p) ==
    /\ Answerable(o) /\ pc[p] = "reply" /\ cur[p] = o
    /\ journal'[o] = [journal[o] EXCEPT !.state = "delivered"]

OnlyDelivers(p) == \A o \in Op : journal'[o] = journal[o] \/ Delivered(o, p)

\* While nobody else owns the domain exclusively, the files are stable but for
\* the acknowledgements.
LEMMA Outside ==
    ASSUME TypeInv, NEW p \in Proc, Acts(p), pc[p] \notin ExclusiveLabels,
           pc[p] # "enter" \/ role[p] # "repair"
    PROVE  UNCHANGED <<span, src, temp, marker, edits>> /\ OnlyDelivers(p)
<1> USE DEF ExclusiveLabels, OnlyDelivers, Delivered, files, bounds
<1>1. CASE Start(p) \/ LockTimeout(p) \/ Crash(p)
  BY <1>1 DEF Start, BeginReader, BeginWriter, BeginRepair, Begin, LockTimeout, Crash
<1>2. CASE Acquire(p) \/ EnterClean(p) \/ EnterPending(p) \/ Reacquire(p) \/ Rejoin(p) \/ Read(p)
  BY <1>2 DEF Acquire, EnterClean, EnterPending, Reacquire, Rejoin, Read
<1>3. CASE Acknowledge(p)
  <2>1. CASE journal' = journal
    BY <1>3, <2>1 DEF Acknowledge
  <2>2. CASE journal' # journal
    <3>1. /\ journal' = [journal EXCEPT ![cur[p]].state = "delivered"]
          /\ journal[cur[p]] # None /\ ~Journaled(cur[p], "prepared") /\ pc[p] = "reply"
      BY <1>3, <2>2 DEF Acknowledge
    <3>2. \A o \in Op : /\ o # cur[p] => journal'[o] = journal[o]
                        /\ o = cur[p] => journal'[o] = [journal[o] EXCEPT !.state = "delivered"]
      BY <3>1 DEF TypeInv, TypeOK
    <3>3. cur[p] \in Op => Answerable(cur[p])
      BY <3>1 DEF TypeInv, TypeOK, Journal, Answerable, Journaled
    <3> QED BY <1>3, <3>2, <3>3 DEF Acknowledge
  <2> QED BY <2>1, <2>2
<1>4. CASE SettleNothing(p) \/ SettleUnjournaled(p) \/ SettleJournaled(p)
             \/ Abort(p) \/ Inspect(p) \/ RollBack(p) \/ RollForward(p)
             \/ Verify(p) \/ Commit(p) \/ Clear(p) \/ DowngradeReader(p) \/ Write(p)
  BY <1>4 DEF SettleNothing, SettleUnjournaled, SettleJournaled, Abort, Inspect,
     RollBack, RollForward, Verify, Commit, Clear, DowngradeReader, Write
<1>5. CASE Open(p) \/ Replay(p) \/ PlanRepair(p) \/ Temps(p) \/ MarkPending(p)
             \/ Prepare(p) \/ Apply(p) \/ Rename(p)
  BY <1>5 DEF Open, Replay, PlanRepair, Temps, MarkPending, Prepare, Apply, Rename
<1> QED BY <1>1, <1>2, <1>3, <1>4, <1>5 DEF Acts, Step

\* So while one process is in the domain, the others leave the files alone.
LEMMA Undisturbed ==
    ASSUME SafeInv, NEW q \in Proc, pc[q] \in ExclusiveLabels \cup {"read"},
           NEW p \in Proc, p # q, Acts(p)
    PROVE  UNCHANGED <<span, src, temp, marker, edits>> /\ OnlyDelivers(p)
<1>1. lock[p] # "exclusive"
  BY DEF SafeInv, DomainExclusion, GuardHeld
<1>2. pc[p] \notin ExclusiveLabels /\ (pc[p] # "enter" \/ role[p] # "repair")
  BY <1>1 DEF SafeInv, GuardHeld
<1> QED BY <1>2, Outside DEF SafeInv

\* The actions that lead a process to each label.
LEMMA Arrivals ==
    ASSUME ProcOK, NEW p \in Proc, Acts(p)
    PROVE  /\ pc'[p] = "settle" => Reacquire(p) \/ EnterPending(p)
           /\ pc'[p] = "rewant" => EnterPending(p)
           /\ pc'[p] = "abort" => SettleUnjournaled(p) \/ Abort(p)
           /\ pc'[p] = "inspect" => SettleJournaled(p) \/ Open(p)
           /\ pc'[p] = "back" => Inspect(p) \/ RollBack(p)
           /\ pc'[p] = "forward" => Inspect(p) \/ RollForward(p)
           /\ pc'[p] = "verify" => RollForward(p) \/ Apply(p)
           /\ pc'[p] = "commit" => Verify(p) \/ SettleJournaled(p) \/ Open(p)
           /\ pc'[p] = "clear" => \/ Commit(p) \/ Abort(p) \/ SettleJournaled(p)
                                  \/ Open(p) \/ Replay(p)
           /\ pc'[p] = "downgrade" => SettleNothing(p) \/ Clear(p)
           /\ pc'[p] = "rejoin" => DowngradeReader(p)
           /\ pc'[p] = "read" => \/ EnterClean(p) \/ DowngradeReader(p)
                                 \/ Rejoin(p) \/ Read(p)
           /\ pc'[p] = "write" => EnterClean(p) \/ SettleNothing(p) \/ Clear(p)
           /\ pc'[p] = "replay" => Open(p)
           /\ pc'[p] = "plan" => Open(p)
           /\ pc'[p] = "temps" => PlanRepair(p) \/ Temps(p)
           /\ pc'[p] = "mark" => Temps(p)
           /\ pc'[p] = "prepare" => MarkPending(p)
           /\ pc'[p] = "apply" => Prepare(p) \/ Rename(p)
           /\ pc'[p] = "rename" => Apply(p)
           /\ pc'[p] = "reply" => SettleNothing(p) \/ Clear(p) \/ Temps(p)
<1> USE DEF ProcOK, Goto
<1>1. Exit(p) => pc'[p] = "idle"
  BY DEF Exit
<1>2. Start(p) => pc'[p] = "want"
  BY DEF Start, BeginReader, BeginWriter, BeginRepair, Begin
<1>3. LockTimeout(p) \/ Crash(p) \/ Write(p) \/ Acknowledge(p) => pc'[p] = "idle"
  BY <1>1 DEF LockTimeout, Crash, Write, Acknowledge
<1>4. Acquire(p) => pc'[p] = "enter"
  BY DEF Acquire
<1>5. EnterClean(p) => pc'[p] \in {"read", "write"}
  BY DEF EnterClean
<1>6. EnterPending(p) => pc'[p] \in {"rewant", "settle"}
  BY DEF EnterPending
<1>7. Reacquire(p) => pc'[p] = "settle"
  BY DEF Reacquire
<1>8. SettleNothing(p) \/ Clear(p) => pc'[p] \in {"downgrade", "write", "reply"}
  BY DEF SettleNothing, Clear, Settled
<1>9. SettleUnjournaled(p) => pc'[p] \in {"abort", "idle"}
  BY <1>1 DEF SettleUnjournaled
<1>10. SettleJournaled(p) => pc'[p] \in {"clear", "commit", "inspect", "idle"}
  BY <1>1 DEF SettleJournaled, Adopt
<1>11. Abort(p) => pc'[p] \in {"abort", "clear"}
  BY DEF Abort
<1>12. Inspect(p) => pc'[p] \in {"back", "forward", "idle"}
  BY <1>1 DEF Inspect
<1>13. RollBack(p) => pc'[p] \in {"back", "idle"}
  BY <1>1 DEF RollBack
<1>14. RollForward(p) => pc'[p] \in {"forward", "verify"}
  BY DEF RollForward
<1>15. Verify(p) => pc'[p] \in {"commit", "idle"}
  BY <1>1 DEF Verify
<1>16. Commit(p) => pc'[p] = "clear"
  BY DEF Commit
<1>17. DowngradeReader(p) => pc'[p] \in {"read", "rejoin"}
  BY DEF DowngradeReader
<1>18. Rejoin(p) => pc'[p] = "read"
  BY DEF Rejoin
<1>19. Read(p) => pc'[p] \in {"read", "idle"}
  BY <1>1 DEF Read
<1>20. Open(p) => pc'[p] \in {"plan", "commit", "inspect", "clear", "replay"}
  BY DEF Open
<1>21. Replay(p) => pc'[p] \in {"clear", "idle"}
  BY <1>1 DEF Replay
<1>22. PlanRepair(p) => pc'[p] = "temps"
  BY DEF PlanRepair
<1>23. Temps(p) => pc'[p] \in {"temps", "mark", "reply"}
  BY DEF Temps
<1>24. MarkPending(p) => pc'[p] \in {"prepare", "idle"}
  BY <1>1 DEF MarkPending
<1>25. Prepare(p) \/ Rename(p) => pc'[p] = "apply"
  BY DEF Prepare, Rename
<1>26. Apply(p) => pc'[p] \in {"verify", "rename", "idle"}
  BY <1>1 DEF Apply
<1> QED
  BY <1>2, <1>3, <1>4, <1>5, <1>6, <1>7, <1>8, <1>9, <1>10, <1>11, <1>12, <1>13,
     <1>14, <1>15, <1>16, <1>17, <1>18, <1>19, <1>20, <1>21, <1>22, <1>23, <1>24,
     <1>25, <1>26
  DEF Acts, Step

-----------------------------------------------------------------------------
(* One lemma per part of the invariant.                                    *)

\* Every step keeps the roles.
LEMMA RolesStep == SafeInv /\ RolesKnown /\ [Next]_vars => RolesKnown'
<1> SUFFICES ASSUME ProcOK, GuardHeld, RolesKnown, [Next]_vars PROVE RolesKnown'
  BY TypeParts DEF SafeInv
<1>1. ASSUME NEW p \in Proc, Acts(p) PROVE RolesKnown'
  <2>1. CASE Exit(p)
    BY <2>1, LocalsOfOthers, <1>1 DEF Exit, Clean, Goto, ProcOK, RolesKnown
  <2>2. CASE Start(p)
    BY <2>2 DEF Start, BeginReader, BeginWriter, BeginRepair, Begin, Goto,
       ProcOK, RolesKnown
  <2>3. ASSUME role'[p] = role[p], role[p] # "none",
               pc'[p] \in {"settle", "rewant", "abort", "downgrade", "rejoin", "read", "write"}
                 => role[p] # "repair",
               pc'[p] = "reply" => role[p] = "repair"
        PROVE  RolesKnown'
    BY <1>1, <2>3, LocalsOfOthers DEF RolesKnown, ProcOK
  <2>4. pc[p] # "idle" => role[p] # "none"
    BY DEF RolesKnown
  <2> USE DEF Goto, ProcOK, RolesKnown, locals
  <2>5. CASE Acquire(p) \/ EnterClean(p) \/ EnterPending(p) \/ Reacquire(p) \/ Rejoin(p)
    BY <2>3, <2>4, <2>5 DEF Acquire, EnterClean, EnterPending, Reacquire, Rejoin
  <2>6. CASE SettleNothing(p) \/ Clear(p)
    BY <2>3, <2>4, <2>6 DEF SettleNothing, Clear, Settled
  <2>7. CASE SettleUnjournaled(p) \/ SettleJournaled(p)
    BY <2>1, <2>3, <2>4, <2>7 DEF SettleUnjournaled, SettleJournaled, Adopt
  <2>8. CASE Abort(p) \/ RollForward(p) \/ Commit(p) \/ DowngradeReader(p)
    BY <2>3, <2>4, <2>8 DEF Abort, RollForward, Commit, DowngradeReader
  <2>9. CASE Inspect(p) \/ RollBack(p) \/ Verify(p) \/ Read(p)
    BY <2>1, <2>3, <2>4, <2>9 DEF Inspect, RollBack, Verify, Read
  <2>10. CASE Open(p) \/ Replay(p)
    BY <2>1, <2>3, <2>4, <2>10 DEF Open, Replay
  <2>11. CASE Temps(p)
    BY <2>1, <2>3, <2>4, <2>11 DEF Temps, GuardHeld, Repairing
  <2>12. CASE PlanRepair(p)
    BY <2>3, <2>4, <2>12 DEF PlanRepair
  <2>13. CASE MarkPending(p) \/ Prepare(p) \/ Apply(p) \/ Rename(p)
    BY <2>1, <2>3, <2>4, <2>13 DEF MarkPending, Prepare, Apply, Rename
  <2> QED BY <1>1, <2>1, <2>2, <2>5, <2>6, <2>7, <2>8, <2>9, <2>10, <2>11, <2>12, <2>13
          DEF Acts, Step, LockTimeout, Crash, Write, Acknowledge
<1>2. CASE UNCHANGED <<pc, role>>
  BY <1>2 DEF RolesKnown
<1> QED BY <1>1, <1>2, NextCases DEF EditSpan, EditSource, Age, locals, vars

\* The other ways a journal changes under a step of process p: a repair writes
\* it or commits it, or it expires.
Written(o, p) ==
    /\ journal[o] = None /\ cur[p] = o
    /\ \/ /\ Temps(p) /\ plan[p] = EmptyMap
          /\ journal'[o] = [state |-> "committed", plan |-> plan[p], resp |-> resp[p], old |-> FALSE]
       \/ /\ Prepare(p)
          /\ journal'[o] = [state |-> "prepared", plan |-> plan[p], resp |-> resp[p], old |-> FALSE]

Committed(o, p) ==
    /\ Journaled(o, "prepared") /\ cur[p] = o /\ Commit(p)
    /\ journal[o].plan = plan[p] /\ journal[o].resp = resp[p]
    /\ journal'[o] = [state |-> "committed", plan |-> plan[p], resp |-> resp[p], old |-> FALSE]

Dropped(o) == Expired(journal[o]) /\ journal'[o] = None

\* A step of a process changes a journal in one of these ways or not at all.
LEMMA JournalMoves ==
    ASSUME SafeInv, JournalKnown, NEW p \in Proc, Acts(p), NEW o \in Op
    PROVE  \/ journal'[o] = journal[o]
           \/ Written(o, p) \/ Committed(o, p) \/ Delivered(o, p) \/ Dropped(o)
<1>1. CASE pc[p] \notin ExclusiveLabels /\ (pc[p] # "enter" \/ role[p] # "repair")
  BY <1>1, Outside DEF SafeInv, OnlyDelivers, Delivered
<1>2. CASE Open(p)
  BY <1>2 DEF Open, Unexpired, Dropped
<1>3. CASE Commit(p)
  <2>1. Journaled(cur[p], "prepared") /\ journal[cur[p]].plan = plan[p]
        /\ journal[cur[p]].resp = resp[p]
    BY <1>3 DEF Commit, JournalKnown, Executing
  <2>2. journal \in [Op -> Journal \cup {None}]
    BY DEF SafeInv, TypeInv, TypeOK
  <2>3. o # cur[p] => journal'[o] = journal[o]
    BY <1>3, <2>2 DEF Commit
  <2>4. o = cur[p] => journal'[o] =
          [state |-> "committed", plan |-> plan[p], resp |-> resp[p], old |-> FALSE]
    BY <1>3, <2>2 DEF Commit
  <2> QED BY <1>3, <2>1, <2>3, <2>4 DEF Committed
<1>4. CASE Temps(p) \/ Prepare(p)
  <2>1. journal[cur[p]] = None
    BY <1>4 DEF Temps, Prepare, JournalKnown, Unjournaled
  <2>2. journal \in [Op -> Journal \cup {None}]
    BY DEF SafeInv, TypeInv, TypeOK
  <2>3. o # cur[p] => journal'[o] = journal[o]
    BY <1>4, <2>2 DEF Temps, Prepare
  <2>4. CASE Temps(p) /\ o = cur[p]
    BY <2>1, <2>2, <2>4 DEF Temps, Written
  <2>5. CASE Prepare(p) /\ o = cur[p]
    BY <2>1, <2>2, <2>5 DEF Prepare, Written
  <2> QED BY <1>4, <2>3, <2>4, <2>5
<1> USE DEF files
<1>5. CASE Start(p) \/ LockTimeout(p) \/ Crash(p)
  BY <1>5 DEF Start, BeginReader, BeginWriter, BeginRepair, Begin, LockTimeout, Crash
<1>6. CASE Acquire(p) \/ EnterClean(p) \/ EnterPending(p) \/ Reacquire(p) \/ Rejoin(p) \/ Read(p)
             \/ SettleNothing(p) \/ SettleUnjournaled(p) \/ SettleJournaled(p)
             \/ Abort(p) \/ Inspect(p) \/ RollBack(p) \/ RollForward(p)
             \/ Verify(p) \/ Clear(p) \/ DowngradeReader(p) \/ Write(p)
  BY <1>6 DEF Acquire, EnterClean, EnterPending, Reacquire, Rejoin, Read,
     SettleNothing, SettleUnjournaled, SettleJournaled, Abort, Inspect,
     RollBack, RollForward, Verify, Clear, DowngradeReader, Write
<1>7. CASE Replay(p) \/ PlanRepair(p) \/ MarkPending(p) \/ Apply(p) \/ Rename(p)
  BY <1>7 DEF Replay, PlanRepair, MarkPending, Apply, Rename
<1>8. CASE Acknowledge(p)
  BY <1>1, <1>8 DEF Acknowledge, ExclusiveLabels
<1> QED BY <1>2, <1>3, <1>4, <1>5, <1>6, <1>7, <1>8 DEF Acts, Step

\* Only delivered journals age, and none whose answer is on its way.
LEMMA AgeStep ==
    ASSUME TypeInv, NEW a \in Op, Age(a), NEW o \in Op
    PROVE  /\ o # a => journal'[o] = journal[o]
           /\ o = a => /\ Journaled(o, "delivered")
                       /\ journal'[o] = [journal[o] EXCEPT !.old = TRUE]
BY DEF Age, TypeInv, TypeOK, Journal

\* The record of a journal keeps its other fields.
LEMMA JournalFields ==
    ASSUME NEW j \in Journal
    PROVE  LET d == [j EXCEPT !.state = "delivered"]
               a == [j EXCEPT !.old = TRUE]
           IN /\ d \in Journal /\ d.plan = j.plan /\ d.resp = j.resp
              /\ d.old = j.old /\ d.state = "delivered" /\ d # None
              /\ a \in Journal /\ a.plan = j.plan /\ a.resp = j.resp
              /\ a.state = j.state /\ a # None
BY AbsentAssumption DEF Journal

\* What is not there is no journal, and what is there is one.
LEMMA IsJournal ==
    ASSUME TypeInv, NEW o \in Op
    PROVE  journal[o] # None <=> journal[o] \in Journal
BY AbsentAssumption DEF TypeInv, TypeOK

\* What a process writes is a journal.
LEMMA NewJournal ==
    ASSUME NEW f \in Plan, NEW r \in Response, NEW state \in {"prepared", "committed"}
    PROVE  [state |-> state, plan |-> f, resp |-> r, old |-> FALSE] # None
BY JournalType, AbsentAssumption

\* An answer under way keeps its journal.
LEMMA AnswerKept ==
    ASSUME SafeInv, JournalKnown, NEW p \in Proc, Acts(p), NEW o \in Op,
           Answerable(o), ~journal[o].old
    PROVE  /\ Answerable(o)' /\ ~journal'[o].old
           /\ journal'[o].plan = journal[o].plan
<1>1. journal[o] \in Journal /\ journal[o] # None /\ ~Journaled(o, "prepared")
  BY IsJournal DEF SafeInv, Answerable, Journaled
<1>2. CASE journal'[o] = journal[o]
  BY <1>2 DEF Answerable, Journaled
<1>3. CASE Delivered(o, p)
  BY <1>1, <1>3, JournalFields DEF Delivered, Answerable, Journaled
<1> QED BY <1>1, <1>2, <1>3, JournalMoves DEF Written, Committed, Dropped, Expired

\* Journals age only once they are delivered.
LEMMA AgesStep ==
    SafeInv /\ JournalKnown /\ OldIsDelivered /\ [Next]_vars => OldIsDelivered'
<1> SUFFICES ASSUME SafeInv, JournalKnown, OldIsDelivered, [Next]_vars, NEW o \in Op,
                    journal'[o] # None, journal'[o].old
             PROVE  Journaled(o, "delivered")'
  BY DEF OldIsDelivered
<1>1. journal[o] # None => journal[o] \in Journal
  BY IsJournal DEF SafeInv
<1>2. CASE journal'[o] = journal[o]
  BY <1>2 DEF OldIsDelivered, Journaled
<1>3. ASSUME NEW p \in Proc, Acts(p) PROVE Journaled(o, "delivered")'
  <2>1. CASE Delivered(o, p)
    BY <1>1, <2>1, JournalFields DEF Delivered, Answerable, Journaled
  <2>2. ~Written(o, p) /\ ~Committed(o, p) /\ ~Dropped(o)
    <3>1. \A f, r, state :
             journal'[o] # [state |-> state, plan |-> f, resp |-> r, old |-> FALSE]
      OBVIOUS
    <3> QED BY <3>1 DEF Written, Committed, Dropped
  <2> QED BY <1>2, <1>3, <2>1, <2>2, JournalMoves
<1>4. ASSUME NEW a \in Op, Age(a) PROVE Journaled(o, "delivered")'
  <2>1. CASE o = a
    <3>1. journal[o] \in Journal /\ journal[o].state = "delivered"
          /\ journal'[o] = [journal[o] EXCEPT !.old = TRUE]
      BY <1>1, <1>4, <2>1, AgeStep DEF Journaled, SafeInv
    <3> QED BY <3>1, JournalFields DEF Journaled
  <2> QED BY <1>2, <1>4, <2>1, AgeStep DEF SafeInv
<1>5. ASSUME (\E s \in Span : EditSpan(s)) \/ EditSource \/ UNCHANGED vars
      PROVE  journal' = journal
  BY <1>5 DEF EditSpan, EditSource, vars, files
<1> QED BY <1>2, <1>3, <1>4, <1>5, NextCases

\* Every step keeps what the processes know of their journals.
LEMMA JournalStep ==
    SafeInv /\ RolesKnown /\ JournalKnown /\ OldIsDelivered /\ [Next]_vars => JournalKnown'
<1> SUFFICES ASSUME SafeInv, ProcOK, FilesOK, RolesKnown, JournalKnown, OldIsDelivered,
                    [Next]_vars, NEW q \in Proc
             PROVE  /\ (pc[q] \in Unjournaled => journal[cur[q]] = None)'
                    /\ (pc[q] \in Executing =>
                         /\ Journaled(cur[q], "prepared")
                         /\ journal[cur[q]].plan = plan[q] /\ journal[cur[q]].resp = resp[q])'
                    /\ (role[q] = "repair" /\ pc[q] \in {"replay", "clear", "reply"} =>
                         cur[q] \in Op /\ Answerable(cur[q]) /\ ~journal[cur[q]].old)'
  BY TypeParts DEF SafeInv, JournalKnown
<1> DEFINE Known == /\ (pc[q] \in Unjournaled => journal[cur[q]] = None)'
                    /\ (pc[q] \in Executing =>
                         /\ Journaled(cur[q], "prepared")
                         /\ journal[cur[q]].plan = plan[q] /\ journal[cur[q]].resp = resp[q])'
                    /\ (role[q] = "repair" /\ pc[q] \in {"replay", "clear", "reply"} =>
                         cur[q] \in Op /\ Answerable(cur[q]) /\ ~journal[cur[q]].old)'
<1>op. /\ pc[q] \in Unjournaled \cup Executing \cup {"replay"} => cur[q] \in Op
       /\ role[q] = "repair" /\ pc[q] = "clear" => cur[q] \in Op
  BY DEF ProcOK, LocalsOK, WithOp, WithResponse, Unjournaled, Executing
<1>1. CASE UNCHANGED <<pc, locals, journal>>
  BY <1>1 DEF JournalKnown, locals, Answerable, Journaled
<1>2. ASSUME NEW a \in Op, Age(a) PROVE Known
  <2>1. cur[q] # a /\ UNCHANGED <<pc, locals>>
    BY <1>2 DEF Age
  <2>2. journal'[cur[q]] = journal[cur[q]]
    BY <1>2, <2>1 DEF Age, FilesOK
  <2> QED BY <2>1, <2>2 DEF JournalKnown, locals, Answerable, Journaled
<1>3. ASSUME NEW p \in Proc, p # q, Acts(p) PROVE Known
  <2>1. pc'[q] = pc[q] /\ role'[q] = role[q] /\ cur'[q] = cur[q]
        /\ plan'[q] = plan[q] /\ resp'[q] = resp[q]
    BY <1>3, LocalsOfOthers
  <2>2. CASE pc[q] \in Unjournaled \cup Executing
    <3>1. OnlyDelivers(p)
      BY <1>3, <2>2, Undisturbed DEF Unjournaled, Executing, ExclusiveLabels
    <3>2. pc[q] \in Unjournaled => journal'[cur[q]] = None
      BY <1>op, <3>1 DEF OnlyDelivers, Delivered, JournalKnown, Answerable, Journaled
    <3>3. pc[q] \in Executing => ~Answerable(cur[q]) /\ cur[q] \in Op
      BY <1>op DEF JournalKnown, Answerable, Journaled
    <3>4. pc[q] \in Executing => journal'[cur[q]] = journal[cur[q]]
      BY <3>1, <3>3 DEF OnlyDelivers, Delivered
    <3> QED BY <2>1, <2>2, <3>2, <3>4 DEF JournalKnown, Journaled, Unjournaled, Executing
  <2>3. CASE role[q] = "repair" /\ pc[q] \in {"replay", "clear", "reply"}
    <3>1. Answerable(cur[q]) /\ ~journal[cur[q]].old
      BY <2>3 DEF JournalKnown
    <3>2. CASE cur[q] \in Op
      BY <1>3, <2>1, <2>3, <3>1, <3>2, AnswerKept DEF Unjournaled, Executing, Answerable, Journaled
    <3> QED BY <2>3, <3>2, <1>op DEF JournalKnown
  <2> QED BY <2>1, <2>2, <2>3 DEF Unjournaled, Executing
<1>4. ASSUME Acts(q) PROVE Known
  <2>1. CASE pc'[q] \in Unjournaled
    <3>1. CASE Open(q)
      BY <3>1, <2>1 DEF Open, Unexpired, ProcOK, LocalsOK, Goto, FilesOK, Unjournaled,
         Executing
    <3>2. CASE PlanRepair(q) \/ Temps(q) \/ MarkPending(q)
      <4>1. pc[q] \in Unjournaled /\ cur'[q] = cur[q] /\ journal' = journal
        BY <2>1, <3>2 DEF PlanRepair, Temps, MarkPending, Unjournaled, Goto, Exit,
           Clean, ProcOK, files, locals
      <4> QED BY <2>1, <4>1 DEF JournalKnown, Unjournaled, Executing
    <3> QED BY <1>4, <2>1, <3>1, <3>2, Arrivals DEF Unjournaled
  <2>2. CASE pc'[q] \in Executing
    <3>1. CASE SettleJournaled(q) \/ Open(q)
      <4>1. CASE SettleJournaled(q)
        <5>1. /\ Adopt(q, pc'[q]) /\ Journaled(marker.op, "prepared")
              /\ marker # None /\ UNCHANGED journal
          BY <2>2, <4>1 DEF SettleJournaled, Executing, Exit, Goto, Adopt, ProcOK, files,
             Journaled
        <5>2. marker.op \in Op
          BY <5>1, MarkerParts DEF FilesOK
        <5> QED BY <2>2, <5>1, <5>2 DEF Adopt, ProcOK, Journaled, Unjournaled, Executing
      <4>2. CASE Open(q)
        <5>1. cur[q] \in Op /\ cur'[q] = cur[q] /\ journal'[cur[q]] = Unexpired[cur[q]]
          BY <4>2 DEF Open, ProcOK, LocalsOK, Unexpired
        <5>2. journal'[cur[q]] # None /\ journal'[cur[q]].state = "prepared"
          BY <2>2, <4>2, <5>1 DEF Open, Goto, ProcOK, Executing
        <5>3. plan'[q] = journal'[cur[q]].plan /\ resp'[q] = journal'[cur[q]].resp
          BY <4>2, <5>1, <5>2 DEF Open, ProcOK
        <5> QED BY <2>2, <5>1, <5>2, <5>3 DEF Journaled, Executing, Unjournaled
      <4> QED BY <3>1, <4>1, <4>2
    <3>2. CASE Prepare(q)
      <4>1. cur[q] \in Op /\ plan[q] \in Plan /\ resp[q] \in Response
        BY <3>2, CarriedResponse DEF Prepare, WithResponse, ProcOK
      <4>2. journal'[cur[q]] =
              [state |-> "prepared", plan |-> plan[q], resp |-> resp[q], old |-> FALSE]
        BY <3>2, <4>1 DEF Prepare, FilesOK
      <4>3. journal'[cur[q]] # None
        BY <4>1, <4>2, NewJournal
      <4>4. pc'[q] = "apply" /\ cur'[q] = cur[q] /\ plan'[q] = plan[q] /\ resp'[q] = resp[q]
        BY <3>2 DEF Prepare, Goto, ProcOK
      <4> QED BY <4>2, <4>3, <4>4 DEF Journaled, Executing, Unjournaled
    <3>3. ASSUME \/ Inspect(q) \/ RollBack(q) \/ RollForward(q) \/ Verify(q)
                 \/ Apply(q) \/ Rename(q)
          PROVE  Known
      <4>1. pc[q] \in Executing /\ UNCHANGED journal
        BY <3>3 DEF Inspect, RollBack, RollForward, Verify, Apply, Rename, Executing, files
      <4>2. cur'[q] = cur[q] /\ plan'[q] = plan[q] /\ resp'[q] = resp[q]
        BY <3>3, <2>2 DEF Inspect, RollBack, RollForward, Verify, Apply, Rename, Exit, Goto,
           ProcOK, Executing, locals
      <4> QED BY <2>2, <4>1, <4>2 DEF JournalKnown, Executing, Unjournaled, Journaled
    <3> QED BY <1>4, <2>2, <3>1, <3>2, <3>3, Arrivals DEF Executing
  <2>3. CASE role'[q] = "repair" /\ pc'[q] \in {"replay", "clear", "reply"}
    <3> SUFFICES (cur[q] \in Op /\ Answerable(cur[q]) /\ ~journal[cur[q]].old)'
      BY <2>3 DEF Unjournaled, Executing, Answerable, Journaled
    <3>1. CASE Open(q)
      <4>1. cur[q] \in Op /\ cur'[q] = cur[q] /\ journal'[cur[q]] = Unexpired[cur[q]]
        BY <3>1 DEF Open, ProcOK, LocalsOK, Unexpired
      <4>2. journal'[cur[q]] # None /\ journal'[cur[q]].state # "prepared"
        BY <2>3, <3>1, <4>1 DEF Open, Goto, ProcOK
      <4>3. journal'[cur[q]] = journal[cur[q]] /\ ~Expired(journal[cur[q]])
        BY <4>1, <4>2 DEF Unexpired
      <4>4. journal[cur[q]].state \in {"committed", "delivered"}
        BY <4>1, <4>2, <4>3, IsJournal DEF SafeInv, Journal
      <4> QED BY <4>1, <4>2, <4>3, <4>4 DEF Expired, OldIsDelivered, Answerable, Journaled
    <3>2. CASE Commit(q) \/ Temps(q)
      <4>1. cur[q] \in Op /\ plan[q] \in Plan /\ resp[q] \in Response /\ cur'[q] = cur[q]
        BY <3>2, CarriedResponse DEF Commit, Temps, WithResponse, ProcOK, locals
      <4>2. journal'[cur[q]] =
              [state |-> "committed", plan |-> plan[q], resp |-> resp[q], old |-> FALSE]
        BY <2>3, <3>2, <4>1 DEF Commit, Temps, FilesOK, Goto, ProcOK
      <4> QED BY <4>1, <4>2, NewJournal DEF Answerable, Journaled
    <3>3. CASE Replay(q) \/ Clear(q)
      <4>1. pc[q] \in {"replay", "clear"} /\ role'[q] = role[q] /\ cur'[q] = cur[q]
            /\ UNCHANGED journal
        BY <2>3, <3>3 DEF Replay, Clear, Exit, Goto, ProcOK, files, locals
      <4> QED BY <2>3, <4>1 DEF JournalKnown, Answerable, Journaled
    <3>4. CASE Abort(q) \/ SettleJournaled(q) \/ SettleNothing(q)
      <4>1. role'[q] # "repair"
        BY <2>3, <3>4 DEF Abort, SettleJournaled, SettleNothing, Adopt, Exit, Goto, ProcOK,
           locals, RolesKnown
      <4> QED BY <2>3, <4>1
    <3> QED BY <1>4, <2>3, <3>1, <3>2, <3>3, <3>4, Arrivals
  <2> QED BY <2>1, <2>2, <2>3
<1>5. ASSUME (\E s \in Span : EditSpan(s)) \/ EditSource \/ UNCHANGED vars
      PROVE  UNCHANGED <<pc, locals, journal>>
  BY <1>5 DEF EditSpan, EditSource, vars, files
<1> QED BY <1>1, <1>2, <1>3, <1>4, <1>5, NextCases

-----------------------------------------------------------------------------
(* What happens to the span files and to the marker.                       *)

\* A writer or an editor puts bytes in place that no plan made.
ByThird ==
    /\ edits' = edits + 1 /\ src' = src
    /\ \E t \in Span, b \in {Fresh, Absent} : span' = [span EXCEPT ![t] = b]

\* A rollback restores original bytes; a repair or a recovery installs planned
\* ones.
Restores(p) ==
    /\ pc[p] = "back" /\ edits' = edits
    /\ \E t \in todo[p] : First(todo[p], t) /\ span' = [span EXCEPT ![t] = plan[p][t].orig]
                          /\ todo'[p] = todo[p] \ {t}

Installs(p) ==
    /\ pc[p] \in {"forward", "rename"} /\ edits' = edits
    /\ \E t \in todo[p] : First(todo[p], t) /\ span' = [span EXCEPT ![t] = plan[p][t].new]
                          /\ todo'[p] = todo[p] \ {t}

\* The steps that write a span file: a command that mutates, a rollback, and a
\* repair or a recovery that rolls forward.
LEMMA SpanMoves ==
    ASSUME SafeInv, TempsHold, NEW p \in Proc, Acts(p)
    PROVE  \/ UNCHANGED <<span, edits>>
           \/ Write(p) /\ ByThird
           \/ RollBack(p) /\ Restores(p)
           \/ (RollForward(p) \/ Rename(p)) /\ Installs(p)
<1> USE DEF files, bounds
<1>1. CASE Write(p)
  BY <1>1 DEF Write, ByThird
<1> DEFINE todoOK == todo \in [Proc -> SUBSET Span]
<1>0. todoOK
  BY DEF SafeInv, TypeInv, TypeOK
<1>2. CASE RollBack(p)
  BY <1>0, <1>2 DEF RollBack, Restores
<1>3. CASE RollForward(p)
  BY <1>0, <1>3 DEF RollForward, Installs
<1>4. CASE Rename(p)
  <2>1. \A t \in todo[p] : temp[cur[p]][t] = plan[p][t].new
    BY <1>4 DEF Rename, TempsHold
  <2>2. PICK t \in todo[p] : /\ First(todo[p], t) /\ span' = [span EXCEPT ![t] = temp[cur[p]][t]]
                             /\ todo' = [todo EXCEPT ![p] = @ \ {t}]
    BY <1>4 DEF Rename
  <2>3. pc[p] = "rename" /\ edits' = edits
    BY <1>4 DEF Rename
  <2> QED BY <1>0, <1>4, <2>1, <2>2, <2>3 DEF Installs
<1>5. CASE Start(p) \/ LockTimeout(p) \/ Crash(p)
  BY <1>5 DEF Start, BeginReader, BeginWriter, BeginRepair, Begin, LockTimeout, Crash
<1>6. CASE Acquire(p) \/ EnterClean(p) \/ EnterPending(p) \/ Reacquire(p) \/ Rejoin(p) \/ Read(p)
             \/ SettleNothing(p) \/ SettleUnjournaled(p) \/ SettleJournaled(p)
             \/ Abort(p) \/ Inspect(p) \/ Verify(p) \/ Commit(p) \/ Clear(p) \/ DowngradeReader(p)
  BY <1>6 DEF Acquire, EnterClean, EnterPending, Reacquire, Rejoin, Read,
     SettleNothing, SettleUnjournaled, SettleJournaled, Abort, Inspect,
     Verify, Commit, Clear, DowngradeReader
<1>7. CASE Open(p) \/ Replay(p) \/ PlanRepair(p) \/ Temps(p) \/ MarkPending(p)
             \/ Prepare(p) \/ Apply(p) \/ Acknowledge(p)
  BY <1>7 DEF Open, Replay, PlanRepair, Temps, MarkPending, Prepare, Apply, Acknowledge
<1> QED BY <1>1, <1>2, <1>3, <1>4, <1>5, <1>6, <1>7 DEF Acts, Step

\* An unlocked edit is a third party's too.
LEMMA EditIsThird == ASSUME NEW s \in Span, EditSpan(s) PROVE ByThird
BY DEF EditSpan, ByThird

\* The marker is written by the repair it names and removed by whoever settles it.
LEMMA MarkerMoves ==
    ASSUME NEW p \in Proc, Acts(p)
    PROVE  \/ marker' = marker
           \/ /\ MarkPending(p) /\ pc[p] = "mark"
              /\ marker \in {None, marker'} /\ marker' = [op |-> cur[p], plan |-> plan[p]]
           \/ Clear(p) /\ pc[p] = "clear" /\ marker # None /\ marker.op = cur[p] /\ marker' = None
<1> USE DEF files
<1>1. CASE MarkPending(p)
  BY <1>1 DEF MarkPending
<1>2. CASE Clear(p)
  BY <1>2 DEF Clear
<1>3. CASE Start(p) \/ LockTimeout(p) \/ Crash(p)
  BY <1>3 DEF Start, BeginReader, BeginWriter, BeginRepair, Begin, LockTimeout, Crash
<1>4. CASE Acquire(p) \/ EnterClean(p) \/ EnterPending(p) \/ Reacquire(p) \/ Rejoin(p) \/ Read(p)
             \/ SettleNothing(p) \/ SettleUnjournaled(p) \/ SettleJournaled(p)
             \/ Abort(p) \/ Inspect(p) \/ RollBack(p) \/ RollForward(p)
             \/ Verify(p) \/ Commit(p) \/ DowngradeReader(p) \/ Write(p)
  BY <1>4 DEF Acquire, EnterClean, EnterPending, Reacquire, Rejoin, Read,
     SettleNothing, SettleUnjournaled, SettleJournaled, Abort, Inspect,
     RollBack, RollForward, Verify, Commit, DowngradeReader, Write
<1>5. CASE Open(p) \/ Replay(p) \/ PlanRepair(p) \/ Temps(p)
             \/ Prepare(p) \/ Apply(p) \/ Rename(p) \/ Acknowledge(p)
  BY <1>5 DEF Open, Replay, PlanRepair, Temps, Prepare, Apply, Rename, Acknowledge
<1> QED BY <1>1, <1>2, <1>3, <1>4, <1>5 DEF Acts, Step

\* Where a process gets a plan and a response from.
LEMMA PlanMoves ==
    ASSUME ProcOK, FilesOK, NEW p \in Proc, Acts(p)
    PROVE  \/ plan'[p] = plan[p] /\ resp'[p] = resp[p] /\ cur'[p] = cur[p]
           \/ plan'[p] = EmptyMap /\ pc'[p] \in {"idle", "want"}
           \/ plan'[p] = plan[p] /\ pc'[p] = "want"
           \/ /\ Open(p) /\ cur'[p] = cur[p] /\ cur[p] \in Op
              /\ journal[cur[p]] # None
              /\ plan'[p] = journal[cur[p]].plan /\ resp'[p] = journal[cur[p]].resp
           \/ /\ SettleJournaled(p) /\ cur'[p] = marker.op /\ marker.op \in Op
              /\ journal[marker.op] # None
              /\ plan'[p] = journal[marker.op].plan /\ resp'[p] = journal[marker.op].resp
           \/ SettleUnjournaled(p) /\ plan'[p] = plan[p] /\ pc'[p] = "abort"
           \/ PlanRepair(p) /\ cur'[p] = cur[p]
<1> USE DEF ProcOK, Goto, locals
<1>1. CASE Exit(p)
  BY <1>1 DEF Exit, Clean
<1>2. CASE Start(p)
  BY <1>2 DEF Start, BeginReader, BeginWriter, BeginRepair, Begin
<1>3. CASE Open(p)
  <2>1. cur[p] \in Op /\ cur' = cur
    BY <1>3 DEF Open, LocalsOK
  <2>2. Unexpired[cur[p]] # None => Unexpired[cur[p]] = journal[cur[p]]
    BY <2>1 DEF Unexpired
  <2> QED BY <1>3, <2>1, <2>2 DEF Open
<1>4. CASE SettleJournaled(p)
  BY <1>1, <1>4, MarkerParts DEF SettleJournaled, Adopt, FilesOK
<1>5. CASE Acquire(p) \/ EnterClean(p) \/ EnterPending(p) \/ Reacquire(p)
             \/ SettleNothing(p) \/ SettleUnjournaled(p)
  BY <1>1, <1>5 DEF Acquire, EnterClean, EnterPending, Reacquire, SettleNothing,
     SettleUnjournaled
<1>6. CASE Abort(p) \/ Inspect(p) \/ RollBack(p) \/ RollForward(p)
             \/ Verify(p) \/ Commit(p) \/ Clear(p)
  BY <1>1, <1>6 DEF Abort, Inspect, RollBack, RollForward, Verify, Commit, Clear
<1>7. CASE DowngradeReader(p) \/ Rejoin(p) \/ Read(p) \/ Write(p) \/ Replay(p)
  BY <1>1, <1>7 DEF DowngradeReader, Rejoin, Read, Write, Replay
<1>8. CASE PlanRepair(p)
  BY <1>8 DEF PlanRepair
<1>9. CASE Temps(p) \/ MarkPending(p)
             \/ Prepare(p) \/ Apply(p) \/ Rename(p) \/ Acknowledge(p)
  BY <1>1, <1>9 DEF Temps, MarkPending, Prepare, Apply, Rename, Acknowledge
<1> QED BY <1>1, <1>2, <1>3, <1>4, <1>5, <1>6, <1>7, <1>8, <1>9
        DEF Acts, Step, LockTimeout, Crash

\* Bytes get newer, and so does the source.
LEMMA Monotone ==
    ASSUME TypeInv, [Next]_vars
    PROVE  edits \in Nat /\ edits' \in Nat /\ edits <= edits'
           /\ src \in Nat /\ src' \in Nat /\ src <= src'
<1>1. edits \in Nat /\ src \in Nat /\ edits' \in Nat /\ src' \in Nat
  BY TypeStep, RepairAssumption DEF TypeInv, TypeOK
<1>2. ASSUME NEW p \in Proc, Acts(p) PROVE edits <= edits' /\ src' = src
  <2> USE DEF files, bounds
  <2>1. CASE Write(p)
    BY <1>1, <2>1 DEF Write
  <2>2. CASE Start(p) \/ LockTimeout(p) \/ Crash(p)
    BY <1>1, <2>2 DEF Start, BeginReader, BeginWriter, BeginRepair, Begin, LockTimeout, Crash
  <2>3. CASE Acquire(p) \/ EnterClean(p) \/ EnterPending(p) \/ Reacquire(p) \/ Rejoin(p) \/ Read(p)
               \/ SettleNothing(p) \/ SettleUnjournaled(p) \/ SettleJournaled(p)
               \/ Abort(p) \/ Inspect(p) \/ RollBack(p) \/ RollForward(p)
               \/ Verify(p) \/ Commit(p) \/ Clear(p) \/ DowngradeReader(p)
    BY <1>1, <2>3 DEF Acquire, EnterClean, EnterPending, Reacquire, Rejoin, Read,
       SettleNothing, SettleUnjournaled, SettleJournaled, Abort, Inspect,
       RollBack, RollForward, Verify, Commit, Clear, DowngradeReader
  <2>4. CASE Open(p) \/ Replay(p) \/ PlanRepair(p) \/ Temps(p) \/ MarkPending(p)
               \/ Prepare(p) \/ Apply(p) \/ Rename(p) \/ Acknowledge(p)
    BY <1>1, <2>4 DEF Open, Replay, PlanRepair, Temps, MarkPending, Prepare, Apply, Rename,
       Acknowledge
  <2> QED BY <1>2, <2>1, <2>2, <2>3, <2>4 DEF Acts, Step
<1>3. ASSUME \/ \E s \in Span : EditSpan(s)
             \/ EditSource \/ (\E o \in Op : Age(o)) \/ UNCHANGED vars
      PROVE  edits <= edits' /\ src <= src'
  BY <1>1, <1>3 DEF EditSpan, EditSource, Age, vars, files, bounds
<1> QED BY <1>1, <1>2, <1>3, NextCases

-----------------------------------------------------------------------------
(* Plans come from the past, and responses show them.                      *)

\* A plan of the past stays one.
LEMMA PastKept ==
    ASSUME TypeInv, [Next]_vars, NEW f \in Plan, FromPast(f)
    PROVE  FromPast(f)'
<1> SUFFICES ASSUME NEW s \in DOMAIN f
             PROVE  /\ f[s].orig.edit <= edits' /\ f[s].new.edit <= edits'
                    /\ f[s].orig.at < f[s].new.at /\ f[s].new.at <= src'
  BY DEF FromPast
<1>1. f[s].orig.edit \in Nat /\ f[s].new.edit \in Nat /\ f[s].new.at \in Nat
  BY PlanEntry, RepairAssumption DEF Text
<1> QED BY <1>1, Monotone DEF FromPast

\* The plan with no entries is one.
LEMMA EmptyPast == FromPast(EmptyMap) /\ FromPast(EmptyMap)'
BY EmptyPlan DEF FromPast

\* What plan_repair computes, of one span.
LEMMA Planned ==
    ASSUME TypeInv, NEW p \in Proc, PlanRepair(p)
    PROVE  /\ cur[p] \in Op /\ plan'[p] \in Plan
           /\ \A s \in DOMAIN plan'[p] :
                /\ s \in Span /\ s \in Selected[cur[p]] /\ Repairable(s)
                /\ plan'[p][s].orig = span[s] /\ span[s] \in Text
                /\ plan'[p][s].new = [span[s] EXCEPT !.at = src]
                /\ plan'[p][s].new.edit = span[s].edit /\ plan'[p][s].new.at = src
                /\ resp'[p].spans[s] = plan'[p][s].new
           /\ todo'[p] = DOMAIN plan'[p]
<1> DEFINE fix == {s \in Selected[cur[p]] : Repairable(s)}
           entries == [s \in fix |-> [orig |-> span[s], new |-> [span[s] EXCEPT !.at = src]]]
           after == [s \in Span |-> IF s \in fix THEN entries[s].new ELSE span[s]]
<1>0. FilesOK /\ ProcOK
  BY TypeParts
<1>1. cur[p] \in Op /\ fix \in SUBSET Span
  BY <1>0, RepairAssumption DEF PlanRepair, ProcOK, LocalsOK, WithOp
<1>2. \A s \in fix : span[s] \in Text /\ [span[s] EXCEPT !.at = src] \in Text
  BY <1>0, <1>1 DEF Repairable, FilesOK, Bytes, Text
<1>3. entries \in [fix -> Entry]
  BY <1>2 DEF Entry
<1>4. entries \in Plan
  BY <1>1, <1>3 DEF Plan
<1>5. plan'[p] = entries /\ resp'[p] = Snapshot(cur[p], after) /\ todo'[p] = fix
  BY <1>0 DEF PlanRepair, ProcOK
<1>6. ASSUME NEW s \in fix
      PROVE  /\ entries[s].orig = span[s] /\ entries[s].new = [span[s] EXCEPT !.at = src]
             /\ [span[s] EXCEPT !.at = src].edit = span[s].edit
             /\ [span[s] EXCEPT !.at = src].at = src
             /\ after[s] = entries[s].new
  BY <1>1, <1>2 DEF Text
<1>7. \A s \in fix : resp'[p].spans[s] = entries[s].new
  BY <1>1, <1>5, <1>6 DEF Snapshot
<1>8. DOMAIN entries = fix
  OBVIOUS
<1>9. \A s \in fix : s \in Span /\ s \in Selected[cur[p]] /\ Repairable(s)
  BY <1>1
<1> HIDE DEF entries, after, fix
<1>10. ASSUME NEW s \in DOMAIN plan'[p]
       PROVE  /\ s \in Span /\ s \in Selected[cur[p]] /\ Repairable(s)
              /\ plan'[p][s].orig = span[s] /\ span[s] \in Text
              /\ plan'[p][s].new = [span[s] EXCEPT !.at = src]
              /\ plan'[p][s].new.edit = span[s].edit /\ plan'[p][s].new.at = src
              /\ resp'[p].spans[s] = plan'[p][s].new
  <2>1. s \in fix /\ plan'[p][s] = entries[s]
    BY <1>5, <1>8
  <2>2. s \in Span /\ s \in Selected[cur[p]] /\ Repairable(s) /\ span[s] \in Text
    BY <1>2, <1>9, <2>1
  <2> DEFINE moved == [span[s] EXCEPT !.at = src]
  <2>3. entries[s].orig = span[s] /\ entries[s].new = moved
        /\ moved.edit = span[s].edit /\ moved.at = src
    BY <1>6, <2>1
  <2> HIDE DEF moved
  <2>4. resp'[p].spans[s] = entries[s].new
    BY <1>7, <2>1
  <2>5. /\ plan'[p][s].orig = span[s] /\ plan'[p][s].new = moved
        /\ plan'[p][s].new.edit = span[s].edit /\ plan'[p][s].new.at = src
        /\ resp'[p].spans[s] = plan'[p][s].new
    BY <2>1, <2>3, <2>4
  <2> QED BY <2>2, <2>5 DEF moved
<1> QED BY <1>1, <1>4, <1>5, <1>8, <1>10

\* Every step keeps spans and plans in the past.
LEMMA PlansStep ==
    SafeInv /\ JournalKnown /\ TempsHold /\ PlansFromPast /\ [Next]_vars => PlansFromPast'
<1> SUFFICES ASSUME SafeInv, TypeInv, TypeInv', FilesOK, ProcOK, JournalKnown, TempsHold,
                    PlansFromPast, [Next]_vars
             PROVE  PlansFromPast'
  BY TypeStep, TypeParts DEF SafeInv
<1>b. edits \in Nat /\ edits' \in Nat /\ edits <= edits'
      /\ src \in Nat /\ src' \in Nat /\ src <= src'
  BY Monotone
<1>t. Absent \notin Text /\ \A b \in Bytes : b # Absent => b.edit \in Nat /\ b.at \in Nat
  BY AbsentAssumption, RepairAssumption DEF Bytes, Text
<1>1. \A s \in Span : span'[s] # Absent => span'[s].edit <= edits' /\ span'[s].at <= src'
  <2>1. SUFFICES ASSUME NEW s \in Span, span'[s] # Absent
                 PROVE  span'[s].edit <= edits' /\ span'[s].at <= src'
    OBVIOUS
  <2>2. CASE span'[s] = span[s]
    <3>1. span[s] \in Bytes /\ span[s].edit <= edits /\ span[s].at <= src
      BY <2>1, <2>2 DEF FilesOK, PlansFromPast
    <3> QED BY <1>b, <1>t, <2>1, <2>2, <3>1
  <2>3. CASE ByThird
    <3>1. CASE span'[s] \in {Fresh, Absent}
      BY <1>b, <2>1, <2>3, <3>1 DEF ByThird, Fresh
    <3> QED BY <2>2, <2>3, <3>1 DEF ByThird, FilesOK
  <2>4. ASSUME NEW p \in Proc, Acts(p) PROVE span'[s].edit <= edits' /\ span'[s].at <= src'
    <3>1. ASSUME NEW t \in todo[p], pc[p] \in Looping
          PROVE  /\ plan[p][t].orig \in Text /\ plan[p][t].new \in Text
                 /\ plan[p][t].orig.edit <= edits /\ plan[p][t].new.edit <= edits
                 /\ plan[p][t].orig.at < plan[p][t].new.at /\ plan[p][t].new.at <= src
      BY <3>1, LoopEntry DEF PlansFromPast, FromPast, ProcOK, LocalsOK
    <3>2. ASSUME Restores(p) \/ Installs(p), span'[s] # span[s]
          PROVE  span'[s].edit <= edits' /\ span'[s].at <= src'
      <4>1. PICK t \in todo[p] : span'[s] \in {plan[p][t].orig, plan[p][t].new}
        BY <3>2 DEF Restores, Installs, FilesOK
      <4>2. pc[p] \in Looping
        BY <3>2 DEF Restores, Installs, Looping
      <4>3. span'[s] \in Text /\ span'[s].edit <= edits
        BY <3>1, <4>1, <4>2
      <4>4. plan[p][t].orig.at \in Nat /\ plan[p][t].new.at \in Nat
        BY <3>1, <4>2, RepairAssumption DEF Text
      <4>5. span'[s].at <= src
        BY <1>b, <3>1, <4>1, <4>2, <4>4
      <4>6. span'[s].edit \in Nat /\ span'[s].at \in Nat
        BY <4>3, RepairAssumption DEF Text
      <4> QED BY <1>b, <4>3, <4>5, <4>6
    <3> QED BY <2>2, <2>3, <2>4, <3>2, SpanMoves
  <2>5. ASSUME EditSource \/ (\E o \in Op : Age(o)) \/ UNCHANGED vars PROVE span' = span
    BY <2>5 DEF EditSource, Age, vars, files
  <2> QED BY <2>2, <2>3, <2>4, <2>5, NextCases, EditIsThird
<1>j. ASSUME NEW o \in Op, journal[o] # None
      PROVE  journal[o].plan \in Plan /\ FromPast(journal[o].plan)
  BY <1>j, IsJournal, JournalParts DEF PlansFromPast
<1>2. ASSUME NEW p \in Proc PROVE FromPast(plan[p])'
  <2>1. ASSUME NEW f \in Plan, FromPast(f), plan'[p] = f PROVE FromPast(plan[p])'
    BY <2>1, PastKept DEF FromPast
  <2>2. plan[p] \in Plan /\ FromPast(plan[p])
    BY DEF ProcOK, PlansFromPast
  <2>3. CASE PlanRepair(p)
    <3> SUFFICES ASSUME NEW s \in DOMAIN plan'[p]
                 PROVE  /\ plan'[p][s].orig.edit <= edits' /\ plan'[p][s].new.edit <= edits'
                        /\ plan'[p][s].orig.at < plan'[p][s].new.at /\ plan'[p][s].new.at <= src'
      BY DEF FromPast
    <3>1. /\ s \in Span /\ Repairable(s) /\ plan'[p][s].orig = span[s] /\ span[s] \in Text
          /\ plan'[p][s].new.edit = span[s].edit /\ plan'[p][s].new.at = src
      BY <2>3, Planned
    <3>2. span[s].edit <= edits /\ span[s].at <= src /\ span[s].at # src
      BY <1>t, <3>1 DEF PlansFromPast, Repairable
    <3>3. span[s].edit \in Nat /\ span[s].at \in Nat
      BY <3>1, RepairAssumption DEF Text
    <3> QED BY <1>b, <3>1, <3>2, <3>3
  <2>4. CASE Acts(p)
    BY <1>j, <2>1, <2>2, <2>3, <2>4, PlanMoves, EmptyPast, EmptyPlan
  <2>5. CASE plan'[p] = plan[p]
    BY <2>1, <2>2, <2>5
  <2> QED BY <2>4, <2>5, NextCases, LocalsOfOthers DEF EditSpan, EditSource, Age, locals, vars
<1>3. ASSUME NEW o \in Op, journal'[o] # None PROVE FromPast(journal[o].plan)'
  <2>1. ASSUME NEW f \in Plan, FromPast(f), journal'[o].plan = f PROVE FromPast(journal[o].plan)'
    BY <2>1, PastKept DEF FromPast
  <2>2. CASE journal'[o] = journal[o]
    BY <1>3, <1>j, <2>1, <2>2
  <2>3. ASSUME NEW p \in Proc, Acts(p) PROVE FromPast(journal[o].plan)'
    <3>1. plan[p] \in Plan /\ FromPast(plan[p])
      BY DEF ProcOK, PlansFromPast
    <3>2. CASE Written(o, p) \/ Committed(o, p)
      BY <2>1, <3>1, <3>2 DEF Written, Committed
    <3>3. CASE Delivered(o, p)
      <4>1. journal[o] # None
        BY <3>3 DEF Delivered, Answerable, Journaled
      <4>2. journal[o] \in Journal /\ journal'[o].plan = journal[o].plan
        BY <3>3, <4>1, IsJournal, JournalFields DEF Delivered
      <4> QED BY <1>j, <2>1, <4>1, <4>2
    <3> QED BY <1>3, <2>2, <2>3, <3>2, <3>3, JournalMoves DEF Dropped
  <2>4. ASSUME NEW a \in Op, Age(a) PROVE FromPast(journal[o].plan)'
    <3>1. CASE o = a
      <4>1. journal[o] # None
        BY <2>4, <3>1, AgeStep DEF Journaled
      <4>2. journal[o] \in Journal /\ journal'[o].plan = journal[o].plan
        BY <2>4, <3>1, <4>1, IsJournal, JournalFields, AgeStep
      <4> QED BY <1>j, <2>1, <4>1, <4>2
    <3> QED BY <2>2, <2>4, <3>1, AgeStep
  <2>5. ASSUME (\E s \in Span : EditSpan(s)) \/ EditSource \/ UNCHANGED vars PROVE journal' = journal
    BY <2>5 DEF EditSpan, EditSource, vars, files
  <2> QED BY <2>2, <2>3, <2>4, <2>5, NextCases
<1>4. ASSUME marker' # None PROVE FromPast(marker.plan)'
  <2>1. ASSUME NEW f \in Plan, FromPast(f), marker'.plan = f PROVE FromPast(marker.plan)'
    BY <2>1, PastKept DEF FromPast
  <2>2. CASE marker' = marker
    BY <1>4, <2>1, <2>2, MarkerParts DEF FilesOK, PlansFromPast
  <2>3. ASSUME NEW p \in Proc, Acts(p), marker' = [op |-> cur[p], plan |-> plan[p]]
        PROVE  FromPast(marker.plan)'
    BY <2>1, <2>3 DEF ProcOK, PlansFromPast
  <2>4. ASSUME \/ \E s \in Span : EditSpan(s)
               \/ EditSource \/ (\E o \in Op : Age(o)) \/ UNCHANGED vars
        PROVE  marker' = marker
    BY <2>4 DEF EditSpan, EditSource, Age, vars, files
  <2> QED BY <1>4, <2>2, <2>3, <2>4, NextCases, MarkerMoves
<1> QED BY <1>1, <1>2, <1>3, <1>4 DEF PlansFromPast

\* Where a process that carries a plan and a response has them from.
LEMMA Carrying ==
    ASSUME ProcOK, FilesOK, NEW p \in Proc, Acts(p), pc'[p] \in WithResponse
    PROVE  \/ /\ pc[p] \in WithResponse
              /\ plan'[p] = plan[p] /\ resp'[p] = resp[p] /\ cur'[p] = cur[p]
           \/ /\ Open(p) /\ cur'[p] = cur[p] /\ cur[p] \in Op
              /\ journal[cur[p]] # None /\ ~Expired(journal[cur[p]])
              /\ journal'[cur[p]] = journal[cur[p]]
              /\ plan'[p] = journal[cur[p]].plan /\ resp'[p] = journal[cur[p]].resp
           \/ /\ SettleJournaled(p) /\ cur'[p] = marker.op /\ marker.op \in Op
              /\ marker # None /\ journal[marker.op] # None /\ journal' = journal
              /\ plan'[p] = journal[marker.op].plan /\ resp'[p] = journal[marker.op].resp
           \/ PlanRepair(p) /\ cur'[p] = cur[p]
<1> USE DEF ProcOK, Goto, locals
<1>1. Exit(p) => pc'[p] \notin WithResponse
  BY DEF Exit, WithResponse
<1>2. CASE Open(p)
  <2>1. cur[p] \in Op /\ cur' = cur /\ journal'[cur[p]] = Unexpired[cur[p]]
    BY <1>2 DEF Open, LocalsOK, Unexpired
  <2>2. Unexpired[cur[p]] # None
    BY <1>2, <2>1 DEF Open, WithResponse
  <2>3. Unexpired[cur[p]] = journal[cur[p]] /\ ~Expired(journal[cur[p]])
    BY <2>1, <2>2 DEF Unexpired
  <2>4. plan'[p] = Unexpired[cur[p]].plan /\ resp'[p] = Unexpired[cur[p]].resp
    BY <1>2, <2>2 DEF Open
  <2> QED BY <1>2, <2>1, <2>2, <2>3, <2>4
<1>3. CASE SettleJournaled(p)
  <2>1. marker.op \in Op /\ marker # None /\ journal[marker.op] # None /\ journal' = journal
    BY <1>3, MarkerParts DEF SettleJournaled, FilesOK, files
  <2>2. PICK label : Adopt(p, label)
    BY <1>1, <1>3 DEF SettleJournaled
  <2> QED BY <1>3, <2>1, <2>2 DEF Adopt
<1>4. CASE PlanRepair(p)
  BY <1>4 DEF PlanRepair
<1>5. CASE Inspect(p) \/ RollBack(p) \/ RollForward(p) \/ Verify(p) \/ Apply(p)
             \/ Rename(p) \/ Temps(p) \/ MarkPending(p) \/ Prepare(p)
  BY <1>1, <1>5 DEF Inspect, RollBack, RollForward, Verify, Apply, Rename, Temps, MarkPending,
     Prepare, WithResponse
<1> QED BY <1>2, <1>3, <1>4, <1>5, Arrivals DEF WithResponse

\* Every step keeps the responses true to their plans.
LEMMA ResponsesStep ==
    SafeInv /\ JournalKnown /\ ResponsesShow /\ [Next]_vars => ResponsesShow'
<1> SUFFICES ASSUME SafeInv, FilesOK, ProcOK, JournalKnown, ResponsesShow, [Next]_vars
             PROVE  ResponsesShow'
  BY TypeParts DEF SafeInv
<1>1. ASSUME NEW q \in Proc, pc'[q] \in WithResponse PROVE Shows(cur[q], plan[q], resp[q])'
  <2>1. ASSUME Acts(q) PROVE Shows(cur'[q], plan'[q], resp'[q])
    <3>1. CASE PlanRepair(q) /\ cur'[q] = cur[q]
      BY <3>1, Planned DEF Shows, SafeInv
    <3> QED BY <1>1, <2>1, <3>1, Carrying DEF ResponsesShow
  <2>2. ASSUME pc'[q] = pc[q] /\ cur'[q] = cur[q] /\ plan'[q] = plan[q] /\ resp'[q] = resp[q]
        PROVE  Shows(cur'[q], plan'[q], resp'[q])
    BY <1>1, <2>2 DEF ResponsesShow
  <2>3. ASSUME \/ \E s \in Span : EditSpan(s)
               \/ EditSource \/ (\E o \in Op : Age(o)) \/ UNCHANGED vars
        PROVE  UNCHANGED <<pc, locals>>
    BY <2>3 DEF EditSpan, EditSource, Age, vars
  <2>4. Shows(cur'[q], plan'[q], resp'[q])
    BY <2>1, <2>2, <2>3, NextCases, LocalsOfOthers DEF locals
  <2> QED BY <2>4 DEF Shows
<1>2. ASSUME NEW o \in Op, journal'[o] # None PROVE Shows(o, journal[o].plan, journal[o].resp)'
  <2> SUFFICES Shows(o, journal'[o].plan, journal'[o].resp)
    BY DEF Shows
  <2>1. CASE journal'[o] = journal[o]
    BY <1>2, <2>1 DEF ResponsesShow
  <2>2. ASSUME NEW p \in Proc, Acts(p) PROVE Shows(o, journal'[o].plan, journal'[o].resp)
    <3>1. CASE Written(o, p) \/ Committed(o, p)
      <4>1. pc[p] \in WithResponse /\ cur[p] = o
        BY <3>1 DEF Written, Committed, Temps, Prepare, Commit, WithResponse
      <4>2. journal'[o].plan = plan[p] /\ journal'[o].resp = resp[p]
        BY <3>1 DEF Written, Committed
      <4> QED BY <4>1, <4>2 DEF ResponsesShow
    <3>2. CASE Delivered(o, p)
      <4>1. journal[o] # None
        BY <3>2 DEF Delivered, Answerable, Journaled
      <4>2. /\ journal[o] \in Journal
            /\ journal'[o].plan = journal[o].plan /\ journal'[o].resp = journal[o].resp
        BY <3>2, <4>1, IsJournal, JournalFields DEF Delivered, SafeInv
      <4> QED BY <4>1, <4>2 DEF ResponsesShow
    <3> QED BY <1>2, <2>1, <2>2, <3>1, <3>2, JournalMoves DEF Dropped
  <2>3. ASSUME NEW a \in Op, Age(a) PROVE Shows(o, journal'[o].plan, journal'[o].resp)
    <3>1. CASE o = a
      <4>1. journal[o] # None
        BY <2>3, <3>1, AgeStep DEF Journaled, SafeInv
      <4>2. /\ journal[o] \in Journal
            /\ journal'[o].plan = journal[o].plan /\ journal'[o].resp = journal[o].resp
        BY <2>3, <3>1, <4>1, IsJournal, JournalFields, AgeStep DEF SafeInv
      <4> QED BY <4>1, <4>2 DEF ResponsesShow
    <3> QED BY <2>1, <2>3, <3>1, AgeStep DEF SafeInv
  <2>4. ASSUME (\E s \in Span : EditSpan(s)) \/ EditSource \/ UNCHANGED vars PROVE journal' = journal
    BY <2>4 DEF EditSpan, EditSource, vars, files
  <2> QED BY <2>1, <2>2, <2>3, <2>4, NextCases
<1> QED BY <1>1, <1>2 DEF ResponsesShow

\* Every step keeps the planned bytes in the temporaries that will be renamed.
LEMMA TempsStep == SafeInv /\ TempsHold /\ [Next]_vars => TempsHold'
<1> SUFFICES ASSUME SafeInv, FilesOK, ProcOK, TempsHold, [Next]_vars, NEW q \in Proc
             PROVE  /\ (pc[q] \in {"temps", "mark", "prepare"} =>
                         \A s \in DOMAIN plan[q] :
                           (pc[q] = "temps" => s \notin todo[q]) => temp[cur[q]][s] = plan[q][s].new)'
                    /\ (pc[q] \in {"apply", "rename"} =>
                         \A s \in todo[q] : temp[cur[q]][s] = plan[q][s].new)'
  BY TypeParts DEF SafeInv, TempsHold
<1> DEFINE Hold == /\ (pc[q] \in {"temps", "mark", "prepare"} =>
                         \A s \in DOMAIN plan[q] :
                           (pc[q] = "temps" => s \notin todo[q]) => temp[cur[q]][s] = plan[q][s].new)'
                   /\ (pc[q] \in {"apply", "rename"} =>
                         \A s \in todo[q] : temp[cur[q]][s] = plan[q][s].new)'
<1>1. CASE UNCHANGED <<pc, locals, temp>>
  BY <1>1 DEF TempsHold, locals
<1>2. ASSUME NEW p \in Proc, p # q, Acts(p) PROVE Hold
  <2>1. pc'[q] = pc[q] /\ cur'[q] = cur[q] /\ plan'[q] = plan[q] /\ todo'[q] = todo[q]
    BY <1>2, LocalsOfOthers
  <2>2. CASE pc[q] \in {"temps", "mark", "prepare", "apply", "rename"}
    <3>1. temp' = temp
      BY <1>2, <2>2, Undisturbed DEF ExclusiveLabels
    <3> QED BY <2>1, <3>1 DEF TempsHold
  <2> QED BY <2>1, <2>2
<1>3. ASSUME Acts(q) PROVE Hold
  <2> USE DEF ProcOK, Goto, locals, files
  <2>1. CASE PlanRepair(q)
    <3>1. pc'[q] = "temps" /\ todo'[q] = DOMAIN plan'[q]
      BY <2>1, Planned DEF PlanRepair, SafeInv
    <3> QED BY <3>1
  <2>2. CASE Temps(q)
    <3>0. cur[q] \in Op /\ cur'[q] = cur[q] /\ plan'[q] = plan[q]
      BY <2>2, CarriedResponse DEF Temps, WithResponse
    <3>1. CASE \E s \in todo[q] : /\ temp' = [temp EXCEPT ![cur[q]][s] = plan[q][s].new]
                                  /\ todo' = [todo EXCEPT ![q] = @ \ {s}]
                                  /\ UNCHANGED pc
      <4>1. PICK s \in todo[q] : /\ temp' = [temp EXCEPT ![cur[q]][s] = plan[q][s].new]
                                 /\ todo' = [todo EXCEPT ![q] = @ \ {s}]
                                 /\ UNCHANGED pc
        BY <3>1
      <4>2. s \in Span /\ pc[q] = "temps"
        BY <2>2, <4>1 DEF Temps
      <4>3. temp'[cur[q]][s] = plan[q][s].new
            /\ \A t \in Span : t # s => temp'[cur[q]][t] = temp[cur[q]][t]
        BY <3>0, <4>1, <4>2 DEF FilesOK
      <4>4. \A t \in DOMAIN plan[q] : t \in Span
        BY PlanEntry
      <4>5. \A t \in DOMAIN plan[q] : t \notin todo[q] => temp[cur[q]][t] = plan[q][t].new
        BY <4>2 DEF TempsHold
      <4>6. todo'[q] = todo[q] \ {s} /\ pc'[q] = "temps"
        BY <4>1, <4>2
      <4>7. ASSUME NEW t \in DOMAIN plan[q], t \notin todo'[q]
            PROVE  temp'[cur[q]][t] = plan[q][t].new
        BY <4>3, <4>4, <4>5, <4>6, <4>7
      <4> QED BY <3>0, <4>6, <4>7
    <3>2. CASE todo[q] = {} /\ pc'[q] \in {"mark", "reply"} /\ UNCHANGED <<temp, todo>>
      <4>1. pc[q] = "temps"
        BY <2>2 DEF Temps
      <4>2. \A s \in DOMAIN plan[q] : temp[cur[q]][s] = plan[q][s].new
        BY <3>2, <4>1 DEF TempsHold
      <4> QED BY <3>0, <3>2, <4>2
    <3> QED BY <2>2, <3>1, <3>2 DEF Temps
  <2>3. CASE MarkPending(q) /\ pc'[q] = "prepare"
    <3>1. pc[q] = "mark" /\ UNCHANGED <<temp, locals>>
      BY <2>3 DEF MarkPending, Exit
    <3> QED BY <2>3, <3>1 DEF TempsHold
  <2>4. CASE Prepare(q)
    <3>1. pc[q] = "prepare" /\ pc'[q] = "apply" /\ UNCHANGED <<temp, plan, cur>>
          /\ todo'[q] = DOMAIN plan[q]
      BY <2>4 DEF Prepare
    <3> QED BY <3>1 DEF TempsHold
  <2>5. CASE Apply(q) /\ pc'[q] = "rename"
    <3>1. pc[q] = "apply" /\ UNCHANGED <<temp, locals>>
      BY <2>5 DEF Apply, Exit
    <3> QED BY <2>5, <3>1 DEF TempsHold
  <2>6. CASE Rename(q)
    <3>1. PICK s \in todo[q] : /\ temp' = [temp EXCEPT ![cur[q]][s] = None]
                               /\ todo' = [todo EXCEPT ![q] = @ \ {s}]
      BY <2>6 DEF Rename
    <3>2. pc[q] = "rename" /\ pc'[q] = "apply" /\ cur'[q] = cur[q] /\ plan'[q] = plan[q]
      BY <2>6 DEF Rename
    <3>3. cur[q] \in Op /\ todo'[q] = todo[q] \ {s} /\ todo[q] \subseteq Span
      BY <3>1, <3>2, CarriedResponse DEF WithResponse
    <3>4. \A t \in todo'[q] : temp'[cur[q]][t] = temp[cur[q]][t]
      BY <3>1, <3>3 DEF FilesOK
    <3>5. \A t \in todo[q] : temp[cur[q]][t] = plan[q][t].new
      BY <3>2 DEF TempsHold
    <3> QED BY <3>2, <3>3, <3>4, <3>5
  <2> QED BY <1>3, <2>1, <2>2, <2>3, <2>4, <2>5, <2>6, Arrivals
<1>4. ASSUME \/ \E s \in Span : EditSpan(s)
             \/ EditSource \/ (\E o \in Op : Age(o)) \/ UNCHANGED vars
      PROVE  UNCHANGED <<pc, locals, temp>>
  BY <1>4 DEF EditSpan, EditSource, Age, vars, files
<1> QED BY <1>1, <1>2, <1>3, <1>4, NextCases

-----------------------------------------------------------------------------
(* What the spans hold.                                                    *)

\* No plan of the past made the bytes a third party puts in place.
LEMMA ThirdIsForeign ==
    ASSUME TypeInv, ByThird, NEW f \in Plan, FromPast(f), NEW s \in DOMAIN f,
           span'[s] # span[s]
    PROVE  span'[s] # f[s].orig /\ span'[s] # f[s].new
<1>1. f[s].orig \in Text /\ f[s].new \in Text /\ s \in Span
  BY PlanEntry
<1>2. f[s].orig.edit \in Nat /\ f[s].new.edit \in Nat /\ edits \in Nat
  BY <1>1, RepairAssumption DEF Text, TypeInv, TypeOK
<1>3. f[s].orig.edit <= edits /\ f[s].new.edit <= edits
  BY DEF FromPast
<1>4. span'[s] \in {Fresh, Absent}
  BY DEF ByThird, TypeInv, TypeOK
<1>5. CASE span'[s] = Absent
  BY <1>1, <1>5, AbsentAssumption
<1>6. CASE span'[s] = Fresh
  <2>1. Fresh.edit = edits + 1
    BY DEF Fresh
  <2> QED BY <1>2, <1>3, <1>6, <2>1
<1> QED BY <1>4, <1>5, <1>6

\* The original and the planned bytes of an entry differ.
LEMMA EntryMoves ==
    ASSUME NEW f \in Plan, FromPast(f), NEW s \in DOMAIN f
    PROVE  f[s].orig # f[s].new
<1>1. f[s].orig.at \in Nat /\ f[s].new.at \in Nat /\ f[s].orig.at < f[s].new.at
  BY PlanEntry, RepairAssumption DEF FromPast, Text
<1> QED BY <1>1

\* The steps that leave the locals and the span files alone, or third parties'.
LEMMA EnvironmentStep ==
    ASSUME \/ \E s \in Span : EditSpan(s)
           \/ EditSource \/ (\E o \in Op : Age(o)) \/ UNCHANGED vars
    PROVE  /\ UNCHANGED <<pc, locals, temp, marker>>
           /\ span' = span \/ (ByThird /\ journal' = journal)
           /\ (EditWindow \/ \A p \in Proc : pc[p] \notin {"rename", "forward", "back"})
                \/ span' = span
<1>1. ASSUME NEW s \in Span, EditSpan(s) PROVE ByThird
  BY <1>1, EditIsThird
<1> QED BY <1>1 DEF EditSpan, EditSource, Age, vars, files, locals

\* Every step keeps what a rollback has restored.
LEMMA RolledBackStep ==
    SafeInv /\ PlansFromPast /\ RolledBack /\ [Next]_vars => RolledBack'
<1> SUFFICES ASSUME SafeInv, TypeInv, FilesOK, ProcOK, PlansFromPast, RolledBack, [Next]_vars,
                    NEW q \in Proc, pc'[q] = "back"
             PROVE  \A s \in DOMAIN plan'[q] \ todo'[q] : span'[s] # plan'[q][s].new
  BY TypeParts DEF SafeInv, RolledBack
<1>p. plan[q] \in Plan /\ FromPast(plan[q])
  BY DEF ProcOK, PlansFromPast
<1>1. CASE UNCHANGED <<pc, locals>> /\ (span' = span \/ ByThird)
  BY <1>1, <1>p, ThirdIsForeign DEF RolledBack, locals
<1>2. ASSUME NEW p \in Proc, p # q, Acts(p)
      PROVE  \A s \in DOMAIN plan'[q] \ todo'[q] : span'[s] # plan'[q][s].new
  <2>1. pc'[q] = pc[q] /\ plan'[q] = plan[q] /\ todo'[q] = todo[q]
    BY <1>2, LocalsOfOthers
  <2>2. span' = span
    BY <1>2, <2>1, Undisturbed DEF ExclusiveLabels
  <2> QED BY <2>1, <2>2 DEF RolledBack
<1>3. CASE Inspect(q)
  <2>1. /\ todo'[q] = {s \in DOMAIN plan[q] : span[s] = plan[q][s].new}
        /\ plan'[q] = plan[q] /\ span' = span
    BY <1>3 DEF Inspect, Goto, Exit, ProcOK, files
  <2> QED BY <2>1
<1>4. CASE RollBack(q)
  <2>1. PICK t \in todo[q] : /\ span' = [span EXCEPT ![t] = plan[q][t].orig]
                             /\ todo' = [todo EXCEPT ![q] = @ \ {t}]
                             /\ UNCHANGED <<pc, plan>>
    BY <1>4 DEF RollBack, Exit, Goto, ProcOK
  <2>2. t \in Span /\ t \in DOMAIN plan[q] /\ pc[q] = "back"
    BY <1>4, LoopEntry DEF RollBack, Looping, ProcOK, LocalsOK
  <2>3. span'[t] = plan[q][t].orig /\ \A s \in Span : s # t => span'[s] = span[s]
    BY <2>1, <2>2 DEF FilesOK
  <2>4. todo'[q] = todo[q] \ {t} /\ DOMAIN plan[q] \subseteq Span
    BY <1>p, <2>1, PlanEntry DEF ProcOK
  <2>5. span'[t] # plan[q][t].new
    BY <1>p, <2>2, <2>3, EntryMoves
  <2> QED BY <2>1, <2>2, <2>3, <2>4, <2>5 DEF RolledBack
<1> QED BY <1>1, <1>2, <1>3, <1>4, NextCases, EnvironmentStep, Arrivals

\* Without edits in the window, what was checked holds until it is written.
LEMMA CheckedStep ==
    SafeInv /\ TempsHold /\ PlansFromPast /\ Checked /\ [Next]_vars => Checked'
<1> SUFFICES ASSUME SafeInv, TypeInv, FilesOK, ProcOK, TempsHold, PlansFromPast, Checked,
                    [Next]_vars, ~EditWindow, NEW q \in Proc
             PROVE  /\ (pc[q] = "rename" =>
                          \A s \in todo[q] : First(todo[q], s) => span[s] = plan[q][s].orig)'
                    /\ (pc[q] = "forward" =>
                          \A s \in todo[q] : span[s] \in {plan[q][s].orig, plan[q][s].new})'
                    /\ (pc[q] = "back" => \A s \in todo[q] : span[s] = plan[q][s].new)'
  BY TypeParts DEF SafeInv, Checked
<1> DEFINE Fit == /\ (pc[q] = "rename" =>
                          \A s \in todo[q] : First(todo[q], s) => span[s] = plan[q][s].orig)'
                  /\ (pc[q] = "forward" =>
                          \A s \in todo[q] : span[s] \in {plan[q][s].orig, plan[q][s].new})'
                  /\ (pc[q] = "back" => \A s \in todo[q] : span[s] = plan[q][s].new)'
<1>1. ASSUME UNCHANGED <<pc, locals>>,
             (\A p \in Proc : pc[p] \notin {"rename", "forward", "back"}) \/ span' = span
      PROVE  Fit
  BY <1>1 DEF Checked, locals, First
<1>2. ASSUME NEW p \in Proc, p # q, Acts(p) PROVE Fit
  <2>1. pc'[q] = pc[q] /\ plan'[q] = plan[q] /\ todo'[q] = todo[q]
    BY <1>2, LocalsOfOthers
  <2>2. CASE pc[q] \in {"rename", "forward", "back"}
    <3>1. span' = span
      BY <1>2, <2>2, Undisturbed DEF ExclusiveLabels
    <3> QED BY <2>1, <3>1 DEF Checked, First
  <2> QED BY <2>1, <2>2
<1>3. ASSUME Acts(q) PROVE Fit
  <2>1. CASE Apply(q) /\ pc'[q] = "rename"
    <3>1. PICK s \in todo[q] : First(todo[q], s) /\ span[s] = plan[q][s].orig
      BY <2>1 DEF Apply, Exit, Goto, ProcOK
    <3>2. UNCHANGED <<span, todo, plan>>
      BY <2>1 DEF Apply, Exit, Goto, ProcOK, files, locals
    <3>3. \A t \in todo[q] : First(todo[q], t) => t = s
      <4>1. todo[q] \subseteq Nat
        BY RepairAssumption DEF ProcOK
      <4>2. ASSUME NEW t \in todo[q], First(todo[q], t) PROVE t = s
        <5>1. s <= t /\ t <= s
          BY <3>1, <4>2 DEF First
        <5> QED BY <4>1, <5>1
      <4> QED BY <4>2
    <3> QED BY <2>1, <3>1, <3>2, <3>3 DEF First
  <2>2. CASE Inspect(q)
    <3>1. CASE pc'[q] = "idle"
      BY <3>1
    <3>2. CASE pc'[q] # "idle"
      <4>1. UNCHANGED <<span, plan>>
        BY <2>2, <3>2 DEF Inspect, Exit, Goto, ProcOK, files
      <4>2. CASE \E s \in DOMAIN plan[q] : Foreign(q, s)
        <5>1. pc'[q] = "back" /\ todo'[q] = {s \in DOMAIN plan[q] : span[s] = plan[q][s].new}
          BY <2>2, <3>2, <4>2 DEF Inspect, Exit, Goto, ProcOK
        <5> QED BY <4>1, <5>1
      <4>3. CASE ~ \E s \in DOMAIN plan[q] : Foreign(q, s)
        <5>1. pc'[q] = "forward" /\ todo'[q] = {s \in DOMAIN plan[q] : span[s] # plan[q][s].new}
          BY <2>2, <3>2, <4>3 DEF Inspect, Exit, Goto, ProcOK
        <5> QED BY <4>1, <4>3, <5>1 DEF Foreign
      <4> QED BY <4>2, <4>3
    <3> QED BY <3>1, <3>2
  <2>3. ASSUME (RollBack(q) /\ Restores(q)) \/ (RollForward(q) /\ Installs(q))
        PROVE  Fit
    <3>1. CASE pc'[q] \in {"back", "forward"}
      <4>1. pc'[q] = pc[q] /\ plan'[q] = plan[q]
        BY <2>3, <3>1 DEF RollBack, RollForward, Restores, Installs, Exit, Goto, ProcOK
      <4>2. PICK t \in todo[q] : /\ todo'[q] = todo[q] \ {t}
                                 /\ \A s \in Span : s # t => span'[s] = span[s]
        BY <2>3 DEF Restores, Installs, FilesOK
      <4>3. todo[q] \subseteq Span
        BY DEF ProcOK
      <4> QED BY <3>1, <4>1, <4>2, <4>3 DEF Checked
    <3>2. CASE pc'[q] \notin {"back", "forward"}
      <4>1. pc'[q] # "rename"
        BY <2>3, Arrivals, <1>3 DEF RollBack, RollForward, Apply, Restores, Installs
      <4> QED BY <3>2, <4>1
    <3> QED BY <3>1, <3>2
  <2>4. CASE RollForward(q) /\ UNCHANGED <<span, edits>>
    <3>1. CASE UNCHANGED <<span, todo, plan>> /\ pc'[q] \in {"forward", "verify"}
      BY <2>4, <3>1 DEF RollForward, Checked
    <3>2. CASE \E s \in todo[q] : /\ todo' = [todo EXCEPT ![q] = @ \ {s}] /\ UNCHANGED <<pc, plan, span>>
      BY <2>4, <3>2 DEF RollForward, Checked, ProcOK
    <3> QED BY <2>4, <3>1, <3>2 DEF RollForward, Goto, ProcOK
  <2>5. CASE RollBack(q) /\ UNCHANGED <<span, edits>>
    <3>1. CASE pc'[q] = "idle"
      BY <3>1
    <3>2. CASE \E s \in todo[q] : /\ todo' = [todo EXCEPT ![q] = @ \ {s}] /\ UNCHANGED <<pc, plan, span>>
      BY <2>5, <3>2 DEF RollBack, Checked, ProcOK
    <3> QED BY <2>5, <3>1, <3>2 DEF RollBack, Goto, Exit, ProcOK
  <2>6. CASE RollForward(q) \/ RollBack(q)
    BY <1>3, <2>3, <2>4, <2>5, <2>6, SpanMoves DEF RollForward, RollBack, Write, Rename
  <2> QED BY <1>3, <2>1, <2>2, <2>6, Arrivals
<1> QED BY <1>1, <1>2, <1>3, NextCases, EnvironmentStep

-----------------------------------------------------------------------------
(* The write-ahead rule.                                                   *)

\* A marker whose plan the journal of its operation does not confirm.
Unconfirmed == marker # None /\ (journal[marker.op] = None \/ journal[marker.op].plan # marker.plan)

\* Every step keeps the write-ahead rule.
LEMMA WriteAheadStep ==
    SafeInv /\ RolesKnown /\ JournalKnown /\ TempsHold /\ PlansFromPast /\ WriteAheadKnown
       /\ [Next]_vars => WriteAheadKnown'
<1> SUFFICES ASSUME SafeInv, TypeInv, FilesOK, ProcOK, RolesKnown, JournalKnown, TempsHold,
                    PlansFromPast, WriteAheadKnown, [Next]_vars
             PROVE  WriteAheadKnown'
  BY TypeParts DEF SafeInv
<1>1. ASSUME NEW q \in Proc, pc'[q] \in {"temps", "mark"} PROVE Unwritten(plan[q])'
  <2> SUFFICES \A s \in DOMAIN plan'[q] : span'[s] # plan'[q][s].new
    BY DEF Unwritten
  <2>p. plan[q] \in Plan /\ FromPast(plan[q])
    BY DEF ProcOK, PlansFromPast
  <2>1. CASE UNCHANGED <<pc, locals>> /\ (span' = span \/ ByThird)
    BY <1>1, <2>1, <2>p, ThirdIsForeign DEF WriteAheadKnown, Unwritten, locals
  <2>2. ASSUME NEW p \in Proc, p # q, Acts(p)
        PROVE  \A s \in DOMAIN plan'[q] : span'[s] # plan'[q][s].new
    <3>1. pc'[q] = pc[q] /\ plan'[q] = plan[q]
      BY <2>2, LocalsOfOthers
    <3>2. span' = span
      BY <1>1, <2>2, <3>1, Undisturbed DEF ExclusiveLabels
    <3> QED BY <1>1, <3>1, <3>2 DEF WriteAheadKnown, Unwritten
  <2>3. CASE PlanRepair(q)
    <3>1. span' = span
      BY <2>3 DEF PlanRepair, files
    <3>2. ASSUME NEW s \in DOMAIN plan'[q] PROVE span[s] # plan'[q][s].new
      <4>1. plan'[q][s].new.at = src /\ Repairable(s)
        BY <2>3, <3>2, Planned
      <4> QED BY <4>1 DEF Repairable
    <3> QED BY <3>1, <3>2
  <2>4. CASE Temps(q)
    <3>1. UNCHANGED <<span, plan>> /\ pc[q] = "temps"
      BY <2>4 DEF Temps
    <3> QED BY <3>1 DEF WriteAheadKnown, Unwritten
  <2> QED BY <1>1, <2>1, <2>2, <2>3, <2>4, NextCases, EnvironmentStep, Arrivals
<1>2. ASSUME Unconfirmed' PROVE Unwritten(marker.plan)'
  <2> SUFFICES \A s \in DOMAIN marker'.plan : span'[s] # marker'.plan[s].new
    BY DEF Unwritten
  <2>1. ASSUME Unconfirmed, marker' = marker, span' = span \/ ByThird
        PROVE  \A s \in DOMAIN marker'.plan : span'[s] # marker'.plan[s].new
    <3>1. marker.plan \in Plan /\ FromPast(marker.plan)
      BY <2>1, MarkerParts DEF Unconfirmed, FilesOK, PlansFromPast
    <3> QED BY <2>1, <3>1, ThirdIsForeign DEF WriteAheadKnown, Unwritten, Unconfirmed
  <2>2. ASSUME NEW p \in Proc, Acts(p)
        PROVE  \A s \in DOMAIN marker'.plan : span'[s] # marker'.plan[s].new
    <3>1. CASE MarkPending(p) /\ pc[p] = "mark" /\ marker' = [op |-> cur[p], plan |-> plan[p]]
      <4>1. span' = span /\ marker'.plan = plan[p]
        BY <3>1 DEF MarkPending
      <4> QED BY <3>1, <4>1 DEF WriteAheadKnown, Unwritten
    <3>2. CASE marker' = marker
      <4>0. marker # None /\ marker.op \in Op
        BY <1>2, <3>2, MarkerParts DEF Unconfirmed, FilesOK
      <4> DEFINE o == marker.op
      <4>1. CASE Unconfirmed
        <5>1. ~Restores(p) /\ ~Installs(p)
          <6>1. SUFFICES pc[p] \notin {"back", "forward", "rename"}
            BY DEF Restores, Installs
          <6>2. pc[p] \in {"back", "forward", "rename"} =>
                   Journaled(cur[p], "prepared") /\ cur[p] \in Op
            BY DEF JournalKnown, Executing, ProcOK, LocalsOK, WithOp, WithResponse
          <6>3. pc[p] \in {"back", "forward", "rename"} =>
                   marker.op = cur[p] /\ marker.plan = journal[cur[p]].plan
                   /\ journal[cur[p]] # None
            BY <6>2 DEF SafeInv, MarkerNamesPrepared, Journaled
          <6> QED BY <4>1, <6>3 DEF Unconfirmed
        <5>2. span' = span \/ ByThird
          BY <2>2, <5>1, SpanMoves
        <5> QED BY <2>1, <3>2, <4>1, <5>2
      <4>2. CASE ~Unconfirmed
        \* The marker was confirmed: only an expiring journal stops doing so.
        <5>1. journal[o] # None /\ journal[o].plan = marker.plan
          BY <4>0, <4>2 DEF Unconfirmed
        <5>2. journal'[o] = None \/ journal'[o].plan # marker.plan
          BY <1>2, <3>2 DEF Unconfirmed
        <5>3. CASE Dropped(o)
          <6>1. Journaled(o, "delivered")
            BY <5>1, <5>3 DEF Dropped, Expired, Journaled
          <6>2. DOMAIN marker.plan = {}
            BY <4>0, <5>1, <6>1 DEF WriteAheadKnown
          <6> QED BY <3>2, <6>2
        <5>4. CASE Delivered(o, p)
          <6>1. journal[o] \in Journal
            BY <4>0, <5>1, IsJournal
          <6>2. journal'[o].plan = journal[o].plan /\ journal'[o] # None
            BY <5>4, <6>1, JournalFields DEF Delivered
          <6> QED BY <5>1, <5>2, <6>2
        <5>5. CASE Committed(o, p)
          <6>1. plan[p] \in Plan /\ resp[p] \in Response
            BY <5>5, CarriedResponse DEF Committed, Commit, WithResponse, ProcOK
          <6>2. journal'[o] # None /\ journal'[o].plan = journal[o].plan
            BY <5>5, <6>1, NewJournal DEF Committed
          <6> QED BY <5>1, <5>2, <6>2
        <5>6. journal'[o] # journal[o] /\ ~Written(o, p)
          BY <5>1, <5>2 DEF Written
        <5> QED BY <2>2, <4>0, <5>3, <5>4, <5>5, <5>6, JournalMoves
      <4> QED BY <4>1, <4>2
    <3> QED BY <1>2, <2>2, <3>1, <3>2, MarkerMoves DEF Unconfirmed
  <2>3. ASSUME NEW a \in Op, Age(a)
        PROVE  \A s \in DOMAIN marker'.plan : span'[s] # marker'.plan[s].new
    <3>1. marker' = marker /\ span' = span
      BY <2>3 DEF Age
    <3>2. marker # None /\ marker.op \in Op
      BY <1>2, <3>1, MarkerParts DEF Unconfirmed, FilesOK
    <3>3. CASE marker.op = a
      <4>1. journal[a] \in Journal
        BY <2>3, IsJournal DEF Age, Journaled
      <4>a. journal'[a] = [journal[a] EXCEPT !.old = TRUE]
        BY <2>3, AgeStep
      <4>2. journal'[a] # None /\ journal'[a].plan = journal[a].plan
        BY <4>1, <4>a, JournalFields
      <4>3. Unconfirmed
        BY <1>2, <3>1, <3>2, <3>3, <4>2 DEF Unconfirmed
      <4> QED BY <2>1, <3>1, <4>3
    <3>4. CASE marker.op # a
      BY <1>2, <2>1, <2>3, <3>1, <3>2, <3>4, AgeStep DEF Unconfirmed
    <3> QED BY <3>3, <3>4
  <2>4. ASSUME (\E s \in Span : EditSpan(s)) \/ EditSource \/ UNCHANGED vars
        PROVE  /\ marker' = marker /\ journal' = journal
               /\ span' = span \/ ByThird
    BY <2>4, EnvironmentStep DEF EditSource, EditSpan, vars, files
  <2> QED BY <1>2, <2>1, <2>2, <2>3, <2>4, NextCases DEF Unconfirmed
<1>3. ASSUME NEW o \in Op, marker' # None, marker'.op = o, DOMAIN marker'.plan # {},
             \/ Journaled(o, "delivered")'
             \/ \E q \in Proc : pc'[q] = "reply" /\ cur'[q] = o
      PROVE  journal'[o] # None /\ journal'[o].plan # marker'.plan
  <2>1. ASSUME NEW p \in Proc, Acts(p)
        PROVE  journal'[o] # None /\ journal'[o].plan # marker'.plan
    \* The answer was under way before this step, or is now, for an empty plan.
    <3> DEFINE Answering == \/ Journaled(o, "delivered")
                            \/ \E q \in Proc : pc[q] = "reply" /\ cur[q] = o
    <3>1. CASE Answering /\ marker' = marker
      <4>1. journal[o] # None /\ journal[o].plan # marker.plan
        BY <1>3, <3>1 DEF WriteAheadKnown
      <4>2. journal[o] \in Journal
        BY <4>1, IsJournal
      <4>3. ~Journaled(o, "prepared")
        BY <3>1, <4>1 DEF Journaled, JournalKnown, RolesKnown, Answerable
      <4>4. CASE Dropped(o)
        <5>1. journal'[o] = None /\ journal[o].old /\ Expired(journal[o])
          BY <4>4 DEF Dropped, Expired
        <5>2. ASSUME NEW q \in Proc, pc'[q] = "reply", cur'[q] = o PROVE FALSE
          <6>1. CASE q = p
            <7>1. ~Open(p)
              BY <5>2, <6>1, Arrivals DEF Open, Goto, ProcOK
            <7>2. CASE SettleNothing(p) \/ Clear(p)
              BY <7>2, <4>1, <5>1 DEF SettleNothing, Clear, files
            <7>3. CASE Temps(p)
              <8>1. cur[p] = o /\ journal[cur[p]] = None
                BY <5>2, <6>1, <7>3 DEF Temps, JournalKnown, Unjournaled
              <8> QED BY <4>1, <8>1
            <7> QED BY <2>1, <5>2, <6>1, <7>2, <7>3, Arrivals
          <6>2. CASE q # p
            <7>1. pc[q] = "reply" /\ cur[q] = o
              BY <2>1, <5>2, <6>2, LocalsOfOthers
            <7> QED BY <5>1, <7>1 DEF JournalKnown, RolesKnown
          <6> QED BY <6>1, <6>2
        <5> QED BY <1>3, <5>1, <5>2 DEF Journaled
      <4>5. CASE Delivered(o, p)
        BY <3>1, <4>1, <4>2, <4>5, JournalFields DEF Delivered
      <4> QED BY <2>1, <3>1, <4>1, <4>3, <4>4, <4>5, JournalMoves DEF Written, Committed
    <3>2. CASE marker' = marker /\ ~Answering
      <4>1. CASE Temps(p) /\ pc'[p] = "reply" /\ cur[p] = o
        <5>1. /\ plan[p] = EmptyMap /\ plan[p] \in Plan /\ resp[p] \in Response
              /\ journal' = [journal EXCEPT ![cur[p]] =
                   [state |-> "committed", plan |-> plan[p], resp |-> resp[p], old |-> FALSE]]
          BY <4>1, CarriedResponse DEF Temps, WithResponse, Goto, ProcOK
        <5>2. journal'[o] # None /\ journal'[o].plan = EmptyMap
          BY <4>1, <5>1, NewJournal DEF FilesOK
        <5> QED BY <1>3, <5>2, EmptyPlan
      <4>2. CASE Clear(p) /\ pc'[p] = "reply" /\ cur[p] = o
        BY <1>3, <3>2, <4>2 DEF Clear
      <4>3. ASSUME NEW q \in Proc, pc'[q] = "reply", cur'[q] = o
            PROVE  (Temps(p) \/ Clear(p)) /\ pc'[p] = "reply" /\ cur[p] = o
        <5>1. q = p
          BY <2>1, <3>2, <4>3, LocalsOfOthers
        <5>2. ~SettleNothing(p)
          BY <4>3, <5>1 DEF SettleNothing, Settled, RolesKnown, Goto, ProcOK
        <5>3. Temps(p) \/ Clear(p)
          BY <2>1, <4>3, <5>1, <5>2, Arrivals
        <5>4. cur' = cur
          BY <5>3 DEF Temps, Clear, locals
        <5> QED BY <4>3, <5>1, <5>3, <5>4
      <4>4. ASSUME Journaled(o, "delivered")' PROVE FALSE
        <5>1. ~Delivered(o, p)
          BY <3>2 DEF Delivered
        <5>2. journal'[o] # None /\ journal'[o].state = "delivered"
          BY <4>4 DEF Journaled
        <5>3. ~Written(o, p)
          BY <5>2 DEF Written
        <5>4. ~Committed(o, p) /\ ~Dropped(o)
          BY <5>2 DEF Committed, Dropped
        <5>5. journal'[o] # journal[o]
          BY <3>2, <5>2 DEF Journaled
        <5> QED BY <2>1, <5>1, <5>3, <5>4, <5>5, JournalMoves
      <4> QED BY <1>3, <4>1, <4>2, <4>3, <4>4
    <3>3. CASE MarkPending(p) /\ pc[p] = "mark" /\ marker' = [op |-> cur[p], plan |-> plan[p]]
                /\ marker # marker'
      <4>1. journal[o] = None /\ journal' = journal
        BY <1>3, <3>3 DEF MarkPending, JournalKnown, Unjournaled
      <4>2. PICK q \in Proc : pc'[q] = "reply" /\ cur'[q] = o
        BY <1>3, <4>1 DEF Journaled
      <4>3. q # p
        BY <3>3, <4>2, <2>1, Arrivals DEF MarkPending, SettleNothing, Clear, Temps
      <4>4. pc[q] = "reply" /\ cur[q] = o
        BY <2>1, <4>2, <4>3, LocalsOfOthers
      <4> QED BY <4>1, <4>4 DEF JournalKnown, RolesKnown, Answerable, Journaled
    <3> QED BY <1>3, <2>1, <3>1, <3>2, <3>3, MarkerMoves
  <2>2. ASSUME NEW a \in Op, Age(a)
        PROVE  journal'[o] # None /\ journal'[o].plan # marker'.plan
    <3>1. marker' = marker /\ UNCHANGED <<pc, locals>>
      BY <2>2 DEF Age
    <3>2. CASE o = a
      <4>1. journal[o] \in Journal /\ Journaled(o, "delivered")
        BY <2>2, <3>2, IsJournal DEF Age, Journaled
      <4>a. journal'[o] = [journal[o] EXCEPT !.old = TRUE]
        BY <2>2, <3>2, AgeStep
      <4>2. journal'[o] # None /\ journal'[o].plan = journal[o].plan
        BY <4>1, <4>a, JournalFields
      <4>3. journal[o].plan # marker.plan
        BY <1>3, <3>1, <4>1 DEF WriteAheadKnown
      <4> QED BY <3>1, <4>2, <4>3
    <3>3. CASE o # a
      <4>1. journal'[o] = journal[o]
        BY <2>2, <3>3, AgeStep
      <4> QED BY <1>3, <3>1, <4>1 DEF WriteAheadKnown, Journaled, locals
    <3> QED BY <3>2, <3>3
  <2>3. ASSUME (\E s \in Span : EditSpan(s)) \/ EditSource \/ UNCHANGED vars
        PROVE  UNCHANGED <<pc, locals, marker, journal>>
    BY <2>3 DEF EditSpan, EditSource, vars, files
  <2> QED BY <1>3, <2>1, <2>2, <2>3, NextCases DEF WriteAheadKnown, Journaled, locals
<1> QED BY <1>1, <1>2, <1>3 DEF WriteAheadKnown, Unconfirmed

-----------------------------------------------------------------------------
(* Completeness of commits.                                                *)

\* What a step of a process that commits nothing leaves apart.
LEMMA ApartKept ==
    ASSUME SafeInv, JournalKnown, NEW f, Apart(f), NEW p \in Proc, Acts(p),
           \A o \in Op : ~Committed(o, p)
    PROVE  Apart(f)'
<1> SUFFICES ASSUME NEW o \in Op, Answerable(o)', NEW s \in DOMAIN f \cap DOMAIN journal'[o].plan
             PROVE  /\ f[s].orig # journal'[o].plan[s].orig
                    /\ f[s].new # journal'[o].plan[s].orig
  BY DEF Apart
<1>1. journal'[o] # None /\ journal'[o].state # "prepared"
  BY DEF Answerable, Journaled
<1>2. CASE journal'[o] = journal[o]
  BY <1>2 DEF Apart, Answerable, Journaled
<1>3. CASE Delivered(o, p)
  <2>1. journal[o] \in Journal
    BY <1>3, IsJournal DEF Delivered, Answerable, Journaled, SafeInv
  <2>2. Answerable(o) /\ journal'[o].plan = journal[o].plan
    BY <1>3, <2>1, JournalFields DEF Delivered
  <2> QED BY <2>2 DEF Apart
<1>4. CASE Written(o, p)
  <2>1. journal'[o].plan = EmptyMap
    BY <1>1, <1>4 DEF Written
  <2> QED BY <2>1, EmptyPlan
<1>5. ~Dropped(o)
  BY <1>1 DEF Dropped
<1> QED BY <1>2, <1>3, <1>4, <1>5, JournalMoves

\* No step of the environment answers a repair.
LEMMA EnvironmentJournals ==
    ASSUME TypeInv, NEW o \in Op,
           \/ \E s \in Span : EditSpan(s)
           \/ EditSource \/ (\E a \in Op : Age(a)) \/ UNCHANGED vars
    PROVE  /\ journal'[o] # None <=> journal[o] # None
           /\ journal[o] # None => journal'[o].state = journal[o].state
                                   /\ journal'[o].plan = journal[o].plan
<1>1. ASSUME NEW a \in Op, Age(a), o = a
      PROVE  /\ journal[o] # None /\ journal'[o] # None
             /\ journal'[o].state = journal[o].state /\ journal'[o].plan = journal[o].plan
  <2>1. journal[o] # None /\ journal'[o] = [journal[o] EXCEPT !.old = TRUE]
    BY <1>1, AgeStep DEF Journaled
  <2>2. journal[o] \in Journal
    BY <2>1, IsJournal
  <2> QED BY <2>1, <2>2, JournalFields
<1>2. ASSUME NEW a \in Op, Age(a), o # a PROVE journal'[o] = journal[o]
  BY <1>2, AgeStep
<1>3. ASSUME (\E s \in Span : EditSpan(s)) \/ EditSource \/ UNCHANGED vars PROVE journal' = journal
  BY <1>3 DEF EditSpan, EditSource, vars, files
<1> QED BY <1>1, <1>2, <1>3

\* Every step keeps the commits complete, and the plans apart from them.
LEMMA CompleteStep ==
    SafeInv /\ JournalKnown /\ TempsHold /\ PlansFromPast /\ ResponsesShow /\ CompleteKnown
       /\ [Next]_vars => CompleteKnown'
<1> SUFFICES ASSUME SafeInv, TypeInv, FilesOK, ProcOK, JournalKnown, TempsHold, PlansFromPast,
                    ResponsesShow, CompleteKnown, [Next]_vars
             PROVE  CompleteKnown'
  BY TypeParts DEF SafeInv
<1> DEFINE Around == \/ \E s \in Span : EditSpan(s)
                     \/ EditSource \/ (\E a \in Op : Age(a)) \/ UNCHANGED vars
<1>c. \A o \in Op : Answerable(o) =>
         \A s \in DOMAIN journal[o].plan : span[s] # journal[o].plan[s].orig
  BY DEF CompleteKnown, CommittedIsComplete, Answerable
<1>j. \A o \in Op : journal[o] # None =>
         journal[o].plan \in Plan /\ FromPast(journal[o].plan)
  BY IsJournal, JournalParts DEF PlansFromPast
<1>l. \A p \in Proc : plan[p] \in Plan /\ FromPast(plan[p])
  BY DEF ProcOK, PlansFromPast
<1>1. ASSUME NEW o \in Op, Answerable(o)', NEW s \in DOMAIN journal'[o].plan
      PROVE  span'[s] # journal'[o].plan[s].orig
  <2>1. ASSUME Answerable(o), journal'[o].plan = journal[o].plan, span'[s] = span[s] \/ ByThird
        PROVE  span'[s] # journal'[o].plan[s].orig
    <3>1. journal[o] # None
      BY <2>1 DEF Answerable, Journaled
    <3>2. CASE span'[s] = span[s]
      BY <1>1, <1>c, <2>1, <3>2
    <3>3. CASE ByThird /\ span'[s] # span[s]
      BY <1>1, <1>j, <2>1, <3>1, <3>3, ThirdIsForeign
    <3> QED BY <2>1, <3>2, <3>3
  <2>2. ASSUME Around PROVE span'[s] # journal'[o].plan[s].orig
    <3>1. Answerable(o) /\ journal'[o].plan = journal[o].plan
      BY <1>1, <2>2, EnvironmentJournals DEF Answerable, Journaled
    <3> QED BY <2>1, <2>2, <3>1, EnvironmentStep
  <2>3. ASSUME NEW p \in Proc, Acts(p) PROVE span'[s] # journal'[o].plan[s].orig
    <3>1. CASE Answerable(o) /\ journal'[o].plan = journal[o].plan
      <4>1. ASSUME Restores(p) \/ Installs(p), span'[s] # span[s]
            PROVE  span'[s] # journal'[o].plan[s].orig
        <5>1. /\ Journaled(cur[p], "prepared") /\ cur[p] \in Op
              /\ journal[cur[p]].plan = plan[p]
          BY <4>1 DEF Restores, Installs, JournalKnown, Executing, ProcOK, LocalsOK, WithOp,
             WithResponse
        <5>2. Apart(plan[p])
          BY <5>1 DEF CompleteKnown
        <5>3. PICK t \in todo[p] : span' = [span EXCEPT ![t] = plan[p][t].orig]
                                   \/ span' = [span EXCEPT ![t] = plan[p][t].new]
          BY <4>1 DEF Restores, Installs
        <5>0. s \in Span
          BY <1>1, <1>j, <3>1, PlanEntry DEF Answerable, Journaled
        <5>4. s = t /\ span'[s] \in {plan[p][s].orig, plan[p][s].new}
          BY <4>1, <5>0, <5>3 DEF FilesOK
        <5>5. s \in DOMAIN plan[p]
          BY <4>1, <5>4 DEF Restores, Installs, ProcOK, LocalsOK, Looping
        <5> QED BY <1>1, <3>1, <5>2, <5>4, <5>5 DEF Apart
      <4> QED BY <2>1, <2>3, <3>1, <4>1, SpanMoves
    <3>2. CASE Delivered(o, p)
      <4>1. Answerable(o) /\ journal[o] \in Journal
        BY <3>2, IsJournal DEF Delivered, Answerable, Journaled
      <4>2. journal'[o].plan = journal[o].plan
        BY <3>2, <4>1, JournalFields DEF Delivered
      <4> QED BY <3>1, <4>1, <4>2
    <3>3. CASE Committed(o, p)
      <4>1. span' = span /\ pc[p] = "commit"
        BY <3>3 DEF Committed, Commit
      <4>2. journal'[o].plan = plan[p]
        BY <3>3 DEF Committed
      <4> QED BY <1>1, <4>1, <4>2 DEF CompleteKnown
    <3>4. CASE Written(o, p)
      <4>1. journal'[o].plan = EmptyMap
        BY <1>1, <3>4 DEF Written, Answerable, Journaled
      <4> QED BY <1>1, <4>1, EmptyPlan
    <3>5. CASE journal'[o] = journal[o]
      BY <1>1, <3>1, <3>5 DEF Answerable, Journaled
    <3>6. ~Dropped(o)
      BY <1>1 DEF Dropped, Answerable, Journaled
    <3> QED BY <2>3, <3>2, <3>3, <3>4, <3>5, <3>6, JournalMoves
  <2> QED BY <2>2, <2>3, NextCases
<1>2. ASSUME NEW q \in Proc, pc'[q] = "commit", NEW s \in DOMAIN plan'[q]
      PROVE  span'[s] # plan'[q][s].orig
  <2>1. ASSUME pc'[q] = pc[q], plan'[q] = plan[q], span' = span \/ ByThird
        PROVE  span'[s] # plan'[q][s].orig
    <3>1. span[s] # plan[q][s].orig
      BY <1>2, <2>1 DEF CompleteKnown
    <3>2. CASE span'[s] = span[s]
      BY <2>1, <3>1, <3>2
    <3>3. CASE ByThird /\ span'[s] # span[s]
      BY <1>2, <1>l, <2>1, <3>3, ThirdIsForeign
    <3> QED BY <2>1, <3>2, <3>3
  <2>2. ASSUME Around PROVE span'[s] # plan'[q][s].orig
    BY <2>1, <2>2, EnvironmentStep DEF locals
  <2>3. ASSUME NEW p \in Proc, p # q, Acts(p) PROVE span'[s] # plan'[q][s].orig
    <3>1. pc'[q] = pc[q] /\ plan'[q] = plan[q]
      BY <2>3, LocalsOfOthers
    <3>2. span' = span
      BY <1>2, <2>3, <3>1, Undisturbed DEF ExclusiveLabels
    <3> QED BY <2>1, <3>1, <3>2
  <2>4. CASE Verify(q)
    <3>1. resp[q] = Snapshot(cur[q], span) /\ plan'[q] = plan[q] /\ span' = span
      BY <1>2, <2>4 DEF Verify, Exit, Goto, ProcOK, locals, files
    <3>2. cur[q] \in Op /\ Shows(cur[q], plan[q], resp[q])
      BY <2>4, CarriedResponse DEF Verify, WithResponse, ResponsesShow
    <3>3. s \in Selected[cur[q]] /\ resp[q].spans[s] = plan[q][s].new
      BY <1>2, <3>1, <3>2 DEF Shows
    <3>4. resp[q].spans[s] = span[s]
      BY <3>1, <3>3 DEF Snapshot
    <3> QED BY <1>2, <1>l, <3>1, <3>3, <3>4, EntryMoves
  <2>5. CASE SettleJournaled(q) \/ Open(q)
    <3>1. plan'[q] = EmptyMap
      BY <1>2, <2>5 DEF SettleJournaled, Open, Adopt, Exit, Goto, ProcOK
    <3> QED BY <1>2, <3>1, EmptyPlan
  <2> QED BY <1>2, <2>2, <2>3, <2>4, <2>5, NextCases, Arrivals
<1>a. ASSUME NEW f, Apart(f), Around PROVE Apart(f)'
  BY <1>a, EnvironmentJournals DEF Apart, Answerable, Journaled
<1>3. ASSUME NEW q \in Proc, pc'[q] \in {"temps", "mark", "prepare"} PROVE Apart(plan[q])'
  <2>1. ASSUME NEW f, f = plan'[q], Apart(f)' PROVE Apart(plan[q])'
    BY <2>1 DEF Apart
  <2>2. ASSUME Around PROVE Apart(plan[q])'
    <3>1. pc'[q] = pc[q] /\ plan'[q] = plan[q]
      BY <2>2, EnvironmentStep DEF locals
    <3> QED BY <1>3, <1>a, <2>1, <2>2, <3>1 DEF CompleteKnown
  <2>3. ASSUME NEW p \in Proc, p # q, Acts(p) PROVE Apart(plan[q])'
    <3>1. pc'[q] = pc[q] /\ plan'[q] = plan[q]
      BY <2>3, LocalsOfOthers
    <3>2. pc[p] \notin ExclusiveLabels
      BY <1>3, <2>3, <3>1 DEF SafeInv, DomainExclusion, GuardHeld, ExclusiveLabels
    <3>3. \A o \in Op : ~Committed(o, p)
      BY <3>2 DEF Committed, Commit, ExclusiveLabels
    <3> QED BY <1>3, <2>1, <2>3, <3>1, <3>3, ApartKept DEF CompleteKnown
  <2>4. CASE PlanRepair(q)
    <3> SUFFICES ASSUME NEW o \in Op, Answerable(o)',
                        NEW s \in DOMAIN plan'[q] \cap DOMAIN journal'[o].plan
                 PROVE  /\ plan'[q][s].orig # journal'[o].plan[s].orig
                        /\ plan'[q][s].new # journal'[o].plan[s].orig
      BY DEF Apart
    <3>1. journal' = journal
      BY <2>4 DEF PlanRepair, files
    <3>2. Answerable(o) /\ journal[o] # None /\ s \in DOMAIN journal[o].plan
      BY <3>1 DEF Answerable, Journaled
    <3>3. plan'[q][s].orig = span[s] /\ plan'[q][s].new.at = src
      BY <2>4, Planned
    <3>4. span[s] # journal[o].plan[s].orig
      BY <1>c, <3>2
    <3>5. journal[o].plan[s].orig.at < journal[o].plan[s].new.at
          /\ journal[o].plan[s].new.at <= src
          /\ journal[o].plan[s].orig.at \in Nat /\ journal[o].plan[s].new.at \in Nat /\ src \in Nat
      BY <1>j, <3>2, PlanEntry, RepairAssumption DEF FromPast, Text, FilesOK
    <3>6. journal[o].plan[s].orig.at # src
      BY <3>5
    <3> QED BY <3>1, <3>3, <3>4, <3>6
  <2>5. CASE Temps(q) \/ MarkPending(q)
    <3>1. pc[q] \in {"temps", "mark"} /\ plan'[q] = plan[q] /\ journal' = journal
      BY <1>3, <2>5 DEF Temps, MarkPending, Exit, Goto, ProcOK, locals
    <3> QED BY <3>1 DEF CompleteKnown, Apart, Answerable, Journaled
  <2> QED BY <1>3, <2>2, <2>3, <2>4, <2>5, NextCases, Arrivals
<1>4. ASSUME NEW o \in Op, Journaled(o, "prepared")' PROVE Apart(journal[o].plan)'
  <2>1. ASSUME NEW f, f = journal'[o].plan, Apart(f)' PROVE Apart(journal[o].plan)'
    BY <2>1 DEF Apart
  <2>2. ASSUME Around PROVE Apart(journal[o].plan)'
    <3>1. Journaled(o, "prepared") /\ journal'[o].plan = journal[o].plan
      BY <1>4, <2>2, EnvironmentJournals DEF Journaled
    <3> QED BY <1>a, <2>1, <2>2, <3>1 DEF CompleteKnown
  <2>3. ASSUME NEW p \in Proc, Acts(p) PROVE Apart(journal[o].plan)'
    <3>0. journal'[o] # None /\ journal'[o].state = "prepared"
      BY <1>4 DEF Journaled
    <3>1. CASE Written(o, p)
      <4>1. Prepare(p) /\ journal'[o].plan = plan[p]
        BY <3>0, <3>1 DEF Written
      <4>2. \A u \in Op : ~Committed(u, p)
        BY <4>1 DEF Prepare, Committed, Commit
      <4>3. Apart(plan[p])
        BY <4>1 DEF Prepare, CompleteKnown
      <4> QED BY <2>1, <2>3, <4>1, <4>2, <4>3, ApartKept
    <3>2. CASE journal'[o] = journal[o]
      <4>1. Journaled(o, "prepared")
        BY <3>0, <3>2 DEF Journaled
      <4>2. ASSUME NEW u \in Op, Committed(u, p) PROVE FALSE
        <5>1. u = o
          BY <4>1, <4>2 DEF Committed, SafeInv, MarkerNamesPrepared
        <5>2. journal'[o].state = "committed"
          BY <4>2, <5>1 DEF Committed
        <5> QED BY <3>0, <5>2
      <4>3. Apart(journal[o].plan)
        BY <4>1 DEF CompleteKnown
      <4> QED BY <2>1, <2>3, <3>2, <4>2, <4>3, ApartKept
    <3>3. ~Committed(o, p) /\ ~Dropped(o)
      BY <3>0 DEF Committed, Dropped
    <3>4. ~Delivered(o, p)
      <4>1. ASSUME Delivered(o, p) PROVE journal'[o].state = "delivered"
        BY <4>1, IsJournal, JournalFields DEF Delivered, Answerable, Journaled
      <4> QED BY <3>0, <4>1
    <3> QED BY <2>3, <3>1, <3>2, <3>3, <3>4, JournalMoves
  <2> QED BY <2>2, <2>3, NextCases
<1>5. CommittedIsComplete'
  BY <1>1 DEF CommittedIsComplete, Answerable
<1> QED BY <1>2, <1>3, <1>4, <1>5 DEF CompleteKnown

-----------------------------------------------------------------------------
(* What readers have seen.                                                 *)

\* How the view of a reader changes.
LEMMA SeenMoves ==
    ASSUME ProcOK, NEW p \in Proc, Acts(p)
    PROVE  \/ seen'[p] = EmptyMap /\ pc'[p] = "idle"
           \/ seen'[p] = seen[p] /\ pc[p] # "read"
           \/ /\ Read(p) /\ pc'[p] = "read" /\ journal' = journal
              /\ \E s \in todo[p] :
                   seen'[p] = [t \in DOMAIN seen[p] \cup {s} |-> IF t = s THEN span[s] ELSE seen[p][t]]
<1> USE DEF ProcOK, Goto, locals
<1>1. CASE Exit(p)
  BY <1>1 DEF Exit, Clean
<1>2. CASE Start(p)
  BY <1>2 DEF Start, BeginReader, BeginWriter, BeginRepair, Begin
<1>3. CASE Read(p)
  BY <1>1, <1>3 DEF Read, files
<1>4. CASE Acquire(p) \/ EnterClean(p) \/ EnterPending(p) \/ Reacquire(p)
             \/ SettleNothing(p) \/ SettleUnjournaled(p) \/ SettleJournaled(p)
  BY <1>1, <1>4 DEF Acquire, EnterClean, EnterPending, Reacquire, SettleNothing,
     SettleUnjournaled, SettleJournaled, Adopt
<1>5. CASE Abort(p) \/ Inspect(p) \/ RollBack(p) \/ RollForward(p)
             \/ Verify(p) \/ Commit(p) \/ Clear(p)
  BY <1>1, <1>5 DEF Abort, Inspect, RollBack, RollForward, Verify, Commit, Clear
<1>6. CASE DowngradeReader(p) \/ Rejoin(p) \/ Write(p) \/ Open(p) \/ Replay(p)
  BY <1>1, <1>6 DEF DowngradeReader, Rejoin, Write, Open, Replay
<1>7. CASE PlanRepair(p)
  BY <1>7 DEF PlanRepair
<1>8. CASE Temps(p) \/ MarkPending(p)
             \/ Prepare(p) \/ Apply(p) \/ Rename(p) \/ Acknowledge(p)
  BY <1>1, <1>8 DEF Temps, MarkPending, Prepare, Apply, Rename, Acknowledge
<1> QED BY <1>1, <1>2, <1>3, <1>4, <1>5, <1>6, <1>7, <1>8
        DEF Acts, Step, LockTimeout, Crash

\* Every step keeps readers from seeing what an answered repair replaced.
LEMMA SeenStep ==
    SafeInv /\ JournalKnown /\ CompleteKnown /\ SeenKnown /\ [Next]_vars => SeenKnown'
<1> SUFFICES ASSUME SafeInv, TypeInv, FilesOK, ProcOK, JournalKnown, CompleteKnown, SeenKnown,
                    [Next]_vars, NEW q \in Proc
             PROVE  /\ pc'[q] # "read" => DOMAIN seen'[q] = {}
                    /\ AtomicDowngrade => \A o \in Op : journal'[o] # None =>
                         \A s \in DOMAIN seen'[q] \cap DOMAIN journal'[o].plan :
                            seen'[q][s] # journal'[o].plan[s].orig
  BY TypeParts DEF SafeInv, SeenKnown
<1> DEFINE Around == \/ \E s \in Span : EditSpan(s)
                     \/ EditSource \/ (\E a \in Op : Age(a)) \/ UNCHANGED vars
<1>a. ASSUME Around PROVE pc' = pc /\ seen' = seen
  BY <1>a, EnvironmentStep DEF locals
<1>1. pc'[q] # "read" => DOMAIN seen'[q] = {}
  <2>1. ASSUME Acts(q), pc'[q] # "read" PROVE DOMAIN seen'[q] = {}
    BY <2>1, SeenMoves, EmptyPlan DEF SeenKnown
  <2>2. ASSUME pc'[q] = pc[q], seen'[q] = seen[q] PROVE pc'[q] # "read" => DOMAIN seen'[q] = {}
    BY <2>2 DEF SeenKnown
  <2> QED BY <1>a, <2>1, <2>2, NextCases, LocalsOfOthers
<1>2. ASSUME AtomicDowngrade, NEW o \in Op, journal'[o] # None,
             NEW s \in DOMAIN seen'[q] \cap DOMAIN journal'[o].plan
      PROVE  seen'[q][s] # journal'[o].plan[s].orig
  <2>1. ASSUME seen'[q] = seen[q], journal[o] # None, journal'[o].plan = journal[o].plan
        PROVE  seen'[q][s] # journal'[o].plan[s].orig
    BY <1>2, <2>1 DEF SeenKnown
  <2>2. ASSUME Around PROVE seen'[q][s] # journal'[o].plan[s].orig
    BY <1>2, <1>a, <2>1, <2>2, EnvironmentJournals
  <2>3. pc'[q] = "read"
    BY <1>1
  <2>4. ASSUME NEW p \in Proc, p # q, Acts(p) PROVE seen'[q][s] # journal'[o].plan[s].orig
    <3>1. pc[q] = "read" /\ seen'[q] = seen[q]
      BY <2>3, <2>4, LocalsOfOthers
    <3>2. journal'[o] = journal[o] \/ Delivered(o, p)
      BY <2>4, <3>1, Undisturbed DEF OnlyDelivers
    <3>3. CASE Delivered(o, p)
      <4>1. journal[o] # None /\ journal[o] \in Journal
        BY <3>3, IsJournal DEF Delivered, Answerable, Journaled
      <4>2. journal'[o].plan = journal[o].plan
        BY <3>3, <4>1, JournalFields DEF Delivered
      <4> QED BY <2>1, <3>1, <4>1, <4>2
    <3> QED BY <1>2, <2>1, <3>1, <3>2, <3>3
  <2>5. ASSUME Acts(q) PROVE seen'[q][s] # journal'[o].plan[s].orig
    <3>1. CASE seen'[q] = seen[q] /\ pc[q] # "read"
      BY <1>2, <3>1 DEF SeenKnown
    <3>2. CASE pc[q] = "read" /\ journal' = journal
      <4>0. ASSUME NEW t \in todo[q],
                   seen'[q] = [u \in DOMAIN seen[q] \cup {t} |-> IF u = t THEN span[t] ELSE seen[q][u]]
            PROVE  seen'[q][s] # journal'[o].plan[s].orig
        <5>1. CASE s = t
          <6>1. \A u \in Op : ~Journaled(u, "prepared")
            BY <1>2, <3>2 DEF SafeInv, MarkerKnown, MarkerNamesPrepared
          <6>2. journal[o] \in Journal /\ Answerable(o)
            BY <1>2, <3>2, <6>1, IsJournal DEF Answerable, Journaled, Journal
          <6>3. span[s] # journal[o].plan[s].orig
            BY <1>2, <3>2, <6>2 DEF CompleteKnown, CommittedIsComplete, Answerable
          <6> QED BY <1>2, <3>2, <4>0, <5>1, <6>3
        <5>2. CASE s # t
          BY <1>2, <3>2, <4>0, <5>2 DEF SeenKnown
        <5> QED BY <5>1, <5>2
      <4> QED BY <1>2, <2>3, <2>5, <3>2, <4>0, SeenMoves
    <3> QED BY <2>3, <2>5, <3>1, <3>2, SeenMoves DEF Read
  <2> QED BY <2>2, <2>4, <2>5, NextCases
<1> QED BY <1>1, <1>2

-----------------------------------------------------------------------------
(* The theorems.                                                           *)

\* The initial states, with or without a legacy journal, satisfy the invariant.
LEMMA JournalInit == Init => JournalInv
<1> SUFFICES ASSUME Init, TypeInv PROVE JournalInv
  BY InitType
<1>1. \A o \in Op : journal[o] # None =>
         /\ Journaled(o, "prepared") /\ journal[o].plan = EmptyMap /\ ~journal[o].old
         /\ marker = [op |-> o, plan |-> EmptyMap]
  BY DEF Init, LegacyNoOp, Journaled
<1>2. marker # None => marker.plan = EmptyMap
  BY DEF Init, LegacyNoOp
<1>3. RolesKnown /\ JournalKnown /\ OldIsDelivered
  BY <1>1 DEF Init, RolesKnown, JournalKnown, OldIsDelivered, Unjournaled, Executing
<1>4. PlansFromPast
  <2>1. \A s \in Span : span[s].edit <= edits /\ span[s].at <= src
    BY DEF Init
  <2> QED BY <1>1, <1>2, <2>1, EmptyPlan DEF Init, PlansFromPast, FromPast
<1>5. WriteAheadKnown
  BY <1>1, <1>2, EmptyPlan DEF Init, WriteAheadKnown, Unwritten
<1>6. RolledBack /\ ResponsesShow /\ TempsHold
  BY <1>1, EmptyPlan DEF Init, RolledBack, ResponsesShow, TempsHold, Shows, WithResponse
<1>7. CompleteKnown
  BY <1>1, EmptyPlan DEF Init, CompleteKnown, CommittedIsComplete, Apart, Journaled
<1>8. SeenKnown /\ Checked
  BY EmptyPlan DEF Init, SeenKnown, Checked
<1> QED BY <1>3, <1>4, <1>5, <1>6, <1>7, <1>8 DEF JournalInv

\* The invariant holds in every reachable state.
LEMMA JournalInvariant == Spec => [](SafeInv /\ JournalInv)
<1>1. SafeInv /\ JournalInv /\ [Next]_vars => JournalInv'
  BY RolesStep, JournalStep, AgesStep, PlansStep, WriteAheadStep, RolledBackStep, ResponsesStep,
     TempsStep, CompleteStep, SeenStep, CheckedStep
  DEF JournalInv
<1> QED BY <1>1, JournalInit, SafeInvariant, PTL DEF Spec

\* Planned bytes are never live before their journal is durable, so that what
\* abort_unjournaled_preparation deletes was never needed.
THEOREM WritesAhead == Spec => []WriteAhead
<1>1. SafeInv /\ JournalInv => WriteAhead
  BY DEF JournalInv, WriteAheadKnown, Unwritten, WriteAhead
<1> QED BY <1>1, JournalInvariant, PTL

\* A committed or delivered repair is complete, whatever crashed, whoever
\* recovered it and whatever was repaired or edited since.
THEOREM CommitsAreComplete == Spec => []CommittedIsComplete
<1>1. JournalInv => CommittedIsComplete
  BY DEF JournalInv, CompleteKnown
<1> QED BY <1>1, JournalInvariant, PTL

\* A rollback that reports its refusal has taken back all of its own bytes.
THEOREM RollbacksAreComplete == Spec => []RollbackComplete
<1>1. JournalInv => RollbackComplete
  BY DEF JournalInv, RolledBack, RollbackComplete
<1> QED BY <1>1, JournalInvariant, PTL

\* Where flock converts its lock in one step, no reader sees half a repair.
THEOREM ReadsAreWhole ==
    ASSUME AtomicDowngrade PROVE Spec => []NoTornRead
<1>1. JournalInv => NoTornRead
  BY DEF JournalInv, SeenKnown, NoTornRead
<1> QED BY <1>1, JournalInvariant, PTL

\* An operation ID is carried out at most once: its journal only advances, and
\* disappears only after delivery and expiry.
THEOREM AppliedOnce == Spec => OperationAppliedOnce
<1> DEFINE Advances(o) ==
      /\ Rank(journal'[o]) < Rank(journal[o]) =>
           journal'[o] = None /\ journal[o].state = "delivered" /\ journal[o].old
      /\ journal[o] # None /\ journal'[o] # None =>
           /\ journal'[o].plan = journal[o].plan
           /\ journal'[o].resp = journal[o].resp
           /\ Rank(journal'[o]) <= Rank(journal[o]) + 1
<1>1. SafeInv /\ JournalInv /\ [Next]_vars => \A o \in Op : Advances(o)
  <2> SUFFICES ASSUME SafeInv, TypeInv, FilesOK, ProcOK, JournalKnown, [Next]_vars, NEW o \in Op
               PROVE  Advances(o)
    BY TypeParts DEF SafeInv, JournalInv
  <2>r. \A j : Rank(j) \in 0..3
    BY DEF Rank
  <2>1. CASE journal'[o] = journal[o]
    BY <2>1, <2>r
  <2>2. ASSUME NEW a \in Op, Age(a) PROVE Advances(o)
    <3>1. CASE o = a
      <4>1. journal[o] # None /\ journal'[o] = [journal[o] EXCEPT !.old = TRUE]
        BY <2>2, <3>1, AgeStep DEF Journaled
      <4>2. /\ journal'[o].plan = journal[o].plan /\ journal'[o].resp = journal[o].resp
            /\ journal'[o].state = journal[o].state /\ journal'[o] # None
        BY <4>1, IsJournal, JournalFields
      <4>3. Rank(journal'[o]) = Rank(journal[o])
        BY <4>1, <4>2 DEF Rank
      <4> QED BY <2>r, <4>2, <4>3
    <3> QED BY <2>1, <2>2, <3>1, AgeStep
  <2>3. ASSUME NEW p \in Proc, Acts(p) PROVE Advances(o)
    <3>1. CASE Written(o, p)
      <4>1. Rank(journal[o]) = 0
        BY <3>1 DEF Written, Rank
      <4>2. journal[o] = None
        BY <3>1 DEF Written
      <4> QED BY <2>r, <4>1, <4>2
    <3>2. CASE Committed(o, p)
      <4>1. /\ journal'[o].plan = journal[o].plan /\ journal'[o].resp = journal[o].resp
            /\ journal'[o].state = "committed"
        BY <3>2 DEF Committed
      <4>2. journal'[o] # None
        BY <3>2, CarriedResponse, NewJournal DEF Committed, Commit, WithResponse, ProcOK
      <4>3. Rank(journal[o]) = 1 /\ Rank(journal'[o]) = 2
        BY <3>2, <4>1, <4>2 DEF Committed, Journaled, Rank
      <4> QED BY <4>1, <4>3
    <3>3. CASE Delivered(o, p)
      <4>1. journal[o] \in Journal /\ journal[o] # None
        BY <3>3, IsJournal DEF Delivered, Answerable, Journaled
      <4>2. /\ journal'[o].plan = journal[o].plan /\ journal'[o].resp = journal[o].resp
            /\ journal'[o].state = "delivered" /\ journal'[o] # None
        BY <3>3, <4>1, JournalFields DEF Delivered
      <4>3. Rank(journal[o]) \in {2, 3} /\ Rank(journal'[o]) = 3
        BY <3>3, <4>1, <4>2 DEF Delivered, Answerable, Journaled, Rank
      <4> QED BY <4>2, <4>3
    <3>4. CASE Dropped(o)
      BY <3>4 DEF Dropped, Expired
    <3> QED BY <2>1, <2>3, <3>1, <3>2, <3>3, <3>4, JournalMoves
  <2>4. ASSUME (\E s \in Span : EditSpan(s)) \/ EditSource \/ UNCHANGED vars PROVE journal' = journal
    BY <2>4 DEF EditSpan, EditSource, vars, files
  <2> QED BY <2>1, <2>2, <2>3, <2>4, NextCases
<1>2. SafeInv /\ JournalInv /\ [Next]_vars => [\A o \in Op : Advances(o)]_vars
  BY <1>1
<1> QED BY <1>2, JournalInvariant, PTL DEF Spec, OperationAppliedOnce

\* Where no unlocked edit falls between a check and the write that follows it,
\* no repair and no recovery replaces bytes that a third party put in place.
THEOREM ThirdPartiesAreSafe ==
    ASSUME ~EditWindow PROVE Spec => ExternalEditSurvives
<1> DEFINE Survives == \A p \in Proc, s \in Span :
        RepairWrites(p) /\ lock[p] = "exclusive" /\ ByHand(cur[p], s)
           /\ edits' = edits => span'[s] = span[s]
<1>1. SafeInv /\ JournalInv /\ [Next]_vars => Survives
  <2> SUFFICES ASSUME SafeInv, TypeInv, FilesOK, ProcOK, JournalKnown, TempsHold, Checked, [Next]_vars,
                      NEW q \in Proc, NEW s \in Span,
                      RepairWrites(q), ByHand(cur[q], s), edits' = edits
               PROVE  span'[s] = span[s]
    BY TypeParts DEF SafeInv, JournalInv
  <2>1. ~ByThird
    <3>1. edits \in Nat
      BY Monotone
    <3> QED BY <3>1 DEF ByThird
  <2>2. ASSUME NEW p \in Proc, p # q, Acts(p) PROVE span' = span
    BY <2>2, Undisturbed DEF RepairWrites, ExclusiveLabels
  <2>3. ASSUME Acts(q) PROVE span'[s] = span[s]
    <3>1. plan[q] = journal[cur[q]].plan
      BY DEF RepairWrites, JournalKnown, Executing
    <3>2. span[s] \notin {plan[q][s].orig, plan[q][s].new}
      BY <3>1 DEF ByHand
    <3>3. ASSUME NEW t \in todo[q], First(todo[q], t), Restores(q) \/ Installs(q) PROVE t # s
      BY <3>2, <3>3 DEF Restores, Installs, Checked
    <3>4. Restores(q) \/ Installs(q) => span'[s] = span[s]
      BY <3>3 DEF Restores, Installs, FilesOK
    <3> QED BY <2>1, <2>3, <3>4, SpanMoves
  <2> QED BY <2>1, <2>2, <2>3, NextCases, EnvironmentStep
<1>2. SafeInv /\ JournalInv /\ [Next]_vars => [Survives]_vars
  BY <1>1
<1> QED BY <1>2, JournalInvariant, PTL DEF Spec, ExternalEditSurvives
=============================================================================
