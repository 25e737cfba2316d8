------------------------- MODULE ContextRepairProofs -------------------------
(***************************************************************************)
(* Theorems about ContextRepair, for every set of processes, operations    *)
(* and spans and for every bound: the type invariant, the exclusion of the *)
(* recovery domain, and that readers only ever see settled spans.          *)
(***************************************************************************)
EXTENDS ContextRepair, TLAPS

\* Labels at which a process carries a response, those at which it works on
\* an operation, and those at which its loop runs over entries of its plan.
WithResponse == {"inspect", "back", "forward", "verify", "commit", "replay",
                 "temps", "mark", "prepare", "apply", "rename"}
WithOp == WithResponse \cup {"plan", "clear", "abort"}
Looping == {"back", "forward", "temps", "apply", "rename"}

\* The type invariant is not inductive by itself: a journal is written from
\* the process's response, and a span from an entry of its plan.
LocalsOK ==
    \A p \in Proc :
        /\ pc[p] \in WithResponse => resp[p] \in Response
        /\ pc[p] \in WithOp \/ (role[p] = "repair" /\ pc[p] \in {"want", "enter"})
             => cur[p] \in Op
        /\ pc[p] \in Looping => todo[p] \subseteq DOMAIN plan[p]

TypeInv == TypeOK /\ LocalsOK

-----------------------------------------------------------------------------
(* Facts about the data.                                                   *)

\* An entry of a plan is a pair of span texts.
LEMMA PlanEntry ==
    ASSUME NEW f \in Plan, NEW s \in DOMAIN f
    PROVE  f[s].orig \in Text /\ f[s].new \in Text /\ s \in Span
BY DEF Plan, Entry

\* The plan with no entries is a plan.
LEMMA EmptyPlan == EmptyMap \in Plan /\ DOMAIN EmptyMap = {}
<1>1. EmptyMap \in [{} -> Entry]
  BY DEF EmptyMap
<1>2. {} \in SUBSET Span
  OBVIOUS
<1> QED BY <1>1, <1>2 DEF Plan, EmptyMap

\* A reader that has seen nothing has a well-typed view.
LEMMA EmptySeen == EmptyMap \in UNION {[S -> Bytes] : S \in SUBSET Span}
<1>1. EmptyMap \in [{} -> Bytes]
  BY DEF EmptyMap
<1> QED BY <1>1

\* What the response is computed from is a response.
LEMMA SnapshotType ==
    ASSUME src \in 0..MaxSrc, NEW o \in Op, NEW live \in [Span -> Bytes]
    PROVE  Snapshot(o, live) \in Response
<1>1. Selected[o] \in SUBSET Span
  BY RepairAssumption
<1>2. [s \in Selected[o] |-> live[s]] \in [Selected[o] -> Bytes]
  BY <1>1
<1> QED BY <1>1, <1>2 DEF Snapshot, Response

\* Three parts of the type invariant: the files, the processes, the bounds.
FilesOK ==
    /\ span \in [Span -> Bytes]
    /\ src \in 0..MaxSrc
    /\ temp \in [Op -> [Span -> Text \cup {None}]]
    /\ marker \in Marker \cup {None}
    /\ journal \in [Op -> Journal \cup {None}]

ProcOK ==
    /\ lock \in [Proc -> Mode]
    /\ pc \in [Proc -> Label]
    /\ role \in [Proc -> {"none", "reader", "writer", "repair"}]
    /\ cur \in [Proc -> Op \cup {None}]
    /\ plan \in [Proc -> Plan]
    /\ resp \in [Proc -> Response \cup {None}]
    /\ todo \in [Proc -> SUBSET Span]
    /\ seen \in [Proc -> UNION {[S -> Bytes] : S \in SUBSET Span}]
    /\ LocalsOK

BoundsOK ==
    /\ edits \in 0..MaxEdit
    /\ crashes \in 0..MaxCrash
    /\ timeouts \in 0..MaxTimeout

LEMMA TypeParts == TypeInv <=> FilesOK /\ ProcOK /\ BoundsOK
BY DEF TypeInv, TypeOK, LockTypeOK, FilesOK, ProcOK, BoundsOK

\* An invocation that ends leaves its slot well typed.
LEMMA ExitType ==
    ASSUME ProcOK, NEW p \in Proc, Exit(p)
    PROVE  ProcOK'
BY EmptyPlan, EmptySeen DEF ProcOK, LocalsOK, Exit, Goto, Release, Clean, Mode,
   Label, WithResponse, WithOp, Looping


\* The records a repair writes are a marker and journals.
LEMMA MarkerType ==
    ASSUME NEW o \in Op, NEW f \in Plan
    PROVE  [op |-> o, plan |-> f] \in Marker
BY DEF Marker

\* A journal a repair writes is a journal.
LEMMA JournalType ==
    ASSUME NEW f \in Plan, NEW r \in Response, NEW state \in {"prepared", "committed"}
    PROVE  [state |-> state, plan |-> f, resp |-> r, old |-> FALSE] \in Journal
BY DEF Journal

\* What is read back from them is well typed.
LEMMA JournalParts ==
    ASSUME NEW j \in Journal
    PROVE  /\ j.plan \in Plan /\ j.resp \in Response
           /\ [j EXCEPT !.state = "delivered"] \in Journal
           /\ [j EXCEPT !.old = TRUE] \in Journal
BY DEF Journal

\* What is read back from the marker is well typed.
LEMMA MarkerParts ==
    ASSUME NEW m \in Marker
    PROVE  m.op \in Op /\ m.plan \in Plan /\ DOMAIN m.plan \subseteq Span
BY PlanEntry DEF Marker

\* A process that carries a response works on an operation.
LEMMA CarriedResponse ==
    ASSUME ProcOK, NEW p \in Proc, pc[p] \in WithResponse
    PROVE  resp[p] \in Response /\ cur[p] \in Op
BY DEF ProcOK, LocalsOK, WithOp

\* A loop over the entries only visits entries.
LEMMA LoopEntry ==
    ASSUME ProcOK, NEW p \in Proc, pc[p] \in Looping, NEW s \in todo[p]
    PROVE  s \in Span /\ plan[p][s].orig \in Text /\ plan[p][s].new \in Text
<1>1. s \in DOMAIN plan[p] /\ plan[p] \in Plan
  BY DEF ProcOK, LocalsOK
<1> QED BY <1>1, PlanEntry

\* Writing one file keeps the files typed.
LEMMA SpanWrite ==
    ASSUME FilesOK, NEW s, NEW b \in Bytes, span' = [span EXCEPT ![s] = b]
    PROVE  span' \in [Span -> Bytes]
BY DEF FilesOK

\* Writing one temporary keeps the files typed.
LEMMA TempWrite ==
    ASSUME FilesOK, NEW o, NEW s, NEW b \in Text \cup {None},
           temp' = [temp EXCEPT ![o][s] = b]
    PROVE  temp' \in [Op -> [Span -> Text \cup {None}]]
BY DEF FilesOK

\* Freshly written bytes are the text of a span.
LEMMA FreshType == ASSUME FilesOK, BoundsOK, edits < MaxEdit PROVE Fresh \in Text
<1>1. edits + 1 \in 0..MaxEdit
  BY RepairAssumption DEF BoundsOK
<1> QED BY <1>1 DEF FilesOK, Fresh, Text

\* Every step keeps the state well typed.
LEMMA TypeStep == TypeInv /\ [Next]_vars => TypeInv'
<1> SUFFICES ASSUME FilesOK, ProcOK, BoundsOK, [Next]_vars
             PROVE  FilesOK' /\ ProcOK' /\ BoundsOK'
  BY TypeParts DEF TypeInv, TypeOK, LockTypeOK, FilesOK, ProcOK, BoundsOK
<1>1. ASSUME NEW p \in Proc, Acquire(p) PROVE FilesOK' /\ ProcOK' /\ BoundsOK'
  <2>1. FilesOK'
    BY <1>1 DEF Acquire, FilesOK, files
  <2>2. ProcOK'
    BY <1>1 DEF Acquire, TryAcquire, ModeOf, FilesOK, ProcOK, LocalsOK, Goto,
       Release, Mode, Label, WithResponse, WithOp, Looping, files, locals
  <2>3. BoundsOK'
    BY <1>1, RepairAssumption DEF Acquire, BoundsOK, bounds
  <2> QED BY <2>1, <2>2, <2>3
<1>2. ASSUME NEW p \in Proc, EnterClean(p) PROVE FilesOK' /\ ProcOK' /\ BoundsOK'
  <2>1. FilesOK'
    BY <1>2 DEF EnterClean, FilesOK, files
  <2>2. ProcOK'
    <3>1. PICK label \in {"read", "write"} : Goto(p, label)
      BY <1>2 DEF EnterClean
    <3>2. todo' \in [Proc -> SUBSET Span]
      BY <1>2 DEF EnterClean, ProcOK
    <3>3. LocalsOK'
      BY <1>2, <3>1 DEF EnterClean, FilesOK, ProcOK, LocalsOK, Goto, Release,
         Mode, Label, WithResponse, WithOp, Looping, files, locals
    <3> QED BY <1>2, <3>1, <3>2, <3>3 DEF EnterClean, ProcOK, Goto, Label
  <2>3. BoundsOK'
    BY <1>2, RepairAssumption DEF EnterClean, BoundsOK, bounds
  <2> QED BY <2>1, <2>2, <2>3
<1>3. ASSUME NEW p \in Proc, EnterPending(p) PROVE FilesOK' /\ ProcOK' /\ BoundsOK'
  <2>1. FilesOK'
    BY <1>3 DEF EnterPending, FilesOK, files
  <2>2. ProcOK'
    <3>1. PICK label \in {"rewant", "settle"} : Goto(p, label)
      BY <1>3 DEF EnterPending
    <3>2. lock' \in [Proc -> Mode]
      BY <1>3 DEF EnterPending, Release, ProcOK, Mode
    <3>3. LocalsOK'
      BY <1>3, <3>1 DEF EnterPending, FilesOK, ProcOK, LocalsOK, Goto, Release,
         Mode, Label, WithResponse, WithOp, Looping, files, locals
    <3> QED BY <1>3, <3>1, <3>2, <3>3 DEF EnterPending, ProcOK, Goto, Label,
       locals
  <2>3. BoundsOK'
    BY <1>3, RepairAssumption DEF EnterPending, BoundsOK, bounds
  <2> QED BY <2>1, <2>2, <2>3
<1>4. ASSUME NEW p \in Proc, Reacquire(p) PROVE FilesOK' /\ ProcOK' /\ BoundsOK'
  <2>1. FilesOK'
    BY <1>4 DEF Reacquire, FilesOK, files
  <2>2. ProcOK'
    BY <1>4 DEF Reacquire, TryAcquire, FilesOK, ProcOK, LocalsOK, Goto,
       Release, Mode, Label, WithResponse, WithOp, Looping, files, locals
  <2>3. BoundsOK'
    BY <1>4, RepairAssumption DEF Reacquire, BoundsOK, bounds
  <2> QED BY <2>1, <2>2, <2>3
<1>5. ASSUME NEW p \in Proc, SettleNothing(p) PROVE FilesOK' /\ ProcOK' /\ BoundsOK'
  <2>1. FilesOK'
    BY <1>5 DEF SettleNothing, FilesOK, files
  <2>2. ProcOK'
    BY <1>5 DEF SettleNothing, Settled, FilesOK, ProcOK, LocalsOK, Goto,
       Release, Mode, Label, WithResponse, WithOp, Looping, files, locals
  <2>3. BoundsOK'
    BY <1>5, RepairAssumption DEF SettleNothing, BoundsOK, bounds
  <2> QED BY <2>1, <2>2, <2>3
<1>6. ASSUME NEW p \in Proc, SettleUnjournaled(p) PROVE FilesOK' /\ ProcOK' /\ BoundsOK'
  <2>1. FilesOK'
    BY <1>6 DEF SettleUnjournaled, FilesOK, files
  <2>2. ProcOK'
    <3>1. marker.op \in Op /\ DOMAIN marker.plan \subseteq Span
      BY <1>6, MarkerParts DEF FilesOK, SettleUnjournaled
    <3>2. CASE BeforeMutation(marker)
      <4>1. /\ Goto(p, "abort")
            /\ cur' = [cur EXCEPT ![p] = marker.op]
            /\ todo' = [todo EXCEPT ![p] = DOMAIN marker.plan]
            /\ UNCHANGED <<lock, role, plan, resp, seen>>
        BY <1>6, <3>2 DEF SettleUnjournaled
      <4>2. LocalsOK'
        BY <3>1, <4>1 DEF FilesOK, ProcOK, LocalsOK, Goto, Release, Mode,
           Label, WithResponse, WithOp, Looping, files, locals
      <4> QED BY <3>1, <4>1, <4>2 DEF ProcOK, Goto, Label
    <3>3. CASE ~BeforeMutation(marker)
      BY <1>6, <3>3, ExitType DEF SettleUnjournaled
    <3> QED BY <3>2, <3>3
  <2>3. BoundsOK'
    BY <1>6, RepairAssumption DEF SettleUnjournaled, BoundsOK, bounds
  <2> QED BY <2>1, <2>2, <2>3
<1>7. ASSUME NEW p \in Proc, SettleJournaled(p) PROVE FilesOK' /\ ProcOK' /\ BoundsOK'
  <2>1. FilesOK'
    BY <1>7 DEF SettleJournaled, FilesOK, files
  <2>2. ProcOK'
    <3> DEFINE j == journal[marker.op]
    <3>1. marker.op \in Op /\ j.plan \in Plan /\ j.resp \in Response
      BY <1>7, MarkerParts, JournalParts DEF FilesOK, SettleJournaled
    <3>2. CASE j.plan # marker.plan
      BY <1>7, <3>2, ExitType DEF SettleJournaled
    <3>3. CASE j.plan = marker.plan
      <4>1. PICK label \in {"clear", "commit", "inspect"} : Adopt(p, label)
        BY <1>7, <3>3 DEF SettleJournaled
      <4> QED BY <1>7, <3>1, <4>1 DEF SettleJournaled, Adopt, FilesOK, ProcOK,
         LocalsOK, Goto, Release, Mode, Label, WithResponse, WithOp, Looping,
         files, locals
    <3> QED BY <3>2, <3>3
  <2>3. BoundsOK'
    BY <1>7, RepairAssumption DEF SettleJournaled, BoundsOK, bounds
  <2> QED BY <2>1, <2>2, <2>3
<1>8. ASSUME NEW p \in Proc, Abort(p) PROVE FilesOK' /\ ProcOK' /\ BoundsOK'
  <2>1. FilesOK'
    BY <1>8, TempWrite DEF Abort, FilesOK
  <2>2. ProcOK'
    <3>1. CASE todo[p] = {} /\ Goto(p, "clear") /\ UNCHANGED <<temp, todo>>
      BY <1>8, <3>1 DEF Abort, FilesOK, ProcOK, LocalsOK, Goto, Release, Mode,
         Label, WithResponse, WithOp, Looping, files, locals
    <3>2. CASE \E s \in todo[p] : todo' = [todo EXCEPT ![p] = @ \ {s}] /\ UNCHANGED pc
      BY <1>8, <3>2 DEF Abort, FilesOK, ProcOK, LocalsOK, Goto, Release, Mode,
         Label, WithResponse, WithOp, Looping, files, locals
    <3> QED BY <1>8, <3>1, <3>2 DEF Abort
  <2>3. BoundsOK'
    BY <1>8, RepairAssumption DEF Abort, BoundsOK, bounds
  <2> QED BY <2>1, <2>2, <2>3
<1>9. ASSUME NEW p \in Proc, Inspect(p) PROVE FilesOK' /\ ProcOK' /\ BoundsOK'
  <2>1. FilesOK'
    BY <1>9 DEF Inspect, FilesOK, files
  <2>2. ProcOK'
    <3>1. CASE \E s \in DOMAIN plan[p] : span[s] = Absent
      BY <1>9, <3>1, ExitType DEF Inspect
    <3>2. CASE ~ \E s \in DOMAIN plan[p] : span[s] = Absent
      <4>1. PICK S \in SUBSET DOMAIN plan[p], label \in {"back", "forward"} :
               Goto(p, label) /\ todo' = [todo EXCEPT ![p] = S]
        BY <1>9, <3>2 DEF Inspect
      <4>2. S \subseteq Span /\ resp[p] \in Response /\ cur[p] \in Op
        BY <1>9, PlanEntry, CarriedResponse DEF Inspect, ProcOK, WithResponse
      <4>3. UNCHANGED <<lock, role, cur, plan, resp, seen>>
        BY <1>9, <3>2 DEF Inspect
      <4> QED BY <4>1, <4>2, <4>3 DEF FilesOK, ProcOK, LocalsOK, Goto, Release,
         Mode, Label, WithResponse, WithOp, Looping, files, locals
    <3> QED BY <3>1, <3>2
  <2>3. BoundsOK'
    BY <1>9, RepairAssumption DEF Inspect, BoundsOK, bounds
  <2> QED BY <2>1, <2>2, <2>3
<1>10. ASSUME NEW p \in Proc, RollBack(p) PROVE FilesOK' /\ ProcOK' /\ BoundsOK'
  <2>1. FilesOK'
    <3>1. \A s \in todo[p] : plan[p][s].orig \in Bytes
      BY <1>10, LoopEntry DEF RollBack, Looping, Bytes
    <3> QED BY <1>10, <3>1, SpanWrite DEF RollBack, FilesOK
  <2>2. ProcOK'
    <3>1. CASE Exit(p)
      BY <3>1, ExitType
    <3>2. CASE \E s \in todo[p] : todo' = [todo EXCEPT ![p] = @ \ {s}]
                                 /\ UNCHANGED <<lock, pc, role, cur, plan, resp, seen>>
      BY <1>10, <3>2 DEF RollBack, FilesOK, ProcOK, LocalsOK, Goto, Release,
         Mode, Label, WithResponse, WithOp, Looping, files, locals
    <3> QED BY <1>10, <3>1, <3>2 DEF RollBack
  <2>3. BoundsOK'
    BY <1>10, RepairAssumption DEF RollBack, BoundsOK, bounds
  <2> QED BY <2>1, <2>2, <2>3
<1>11. ASSUME NEW p \in Proc, RollForward(p) PROVE FilesOK' /\ ProcOK' /\ BoundsOK'
  <2>1. FilesOK'
    <3>1. \A s \in todo[p] : plan[p][s].new \in Bytes
      BY <1>11, LoopEntry DEF RollForward, Looping, Bytes
    <3> QED BY <1>11, <3>1, SpanWrite DEF RollForward, FilesOK
  <2>2. ProcOK'
    <3>1. CASE Goto(p, "verify") /\ UNCHANGED todo
      BY <1>11, <3>1 DEF RollForward, FilesOK, ProcOK, LocalsOK, Goto, Release,
         Mode, Label, WithResponse, WithOp, Looping, files, locals
    <3>2. CASE \E s \in todo[p] : todo' = [todo EXCEPT ![p] = @ \ {s}] /\ UNCHANGED pc
      BY <1>11, <3>2 DEF RollForward, FilesOK, ProcOK, LocalsOK, Goto, Release,
         Mode, Label, WithResponse, WithOp, Looping, files, locals
    <3> QED BY <1>11, <3>1, <3>2 DEF RollForward
  <2>3. BoundsOK'
    BY <1>11, RepairAssumption DEF RollForward, BoundsOK, bounds
  <2> QED BY <2>1, <2>2, <2>3
<1>12. ASSUME NEW p \in Proc, Verify(p) PROVE FilesOK' /\ ProcOK' /\ BoundsOK'
  <2>1. FilesOK'
    BY <1>12 DEF Verify, FilesOK, files
  <2>2. ProcOK'
    BY <1>12, ExitType DEF Verify, FilesOK, ProcOK, LocalsOK, Goto, Release,
       Mode, Label, WithResponse, WithOp, Looping, files, locals
  <2>3. BoundsOK'
    BY <1>12, RepairAssumption DEF Verify, BoundsOK, bounds
  <2> QED BY <2>1, <2>2, <2>3
<1>13. ASSUME NEW p \in Proc, Commit(p) PROVE FilesOK' /\ ProcOK' /\ BoundsOK'
  <2>1. FilesOK'
    <3>1. [state |-> "committed", plan |-> plan[p], resp |-> resp[p], old |-> FALSE] \in Journal
      BY <1>13, CarriedResponse, JournalType DEF Commit, ProcOK, WithResponse
    <3> QED BY <1>13, <3>1 DEF Commit, FilesOK
  <2>2. ProcOK'
    BY <1>13, ExitType DEF Commit, FilesOK, ProcOK, LocalsOK, Goto, Release,
       Mode, Label, WithResponse, WithOp, Looping, files, locals
  <2>3. BoundsOK'
    BY <1>13, RepairAssumption DEF Commit, BoundsOK, bounds
  <2> QED BY <2>1, <2>2, <2>3
<1>14. ASSUME NEW p \in Proc, Clear(p) PROVE FilesOK' /\ ProcOK' /\ BoundsOK'
  <2>1. FilesOK'
    BY <1>14 DEF Clear, FilesOK, files
  <2>2. ProcOK'
    BY <1>14 DEF Clear, Settled, FilesOK, ProcOK, LocalsOK, Goto, Release,
       Mode, Label, WithResponse, WithOp, Looping, files, locals
  <2>3. BoundsOK'
    BY <1>14, RepairAssumption DEF Clear, BoundsOK, bounds
  <2> QED BY <2>1, <2>2, <2>3
<1>15. ASSUME NEW p \in Proc, DowngradeReader(p) PROVE FilesOK' /\ ProcOK' /\ BoundsOK'
  <2>1. FilesOK'
    BY <1>15 DEF DowngradeReader, FilesOK, files
  <2>2. PICK label \in {"read", "rejoin"}, mode \in Mode :
           Goto(p, label) /\ lock' = [lock EXCEPT ![p] = mode]
    BY <1>15 DEF DowngradeReader, Downgrade, Release, Mode
  <2>4. PICK rest \in SUBSET Span : todo' = [todo EXCEPT ![p] = rest]
    BY <1>15 DEF DowngradeReader, ProcOK
  <2>5. LocalsOK'
    BY <1>15, <2>2, <2>4 DEF DowngradeReader, ProcOK, LocalsOK, Goto,
       WithResponse, WithOp, Looping
  <2>6. ProcOK'
    BY <1>15, <2>2, <2>4, <2>5 DEF DowngradeReader, ProcOK, Goto, Label
  <2>3. BoundsOK'
    BY <1>15, RepairAssumption DEF DowngradeReader, BoundsOK, bounds
  <2> QED BY <2>1, <2>6, <2>3
<1>16. ASSUME NEW p \in Proc, Read(p) PROVE FilesOK' /\ ProcOK' /\ BoundsOK'
  <2>1. FilesOK'
    BY <1>16 DEF Read, FilesOK, files
  <2>2. ProcOK'
    <3>1. CASE Exit(p)
      BY <3>1, ExitType
    <3>2. ASSUME NEW s \in todo[p],
                 seen' = [seen EXCEPT ![p] =
                   [t \in DOMAIN @ \cup {s} |-> IF t = s THEN span[s] ELSE @[t]]],
                 todo' = [todo EXCEPT ![p] = @ \ {s}],
                 UNCHANGED <<lock, pc, role, cur, plan, resp>>
          PROVE  ProcOK'
      <4> DEFINE view == [t \in DOMAIN seen[p] \cup {s} |-> IF t = s THEN span[s] ELSE
      seen[p][t]]
      <4>1. PICK S \in SUBSET Span : seen[p] \in [S -> Bytes]
        BY DEF ProcOK
      <4>2. S \cup {s} \in SUBSET Span /\ span[s] \in Bytes
        BY DEF ProcOK, FilesOK
      <4>3. view \in [S \cup {s} -> Bytes]
        BY <4>1, <4>2
      <4>4. view \in UNION {[T -> Bytes] : T \in SUBSET Span}
        BY <4>2, <4>3
      <4>5. seen' \in [Proc -> UNION {[T -> Bytes] : T \in SUBSET Span}]
        BY <3>2, <4>4 DEF ProcOK
      <4>6. pc[p] = "read"
        BY <1>16 DEF Read
      <4> QED BY <3>2, <4>5, <4>6 DEF ProcOK, LocalsOK, WithResponse, Looping
    <3> QED BY <1>16, <3>1, <3>2 DEF Read
  <2>3. BoundsOK'
    BY <1>16, RepairAssumption DEF Read, BoundsOK, bounds
  <2> QED BY <2>1, <2>2, <2>3
<1>17. ASSUME NEW p \in Proc, Write(p) PROVE FilesOK' /\ ProcOK' /\ BoundsOK'
  <2>1. FilesOK'
    <3>1. edits < MaxEdit => Fresh \in Bytes /\ Absent \in Bytes
      BY FreshType DEF Bytes
    <3> QED BY <1>17, <3>1, SpanWrite DEF Write, FilesOK
  <2>2. ProcOK'
    BY <1>17, ExitType DEF Write, FilesOK, ProcOK, LocalsOK, Goto, Release,
       Mode, Label, WithResponse, WithOp, Looping, files, locals
  <2>3. BoundsOK'
    BY <1>17, RepairAssumption DEF Write, BoundsOK, bounds
  <2> QED BY <2>1, <2>2, <2>3
<1>18. ASSUME NEW p \in Proc, Open(p) PROVE FilesOK' /\ ProcOK' /\ BoundsOK'
  <2>1. FilesOK'
    BY <1>18 DEF Open, Unexpired, FilesOK
  <2>2. ProcOK'
    <3> DEFINE j == Unexpired[cur[p]]
    <3>1. CASE j = None
      BY <1>18, <3>1 DEF Open, FilesOK, ProcOK, LocalsOK, Goto, Release, Mode,
         Label, WithResponse, WithOp, Looping, files, locals
    <3>2. CASE j # None
      <4>1. PICK label \in {"commit", "inspect", "clear", "replay"} : Goto(p, label)
        BY <1>18, <3>2 DEF Open
      <4>2. cur[p] \in Op
        BY <1>18 DEF Open, ProcOK, LocalsOK
      <4>3. j \in Journal
        BY <3>2, <4>2 DEF Unexpired, FilesOK
      <4>4. j.plan \in Plan /\ j.resp \in Response
        BY <4>3, JournalParts
      <4>5. /\ plan' = [plan EXCEPT ![p] = j.plan]
            /\ resp' = [resp EXCEPT ![p] = j.resp]
            /\ UNCHANGED <<lock, role, cur, todo, seen>>
        BY <1>18, <3>2 DEF Open
      <4> QED BY <4>1, <4>2, <4>4, <4>5 DEF FilesOK, ProcOK, LocalsOK, Goto,
         Release, Mode, Label, WithResponse, WithOp, Looping, files, locals
    <3> QED BY <3>1, <3>2
  <2>3. BoundsOK'
    BY <1>18, RepairAssumption DEF Open, BoundsOK, bounds
  <2> QED BY <2>1, <2>2, <2>3
<1>19. ASSUME NEW p \in Proc, Replay(p) PROVE FilesOK' /\ ProcOK' /\ BoundsOK'
  <2>1. FilesOK'
    BY <1>19 DEF Replay, FilesOK, files
  <2>2. ProcOK'
    BY <1>19, ExitType DEF Replay, FilesOK, ProcOK, LocalsOK, Goto, Release,
       Mode, Label, WithResponse, WithOp, Looping, files, locals
  <2>3. BoundsOK'
    BY <1>19, RepairAssumption DEF Replay, BoundsOK, bounds
  <2> QED BY <2>1, <2>2, <2>3
<1>20. ASSUME NEW p \in Proc, PlanRepair(p) PROVE FilesOK' /\ ProcOK' /\ BoundsOK'
  <2>1. FilesOK'
    BY <1>20 DEF PlanRepair, FilesOK, files
  <2>2. ProcOK'
    <3> DEFINE fix == {s \in Selected[cur[p]] : Repairable(s)}
               entries == [s \in fix |-> [orig |-> span[s], new |-> [span[s] EXCEPT !.at = src]]]
               after == [s \in Span |-> IF s \in fix THEN entries[s].new ELSE span[s]]
    <3>1. cur[p] \in Op /\ fix \in SUBSET Span
      BY <1>20, RepairAssumption DEF PlanRepair, ProcOK, LocalsOK, WithOp
    <3>2. \A s \in fix : span[s] \in Text /\ [span[s] EXCEPT !.at = src] \in Text
      BY <3>1 DEF Repairable, FilesOK, Bytes, Text
    <3>3. entries \in [fix -> Entry]
      BY <3>2 DEF Entry
    <3>4. entries \in Plan
      BY <3>1, <3>3 DEF Plan
    <3>5. after \in [Span -> Bytes]
      BY <3>2, <3>3 DEF FilesOK, Bytes
    <3>6. Snapshot(cur[p], after) \in Response
      BY <3>1, <3>5, SnapshotType DEF FilesOK
    <3>7. /\ plan' = [plan EXCEPT ![p] = entries]
          /\ resp' = [resp EXCEPT ![p] = Snapshot(cur[p], after)]
          /\ todo' = [todo EXCEPT ![p] = fix]
          /\ Goto(p, "temps")
          /\ UNCHANGED <<lock, role, cur, seen>>
      BY <1>20 DEF PlanRepair
    <3>8. DOMAIN entries = fix
      OBVIOUS
    <3> HIDE DEF entries, after, fix
    <3> QED BY <3>1, <3>4, <3>6, <3>7, <3>8 DEF FilesOK, ProcOK, LocalsOK,
       Goto, Release, Mode, Label, WithResponse, WithOp, Looping, files, locals
  <2>3. BoundsOK'
    BY <1>20, RepairAssumption DEF PlanRepair, BoundsOK, bounds
  <2> QED BY <2>1, <2>2, <2>3
<1>21. ASSUME NEW p \in Proc, Temps(p) PROVE FilesOK' /\ ProcOK' /\ BoundsOK'
  <2>1. FilesOK'
    <3>1. \A s \in todo[p] : plan[p][s].new \in Text \cup {None}
      BY <1>21, LoopEntry DEF Temps, Looping
    <3>2. plan[p] \in Plan /\ resp[p] \in Response /\ cur[p] \in Op
      BY <1>21, CarriedResponse DEF Temps, ProcOK, WithResponse
    <3>3. [state |-> "committed", plan |-> plan[p], resp |-> resp[p], old |-> FALSE] \in Journal
      BY <3>2, JournalType
    <3>4. temp' \in [Op -> [Span -> Text \cup {None}]]
      BY <1>21, <3>1, TempWrite DEF Temps, FilesOK
    <3>5. journal' \in [Op -> Journal \cup {None}]
      BY <1>21, <3>3 DEF Temps, FilesOK
    <3> QED BY <1>21, <3>4, <3>5 DEF Temps, FilesOK
  <2>2. ProcOK'
    <3>1. CASE \E s \in todo[p] : todo' = [todo EXCEPT ![p] = @ \ {s}] /\ UNCHANGED <<lock, pc>>
      BY <1>21, <3>1 DEF Temps, FilesOK, ProcOK, LocalsOK, Goto, Release, Mode,
         Label, WithResponse, WithOp, Looping, files, locals
    <3>2. CASE Goto(p, "mark") /\ UNCHANGED <<lock, todo>>
      BY <1>21, <3>2 DEF Temps, FilesOK, ProcOK, LocalsOK, Goto, Release, Mode,
         Label, WithResponse, WithOp, Looping, files, locals
    <3>3. CASE Goto(p, "reply") /\ Release(p) /\ UNCHANGED todo
      BY <1>21, <3>3 DEF Temps, FilesOK, ProcOK, LocalsOK, Goto, Release, Mode,
         Label, WithResponse, WithOp, Looping, files, locals
    <3> QED BY <1>21, <3>1, <3>2, <3>3 DEF Temps
  <2>3. BoundsOK'
    BY <1>21, RepairAssumption DEF Temps, BoundsOK, bounds
  <2> QED BY <2>1, <2>2, <2>3
<1>22. ASSUME NEW p \in Proc, MarkPending(p) PROVE FilesOK' /\ ProcOK' /\ BoundsOK'
  <2>1. FilesOK'
    <3>1. cur[p] \in Op
      BY <1>22, CarriedResponse DEF MarkPending, WithResponse
    <3>2. [op |-> cur[p], plan |-> plan[p]] \in Marker
      BY <3>1, MarkerType DEF ProcOK
    <3> QED BY <1>22, <3>2 DEF MarkPending, FilesOK
  <2>2. ProcOK'
    BY <1>22, ExitType DEF MarkPending, FilesOK, ProcOK, LocalsOK, Goto,
       Release, Mode, Label, WithResponse, WithOp, Looping, files, locals
  <2>3. BoundsOK'
    BY <1>22, RepairAssumption DEF MarkPending, BoundsOK, bounds
  <2> QED BY <2>1, <2>2, <2>3
<1>23. ASSUME NEW p \in Proc, Prepare(p) PROVE FilesOK' /\ ProcOK' /\ BoundsOK'
  <2>1. FilesOK'
    <3>1. [state |-> "prepared", plan |-> plan[p], resp |-> resp[p], old |-> FALSE] \in Journal
      BY <1>23, CarriedResponse, JournalType DEF Prepare, ProcOK, WithResponse
    <3> QED BY <1>23, <3>1 DEF Prepare, FilesOK
  <2>2. ProcOK'
    <3>1. DOMAIN plan[p] \subseteq Span
      BY PlanEntry DEF ProcOK
    <3> QED BY <1>23, <3>1 DEF Prepare, FilesOK, ProcOK, LocalsOK, Goto,
       Release, Mode, Label, WithResponse, WithOp, Looping, files, locals
  <2>3. BoundsOK'
    BY <1>23, RepairAssumption DEF Prepare, BoundsOK, bounds
  <2> QED BY <2>1, <2>2, <2>3
<1>24. ASSUME NEW p \in Proc, Apply(p) PROVE FilesOK' /\ ProcOK' /\ BoundsOK'
  <2>1. FilesOK'
    BY <1>24 DEF Apply, FilesOK, files
  <2>2. ProcOK'
    BY <1>24, ExitType DEF Apply, FilesOK, ProcOK, LocalsOK, Goto, Release,
       Mode, Label, WithResponse, WithOp, Looping, files, locals
  <2>3. BoundsOK'
    BY <1>24, RepairAssumption DEF Apply, BoundsOK, bounds
  <2> QED BY <2>1, <2>2, <2>3
<1>25. ASSUME NEW p \in Proc, Rename(p) PROVE FilesOK' /\ ProcOK' /\ BoundsOK'
  <2>1. FilesOK'
    <3>1. PICK s \in todo[p] : /\ temp[cur[p]][s] # None
                               /\ span' = [span EXCEPT ![s] = temp[cur[p]][s]]
                               /\ temp' = [temp EXCEPT ![cur[p]][s] = None]
      BY <1>25 DEF Rename
    <3>2. s \in Span /\ cur[p] \in Op
      BY <1>25, LoopEntry, CarriedResponse DEF Rename, Looping, WithResponse
    <3>3. temp[cur[p]][s] \in Bytes
      BY <3>1, <3>2 DEF FilesOK, Bytes
    <3>4. temp' \in [Op -> [Span -> Text \cup {None}]]
      BY <3>1, TempWrite
    <3> QED BY <1>25, <3>1, <3>3, <3>4, SpanWrite DEF Rename, FilesOK
  <2>2. ProcOK'
    BY <1>25, ExitType DEF Rename, FilesOK, ProcOK, LocalsOK, Goto, Release,
       Mode, Label, WithResponse, WithOp, Looping, files, locals
  <2>3. BoundsOK'
    BY <1>25, RepairAssumption DEF Rename, BoundsOK, bounds
  <2> QED BY <2>1, <2>2, <2>3
<1>26. ASSUME NEW p \in Proc, Acknowledge(p) PROVE FilesOK' /\ ProcOK' /\ BoundsOK'
  <2>1. FilesOK'
    BY <1>26, JournalParts DEF Acknowledge, Journaled, FilesOK
  <2>2. ProcOK'
    BY <1>26, ExitType DEF Acknowledge, FilesOK, ProcOK, LocalsOK, Goto,
       Release, Mode, Label, WithResponse, WithOp, Looping, files, locals
  <2>3. BoundsOK'
    BY <1>26, RepairAssumption DEF Acknowledge, BoundsOK, bounds
  <2> QED BY <2>1, <2>2, <2>3
<1>27. ASSUME NEW p \in Proc, LockTimeout(p) PROVE FilesOK' /\ ProcOK' /\ BoundsOK'
  <2>1. FilesOK'
    BY <1>27 DEF LockTimeout, FilesOK, files
  <2>2. ProcOK'
    BY <1>27, ExitType DEF LockTimeout, FilesOK, ProcOK, LocalsOK, Goto,
       Release, Mode, Label, WithResponse, WithOp, Looping, files, locals
  <2>3. BoundsOK'
    BY <1>27, RepairAssumption DEF LockTimeout, BoundsOK, bounds
  <2> QED BY <2>1, <2>2, <2>3
<1>28. ASSUME NEW p \in Proc, Crash(p) PROVE FilesOK' /\ ProcOK' /\ BoundsOK'
  <2>1. FilesOK'
    BY <1>28, TempWrite DEF Crash, FilesOK
  <2>2. ProcOK'
    BY <1>28, ExitType DEF Crash, FilesOK, ProcOK, LocalsOK, Goto, Release,
       Mode, Label, WithResponse, WithOp, Looping, files, locals
  <2>3. BoundsOK'
    BY <1>28, RepairAssumption DEF Crash, BoundsOK, bounds
  <2> QED BY <2>1, <2>2, <2>3
<1>29. ASSUME NEW p \in Proc, Start(p) PROVE FilesOK' /\ ProcOK' /\ BoundsOK'
  <2>1. PICK r \in {"reader", "writer", "repair"}, o \in Op \cup {None} :
           Begin(p, r, o) /\ (r = "repair" => o \in Op)
    BY <1>29 DEF Start, BeginReader, BeginWriter, BeginRepair
  <2>2. /\ Goto(p, "want")
        /\ role' = [role EXCEPT ![p] = r] /\ cur' = [cur EXCEPT ![p] = o]
    BY <2>1 DEF Begin
  <2>3. UNCHANGED <<lock, files, plan, resp, todo, seen, bounds>>
    BY <2>1 DEF Begin
  <2>4. LocalsOK'
    BY <2>1, <2>2, <2>3 DEF ProcOK, LocalsOK, WithResponse, WithOp, Looping,
       Goto
  <2>5. ProcOK'
    BY <2>1, <2>2, <2>3, <2>4 DEF ProcOK, Goto, Label
  <2> QED BY <2>3, <2>5 DEF FilesOK, BoundsOK, files, bounds
<1>30. ASSUME NEW s \in Span, EditSpan(s) PROVE FilesOK' /\ ProcOK' /\ BoundsOK'
  <2>1. Fresh \in Bytes /\ Absent \in Bytes /\ edits + 1 \in 0..MaxEdit
    BY <1>30, FreshType, RepairAssumption DEF EditSpan, Bytes, BoundsOK
  <2> QED BY <1>30, <2>1, SpanWrite DEF EditSpan, FilesOK, ProcOK, LocalsOK,
     BoundsOK, locals
<1>31. CASE EditSource
  BY <1>31, RepairAssumption DEF EditSource, FilesOK, ProcOK, LocalsOK,
     BoundsOK, locals, bounds
<1>32. ASSUME NEW o \in Op, Age(o) PROVE FilesOK' /\ ProcOK' /\ BoundsOK'
  BY <1>32, JournalParts DEF Age, Journaled, FilesOK, ProcOK, LocalsOK,
     BoundsOK, locals, bounds
<1>33. CASE UNCHANGED vars
  BY <1>33 DEF vars, files, locals, bounds, FilesOK, ProcOK, LocalsOK, BoundsOK
<1>34. ASSUME NEW p \in Proc, Rejoin(p) PROVE FilesOK' /\ ProcOK' /\ BoundsOK'
  <2>1. FilesOK'
    BY <1>34 DEF Rejoin, FilesOK, files
  <2>2. ProcOK'
    BY <1>34 DEF Rejoin, TryAcquire, FilesOK, ProcOK, LocalsOK, Goto, Mode,
       Label, WithResponse, WithOp, Looping
  <2>3. BoundsOK'
    BY <1>34, RepairAssumption DEF Rejoin, BoundsOK, bounds
  <2> QED BY <2>1, <2>2, <2>3
<1> QED
  BY <1>1, <1>2, <1>3, <1>4, <1>5, <1>6, <1>7, <1>8, <1>9, <1>10, <1>11, <1>12,
     <1>13,
     <1>14,
     <1>15, <1>16, <1>17, <1>18, <1>19, <1>20, <1>21, <1>22, <1>23, <1>24, <1>25, <1>26, <1>27,
     <1>28, <1>29, <1>30, <1>31, <1>32, <1>33, <1>34 DEF Next, Step, Environment

\* The initial states are well typed.
LEMMA InitType == Init => TypeInv
<1> SUFFICES ASSUME Init PROVE TypeInv
  OBVIOUS
<1>1. span \in [Span -> Bytes] /\ src \in 0..MaxSrc
  BY RepairAssumption DEF Init, Bytes, Text
<1>2. marker \in Marker \cup {None} /\ journal \in [Op -> Journal \cup {None}]
  <2>1. ASSUME NEW o \in Op, LegacyNoOp(o)
        PROVE  marker \in Marker /\ journal \in [Op -> Journal \cup {None}]
    <3>1. Snapshot(o, span) \in Response
      BY <1>1, SnapshotType
    <3> QED BY <2>1, <3>1, EmptyPlan, MarkerType, JournalType DEF LegacyNoOp
  <2> QED BY <2>1 DEF Init
<1>3. FilesOK
  BY <1>1, <1>2 DEF Init, FilesOK
<1>4. LocalsOK
  BY DEF Init, LocalsOK, WithResponse, WithOp, Looping
<1>5. ProcOK
  BY <1>4, EmptyPlan, EmptySeen DEF Init, ProcOK, LockInit, Mode, Label
<1>6. BoundsOK
  BY RepairAssumption DEF Init, BoundsOK
<1> QED BY <1>3, <1>5, <1>6, TypeParts

\* Every reachable state is well typed.
THEOREM TypeCorrect == Spec => []TypeOK
<1>1. TypeInv => TypeOK
  BY DEF TypeInv
<1> QED BY <1>1, InitType, TypeStep, PTL DEF Spec

-----------------------------------------------------------------------------
(* Guards and the marker.                                                  *)

\* Labels that only a repair reaches.
Repairing == {"replay", "plan", "temps", "mark", "prepare", "apply", "rename"}

\* Every process holds the guard its label calls for, and only a repair is at
\* the labels of a repair.
GuardHeld ==
    \A p \in Proc :
        /\ pc[p] \in ExclusiveLabels => lock[p] = "exclusive"
        /\ pc[p] = "read" => lock[p] = "shared"
        /\ pc[p] = "enter" =>
             lock[p] = IF role[p] = "reader" THEN "shared" ELSE "exclusive"
        /\ pc[p] \in Repairing => role[p] = "repair"

\* Labels of a recovery, up to the removal of the marker.
Recovering == {"abort", "inspect", "back", "forward", "verify", "commit", "clear"}

\* What each process knows of the marker and of its journal while nobody else
\* can change them.
MarkerKnown ==
    \A p \in Proc :
        /\ pc[p] = "downgrade" \/ (pc[p] = "read" /\ AtomicDowngrade) => marker = None
        /\ pc[p] = "rejoin" => ~AtomicDowngrade
        /\ pc[p] \in Recovering /\ role[p] # "repair" =>
             marker # None /\ marker.op = cur[p]
        /\ pc[p] \in {"abort", "clear", "replay"} => ~Journaled(cur[p], "prepared")
        /\ pc[p] = "prepare" => marker = [op |-> cur[p], plan |-> plan[p]]

SafeInv == TypeInv /\ DomainExclusion /\ GuardHeld /\ MarkerNamesPrepared /\ MarkerKnown

\* A process that owns the domain is alone in it.
LEMMA OwnerAlone ==
    ASSUME DomainExclusion, GuardHeld, NEW p \in Proc, lock[p] = "exclusive",
           NEW q \in Proc, q # p
    PROVE  lock[q] = "none" /\ pc[q] \notin ExclusiveLabels \cup {"read", "enter"}
BY DEF DomainExclusion, GuardHeld

\* A process that leaves, leaves the domain.
LEMMA ExitGuard ==
    ASSUME ProcOK, DomainExclusion, GuardHeld, NEW p \in Proc, Exit(p)
    PROVE  DomainExclusion' /\ GuardHeld'
BY DEF Exit, Clean, ProcOK, DomainExclusion, GuardHeld, ExclusiveLabels,
   Repairing, Goto, Release

\* Every step keeps the guards and the exclusion they rest on.
LEMMA GuardStep ==
    SafeInv /\ [Next]_vars => DomainExclusion' /\ GuardHeld'
<1> SUFFICES ASSUME ProcOK, DomainExclusion, GuardHeld, [Next]_vars
             PROVE  DomainExclusion' /\ GuardHeld'
  BY TypeParts DEF SafeInv
<1>1. ASSUME NEW p \in Proc, Acquire(p) PROVE DomainExclusion' /\ GuardHeld'
  BY <1>1 DEF Acquire, ProcOK, DomainExclusion, GuardHeld, ExclusiveLabels,
     Repairing, Goto, Release, locals, TryAcquire, Compatible, ModeOf, Mode
<1>2. ASSUME NEW p \in Proc, EnterClean(p) PROVE DomainExclusion' /\ GuardHeld'
  BY <1>2 DEF EnterClean, ProcOK, DomainExclusion, GuardHeld, ExclusiveLabels,
     Repairing, Goto, Release, locals
<1>3. ASSUME NEW p \in Proc, EnterPending(p) PROVE DomainExclusion' /\ GuardHeld'
  BY <1>3 DEF EnterPending, ProcOK, DomainExclusion, GuardHeld,
     ExclusiveLabels, Repairing, Goto, Release, locals
<1>4. ASSUME NEW p \in Proc, Reacquire(p) PROVE DomainExclusion' /\ GuardHeld'
  BY <1>4 DEF Reacquire, ProcOK, DomainExclusion, GuardHeld, ExclusiveLabels,
     Repairing, Goto, Release, locals, TryAcquire, Compatible, Mode
<1>5. ASSUME NEW p \in Proc, SettleNothing(p) PROVE DomainExclusion' /\ GuardHeld'
  BY <1>5 DEF SettleNothing, ProcOK, DomainExclusion, GuardHeld,
     ExclusiveLabels, Repairing, Goto, Release, locals, Settled
<1>6. ASSUME NEW p \in Proc, SettleUnjournaled(p) PROVE DomainExclusion' /\ GuardHeld'
  BY <1>6, ExitGuard DEF SettleUnjournaled, ProcOK, DomainExclusion, GuardHeld,
     ExclusiveLabels, Repairing, Goto, Release, locals
<1>7. ASSUME NEW p \in Proc, SettleJournaled(p) PROVE DomainExclusion' /\ GuardHeld'
  BY <1>7, ExitGuard DEF SettleJournaled, ProcOK, DomainExclusion, GuardHeld,
     ExclusiveLabels, Repairing, Goto, Release, locals, Adopt
<1>8. ASSUME NEW p \in Proc, Abort(p) PROVE DomainExclusion' /\ GuardHeld'
  BY <1>8 DEF Abort, ProcOK, DomainExclusion, GuardHeld, ExclusiveLabels,
     Repairing, Goto, Release, locals
<1>9. ASSUME NEW p \in Proc, Inspect(p) PROVE DomainExclusion' /\ GuardHeld'
  BY <1>9, ExitGuard DEF Inspect, ProcOK, DomainExclusion, GuardHeld,
     ExclusiveLabels, Repairing, Goto, Release, locals
<1>10. ASSUME NEW p \in Proc, RollBack(p) PROVE DomainExclusion' /\ GuardHeld'
  BY <1>10, ExitGuard DEF RollBack, ProcOK, DomainExclusion, GuardHeld,
     ExclusiveLabels, Repairing, Goto, Release, locals
<1>11. ASSUME NEW p \in Proc, RollForward(p) PROVE DomainExclusion' /\ GuardHeld'
  BY <1>11 DEF RollForward, ProcOK, DomainExclusion, GuardHeld,
     ExclusiveLabels, Repairing, Goto, Release, locals
<1>12. ASSUME NEW p \in Proc, Verify(p) PROVE DomainExclusion' /\ GuardHeld'
  BY <1>12, ExitGuard DEF Verify, ProcOK, DomainExclusion, GuardHeld,
     ExclusiveLabels, Repairing, Goto, Release, locals
<1>13. ASSUME NEW p \in Proc, Commit(p) PROVE DomainExclusion' /\ GuardHeld'
  BY <1>13 DEF Commit, ProcOK, DomainExclusion, GuardHeld, ExclusiveLabels,
     Repairing, Goto, Release, locals
<1>14. ASSUME NEW p \in Proc, Clear(p) PROVE DomainExclusion' /\ GuardHeld'
  BY <1>14 DEF Clear, ProcOK, DomainExclusion, GuardHeld, ExclusiveLabels,
     Repairing, Goto, Release, locals, Settled
<1>15. ASSUME NEW p \in Proc, DowngradeReader(p) PROVE DomainExclusion' /\ GuardHeld'
  BY <1>15 DEF DowngradeReader, ProcOK, DomainExclusion, GuardHeld,
     ExclusiveLabels, Repairing, Goto, Release, locals, Downgrade, Mode
<1>16. ASSUME NEW p \in Proc, Read(p) PROVE DomainExclusion' /\ GuardHeld'
  <2>1. CASE Exit(p)
    BY <2>1, ExitGuard
<2>2. CASE UNCHANGED <<lock, pc, role>>
    BY <2>2 DEF DomainExclusion, GuardHeld
  <2> QED BY <1>16, <2>1, <2>2 DEF Read
<1>17. ASSUME NEW p \in Proc, Write(p) PROVE DomainExclusion' /\ GuardHeld'
  BY <1>17, ExitGuard DEF Write, ProcOK, DomainExclusion, GuardHeld,
     ExclusiveLabels, Repairing, Goto, Release, locals
<1>18. ASSUME NEW p \in Proc, Open(p) PROVE DomainExclusion' /\ GuardHeld'
  BY <1>18 DEF Open, ProcOK, DomainExclusion, GuardHeld, ExclusiveLabels,
     Repairing, Goto, Release, locals
<1>19. ASSUME NEW p \in Proc, Replay(p) PROVE DomainExclusion' /\ GuardHeld'
  BY <1>19, ExitGuard DEF Replay, ProcOK, DomainExclusion, GuardHeld,
     ExclusiveLabels, Repairing, Goto, Release, locals
<1>20. ASSUME NEW p \in Proc, PlanRepair(p) PROVE DomainExclusion' /\ GuardHeld'
  BY <1>20 DEF PlanRepair, ProcOK, DomainExclusion, GuardHeld, ExclusiveLabels,
     Repairing, Goto, Release, locals
<1>21. ASSUME NEW p \in Proc, Temps(p) PROVE DomainExclusion' /\ GuardHeld'
  BY <1>21 DEF Temps, ProcOK, DomainExclusion, GuardHeld, ExclusiveLabels,
     Repairing, Goto, Release, locals
<1>22. ASSUME NEW p \in Proc, MarkPending(p) PROVE DomainExclusion' /\ GuardHeld'
  BY <1>22, ExitGuard DEF MarkPending, ProcOK, DomainExclusion, GuardHeld,
     ExclusiveLabels, Repairing, Goto, Release, locals
<1>23. ASSUME NEW p \in Proc, Prepare(p) PROVE DomainExclusion' /\ GuardHeld'
  BY <1>23 DEF Prepare, ProcOK, DomainExclusion, GuardHeld, ExclusiveLabels,
     Repairing, Goto, Release, locals
<1>24. ASSUME NEW p \in Proc, Apply(p) PROVE DomainExclusion' /\ GuardHeld'
  BY <1>24, ExitGuard DEF Apply, ProcOK, DomainExclusion, GuardHeld,
     ExclusiveLabels, Repairing, Goto, Release, locals
<1>25. ASSUME NEW p \in Proc, Rename(p) PROVE DomainExclusion' /\ GuardHeld'
  BY <1>25 DEF Rename, ProcOK, DomainExclusion, GuardHeld, ExclusiveLabels,
     Repairing, Goto, Release, locals
<1>26. ASSUME NEW p \in Proc, Acknowledge(p) PROVE DomainExclusion' /\ GuardHeld'
  BY <1>26, ExitGuard DEF Acknowledge, ProcOK, DomainExclusion, GuardHeld,
     ExclusiveLabels, Repairing, Goto, Release, locals
<1>27. ASSUME NEW p \in Proc, LockTimeout(p) PROVE DomainExclusion' /\ GuardHeld'
  BY <1>27, ExitGuard DEF LockTimeout, ProcOK, DomainExclusion, GuardHeld,
     ExclusiveLabels, Repairing, Goto, Release, locals
<1>28. ASSUME NEW p \in Proc, Crash(p) PROVE DomainExclusion' /\ GuardHeld'
  BY <1>28, ExitGuard DEF Crash, ProcOK, DomainExclusion, GuardHeld,
     ExclusiveLabels, Repairing, Goto, Release, locals
<1>29. ASSUME NEW p \in Proc, Start(p) PROVE DomainExclusion' /\ GuardHeld'
  BY <1>29 DEF Start, BeginReader, BeginWriter, BeginRepair, Begin, ProcOK,
     DomainExclusion, GuardHeld, ExclusiveLabels, Repairing, Goto, Release,
     locals
<1>30. CASE UNCHANGED <<lock, pc, role>>
  BY <1>30 DEF DomainExclusion, GuardHeld
<1>31. ASSUME NEW p \in Proc, Rejoin(p) PROVE DomainExclusion' /\ GuardHeld'
  BY <1>31 DEF Rejoin, ProcOK, DomainExclusion, GuardHeld, ExclusiveLabels,
     Repairing, Goto, TryAcquire, Compatible, Mode
<1> QED
  BY <1>1, <1>2, <1>3, <1>4, <1>5, <1>6, <1>7, <1>8, <1>9, <1>10, <1>11, <1>12,
     <1>13,
     <1>14,
     <1>15, <1>16, <1>17, <1>18, <1>19, <1>20, <1>21, <1>22, <1>23, <1>24, <1>25, <1>26, <1>27,
     <1>28, <1>29, <1>30, <1>31
  DEF Next, Step, Environment, EditSpan, EditSource, Age, vars, locals

\* Every step keeps what is known of the marker and the journals.
LEMMA MarkerStep ==
    SafeInv /\ [Next]_vars => MarkerNamesPrepared' /\ MarkerKnown'
<1> SUFFICES ASSUME TypeInv, FilesOK, ProcOK, DomainExclusion, GuardHeld, MarkerNamesPrepared,
                    MarkerKnown, [Next]_vars
             PROVE  MarkerNamesPrepared' /\ MarkerKnown'
  BY TypeParts DEF SafeInv
<1>1. ASSUME NEW p \in Proc, Acquire(p) PROVE MarkerNamesPrepared' /\ MarkerKnown'
  BY <1>1, OwnerAlone DEF Acquire, ProcOK, LocalsOK, GuardHeld,
     MarkerNamesPrepared, MarkerKnown, Journaled, ExclusiveLabels, Repairing,
     Recovering, Goto, files, locals
<1>2. ASSUME NEW p \in Proc, EnterClean(p) PROVE MarkerNamesPrepared' /\ MarkerKnown'
  BY <1>2, OwnerAlone DEF EnterClean, ProcOK, LocalsOK, GuardHeld,
     MarkerNamesPrepared, MarkerKnown, Journaled, ExclusiveLabels, Repairing,
     Recovering, Goto, files, locals
<1>3. ASSUME NEW p \in Proc, EnterPending(p) PROVE MarkerNamesPrepared' /\ MarkerKnown'
  BY <1>3, OwnerAlone DEF EnterPending, ProcOK, LocalsOK, GuardHeld,
     MarkerNamesPrepared, MarkerKnown, Journaled, ExclusiveLabels, Repairing,
     Recovering, Goto, files, locals
<1>4. ASSUME NEW p \in Proc, Reacquire(p) PROVE MarkerNamesPrepared' /\ MarkerKnown'
  BY <1>4, OwnerAlone DEF Reacquire, ProcOK, LocalsOK, GuardHeld,
     MarkerNamesPrepared, MarkerKnown, Journaled, ExclusiveLabels, Repairing,
     Recovering, Goto, files, locals
<1>5. ASSUME NEW p \in Proc, SettleNothing(p) PROVE MarkerNamesPrepared' /\ MarkerKnown'
  BY <1>5, OwnerAlone DEF SettleNothing, ProcOK, LocalsOK, GuardHeld,
     MarkerNamesPrepared, MarkerKnown, Journaled, ExclusiveLabels, Repairing,
     Recovering, Goto, files, locals, Settled
<1>6. ASSUME NEW p \in Proc, SettleUnjournaled(p) PROVE MarkerNamesPrepared' /\ MarkerKnown'
  BY <1>6, OwnerAlone DEF SettleUnjournaled, ProcOK, LocalsOK, GuardHeld,
     MarkerNamesPrepared, MarkerKnown, Journaled, ExclusiveLabels, Repairing,
     Recovering, Goto, files, locals, Exit, Clean
<1>7. ASSUME NEW p \in Proc, SettleJournaled(p) PROVE MarkerNamesPrepared' /\ MarkerKnown'
  BY <1>7, OwnerAlone DEF SettleJournaled, ProcOK, LocalsOK, GuardHeld,
     MarkerNamesPrepared, MarkerKnown, Journaled, ExclusiveLabels, Repairing,
     Recovering, Goto, files, locals, Adopt, Exit, Clean
<1>8. ASSUME NEW p \in Proc, Abort(p) PROVE MarkerNamesPrepared' /\ MarkerKnown'
  BY <1>8, OwnerAlone DEF Abort, ProcOK, LocalsOK, GuardHeld,
     MarkerNamesPrepared, MarkerKnown, Journaled, ExclusiveLabels, Repairing,
     Recovering, Goto, files, locals
<1>9. ASSUME NEW p \in Proc, Inspect(p) PROVE MarkerNamesPrepared' /\ MarkerKnown'
  BY <1>9, OwnerAlone DEF Inspect, ProcOK, LocalsOK, GuardHeld,
     MarkerNamesPrepared, MarkerKnown, Journaled, ExclusiveLabels, Repairing,
     Recovering, Goto, files, locals, Exit, Clean
<1>10. ASSUME NEW p \in Proc, RollBack(p) PROVE MarkerNamesPrepared' /\ MarkerKnown'
  BY <1>10, OwnerAlone DEF RollBack, ProcOK, LocalsOK, GuardHeld,
     MarkerNamesPrepared, MarkerKnown, Journaled, ExclusiveLabels, Repairing,
     Recovering, Goto, files, locals, Exit, Clean
<1>11. ASSUME NEW p \in Proc, RollForward(p) PROVE MarkerNamesPrepared' /\ MarkerKnown'
  BY <1>11, OwnerAlone DEF RollForward, ProcOK, LocalsOK, GuardHeld,
     MarkerNamesPrepared, MarkerKnown, Journaled, ExclusiveLabels, Repairing,
     Recovering, Goto, files, locals
<1>12. ASSUME NEW p \in Proc, Verify(p) PROVE MarkerNamesPrepared' /\ MarkerKnown'
  BY <1>12, OwnerAlone DEF Verify, ProcOK, LocalsOK, GuardHeld,
     MarkerNamesPrepared, MarkerKnown, Journaled, ExclusiveLabels, Repairing,
     Recovering, Goto, files, locals, Exit, Clean
<1>13. ASSUME NEW p \in Proc, Commit(p) PROVE MarkerNamesPrepared' /\ MarkerKnown'
  <2>1. cur[p] \in Op
    BY <1>13, CarriedResponse DEF Commit, WithResponse
  <2>2. /\ \A o \in Op : o # cur[p] => journal'[o] = journal[o]
        /\ journal'[cur[p]].state = "committed"
    BY <1>13, <2>1 DEF Commit, FilesOK
  <2>3. MarkerNamesPrepared'
    BY <1>13, <2>2 DEF Commit, MarkerNamesPrepared, Journaled
  <2>4. ASSUME NEW q \in Proc, q # p
        PROVE  pc[q] \notin {"read", "downgrade", "prepare", "replay"} \cup Recovering
    BY <1>13, <2>4, OwnerAlone DEF Commit, GuardHeld, ExclusiveLabels,
       Repairing, Recovering
  <2>5. MarkerKnown'
    BY <1>13, <2>2, <2>4 DEF Commit, Journaled, MarkerKnown, ProcOK, Goto,
       Recovering, locals
  <2> QED BY <2>3, <2>5
<1>14. ASSUME NEW p \in Proc, Clear(p) PROVE MarkerNamesPrepared' /\ MarkerKnown'
  BY <1>14, OwnerAlone DEF Clear, ProcOK, LocalsOK, GuardHeld,
     MarkerNamesPrepared, MarkerKnown, Journaled, ExclusiveLabels, Repairing,
     Recovering, Goto, files, locals, Settled
<1>15. ASSUME NEW p \in Proc, DowngradeReader(p) PROVE MarkerNamesPrepared' /\ MarkerKnown'
  BY <1>15, OwnerAlone DEF DowngradeReader, ProcOK, LocalsOK, GuardHeld,
     MarkerNamesPrepared, MarkerKnown, Journaled, ExclusiveLabels, Repairing,
     Recovering, Goto, files, locals
<1>16. ASSUME NEW p \in Proc, Read(p) PROVE MarkerNamesPrepared' /\ MarkerKnown'
  <2>1. UNCHANGED <<marker, journal>>
    BY <1>16 DEF Read, files
  <2>2. MarkerNamesPrepared'
    BY <2>1 DEF MarkerNamesPrepared, Journaled
  <2>3. CASE Exit(p)
    BY <2>1, <2>2, <2>3 DEF Exit, Clean, Goto, ProcOK, MarkerKnown, Journaled,
       Recovering
  <2>4. CASE UNCHANGED <<pc, role, cur, plan>>
    BY <1>16, <2>1, <2>2, <2>4 DEF Goto, ProcOK, MarkerKnown, Journaled,
       Recovering, locals
  <2> QED BY <1>16, <2>2, <2>3, <2>4 DEF Read
<1>17. ASSUME NEW p \in Proc, Write(p) PROVE MarkerNamesPrepared' /\ MarkerKnown'
  BY <1>17, OwnerAlone DEF Write, ProcOK, LocalsOK, GuardHeld,
     MarkerNamesPrepared, MarkerKnown, Journaled, ExclusiveLabels, Repairing,
     Recovering, Goto, files, locals, Exit, Clean
<1>18. ASSUME NEW p \in Proc, Open(p) PROVE MarkerNamesPrepared' /\ MarkerKnown'
  BY <1>18, OwnerAlone DEF Open, ProcOK, LocalsOK, GuardHeld,
     MarkerNamesPrepared, MarkerKnown, Journaled, ExclusiveLabels, Repairing,
     Recovering, Goto, files, locals, Unexpired
<1>19. ASSUME NEW p \in Proc, Replay(p) PROVE MarkerNamesPrepared' /\ MarkerKnown'
  <2>1. UNCHANGED <<marker, journal>>
    BY <1>19 DEF Replay, files
  <2>2. MarkerNamesPrepared'
    BY <2>1 DEF MarkerNamesPrepared, Journaled
  <2>3. CASE Exit(p)
    BY <2>1, <2>2, <2>3 DEF Exit, Clean, Goto, ProcOK, MarkerKnown, Journaled,
       Recovering
  <2>4. CASE pc[p] = "replay" /\ Goto(p, "clear") /\ UNCHANGED locals
    BY <1>19, <2>1, <2>2, <2>4 DEF Goto, ProcOK, GuardHeld, Repairing,
       MarkerKnown, Journaled, Recovering, locals
  <2> QED BY <1>19, <2>2, <2>3, <2>4 DEF Replay
<1>20. ASSUME NEW p \in Proc, PlanRepair(p) PROVE MarkerNamesPrepared' /\ MarkerKnown'
  BY <1>20, OwnerAlone DEF PlanRepair, ProcOK, LocalsOK, GuardHeld,
     MarkerNamesPrepared, MarkerKnown, Journaled, ExclusiveLabels, Repairing,
     Recovering, Goto, files, locals
<1>21. ASSUME NEW p \in Proc, Temps(p) PROVE MarkerNamesPrepared' /\ MarkerKnown'
  <2>1. cur[p] \in Op
    BY <1>21, CarriedResponse DEF Temps, WithResponse
  <2>2. /\ \A o \in Op : Journaled(o, "prepared")' =>
             Journaled(o, "prepared") /\ journal'[o] = journal[o]
        /\ marker' = marker
    <3>1. CASE journal' = journal
      BY <1>21, <3>1 DEF Temps, Journaled
    <3>2. CASE journal' # journal
      <4>1. journal' = [journal EXCEPT ![cur[p]] =
              [state |-> "committed", plan |-> plan[p], resp |-> resp[p], old |-> FALSE]]
        BY <1>21, <3>2 DEF Temps
      <4>2. /\ \A o \in Op : o # cur[p] => journal'[o] = journal[o]
            /\ journal'[cur[p]].state = "committed"
        BY <2>1, <4>1 DEF FilesOK
      <4> QED BY <1>21, <4>2 DEF Temps, Journaled
    <3> QED BY <3>1, <3>2
  <2>3. MarkerNamesPrepared'
    BY <2>2 DEF MarkerNamesPrepared
  <2>4. ASSUME NEW q \in Proc, q # p
        PROVE  pc[q] \notin {"read", "downgrade", "prepare", "replay"} \cup Recovering
    BY <1>21, <2>4, OwnerAlone DEF Temps, GuardHeld, ExclusiveLabels,
       Repairing, Recovering
  <2>5. pc'[p] \in {"temps", "mark", "reply"}
    BY <1>21 DEF Temps, ProcOK, Goto
  <2>6. MarkerKnown'
    BY <1>21, <2>4, <2>5 DEF Temps, MarkerKnown, ProcOK, Goto, Recovering
  <2> QED BY <2>3, <2>6
<1>22. ASSUME NEW p \in Proc, MarkPending(p) PROVE MarkerNamesPrepared' /\ MarkerKnown'
  BY <1>22, OwnerAlone DEF MarkPending, ProcOK, LocalsOK, GuardHeld,
     MarkerNamesPrepared, MarkerKnown, Journaled, ExclusiveLabels, Repairing,
     Recovering, Goto, files, locals, Exit, Clean
<1>23. ASSUME NEW p \in Proc, Prepare(p) PROVE MarkerNamesPrepared' /\ MarkerKnown'
  <2>1. cur[p] \in Op /\ plan[p] \in Plan
    BY <1>23, CarriedResponse DEF Prepare, WithResponse, ProcOK
  <2>2. marker = [op |-> cur[p], plan |-> plan[p]] /\ marker # None
    BY <1>23, <2>1, MarkerType, NoneAssumption DEF Prepare, MarkerKnown
  <2>3. /\ \A o \in Op : o # cur[p] => journal'[o] = journal[o]
        /\ journal'[cur[p]].plan = plan[p]
    BY <1>23, <2>1 DEF Prepare, FilesOK
  <2>4. MarkerNamesPrepared'
    BY <1>23, <2>2, <2>3 DEF Prepare, MarkerNamesPrepared, Journaled
  <2>5. ASSUME NEW q \in Proc, q # p
        PROVE  pc[q] \notin {"read", "downgrade", "prepare", "replay"} \cup Recovering
    BY <1>23, <2>5, OwnerAlone DEF Prepare, GuardHeld, ExclusiveLabels,
       Repairing, Recovering
  <2>6. MarkerKnown'
    BY <1>23, <2>5 DEF Prepare, MarkerKnown, ProcOK, Goto, Recovering
  <2> QED BY <2>4, <2>6
<1>24. ASSUME NEW p \in Proc, Apply(p) PROVE MarkerNamesPrepared' /\ MarkerKnown'
  <2>1. UNCHANGED <<marker, journal>>
    BY <1>24 DEF Apply, files
  <2>2. MarkerNamesPrepared'
    BY <2>1 DEF MarkerNamesPrepared, Journaled
  <2>3. CASE Exit(p)
    BY <2>1, <2>2, <2>3 DEF Exit, Clean, Goto, ProcOK, MarkerKnown, Journaled,
       Recovering
  <2>4. CASE pc[p] = "apply" /\ \E label \in {"verify", "rename"} : Goto(p, label) /\ UNCHANGED locals
    BY <1>24, <2>1, <2>2, <2>4 DEF Goto, ProcOK, GuardHeld, Repairing,
       MarkerKnown, Journaled, Recovering, locals
  <2> QED BY <1>24, <2>2, <2>3, <2>4 DEF Apply
<1>25. ASSUME NEW p \in Proc, Rename(p) PROVE MarkerNamesPrepared' /\ MarkerKnown'
  BY <1>25, OwnerAlone DEF Rename, ProcOK, LocalsOK, GuardHeld,
     MarkerNamesPrepared, MarkerKnown, Journaled, ExclusiveLabels, Repairing,
     Recovering, Goto, files, locals
<1>26. ASSUME NEW p \in Proc, Acknowledge(p) PROVE MarkerNamesPrepared' /\ MarkerKnown'
  BY <1>26, OwnerAlone DEF Acknowledge, ProcOK, LocalsOK, GuardHeld,
     MarkerNamesPrepared, MarkerKnown, Journaled, ExclusiveLabels, Repairing,
     Recovering, Goto, files, locals, Exit, Clean
<1>27. ASSUME NEW p \in Proc, LockTimeout(p) PROVE MarkerNamesPrepared' /\ MarkerKnown'
  BY <1>27, OwnerAlone DEF LockTimeout, ProcOK, LocalsOK, GuardHeld,
     MarkerNamesPrepared, MarkerKnown, Journaled, ExclusiveLabels, Repairing,
     Recovering, Goto, files, locals, Exit, Clean
<1>28. ASSUME NEW p \in Proc, Crash(p) PROVE MarkerNamesPrepared' /\ MarkerKnown'
  BY <1>28, OwnerAlone DEF Crash, ProcOK, LocalsOK, GuardHeld,
     MarkerNamesPrepared, MarkerKnown, Journaled, ExclusiveLabels, Repairing,
     Recovering, Goto, files, locals, Exit, Clean
<1>29. ASSUME NEW p \in Proc, Start(p) PROVE MarkerNamesPrepared' /\ MarkerKnown'
  BY <1>29 DEF Start, BeginReader, BeginWriter, BeginRepair, Begin, ProcOK,
     LocalsOK, GuardHeld, MarkerNamesPrepared, MarkerKnown, Journaled,
     ExclusiveLabels, Repairing, Recovering, Goto, files, locals
<1>30. CASE UNCHANGED <<marker, journal, pc, locals>>
  BY <1>30 DEF MarkerNamesPrepared, MarkerKnown, Journaled, locals
<1>31. ASSUME NEW o \in Op, Age(o) PROVE MarkerNamesPrepared' /\ MarkerKnown'
  BY <1>31 DEF Age, FilesOK, ProcOK, LocalsOK, GuardHeld, MarkerNamesPrepared,
     MarkerKnown, Journaled, ExclusiveLabels, Repairing, Recovering, Goto,
     files, locals
<1>32. ASSUME NEW p \in Proc, Rejoin(p) PROVE MarkerNamesPrepared' /\ MarkerKnown'
  BY <1>32, OwnerAlone DEF Rejoin, ProcOK, MarkerNamesPrepared, MarkerKnown,
     Journaled, Recovering, Goto, files
<1> QED
  BY <1>1, <1>2, <1>3, <1>4, <1>5, <1>6, <1>7, <1>8, <1>9, <1>10, <1>11, <1>12,
     <1>13,
     <1>14,
     <1>15, <1>16, <1>17, <1>18, <1>19, <1>20, <1>21, <1>22, <1>23, <1>24, <1>25, <1>26, <1>27,
     <1>28, <1>29, <1>30, <1>31, <1>32
  DEF Next, Step, Environment, EditSpan, EditSource, vars, files

\* The inductive invariant holds in every reachable state.
LEMMA SafeInvariant == Spec => []SafeInv
<1>1. Init => SafeInv
  <2>1. Init => TypeInv
    BY InitType
  <2>2. Init => DomainExclusion /\ GuardHeld
    BY DEF Init, LockInit, DomainExclusion, GuardHeld, ExclusiveLabels,
       Repairing
  <2>3. Init => MarkerNamesPrepared
    <3> SUFFICES ASSUME Init, NEW o \in Op, LegacyNoOp(o) PROVE MarkerNamesPrepared
      BY DEF Init, MarkerNamesPrepared, Journaled
    <3>1. marker # None
      BY EmptyPlan, MarkerType, NoneAssumption DEF LegacyNoOp
    <3> QED BY <3>1 DEF LegacyNoOp, MarkerNamesPrepared, Journaled
  <2>4. Init => MarkerKnown
    BY DEF Init, MarkerKnown, Recovering
  <2> QED BY <2>1, <2>2, <2>3, <2>4 DEF SafeInv
<1>2. SafeInv /\ [Next]_vars => SafeInv'
  BY TypeStep, GuardStep, MarkerStep DEF SafeInv
<1> QED BY <1>1, <1>2, PTL DEF Spec

\* Whoever plans, applies or settles a repair, or writes, does so alone: on
\* every path through acquire_reader, acquire_writer and execute, through the
\* hand-over between reading and recovering, errors, deadlines and deaths.
THEOREM MutatesAlone == Spec => []MutationIsAlone
<1>1. SafeInv => MutationIsAlone
  <2> SUFFICES ASSUME SafeInv, NEW p \in Proc, NEW q \in Proc, p # q, pc[p] \in ExclusiveLabels
               PROVE  pc[q] \notin ExclusiveLabels \cup {"read"}
    BY DEF MutationIsAlone
  <2>1. lock[p] = "exclusive"
    BY DEF SafeInv, GuardHeld
  <2> QED BY <2>1, OwnerAlone DEF SafeInv
<1> QED BY <1>1, SafeInvariant, PTL

\* A prepared journal is always named by the pending marker.
THEOREM PreparedIsMarked == Spec => []MarkerNamesPrepared
BY SafeInvariant, PTL DEF SafeInv

\* Where flock converts its lock in one step, readers observe settled spans
\* only, after any number of crashes, retries, edits and refused recoveries.
THEOREM SettledReads ==
    ASSUME AtomicDowngrade PROVE Spec => []ReadersSeeSettled
<1>1. SafeInv => ReadersSeeSettled
  BY DEF SafeInv, MarkerKnown, MarkerNamesPrepared, ReadersSeeSettled
<1> QED BY <1>1, SafeInvariant, PTL

\* While any process reads, no step of a repair, a recovery or a writer
\* changes a span file: only an unlocked edit can.
THEOREM ReadsAreStable == Spec => ReadsStable
<1>1. SafeInv /\ [Next]_vars => ReadStability
  <2> SUFFICES ASSUME SafeInv, Next, NEW q \in Proc, pc[q] = "read", edits' = edits
               PROVE  span' = span
    BY DEF ReadStability, vars, files
  <2>1. \A p \in Proc : pc[p] \notin ExclusiveLabels
    BY OwnerAlone DEF SafeInv, GuardHeld, ExclusiveLabels
  <2>2. ASSUME NEW p \in Proc, Start(p) \/ Step(p) \/ LockTimeout(p) \/ Crash(p)
        PROVE  span' = span
    <3>1. pc[p] \notin {"back", "forward", "write", "rename"}
      BY <2>1 DEF ExclusiveLabels
    <3>2. CASE Start(p) \/ LockTimeout(p) \/ Crash(p)
      BY <3>2 DEF Start, BeginReader, BeginWriter, BeginRepair, Begin,
         LockTimeout, Crash, files
    <3>3. CASE Step(p)
      BY <3>1, <3>3 DEF Step, Acquire, EnterClean, EnterPending, Reacquire,
         SettleNothing, SettleUnjournaled, SettleJournaled, Abort, Inspect,
         RollBack, RollForward, Verify, Commit, Clear, DowngradeReader, Rejoin,
         Read, Write, Open, Replay, PlanRepair, Temps, MarkPending, Prepare,
         Apply, Rename, Acknowledge, files
    <3> QED BY <2>2, <3>2, <3>3
  <2>3. ASSUME NEW s \in Span, EditSpan(s) PROVE FALSE
    BY <2>3, TypeParts DEF EditSpan, SafeInv, BoundsOK
  <2>4. EditSource \/ (\E o \in Op : Age(o)) => span' = span
    BY DEF EditSource, Age
  <2> QED
    BY <2>2, <2>3, <2>4 DEF Next, Environment
<1> QED BY <1>1, SafeInvariant, PTL DEF Spec, ReadsStable
=============================================================================
