------------------------- MODULE AtomicRepairProofs -------------------------
(***************************************************************************)
(* ContextRepair implements AtomicRepair, for every set of processes,      *)
(* operations and spans and for every bound: one lemma for each kind of    *)
(* step, and the theorem.                                                  *)
(***************************************************************************)
EXTENDS ContextRepairJournalProofs

-----------------------------------------------------------------------------
(* The parts of the invariant, before and after a step. *)
LEMMA SafeParts ==
    /\ SafeInv => TypeInv /\ FilesOK /\ ProcOK /\ BoundsOK /\ MarkerNamesPrepared
    /\ SafeInv' => FilesOK' /\ ProcOK' /\ MarkerNamesPrepared'
<1>1. SafeInv => TypeInv /\ FilesOK /\ ProcOK /\ BoundsOK /\ MarkerNamesPrepared
  BY TypeParts DEF SafeInv
<1> QED BY <1>1, PTL

-----------------------------------------------------------------------------
(* The mapping.                                                            *)

\* The two maps with nothing in them are the same.
LEMMA SameEmptyMap == Promise!EmptyMap = EmptyMap
BY DEF Promise!EmptyMap, EmptyMap

LEMMA IsEmptyMap ==
    ASSUME NEW S, NEW T, NEW f \in [S -> T], DOMAIN f = {}
    PROVE  f = EmptyMap
BY DEF EmptyMap

\* A prepared journal is the one the marker names.
LEMMA PreparedNamed ==
    ASSUME FilesOK, MarkerNamesPrepared, NEW o \in Op, Journaled(o, "prepared")
    PROVE  /\ marker \in Marker /\ marker # None /\ marker.op = o
           /\ marker.plan = journal[o].plan /\ marker.plan \in Plan
BY DEF FilesOK, MarkerNamesPrepared, Marker

\* With nothing prepared, the files are what they are.
NothingPrepared == \A o \in Op : ~Journaled(o, "prepared")

LEMMA NothingToUndo ==
    FilesOK /\ NothingPrepared => Before = span
<1> SUFFICES ASSUME FilesOK, \A o \in Op : ~Journaled(o, "prepared") PROVE Before = span
  BY DEF NothingPrepared
<1>1. marker # None => marker.op \in Op
  BY DEF FilesOK, Marker
<1>2. \A s \in Span : Unrepaired(s) = span[s]
  BY <1>1 DEF Unrepaired
<1> QED BY <1>2 DEF Before, FilesOK

\* With a prepared repair, they are what they were before it.
Undoes ==
    \A o \in Op, s \in Span : Journaled(o, "prepared") =>
        Before[s] = IF s \in DOMAIN journal[o].plan /\ span[s] = journal[o].plan[s].new
                    THEN journal[o].plan[s].orig ELSE span[s]

LEMMA ToUndo == FilesOK /\ MarkerNamesPrepared => Undoes
BY PreparedNamed DEF Before, Unrepaired, Undoes

LEMMA BeforeType == FilesOK => Before \in [Span -> Bytes]
<1> SUFFICES ASSUME FilesOK, NEW s \in Span PROVE Unrepaired(s) \in Bytes
  BY DEF Before
<1>1. marker # None /\ s \in DOMAIN marker.plan => marker.plan[s].orig \in Bytes
  BY PlanEntry DEF FilesOK, Marker, Bytes
<1> QED BY <1>1 DEF Unrepaired, FilesOK

LEMMA BeforeTypes ==
    /\ FilesOK => Before \in [Span -> Bytes]
    /\ FilesOK' => Before' \in [Span -> Bytes]
<1>1. (FilesOK => Before \in [Span -> Bytes])'
  BY BeforeType, PTL
<1> QED BY <1>1, BeforeType

\* The states of a request are those of its journal.
LEMMA RequestState ==
    ASSUME FilesOK, NEW o \in Op
    PROVE  /\ Promise!InState(o, "none") <=> journal[o] = None
           /\ \A state \in {"prepared", "committed", "delivered"} :
                Promise!InState(o, state) <=> Journaled(o, state)
BY DEF FilesOK, Journal, Request, Promise!InState, Journaled

\* Nobody reads while somebody owns the domain.
LEMMA NobodyReadsBeside ==
    ASSUME SafeInv, ProcOK, SeenKnown, NEW p \in Proc, pc[p] \in ExclusiveLabels
    PROVE  Promise!NobodyReads
<1> SUFFICES ASSUME NEW q \in Proc PROVE seen[q] = EmptyMap
  BY SameEmptyMap DEF Promise!NobodyReads
<1>1. pc[q] # "read"
  BY OwnerAlone DEF SafeInv, GuardHeld, ExclusiveLabels
<1>2. PICK S \in SUBSET Span : seen[q] \in [S -> Bytes]
  BY DEF ProcOK
<1> QED BY <1>1, <1>2, IsEmptyMap DEF SeenKnown

-----------------------------------------------------------------------------
(* The files.                                                              *)

\* A third party changes one file, whether a repair is under way or not.
LEMMA ThirdMapped ==
    ASSUME TypeInv, FilesOK, FilesOK', PlansFromPast, ByThird, journal' = journal, marker' = marker
    PROVE  \E t \in Span : /\ edits' = edits + 1
                           /\ \E b \in Bytes : Before' = [Before EXCEPT ![t] = b]
<1>1. PICK t \in Span, b \in {Fresh, Absent} : span' = [span EXCEPT ![t] = b]
  BY DEF ByThird
<1>2. \A s \in Span \ {t} : Before'[s] = Before[s]
  BY <1>1 DEF Before, Unrepaired, Journaled, FilesOK
<1>3. Before \in [Span -> Bytes] /\ Before' \in [Span -> Bytes]
  BY BeforeTypes
<1>4. Before' = [Before EXCEPT ![t] = Before'[t]]
  BY <1>2, <1>3
<1> QED BY <1>3, <1>4 DEF ByThird

\* A write of a repair or a recovery, of a target that holds its original or
\* planned bytes, does not change what the file was before the repair.
LEMMA WriteHidden ==
    ASSUME SafeInv, FilesOK, FilesOK', MarkerNamesPrepared', PlansFromPast, NEW o \in Op,
           Journaled(o, "prepared"), journal' = journal, NEW t \in DOMAIN journal[o].plan,
           span[t] \in {journal[o].plan[t].orig, journal[o].plan[t].new},
           NEW b \in {journal[o].plan[t].orig, journal[o].plan[t].new},
           span' = [span EXCEPT ![t] = b]
    PROVE  Before' = Before
<1> DEFINE f == journal[o].plan
<1>1. f \in Plan /\ FromPast(f)
  BY PreparedNamed DEF SafeInv, PlansFromPast, Journaled
<1>2. t \in Span /\ f[t].orig # f[t].new
  BY <1>1, PlanEntry, EntryMoves
<1>3. Journaled(o, "prepared")'
  BY DEF Journaled
<1>6. Undoes /\ Undoes'
  <2>1. (FilesOK /\ MarkerNamesPrepared => Undoes)'
    BY ToUndo, PTL
  <2> QED BY <2>1, ToUndo DEF SafeInv
<1>4. ASSUME NEW s \in Span PROVE Before'[s] = Before[s]
  <2>1. Before[s] = IF s \in DOMAIN f /\ span[s] = f[s].new THEN f[s].orig ELSE span[s]
    BY <1>6 DEF Undoes
  <2>2. Before'[s] = IF s \in DOMAIN f /\ span'[s] = f[s].new THEN f[s].orig ELSE span'[s]
    BY <1>3, <1>6 DEF Undoes
  <2>3. CASE s # t
    BY <2>1, <2>2, <2>3 DEF FilesOK
  <2>4. CASE s = t
    BY <1>2, <2>1, <2>2, <2>4 DEF FilesOK
  <2> QED BY <2>3, <2>4
<1>5. Before \in [Span -> Bytes] /\ Before' \in [Span -> Bytes]
  BY BeforeTypes
<1> QED BY <1>4, <1>5

\* So a step of a process that leaves the journals and is no third party's
\* leaves the files as they were.
LEMMA FilesMapped ==
    ASSUME SafeInv, SafeInv', JournalInv, ~EditWindow, NEW p \in Proc, Acts(p),
           journal' = journal, edits' = edits
    PROVE  Before' = Before
<1> USE DEF JournalInv
<1>0. FilesOK /\ FilesOK' /\ ProcOK /\ edits \in Nat /\ MarkerNamesPrepared'
  BY SafeParts, RepairAssumption DEF BoundsOK
<1>1. CASE UNCHANGED <<span, marker>>
  BY <1>1 DEF Before, Unrepaired, Journaled
<1>2. ASSUME pc[p] \in {"back", "forward", "rename"} PROVE Before' = Before
  <2>1. /\ Journaled(cur[p], "prepared") /\ journal[cur[p]].plan = plan[p]
        /\ cur[p] \in Op /\ todo[p] \subseteq DOMAIN plan[p]
    BY <1>0, <1>2 DEF JournalKnown, Executing, ProcOK, LocalsOK, WithOp, WithResponse, Looping
  <2>2. CASE Restores(p)
    <3>1. PICK t \in todo[p] : span' = [span EXCEPT ![t] = plan[p][t].orig]
      BY <2>2 DEF Restores
    <3>2. span[t] = plan[p][t].new
      BY <2>2 DEF Restores, Checked
    <3> QED BY <1>0, <2>1, <3>1, <3>2, WriteHidden
  <2>3. CASE Installs(p)
    <3>1. PICK t \in todo[p] : First(todo[p], t) /\ span' = [span EXCEPT ![t] = plan[p][t].new]
      BY <2>3 DEF Installs
    <3>2. span[t] \in {plan[p][t].orig, plan[p][t].new}
      BY <2>3, <3>1 DEF Installs, Checked
    <3> QED BY <1>0, <2>1, <3>1, <3>2, WriteHidden
  <2>4. CASE UNCHANGED span
    BY <1>1, <1>2, <2>4, MarkerMoves
  <2> QED BY <1>0, <2>2, <2>3, <2>4, SpanMoves DEF ByThird
<1>3. ASSUME marker' # marker, span' = span PROVE Before' = Before
  <2>1. \A o \in Op : ~Journaled(o, "prepared")
    <3>1. CASE pc[p] = "mark" /\ marker \in {None, marker'} /\ marker' = [op |-> cur[p], plan |-> plan[p]]
      BY <1>3, <3>1 DEF SafeInv, MarkerNamesPrepared
    <3>2. CASE pc[p] = "clear" /\ marker.op = cur[p]
      BY <3>2 DEF SafeInv, MarkerNamesPrepared, MarkerKnown
    <3> QED BY <1>3, <3>1, <3>2, MarkerMoves
  <2>2. \A o \in Op : ~Journaled(o, "prepared")'
    BY <2>1 DEF Journaled
  <2>3. Before = span /\ Before' = span'
    <3>1. (FilesOK /\ NothingPrepared => Before = span)'
      BY NothingToUndo, PTL
    <3> QED BY <1>0, <2>1, <2>2, <3>1, NothingToUndo DEF NothingPrepared
  <2> QED BY <1>3, <2>3
<1>4. CASE UNCHANGED span
  BY <1>1, <1>3, <1>4
<1> QED BY <1>0, <1>2, <1>4, SpanMoves DEF ByThird, Restores, Installs

-----------------------------------------------------------------------------
(* The steps.                                                              *)

\* Only the request of an operation whose journal changes does.
LEMMA RequestSets ==
    ASSUME FilesOK, NEW o \in Op, \A q \in Op \ {o} : journal'[q] = journal[q]
    PROVE  Promise!Sets(o)
BY DEF Promise!Sets, Request

LEMMA PrepareMapped ==
    ASSUME SafeInv, JournalInv, NEW p \in Proc, Prepare(p)
    PROVE  Promise!Prepare(cur[p])
<1>0. FilesOK /\ ProcOK
  BY SafeParts
<1>1. /\ pc[p] = "prepare" /\ cur[p] \in Op /\ plan[p] \in Plan /\ resp[p] \in Response
      /\ journal[cur[p]] = None /\ marker = [op |-> cur[p], plan |-> plan[p]]
  BY <1>0 DEF Prepare, ProcOK, LocalsOK, WithOp, WithResponse, JournalInv, JournalKnown,
     Unjournaled, SafeInv, MarkerKnown
<1> DEFINE o == cur[p]
           j == [state |-> "prepared", plan |-> plan[p], resp |-> resp[p], old |-> FALSE]
<1>2. journal'[o] = j /\ \A q \in Op \ {o} : journal'[q] = journal[q]
  BY <1>0, <1>1 DEF Prepare, FilesOK
<1>3. \A q \in Op : ~Journaled(q, "prepared")
  BY <1>1 DEF SafeInv, MarkerNamesPrepared, Journaled
<1>4. Promise!InState(o, "none") /\ Promise!NothingPending
  BY <1>0, <1>1, <1>3, RequestState DEF Promise!NothingPending
<1>5. Promise!NobodyReads
  BY <1>0, <1>1, NobodyReadsBeside DEF JournalInv, ExclusiveLabels
<1>6. Request'[o] = [state |-> "prepared", plan |-> plan[p], answer |-> resp[p].spans]
  BY <1>1, <1>2, NewJournal DEF Request
<1>7. Before = span
  BY <1>0, <1>3, NothingToUndo DEF NothingPrepared
<1>8. Unwritten(plan[p])
  BY <1>1, NoneAssumption DEF JournalInv, WriteAheadKnown, Marker
<1>9. Shows(o, plan[p], resp[p])
  BY <1>1 DEF JournalInv, ResponsesShow, WithResponse
<1>10. Before' = Before
  <2>1. UNCHANGED <<span, marker>> /\ marker.op = o /\ marker.plan = plan[p]
    BY <1>1 DEF Prepare
  <2>2. \A s \in Span : s \in DOMAIN plan[p] => span[s] # plan[p][s].new
    BY <1>8 DEF Unwritten
  <2>3. Before' = [s \in Span |-> span[s]]
    BY <2>1, <2>2 DEF Before, Unrepaired
  <2> QED BY <1>0, <1>7, <2>3 DEF FilesOK
<1>11. Promise!Sets(o)
  BY <1>0, <1>1, <1>2, RequestSets
<1>12. UNCHANGED <<edits, seen>>
  BY DEF Prepare, bounds
<1>13. \A s \in DOMAIN plan[p] : /\ s \in Selected[o] /\ resp[p].spans[s] = plan[p][s].new
                                 /\ Before[s] # plan[p][s].new
  BY <1>7, <1>8, <1>9 DEF Shows, Unwritten
<1> QED BY <1>4, <1>5, <1>6, <1>10, <1>11, <1>12, <1>13 DEF Promise!Prepare

LEMMA CommitMapped ==
    ASSUME SafeInv, SafeInv', JournalInv, NEW p \in Proc, Commit(p)
    PROVE  Promise!Commit(cur[p])
<1>0. FilesOK /\ FilesOK' /\ ProcOK
  BY SafeParts
<1>1. /\ pc[p] = "commit" /\ cur[p] \in Op /\ plan[p] \in Plan /\ resp[p] \in Response
      /\ Journaled(cur[p], "prepared")
      /\ journal[cur[p]].plan = plan[p] /\ journal[cur[p]].resp = resp[p]
  BY <1>0 DEF Commit, ProcOK, LocalsOK, WithOp, WithResponse, JournalInv, JournalKnown, Executing
<1> DEFINE o == cur[p]
           j == [state |-> "committed", plan |-> plan[p], resp |-> resp[p], old |-> FALSE]
<1>2. journal'[o] = j /\ \A q \in Op \ {o} : journal'[q] = journal[q]
  BY <1>0, <1>1 DEF Commit, FilesOK
<1>3. j # None
  BY <1>1, NewJournal
<1>4. Promise!NobodyReads
  BY <1>0, <1>1, NobodyReadsBeside DEF JournalInv, ExclusiveLabels
<1>5. Request[o] = [state |-> "prepared", plan |-> plan[p], answer |-> resp[p].spans]
  BY <1>1 DEF Request, Journaled
<1>6. Request'[o] = [state |-> "committed", plan |-> plan[p], answer |-> resp[p].spans]
  BY <1>1, <1>2, <1>3 DEF Request
<1>7. Request' = [Request EXCEPT ![o].state = "committed"]
  <2>1. [Request[o] EXCEPT !.state = "committed"] = Request'[o]
    BY <1>5, <1>6
  <2>2. \A q \in Op \ {o} : Request'[q] = Request[q]
    BY <1>2 DEF Request
  <2>3. Request = [q \in Op |-> Request[q]] /\ Request' = [q \in Op |-> Request'[q]]
    BY DEF Request
  <2> QED BY <1>1, <2>1, <2>2, <2>3
<1>8. Before' = span
  <2>1. ASSUME NEW q \in Op PROVE ~Journaled(q, "prepared")'
    <3>1. CASE q = o
      BY <1>2, <3>1 DEF Journaled
    <3>2. CASE q # o
      <4>1. ~Journaled(q, "prepared")
        BY <1>0, <1>1, <3>2, PreparedNamed DEF SafeInv
      <4> QED BY <1>2, <3>2, <4>1 DEF Journaled
    <3> QED BY <3>1, <3>2
  <2>2. (FilesOK /\ NothingPrepared => Before = span)'
    BY NothingToUndo, PTL
  <2>3. span' = span
    BY DEF Commit
  <2> QED BY <1>0, <2>1, <2>2, <2>3 DEF NothingPrepared
<1>9. \A s \in Span :
        span[s] = IF s \in DOMAIN plan[p] /\ Before[s] = plan[p][s].orig THEN plan[p][s].new ELSE Before[s]
  <2> SUFFICES ASSUME NEW s \in Span
               PROVE  span[s] = IF s \in DOMAIN plan[p] /\ Before[s] = plan[p][s].orig
                                THEN plan[p][s].new ELSE Before[s]
    OBVIOUS
  <2>1. Before[s] = IF s \in DOMAIN plan[p] /\ span[s] = plan[p][s].new THEN plan[p][s].orig ELSE span[s]
    BY <1>0, <1>1, ToUndo DEF SafeInv, Undoes
  <2>2. s \in DOMAIN plan[p] => span[s] # plan[p][s].orig
    BY <1>1 DEF JournalInv, CompleteKnown
  <2> QED BY <2>1, <2>2
<1>10. UNCHANGED <<edits, seen>>
  BY DEF Commit, bounds, locals
<1>11. Promise!InState(o, "prepared")
  BY <1>5 DEF Promise!InState
<1>12. Request[o].plan = plan[p]
  BY <1>5
<1>13. Before' = [s \in Span |-> IF s \in DOMAIN plan[p] /\ Before[s] = plan[p][s].orig
                                THEN plan[p][s].new ELSE Before[s]]
  BY <1>0, <1>8, <1>9 DEF FilesOK
<1> QED BY <1>4, <1>7, <1>10, <1>11, <1>12, <1>13 DEF Promise!Commit

\* The files are the same while nothing begins or ceases to be prepared.
LEMMA BeforeKept ==
    ASSUME FilesOK, UNCHANGED <<span, marker>>,
           \A o \in Op : Journaled(o, "prepared")' <=> Journaled(o, "prepared")
    PROVE  Before' = Before
<1>1. marker # None => marker.op \in Op
  BY DEF FilesOK, Marker
<1> QED BY <1>1 DEF Before, Unrepaired

LEMMA FindNothingMapped ==
    ASSUME SafeInv, JournalInv, NEW p \in Proc, Temps(p), journal' # journal
    PROVE  Promise!FindNothing(cur[p])
<1>0. FilesOK /\ ProcOK
  BY SafeParts
<1>1. /\ pc[p] = "temps" /\ cur[p] \in Op /\ resp[p] \in Response /\ journal[cur[p]] = None
      /\ plan[p] = EmptyMap
      /\ journal' = [journal EXCEPT ![cur[p]] =
           [state |-> "committed", plan |-> plan[p], resp |-> resp[p], old |-> FALSE]]
      /\ UNCHANGED <<span, marker, edits, seen>>
  BY <1>0 DEF Temps, ProcOK, LocalsOK, WithOp, WithResponse, JournalInv, JournalKnown,
     Unjournaled, bounds
<1> DEFINE o == cur[p]
           j == [state |-> "committed", plan |-> plan[p], resp |-> resp[p], old |-> FALSE]
<1>2. journal'[o] = j /\ \A q \in Op \ {o} : journal'[q] = journal[q]
  BY <1>0, <1>1 DEF FilesOK
<1>3. j # None
  BY <1>1, EmptyPlan, NewJournal
<1>4. Before' = Before
  BY <1>0, <1>1, <1>2, BeforeKept DEF Journaled
<1>5. Request'[o] = [state |-> "committed", plan |-> EmptyMap, answer |-> resp[p].spans]
  BY <1>1, <1>2, <1>3 DEF Request
<1>6. Promise!InState(o, "none") /\ Promise!Sets(o)
  BY <1>0, <1>1, <1>2, RequestState, RequestSets
<1> QED BY <1>1, <1>4, <1>5, <1>6, SameEmptyMap DEF Promise!FindNothing

\* What a process may have done to what was read.
LEMMA SeenMapped ==
    ASSUME SafeInv, SafeInv', JournalInv, NEW p \in Proc, Acts(p)
    PROVE  /\ \/ seen' = seen
              \/ seen' = [seen EXCEPT ![p] = EmptyMap]
              \/ /\ pc[p] = "read" /\ Read(p)
                 /\ \E s \in Span : seen' = [seen EXCEPT ![p] =
                      [t \in DOMAIN seen[p] \cup {s} |-> IF t = s THEN span[s] ELSE seen[p][t]]]
           /\ pc[p] # "read" => seen' = seen
<1>0. ProcOK /\ ProcOK'
  BY SafeParts
<1>1. \A f : seen'[p] = f => seen' = [seen EXCEPT ![p] = f]
  <2>1. \A q \in Proc \ {p} : seen'[q] = seen[q]
    BY <1>0, LocalsOfOthers
  <2> QED BY <1>0, <2>1 DEF ProcOK
<1>2. seen = [seen EXCEPT ![p] = seen[p]]
  BY <1>0 DEF ProcOK
<1>3. pc[p] # "read" => seen[p] = EmptyMap
  <2>1. PICK S \in SUBSET Span : seen[p] \in [S -> Bytes]
    BY <1>0 DEF ProcOK
  <2> QED BY <2>1, IsEmptyMap DEF JournalInv, SeenKnown
<1>4. CASE seen'[p] = EmptyMap
  BY <1>1, <1>2, <1>3, <1>4
<1>5. CASE seen'[p] = seen[p]
  BY <1>1, <1>2, <1>5
<1>6. ASSUME Read(p), NEW s \in todo[p],
             seen'[p] = [t \in DOMAIN seen[p] \cup {s} |-> IF t = s THEN span[s] ELSE seen[p][t]]
      PROVE  /\ pc[p] = "read" /\ s \in Span
             /\ seen' = [seen EXCEPT ![p] =
                  [t \in DOMAIN seen[p] \cup {s} |-> IF t = s THEN span[s] ELSE seen[p][t]]]
  BY <1>0, <1>1, <1>6 DEF Read, ProcOK
<1> QED BY <1>0, <1>4, <1>5, <1>6, SeenMoves

\* An acknowledgement delivers, if the answer was not delivered before.
LEMMA DeliverMapped ==
    ASSUME SafeInv, SafeInv', JournalInv, NEW p \in Proc, Acknowledge(p), journal' # journal
    PROVE  Promise!Deliver(cur[p])
<1>0. FilesOK /\ ProcOK
  BY SafeParts
<1> DEFINE o == cur[p]
<1>1. /\ pc[p] = "reply" /\ UNCHANGED <<span, marker, edits>>
      /\ journal' = [journal EXCEPT ![o].state = "delivered"]
      /\ journal[o] # None /\ ~Journaled(o, "prepared")
  BY DEF Acknowledge, bounds
<1>2. o \in Op /\ journal[o] \in Journal
  BY <1>0, <1>1, IsJournal DEF JournalInv, JournalKnown, RolesKnown, SafeInv
<1>3. /\ journal'[o] = [journal[o] EXCEPT !.state = "delivered"]
      /\ \A q \in Op \ {o} : journal'[q] = journal[q]
  BY <1>0, <1>1, <1>2 DEF FilesOK
<1>4. /\ journal'[o] # None /\ journal'[o].state = "delivered"
      /\ journal'[o].plan = journal[o].plan /\ journal'[o].resp = journal[o].resp
  <2>1. ASSUME NEW j \in Journal, NEW d, d = [j EXCEPT !.state = "delivered"]
        PROVE  d # None /\ d.state = "delivered" /\ d.plan = j.plan /\ d.resp = j.resp
    BY <2>1, JournalFields
  <2> QED BY <1>2, <1>3, <2>1
<1>5. Journaled(o, "committed")
  <2>1. CASE journal[o].state = "delivered"
    <3>1. [journal[o] EXCEPT !.state = "delivered"] = journal[o]
      BY <1>2, <2>1 DEF Journal
    <3> QED BY <1>0, <1>1, <1>2, <3>1 DEF FilesOK
  <2> QED BY <1>1, <1>2, <2>1 DEF Journal, Journaled
<1>6. Before' = Before
  BY <1>0, <1>1, <1>3, <1>4, BeforeKept DEF Journaled
<1>7. seen' = seen
  BY <1>1, SeenMapped DEF Acts, Step
<1>8. Request' = [Request EXCEPT ![o].state = "delivered"]
  <2>1. Request[o] = [state |-> "committed", plan |-> journal[o].plan, answer |-> journal[o].resp.spans]
    BY <1>2, <1>5 DEF Request, Journaled
  <2>2. Request'[o] = [state |-> "delivered", plan |-> journal[o].plan, answer |-> journal[o].resp.spans]
    BY <1>2, <1>4 DEF Request
  <2>3. [Request[o] EXCEPT !.state = "delivered"] = Request'[o]
    BY <2>1, <2>2
  <2>4. \A q \in Op \ {o} : Request'[q] = Request[q]
    BY <1>3 DEF Request
  <2>5. Request = [q \in Op |-> Request[q]] /\ Request' = [q \in Op |-> Request'[q]]
    BY DEF Request
  <2> QED BY <1>2, <2>3, <2>4, <2>5
<1> QED BY <1>0, <1>1, <1>2, <1>5, <1>6, <1>7, <1>8, RequestState DEF Promise!Deliver

LEMMA ExpireMapped ==
    ASSUME SafeInv, NEW p \in Proc, Open(p)
    PROVE  Promise!Expire
<1>0. FilesOK
  BY SafeParts
<1> DEFINE S == {o \in Op : Expired(journal[o])}
<1>1. UNCHANGED <<span, marker, edits, seen>>
      /\ journal' = [o \in Op |-> IF o \in S THEN None ELSE journal[o]]
  BY DEF Open, Unexpired, bounds
<1>2. S \in SUBSET {o \in Op : Promise!InState(o, "delivered")}
  BY <1>0, RequestState DEF Expired, Journaled
<1>3. Request' = [o \in Op |-> IF o \in S THEN Promise!NoRequest ELSE Request[o]]
  BY <1>1, SameEmptyMap DEF Request, Promise!NoRequest
<1>4. Before' = Before
  BY <1>0, <1>1, BeforeKept DEF Journaled, Expired
<1> QED BY <1>1, <1>2, <1>3, <1>4 DEF Promise!Expire

\* A step of a process that leaves the journals: an edit, a read, or nothing.
LEMMA QuietMapped ==
    ASSUME SafeInv, SafeInv', JournalInv, ~EditWindow, AtomicDowngrade,
           NEW p \in Proc, Acts(p), journal' = journal
    PROVE  Promise!RepairNext \/ UNCHANGED Promise!repairVars
<1>0. TypeInv /\ FilesOK /\ FilesOK' /\ ProcOK /\ edits \in Nat
  BY SafeParts, RepairAssumption DEF BoundsOK
<1>1. Request' = Request
  BY DEF Request
<1>2. CASE edits' # edits
  <2>1. pc[p] = "write" /\ ByThird /\ marker' = marker
    BY <1>2, SpanMoves DEF JournalInv, Write, Restores, Installs
  <2>2. seen' = seen
    BY <2>1, SeenMapped
  <2>3. \E t \in Span : edits' = edits + 1 /\ \E b \in Bytes : Before' = [Before EXCEPT ![t] = b]
    BY <1>0, <2>1, ThirdMapped DEF JournalInv
  <2> QED BY <1>1, <2>2, <2>3 DEF Promise!RepairNext, Promise!Edit
<1>3. CASE edits' = edits
  <2>1. Before' = Before
    BY <1>3, FilesMapped
  <2>2. CASE seen' = seen
    BY <1>1, <1>3, <2>1, <2>2 DEF Promise!repairVars
  <2>3. CASE seen' = [seen EXCEPT ![p] = EmptyMap]
    BY <1>1, <1>3, <2>1, <2>3, SameEmptyMap DEF Promise!RepairNext, Promise!Leave
  <2>4. ASSUME pc[p] = "read", NEW s \in Span,
               seen' = [seen EXCEPT ![p] =
                 [t \in DOMAIN seen[p] \cup {s} |-> IF t = s THEN span[s] ELSE seen[p][t]]]
        PROVE  Promise!Read(p)
    <3>1. NothingPrepared
      BY <2>4 DEF SafeInv, MarkerKnown, MarkerNamesPrepared, NothingPrepared
    <3>2. Before = span
      BY <1>0, <3>1, NothingToUndo
    <3>3. Promise!NothingPending
      BY <1>0, <3>1, RequestState DEF NothingPrepared, Promise!NothingPending
    <3>4. seen' = [seen EXCEPT ![p] =
            [t \in DOMAIN seen[p] \cup {s} |-> IF t = s THEN Before[s] ELSE seen[p][t]]]
      BY <2>4, <3>2
    <3> QED BY <1>1, <1>3, <2>1, <3>3, <3>4 DEF Promise!Read
  <2> QED BY <2>2, <2>3, <2>4, SeenMapped DEF Promise!RepairNext
<1> QED BY <1>2, <1>3

\* The steps that write a journal.
LEMMA JournalWriters ==
    ASSUME NEW p \in Proc, Acts(p), journal' # journal
    PROVE  Temps(p) \/ Prepare(p) \/ Commit(p) \/ Acknowledge(p) \/ Open(p)
<1> USE DEF files
<1>1. CASE Start(p) \/ LockTimeout(p) \/ Crash(p)
  BY <1>1 DEF Start, BeginReader, BeginWriter, BeginRepair, Begin, LockTimeout, Crash
<1>2. CASE Acquire(p) \/ EnterClean(p) \/ EnterPending(p) \/ Reacquire(p) \/ Rejoin(p) \/ Read(p)
             \/ SettleNothing(p) \/ SettleUnjournaled(p) \/ SettleJournaled(p)
             \/ Abort(p) \/ Inspect(p) \/ RollBack(p) \/ RollForward(p)
             \/ Verify(p) \/ Clear(p) \/ DowngradeReader(p) \/ Write(p)
  BY <1>2 DEF Acquire, EnterClean, EnterPending, Reacquire, Rejoin, Read,
     SettleNothing, SettleUnjournaled, SettleJournaled, Abort, Inspect,
     RollBack, RollForward, Verify, Clear, DowngradeReader, Write
<1>3. CASE Replay(p) \/ PlanRepair(p) \/ MarkPending(p) \/ Apply(p) \/ Rename(p)
  BY <1>3 DEF Replay, PlanRepair, MarkPending, Apply, Rename
<1> QED BY <1>1, <1>2, <1>3 DEF Acts, Step

LEMMA JournaledMapped ==
    ASSUME SafeInv, SafeInv', JournalInv, NEW p \in Proc, Acts(p), journal' # journal
    PROVE  Promise!RepairNext
<1>1. ASSUME cur[p] \in Op,
             \/ Promise!Prepare(cur[p]) \/ Promise!Commit(cur[p])
             \/ Promise!FindNothing(cur[p]) \/ Promise!Deliver(cur[p])
      PROVE  Promise!RepairNext
  BY <1>1 DEF Promise!RepairNext
<1>2. pc[p] \in {"temps", "prepare", "commit", "reply"} => cur[p] \in Op
  BY SafeParts DEF ProcOK, LocalsOK, WithOp, WithResponse, JournalInv, JournalKnown, RolesKnown
<1>3. CASE Prepare(p)
  BY <1>1, <1>2, <1>3, PrepareMapped DEF Prepare
<1>4. CASE Commit(p)
  BY <1>1, <1>2, <1>4, CommitMapped DEF Commit
<1>5. CASE Temps(p)
  BY <1>1, <1>2, <1>5, FindNothingMapped DEF Temps
<1>6. CASE Acknowledge(p)
  BY <1>1, <1>2, <1>6, DeliverMapped DEF Acknowledge
<1>7. CASE Open(p)
  BY <1>7, ExpireMapped DEF Promise!RepairNext
<1> QED BY <1>3, <1>4, <1>5, <1>6, <1>7, JournalWriters

\* Editors, the sources, the clock.
LEMMA EnvironmentMapped ==
    ASSUME SafeInv, SafeInv', JournalInv,
           \/ \E s \in Span : EditSpan(s)
           \/ EditSource \/ (\E o \in Op : Age(o)) \/ UNCHANGED vars
    PROVE  Promise!RepairNext \/ UNCHANGED Promise!repairVars
<1>0. TypeInv /\ FilesOK /\ FilesOK'
  BY SafeParts
<1>1. ASSUME NEW s \in Span, EditSpan(s) PROVE Promise!RepairNext
  <2>1. UNCHANGED <<journal, marker, seen>> /\ ByThird
    BY <1>1, EditIsThird DEF EditSpan, locals
  <2>2. \E t \in Span : edits' = edits + 1 /\ \E b \in Bytes : Before' = [Before EXCEPT ![t] = b]
    BY <1>0, <2>1, ThirdMapped DEF JournalInv
  <2>3. Request' = Request
    BY <2>1 DEF Request
  <2> QED BY <2>1, <2>2, <2>3 DEF Promise!RepairNext, Promise!Edit
<1>2. CASE EditSource \/ UNCHANGED vars
  <2>1. UNCHANGED <<span, marker, journal, seen, edits>>
    BY <1>2 DEF EditSource, vars, files, locals, bounds
  <2> QED BY <2>1 DEF Promise!repairVars, Before, Unrepaired, Journaled, Request
<1>3. ASSUME NEW a \in Op, Age(a) PROVE UNCHANGED Promise!repairVars
  <2>1. UNCHANGED <<span, marker, seen, edits>>
    BY <1>3 DEF Age, locals, bounds
  <2>2. ASSUME NEW o \in Op
        PROVE  /\ journal'[o] = None <=> journal[o] = None
               /\ journal[o] # None => /\ journal'[o].state = journal[o].state
                                       /\ journal'[o].plan = journal[o].plan
                                       /\ journal'[o].resp = journal[o].resp
    <3>1. CASE o # a
      BY <1>0, <1>3, <3>1, AgeStep
    <3>2. CASE o = a
      <4>1. ASSUME NEW j \in Journal, NEW d, d = [j EXCEPT !.old = TRUE]
            PROVE  d # None /\ d.state = j.state /\ d.plan = j.plan /\ d.resp = j.resp
        BY <4>1, JournalFields
      <4>2. journal[o] \in Journal /\ journal[o] # None /\ journal'[o] = [journal[o] EXCEPT !.old = TRUE]
        BY <1>0, <1>3, <3>2, AgeStep, IsJournal DEF Journaled
      <4> QED BY <4>1, <4>2
    <3> QED BY <3>1, <3>2
  <2>3. Before' = Before
    BY <1>0, <2>1, <2>2, BeforeKept DEF Journaled
  <2>4. Request' = Request
    BY <2>2 DEF Request
  <2> QED BY <2>1, <2>3, <2>4 DEF Promise!repairVars
<1> QED BY <1>1, <1>2, <1>3

-----------------------------------------------------------------------------
(* The theorem.                                                            *)

LEMMA StartsMapped == Init => Promise!RepairInit
<1> SUFFICES ASSUME Init, FilesOK PROVE Promise!RepairInit
  BY InitType, TypeParts
<1>1. Before \in [Span -> Bytes] /\ edits = 0
  BY BeforeType DEF Init
<1>2. DOMAIN Request = Op
  BY DEF Request
<1>3. ASSUME NEW o \in Op, Request[o] # Promise!NoRequest
      PROVE  /\ Promise!InState(o, "prepared") /\ Request[o].plan = Promise!EmptyMap
             /\ \A q \in Op \ {o} : Request[q] = Promise!NoRequest
  <2>1. journal[o] # None
    BY <1>3, SameEmptyMap DEF Request, Promise!NoRequest
  <2>2. /\ Journaled(o, "prepared") /\ journal[o].plan = EmptyMap
        /\ \A q \in Op \ {o} : journal[q] = None
    BY <2>1 DEF Init, LegacyNoOp, Journaled
  <2> QED BY <2>2, SameEmptyMap, RequestState DEF Request, Promise!NoRequest, Journaled
<1>4. Promise!NobodyReads
  BY SameEmptyMap DEF Init, Promise!NobodyReads
<1> QED BY <1>1, <1>2, <1>3, <1>4 DEF Promise!RepairInit

\* Where flock converts its lock in one step and no unlocked edit falls between
\* a check and the write that follows it, the journaled repair is atomic: all
\* else that repairs and recoveries do to the files cannot be told from nothing.
THEOREM RepairIsAtomic ==
    ASSUME ~EditWindow, AtomicDowngrade
    PROVE  Spec => ImplementsAtomicRepair
<1>1. SafeInv /\ SafeInv' /\ JournalInv /\ [Next]_vars
        => [Promise!RepairNext]_(Promise!repairVars)
  BY NextCases, QuietMapped, JournaledMapped, EnvironmentMapped
<1> QED BY <1>1, StartsMapped, JournalInvariant, PTL
        DEF Spec, ImplementsAtomicRepair, Promise!RepairSpec
=============================================================================
