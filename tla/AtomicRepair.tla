---------------------------- MODULE AtomicRepair ----------------------------
(***************************************************************************)
(* What `git span context --fix` promises under an operation ID, as far as *)
(* span files go: the repair that its journal names happens in one step or *)
(* not at all.  It replaces, in each of its spans, the text it was planned *)
(* for and nothing else; no command that reads span files is at work while *)
(* it is pending or happens; it happens once; and what it answers is       *)
(* settled, and shows the planned texts, before it happens                 *)
(* (packages/git-span/src/cli/context_repair.rs, lines 92-280).            *)
(*                                                                         *)
(* There are no processes, temporaries, markers, locks or crashes here.    *)
(* The files are what they would be without a repair that is not committed *)
(* yet.  Editors and other commands count in edits, so that no step of a   *)
(* repair can pass for one of theirs.  What an operation without entries   *)
(* answers is left open: it does not settle another operation first.       *)
(***************************************************************************)
EXTENDS Naturals

CONSTANTS Op, Span, Selected, Bytes, Reader

VARIABLES
    file,      \* the span files
    edits,     \* how often anybody else has changed one
    request,   \* what each operation is to do, has done, or has answered
    seen       \* what each command that reads has read

repairVars == <<file, edits, request, seen>>

EmptyMap  == [s \in {} |-> s]
NoRequest == [state |-> "none", plan |-> EmptyMap, answer |-> EmptyMap]

InState(o, state) == request[o].state = state

NothingPending == \A o \in Op : ~InState(o, "prepared")
NobodyReads    == \A r \in Reader : seen[r] = EmptyMap

\* Only the request of operation o changes.
Sets(o) == request' = [request EXCEPT ![o] = request'[o]]

\* A no-op that an earlier build left may be pending.
RepairInit ==
    /\ file \in [Span -> Bytes]
    /\ edits = 0
    /\ DOMAIN request = Op
    /\ \A o \in Op : request[o] # NoRequest =>
         /\ InState(o, "prepared") /\ request[o].plan = EmptyMap
         /\ \A q \in Op \ {o} : request[q] = NoRequest
    /\ NobodyReads

\* An editor, git or another command changes one span file.
Edit(s) ==
    /\ edits' = edits + 1
    /\ \E b \in Bytes : file' = [file EXCEPT ![s] = b]
    /\ UNCHANGED <<request, seen>>

\* A repair is decided: from here on it happens, or waits for somebody who
\* completes it, and its answer is known.
Prepare(o) ==
    /\ InState(o, "none") /\ NothingPending /\ NobodyReads
    /\ Sets(o)
    /\ LET r == request'[o] IN
         /\ r.state = "prepared"
         /\ \A s \in DOMAIN r.plan :
              /\ s \in Selected[o]
              /\ r.answer[s] = r.plan[s].new
              /\ file[s] # r.plan[s].new
    /\ UNCHANGED <<file, edits, seen>>

\* It happens: a text that somebody else has put in place stays.
Commit(o) ==
    /\ InState(o, "prepared") /\ NobodyReads
    /\ LET entries == request[o].plan IN
         file' = [s \in Span |->
            IF s \in DOMAIN entries /\ file[s] = entries[s].orig THEN entries[s].new ELSE file[s]]
    /\ request' = [request EXCEPT ![o].state = "committed"]
    /\ UNCHANGED <<edits, seen>>

\* A request finds nothing to repair.
FindNothing(o) ==
    /\ InState(o, "none")
    /\ Sets(o)
    /\ request'[o].state = "committed" /\ request'[o].plan = EmptyMap
    /\ UNCHANGED <<file, edits, seen>>

\* The answer has reached the client, and is forgotten some time later.
Deliver(o) ==
    /\ InState(o, "committed")
    /\ request' = [request EXCEPT ![o].state = "delivered"]
    /\ UNCHANGED <<file, edits, seen>>

Expire ==
    /\ \E S \in SUBSET {o \in Op : InState(o, "delivered")} :
         request' = [o \in Op |-> IF o \in S THEN NoRequest ELSE request[o]]
    /\ UNCHANGED <<file, edits, seen>>

\* A command reads one file after the other, and ends.
Read(r) ==
    /\ NothingPending
    /\ \E s \in Span : seen' = [seen EXCEPT ![r] =
         [t \in DOMAIN seen[r] \cup {s} |-> IF t = s THEN file[s] ELSE seen[r][t]]]
    /\ UNCHANGED <<file, edits, request>>

Leave(r) ==
    /\ seen' = [seen EXCEPT ![r] = EmptyMap]
    /\ UNCHANGED <<file, edits, request>>

RepairNext ==
    \/ \E s \in Span : Edit(s)
    \/ \E o \in Op : Prepare(o) \/ Commit(o) \/ FindNothing(o) \/ Deliver(o)
    \/ Expire
    \/ \E r \in Reader : Read(r) \/ Leave(r)

RepairSpec == RepairInit /\ [][RepairNext]_repairVars
=============================================================================
