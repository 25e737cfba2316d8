------------------------ MODULE GitSpanCommandProofs ------------------------
(***************************************************************************)
(* Theorems about GitSpanCommand, for every cap on the output and however  *)
(* much is written: what is left behind when the promise settles, what the *)
(* output buffer holds, and that every step is one of OneShotCommand.      *)
(***************************************************************************)
EXTENDS GitSpanCommand, TLAPS

\* Which timers, listeners, signals and children go with which promise.
\* Timers belong to a pending promise, and SIGKILL is sent for an abort or by
\* the deadline, which also rejects.
ControlOK ==
  /\ grace \/ deadline \/ listening => promise = "pending"
  /\ grace => aborted
  /\ killed => aborted \/ promise = "rejected"
  /\ promise = "idle" => child = "none"
  /\ child = "none" => promise \in {"idle", "rejected"}
  /\ child = "failed" => promise \in {"pending", "rejected"}
  /\ child \in {"none", "failed"} <=> pipe = "none"
  /\ promise = "resolved" => child = "reaped" /\ pipe # "open"
  /\ promise = "rejected" => child \in {"none", "failed"} \/ killed

\* What is in the pipe and what was read of it add up, as long as the host
\* has not let go of the pipe.
StreamOK ==
  /\ pipe # "destroyed" => written = total + inPipe
  /\ pipe = "ended" => inPipe = 0
  /\ pipe = "destroyed" => killed

Inv == TypeOK /\ ControlOK /\ StreamOK /\ KeptIsPrefix

\* The buffer keeps what fits of every chunk.
LEMMA KeepFits ==
  ASSUME NEW t \in Nat, NEW n \in Nat, KeptIsPrefix, total = t
  PROVE  /\ Keep(n) = IF t + n <= MaxBytes THEN t + n ELSE MaxBytes
         /\ Keep(n) \in 0..MaxBytes
BY BytesAssumption DEF Keep, KeptIsPrefix

\* The invariant holds at the start.
LEMMA InvInit == Init => Inv
<1> SUFFICES ASSUME Init PROVE Inv
  OBVIOUS
<1>1. TypeOK
  <2>1. killed \in BOOLEAN /\ listening \in BOOLEAN /\ grace \in BOOLEAN /\ deadline \in BOOLEAN
    BY Zenon DEF Init
  <2> QED BY <2>1, BytesAssumption DEF Init, TypeOK, Holder
<1>2. ControlOK
  BY DEF Init, ControlOK
<1>3. StreamOK /\ KeptIsPrefix
  BY BytesAssumption DEF Init, StreamOK, KeptIsPrefix
<1> QED BY <1>1, <1>2, <1>3 DEF Inv

\* The callbacks of the host keep the invariant.
LEMMA InvHost ==
  ASSUME Inv, Host
  PROVE  Inv'
<1> USE BytesAssumption DEF Inv, TypeOK, ControlOK, StreamOK, KeptIsPrefix, Holder,
                            process, stream, control
<1>1. CASE Refuse
  BY <1>1 DEF Refuse
<1>2. CASE Spawn
  BY <1>2 DEF Spawn
<1>3. CASE Data
  <2>1. PICK n \in 1..inPipe : /\ inPipe' = inPipe - n
                               /\ total' = total + n
                               /\ kept' = Keep(n)
    BY <1>3 DEF Data
  <2>2. n \in Nat /\ n <= inPipe
    BY <2>1
  <2>3. /\ Keep(n) = IF total + n <= MaxBytes THEN total + n ELSE MaxBytes
        /\ Keep(n) \in 0..MaxBytes
    BY <2>2, KeepFits
  <2> QED BY <1>3, <2>1, <2>2, <2>3 DEF Data
<1>4. CASE StreamEnds
  BY <1>4 DEF StreamEnds
<1>5. CASE GraceEnds
  BY <1>5 DEF GraceEnds, ForceKill
<1>6. CASE Deadline
  BY <1>6 DEF Deadline, ForceKill, Settle
<1>7. CASE Reap
  BY <1>7 DEF Reap
<1>8. CASE Close
  BY <1>8 DEF Close, Settle
<1>9. CASE SpawnFails
  BY <1>9 DEF SpawnFails
<1>10. CASE SpawnError
  BY <1>10 DEF SpawnError, Settle
<1> QED BY <1>1, <1>2, <1>3, <1>4, <1>5, <1>6, <1>7, <1>8, <1>9, <1>10 DEF Host

\* What the processes do, and the abort, keep the invariant.
LEMMA InvOutside ==
  ASSUME Inv, Processes \/ Abort \/ UNCHANGED vars
  PROVE  Inv'
<1> USE BytesAssumption DEF Inv, TypeOK, ControlOK, StreamOK, KeptIsPrefix, Holder,
                            process, stream, control
<1>1. CASE Write
  BY <1>1 DEF Write
<1>2. CASE Fork
  BY <1>2 DEF Fork
<1>3. CASE Exit
  BY <1>3 DEF Exit
<1>4. CASE \E h \in Holder : LetGo(h)
  BY <1>4 DEF LetGo
<1>5. CASE Abort
  <2>0. /\ aborted' = TRUE /\ UNCHANGED <<promise, process, killed, pipe, stream>>
        /\ (OnAbort /\ listening) \/ UNCHANGED control
    BY <1>5 DEF Abort
  <2>1. CASE UNCHANGED control
    BY <2>0, <2>1
  <2>2. CASE OnAbort /\ listening /\ child \in {"running", "zombie"}
    <3>1. grace' = TRUE /\ listening' = FALSE /\ deadline' = deadline
      BY <2>2 DEF OnAbort
    <3> QED BY <2>0, <2>2, <3>1
  <2>3. CASE OnAbort /\ child \notin {"running", "zombie"}
    <3>0. (child \in {"running", "zombie"}) = FALSE
      BY <2>3
    <3>1. grace' = FALSE /\ listening' = FALSE /\ deadline' = deadline
      BY <2>3, <3>0, Zenon DEF OnAbort
    <3> QED BY <2>0, <2>3, <3>1
  <2> QED BY <2>0, <2>1, <2>2, <2>3
<1>6. CASE UNCHANGED vars
  BY <1>6 DEF vars
<1> QED BY <1>1, <1>2, <1>3, <1>4, <1>5, <1>6 DEF Processes

\* The invariant holds in every reachable state.
THEOREM Invariance == Spec => []Inv
<1>1. Inv /\ [Next]_vars => Inv'
  BY InvHost, InvOutside DEF Next
<1> QED BY InvInit, <1>1, PTL DEF Spec

\* Every state is well typed, for every cap and every amount of output.
THEOREM TypeCorrect == Spec => []TypeOK
BY Invariance, PTL DEF Inv

\* A settled call leaves no timer, no listener and no child that was not sent
\* SIGKILL, however abort, exit, grace period and deadline race.
THEOREM NothingStays == Spec => []NothingLeftBehind
<1>1. Inv => NothingLeftBehind
  BY DEF Inv, TypeOK, ControlOK, NothingLeftBehind, Settled
<1> QED BY <1>1, Invariance, PTL

\* Unless it is flagged as truncated or the call was aborted, a result holds
\* everything that the child and its descendants wrote.
THEOREM OutputIsWhole == Spec => []WholeOrFlagged
<1>1. Inv => WholeOrFlagged
  BY DEF Inv, TypeOK, ControlOK, StreamOK, WholeOrFlagged
<1> QED BY <1>1, Invariance, PTL

\* The buffer holds the part of the stream that fits, in whatever chunks the
\* stream arrived.
THEOREM OutputIsPrefix == Spec => []KeptIsPrefix
BY Invariance, PTL DEF Inv

-----------------------------------------------------------------------------
(* The refinement: initial states and steps, without the fairness.         *)

\* Every step of runGitSpanCommand, of the child and of its descendants is one
\* of a command that is answered once and whose child is then gone or doomed.
THEOREM RefinesOneShot == Spec => Abstract!Init /\ [][Abstract!Next]_(Abstract!vars)
<1>1. Init => Abstract!Init
  BY DEF Init, Abstract!Init
<1>2. ASSUME Inv, Host PROVE Abstract!Next \/ UNCHANGED Abstract!vars
  <2> USE <1>2 DEF Inv, TypeOK, ControlOK, Abstract!Next, Abstract!vars, process, control
  <2>1. CASE Refuse
    BY <2>1 DEF Refuse, Abstract!Refuse
  <2>2. CASE Spawn
    BY <2>2 DEF Spawn, Abstract!Call
  <2>3. CASE Data \/ StreamEnds
    BY <2>3 DEF Data, StreamEnds
  <2>4. CASE GraceEnds
    BY <2>4 DEF GraceEnds, ForceKill, Abstract!Kill
  <2>5. CASE Deadline
    BY <2>5 DEF Deadline, ForceKill, Settle, Abstract!Reject
  <2>6. CASE Reap
    BY <2>6 DEF Reap
  <2>7. CASE Close
    BY <2>7 DEF Close, Settle, Abstract!Resolve
  <2>8. CASE SpawnFails
    BY <2>8 DEF SpawnFails, Abstract!Call
  <2>9. CASE SpawnError
    BY <2>9 DEF SpawnError, Settle, Abstract!Reject
  <2> QED BY <2>1, <2>2, <2>3, <2>4, <2>5, <2>6, <2>7, <2>8, <2>9 DEF Host
<1>3. ASSUME Inv, Processes \/ Abort \/ UNCHANGED vars
      PROVE  Abstract!Next \/ UNCHANGED Abstract!vars
  <2> USE <1>3 DEF Inv, TypeOK, Abstract!Next, Abstract!vars, process
  <2>1. CASE Exit
    BY <2>1 DEF Exit, Abstract!Ends
  <2>2. CASE Write \/ Fork \/ \E h \in Holder : LetGo(h)
    BY <2>2 DEF Write, Fork, LetGo
  <2>3. CASE Abort
    BY <2>3 DEF Abort
  <2>4. CASE UNCHANGED vars
    BY <2>4 DEF vars
  <2> QED BY <2>1, <2>2, <2>3, <2>4 DEF Processes
<1>4. Inv /\ [Next]_vars => [Abstract!Next]_(Abstract!vars)
  BY <1>2, <1>3 DEF Next
<1> QED BY <1>1, <1>4, Invariance, PTL DEF Spec
=============================================================================
