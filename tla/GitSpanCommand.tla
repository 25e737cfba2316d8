--------------------------- MODULE GitSpanCommand ---------------------------
(***************************************************************************)
(* runGitSpanCommand: the VS Code extension runs the CLI, or git, as a     *)
(* child process under an abort signal, a grace period between SIGTERM and *)
(* SIGKILL, and a deadline.  The child may ignore SIGTERM, may leave       *)
(* descendants that hold its output pipes, and may be dead before the host *)
(* has heard of it.                                                        *)
(*                                                                         *)
(* A step is one callback of the host's event loop or one thing that       *)
(* happens outside of it.  stdout and stderr are handled alike and apart   *)
(* from each other, so one stream is modelled; output is counted, not      *)
(* spelled out.                                                            *)
(***************************************************************************)
EXTENDS Naturals

CONSTANTS MaxBytes,   \* maxOutputBytes: what is kept of the stream
          MaxWritten  \* how much the processes write

ASSUME BytesAssumption == MaxBytes \in Nat /\ MaxWritten \in Nat

VARIABLES
  promise,    \* "idle" before the call, then "pending", "resolved" or "rejected"
  child,      \* "none", "failed" to start, "running", "zombie" until the host
              \* reaps it, "reaped"
  killed,     \* SIGKILL was sent
  holders,    \* who holds the writing end of the pipe
  pipe,       \* the reading end: "none", "open", "ended" or "destroyed"
  written,    \* bytes written to the pipe
  inPipe,     \* bytes written and not read yet
  kept,       \* CappedStreamBuffer.keptBytes
  total,      \* CappedStreamBuffer.totalBytes
  aborted,    \* signal.aborted
  listening,  \* onAbort is registered
  grace,      \* killGraceTimer is armed
  deadline    \* deadlineTimer is armed

process == <<child, holders>>
stream  == <<written, inPipe, kept, total>>
control == <<listening, grace, deadline>>
vars    == <<promise, child, killed, holders, pipe, written, inPipe, kept, total,
             aborted, listening, grace, deadline>>

Holder == {"child", "descendant"}

-----------------------------------------------------------------------------
(* The host's callbacks.                                                   *)

\* cleanup: the timers and the listener go before the promise settles.
Settle(answer) ==
  /\ promise' = answer
  /\ listening' = FALSE
  /\ grace' = FALSE
  /\ deadline' = FALSE

\* forceKill: SIGKILL, and the host lets go of its end of the pipes.
ForceKill ==
  /\ killed' = TRUE
  /\ pipe' = IF pipe = "open" THEN "destroyed" ELSE pipe

\* An aborted signal refuses to spawn; spawn itself may throw.
Refuse ==
  /\ promise = "idle"
  /\ promise' = "rejected"
  /\ UNCHANGED <<process, killed, pipe, stream, aborted, control>>

\* Mutant: the deadline is not armed.
SpawnUntimed ==
  /\ promise = "idle"
  /\ ~aborted
  /\ promise' = "pending"
  /\ child' = "running" /\ holders' = {"child"} /\ pipe' = "open"
  /\ listening' = TRUE
  /\ UNCHANGED <<killed, stream, aborted, grace, deadline>>

Spawn ==
  /\ promise = "idle"
  /\ ~aborted
  /\ promise' = "pending"
  /\ child' = "running" /\ holders' = {"child"} /\ pipe' = "open"
  /\ listening' = TRUE /\ deadline' = TRUE
  /\ UNCHANGED <<killed, stream, aborted, grace>>

\* There is no such executable, or no process to be had: the caller has its
\* promise, the timer and the listener when the 'error' event tells.
SpawnFails ==
  /\ promise = "idle"
  /\ ~aborted
  /\ promise' = "pending"
  /\ child' = "failed"
  /\ listening' = TRUE /\ deadline' = TRUE
  /\ UNCHANGED <<holders, killed, pipe, stream, aborted, grace>>

SpawnError ==
  /\ promise = "pending" /\ child = "failed"
  /\ Settle("rejected")
  /\ UNCHANGED <<process, killed, pipe, stream, aborted>>

\* Mutants: a chunk is kept whole when there is any room; or it is dropped whole.
KeepWhole(n) == IF kept < MaxBytes THEN kept + n ELSE kept
KeepNone(n)  == IF kept + n <= MaxBytes THEN kept + n ELSE kept

\* CappedStreamBuffer.push: at most the remaining room is kept.
Keep(n) == IF kept + n <= MaxBytes THEN kept + n ELSE MaxBytes

Data ==
  /\ pipe = "open"
  /\ \E n \in 1..inPipe :
        /\ inPipe' = inPipe - n
        /\ total' = total + n
        /\ kept' = Keep(n)
  /\ UNCHANGED <<promise, process, killed, pipe, written, aborted, control>>

\* The stream ends when it was read to the end and nobody can write any more.
StreamEnds ==
  /\ pipe = "open" /\ holders = {} /\ inPipe = 0
  /\ pipe' = "ended"
  /\ UNCHANGED <<promise, process, killed, stream, aborted, control>>

\* SIGTERM counts as delivered until the host has reaped the child; only then
\* is there something to escalate.
OnAbort ==
  /\ listening' = FALSE
  /\ grace' = (child \in {"running", "zombie"})
  /\ UNCHANGED deadline

Abort ==
  /\ ~aborted
  /\ aborted' = TRUE
  /\ IF listening THEN OnAbort ELSE UNCHANGED control
  /\ UNCHANGED <<promise, process, killed, pipe, stream>>

GraceEnds ==
  /\ grace
  /\ grace' = FALSE
  /\ ForceKill
  /\ UNCHANGED <<promise, process, stream, aborted, listening, deadline>>

\* Mutant: the deadline gives up on the child without killing it.
DeadlineLetsGo ==
  /\ deadline
  /\ Settle("rejected")
  /\ UNCHANGED <<process, killed, pipe, stream, aborted>>

\* No timer fires before the 'error' event, which is emitted on the next tick.
Deadline ==
  /\ deadline /\ child # "failed"
  /\ Settle("rejected")
  /\ ForceKill
  /\ UNCHANGED <<process, stream, aborted>>

\* The exit is seen; SIGCHLD is handled.
Reap ==
  /\ child = "zombie"
  /\ child' = "reaped"
  /\ UNCHANGED <<promise, killed, holders, pipe, stream, aborted, control>>

\* Mutant: the promise resolves on 'exit' and not on 'close'.
CloseOnExit ==
  /\ promise = "pending" /\ child = "reaped"
  /\ Settle("resolved")
  /\ UNCHANGED <<process, killed, pipe, stream, aborted>>

\* 'close': the child was reaped and its streams are closed.
Close ==
  /\ promise = "pending" /\ child = "reaped" /\ pipe # "open"
  /\ Settle("resolved")
  /\ UNCHANGED <<process, killed, pipe, stream, aborted>>

-----------------------------------------------------------------------------
(* The processes.                                                          *)

Write ==
  /\ holders # {} /\ pipe = "open" /\ written < MaxWritten
  /\ written' = written + 1
  /\ inPipe' = inPipe + 1
  /\ UNCHANGED <<promise, process, killed, pipe, kept, total, aborted, control>>

Fork ==
  /\ child = "running" /\ "child" \in holders
  /\ holders' = Holder
  /\ UNCHANGED <<promise, child, killed, pipe, stream, aborted, control>>

\* A process closes its end of the pipe, or a descendant ends.
LetGo(h) ==
  /\ h \in holders
  /\ holders' = holders \ {h}
  /\ UNCHANGED <<promise, child, killed, pipe, stream, aborted, control>>

\* The child ends: by itself, because of SIGTERM, or because of SIGKILL.
Exit ==
  /\ child = "running"
  /\ child' = "zombie"
  /\ holders' = holders \ {"child"}
  /\ UNCHANGED <<promise, killed, pipe, stream, aborted, control>>

-----------------------------------------------------------------------------
Init ==
  /\ promise = "idle" /\ child = "none" /\ killed = FALSE
  /\ holders = {} /\ pipe = "none"
  /\ written = 0 /\ inPipe = 0 /\ kept = 0 /\ total = 0
  /\ aborted \in BOOLEAN
  /\ listening = FALSE /\ grace = FALSE /\ deadline = FALSE

Host ==
  \/ Refuse \/ Spawn \/ SpawnFails \/ SpawnError
  \/ Data \/ StreamEnds \/ GraceEnds \/ Deadline \/ Reap \/ Close

Processes == Write \/ Fork \/ Exit \/ \E h \in Holder : LetGo(h)

Next == Host \/ Processes \/ Abort

\* Timers fire, the host hears of an exit or a failed start, and SIGKILL cannot be ignored.
\* Nothing is assumed of a process that was not killed, of descendants, or of
\* the host's reading.
Fairness ==
  /\ WF_vars(GraceEnds) /\ WF_vars(Deadline) /\ WF_vars(Reap) /\ WF_vars(Close)
  /\ WF_vars(SpawnError)
  /\ WF_vars(killed /\ Exit)

Spec == Init /\ [][Next]_vars /\ Fairness
-----------------------------------------------------------------------------
(* Properties.                                                             *)

TypeOK ==
  /\ promise \in {"idle", "pending", "resolved", "rejected"}
  /\ child \in {"none", "failed", "running", "zombie", "reaped"}
  /\ killed \in BOOLEAN
  /\ holders \subseteq Holder
  /\ pipe \in {"none", "open", "ended", "destroyed"}
  /\ written \in 0..MaxWritten /\ inPipe \in Nat
  /\ kept \in 0..MaxBytes /\ total \in Nat
  /\ aborted \in BOOLEAN /\ listening \in BOOLEAN
  /\ grace \in BOOLEAN /\ deadline \in BOOLEAN

Settled == promise \in {"resolved", "rejected"}

\* "no child can wedge the caller", and none is leaked: when the promise is
\* settled no timer or listener is left, and the child is gone or was killed.
NothingLeftBehind ==
  Settled => /\ ~grace /\ ~deadline /\ ~listening
             /\ child \in {"none", "failed", "reaped"} \/ killed

\* A result of a command that nobody aborted and that is not flagged as
\* truncated is everything that was written, by the child and by descendants
\* that outlived it, whenever they were scheduled.
WholeOrFlagged == promise = "resolved" /\ ~aborted /\ kept = total => kept = written

\* Whatever chunks the stream arrives in, the buffer holds exactly the part of
\* it that fits, so that kept differs from total when bytes were dropped.
KeptIsPrefix == kept = IF total <= MaxBytes THEN total ELSE MaxBytes

\* The call is answered once and in the end, and the child does not stay: a
\* child that ignores SIGTERM, descendants that hold the pipes, and an abort
\* that finds the child dead but not reaped included.
Abstract == INSTANCE OneShotCommand WITH
  answer <- promise,
  child  <- CASE child \in {"none", "failed"} -> "none"
              [] child \in {"zombie", "reaped"} -> "gone"
              [] OTHER -> IF killed THEN "doomed" ELSE "alive"

ImplementsOneShot == Abstract!Spec
=============================================================================
