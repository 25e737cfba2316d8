--------------------------- MODULE OneShotCommand ---------------------------
(***************************************************************************)
(* What runGitSpanCommand promises its caller: a call is answered, once,   *)
(* with the output of the child process or with an error, and the child is *)
(* gone, or has a signal on its way that it cannot ignore, when it is.     *)
(***************************************************************************)
VARIABLES answer,  \* of the promise that the call returned
          child    \* "none", "alive", "doomed" or "gone"

Answers == {"idle", "pending", "resolved", "rejected"}

Init == answer = "idle" /\ child = "none"

Refuse == answer = "idle" /\ answer' = "rejected" /\ child' = child

\* The child starts, or it will turn out that it could not.
Call   == answer = "idle" /\ answer' = "pending" /\ child' \in {"alive", "none"}

\* What the operating system does: a process that was sent SIGKILL ends.
Ends   == child \in {"alive", "doomed"} /\ child' = "gone" /\ answer' = answer

Kill   == child = "alive" /\ child' = "doomed" /\ answer' = answer

Resolve == answer = "pending" /\ child = "gone" /\ answer' = "resolved" /\ child' = child

Reject ==
  /\ answer = "pending"
  /\ answer' = "rejected"
  /\ child' = (IF child \in {"none", "gone"} THEN child ELSE "doomed")

Next == Refuse \/ Call \/ Ends \/ Kill \/ Resolve \/ Reject

vars == <<answer, child>>

Spec == Init /\ [][Next]_vars
             /\ WF_vars(Resolve \/ Reject) /\ WF_vars(child = "doomed" /\ Ends)
=============================================================================
