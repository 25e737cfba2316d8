---------------------------- MODULE FreshAnswers ----------------------------
(***************************************************************************)
(* What `git span context` promises when a resident service may answer for *)
(* the in-process computation: every document is the one a direct run      *)
(* would have computed at one moment between the request and its answer,   *)
(* and that moment is never halfway through a repair.  The service may     *)
(* also decline, and then the client computes the document itself          *)
(* (packages/git-span/src/cli/context.rs, lines 1047-1060).                *)
(***************************************************************************)
CONSTANTS Client, Document, Unasked, Waiting, Declined

VARIABLES
    truth,      \* the document a direct run would compute now
    repairing,  \* is a repair between its first and its last write?
    reply       \* what each client has got

freshVars == <<truth, repairing, reply>>

ReplyOf(S, r) == reply' = [c \in Client |-> IF c \in S THEN r ELSE reply[c]]

FreshInit ==
    /\ truth \in Document
    /\ repairing = FALSE
    /\ reply = [c \in Client |-> Unasked]

\* An editor, git, a repair: anything that changes what a direct run reads.
Change ==
    /\ truth' \in Document
    /\ repairing' \in BOOLEAN
    /\ UNCHANGED reply

Request(c) ==
    /\ reply[c] # Waiting
    /\ ReplyOf({c}, Waiting)
    /\ UNCHANGED <<truth, repairing>>

Serve(c) ==
    /\ reply[c] = Waiting
    /\ ~repairing
    /\ ReplyOf({c}, truth)
    /\ UNCHANGED <<truth, repairing>>

\* One request falls back, or all that are open do when the service ends.
FallBack ==
    \E S \in SUBSET {c \in Client : reply[c] = Waiting} :
        /\ ReplyOf(S, Declined)
        /\ UNCHANGED <<truth, repairing>>

\* A request the service refuses without looking at it.
Refuse(c) ==
    /\ reply[c] # Waiting
    /\ ReplyOf({c}, Declined)
    /\ UNCHANGED <<truth, repairing>>

FreshNext ==
    \/ Change
    \/ FallBack
    \/ \E c \in Client : Request(c) \/ Serve(c) \/ Refuse(c)

FreshSpec == FreshInit /\ [][FreshNext]_freshVars

=============================================================================
