--------------------------- MODULE CommitReceipts ---------------------------
(***************************************************************************)
(* The receipt store of the agent hooks (packages/agent-hooks/src/common/  *)
(* commit-runtime.ts and what it calls): short-lived hook processes of one *)
(* agent session share a directory on disk.  One hook enrolls a shell      *)
(* invocation before it runs, one publishes a receipt per commit when it   *)
(* has run and turns receipts into notes, one cleans up at the session's   *)
(* end.  A hook may be killed at any step.  Every change to an invocation  *)
(* is made under its claim file, which is read and replaced under a lock   *)
(* held by a helper process; the note of a commit is added under a second, *)
(* nested claim.                                                           *)
(*                                                                         *)
(* Deadlines are not timed: wherever the code compares the clock with its  *)
(* phase deadline, both outcomes are possible.                             *)
(***************************************************************************)
EXTENDS Naturals, FiniteSets, Sequences

CONSTANTS
    Hook,             \* hook processes that may run at once
    Inv,              \* shell invocations (directories of invocations/)
    Commit,
    MetadataOnly,     \* commits that only move span metadata: no note
    Observed,         \* [Inv -> SUBSET Commit]: what the reflogs show of each
    Locator,          \* [Inv -> transcript locator] of its note document
    Slot,             \* [Inv \cup Commit -> lock stripe number]
    Window,           \* invocations kept before an enrollment evicts
    ReceiptWindow,    \* receipts kept of one invocation
    MaxFault,         \* hooks killed, lock helpers dead and invocations
                      \* abandoned for the retention period, in a behaviour
    None, Dead        \* no owner; an owner whose process has gone

Key == Inv \cup Commit

ASSUME Parameters ==
    /\ MetadataOnly \subseteq Commit
    /\ Observed \in [Inv -> SUBSET Commit]
    /\ Inv \cap Commit = {}
    /\ DOMAIN Slot = Key
    /\ None \notin Hook \cup Key /\ Dead \notin Hook /\ None # Dead
    /\ {Window, MaxFault} \subseteq Nat /\ ReceiptWindow \in Nat \ {0}

VARIABLES
    dir,        \* [Inv -> the invocation's directory, or None]
    stale,      \* invocations without activity for the retention period
    lock,       \* [lock name -> the hook whose helper holds it, or None]
    claim,      \* [Key -> the owner its claim file names, or None]
    hook,       \* [Hook -> the process: operation, step and locals]
    notes,      \* [Commit -> locators of this session's note documents]
    orphan,     \* <<commit, locator>> adds that outlived their hook
    late,       \* those of them that reached the database
    faults      \* how many of those there have been

store == <<dir, stale>>
mutex == <<lock, claim>>
base  == <<notes, orphan, late>>
vars  == <<store, mutex, hook, base, faults>>

Status == {"active", "completed", "acknowledged", "retired"}

\* The files of an invocation's directory are created in this order.
Files == {"enrollment", "state", "whole"}

\* The files in receipts/ are the receipts and what interrupted publications
\* left there; state.json lists the receipts, oldest first, while the
\* invocation is active.
Directory == [files: Files, status: Status, receipts: SUBSET Commit, leftover: Nat,
              nonces: Seq(Commit)]

NewDirectory == [files |-> "enrollment", status |-> "active", receipts |-> {}, leftover |-> 0,
                 nonces |-> <<>>]

ASSUME NoDirectory == None \notin Directory

Steps == {"idle", "next", "lock", "body", "create", "observe", "window", "state",
          "drain", "list", "add", "ack", "retire", "release"}

\* The locals of a hook: the invocation it works on, the one it enrolls, the
\* entries still to visit, the commits still to publish or the receipts still
\* to drain, the one in hand, and the list publishReceipt is about to save.
Process == [op: {"none", "enroll", "terminal", "cleanup"}, pc: Steps,
            at: Inv \cup {None}, mine: Inv \cup {None}, todo: SUBSET Inv,
            names: SUBSET Commit, cur: Commit \cup {None}, listed: Seq(Commit)]

Idle == [op |-> "none", pc |-> "idle", at |-> None, mine |-> None, todo |-> {},
         names |-> {}, cur |-> None, listed |-> <<>>]

LockNames == {"invocation", "association"} \X {Slot[k] : k \in Key}

\* Mutant: one lock file serves both roles and every key.
LockNameShared(k) == CHOOSE n \in LockNames : TRUE

\* Claims of the two roles never share a lock file.
LockName(k) == IF k \in Inv THEN <<"invocation", Slot[k]>> ELSE <<"association", Slot[k]>>

Init ==
    /\ dir = [i \in Inv |-> None]
    /\ stale = {}
    /\ lock = [n \in LockNames |-> None]
    /\ claim = [k \in Key |-> None]
    /\ hook = [h \in Hook |-> Idle]
    /\ notes = [c \in Commit |-> {}]
    /\ orphan = {} /\ late = {}
    /\ faults = 0

At(h, p) == hook[h].pc = p
In(h, o, p) == hook[h].op = o /\ hook[h].pc = p
Become(h, process) == hook' = [hook EXCEPT ![h] = process]
Goto(h, p) == Become(h, [hook[h] EXCEPT !.pc = p])

Enrolled(i) == dir[i] # None
Live == {i \in Inv : Enrolled(i)}
Readable(i) == dir[i] # None /\ dir[i].files \in {"state", "whole"}
StatusIn(i, S) == Readable(i) /\ dir[i].status \in S

\* A write of state.json renews lastActivityMs.  Its list of receipts is asked
\* for only while the invocation is active, so it is kept only then.
SetStatus(i, s) ==
    /\ dir' = [dir EXCEPT ![i].status = s, ![i].nonces = <<>>]
    /\ stale' = stale \ {i}

\* boundedEntries refuses a directory with more entries than the window.
Entries(i) == Cardinality(dir[i].receipts) + dir[i].leftover

----------------------------------------------------------------------------
(* Claims: acquireReceiptClaim, in the lock of a helper process.           *)

\* The claim a hook is after or holds: an invocation's, or, nested in it,
\* that of the association of the commit in hand.
Nested(h) == hook[h].cur # None /\ hook[h].cur \notin MetadataOnly
KeyOf(h) == IF Nested(h) THEN hook[h].cur ELSE hook[h].at

Evicting(h) == hook[h].op = "enroll" /\ hook[h].at # hook[h].mine

\* Without the claim a receipt stays for later, a victim is passed over, and
\* every other operation ends.
Refused(h) ==
    \/ /\ Nested(h)
       /\ Become(h, [hook[h] EXCEPT !.pc = "drain", !.cur = None])
    \/ /\ ~Nested(h) /\ Evicting(h)
       /\ Become(h, [hook[h] EXCEPT !.pc = "next", !.at = None])
    \/ /\ ~Nested(h) /\ ~Evicting(h)
       /\ Become(h, Idle)

\* Mutant: the owner's liveness is not asked.
AcquireUnasked(h) ==
    /\ At(h, "lock")
    /\ lock[LockName(KeyOf(h))] = None
    /\ lock' = [lock EXCEPT ![LockName(KeyOf(h))] = h]
    /\ claim' = [claim EXCEPT ![KeyOf(h)] = h]
    /\ Goto(h, IF Nested(h) THEN "list" ELSE "body")
    /\ UNCHANGED <<store, base, faults>>

\* The helper gets the operating system's lock and in it the claim file is
\* read: no claim is acquired, and a dead owner's replaced.  For a living owner
\* the lock is let go and asked for again, so this step waits.
Acquire(h) ==
    /\ At(h, "lock")
    /\ lock[LockName(KeyOf(h))] = None
    /\ claim[KeyOf(h)] \in {None, Dead}
    /\ lock' = [lock EXCEPT ![LockName(KeyOf(h))] = h]
    /\ claim' = [claim EXCEPT ![KeyOf(h)] = h]
    /\ Goto(h, IF Nested(h) THEN "list" ELSE "body")
    /\ UNCHANGED <<store, base, faults>>

\* Mutant: a hook that gives up clears the claim it waited for.
GiveUpClears(h) ==
    /\ At(h, "lock")
    /\ claim' = [claim EXCEPT ![KeyOf(h)] = None]
    /\ Refused(h)
    /\ UNCHANGED <<store, lock, base, faults>>

\* The lock is not to be had before the deadline.
GiveUp(h) ==
    /\ At(h, "lock")
    /\ Refused(h)
    /\ UNCHANGED <<store, mutex, base, faults>>

\* What follows once the claim is given back.  A helper that died makes the
\* release throw: loops over several invocations stop there.
Released(h, intact) ==
    \/ /\ Nested(h)
       /\ Become(h, [hook[h] EXCEPT !.pc = "drain", !.cur = None])
    \/ /\ ~Nested(h) /\ (hook[h].op = "cleanup" \/ Evicting(h))
       /\ Become(h, [hook[h] EXCEPT !.pc = "next", !.at = None,
                                    !.todo = IF intact THEN @ ELSE {}])
    \/ /\ ~Nested(h) /\ ~(hook[h].op = "cleanup" \/ Evicting(h))
       /\ Become(h, Idle)

\* Remove the claim file, if it is still this hook's, then let the helper go.
Release(h) ==
    /\ At(h, "release")
    /\ LET k == KeyOf(h)
           n == LockName(k)
       IN /\ claim' = IF claim[k] = h THEN [claim EXCEPT ![k] = None] ELSE claim
          /\ lock' = IF lock[n] = h THEN [lock EXCEPT ![n] = None] ELSE lock
          /\ Released(h, claim[k] = h /\ lock[n] = h)
    /\ UNCHANGED <<store, base, faults>>

----------------------------------------------------------------------------
(* enrollCommitInvocation, with evictInvocations before it.                *)

\* evictionRank: broken, retired and acknowledged entries go, and work
\* abandoned for the retention period; nothing else does.
Evictable(i) == ~Readable(i) \/ dir[i].status \in {"retired", "acknowledged"} \/ i \in stale

Candidates(i) == IF Cardinality(Live) > Window THEN {v \in Live \ {i} : Evictable(v)} ELSE {}

\* What earlier evictions left is swept; past the window the candidates are
\* ranked in one snapshot, before any of them is claimed.
Enroll(h, i) ==
    /\ At(h, "idle")
    /\ Become(h, [Idle EXCEPT !.op = "enroll", !.pc = "next", !.mine = i, !.todo = Candidates(i)])
    /\ UNCHANGED <<store, mutex, base, faults>>

NextVictim(h) ==
    /\ In(h, "enroll", "next")
    /\ \E v \in hook[h].todo :
          Become(h, [hook[h] EXCEPT !.pc = "lock", !.at = v, !.todo = @ \ {v}])
    /\ UNCHANGED <<store, mutex, base, faults>>

\* No candidate is left, the floor is reached, or the eviction's share of the
\* deadline is spent: the hook turns to its own invocation.
EvictionEnds(h) ==
    /\ In(h, "enroll", "next")
    /\ Become(h, [hook[h] EXCEPT !.pc = "lock", !.at = hook[h].mine, !.todo = {}])
    /\ UNCHANGED <<store, mutex, base, faults>>

\* Mutant: a victim is not ranked again under its claim.
EvictUnranked(h) ==
    /\ Evicting(h) /\ At(h, "body")
    /\ dir' = [dir EXCEPT ![hook[h].at] = None]
    /\ Goto(h, "release")
    /\ UNCHANGED <<stale, mutex, base, faults>>

\* Under the claim the victim is ranked once more and renamed away whole.  One
\* that has gone meanwhile makes the rename throw, which ends the batch.
Evict(h) ==
    /\ Evicting(h) /\ At(h, "body")
    /\ LET v == hook[h].at IN
       \/ /\ dir[v] # None /\ Evictable(v)
          /\ dir' = [dir EXCEPT ![v] = None]
          /\ Goto(h, "release")
       \/ /\ dir[v] # None /\ ~Evictable(v)
          /\ Goto(h, "release")
          /\ UNCHANGED dir
       \/ /\ dir[v] = None
          /\ Become(h, [hook[h] EXCEPT !.pc = "release", !.todo = {}])
          /\ UNCHANGED dir
    /\ UNCHANGED <<stale, mutex, base, faults>>

\* An invocation that has an enrollment is accepted as it is or refused, and
\* never written; any other gets its directory.
EnrollOwn(h) ==
    /\ In(h, "enroll", "body") /\ ~Evicting(h)
    /\ LET i == hook[h].mine IN
       \/ /\ Enrolled(i)
          /\ Goto(h, "release")
          /\ UNCHANGED store
       \/ /\ ~Enrolled(i)
          /\ dir' = [dir EXCEPT ![i] = NewDirectory]
          /\ stale' = stale \ {i}
          /\ Goto(h, "create")
    /\ UNCHANGED <<mutex, base, faults>>

\* After enrollment.json state.json and observations.json are published.
Create(h) ==
    /\ At(h, "create")
    /\ LET i == hook[h].mine IN
       /\ dir[i] # None
       /\ \/ /\ dir[i].files = "enrollment"
             /\ dir' = [dir EXCEPT ![i].files = "state"]
             /\ UNCHANGED hook
          \/ /\ dir[i].files = "state"
             /\ dir' = [dir EXCEPT ![i].files = "whole"]
             /\ Goto(h, "release")
    /\ UNCHANGED <<stale, mutex, base, faults>>

\* A failed write takes the whole directory back.
CreateFails(h) ==
    /\ At(h, "create")
    /\ dir' = [dir EXCEPT ![hook[h].mine] = None]
    /\ Goto(h, "release")
    /\ UNCHANGED <<stale, mutex, base, faults>>

----------------------------------------------------------------------------
(* terminalCommitInvocation and publishReceipt.                            *)

\* The enrollment is read before the claim; without one the hook returns.  (If
\* the invocation is evicted and enrolled anew before the claim is had, the new
\* enrollment's key differs and the code gives up; here the hook may go on.)
Terminal(h, i) ==
    /\ At(h, "idle") /\ Enrolled(i)
    /\ Become(h, [Idle EXCEPT !.op = "terminal", !.pc = "lock", !.at = i])
    /\ UNCHANGED <<store, mutex, base, faults>>

\* Mutant: a retired invocation is drained like a completed one.
TerminalReadsRetired(h) ==
    /\ In(h, "terminal", "body")
    /\ LET i == hook[h].at IN
       \/ /\ StatusIn(i, {"active"}) /\ dir[i].files = "whole"
          /\ Become(h, [hook[h] EXCEPT !.pc = "observe", !.names = Observed[i]])
       \/ /\ StatusIn(i, {"completed", "acknowledged", "retired"})
          /\ Goto(h, "observe")
       \/ /\ ~Readable(i) \/ (StatusIn(i, {"active"}) /\ dir[i].files # "whole")
          /\ Goto(h, "release")
    /\ UNCHANGED <<store, mutex, base, faults>>

\* An unreadable state, missing observations of an active invocation, and the
\* status "retired" end the hook.
TerminalReads(h) ==
    /\ In(h, "terminal", "body")
    /\ LET i == hook[h].at IN
       \/ /\ StatusIn(i, {"active"}) /\ dir[i].files = "whole"
          /\ Become(h, [hook[h] EXCEPT !.pc = "observe", !.names = Observed[i]])
       \/ /\ StatusIn(i, {"completed", "acknowledged"})
          /\ Goto(h, "observe")
       \/ /\ ~Readable(i) \/ StatusIn(i, {"retired"}) \/ (StatusIn(i, {"active"}) /\ dir[i].files # "whole")
          /\ Goto(h, "release")
    /\ UNCHANGED <<store, mutex, base, faults>>

\* The receipt's name is determined by its commit: one that is there stays as
\* it is, and in the list as it was.  The commits come in the reflog's order,
\* which is any order here.
Publish(h) ==
    /\ At(h, "observe")
    /\ StatusIn(hook[h].at, {"active"})
    /\ \E c \in hook[h].names : LET i == hook[h].at IN
       \/ /\ c \in dir[i].receipts
          /\ Become(h, [hook[h] EXCEPT !.names = @ \ {c}])
          /\ UNCHANGED dir
       \/ /\ c \notin dir[i].receipts
          /\ dir' = [dir EXCEPT ![i].receipts = @ \cup {c}]
          /\ Become(h, [hook[h] EXCEPT !.pc = "window", !.names = @ \ {c},
                                       !.listed = Append(dir[i].nonces, c)])
    /\ UNCHANGED <<stale, mutex, base, faults>>

\* The receipts past the window, oldest first, and those it keeps.
Dropped(s) == {s[k] : k \in 1 .. Len(s) - ReceiptWindow}
Newest(s) == IF Len(s) > ReceiptWindow THEN SubSeq(s, Len(s) - ReceiptWindow + 1, Len(s)) ELSE s

\* Mutant: the window is full one receipt too early.
DropOldestEarly(h) ==
    /\ At(h, "window") /\ Readable(hook[h].at)
    /\ LET s == hook[h].listed IN
       dir' = [dir EXCEPT ![hook[h].at].receipts = @ \ {s[k] : k \in 1 .. Len(s) + 1 - ReceiptWindow}]
    /\ Goto(h, "state")
    /\ UNCHANGED <<stale, mutex, base, faults>>

\* The receipts that fall out of the window lose their files, delivered or
\* not, before state.json says so.
DropOldest(h) ==
    /\ At(h, "window") /\ Readable(hook[h].at)
    /\ dir' = [dir EXCEPT ![hook[h].at].receipts = @ \ Dropped(hook[h].listed)]
    /\ Goto(h, "state")
    /\ UNCHANGED <<stale, mutex, base, faults>>

SaveList(h) ==
    /\ At(h, "state") /\ Readable(hook[h].at)
    /\ dir' = [dir EXCEPT ![hook[h].at].nonces = Newest(hook[h].listed)]
    /\ stale' = stale \ {hook[h].at}
    /\ Become(h, [hook[h] EXCEPT !.pc = "observe", !.listed = <<>>])
    /\ UNCHANGED <<mutex, base, faults>>

\* Every commit is published, or the observation failed, maybe in the middle of
\* a publication, and what it had not published yet is given up.  The status is
\* written, an acknowledged one over too, and the receipts are listed for the
\* drain; the listing throws past the deadline and past the window, and then
\* the status stays.
Complete(h) ==
    /\ hook[h].pc \in {"observe", "window", "state"} /\ Readable(hook[h].at)
    /\ SetStatus(hook[h].at, "completed")
    /\ LET i == hook[h].at IN
       \/ /\ Entries(i) <= ReceiptWindow
          /\ Become(h, [hook[h] EXCEPT !.pc = "drain", !.names = dir[i].receipts, !.listed = <<>>])
       \/ Become(h, [hook[h] EXCEPT !.pc = "release", !.names = {}, !.listed = <<>>])
    /\ UNCHANGED <<mutex, base, faults>>

----------------------------------------------------------------------------
(* drainDirectory: one receipt after the other, in directory order.        *)

\* A commit that only moves span metadata needs no note; for any other the
\* hook goes for the association's claim.
DrainNext(h) ==
    /\ At(h, "drain")
    /\ \E c \in hook[h].names :
          Become(h, [hook[h] EXCEPT !.pc = IF c \in MetadataOnly THEN "ack" ELSE "lock",
                                    !.cur = c, !.names = @ \ {c}])
    /\ UNCHANGED <<store, mutex, base, faults>>

\* A receipt whose commit cannot be inspected stays.
InspectFails(h) ==
    /\ At(h, "drain")
    /\ \E c \in hook[h].names : Become(h, [hook[h] EXCEPT !.names = @ \ {c}])
    /\ UNCHANGED <<store, mutex, base, faults>>

\* Mutant: documents are compared whole, locators included.
ListWhole(h) ==
    /\ At(h, "list")
    /\ Goto(h, IF Locator[hook[h].at] \in notes[hook[h].cur] THEN "ack" ELSE "add")
    /\ UNCHANGED <<store, mutex, base, faults>>

\* `notes list`: this session's document is reused whatever its locator is;
\* two of them are refused.
List(h) ==
    /\ At(h, "list")
    /\ Goto(h, CASE notes[hook[h].cur] = {} -> "add"
                 [] Cardinality(notes[hook[h].cur]) = 1 -> "ack"
                 [] OTHER -> "release")
    /\ UNCHANGED <<store, mutex, base, faults>>

\* `notes add`: the answer may be lost, or the wait for it time out, after the
\* note is in the database.
Add(h) ==
    /\ At(h, "add")
    /\ notes' = [notes EXCEPT ![hook[h].cur] = @ \cup {Locator[hook[h].at]}]
    /\ Goto(h, "ack") \/ Goto(h, "release")
    /\ UNCHANGED <<store, mutex, orphan, late, faults>>

\* A failed call, or one killed at its timeout before it wrote: the receipt
\* stays.
NotesFail(h) ==
    /\ hook[h].pc \in {"list", "add"}
    /\ Goto(h, "release")
    /\ UNCHANGED <<store, mutex, base, faults>>

\* Before its deadline the hook removes the receipt; after it, it does not.
Acknowledge(h) ==
    /\ At(h, "ack")
    /\ \/ /\ dir[hook[h].at] # None
          /\ dir' = [dir EXCEPT ![hook[h].at].receipts = @ \ {hook[h].cur}]
       \/ dir' = dir
    /\ Become(h, [hook[h] EXCEPT !.pc = IF Nested(h) THEN "release" ELSE "drain",
                                 !.cur = IF Nested(h) THEN @ ELSE None])
    /\ UNCHANGED <<stale, mutex, base, faults>>

Pending(i) == dir[i].receipts # {} \/ dir[i].leftover > 0

\* Mutant: the status is taken from the loop's own count, not from disk.
DrainEndsUnread(h) ==
    /\ At(h, "drain") /\ Readable(hook[h].at)
    /\ SetStatus(hook[h].at, "acknowledged")
    /\ Become(h, [hook[h] EXCEPT !.pc = IF hook[h].op = "cleanup" THEN "retire" ELSE "release",
                                 !.names = {}])
    /\ UNCHANGED <<mutex, base, faults>>

\* All receipts were tried or the deadline ended the loop: what the directory
\* still holds decides the status.
DrainEnds(h) ==
    /\ At(h, "drain") /\ Readable(hook[h].at)
    /\ SetStatus(hook[h].at, IF Pending(hook[h].at) THEN "completed" ELSE "acknowledged")
    /\ Become(h, [hook[h] EXCEPT
          !.pc = IF hook[h].op = "cleanup" /\ ~Pending(hook[h].at) THEN "retire" ELSE "release",
          !.names = {}])
    /\ UNCHANGED <<mutex, base, faults>>

----------------------------------------------------------------------------
(* cleanupCommitInvocations, for every invocation of the session.          *)

Cleanup(h) ==
    /\ At(h, "idle") /\ Live # {}
    /\ Become(h, [Idle EXCEPT !.op = "cleanup", !.pc = "next", !.todo = Live])
    /\ UNCHANGED <<store, mutex, base, faults>>

\* cleanupMayAffect, read without the claim: an unreadable state is not
\* pruned.
MayAffect(i) == ~Readable(i) \/ i \in stale \/ dir[i].status \notin {"active", "retired"}

\* An entry without an enrollment, gone since the snapshot or never finished,
\* throws out of the loop.
CleanupNext(h) ==
    /\ In(h, "cleanup", "next")
    /\ \E i \in hook[h].todo :
         \/ /\ Enrolled(i) /\ MayAffect(i)
            /\ Become(h, [hook[h] EXCEPT !.pc = "lock", !.at = i, !.todo = @ \ {i}])
         \/ /\ Enrolled(i) /\ ~MayAffect(i)
            /\ Become(h, [hook[h] EXCEPT !.todo = @ \ {i}])
         \/ /\ ~Enrolled(i)
            /\ Become(h, Idle)
    /\ UNCHANGED <<store, mutex, base, faults>>

\* The loop is through, the deadline is over, or an evicted directory that is
\* renamed and not deleted yet was among the entries.
CleanupEnds(h) ==
    /\ In(h, "cleanup", "next")
    /\ Become(h, Idle)
    /\ UNCHANGED <<store, mutex, base, faults>>

\* Under the claim everything is read again: abandoned work is deleted, active
\* and retired invocations are left alone, the others are drained.  A listing
\* that throws, past the deadline or the window, ends the loop.
CleanupReads(h) ==
    /\ In(h, "cleanup", "body")
    /\ LET i == hook[h].at IN
       \/ /\ ~Readable(i)
          /\ Become(h, [hook[h] EXCEPT !.pc = "release", !.todo = {}])
          /\ UNCHANGED dir
       \/ /\ Readable(i) /\ i \in stale
          /\ dir' = [dir EXCEPT ![i] = None]
          /\ Goto(h, "release")
       \/ /\ StatusIn(i, {"active", "retired"}) /\ i \notin stale
          /\ Goto(h, "release")
          /\ UNCHANGED dir
       \/ /\ StatusIn(i, {"completed", "acknowledged"}) /\ i \notin stale
          /\ Entries(i) <= ReceiptWindow
          /\ Become(h, [hook[h] EXCEPT !.pc = "drain", !.names = dir[i].receipts])
          /\ UNCHANGED dir
       \/ /\ StatusIn(i, {"completed", "acknowledged"}) /\ i \notin stale
          /\ Become(h, [hook[h] EXCEPT !.pc = "release", !.todo = {}])
          /\ UNCHANGED dir
    /\ UNCHANGED <<stale, mutex, base, faults>>

\* Mutant: a status the decoder of state.json does not know.
RetireExpired(h) ==
    /\ At(h, "retire") /\ Readable(hook[h].at)
    /\ SetStatus(hook[h].at, "expired")
    /\ Goto(h, "release")
    /\ UNCHANGED <<mutex, base, faults>>

\* Nothing is pending: the invocation is retired.
Retire(h) ==
    /\ At(h, "retire") /\ Readable(hook[h].at)
    /\ SetStatus(hook[h].at, "retired")
    /\ Goto(h, "release")
    /\ UNCHANGED <<mutex, base, faults>>

----------------------------------------------------------------------------
(* Faults and time.                                                        *)

\* The host kills the hook.  Its helpers see their input close and let the
\* locks go; its claim files stay and name a dead process; a `notes add`, in
\* a process group of its own, goes on; a receipt being published leaves its
\* temporary file, before it has its name or with it.
Crash(h) ==
    /\ ~At(h, "idle") /\ faults < MaxFault
    /\ faults' = faults + 1
    /\ lock' = [n \in DOMAIN lock |-> IF lock[n] = h THEN None ELSE lock[n]]
    /\ claim' = [k \in Key |-> IF claim[k] = h THEN Dead ELSE claim[k]]
    /\ orphan' = IF At(h, "add") THEN orphan \cup {<<hook[h].cur, Locator[hook[h].at]>>} ELSE orphan
    /\ \/ dir' = dir
       \/ /\ At(h, "window") \/ (At(h, "observe") /\ hook[h].names # {})
          /\ StatusIn(hook[h].at, {"active"})
          /\ dir' = [dir EXCEPT ![hook[h].at].leftover = @ + 1]
    /\ Become(h, Idle)
    /\ UNCHANGED <<stale, notes, late>>

\* A helper dies and the hook it works for does not notice.  (Were it to die
\* between the reading of the claim file and its replacement, nothing would
\* keep two hooks from replacing one claim; Acquire leaves that out.)
HelperDies(n) ==
    /\ faults < MaxFault
    /\ lock[n] \in Hook
    /\ faults' = faults + 1
    /\ lock' = [lock EXCEPT ![n] = None]
    /\ UNCHANGED <<store, claim, hook, base>>

\* An add that outlived its hook ends, with or without a note.
OrphanEnds ==
    /\ \E a \in orphan :
          /\ orphan' = orphan \ {a}
          /\ \/ /\ notes' = [notes EXCEPT ![a[1]] = @ \cup {a[2]}]
                /\ late' = IF a[2] \in notes[a[1]] THEN late ELSE late \cup {a}
             \/ UNCHANGED <<notes, late>>
    /\ UNCHANGED <<store, mutex, hook, faults>>

\* A day passes without activity, far more than any hook's three seconds.
GrowStale(i) ==
    /\ dir[i] # None /\ i \notin stale /\ faults < MaxFault
    /\ claim[i] \notin Hook
    /\ stale' = stale \cup {i}
    /\ faults' = faults + 1
    /\ UNCHANGED <<dir, mutex, hook, base>>

Step(h) ==
    \/ \E i \in Inv : Enroll(h, i) \/ Terminal(h, i)
    \/ Cleanup(h)
    \/ Acquire(h) \/ GiveUp(h) \/ Release(h)
    \/ NextVictim(h) \/ EvictionEnds(h) \/ Evict(h)
    \/ EnrollOwn(h) \/ Create(h) \/ CreateFails(h)
    \/ TerminalReads(h) \/ Publish(h) \/ DropOldest(h) \/ SaveList(h) \/ Complete(h)
    \/ DrainNext(h) \/ InspectFails(h) \/ List(h) \/ Add(h) \/ NotesFail(h)
    \/ Acknowledge(h) \/ DrainEnds(h)
    \/ CleanupNext(h) \/ CleanupEnds(h) \/ CleanupReads(h) \/ Retire(h)
    \/ Crash(h)

Next ==
    \/ \E h \in Hook : Step(h)
    \/ \E n \in LockNames : HelperDies(n)
    \/ OrphanEnds
    \/ \E i \in Inv : GrowStale(i)

Spec == Init /\ [][Next]_vars

----------------------------------------------------------------------------
(* Properties.                                                             *)

\* The state has its type.
TypeOK ==
    /\ dir \in [Inv -> Directory \cup {None}]
    /\ stale \subseteq Inv
    /\ lock \in [LockNames -> Hook \cup {None}]
    /\ claim \in [Key -> Hook \cup {None, Dead}]
    /\ hook \in [Hook -> Process]
    /\ notes \in [Commit -> SUBSET {Locator[i] : i \in Inv}]
    /\ orphan \cup late \subseteq Commit \X {Locator[i] : i \in Inv}
    /\ faults \in 0..MaxFault

\* The steps a hook takes under its invocation's claim.
Claimed == {"body", "create", "observe", "window", "state", "drain", "list",
            "add", "ack", "retire", "release"}

Holding(h) == hook[h].pc \in Claimed \/ Nested(h)
Associating(h) == Nested(h) /\ hook[h].pc \in {"list", "add", "ack", "release"}

\* No two hooks work on one invocation, and no two on the note of one commit,
\* though hooks are killed and lock helpers die under them (acquireReceiptClaim).
ClaimExclusive ==
    \A g, h \in Hook : g # h =>
        /\ ~(Holding(g) /\ Holding(h) /\ hook[g].at = hook[h].at)
        /\ ~(Associating(g) /\ Associating(h) /\ hook[g].cur = hook[h].cur)

\* "Live or uncertain owners are never stolen" (decideCommitClaim): the claim
\* of a hook that runs goes only when that hook releases it.
LiveOwnerKeepsClaim ==
    [][\A k \in Key : claim[k] \in Hook /\ claim'[k] # claim[k] =>
          hook[claim[k]].pc = "release" \/ hook'[claim[k]] = Idle]_vars

\* Waiting for a lock another hook's helper holds, or for a claim of one.
Blocked(h) ==
    /\ At(h, "lock")
    /\ lock[LockName(KeyOf(h))] # None \/ claim[KeyOf(h)] \in Hook

\* Whenever hooks are running, one of them can go on without its deadline:
\* claims nest from an invocation to an association and never the other way.
NoStandoff ==
    (\E h \in Hook : ~At(h, "idle")) => \E h \in Hook : ~At(h, "idle") /\ ~Blocked(h)

\* A commit gets one note per session: a second comes only from an add that
\* outlived its hook (commitAssociationKey, selectCommitAssociation).
OneAssociation ==
    \A c \in Commit : Cardinality({l \in notes[c] : <<c, l>> \notin late}) <= 1

\* A receipt goes only when its commit has a note of this session or needs
\* none, however the notes command fails, with a directory of abandoned work,
\* or, while the invocation is active, when the window is full without it: the
\* eviction, which chose its victims before it claimed them, and the cleanup
\* drop no invocation with receipts to deliver, and publications that were
\* interrupted do not make the window discard more than it must.
EvidenceKept ==
    [][\A i \in Live : \A c \in dir[i].receipts :
          \/ dir'[i] # None /\ c \in dir'[i].receipts
          \/ dir'[i] # None /\ (c \in MetadataOnly \/ notes[c] # {})
          \/ /\ dir'[i] # None /\ StatusIn(i, {"active"})
             /\ Cardinality(dir'[i].receipts) >= ReceiptWindow
          \/ dir'[i] = None /\ i \in stale]_vars

\* An invocation that counts as finished holds no receipt.
FinishedIsEmpty ==
    \A i \in Inv : StatusIn(i, {"acknowledged", "retired"}) => ~Pending(i)

\* "Retired keys never reopen" while their directory is there, and nothing
\* returns to active.
NeverReopens ==
    [][\A i \in Inv : Readable(i) /\ Readable(i)' =>
          /\ dir[i].status = "retired" => dir'[i].status = "retired"
          /\ dir[i].status # "active" => dir'[i].status # "active"]_vars

\* "Deterministic names make interrupted publication retryable"
\* (publishReceipt): a drain that leaves no receipt, every commit of the
\* invocation having its note, finishes the invocation, also when a publication
\* was interrupted before.
RetriedDrainFinishes ==
    [][\A h \in Hook : LET i == hook[h].at IN
          /\ At(h, "drain") /\ hook'[h].pc \in {"release", "retire"}
          /\ dir[i].receipts = {} /\ \A c \in Observed[i] \ MetadataOnly : notes[c] # {}
          => dir'[i].status = "acknowledged"]_vars

============================================================================
