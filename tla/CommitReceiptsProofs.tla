------------------------ MODULE CommitReceiptsProofs ------------------------
(***************************************************************************)
(* Proofs about CommitReceipts for every number of hooks, invocations,     *)
(* commits and faults.  The invariant says who owns which lock and claim   *)
(* (Owned), what a step's place in the code says of the invocation's       *)
(* directory (Placed) and of the notes (Noted).                            *)
(***************************************************************************)
EXTENDS CommitReceipts, FiniteSetTheorems, SequenceTheorems, TLAPS

\* What the locals of a hook are at each of its steps.
Shaped(h) ==
    /\ hook[h].pc \in {"idle", "next", "body", "create", "observe", "window", "state", "drain", "retire"} =>
          hook[h].cur = None
    /\ hook[h].pc \in {"list", "add"} => Nested(h)
    /\ hook[h].pc = "ack" => hook[h].cur # None
    /\ hook[h].cur # None => hook[h].pc = "ack" \/ Nested(h)
    /\ hook[h].pc \notin {"idle", "next"} => hook[h].at \in Inv
    /\ hook[h].op = "enroll" => hook[h].mine \in Inv
    /\ hook[h].pc = "create" => hook[h].at = hook[h].mine

\* A hook has the claims its step needs.
Secured(h) ==
    /\ Holding(h) => claim[hook[h].at] = h
    /\ Associating(h) => claim[hook[h].cur] = h

\* The locks and claims a hook may be found to have.
UsesLock(h, n) ==
    \/ Holding(h) /\ n = LockName(hook[h].at)
    \/ Associating(h) /\ n = LockName(hook[h].cur)
UsesClaim(h, k) ==
    \/ Holding(h) /\ k = hook[h].at
    \/ Associating(h) /\ k = hook[h].cur

Owned ==
    /\ \A h \in Hook : Shaped(h) /\ Secured(h)
    /\ \A n \in LockNames, g \in Hook : lock[n] = g => UsesLock(g, n)
    /\ \A k \in Key, g \in Hook : claim[k] = g => UsesClaim(g, k)

\* A directory still being created has nothing in it.
Unpublished(i) ==
    dir[i] # None /\ dir[i].files # "whole" =>
        dir[i].status = "active" /\ ~Pending(i)

\* What the step of a hook says of the directory it works on.
InPlace(h) ==
    LET i == hook[h].at IN
    /\ hook[h].pc = "create" => dir[i] # None /\ dir[i].files \in {"enrollment", "state"}
    /\ hook[h].pc = "observe" => StatusIn(i, {"active", "completed", "acknowledged"}) /\ dir[i].files = "whole"
    /\ hook[h].pc \in {"window", "state"} => StatusIn(i, {"active"}) /\ dir[i].files = "whole"
    /\ hook[h].pc \in {"drain", "ack"} \/ Nested(h) => StatusIn(i, {"completed", "acknowledged"})
    /\ hook[h].pc = "retire" => StatusIn(i, {"acknowledged"})

Placed ==
    /\ \A i \in Inv : Unpublished(i)
    /\ FinishedIsEmpty
    /\ \A h \in Hook : InPlace(h)

\* The notes of a commit that no orphaned add has written.
Fresh(c) == {l \in notes[c] : <<c, l>> \notin late}

Noted ==
    /\ \A h \in Hook :
          /\ hook[h].pc = "add" => Fresh(hook[h].cur) = {}
          /\ hook[h].pc = "ack" => hook[h].cur \in MetadataOnly \/ notes[hook[h].cur] # {}
    /\ \A c \in Commit : \A l, m \in Fresh(c) : l = m

\* The list in state.json never names more receipts than there are, nor more
\* than the window holds, and what publishReceipt is about to save is measured
\* against the files it leaves: a list that ran ahead of the files would make
\* the window discard receipts it has room for.
Windowed(i) ==
    dir[i] # None /\ dir[i].status = "active" =>
        /\ IsFiniteSet(dir[i].receipts)
        /\ Len(dir[i].nonces) <= ReceiptWindow
        /\ Len(dir[i].nonces) <= Cardinality(dir[i].receipts)

Measured(h) ==
    LET n == Len(hook[h].listed)
        m == Cardinality(dir[hook[h].at].receipts)
    IN /\ hook[h].pc \in {"window", "state"} => n <= ReceiptWindow + 1
       /\ hook[h].pc = "window" => n <= m
       /\ hook[h].pc = "state" => n <= m \/ ReceiptWindow <= m

Counted == (\A i \in Inv : Windowed(i)) /\ (\A h \in Hook : Measured(h))

IInv == TypeOK /\ Owned /\ Placed /\ Noted /\ Counted

----------------------------------------------------------------------------
\* The invariant holds at the start.
LEMMA InitInv == Init => IInv
<1> SUFFICES ASSUME Init PROVE IInv
  OBVIOUS
<1> USE Parameters DEF Init, Idle
<1>1. TypeOK
  <2>1. Idle \in Process
    BY EmptySeq DEF Process, Steps
  <2> QED BY <2>1 DEF TypeOK, Key
<1>2. Owned
  BY DEF Owned, Shaped, Secured, Holding, Associating, Nested, Claimed, Key
<1>3. Placed
  BY DEF Placed, Unpublished, FinishedIsEmpty, InPlace, StatusIn, Readable, Nested
<1>4. Noted
  BY DEF Noted, Fresh
<1>5. Counted
  BY DEF Counted, Windowed, Measured
<1> QED BY <1>1, <1>2, <1>3, <1>4, <1>5 DEF IInv

----------------------------------------------------------------------------
(* What a step does to the record of its hook, and that it leaves those of *)
(* the others alone.                                                       *)

Others(h) == \A g \in Hook \ {h} : hook'[g] = hook[g]

\* The hook goes on with its operation, at step p, on invocation i and with
\* commit c in hand.
Moves(h, p, i, c) ==
    /\ hook' \in [Hook -> Process]
    /\ hook'[h].pc = p /\ hook'[h].at = i /\ hook'[h].cur = c
    /\ hook'[h].op = hook[h].op /\ hook'[h].mine = hook[h].mine
    /\ Others(h)

\* The hook starts an operation, or ends one.
Starts(h, o, p, i, m) ==
    /\ hook' \in [Hook -> Process]
    /\ hook'[h].op = o /\ hook'[h].pc = p /\ hook'[h].at = i /\ hook'[h].mine = m
    /\ hook'[h].cur = None
    /\ Others(h)

LEMMA EmptyList == <<>> \in Seq(Commit)
BY EmptySeq

LEMMA IdleProcess == Idle \in Process
BY EmptyList DEF Process, Steps, Idle

LEMMA Becoming ==
  ASSUME TypeOK, NEW h \in Hook, NEW r \in Process, Become(h, r)
  PROVE  /\ hook' \in [Hook -> Process]
         /\ hook'[h] = r
         /\ Others(h)
BY DEF Become, TypeOK, Others

LEMMA Going ==
  ASSUME TypeOK, NEW h \in Hook, NEW p \in Steps, Goto(h, p)
  PROVE  Moves(h, p, hook[h].at, hook[h].cur)
<1> DEFINE r == [hook[h] EXCEPT !.pc = p]
<1>1. hook[h] \in Process
  BY DEF TypeOK
<1>2. /\ r \in Process /\ r.pc = p
      /\ r.at = hook[h].at /\ r.cur = hook[h].cur /\ r.op = hook[h].op /\ r.mine = hook[h].mine
  BY <1>1 DEF Process
<1> QED BY <1>2, Becoming DEF Goto, Moves

LEMMA Naming ==
  ASSUME TypeOK, NEW h \in Hook, NEW p \in Steps, NEW n \in SUBSET Commit,
         \/ Become(h, [hook[h] EXCEPT !.pc = p, !.names = n])
         \/ p = hook[h].pc /\ Become(h, [hook[h] EXCEPT !.names = n])
  PROVE  Moves(h, p, hook[h].at, hook[h].cur)
<1> DEFINE r == [hook[h] EXCEPT !.pc = p, !.names = n]
           q == [hook[h] EXCEPT !.names = n]
<1>1. hook[h] \in Process
  BY DEF TypeOK
<1>2. /\ r \in Process /\ r.pc = p
      /\ r.at = hook[h].at /\ r.cur = hook[h].cur /\ r.op = hook[h].op /\ r.mine = hook[h].mine
  BY <1>1 DEF Process
<1>3. /\ q \in Process /\ q.pc = hook[h].pc
      /\ q.at = hook[h].at /\ q.cur = hook[h].cur /\ q.op = hook[h].op /\ q.mine = hook[h].mine
  BY <1>1 DEF Process
<1>4. CASE Become(h, r)
  BY <1>2, <1>4, Becoming DEF Moves
<1>5. CASE p = hook[h].pc /\ Become(h, q)
  BY <1>3, <1>5, Becoming DEF Moves
<1> QED BY <1>4, <1>5

LEMMA Visiting ==
  ASSUME TypeOK, NEW h \in Hook, NEW p \in Steps, NEW i \in Inv \cup {None}, NEW t \in SUBSET Inv,
         \/ Become(h, [hook[h] EXCEPT !.pc = p, !.at = i, !.todo = t])
         \/ Become(h, [hook[h] EXCEPT !.pc = p, !.at = i])
         \/ i = hook[h].at /\ Become(h, [hook[h] EXCEPT !.pc = p, !.todo = t])
         \/ i = hook[h].at /\ p = hook[h].pc /\ Become(h, [hook[h] EXCEPT !.todo = t])
  PROVE  Moves(h, p, i, hook[h].cur)
<1> DEFINE q == [hook[h] EXCEPT !.pc = p, !.at = i, !.todo = t]
           r == [hook[h] EXCEPT !.pc = p, !.at = i]
           s == [hook[h] EXCEPT !.pc = p, !.todo = t]
           u == [hook[h] EXCEPT !.todo = t]
<1>1. hook[h] \in Process
  BY DEF TypeOK
<1>2. /\ q \in Process /\ q.pc = p
      /\ q.at = i /\ q.cur = hook[h].cur /\ q.op = hook[h].op /\ q.mine = hook[h].mine
  BY <1>1 DEF Process
<1>3. /\ r \in Process /\ r.pc = p
      /\ r.at = i /\ r.cur = hook[h].cur /\ r.op = hook[h].op /\ r.mine = hook[h].mine
  BY <1>1 DEF Process
<1>4. /\ s \in Process /\ s.pc = p
      /\ s.at = hook[h].at /\ s.cur = hook[h].cur /\ s.op = hook[h].op /\ s.mine = hook[h].mine
  BY <1>1 DEF Process
<1>5. /\ u \in Process /\ u.pc = hook[h].pc
      /\ u.at = hook[h].at /\ u.cur = hook[h].cur /\ u.op = hook[h].op /\ u.mine = hook[h].mine
  BY <1>1 DEF Process
<1>6. CASE Become(h, q)
  BY <1>2, <1>6, Becoming DEF Moves
<1>7. CASE Become(h, r)
  BY <1>3, <1>7, Becoming DEF Moves
<1>8. CASE i = hook[h].at /\ Become(h, s)
  BY <1>4, <1>8, Becoming DEF Moves
<1>9. CASE i = hook[h].at /\ p = hook[h].pc /\ Become(h, u)
  BY <1>5, <1>9, Becoming DEF Moves
<1> QED BY <1>6, <1>7, <1>8, <1>9

\* Naming and visiting alone, with one value of the new field.
LEMMA Renaming ==
  ASSUME TypeOK, NEW h \in Hook, NEW n \in SUBSET Commit,
         Become(h, [hook[h] EXCEPT !.names = n])
  PROVE  Moves(h, hook[h].pc, hook[h].at, hook[h].cur)
<1>1. hook[h].pc \in Steps
  BY DEF TypeOK, Process
<1> QED BY <1>1, Naming

LEMMA Stopping ==
  ASSUME TypeOK, NEW h \in Hook, NEW p \in Steps,
         Become(h, [hook[h] EXCEPT !.pc = p, !.todo = {}])
  PROVE  Moves(h, p, hook[h].at, hook[h].cur)
<1>1. hook[h].at \in Inv \cup {None} /\ {} \in SUBSET Inv
  BY DEF TypeOK, Process
<1> QED BY <1>1, Visiting

LEMMA Handling ==
  ASSUME TypeOK, NEW h \in Hook, NEW p \in Steps, NEW c \in Commit \cup {None}, NEW n \in SUBSET Commit,
         \/ Become(h, [hook[h] EXCEPT !.pc = p, !.cur = c, !.names = n])
         \/ Become(h, [hook[h] EXCEPT !.pc = p, !.cur = c])
  PROVE  Moves(h, p, hook[h].at, c)
<1> DEFINE q == [hook[h] EXCEPT !.pc = p, !.cur = c, !.names = n]
           r == [hook[h] EXCEPT !.pc = p, !.cur = c]
<1>1. hook[h] \in Process
  BY DEF TypeOK
<1>2. /\ q \in Process /\ q.pc = p
      /\ q.at = hook[h].at /\ q.cur = c /\ q.op = hook[h].op /\ q.mine = hook[h].mine
  BY <1>1 DEF Process
<1>3. /\ r \in Process /\ r.pc = p
      /\ r.at = hook[h].at /\ r.cur = c /\ r.op = hook[h].op /\ r.mine = hook[h].mine
  BY <1>1 DEF Process
<1>4. CASE Become(h, q)
  BY <1>2, <1>4, Becoming DEF Moves
<1>5. CASE Become(h, r)
  BY <1>3, <1>5, Becoming DEF Moves
<1> QED BY <1>4, <1>5

\* The list of receipts to be saved is drawn up, or put down.
LEMMA Listing ==
  ASSUME TypeOK, NEW h \in Hook, NEW p \in Steps, NEW n \in SUBSET Commit, NEW l \in Seq(Commit),
         \/ Become(h, [hook[h] EXCEPT !.pc = p, !.names = n, !.listed = l])
         \/ Become(h, [hook[h] EXCEPT !.pc = p, !.listed = l])
  PROVE  Moves(h, p, hook[h].at, hook[h].cur) /\ hook'[h].listed = l
<1> DEFINE q == [hook[h] EXCEPT !.pc = p, !.names = n, !.listed = l]
           r == [hook[h] EXCEPT !.pc = p, !.listed = l]
<1>1. hook[h] \in Process
  BY DEF TypeOK
<1>2. /\ q \in Process /\ q.pc = p /\ q.listed = l
      /\ q.at = hook[h].at /\ q.cur = hook[h].cur /\ q.op = hook[h].op /\ q.mine = hook[h].mine
  BY <1>1 DEF Process
<1>3. /\ r \in Process /\ r.pc = p /\ r.listed = l
      /\ r.at = hook[h].at /\ r.cur = hook[h].cur /\ r.op = hook[h].op /\ r.mine = hook[h].mine
  BY <1>1 DEF Process
<1>4. CASE Become(h, q)
  BY <1>2, <1>4, Becoming DEF Moves
<1>5. CASE Become(h, r)
  BY <1>3, <1>5, Becoming DEF Moves
<1> QED BY <1>4, <1>5

LEMMA Ending ==
  ASSUME TypeOK, NEW h \in Hook, Become(h, Idle)
  PROVE  Starts(h, "none", "idle", None, None) /\ hook'[h] = Idle
<1>1. /\ Idle.op = "none" /\ Idle.pc = "idle" /\ Idle.at = None /\ Idle.mine = None /\ Idle.cur = None
  BY DEF Idle
<1> QED BY <1>1, IdleProcess, Becoming DEF Starts

\* A hook whose claim is refused or given back goes on with the drain, goes on
\* with its loop, or ends.
LEMMA Parting ==
  ASSUME TypeOK, NEW h \in Hook, Refused(h) \/ \E b \in BOOLEAN : Released(h, b)
  PROVE  \/ Nested(h) /\ Moves(h, "drain", hook[h].at, None)
         \/ ~Nested(h) /\ Moves(h, "next", None, hook[h].cur)
         \/ ~Nested(h) /\ Starts(h, "none", "idle", None, None) /\ hook'[h] = Idle
<1>1. "drain" \in Steps /\ "next" \in Steps
  BY DEF Steps
<1>2. hook[h].names \in SUBSET Commit /\ hook[h].todo \in SUBSET Inv
  BY DEF TypeOK, Process
<1>3. CASE Become(h, Idle) /\ ~Nested(h)
  BY <1>3, Ending
<1>4. CASE Nested(h) /\ Become(h, [hook[h] EXCEPT !.pc = "drain", !.cur = None])
  BY <1>1, <1>2, <1>4, Handling
<1>5. CASE ~Nested(h) /\ Become(h, [hook[h] EXCEPT !.pc = "next", !.at = None])
  BY <1>1, <1>2, <1>5, Visiting
<1>6. ASSUME NEW t \in SUBSET Inv, ~Nested(h),
             Become(h, [hook[h] EXCEPT !.pc = "next", !.at = None, !.todo = t])
      PROVE  ~Nested(h) /\ Moves(h, "next", None, hook[h].cur)
  BY <1>1, <1>2, <1>6, Visiting
<1>7. CASE Refused(h)
  BY <1>3, <1>4, <1>5, <1>7 DEF Refused
<1>8. ASSUME NEW b \in BOOLEAN, Released(h, b)
      PROVE  \/ Nested(h) /\ Moves(h, "drain", hook[h].at, None)
             \/ ~Nested(h) /\ Moves(h, "next", None, hook[h].cur)
             \/ ~Nested(h) /\ Starts(h, "none", "idle", None, None) /\ hook'[h] = Idle
  <2>1. (IF b THEN hook[h].todo ELSE {}) \in SUBSET Inv
    BY <1>2
  <2>2. CASE ~Nested(h) /\ Become(h, [hook[h] EXCEPT !.pc = "next", !.at = None,
                                       !.todo = IF b THEN @ ELSE {}])
    BY <1>6, <2>1, <2>2
  <2> QED BY <1>3, <1>4, <1>8, <2>2 DEF Released
<1> QED BY <1>7, <1>8

----------------------------------------------------------------------------
(* Who owns what.                                                          *)

\* A hook that works on under the claims it has disturbs no ownership.
LEMMA Staying ==
  ASSUME TypeOK, Owned, NEW h \in Hook, NEW p \in Claimed,
         Moves(h, p, hook[h].at, hook[h].cur),
         hook[h].pc \in Claimed,
         IF hook[h].cur = None THEN p \notin {"list", "add", "ack"}
                               ELSE Associating(h) /\ p \in {"list", "add", "ack", "release"},
         p = "create" => hook[h].at = hook[h].mine,
         UNCHANGED mutex
  PROVE  Owned'
BY DEF Moves, Others, Owned, Shaped, Secured, Holding, Associating, Nested, UsesClaim, UsesLock,
       mutex, Claimed

\* Nor does one that has no claim before or after its step.
LEMMA Walking ==
  ASSUME TypeOK, Owned, NEW h \in Hook, hook[h].pc \in {"idle", "next", "lock"}, ~Nested(h),
         NEW p \in {"idle", "next", "lock"}, NEW i \in Inv \cup {None}, NEW m \in Inv \cup {None}, NEW o,
         Moves(h, p, i, None) \/ Starts(h, o, p, i, m),
         p = "lock" => i \in Inv,
         Starts(h, o, p, i, m) => (o = "enroll" => m \in Inv),
         UNCHANGED mutex
  PROVE  Owned'
BY DEF Moves, Starts, Others, Owned, Shaped, Secured, Holding, Associating, Nested, UsesClaim, UsesLock,
       mutex, Claimed

\* The claim a hook waits for, holds or gives back.
LEMMA KeyOfHook ==
  ASSUME TypeOK, NEW h \in Hook, Shaped(h), hook[h].pc \notin {"idle", "next"}
  PROVE  /\ KeyOf(h) \in Key /\ LockName(KeyOf(h)) \in LockNames
         /\ Nested(h) => hook[h].cur \in Commit
         /\ hook[h].at \in Inv
         /\ \A k \in Key : LockName(k) \in LockNames
<1>1. hook[h].cur \in Commit \cup {None}
  BY DEF TypeOK, Process
<1>2. \A k \in Key : LockName(k) \in LockNames
  BY DEF LockName, LockNames
<1> QED BY <1>1, <1>2 DEF Shaped, Nested, KeyOf, Key

\* A claim is acquired.
LEMMA OwnedAcquire ==
  ASSUME TypeOK, Owned, NEW h \in Hook, Acquire(h)
  PROVE  Owned'
<1> USE Parameters
<1> DEFINE k == KeyOf(h)
           n == LockName(k)
<1>1. Shaped(h) /\ Secured(h) /\ At(h, "lock") /\ hook[h].pc = "lock"
  BY DEF Owned, Acquire, At
<1>2. k \in Key /\ n \in LockNames /\ (Nested(h) => hook[h].cur \in Commit) /\ hook[h].at \in Inv
  BY <1>1, KeyOfHook
<1>3. Moves(h, IF Nested(h) THEN "list" ELSE "body", hook[h].at, hook[h].cur)
  BY Going DEF Acquire, Steps
<1>4. /\ claim[k] \in {None, Dead} /\ lock[n] = None
      /\ claim' = [claim EXCEPT ![k] = h] /\ lock' = [lock EXCEPT ![n] = h]
  BY DEF Acquire
<1>5. \A g \in Hook : Shaped(g)'
  BY <1>1, <1>3 DEF Moves, Others, Owned, Shaped, Nested
<1>6. \A g \in Hook \ {h} : Secured(g)'
  BY <1>2, <1>3, <1>4 DEF Moves, Others, Owned, Secured, Holding, Associating, Nested, TypeOK
<1>7. /\ Secured(h)'
      /\ \A x \in Key : x = k => UsesClaim(h, x)'
      /\ \A x \in LockNames : x = n => UsesLock(h, x)'
  BY <1>1, <1>2, <1>3, <1>4 DEF Moves, Secured, Holding, Associating, Nested, KeyOf, UsesClaim, UsesLock,
       TypeOK, Claimed, Key
<1>8. \A g \in Hook : \A x : (UsesClaim(g, x) => UsesClaim(g, x)') /\ (UsesLock(g, x) => UsesLock(g, x)')
  BY <1>1, <1>3 DEF Moves, Others, Holding, Associating, Nested, UsesClaim, UsesLock, Claimed
<1>9. \A x \in LockNames, g \in Hook : lock'[x] = g => UsesLock(g, x)'
  <2> SUFFICES ASSUME NEW x \in LockNames, NEW g \in Hook, lock'[x] = g
               PROVE  UsesLock(g, x)'
    OBVIOUS
  <2>1. CASE x = n
    <3>1. g = h
      BY <1>2, <1>4, <2>1 DEF TypeOK
    <3> QED BY <1>7, <2>1, <3>1
  <2>2. CASE x # n
    <3>1. UsesLock(g, x)
      BY <1>4, <2>2 DEF Owned, TypeOK
    <3> QED BY <1>8, <3>1
  <2> QED BY <2>1, <2>2
<1>10. \A x \in Key, g \in Hook : claim'[x] = g => UsesClaim(g, x)'
  <2> SUFFICES ASSUME NEW x \in Key, NEW g \in Hook, claim'[x] = g
               PROVE  UsesClaim(g, x)'
    OBVIOUS
  <2>1. CASE x = k
    <3>1. g = h
      BY <1>2, <1>4, <2>1 DEF TypeOK
    <3> QED BY <1>7, <2>1, <3>1
  <2>2. CASE x # k
    <3>1. UsesClaim(g, x)
      BY <1>4, <2>2 DEF Owned, TypeOK
    <3> QED BY <1>8, <3>1
  <2> QED BY <2>1, <2>2
<1> QED BY <1>5, <1>6, <1>7, <1>9, <1>10 DEF Owned

\* A hook that gives up waiting keeps what it has: nothing, or its invocation.
LEMMA OwnedGiveUp ==
  ASSUME TypeOK, Owned, NEW h \in Hook, GiveUp(h)
  PROVE  Owned'
<1>1. Shaped(h) /\ Secured(h) /\ hook[h].pc = "lock" /\ UNCHANGED mutex
  BY DEF Owned, GiveUp, At
<1>2. \/ Nested(h) /\ Moves(h, "drain", hook[h].at, None)
      \/ ~Nested(h) /\ Moves(h, "next", None, hook[h].cur)
      \/ ~Nested(h) /\ Starts(h, "none", "idle", None, None)
  BY Parting DEF GiveUp
<1>3. CASE Nested(h) /\ Moves(h, "drain", hook[h].at, None)
  BY <1>1, <1>3 DEF Moves, Others, Owned, Shaped, Secured, Holding, Associating, Nested, UsesClaim, UsesLock,
       mutex, Claimed
<1>4. CASE ~Nested(h) /\ Moves(h, "next", None, hook[h].cur)
  BY <1>1, <1>4 DEF Moves, Others, Owned, Shaped, Secured, Holding, Associating, Nested, UsesClaim, UsesLock,
       mutex, Claimed
<1>5. CASE ~Nested(h) /\ Starts(h, "none", "idle", None, None)
  BY <1>1, <1>5, Walking
<1> QED BY <1>2, <1>3, <1>4, <1>5

\* A claim is given back.
LEMMA OwnedRelease ==
  ASSUME TypeOK, Owned, NEW h \in Hook, Release(h)
  PROVE  Owned'
<1> USE Parameters
<1> DEFINE k == KeyOf(h)
           n == LockName(k)
<1>1. Shaped(h) /\ Secured(h) /\ hook[h].pc = "release"
  BY DEF Owned, Release, At
<1>2. k \in Key /\ n \in LockNames /\ (Nested(h) => hook[h].cur \in Commit) /\ hook[h].at \in Inv
  BY <1>1, KeyOfHook
<1>3. /\ claim[k] = h
      /\ claim' = [claim EXCEPT ![k] = None]
      /\ lock' = IF lock[n] = h THEN [lock EXCEPT ![n] = None] ELSE lock
  BY <1>1 DEF Release, Secured, Holding, Associating, Claimed, KeyOf
<1>4. \/ Nested(h) /\ Moves(h, "drain", hook[h].at, None)
      \/ ~Nested(h) /\ Moves(h, "next", None, hook[h].cur)
      \/ ~Nested(h) /\ Starts(h, "none", "idle", None, None)
  BY Parting DEF Release
<1>5. \A g \in Hook : Shaped(g)'
  BY <1>1, <1>4 DEF Moves, Starts, Others, Owned, Shaped, Nested
<1>6. \A g \in Hook \ {h} : Secured(g)'
  BY <1>2, <1>3, <1>4 DEF Moves, Starts, Others, Owned, Secured, Holding, Associating, Nested, TypeOK
<1>7. Secured(h)'
  BY <1>1, <1>2, <1>3, <1>4 DEF Moves, Starts, Secured, Holding, Associating, Nested, KeyOf, Claimed, TypeOK, Key
<1>8. \A x \in LockNames, g \in Hook : lock'[x] = g => UsesLock(g, x)'
  <2> SUFFICES ASSUME NEW x \in LockNames, NEW g \in Hook, lock'[x] = g
               PROVE  UsesLock(g, x)'
    OBVIOUS
  <2>1. lock[x] = g /\ (g = h => x # n)
    BY <1>2, <1>3 DEF TypeOK, Key
  <2>2. UsesLock(g, x)
    BY <2>1 DEF Owned
  <2>3. CASE g # h
    BY <1>4, <2>2, <2>3 DEF Moves, Starts, Others, UsesLock, Holding, Associating, Nested
  <2>4. CASE g = h
    BY <1>1, <1>4, <2>1, <2>2, <2>4 DEF Moves, UsesLock, Holding, Associating, Nested, KeyOf, Claimed
  <2> QED BY <2>3, <2>4
<1>9. \A x \in Key, g \in Hook : claim'[x] = g => UsesClaim(g, x)'
  <2> SUFFICES ASSUME NEW x \in Key, NEW g \in Hook, claim'[x] = g
               PROVE  UsesClaim(g, x)'
    OBVIOUS
  <2>1. claim[x] = g /\ x # k
    BY <1>2, <1>3 DEF TypeOK, Key
  <2>2. UsesClaim(g, x)
    BY <2>1 DEF Owned
  <2>3. CASE g # h
    BY <1>4, <2>2, <2>3 DEF Moves, Starts, Others, UsesClaim, Holding, Associating, Nested
  <2>4. CASE g = h
    BY <1>1, <1>4, <2>1, <2>2, <2>4 DEF Moves, UsesClaim, Holding, Associating, Nested, KeyOf, Claimed
  <2> QED BY <2>3, <2>4
<1> QED BY <1>5, <1>6, <1>7, <1>8, <1>9 DEF Owned

\* A hook takes up a receipt, or puts down one that needs no note.
LEMMA OwnedDrain ==
  ASSUME TypeOK, Owned, NEW h \in Hook, DrainNext(h) \/ (Acknowledge(h) /\ ~Nested(h))
  PROVE  Owned' /\ hook' \in [Hook -> Process]
<1>1. Shaped(h) /\ Secured(h)
  BY DEF Owned
<1>2. hook[h].names \in SUBSET Commit
  BY DEF TypeOK, Process
<1>3. CASE DrainNext(h)
  <2>1. PICK c \in hook[h].names :
          Become(h, [hook[h] EXCEPT !.pc = IF c \in MetadataOnly THEN "ack" ELSE "lock",
                                    !.cur = c, !.names = @ \ {c}])
    BY <1>3 DEF DrainNext
  <2>2. Moves(h, IF c \in MetadataOnly THEN "ack" ELSE "lock", hook[h].at, c)
    <3>1. (IF c \in MetadataOnly THEN "ack" ELSE "lock") \in Steps
      BY DEF Steps
    <3> QED BY <1>2, <2>1, <3>1, Handling
  <2>3. hook[h].pc = "drain" /\ UNCHANGED mutex /\ c # None
    BY <1>2, <1>3, Parameters DEF DrainNext, At, Key
  <2> QED BY <1>1, <2>2, <2>3 DEF Moves, Others, Owned, Shaped, Secured, Holding, Associating, Nested,
            UsesClaim, UsesLock, mutex, Claimed
<1>4. CASE Acknowledge(h) /\ ~Nested(h)
  <2>1. Moves(h, "drain", hook[h].at, None) /\ hook[h].pc = "ack" /\ UNCHANGED mutex
    BY <1>4, Handling DEF Acknowledge, At, Steps
  <2> QED BY <1>1, <1>4, <2>1 DEF Moves, Others, Owned, Shaped, Secured, Holding, Associating, Nested,
            UsesClaim, UsesLock, mutex, Claimed
<1> QED BY <1>3, <1>4

\* A killed hook leaves no lock behind, and claims that name nobody.
LEMMA OwnedCrash ==
  ASSUME TypeOK, Owned, NEW h \in Hook, Crash(h)
  PROVE  Owned'
<1> USE Parameters
<1>1. Starts(h, "none", "idle", None, None)
  BY Ending DEF Crash
<1>2. /\ \A x \in LockNames : lock'[x] = IF lock[x] = h THEN None ELSE lock[x]
      /\ \A x \in Key : claim'[x] = IF claim[x] = h THEN Dead ELSE claim[x]
  BY DEF Crash, TypeOK
<1>3. \A g \in Hook : Shaped(g)'
  BY <1>1 DEF Starts, Others, Owned, Shaped, Nested
<1>4. \A g \in Hook \ {h} : hook[g].at \in Inv \cup {None} /\ hook[g].cur \in Commit \cup {None}
  BY DEF TypeOK, Process
<1>5. \A g \in Hook : Secured(g)'
  <2>1. Secured(h)'
    BY <1>1 DEF Starts, Secured, Holding, Associating, Nested, Claimed
  <2>2. ASSUME NEW g \in Hook \ {h} PROVE Secured(g)'
    <3>1. Shaped(g) /\ Secured(g) /\ hook'[g] = hook[g]
      BY <1>1 DEF Owned, Starts, Others
    <3>2. Holding(g) => hook[g].at \in Key
      BY <3>1 DEF Shaped, Holding, Claimed, Nested, Key
    <3>3. Associating(g) => hook[g].cur \in Key
      BY <1>4 DEF Associating, Nested, Key
    <3> QED BY <1>2, <3>1, <3>2, <3>3 DEF Secured, Holding, Associating, Nested
  <2> QED BY <2>1, <2>2
<1>6. \A x \in LockNames, g \in Hook : lock'[x] = g => UsesLock(g, x)'
  BY <1>1, <1>2 DEF Starts, Others, Owned, UsesLock, Holding, Associating, Nested
<1>7. \A x \in Key, g \in Hook : claim'[x] = g => UsesClaim(g, x)'
  BY <1>1, <1>2 DEF Starts, Others, Owned, UsesClaim, Holding, Associating, Nested
<1> QED BY <1>3, <1>5, <1>6, <1>7 DEF Owned

\* The hooks and the claims are as they were, and no lock is taken.
LEMMA OwnedBystander ==
  ASSUME TypeOK, Owned, UNCHANGED <<hook, claim>>,
         \A n \in LockNames : lock'[n] \in {lock[n], None}
  PROVE  Owned'
BY Parameters DEF Owned, Shaped, Secured, Holding, Associating, Nested, UsesClaim, UsesLock

\* The actions a hook takes under a claim, with that claim before and after.
Works(h) ==
    \/ Evict(h) \/ EnrollOwn(h) \/ Create(h) \/ CreateFails(h)
    \/ TerminalReads(h) \/ Publish(h) \/ DropOldest(h) \/ SaveList(h) \/ Complete(h)
    \/ InspectFails(h) \/ List(h) \/ Add(h) \/ NotesFail(h)
    \/ Acknowledge(h) /\ Nested(h)
    \/ DrainEnds(h) \/ CleanupReads(h) \/ Retire(h)

\* They leave the hook at a step p of the same claim.
StaysAt(h, p) ==
    /\ p \in Claimed
    /\ Moves(h, p, hook[h].at, hook[h].cur)
    /\ hook[h].pc \in Claimed
    /\ IF hook[h].cur = None THEN p \notin {"list", "add", "ack"}
       ELSE Associating(h) /\ p \in {"list", "add", "ack", "release"}
    /\ p = "create" => hook[h].at = hook[h].mine
    /\ UNCHANGED mutex

LEMMA Working ==
  ASSUME TypeOK, Owned, NEW h \in Hook, Works(h)
  PROVE  \E p : StaysAt(h, p)
<1> DEFINE Stays(p) == StaysAt(h, p)
<1> USE DEF StaysAt
<1>1. Shaped(h)
  BY DEF Owned
<1>2. /\ hook[h] \in Process /\ hook[h].names \in SUBSET Commit /\ hook[h].cur \in Commit \cup {None}
      /\ \A n \in SUBSET Commit : \A c : n \ {c} \in SUBSET Commit
  BY DEF TypeOK, Process
<1>3. Claimed \subseteq Steps
  BY DEF Claimed, Steps
<1>4. ASSUME Goto(h, "release"), UNCHANGED mutex, hook[h].pc \in Claimed, hook[h].cur # None => Associating(h)
      PROVE  Stays("release")
  BY <1>1, <1>3, <1>4, Going DEF Claimed, Shaped, Nested, Associating
<1>5. \A i \in Inv : dir[i] # None => dir[i].receipts \in SUBSET Commit
  BY DEF TypeOK, Directory
<1>6. Observed \in [Inv -> SUBSET Commit]
  BY Parameters
<1>7. CASE Evict(h)
  <2>1. hook[h].pc = "body" /\ UNCHANGED mutex /\ hook[h].cur = None
    BY <1>1, <1>7 DEF Evict, At, Shaped
  <2>2. CASE Goto(h, "release")
    BY <1>4, <2>1, <2>2 DEF Claimed, Nested
  <2>3. CASE Become(h, [hook[h] EXCEPT !.pc = "release", !.todo = {}])
    <3>1. Moves(h, "release", hook[h].at, hook[h].cur)
      BY <2>3, Stopping DEF Steps
    <3> QED BY <2>1, <3>1 DEF Claimed
  <2> QED BY <1>7, <2>2, <2>3 DEF Evict
<1>8. CASE EnrollOwn(h)
  <2>1. hook[h].pc = "body" /\ UNCHANGED mutex /\ hook[h].cur = None /\ hook[h].at = hook[h].mine
    BY <1>1, <1>8 DEF EnrollOwn, In, Evicting, Shaped
  <2>2. CASE Goto(h, "release")
    BY <1>4, <2>1, <2>2 DEF Claimed, Nested
  <2>3. CASE Goto(h, "create")
    BY <1>3, <2>1, <2>3, Going DEF Claimed, Nested
  <2> QED BY <1>8, <2>2, <2>3 DEF EnrollOwn
<1>9. CASE Create(h) \/ CreateFails(h)
  <2>1. hook[h].pc = "create" /\ UNCHANGED mutex /\ hook[h].cur = None /\ hook[h].at = hook[h].mine
    BY <1>1, <1>9 DEF Create, CreateFails, At, Shaped
  <2>2. CASE Goto(h, "release")
    BY <1>4, <2>1, <2>2 DEF Claimed, Nested
  <2>3. CASE UNCHANGED hook
    <3>1. Moves(h, "create", hook[h].at, hook[h].cur)
      BY <2>1, <2>3 DEF Moves, Others, TypeOK
    <3> QED BY <2>1, <3>1 DEF Claimed, Nested
  <2> QED BY <1>9, <2>2, <2>3 DEF Create, CreateFails
<1>10. CASE TerminalReads(h)
  <2>1. hook[h].pc = "body" /\ UNCHANGED mutex /\ hook[h].cur = None /\ hook[h].at \in Inv
    BY <1>1, <1>10 DEF TerminalReads, In, Shaped
  <2>2. CASE Goto(h, "release")
    BY <1>4, <2>1, <2>2 DEF Claimed, Nested
  <2>3. CASE Goto(h, "observe")
    BY <1>3, <2>1, <2>3, Going DEF Claimed, Nested
  <2>4. CASE Become(h, [hook[h] EXCEPT !.pc = "observe", !.names = Observed[hook[h].at]])
    <3>1. Moves(h, "observe", hook[h].at, hook[h].cur)
      BY <1>6, <2>1, <2>4, Naming DEF Steps
    <3> QED BY <2>1, <3>1 DEF Claimed
  <2> QED BY <1>10, <2>2, <2>3, <2>4 DEF TerminalReads
<1>11. CASE Publish(h)
  <2>1. hook[h].pc = "observe" /\ UNCHANGED mutex /\ hook[h].cur = None /\ dir[hook[h].at] \in Directory
    BY <1>1, <1>11 DEF Publish, At, Shaped, StatusIn, Readable, TypeOK
  <2>2. PICK c \in hook[h].names :
          \/ Become(h, [hook[h] EXCEPT !.names = @ \ {c}])
          \/ Become(h, [hook[h] EXCEPT !.pc = "window", !.names = @ \ {c},
                                       !.listed = Append(dir[hook[h].at].nonces, c)])
    BY <1>11 DEF Publish
  <2>3. hook[h].names \ {c} \in SUBSET Commit /\ Append(dir[hook[h].at].nonces, c) \in Seq(Commit)
    BY <1>2, <2>1 DEF Directory
  <2>4. CASE Become(h, [hook[h] EXCEPT !.names = @ \ {c}])
    <3>1. Moves(h, "observe", hook[h].at, hook[h].cur)
      BY <2>1, <2>3, <2>4, Renaming
    <3> QED BY <2>1, <3>1 DEF Claimed
  <2>5. CASE Become(h, [hook[h] EXCEPT !.pc = "window", !.names = @ \ {c},
                                       !.listed = Append(dir[hook[h].at].nonces, c)])
    <3>1. PICK n \in SUBSET Commit, l \in Seq(Commit) :
            Become(h, [hook[h] EXCEPT !.pc = "window", !.names = n, !.listed = l])
      BY <2>3, <2>5
    <3>2. Moves(h, "window", hook[h].at, hook[h].cur)
      BY <3>1, Listing DEF Steps
    <3> QED BY <2>1, <3>2 DEF Claimed
  <2> QED BY <2>2, <2>4, <2>5
<1>12. CASE DropOldest(h) \/ SaveList(h) \/ Complete(h)
  <2>1. /\ hook[h].pc \in {"observe", "window", "state"} /\ UNCHANGED mutex
        /\ hook[h].cur = None /\ hook[h].at \in Inv
    BY <1>1, <1>12 DEF DropOldest, SaveList, Complete, At, Shaped
  <2>2. CASE DropOldest(h)
    BY <1>3, <2>1, <2>2, Going DEF DropOldest, Claimed
  <2>3. CASE SaveList(h)
    <3>1. Moves(h, "observe", hook[h].at, hook[h].cur)
      BY <1>2, <2>3, EmptyList, Listing DEF SaveList, Steps
    <3> QED BY <2>1, <3>1 DEF Claimed
  <2>4. CASE Complete(h)
    <3>1. dir[hook[h].at].receipts \in SUBSET Commit /\ {} \in SUBSET Commit
      BY <1>5, <2>1, <2>4 DEF Complete, Readable
    <3>2. PICK p \in {"drain", "release"}, n \in SUBSET Commit :
            Become(h, [hook[h] EXCEPT !.pc = p, !.names = n, !.listed = <<>>])
      BY <2>4, <3>1 DEF Complete
    <3>3. Moves(h, p, hook[h].at, hook[h].cur)
      BY <3>2, EmptyList, Listing DEF Steps
    <3> QED BY <2>1, <3>3 DEF Claimed
  <2> QED BY <1>12, <2>2, <2>3, <2>4
<1>13. CASE InspectFails(h)
  <2>1. hook[h].pc = "drain" /\ UNCHANGED mutex /\ hook[h].cur = None
    BY <1>1, <1>13 DEF InspectFails, At, Shaped
  <2>2. PICK c \in hook[h].names : Become(h, [hook[h] EXCEPT !.names = @ \ {c}])
    BY <1>13 DEF InspectFails
  <2>3. Moves(h, "drain", hook[h].at, hook[h].cur)
    <3>1. hook[h].names \ {c} \in SUBSET Commit
      BY <1>2
    <3> QED BY <2>1, <2>2, <3>1, Renaming
  <2> QED BY <2>1, <2>3 DEF Claimed
<1>14. CASE List(h) \/ Add(h) \/ NotesFail(h)
  <2>1. hook[h].pc \in {"list", "add"} /\ UNCHANGED mutex /\ Nested(h) /\ Associating(h)
    BY <1>1, <1>14 DEF List, Add, NotesFail, At, Shaped, Associating
  <2>2. PICK p \in {"add", "ack", "release"} : Goto(h, p)
    BY <1>14 DEF List, Add, NotesFail
  <2> QED BY <1>3, <2>1, <2>2, Going DEF Claimed, Nested
<1>15. CASE Acknowledge(h) /\ Nested(h)
  <2>1. hook[h].pc = "ack" /\ UNCHANGED mutex /\ Associating(h) /\ hook[h].cur # None
    BY <1>15 DEF Acknowledge, At, Associating, Nested
  <2>2. Moves(h, "release", hook[h].at, hook[h].cur)
    BY <1>2, <1>15, Handling DEF Acknowledge, Steps
  <2> QED BY <2>1, <2>2 DEF Claimed
<1>16. CASE DrainEnds(h)
  <2>1. hook[h].pc = "drain" /\ UNCHANGED mutex /\ hook[h].cur = None
    BY <1>1, <1>16 DEF DrainEnds, At, Shaped
  <2>2. PICK p \in {"retire", "release"} : Become(h, [hook[h] EXCEPT !.pc = p, !.names = {}])
    BY <1>16 DEF DrainEnds
  <2>3. Moves(h, p, hook[h].at, hook[h].cur)
    <3>1. p \in Steps /\ {} \in SUBSET Commit
      BY DEF Steps
    <3> QED BY <2>2, <3>1, Naming
  <2> QED BY <2>1, <2>3 DEF Claimed
<1>17. CASE CleanupReads(h)
  <2>1. hook[h].pc = "body" /\ UNCHANGED mutex /\ hook[h].cur = None /\ hook[h].at \in Inv
    BY <1>1, <1>17 DEF CleanupReads, In, Shaped
  <2>2. CASE Goto(h, "release")
    BY <1>4, <2>1, <2>2 DEF Claimed, Nested
  <2>3. CASE Become(h, [hook[h] EXCEPT !.pc = "release", !.todo = {}])
    <3>1. Moves(h, "release", hook[h].at, hook[h].cur)
      BY <2>3, Stopping DEF Steps
    <3> QED BY <2>1, <3>1 DEF Claimed
  <2>4. CASE /\ dir[hook[h].at] # None
             /\ Become(h, [hook[h] EXCEPT !.pc = "drain", !.names = dir[hook[h].at].receipts])
    <3>1. Moves(h, "drain", hook[h].at, hook[h].cur)
      BY <1>5, <2>1, <2>4, Naming DEF Steps
    <3> QED BY <2>1, <3>1 DEF Claimed
  <2> QED BY <1>17, <2>2, <2>3, <2>4 DEF CleanupReads, StatusIn, Readable
<1>18. CASE Retire(h)
  <2>1. hook[h].pc = "retire" /\ UNCHANGED mutex /\ hook[h].cur = None /\ Goto(h, "release")
    BY <1>1, <1>18 DEF Retire, At, Shaped
  <2> QED BY <1>4, <2>1 DEF Claimed, Nested
<1> QED BY <1>7, <1>8, <1>9, <1>10, <1>11, <1>12, <1>13, <1>14, <1>15, <1>16, <1>17, <1>18 DEF Works

LEMMA OwnedWorks ==
  ASSUME TypeOK, Owned, NEW h \in Hook, Works(h)
  PROVE  Owned' /\ hook' \in [Hook -> Process]
<1>1. PICK p : StaysAt(h, p)
  BY Working
<1> QED BY <1>1, Staying DEF StaysAt, Moves

\* The actions a hook takes without a claim, before and after.
Walks(h) ==
    \/ \E i \in Inv : Enroll(h, i) \/ Terminal(h, i)
    \/ Cleanup(h) \/ NextVictim(h) \/ EvictionEnds(h)
    \/ CleanupNext(h) \/ CleanupEnds(h)

LEMMA OwnedWalks ==
  ASSUME TypeOK, Owned, NEW h \in Hook, Walks(h)
  PROVE  Owned' /\ hook' \in [Hook -> Process]
<1>1. Shaped(h)
  BY DEF Owned
<1>2. hook[h].pc \in {"idle", "next"} => hook[h].cur = None /\ ~Nested(h)
  BY <1>1 DEF Shaped, Nested
<1>3. /\ hook[h].todo \in SUBSET Inv /\ hook[h].mine \in Inv \cup {None}
      /\ \A i : hook[h].todo \ {i} \in SUBSET Inv
  BY DEF TypeOK, Process
<1>4. ASSUME NEW p \in {"next", "lock"}, NEW i \in Inv \cup {None}, NEW t \in SUBSET Inv,
             \/ Become(h, [hook[h] EXCEPT !.pc = p, !.at = i, !.todo = t])
             \/ p = "next" /\ i = hook[h].at /\ Become(h, [hook[h] EXCEPT !.todo = t]),
             hook[h].pc = "next", p = "lock" => i \in Inv, UNCHANGED mutex
      PROVE  Owned' /\ hook' \in [Hook -> Process]
  <2>1. Moves(h, p, i, hook[h].cur)
    BY <1>4, Visiting DEF Steps
  <2>2. Moves(h, p, i, None) /\ ~Nested(h)
    BY <1>2, <1>4, <2>1
  <2>3. Owned'
    BY <1>1, <1>4, <2>2 DEF Moves, Others, Owned, Shaped, Secured, Holding, Associating, Nested,
       UsesClaim, UsesLock, mutex, Claimed
  <2> QED BY <2>1, <2>3 DEF Moves
<1>5. ASSUME NEW o \in {"none", "enroll", "terminal", "cleanup"}, NEW p \in {"idle", "next", "lock"},
             NEW i \in Inv \cup {None}, NEW m \in Inv \cup {None}, Starts(h, o, p, i, m),
             hook[h].pc \in {"idle", "next"}, p = "lock" => i \in Inv, o = "enroll" => m \in Inv,
             UNCHANGED mutex
      PROVE  Owned' /\ hook' \in [Hook -> Process]
  BY <1>1, <1>2, <1>5 DEF Starts, Others, Owned, Shaped, Secured, Holding, Associating, Nested,
     UsesClaim, UsesLock, mutex, Claimed
<1>6. ASSUME NEW i \in Inv, Enroll(h, i) PROVE Owned' /\ hook' \in [Hook -> Process]
  <2> DEFINE r == [Idle EXCEPT !.op = "enroll", !.pc = "next", !.mine = i, !.todo = Candidates(i)]
  <2>1. /\ r \in Process /\ r.op = "enroll" /\ r.pc = "next" /\ r.at = None /\ r.mine = i /\ r.cur = None
    BY EmptyList DEF Process, Steps, Idle, Candidates, Live
  <2>2. Starts(h, "enroll", "next", None, i)
    BY <1>6, <2>1, Becoming DEF Enroll, Starts
  <2> QED BY <1>5, <1>6, <2>2 DEF Enroll, At
<1>7. ASSUME NEW i \in Inv, Terminal(h, i) PROVE Owned' /\ hook' \in [Hook -> Process]
  <2> DEFINE r == [Idle EXCEPT !.op = "terminal", !.pc = "lock", !.at = i]
  <2>1. /\ r \in Process /\ r.op = "terminal" /\ r.pc = "lock" /\ r.at = i /\ r.mine = None /\ r.cur = None
    BY EmptyList DEF Process, Steps, Idle
  <2>2. Starts(h, "terminal", "lock", i, None)
    BY <1>7, <2>1, Becoming DEF Terminal, Starts
  <2> QED BY <1>5, <1>7, <2>2 DEF Terminal, At
<1>8. CASE Cleanup(h)
  <2> DEFINE r == [Idle EXCEPT !.op = "cleanup", !.pc = "next", !.todo = Live]
  <2>1. /\ r \in Process /\ r.op = "cleanup" /\ r.pc = "next" /\ r.at = None /\ r.mine = None /\ r.cur = None
    BY EmptyList DEF Process, Steps, Idle, Live
  <2>2. Starts(h, "cleanup", "next", None, None)
    BY <1>8, <2>1, Becoming DEF Cleanup, Starts
  <2> QED BY <1>5, <1>8, <2>2 DEF Cleanup, At
<1>9. CASE NextVictim(h)
  <2>1. hook[h].pc = "next" /\ UNCHANGED mutex
    BY <1>9 DEF NextVictim, In
  <2>2. PICK v \in hook[h].todo :
          Become(h, [hook[h] EXCEPT !.pc = "lock", !.at = v, !.todo = hook[h].todo \ {v}])
    BY <1>9 DEF NextVictim
  <2>3. v \in Inv /\ v \in Inv \cup {None} /\ hook[h].todo \ {v} \in SUBSET Inv
    BY <1>3
  <2> QED BY <1>4, <2>1, <2>2, <2>3
<1>10. CASE EvictionEnds(h)
  <2>1. hook[h].pc = "next" /\ hook[h].mine \in Inv /\ UNCHANGED mutex
    BY <1>1, <1>10 DEF EvictionEnds, In, Shaped
  <2>2. Become(h, [hook[h] EXCEPT !.pc = "lock", !.at = hook[h].mine, !.todo = {}])
    BY <1>10 DEF EvictionEnds
  <2> QED BY <1>4, <2>1, <2>2
<1>11. CASE Become(h, Idle) /\ (CleanupNext(h) \/ CleanupEnds(h))
  <2>1. hook[h].pc = "next" /\ UNCHANGED mutex
    BY <1>11 DEF CleanupNext, CleanupEnds, In
  <2> QED BY <1>5, <1>11, <2>1, Ending
<1>12. CASE CleanupNext(h)
  <2>1. hook[h].pc = "next" /\ UNCHANGED mutex
    BY <1>12 DEF CleanupNext, In
  <2>2. PICK i \in hook[h].todo :
          \/ Become(h, [hook[h] EXCEPT !.pc = "lock", !.at = i, !.todo = hook[h].todo \ {i}])
          \/ Become(h, [hook[h] EXCEPT !.todo = hook[h].todo \ {i}])
          \/ Become(h, Idle)
    BY <1>12 DEF CleanupNext
  <2>3. /\ i \in Inv /\ i \in Inv \cup {None} /\ hook[h].at \in Inv \cup {None}
        /\ hook[h].todo \ {i} \in SUBSET Inv
    BY <1>3 DEF TypeOK, Process
  <2>4. CASE Become(h, [hook[h] EXCEPT !.pc = "lock", !.at = i, !.todo = hook[h].todo \ {i}])
    BY <1>4, <2>1, <2>3, <2>4
  <2>5. CASE Become(h, [hook[h] EXCEPT !.todo = hook[h].todo \ {i}])
    BY <1>4, <2>1, <2>3, <2>5
  <2> QED BY <1>11, <1>12, <2>2, <2>4, <2>5
<1> QED BY <1>6, <1>7, <1>8, <1>9, <1>10, <1>11, <1>12 DEF Walks, CleanupEnds

\* Every step keeps the record of who owns what.
LEMMA OwnedStep ==
  ASSUME TypeOK, Owned, [Next]_vars
  PROVE  Owned' /\ hook' \in [Hook -> Process]
<1>1. CASE UNCHANGED vars
  BY <1>1, OwnedBystander DEF vars, mutex, TypeOK
<1>2. ASSUME NEW h \in Hook, Step(h) PROVE Owned' /\ hook' \in [Hook -> Process]
  <2>1. CASE Walks(h)
    BY <2>1, OwnedWalks
  <2>2. CASE Works(h)
    BY <2>2, OwnedWorks
  <2>3. CASE Acquire(h)
    <3>1. hook' \in [Hook -> Process]
      BY <2>3, Going DEF Acquire, Steps, Moves
    <3> QED BY <2>3, <3>1, OwnedAcquire
  <2>4. CASE GiveUp(h) \/ Release(h)
    <3>1. hook' \in [Hook -> Process]
      BY <2>4, Parting DEF GiveUp, Release, Moves, Starts
    <3> QED BY <2>4, <3>1, OwnedGiveUp, OwnedRelease
  <2>5. CASE DrainNext(h) \/ (Acknowledge(h) /\ ~Nested(h))
    BY <2>5, OwnedDrain
  <2>6. CASE Crash(h)
    <3>1. hook' \in [Hook -> Process]
      BY <2>6, Ending DEF Crash, Starts
    <3> QED BY <2>6, <3>1, OwnedCrash
  <2> QED BY <1>2, <2>1, <2>2, <2>3, <2>4, <2>5, <2>6 DEF Step, Walks, Works
<1>3. ASSUME NEW n \in LockNames, HelperDies(n) PROVE Owned' /\ hook' \in [Hook -> Process]
  BY <1>3, OwnedBystander DEF HelperDies, TypeOK
<1>4. CASE OrphanEnds \/ \E i \in Inv : GrowStale(i)
  BY <1>4, OwnedBystander DEF OrphanEnds, GrowStale, mutex, TypeOK
<1> QED BY <1>1, <1>2, <1>3, <1>4 DEF Next

----------------------------------------------------------------------------
(* Types.                                                                  *)

\* The writes to a directory keep its type.
LEMMA Writing ==
  ASSUME NEW d \in Directory
  PROVE  /\ \A s \in Status : [d EXCEPT !.status = s, !.nonces = <<>>] \in Directory
         /\ \A c \in Commit : [d EXCEPT !.receipts = @ \cup {c}] \in Directory
         /\ \A S : [d EXCEPT !.receipts = @ \ S] \in Directory
         /\ \A l \in Seq(Commit) : [d EXCEPT !.nonces = l] \in Directory
         /\ \A f \in Files : [d EXCEPT !.files = f] \in Directory
         /\ [d EXCEPT !.leftover = @ + 1] \in Directory
<1>1. \A s \in Status : [d EXCEPT !.status = s, !.nonces = <<>>] \in Directory
  BY EmptyList DEF Directory
<1>2. /\ \A c \in Commit : [d EXCEPT !.receipts = @ \cup {c}] \in Directory
      /\ \A S : [d EXCEPT !.receipts = @ \ S] \in Directory
  BY DEF Directory
<1>3. \A l \in Seq(Commit) : [d EXCEPT !.nonces = l] \in Directory
  BY DEF Directory
<1>4. \A f \in Files : [d EXCEPT !.files = f] \in Directory
  BY DEF Directory
<1>5. [d EXCEPT !.leftover = @ + 1] \in Directory
  <2>1. d.leftover + 1 \in Nat
    BY DEF Directory
  <2> QED BY <2>1 DEF Directory
<1> QED BY <1>1, <1>2, <1>3, <1>4, <1>5

\* What is kept of a list is a list no longer than the window.
LEMMA NewestList ==
  ASSUME NEW s \in Seq(Commit)
  PROVE  /\ Newest(s) \in Seq(Commit)
         /\ Len(Newest(s)) = IF Len(s) > ReceiptWindow THEN ReceiptWindow ELSE Len(s)
<1> DEFINE m == Len(s) - ReceiptWindow + 1
<1>1. Len(s) \in Nat /\ ReceiptWindow \in Nat \ {0}
  BY Parameters
<1>2. CASE Len(s) > ReceiptWindow
  <2>1. Len(s) - m + 1 = ReceiptWindow
    BY <1>1
  <2>2. \A k \in m .. Len(s) : s[k] \in Commit
    BY <1>1, <1>2
  <2>3. SubSeq(s, m, Len(s)) \in Seq(Commit) /\ Len(SubSeq(s, m, Len(s))) = Len(s) - m + 1
    BY <1>1, <1>2, <2>2, SubSeqProperties
  <2> QED BY <1>2, <2>1, <2>3 DEF Newest
<1>3. CASE ~(Len(s) > ReceiptWindow)
  BY <1>3 DEF Newest
<1> QED BY <1>2, <1>3

LEMMA TypeDir ==
  ASSUME TypeOK, Owned, [Next]_vars
  PROVE  dir' \in [Inv -> Directory \cup {None}]
<1>1. dir \in [Inv -> Directory \cup {None}]
  BY DEF TypeOK
<1>2. ASSUME NEW i \in Inv, NEW d \in Directory \cup {None}, dir' = [dir EXCEPT ![i] = d]
      PROVE  dir' \in [Inv -> Directory \cup {None}]
  BY <1>1, <1>2
<1>3. CASE UNCHANGED dir
  BY <1>1, <1>3
<1>4. ASSUME NEW h \in Hook, Step(h) PROVE dir' \in [Inv -> Directory \cup {None}]
  <2> DEFINE i == hook[h].at
  <2>1. Shaped(h) /\ hook[h].names \in SUBSET Commit
    BY DEF Owned, TypeOK, Process
  <2>2. ASSUME hook[h].pc \in Claimed PROVE i \in Inv
    BY <2>1, <2>2 DEF Shaped, Claimed
  <2>3. CASE Evict(h)
    <3>1. i \in Inv
      BY <2>2, <2>3 DEF Evict, At, Claimed
    <3> QED BY <1>2, <1>3, <2>3, <3>1 DEF Evict
  <2>4. CASE EnrollOwn(h)
    <3>1. i \in Inv /\ i = hook[h].mine
      BY <2>2, <2>4 DEF EnrollOwn, In, Evicting, Claimed
    <3>2. NewDirectory \in Directory
      BY EmptyList DEF NewDirectory, Directory, Files, Status
    <3> QED BY <1>2, <1>3, <2>4, <3>1, <3>2 DEF EnrollOwn, store
  <2>5. CASE Create(h)
    <3>1. i \in Inv /\ i = hook[h].mine
      BY <2>1, <2>2, <2>5 DEF Create, At, Claimed, Shaped
    <3>2. dir[i] \in Directory
      BY <1>1, <2>5, <3>1 DEF Create
    <3>3. \A f \in Files : [dir[i] EXCEPT !.files = f] \in Directory
      BY <3>2, Writing
    <3> QED BY <1>2, <2>5, <3>1, <3>3 DEF Create, Files
  <2>6. CASE CreateFails(h)
    <3>1. i \in Inv /\ i = hook[h].mine
      BY <2>1, <2>2, <2>6 DEF CreateFails, At, Claimed, Shaped
    <3> QED BY <1>2, <2>6, <3>1 DEF CreateFails
  <2>7. CASE Publish(h)
    <3>1. i \in Inv
      BY <2>2, <2>7 DEF Publish, At, Claimed
    <3>2. dir[i] \in Directory
      BY <1>1, <2>7, <3>1 DEF Publish, StatusIn, Readable
    <3>3. \A c \in Commit : [dir[i] EXCEPT !.receipts = @ \cup {c}] \in Directory
      BY <3>2, Writing
    <3>4. CASE \E c \in hook[h].names : dir' = [dir EXCEPT ![i].receipts = @ \cup {c}]
      BY <1>2, <2>1, <3>1, <3>3, <3>4
    <3> QED BY <1>3, <2>7, <3>4 DEF Publish
  <2>8. CASE Complete(h) \/ DrainEnds(h) \/ Retire(h)
    <3>1. i \in Inv
      BY <2>2, <2>8 DEF Complete, DrainEnds, Retire, At, Claimed
    <3>2. dir[i] \in Directory
      BY <1>1, <2>8, <3>1 DEF Complete, DrainEnds, Retire, Readable
    <3>3. \A s \in Status : [dir[i] EXCEPT !.status = s, !.nonces = <<>>] \in Directory
      BY <3>2, Writing
    <3>4. \E s \in Status : dir' = [dir EXCEPT ![i] = [dir[i] EXCEPT !.status = s, !.nonces = <<>>]]
      BY <3>1, <3>2, <2>8 DEF Complete, DrainEnds, Retire, SetStatus, Status
    <3> QED BY <1>2, <3>1, <3>3, <3>4
  <2>9. CASE Acknowledge(h)
    <3>1. i \in Inv
      BY <2>2, <2>9 DEF Acknowledge, At, Claimed
    <3>2. CASE dir[i] # None /\ dir' = [dir EXCEPT ![i].receipts = @ \ {hook[h].cur}]
      <4>1. [dir[i] EXCEPT !.receipts = @ \ {hook[h].cur}] \in Directory
        BY <1>1, <3>1, <3>2, Writing
      <4> QED BY <1>2, <3>1, <3>2, <4>1
    <3> QED BY <1>3, <2>9, <3>2 DEF Acknowledge
  <2>10. CASE CleanupReads(h)
    <3>1. i \in Inv
      BY <2>2, <2>10 DEF CleanupReads, In, Claimed
    <3> QED BY <1>2, <1>3, <2>10, <3>1 DEF CleanupReads
  <2>11. CASE Crash(h)
    <3>1. CASE /\ At(h, "observe") \/ At(h, "window")
               /\ StatusIn(i, {"active"}) /\ dir' = [dir EXCEPT ![i].leftover = @ + 1]
      <4>1. i \in Inv
        BY <2>2, <3>1 DEF At, Claimed
      <4>2. [dir[i] EXCEPT !.leftover = @ + 1] \in Directory
        BY <1>1, <3>1, <4>1, Writing DEF StatusIn, Readable
      <4> QED BY <1>2, <3>1, <4>1, <4>2
    <3> QED BY <1>3, <2>11, <3>1 DEF Crash
  <2>12. CASE UNCHANGED dir
    BY <1>3, <2>12
  <2>13. CASE DropOldest(h) \/ SaveList(h)
    <3>1. i \in Inv /\ hook[h].listed \in Seq(Commit)
      BY <2>2, <2>13 DEF DropOldest, SaveList, At, Claimed, TypeOK, Process
    <3>2. dir[i] \in Directory
      BY <1>1, <2>13, <3>1 DEF DropOldest, SaveList, Readable
    <3>3. Newest(hook[h].listed) \in Seq(Commit)
      BY <3>1, NewestList
    <3> QED BY <1>2, <2>13, <3>1, <3>2, <3>3, Writing DEF DropOldest, SaveList
  <2> QED BY <1>4, <2>3, <2>4, <2>5, <2>6, <2>7, <2>8, <2>9, <2>10, <2>11, <2>12, <2>13
       DEF Step, Enroll, Terminal, Cleanup, Acquire, GiveUp, Release, NextVictim, EvictionEnds,
           TerminalReads, DrainNext, InspectFails, List, Add, NotesFail, CleanupNext, CleanupEnds, store
<1> QED BY <1>3, <1>4 DEF Next, HelperDies, OrphanEnds, GrowStale, vars, store

\* The steps that touch notes, orphaned adds and the mutex say so; these are
\* the others.
Quiet(h) == Walks(h) \/ (Works(h) /\ ~Add(h)) \/ DrainNext(h) \/ (Acknowledge(h) /\ ~Nested(h))

LEMMA QuietStep ==
  ASSUME NEW h \in Hook, Quiet(h)
  PROVE  UNCHANGED <<mutex, base, faults>>
BY DEF Quiet, Walks, Works, Evict, EnrollOwn, Create, CreateFails, TerminalReads, Publish,
       DropOldest, SaveList, Complete,
       InspectFails, List, NotesFail, Acknowledge, DrainEnds, CleanupReads, Retire, DrainNext,
       Enroll, Terminal, Cleanup, NextVictim, EvictionEnds, CleanupNext, CleanupEnds

LEMMA Splitting ==
  ASSUME NEW h \in Hook, Step(h)
  PROVE  Quiet(h) \/ Add(h) \/ Acquire(h) \/ GiveUp(h) \/ Release(h) \/ Crash(h)
BY DEF Step, Quiet, Walks, Works

LEMMA TypeStep ==
  ASSUME TypeOK, Owned, [Next]_vars
  PROVE  TypeOK'
<1> USE Parameters
<1>1. dir' \in [Inv -> Directory \cup {None}] /\ hook' \in [Hook -> Process]
  BY TypeDir, OwnedStep
<1>2. stale' \subseteq Inv
  <2>1. ASSUME NEW h \in Hook, Publish(h) \/ DropOldest(h) \/ SaveList(h) \/ Complete(h)
        PROVE  stale' \subseteq stale
    BY <2>1 DEF Publish, DropOldest, SaveList, Complete, SetStatus
  <2>2. ASSUME NEW h \in Hook, Step(h)
        PROVE  stale' \subseteq stale
    BY <2>1, <2>2 DEF store, Step, Enroll, Terminal, Cleanup, Acquire, GiveUp, Release, NextVictim,
           EvictionEnds, Evict, EnrollOwn, Create, CreateFails, TerminalReads,
           SetStatus, DrainNext, InspectFails, List, Add, NotesFail, Acknowledge, DrainEnds,
           CleanupNext, CleanupEnds, CleanupReads, Retire, Crash
  <2>3. \/ stale' \subseteq stale
        \/ \E i \in Inv : stale' = stale \cup {i}
    BY <2>2 DEF Next, vars, store, HelperDies, OrphanEnds, GrowStale
  <2> QED BY <2>3 DEF TypeOK
<1>3. lock' \in [LockNames -> Hook \cup {None}] /\ claim' \in [Key -> Hook \cup {None, Dead}]
  <2>1. ASSUME NEW h \in Hook, Acquire(h) \/ Release(h)
        PROVE  lock' \in [LockNames -> Hook \cup {None}] /\ claim' \in [Key -> Hook \cup {None, Dead}]
    BY <2>1 DEF TypeOK, Acquire, Release
  <2>2. ASSUME NEW h \in Hook, Crash(h)
        PROVE  lock' \in [LockNames -> Hook \cup {None}] /\ claim' \in [Key -> Hook \cup {None, Dead}]
    BY <2>2 DEF TypeOK, Crash
  <2>3. ASSUME NEW n \in LockNames, HelperDies(n)
        PROVE  lock' \in [LockNames -> Hook \cup {None}] /\ claim' \in [Key -> Hook \cup {None, Dead}]
    BY <2>3 DEF TypeOK, HelperDies
  <2>4. CASE UNCHANGED mutex
    BY <2>4 DEF TypeOK, mutex
  <2>5. ASSUME NEW h \in Hook, Quiet(h) \/ Add(h) \/ GiveUp(h) PROVE UNCHANGED mutex
    BY <2>5, QuietStep DEF Add, GiveUp
  <2>6. ASSUME NEW h \in Hook, Step(h)
        PROVE  lock' \in [LockNames -> Hook \cup {None}] /\ claim' \in [Key -> Hook \cup {None, Dead}]
    BY <2>1, <2>2, <2>4, <2>5, <2>6, Splitting
  <2> QED BY <2>3, <2>4, <2>6 DEF Next, OrphanEnds, GrowStale, vars, mutex
<1>4. /\ notes' \in [Commit -> SUBSET {Locator[i] : i \in Inv}]
      /\ orphan' \cup late' \subseteq Commit \X {Locator[i] : i \in Inv}
  <2> DEFINE Based == /\ notes' \in [Commit -> SUBSET {Locator[i] : i \in Inv}]
                      /\ orphan' \cup late' \subseteq Commit \X {Locator[i] : i \in Inv}
  <2>1. CASE UNCHANGED base
    BY <2>1 DEF TypeOK, base
  <2>2. ASSUME NEW h \in Hook, Add(h) \/ Crash(h) PROVE Based
    <3>1. hook[h].pc = "add" => hook[h].cur \in Commit /\ hook[h].at \in Inv
      BY DEF Owned, Shaped, Nested, TypeOK, Process
    <3>2. CASE Add(h)
      <4>1. Locator[hook[h].at] \in {Locator[i] : i \in Inv} /\ hook[h].cur \in Commit
        BY <3>1, <3>2 DEF Add, At
      <4> QED BY <3>2, <4>1 DEF Add, TypeOK
    <3>3. CASE Crash(h)
      <4>1. UNCHANGED <<notes, late>>
        BY <3>3 DEF Crash
      <4>2. CASE At(h, "add")
        <5>1. Locator[hook[h].at] \in {Locator[i] : i \in Inv} /\ hook[h].cur \in Commit
          BY <3>1, <4>2 DEF At
        <5> QED BY <3>3, <4>1, <4>2, <5>1 DEF Crash, TypeOK
      <4>3. CASE ~At(h, "add")
        BY <3>3, <4>1, <4>3 DEF Crash, TypeOK
      <4> QED BY <4>2, <4>3
    <3> QED BY <2>2, <3>2, <3>3
  <2>3. CASE OrphanEnds
    <3>1. PICK a \in orphan :
            /\ orphan' = orphan \ {a}
            /\ \/ /\ notes' = [notes EXCEPT ![a[1]] = @ \cup {a[2]}]
                  /\ late' = IF a[2] \in notes[a[1]] THEN late ELSE late \cup {a}
               \/ UNCHANGED <<notes, late>>
      BY <2>3 DEF OrphanEnds
    <3>2. a \in Commit \X {Locator[i] : i \in Inv}
      BY DEF TypeOK
    <3>3. a[1] \in Commit /\ a[2] \in {Locator[i] : i \in Inv}
      BY <3>2
    <3>4. orphan' \cup late' \subseteq Commit \X {Locator[i] : i \in Inv}
      BY <3>1, <3>2 DEF TypeOK
    <3> QED BY <3>1, <3>3, <3>4 DEF TypeOK
  <2>4. ASSUME NEW h \in Hook, Step(h) PROVE Based
    <3>1. Quiet(h) \/ Acquire(h) \/ GiveUp(h) \/ Release(h) => UNCHANGED base
      BY QuietStep DEF Acquire, GiveUp, Release
    <3> QED BY <2>1, <2>2, <2>4, <3>1, Splitting
  <2> QED BY <2>1, <2>3, <2>4 DEF Next, HelperDies, GrowStale, vars
<1>5. faults' \in 0..MaxFault
  <2>1. \/ UNCHANGED faults
        \/ faults < MaxFault /\ faults' = faults + 1
    <3>1. ASSUME NEW h \in Hook, Step(h)
          PROVE  UNCHANGED faults \/ (faults < MaxFault /\ faults' = faults + 1)
      BY <3>1, Splitting, QuietStep DEF Add, Acquire, GiveUp, Release, Crash
    <3> QED BY <3>1 DEF Next, HelperDies, OrphanEnds, GrowStale, vars
  <2> QED BY <2>1 DEF TypeOK
<1> QED BY <1>1, <1>2, <1>3, <1>4, <1>5 DEF TypeOK

----------------------------------------------------------------------------
(* Two hooks are never on one invocation, nor on one commit's note.        *)

LEMMA Apart ==
  ASSUME Owned
  PROVE  ClaimExclusive
BY DEF Owned, Secured, ClaimExclusive

\* What the other hooks' steps say of their directories stays true when only
\* the directory of one hook that holds its claim is written.
LEMMA OthersInPlace ==
  ASSUME Owned, Placed, NEW h \in Hook, Others(h), Holding(h),
         \A j \in Inv : j # hook[h].at => dir'[j] = dir[j]
  PROVE  \A g \in Hook \ {h} : InPlace(g)'
<1> SUFFICES ASSUME NEW g \in Hook \ {h} PROVE InPlace(g)'
  OBVIOUS
<1>1. hook'[g] = hook[g] /\ InPlace(g) /\ Shaped(g)
  BY DEF Others, Owned, Placed
<1>2. CASE Holding(g)
  <2>1. hook[g].at \in Inv /\ hook[g].at # hook[h].at
    BY <1>1, <1>2, Apart DEF ClaimExclusive, Shaped, Holding, Claimed, Nested
  <2>2. dir'[hook[g].at] = dir[hook[g].at]
    BY <2>1
  <2> QED BY <1>1, <2>2 DEF InPlace, StatusIn, Readable, Nested
<1>3. CASE ~Holding(g)
  BY <1>1, <1>3 DEF InPlace, Holding, Claimed, Nested
<1> QED BY <1>2, <1>3

\* What a step must show of the directory it writes.
Sound(i) == Unpublished(i) /\ (StatusIn(i, {"acknowledged", "retired"}) => ~Pending(i))

LEMMA PlacedWrite ==
  ASSUME Owned, Placed, NEW h \in Hook, Others(h), Holding(h), NEW i \in Inv, i = hook[h].at,
         \A j \in Inv : j # i => dir'[j] = dir[j],
         Sound(i)', InPlace(h)'
  PROVE  Placed'
<1>1. \A g \in Hook : InPlace(g)'
  BY OthersInPlace
<1>2. \A j \in Inv : Sound(j)'
  BY DEF Placed, Sound, Unpublished, FinishedIsEmpty, StatusIn, Readable, Pending
<1> QED BY <1>1, <1>2 DEF Placed, Sound, FinishedIsEmpty

\* A step that writes no directory has only its own place to show.
LEMMA PlacedRead ==
  ASSUME Owned, Placed, NEW h \in Hook, Others(h), UNCHANGED dir, InPlace(h)'
  PROVE  Placed'
<1>1. ASSUME NEW g \in Hook \ {h} PROVE InPlace(g)'
  BY <1>1 DEF Others, Placed, InPlace, StatusIn, Readable, Nested
<1>2. Placed => (\A j \in Inv : Unpublished(j)') /\ FinishedIsEmpty'
  BY DEF Placed, Unpublished, FinishedIsEmpty, StatusIn, Readable, Pending
<1> QED BY <1>1, <1>2 DEF Placed

LEMMA AtRest ==
  ASSUME NEW h \in Hook, hook'[h].pc \notin {"create", "observe", "window", "state", "drain", "ack", "retire"},
         hook'[h].cur = None
  PROVE  InPlace(h)'
BY DEF InPlace, Nested

\* Every step of the hook under its claim keeps the directories as the steps
\* say.
LEMMA PlacedWorks ==
  ASSUME TypeOK, Owned, Placed, NEW h \in Hook, Works(h)
  PROVE  Placed'
<1> DEFINE i == hook[h].at
<1>1. PICK p : StaysAt(h, p)
  BY Working
<1>2. /\ Others(h) /\ hook'[h].at = i /\ hook'[h].cur = hook[h].cur /\ hook'[h].mine = hook[h].mine
      /\ Holding(h) /\ i \in Inv /\ Shaped(h) /\ InPlace(h) /\ hook[h] \in Process
  BY <1>1 DEF StaysAt, Moves, Holding, Owned, Placed, Shaped, Claimed, TypeOK
<1>3. ASSUME NEW r, Become(h, r) PROVE hook'[h] = r
  BY <1>3 DEF Become, TypeOK
<1>4. ASSUME NEW q, Goto(h, q) PROVE hook'[h].pc = q
  BY <1>2, <1>3, <1>4 DEF Goto, Process
<1>5. Unpublished(i) /\ (StatusIn(i, {"acknowledged", "retired"}) => ~Pending(i))
  BY <1>2 DEF Placed, FinishedIsEmpty
<1>6. dir \in [Inv -> Directory \cup {None}]
  BY DEF TypeOK
<1>7. ASSUME UNCHANGED dir, InPlace(h)' PROVE Placed'
  BY <1>2, <1>7, PlacedRead
<1>8. ASSUME NEW d, dir' = [dir EXCEPT ![i] = d], Sound(i)', InPlace(h)' PROVE Placed'
  <2>1. \A j \in Inv : j # i => dir'[j] = dir[j]
    BY <1>6, <1>8
  <2> QED BY <1>2, <1>8, <2>1, PlacedWrite
<1>9. ASSUME dir' = [dir EXCEPT ![i] = None] PROVE Sound(i)'
  <2>1. dir'[i] = None
    BY <1>2, <1>6, <1>9
  <2> QED BY <1>2, <2>1 DEF Sound, Unpublished, StatusIn, Readable
<1>10. CASE Evict(h)
  <2>1. hook[h].cur = None
    BY <1>2, <1>10 DEF Evict, At, Shaped
  <2>2. hook'[h].pc = "release"
    BY <1>2, <1>3, <1>4, <1>10 DEF Evict, Process
  <2>3. InPlace(h)'
    BY <1>2, <2>1, <2>2, AtRest
  <2> QED BY <1>7, <1>8, <1>9, <1>10, <2>3 DEF Evict
<1>11. CASE EnrollOwn(h)
  <2>1. hook[h].cur = None /\ i = hook[h].mine
    BY <1>2, <1>11 DEF EnrollOwn, In, Evicting, Shaped
  <2>2. CASE Goto(h, "release") /\ UNCHANGED store
    <3>1. InPlace(h)'
      BY <1>2, <1>4, <2>1, <2>2, AtRest
    <3> QED BY <1>7, <2>2, <3>1 DEF store
  <2>3. CASE /\ Goto(h, "create")
             /\ dir' = [dir EXCEPT ![i] = NewDirectory]
    <3>1. dir'[i] = NewDirectory
      BY <1>2, <1>6, <2>3
    <3>2. /\ dir'[i].files = "enrollment" /\ dir'[i].status = "active"
          /\ dir'[i].receipts = {} /\ dir'[i].leftover = 0 /\ dir'[i] \in Directory
      BY <3>1, EmptyList DEF NewDirectory, Directory, Files, Status
    <3>3. dir'[i] # None /\ hook'[h].pc = "create"
      BY <1>4, <2>3, <3>2, NoDirectory
    <3>4. Sound(i)'
      BY <1>2, <3>2 DEF Sound, Unpublished, StatusIn, Readable, Pending
    <3>5. InPlace(h)'
      BY <1>2, <2>1, <3>2, <3>3 DEF InPlace, Nested
    <3> QED BY <1>8, <2>3, <3>4, <3>5
  <2> QED BY <1>11, <2>1, <2>2, <2>3 DEF EnrollOwn
<1>12. CASE Create(h)
  <2>1. hook[h].cur = None /\ hook[h].pc = "create" /\ i = hook[h].mine
    BY <1>2, <1>12 DEF Create, At, Shaped
  <2>2. dir[i] \in Directory /\ dir[i].status = "active" /\ ~Pending(i)
    BY <1>2, <1>5, <1>6, <1>12, <2>1 DEF Create, Unpublished
  <2>3. PICK f \in {"state", "whole"} :
          /\ dir' = [dir EXCEPT ![i].files = f]
          /\ IF f = "state" THEN UNCHANGED hook ELSE Goto(h, "release")
    BY <1>12, <2>1 DEF Create
  <2>4. dir'[i] = [dir[i] EXCEPT !.files = f]
    BY <1>2, <1>6, <2>3
  <2>5. /\ dir'[i] \in Directory /\ dir'[i].files = f /\ dir'[i].status = "active"
        /\ dir'[i].receipts = dir[i].receipts /\ dir'[i].leftover = dir[i].leftover
    BY <2>2, <2>4 DEF Directory, Files
  <2>6. hook'[h].pc = IF f = "state" THEN "create" ELSE "release"
    BY <1>4, <2>1, <2>3
  <2>7. Sound(i)'
    BY <1>2, <2>2, <2>5 DEF Sound, Unpublished, StatusIn, Readable, Pending
  <2>8. InPlace(h)'
    BY <1>2, <2>1, <2>5, <2>6, NoDirectory DEF InPlace, Nested
  <2> QED BY <1>8, <2>3, <2>7, <2>8
<1>13. CASE CreateFails(h)
  <2>1. hook[h].cur = None /\ i = hook[h].mine
    BY <1>2, <1>13 DEF CreateFails, At, Shaped
  <2>2. InPlace(h)'
    BY <1>2, <1>4, <1>13, <2>1, AtRest DEF CreateFails
  <2> QED BY <1>8, <1>9, <1>13, <2>1, <2>2 DEF CreateFails
<1>14. CASE TerminalReads(h)
  <2>1. hook[h].cur = None /\ UNCHANGED dir
    BY <1>2, <1>14 DEF TerminalReads, In, Shaped, store
  <2>2. CASE Goto(h, "release")
    BY <1>2, <1>4, <1>7, <2>1, <2>2, AtRest
  <2>3. CASE /\ Goto(h, "observe") \/ Become(h, [hook[h] EXCEPT !.pc = "observe", !.names = Observed[i]])
             /\ StatusIn(i, {"active", "completed", "acknowledged"})
             /\ dir[i].status = "active" => dir[i].files = "whole"
    <3>1. hook'[h].pc = "observe"
      BY <1>2, <1>3, <1>4, <2>3 DEF Process
    <3>2. dir[i].files = "whole"
      BY <1>5, <2>3 DEF Unpublished, StatusIn, Readable
    <3>3. InPlace(h)'
      BY <1>2, <2>1, <2>3, <3>1, <3>2 DEF InPlace, Nested, StatusIn, Readable
    <3> QED BY <1>7, <2>1, <3>3
  <2> QED BY <1>14, <2>2, <2>3 DEF TerminalReads, StatusIn
<1>15. CASE Publish(h)
  <2>1. hook[h].cur = None /\ hook[h].pc = "observe" /\ StatusIn(i, {"active"})
    BY <1>2, <1>15 DEF Publish, At, Shaped
  <2>2. dir[i] \in Directory /\ dir[i].files = "whole" /\ dir[i].status = "active"
    BY <1>2, <1>6, <2>1 DEF InPlace, StatusIn, Readable
  <2>3. PICK c \in hook[h].names :
          \/ UNCHANGED dir /\ Become(h, [hook[h] EXCEPT !.names = @ \ {c}])
          \/ /\ dir' = [dir EXCEPT ![i].receipts = @ \cup {c}]
             /\ Become(h, [hook[h] EXCEPT !.pc = "window", !.names = @ \ {c},
                                         !.listed = Append(dir[i].nonces, c)])
    BY <1>15 DEF Publish
  <2>4. CASE UNCHANGED dir /\ Become(h, [hook[h] EXCEPT !.names = @ \ {c}])
    <3>1. hook'[h].pc = "observe"
      BY <1>2, <1>3, <2>1, <2>4 DEF Process
    <3>2. InPlace(h)'
      BY <1>2, <2>1, <2>2, <2>4, <3>1 DEF InPlace, Nested, StatusIn, Readable
    <3> QED BY <1>7, <2>4, <3>2
  <2>5. CASE /\ dir' = [dir EXCEPT ![i].receipts = @ \cup {c}]
             /\ Become(h, [hook[h] EXCEPT !.pc = "window", !.names = @ \ {c},
                                         !.listed = Append(dir[i].nonces, c)])
    <3>1. dir'[i] = [dir[i] EXCEPT !.receipts = @ \cup {c}] /\ c \in Commit
      BY <1>2, <1>6, <2>5 DEF Process
    <3>2. dir'[i] \in Directory /\ dir'[i].files = "whole" /\ dir'[i].status = "active"
      BY <2>2, <3>1, Writing DEF Directory
    <3>3. hook'[h].pc = "window"
      BY <1>2, <1>3, <2>1, <2>5 DEF Process
    <3>4. Sound(i)' /\ InPlace(h)'
      BY <1>2, <2>1, <3>2, <3>3, NoDirectory DEF Sound, Unpublished, InPlace, Nested, StatusIn, Readable
    <3> QED BY <1>8, <2>5, <3>4
  <2> QED BY <2>3, <2>4, <2>5
<1>24. CASE DropOldest(h) \/ SaveList(h)
  <2>1. hook[h].cur = None /\ hook[h].pc \in {"window", "state"} /\ StatusIn(i, {"active"})
    BY <1>2, <1>24 DEF DropOldest, SaveList, At, Shaped, InPlace
  <2>2. dir[i] \in Directory /\ dir[i].files = "whole" /\ dir[i].status = "active"
    BY <1>2, <1>6, <2>1 DEF InPlace, StatusIn, Readable
  <2>3. PICK d \in Directory :
          dir' = [dir EXCEPT ![i] = d] /\ d.files = "whole" /\ d.status = "active"
    <3>1. CASE DropOldest(h)
      <4> DEFINE d == [dir[i] EXCEPT !.receipts = @ \ Dropped(hook[h].listed)]
      <4>1. d \in Directory /\ d.files = "whole" /\ d.status = "active"
        BY <2>2, Writing DEF Directory
      <4> QED BY <3>1, <4>1 DEF DropOldest
    <3>2. CASE SaveList(h)
      <4> DEFINE d == [dir[i] EXCEPT !.nonces = Newest(hook[h].listed)]
      <4>1. Newest(hook[h].listed) \in Seq(Commit)
        BY <1>2, NewestList DEF Process
      <4>2. d \in Directory /\ d.files = "whole" /\ d.status = "active"
        BY <2>2, <4>1, Writing DEF Directory
      <4> QED BY <3>2, <4>2 DEF SaveList
    <3> QED BY <1>24, <3>1, <3>2
  <2>4. dir'[i] = d
    BY <1>2, <1>6, <2>3
  <2>5. hook'[h].pc \in {"observe", "state"}
    BY <1>2, <1>3, <1>4, <1>24 DEF DropOldest, SaveList, Process
  <2>6. Sound(i)' /\ InPlace(h)'
    BY <1>2, <2>1, <2>3, <2>4, <2>5, NoDirectory DEF Sound, Unpublished, InPlace, Nested, StatusIn, Readable
  <2> QED BY <1>8, <2>3, <2>6
<1>16. ASSUME NEW s \in Status, SetStatus(i, s), Readable(i)
       PROVE  /\ dir' = [dir EXCEPT ![i] = dir'[i]]
              /\ dir'[i] \in Directory /\ dir'[i].status = s /\ dir'[i] # None
              /\ dir'[i].files = dir[i].files
              /\ dir'[i].receipts = dir[i].receipts /\ dir'[i].leftover = dir[i].leftover
  <2> DEFINE d == [dir[i] EXCEPT !.status = s, !.nonces = <<>>]
  <2>1. dir' = [dir EXCEPT ![i] = d] /\ dir'[i] = d /\ dir[i] \in Directory
    BY <1>2, <1>6, <1>16 DEF SetStatus, Readable
  <2>2. d \in Directory
    BY <2>1, Writing
  <2>3. /\ d.status = s /\ d.files = dir[i].files
        /\ d.receipts = dir[i].receipts /\ d.leftover = dir[i].leftover
    BY <2>1 DEF Directory
  <2> QED BY <2>1, <2>2, <2>3, NoDirectory
<1>17. CASE Complete(h)
  <2>1. hook[h].cur = None /\ Readable(i) /\ dir[i].files = "whole"
    BY <1>2, <1>17 DEF Complete, Shaped, InPlace, StatusIn
  <2>2. /\ dir' = [dir EXCEPT ![i] = dir'[i]]
        /\ dir'[i].status = "completed" /\ dir'[i] # None /\ dir'[i].files = "whole"
    BY <1>16, <1>17, <2>1 DEF Complete, Status
  <2>3. hook'[h].pc \in {"drain", "release"}
    BY <1>2, <1>3, <1>17 DEF Complete, Process
  <2>4. Sound(i)' /\ InPlace(h)'
    BY <1>2, <2>1, <2>2, <2>3 DEF Sound, Unpublished, InPlace, Nested, StatusIn, Readable
  <2> QED BY <1>8, <2>2, <2>4
<1>18. CASE InspectFails(h)
  <2>1. hook[h].cur = None /\ hook[h].pc = "drain" /\ UNCHANGED dir
    BY <1>2, <1>18 DEF InspectFails, At, Shaped, store
  <2>2. hook'[h].pc = "drain"
    BY <1>2, <1>3, <1>18, <2>1 DEF InspectFails, Process
  <2>3. InPlace(h)'
    BY <1>2, <2>1, <2>2 DEF InPlace, Nested, StatusIn, Readable
  <2> QED BY <1>7, <2>1, <2>3
<1>19. CASE List(h) \/ Add(h) \/ NotesFail(h)
  <2>1. UNCHANGED dir /\ Nested(h) /\ hook[h].cur # None
    BY <1>2, <1>19 DEF List, Add, NotesFail, At, Shaped, store, Nested
  <2>2. PICK q \in {"add", "ack", "release"} : Goto(h, q)
    BY <1>19 DEF List, Add, NotesFail
  <2>3. InPlace(h)'
    BY <1>2, <1>4, <2>1, <2>2 DEF InPlace, Nested, StatusIn, Readable
  <2> QED BY <1>7, <2>1, <2>3
<1>20. CASE Acknowledge(h) /\ Nested(h)
  <2>1. StatusIn(i, {"completed", "acknowledged"})
    BY <1>2, <1>20 DEF InPlace
  <2>2. hook'[h].pc = "release"
    BY <1>2, <1>3, <1>20 DEF Acknowledge, Process
  <2>3. CASE dir' = dir
    <3>1. InPlace(h)'
      BY <1>2, <2>1, <2>2, <2>3 DEF InPlace, Nested, StatusIn, Readable
    <3> QED BY <1>7, <2>3, <3>1
  <2>4. CASE dir' = [dir EXCEPT ![i].receipts = @ \ {hook[h].cur}]
    <3>1. dir'[i] = [dir[i] EXCEPT !.receipts = @ \ {hook[h].cur}] /\ dir[i] \in Directory
      BY <1>2, <1>6, <2>1, <2>4 DEF StatusIn, Readable
    <3>2. /\ dir'[i] \in Directory /\ dir'[i].files = dir[i].files /\ dir'[i].status = dir[i].status
          /\ dir'[i].receipts = dir[i].receipts \ {hook[h].cur} /\ dir'[i].leftover = dir[i].leftover
      BY <3>1, Writing DEF Directory
    <3>3. Sound(i)' /\ InPlace(h)'
      BY <1>2, <1>5, <2>1, <2>2, <3>2, NoDirectory DEF Sound, Unpublished, Pending, InPlace, Nested,
         StatusIn, Readable
    <3> QED BY <1>8, <2>4, <3>3
  <2> QED BY <1>20, <2>3, <2>4 DEF Acknowledge
<1>21. CASE DrainEnds(h)
  <2> DEFINE s == IF Pending(i) THEN "completed" ELSE "acknowledged"
  <2>1. hook[h].cur = None /\ Readable(i) /\ dir[i].files = "whole"
    BY <1>2, <1>5, <1>21 DEF DrainEnds, At, Shaped, InPlace, StatusIn, Unpublished, Readable
  <2>2. /\ dir' = [dir EXCEPT ![i] = dir'[i]]
        /\ dir'[i].status = s /\ dir'[i] # None /\ dir'[i].files = "whole"
        /\ dir'[i].receipts = dir[i].receipts /\ dir'[i].leftover = dir[i].leftover
    BY <1>16, <1>21, <2>1 DEF DrainEnds, Status
  <2>3. /\ hook'[h].pc \in {"retire", "release"}
        /\ hook'[h].pc = "retire" => ~Pending(i)
    BY <1>2, <1>3, <1>21 DEF DrainEnds, Process
  <2>4. Sound(i)' /\ InPlace(h)'
    BY <1>2, <2>1, <2>2, <2>3 DEF Sound, Unpublished, Pending, InPlace, Nested, StatusIn, Readable
  <2> QED BY <1>8, <2>2, <2>4
<1>22. CASE CleanupReads(h)
  <2>1. hook[h].cur = None
    BY <1>2, <1>22 DEF CleanupReads, In, Shaped
  <2>2. CASE Goto(h, "release") \/ Become(h, [hook[h] EXCEPT !.pc = "release", !.todo = {}])
    <3>1. hook'[h].pc = "release"
      BY <1>2, <1>3, <1>4, <2>2 DEF Process
    <3>2. InPlace(h)'
      BY <1>2, <2>1, <3>1, AtRest
    <3> QED BY <1>7, <1>8, <1>9, <1>22, <3>2 DEF CleanupReads
  <2>3. CASE /\ StatusIn(i, {"completed", "acknowledged"}) /\ UNCHANGED dir
             /\ Become(h, [hook[h] EXCEPT !.pc = "drain", !.names = dir[i].receipts])
    <3>1. hook'[h].pc = "drain"
      BY <1>2, <1>3, <2>3 DEF Process
    <3>2. InPlace(h)'
      BY <1>2, <2>1, <2>3, <3>1 DEF InPlace, Nested, StatusIn, Readable
    <3> QED BY <1>7, <2>3, <3>2
  <2> QED BY <1>22, <2>2, <2>3 DEF CleanupReads
<1>23. CASE Retire(h)
  <2>1. hook[h].cur = None /\ StatusIn(i, {"acknowledged"}) /\ dir[i].files = "whole" /\ ~Pending(i)
    BY <1>2, <1>5, <1>23 DEF Retire, At, Shaped, InPlace, StatusIn, Unpublished, Readable
  <2>2. /\ dir' = [dir EXCEPT ![i] = dir'[i]]
        /\ dir'[i].status = "retired" /\ dir'[i] # None /\ dir'[i].files = "whole"
        /\ dir'[i].receipts = dir[i].receipts /\ dir'[i].leftover = dir[i].leftover
    BY <1>16, <1>23, <2>1 DEF Retire, Status
  <2>3. InPlace(h)'
    BY <1>2, <1>4, <1>23, <2>1, AtRest DEF Retire
  <2>4. Sound(i)'
    BY <1>2, <2>1, <2>2 DEF Sound, Unpublished, Pending, StatusIn, Readable
  <2> QED BY <1>8, <2>2, <2>3, <2>4
<1> QED BY <1>10, <1>11, <1>12, <1>13, <1>14, <1>15, <1>17, <1>18, <1>19, <1>20, <1>21, <1>22, <1>23,
           <1>24 DEF Works

\* Between its claims a hook is at one of three steps, with no commit in hand.
LEMMA WalkingOn ==
  ASSUME TypeOK, Owned, NEW h \in Hook, Walks(h)
  PROVE  /\ hook'[h].pc \in {"idle", "next", "lock"} /\ hook'[h].cur = None
         /\ Others(h) /\ UNCHANGED <<dir, base>>
<1>1. Shaped(h) /\ hook[h] \in Process
  BY DEF Owned, TypeOK
<1>2. ASSUME NEW r, Become(h, r) PROVE hook'[h] = r /\ Others(h)
  BY <1>2 DEF Become, Others, TypeOK
<1> DEFINE On == hook'[h].pc \in {"idle", "next", "lock"} /\ hook'[h].cur = None /\ Others(h)
<1>3. ASSUME NEW i \in Inv, Enroll(h, i) PROVE On
  <2>1. hook'[h] = [Idle EXCEPT !.op = "enroll", !.pc = "next", !.mine = i, !.todo = Candidates(i)] /\ Others(h)
    BY <1>2, <1>3 DEF Enroll
  <2> QED BY <2>1 DEF Idle
<1>4. ASSUME NEW i \in Inv, Terminal(h, i) PROVE On
  <2>1. hook'[h] = [Idle EXCEPT !.op = "terminal", !.pc = "lock", !.at = i] /\ Others(h)
    BY <1>2, <1>4 DEF Terminal
  <2> QED BY <2>1 DEF Idle
<1>5. ASSUME Cleanup(h) PROVE On
  <2>1. hook'[h] = [Idle EXCEPT !.op = "cleanup", !.pc = "next", !.todo = Live] /\ Others(h)
    BY <1>2, <1>5 DEF Cleanup
  <2> QED BY <2>1 DEF Idle
<1>6. ASSUME NextVictim(h) \/ EvictionEnds(h) \/ CleanupNext(h) \/ CleanupEnds(h) PROVE On
  <2>1. hook[h].cur = None /\ hook[h].pc = "next"
    BY <1>1, <1>6 DEF NextVictim, EvictionEnds, CleanupNext, CleanupEnds, In, Shaped
  <2>2. ASSUME NEW i, NEW t, Become(h, [hook[h] EXCEPT !.pc = "lock", !.at = i, !.todo = t]) PROVE On
    <3>1. hook'[h] = [hook[h] EXCEPT !.pc = "lock", !.at = i, !.todo = t] /\ Others(h)
      BY <1>2, <2>2
    <3> QED BY <1>1, <2>1, <3>1 DEF Process
  <2>3. ASSUME NEW t, Become(h, [hook[h] EXCEPT !.todo = t]) PROVE On
    <3>1. hook'[h] = [hook[h] EXCEPT !.todo = t] /\ Others(h)
      BY <1>2, <2>3
    <3> QED BY <1>1, <2>1, <3>1 DEF Process
  <2>4. ASSUME Become(h, Idle) PROVE On
    BY <1>2, <2>4 DEF Idle
  <2> QED BY <1>6, <2>2, <2>3, <2>4 DEF NextVictim, EvictionEnds, CleanupNext, CleanupEnds
<1>7. UNCHANGED <<dir, base>>
  BY DEF Walks, Enroll, Terminal, Cleanup, NextVictim, EvictionEnds, CleanupNext, CleanupEnds, store
<1> QED BY <1>3, <1>4, <1>5, <1>6, <1>7 DEF Walks

\* Taking up a receipt, and putting down one that needs no note.
LEMMA Draining ==
  ASSUME TypeOK, Owned, NEW h \in Hook, DrainNext(h) \/ (Acknowledge(h) /\ ~Nested(h))
  PROVE  /\ Others(h) /\ hook[h].pc \in {"drain", "ack"} /\ hook'[h].at = hook[h].at
         /\ \/ hook'[h].pc = "ack" /\ hook'[h].cur \in MetadataOnly
            \/ hook'[h].pc = "lock" /\ hook'[h].cur \in Commit \ MetadataOnly
            \/ hook'[h].pc = "drain" /\ hook'[h].cur = None
<1>1. hook[h] \in Process
  BY DEF TypeOK
<1>2. ASSUME NEW r, Become(h, r) PROVE hook'[h] = r /\ Others(h)
  BY <1>2 DEF Become, Others, TypeOK
<1>3. CASE DrainNext(h)
  <2>1. PICK c \in hook[h].names :
          Become(h, [hook[h] EXCEPT !.pc = IF c \in MetadataOnly THEN "ack" ELSE "lock",
                                    !.cur = c, !.names = @ \ {c}])
    BY <1>3 DEF DrainNext
  <2>2. hook'[h] = [hook[h] EXCEPT !.pc = IF c \in MetadataOnly THEN "ack" ELSE "lock",
                                   !.cur = c, !.names = @ \ {c}]
    BY <1>2, <2>1
  <2>3. /\ c \in Commit /\ hook'[h].cur = c /\ hook'[h].at = hook[h].at
        /\ hook'[h].pc = IF c \in MetadataOnly THEN "ack" ELSE "lock"
    BY <1>1, <2>2 DEF Process
  <2> QED BY <1>2, <1>3, <2>1, <2>3 DEF DrainNext, At
<1>4. CASE Acknowledge(h) /\ ~Nested(h)
  <2>1. hook'[h] = [hook[h] EXCEPT !.pc = "drain", !.cur = None]
    BY <1>2, <1>4 DEF Acknowledge
  <2>2. hook'[h].pc = "drain" /\ hook'[h].cur = None /\ hook'[h].at = hook[h].at
    BY <1>1, <2>1 DEF Process
  <2> QED BY <1>2, <1>4, <2>2 DEF Acknowledge, At
<1> QED BY <1>3, <1>4

LEMMA PlacedStep ==
  ASSUME TypeOK, Owned, Placed, [Next]_vars
  PROVE  Placed'
<1>1. CASE UNCHANGED <<dir, hook>>
  BY <1>1 DEF Placed, Unpublished, FinishedIsEmpty, InPlace, StatusIn, Readable, Pending, Nested
<1>2. ASSUME NEW h \in Hook, Step(h) PROVE Placed'
  <2> DEFINE i == hook[h].at
  <2>1. Shaped(h) /\ InPlace(h) /\ hook[h] \in Process
    BY DEF Owned, Placed, TypeOK
  <2>2. CASE Walks(h)
    BY <2>2, WalkingOn, AtRest, PlacedRead
  <2>3. CASE Works(h)
    BY <2>3, PlacedWorks
  <2>4. CASE DrainNext(h) \/ (Acknowledge(h) /\ ~Nested(h))
    <3>1. StatusIn(i, {"completed", "acknowledged"}) /\ Holding(h) /\ i \in Inv
      BY <2>1, <2>4, Draining DEF InPlace, Holding, Claimed, Shaped
    <3>2. CASE UNCHANGED dir
      <4>1. InPlace(h)'
        BY <2>4, <3>1, <3>2, Draining DEF InPlace, StatusIn, Readable, Nested
      <4> QED BY <2>4, <3>2, <4>1, Draining, PlacedRead
    <3>3. CASE dir' = [dir EXCEPT ![i].receipts = @ \ {hook[h].cur}]
      <4>1. dir[i] \in Directory /\ \A j \in Inv : j # i => dir'[j] = dir[j]
        BY <3>1, <3>3 DEF TypeOK, StatusIn, Readable
      <4>2. dir'[i] = [dir[i] EXCEPT !.receipts = @ \ {hook[h].cur}]
        BY <3>1, <3>3 DEF TypeOK
      <4>3. /\ dir'[i] \in Directory /\ dir'[i].files = dir[i].files /\ dir'[i].status = dir[i].status
            /\ dir'[i].receipts = dir[i].receipts \ {hook[h].cur} /\ dir'[i].leftover = dir[i].leftover
        BY <4>1, <4>2, Writing DEF Directory
      <4>4. hook'[h].at = i /\ Others(h)
        BY <2>4, Draining
      <4>5. InPlace(h)'
        BY <2>4, <3>1, <4>3, <4>4, Draining, NoDirectory DEF InPlace, StatusIn, Readable, Nested
      <4>6. Sound(i)'
        BY <3>1, <4>3, <4>4 DEF Placed, FinishedIsEmpty, Sound, Unpublished, StatusIn, Readable, Pending
      <4> QED BY <3>1, <4>1, <4>4, <4>5, <4>6, PlacedWrite
    <3> QED BY <2>4, <3>2, <3>3 DEF DrainNext, Acknowledge, store
  <2>5. CASE Acquire(h)
    <3>1. /\ hook[h].pc = "lock" /\ UNCHANGED dir
          /\ Moves(h, IF Nested(h) THEN "list" ELSE "body", hook[h].at, hook[h].cur)
      BY <2>5, Going DEF Acquire, At, Steps, store
    <3>2. InPlace(h)'
      BY <2>1, <3>1 DEF Moves, Shaped, InPlace, StatusIn, Readable, Nested
    <3> QED BY <3>1, <3>2, PlacedRead DEF Moves
  <2>6. CASE GiveUp(h) \/ Release(h)
    <3>1. \/ Nested(h) /\ Moves(h, "drain", hook[h].at, None)
          \/ ~Nested(h) /\ Moves(h, "next", None, hook[h].cur)
          \/ ~Nested(h) /\ Starts(h, "none", "idle", None, None)
      BY <2>6, Parting DEF GiveUp, Release
    <3>2. UNCHANGED dir /\ hook[h].pc \in {"lock", "release"}
      BY <2>6 DEF GiveUp, Release, At, store
    <3>3. InPlace(h)'
      BY <2>1, <3>1, <3>2 DEF Moves, Starts, Shaped, InPlace, StatusIn, Readable, Nested
    <3> QED BY <3>1, <3>2, <3>3, PlacedRead DEF Moves, Starts
  <2>7. CASE Crash(h)
    <3>1. Starts(h, "none", "idle", None, None)
      BY <2>7, Ending DEF Crash
    <3>2. InPlace(h)' /\ Others(h)
      BY <3>1, AtRest DEF Starts
    <3>3. CASE UNCHANGED dir
      BY <3>2, <3>3, PlacedRead
    <3>4. CASE /\ At(h, "observe") \/ At(h, "window")
               /\ StatusIn(i, {"active"}) /\ dir' = [dir EXCEPT ![i].leftover = @ + 1]
      <4>1. Holding(h) /\ i \in Inv
        BY <2>1, <3>4 DEF Holding, At, Claimed, Shaped
      <4>2. /\ dir[i] \in Directory /\ dir[i].files = "whole" /\ dir[i].status = "active"
            /\ \A j \in Inv : j # i => dir'[j] = dir[j]
        BY <2>1, <3>4, <4>1 DEF At, InPlace, TypeOK, StatusIn, Readable
      <4>3. dir'[i] = [dir[i] EXCEPT !.leftover = @ + 1]
        BY <3>4, <4>1 DEF TypeOK
      <4>4. dir'[i].files = "whole" /\ dir'[i].status = "active"
        BY <4>2, <4>3 DEF Directory
      <4>5. ASSUME NEW j \in Inv, j = i PROVE Sound(j)'
        BY <4>4, <4>5 DEF Sound, Unpublished, StatusIn, Readable
      <4>6. ASSUME NEW j \in Inv, j = i PROVE Placed'
        BY <3>2, <4>1, <4>2, <4>5, <4>6, PlacedWrite
      <4> QED BY <4>1, <4>6
    <3> QED BY <2>7, <3>3, <3>4 DEF Crash
  <2> QED BY <1>2, <2>2, <2>3, <2>4, <2>5, <2>6, <2>7 DEF Step, Walks, Works
<1> QED BY <1>1, <1>2 DEF Next, HelperDies, OrphanEnds, GrowStale, vars, store

----------------------------------------------------------------------------
(* The notes.                                                              *)

\* What a hook's step says of the notes of the commit in hand.
Witnessed(h) ==
    /\ hook[h].pc = "add" => Fresh(hook[h].cur) = {}
    /\ hook[h].pc = "ack" => hook[h].cur \in MetadataOnly \/ notes[hook[h].cur] # {}

\* A hook that writes no note has only its own step to show.
LEMMA NotedRead ==
  ASSUME Noted, NEW h \in Hook, Others(h), UNCHANGED <<notes, late>>, Witnessed(h)'
  PROVE  Noted'
BY DEF Noted, Others, Fresh, Witnessed

LEMMA NotedStep ==
  ASSUME TypeOK, Owned, Noted, [Next]_vars
  PROVE  Noted'
<1>1. CASE UNCHANGED <<notes, late, hook>>
  BY <1>1 DEF Noted, Fresh
<1>2. ASSUME NEW h \in Hook, Step(h) PROVE Noted'
  <2> DEFINE c == hook[h].cur
  <2>1. Shaped(h) /\ hook[h] \in Process
    BY DEF Owned, TypeOK
  <2>2. ASSUME NEW q, Goto(h, q)
        PROVE  hook'[h].pc = q /\ hook'[h].cur = hook[h].cur /\ Others(h)
    BY <2>1, <2>2 DEF Goto, Become, Others, TypeOK, Process
  <2>3. CASE Walks(h)
    <3>1. Witnessed(h)' /\ Others(h) /\ UNCHANGED <<notes, late>>
      BY <2>3, WalkingOn DEF Witnessed, base
    <3> QED BY <3>1, NotedRead
  <2>4. CASE Works(h) /\ ~List(h) /\ ~Add(h)
    <3>1. PICK p : StaysAt(h, p)
      BY <2>4, Working
    <3>2. hook'[h].pc \notin {"add", "ack"}
      <4>1. CASE hook[h].cur = None
        BY <3>1, <4>1 DEF StaysAt, Moves
      <4>2. CASE hook[h].cur # None
        <5>1. NotesFail(h) \/ (Acknowledge(h) /\ Nested(h))
          BY <2>1, <2>4, <4>2 DEF Works, Evict, EnrollOwn, Create, CreateFails, TerminalReads, Publish,
             DropOldest, SaveList, Complete, InspectFails, DrainEnds, CleanupReads, Retire, At, In, Shaped
        <5>2. CASE NotesFail(h)
          BY <2>2, <5>2 DEF NotesFail
        <5>3. CASE Acknowledge(h) /\ Nested(h)
          BY <2>1, <5>3 DEF Acknowledge, Become, TypeOK, Process
        <5> QED BY <5>1, <5>2, <5>3
      <4> QED BY <4>1, <4>2
    <3>3. UNCHANGED <<notes, late>> /\ Others(h)
      BY <2>4, <3>1, QuietStep DEF Quiet, base, StaysAt, Moves
    <3>4. Witnessed(h)'
      BY <3>2 DEF Witnessed
    <3> QED BY <3>3, <3>4, NotedRead
  <2>5. CASE List(h)
    <3>1. /\ hook[h].pc = "list" /\ UNCHANGED <<notes, late>>
          /\ Goto(h, CASE notes[c] = {} -> "add"
                       [] Cardinality(notes[c]) = 1 -> "ack"
                       [] OTHER -> "release")
      BY <2>5 DEF List, At, base
    <3>2. CASE notes[c] = {}
      <4>1. Goto(h, "add")
        <5>1. Cardinality(notes[c]) # 1
          BY <3>2, FS_EmptySet
        <5> QED BY <3>1, <3>2, <5>1
      <4>2. hook'[h].pc = "add" /\ hook'[h].cur = c /\ Others(h)
        BY <2>2, <4>1
      <4>3. Witnessed(h)'
        BY <3>1, <3>2, <4>2 DEF Witnessed, Fresh
      <4> QED BY <3>1, <4>2, <4>3, NotedRead
    <3>3. CASE notes[c] # {}
      <4>1. PICK q \in {"ack", "release"} : Goto(h, q)
        BY <3>1, <3>3
      <4>2. hook'[h].pc = q /\ hook'[h].cur = c /\ Others(h)
        BY <2>2, <4>1
      <4>3. Witnessed(h)'
        BY <3>1, <3>3, <4>2 DEF Witnessed
      <4> QED BY <3>1, <4>2, <4>3, NotedRead
    <3> QED BY <3>2, <3>3
  <2>6. CASE Add(h)
    <3> DEFINE l == Locator[hook[h].at]
    <3>1. /\ hook[h].pc = "add" /\ notes' = [notes EXCEPT ![c] = @ \cup {l}] /\ UNCHANGED late
          /\ c \in Commit /\ Associating(h) /\ Fresh(c) = {}
      BY <2>1, <2>6 DEF Add, At, Shaped, Nested, Associating, Process, Noted
    <3>2. PICK q \in {"ack", "release"} : Goto(h, q)
      BY <2>6 DEF Add
    <3>3. hook'[h].pc = q /\ hook'[h].cur = c /\ Others(h)
      BY <2>2, <3>2
    <3>4. /\ notes'[c] = notes[c] \cup {l}
          /\ \A d \in Commit : d # c => notes'[d] = notes[d]
          /\ \A d \in Commit : notes[d] \subseteq notes'[d]
      BY <3>1 DEF TypeOK
    <3>5. ASSUME NEW g \in Hook PROVE Witnessed(g)'
      <4>1. CASE g = h
        BY <3>3, <3>4, <4>1 DEF Witnessed
      <4>2. CASE g # h
        <5>1. hook'[g] = hook[g] /\ Witnessed(g) /\ Shaped(g) /\ hook[g].cur \in Commit \cup {None}
          BY <3>3, <4>2 DEF Others, Noted, Witnessed, Owned, TypeOK, Process
        <5>2. hook[g].pc = "add" => hook[g].cur \in Commit /\ hook[g].cur # c
          BY <3>1, <4>2, <5>1, Apart DEF ClaimExclusive, Associating, Shaped, Nested
        <5>3. hook[g].pc = "ack" => hook[g].cur \in Commit
          BY <5>1 DEF Shaped
        <5> QED BY <3>1, <3>4, <5>1, <5>2, <5>3 DEF Witnessed, Fresh
      <4> QED BY <4>1, <4>2
    <3>6. ASSUME NEW d \in Commit PROVE (\A k, m \in Fresh(d) : k = m)'
      BY <3>1, <3>4 DEF Noted, Fresh
    <3> QED BY <3>5, <3>6 DEF Noted, Witnessed
  <2>7. CASE Acquire(h)
    <3>1. /\ UNCHANGED <<notes, late>>
          /\ Moves(h, IF Nested(h) THEN "list" ELSE "body", hook[h].at, hook[h].cur)
      BY <2>7, Going DEF Acquire, Steps, base
    <3>2. Witnessed(h)' /\ Others(h)
      BY <3>1 DEF Moves, Witnessed
    <3> QED BY <3>1, <3>2, NotedRead
  <2>8. CASE GiveUp(h) \/ Release(h)
    <3>1. \/ Nested(h) /\ Moves(h, "drain", hook[h].at, None)
          \/ ~Nested(h) /\ Moves(h, "next", None, hook[h].cur)
          \/ ~Nested(h) /\ Starts(h, "none", "idle", None, None)
      BY <2>8, Parting DEF GiveUp, Release
    <3>2. UNCHANGED <<notes, late>>
      BY <2>8 DEF GiveUp, Release, base
    <3>3. Witnessed(h)' /\ Others(h)
      BY <3>1 DEF Moves, Starts, Witnessed
    <3> QED BY <3>2, <3>3, NotedRead
  <2>9. CASE DrainNext(h) \/ (Acknowledge(h) /\ ~Nested(h))
    <3>1. Witnessed(h)' /\ Others(h)
      BY <2>9, Draining DEF Witnessed
    <3>2. UNCHANGED <<notes, late>>
      BY <2>9, QuietStep DEF Quiet, base
    <3> QED BY <3>1, <3>2, NotedRead
  <2>10. CASE Crash(h)
    <3>1. Starts(h, "none", "idle", None, None) /\ UNCHANGED <<notes, late>>
      BY <2>10, Ending DEF Crash
    <3>2. Witnessed(h)' /\ Others(h)
      BY <3>1 DEF Starts, Witnessed
    <3> QED BY <3>1, <3>2, NotedRead
  <2> QED BY <1>2, <2>3, <2>4, <2>5, <2>6, <2>7, <2>8, <2>9, <2>10 DEF Step, Walks, Works
<1>3. CASE OrphanEnds
  <2>1. PICK a \in orphan :
          \/ /\ notes' = [notes EXCEPT ![a[1]] = @ \cup {a[2]}]
             /\ late' = IF a[2] \in notes[a[1]] THEN late ELSE late \cup {a}
          \/ UNCHANGED <<notes, late>>
    BY <1>3 DEF OrphanEnds
  <2>2. PICK c \in Commit, l \in {Locator[i] : i \in Inv} : a = <<c, l>>
    BY DEF TypeOK
  <2>3. UNCHANGED hook
    BY <1>3 DEF OrphanEnds
  <2>4. CASE /\ notes' = [notes EXCEPT ![c] = @ \cup {l}]
             /\ late' = IF l \in notes[c] THEN late ELSE late \cup {<<c, l>>}
    <3>1. /\ notes'[c] = notes[c] \cup {l}
          /\ \A d \in Commit : d # c => notes'[d] = notes[d]
          /\ late \subseteq late' /\ (l \notin notes[c] => <<c, l>> \in late')
      BY <2>4 DEF TypeOK
    <3>2. ASSUME NEW d \in Commit PROVE Fresh(d)' \subseteq Fresh(d) /\ notes[d] \subseteq notes'[d]
      BY <3>1 DEF Fresh
    <3>3. \A g \in Hook : hook[g].pc \in {"add", "ack"} => hook[g].cur \in Commit
      BY DEF Owned, Shaped, Nested, TypeOK, Process
    <3> QED BY <2>3, <3>2, <3>3 DEF Noted
  <2>5. CASE UNCHANGED <<notes, late>>
    BY <1>1, <2>3, <2>5
  <2> QED BY <2>1, <2>2, <2>4, <2>5
<1> QED BY <1>1, <1>2, <1>3 DEF Next, HelperDies, GrowStale, vars, base

----------------------------------------------------------------------------
(* The window of receipts.                                                 *)

\* As for Placed: a hook that writes one directory under its claim has that
\* directory and its own step to show, and one that writes none its step.
LEMMA CountedWrite ==
  ASSUME Owned, Counted, NEW h \in Hook, Others(h), Holding(h), NEW i \in Inv, i = hook[h].at,
         \A j \in Inv : j # i => dir'[j] = dir[j],
         Windowed(i)', Measured(h)'
  PROVE  Counted'
<1>1. ASSUME NEW g \in Hook \ {h} PROVE Measured(g)'
  <2>1. hook'[g] = hook[g] /\ Measured(g) /\ Shaped(g)
    BY DEF Others, Counted, Owned
  <2>2. CASE hook[g].pc \in {"window", "state"}
    <3>1. Holding(g) /\ hook[g].at \in Inv
      BY <2>1, <2>2 DEF Holding, Claimed, Shaped
    <3>2. hook[g].at # i
      BY <3>1, Apart DEF ClaimExclusive
    <3> QED BY <2>1, <3>1, <3>2 DEF Measured
  <2>3. CASE hook[g].pc \notin {"window", "state"}
    BY <2>1, <2>3 DEF Measured
  <2> QED BY <2>2, <2>3
<1>2. ASSUME NEW j \in Inv, j # i PROVE Windowed(j)'
  BY <1>2 DEF Counted, Windowed
<1> QED BY <1>1, <1>2 DEF Counted

LEMMA CountedRead ==
  ASSUME Counted, NEW h \in Hook, Others(h), UNCHANGED dir, Measured(h)'
  PROVE  Counted'
BY DEF Counted, Windowed, Measured, Others

\* Only a publication is measured.
LEMMA Unmeasured ==
  ASSUME TypeOK, Owned, NEW h \in Hook, Step(h), ~Publish(h), ~DropOldest(h)
  PROVE  Others(h) /\ Measured(h)'
<1> SUFFICES Others(h) /\ hook'[h].pc \notin {"window", "state"}
  BY DEF Measured
<1> DEFINE Elsewhere == Others(h) /\ hook'[h].pc \notin {"window", "state"}
<1>1. hook[h] \in Process /\ Shaped(h)
  BY DEF TypeOK, Owned
<1>2. ASSUME NEW r, Become(h, r), r.pc \notin {"window", "state"} PROVE Elsewhere
  BY <1>2 DEF Become, Others, TypeOK
<1>3. ASSUME NEW q, q \notin {"window", "state"}, Goto(h, q) PROVE Elsewhere
  <2> DEFINE r == [hook[h] EXCEPT !.pc = q]
  <2>1. Become(h, r) /\ r.pc = q
    BY <1>1, <1>3 DEF Goto, Process
  <2> HIDE DEF r
  <2> QED BY <1>2, <1>3, <2>1
<1>4. CASE Walks(h)
  BY <1>4, WalkingOn
<1>5. CASE Evict(h) \/ EnrollOwn(h) \/ Create(h) \/ CreateFails(h)
  <2> DEFINE r == [hook[h] EXCEPT !.pc = "release", !.todo = {}]
  <2>1. r.pc = "release"
    BY <1>1 DEF Process
  <2>2. CASE Evict(h)
    <3>1. Become(h, r) \/ Goto(h, "release")
      BY <2>2 DEF Evict
    <3> HIDE DEF r
    <3> QED BY <1>2, <1>3, <2>1, <3>1
  <2>3. CASE EnrollOwn(h) \/ CreateFails(h)
    <3>1. Goto(h, "release") \/ Goto(h, "create")
      BY <2>3 DEF EnrollOwn, CreateFails
    <3> QED BY <1>3, <3>1
  <2>4. CASE Create(h)
    <3>1. (UNCHANGED hook /\ hook[h].pc = "create") \/ Goto(h, "release")
      BY <2>4 DEF Create, At
    <3> QED BY <1>3, <3>1 DEF Others
  <2> QED BY <1>5, <2>2, <2>3, <2>4
<1>6. CASE TerminalReads(h)
  <2> DEFINE r == [hook[h] EXCEPT !.pc = "observe", !.names = Observed[hook[h].at]]
  <2>1. r.pc = "observe"
    BY <1>1 DEF Process
  <2>2. Become(h, r) \/ Goto(h, "release") \/ Goto(h, "observe")
    BY <1>6 DEF TerminalReads
  <2> HIDE DEF r
  <2> QED BY <1>2, <1>3, <2>1, <2>2
<1>7. CASE SaveList(h)
  <2> DEFINE r == [hook[h] EXCEPT !.pc = "observe", !.listed = <<>>]
  <2>1. r.pc = "observe" /\ Become(h, r)
    BY <1>1, <1>7 DEF Process, SaveList
  <2> HIDE DEF r
  <2> QED BY <1>2, <2>1
<1>16. CASE Complete(h)
  <2> DEFINE r == [hook[h] EXCEPT !.pc = "drain", !.names = dir[hook[h].at].receipts, !.listed = <<>>]
             m == [hook[h] EXCEPT !.pc = "release", !.names = {}, !.listed = <<>>]
  <2>1. r.pc = "drain" /\ m.pc = "release"
    BY <1>1 DEF Process
  <2>2. Become(h, r) \/ Become(h, m)
    BY <1>16 DEF Complete
  <2> HIDE DEF r, m
  <2> QED BY <1>2, <2>1, <2>2
<1>8. CASE InspectFails(h)
  <2>1. PICK c \in hook[h].names : Become(h, [hook[h] EXCEPT !.names = @ \ {c}])
    BY <1>8 DEF InspectFails
  <2> DEFINE r == [hook[h] EXCEPT !.names = @ \ {c}]
  <2>2. Become(h, r) /\ r.pc = "drain"
    BY <1>1, <1>8, <2>1 DEF InspectFails, At, Process
  <2> HIDE DEF r
  <2> QED BY <1>2, <2>2
<1>17. CASE DrainEnds(h)
  <2> DEFINE q == IF hook[h].op = "cleanup" /\ ~Pending(hook[h].at) THEN "retire" ELSE "release"
             r == [hook[h] EXCEPT !.pc = q, !.names = {}]
  <2>1. r.pc = q
    BY <1>1 DEF Process
  <2>2. Become(h, r)
    BY <1>17 DEF DrainEnds
  <2> HIDE DEF r
  <2> QED BY <1>2, <2>1, <2>2
<1>9. CASE List(h) \/ Add(h) \/ NotesFail(h) \/ Retire(h)
  <2>1. \E q \in {"add", "ack", "release"} : Goto(h, q)
    BY <1>9 DEF List, Add, NotesFail, Retire
  <2> QED BY <1>3, <2>1
<1>10. CASE Acknowledge(h)
  <2> DEFINE q == IF Nested(h) THEN "release" ELSE "drain"
             r == [hook[h] EXCEPT !.pc = q, !.cur = IF Nested(h) THEN @ ELSE None]
  <2>1. r.pc = q
    BY <1>1 DEF Process
  <2>2. Become(h, r)
    BY <1>10 DEF Acknowledge
  <2> HIDE DEF r
  <2> QED BY <1>2, <2>1, <2>2
<1>11. CASE CleanupReads(h)
  <2> DEFINE r == [hook[h] EXCEPT !.pc = "release", !.todo = {}]
             m == [hook[h] EXCEPT !.pc = "drain", !.names = dir[hook[h].at].receipts]
  <2>1. r.pc = "release" /\ m.pc = "drain"
    BY <1>1 DEF Process
  <2>2. Become(h, r) \/ Become(h, m) \/ Goto(h, "release")
    BY <1>11 DEF CleanupReads
  <2> HIDE DEF r, m
  <2> QED BY <1>2, <1>3, <2>1, <2>2
<1>12. CASE DrainNext(h)
  BY <1>12, Draining
<1>13. CASE Acquire(h)
  BY <1>3, <1>13 DEF Acquire
<1>14. CASE GiveUp(h) \/ Release(h)
  BY <1>14, Parting DEF GiveUp, Release, Moves, Starts
<1>15. CASE Crash(h)
  BY <1>15, Ending DEF Crash, Starts
<1> QED BY <1>4, <1>5, <1>6, <1>7, <1>8, <1>9, <1>10, <1>11, <1>12, <1>13, <1>14, <1>15, <1>16, <1>17
     DEF Step, Walks

\* The steps that write a directory outside a publication leave nothing to
\* measure in it, or what was measured as it was.
LEMMA Unwindowed ==
  ASSUME TypeOK, Owned, Placed, Counted, NEW h \in Hook, Step(h),
         ~Publish(h), ~DropOldest(h), ~SaveList(h)
  PROVE  \/ UNCHANGED dir
         \/ \E i \in Inv :
               /\ i = hook[h].at /\ Holding(h) /\ Windowed(i)'
               /\ \A j \in Inv : j # i => dir'[j] = dir[j]
<1> DEFINE i == hook[h].at
           Done == \E k \in Inv :
                      /\ k = i /\ Holding(h) /\ Windowed(k)'
                      /\ \A j \in Inv : j # k => dir'[j] = dir[j]
<1>1. Shaped(h) /\ InPlace(h) /\ dir \in [Inv -> Directory \cup {None}] /\ hook[h] \in Process
  BY DEF Owned, Placed, TypeOK
<1>2. hook[h].pc \in Claimed => i \in Inv /\ Holding(h)
  BY <1>1 DEF Shaped, Holding, Claimed
<1>4. ASSUME NEW d, dir' = [dir EXCEPT ![i] = d], hook[h].pc \in Claimed,
             \/ d = None
             \/ d.status # "active"
             \/ d.receipts = {} /\ d.nonces = <<>>
             \/ /\ dir[i] # None
                /\ d.status = dir[i].status /\ d.receipts = dir[i].receipts /\ d.nonces = dir[i].nonces
      PROVE  Done
  <2>1. dir'[i] = d /\ \A j \in Inv : j # i => dir'[j] = dir[j]
    BY <1>1, <1>2, <1>4
  <2>2. ASSUME NEW j \in Inv, j = i PROVE Windowed(j)'
    <3>1. CASE d = None \/ d.status # "active"
      BY <2>1, <2>2, <3>1 DEF Windowed
    <3>2. CASE d.receipts = {} /\ d.nonces = <<>>
      <4>1. Len(d.nonces) = 0 /\ Cardinality(d.receipts) = 0 /\ IsFiniteSet(d.receipts)
        BY <3>2, FS_EmptySet
      <4> QED BY <2>1, <2>2, <4>1, Parameters DEF Windowed
    <3>3. CASE /\ dir[i] # None
               /\ d.status = dir[i].status /\ d.receipts = dir[i].receipts /\ d.nonces = dir[i].nonces
      BY <2>1, <2>2, <3>3 DEF Counted, Windowed
    <3> QED BY <1>4, <3>1, <3>2, <3>3
  <2> QED BY <1>2, <1>4, <2>1, <2>2
<1>5. CASE Evict(h) \/ CleanupReads(h)
  <2>1. hook[h].pc \in Claimed
    BY <1>5 DEF Evict, CleanupReads, At, In, Claimed
  <2>2. UNCHANGED dir \/ dir' = [dir EXCEPT ![i] = None]
    BY <1>5 DEF Evict, CleanupReads
  <2> QED BY <1>4, <2>1, <2>2
<1>6. CASE EnrollOwn(h)
  <2>1. hook[h].pc \in Claimed /\ i = hook[h].mine
    BY <1>6 DEF EnrollOwn, In, Evicting, Claimed
  <2>2. UNCHANGED dir \/ dir' = [dir EXCEPT ![i] = NewDirectory]
    BY <1>6, <2>1 DEF EnrollOwn, store
  <2> QED BY <1>4, <2>1, <2>2 DEF NewDirectory
<1>7. CASE Create(h) \/ CreateFails(h)
  <2>1. hook[h].pc \in Claimed /\ i = hook[h].mine
    BY <1>1, <1>7 DEF Create, CreateFails, At, Shaped, Claimed
  <2>2. CASE CreateFails(h)
    BY <1>4, <2>1, <2>2 DEF CreateFails
  <2>3. CASE Create(h)
    <3>1. dir[i] # None /\ dir[i] \in Directory
      BY <1>1, <1>2, <2>1, <2>3 DEF Create
    <3>2. PICK f : dir' = [dir EXCEPT ![i] = [dir[i] EXCEPT !.files = f]]
      BY <2>1, <2>3 DEF Create
    <3> DEFINE d == [dir[i] EXCEPT !.files = f]
    <3>3. d.status = dir[i].status /\ d.receipts = dir[i].receipts /\ d.nonces = dir[i].nonces
      BY <3>1 DEF Directory
    <3> QED BY <1>4, <2>1, <3>1, <3>2, <3>3
  <2> QED BY <1>7, <2>2, <2>3
<1>8. CASE Complete(h) \/ DrainEnds(h) \/ Retire(h)
  <2>1. hook[h].pc \in Claimed /\ Readable(i)
    BY <1>8 DEF Complete, DrainEnds, Retire, At, Claimed
  <2>2. PICK s \in {"completed", "acknowledged", "retired"} :
          dir' = [dir EXCEPT ![i] = [dir[i] EXCEPT !.status = s, !.nonces = <<>>]]
    BY <1>8 DEF Complete, DrainEnds, Retire, SetStatus
  <2> DEFINE d == [dir[i] EXCEPT !.status = s, !.nonces = <<>>]
  <2>3. d.status # "active"
    BY <1>1, <1>2, <2>1 DEF Readable, Directory
  <2> QED BY <1>4, <2>1, <2>2, <2>3
<1>9. CASE Acknowledge(h)
  <2>1. hook[h].pc \in Claimed /\ StatusIn(i, {"completed", "acknowledged"})
    BY <1>1, <1>9 DEF Acknowledge, At, Claimed, InPlace
  <2>2. UNCHANGED dir \/ dir' = [dir EXCEPT ![i] = [dir[i] EXCEPT !.receipts = @ \ {hook[h].cur}]]
    BY <1>9 DEF Acknowledge
  <2> DEFINE d == [dir[i] EXCEPT !.receipts = @ \ {hook[h].cur}]
  <2>3. d.status # "active"
    BY <1>1, <1>2, <2>1 DEF StatusIn, Readable, Directory
  <2> QED BY <1>4, <2>1, <2>2, <2>3
<1>10. CASE Crash(h)
  <2>1. CASE UNCHANGED dir
    BY <2>1
  <2>2. CASE /\ At(h, "observe") \/ At(h, "window")
             /\ StatusIn(i, {"active"}) /\ dir' = [dir EXCEPT ![i].leftover = @ + 1]
    <3>1. hook[h].pc \in Claimed /\ dir[i] # None
      BY <2>2 DEF At, Claimed, StatusIn, Readable
    <3> DEFINE d == [dir[i] EXCEPT !.leftover = @ + 1]
    <3>2. dir' = [dir EXCEPT ![i] = d]
      BY <2>2
    <3>3. d.status = dir[i].status /\ d.receipts = dir[i].receipts /\ d.nonces = dir[i].nonces
      BY <1>1, <1>2, <3>1 DEF Directory
    <3> QED BY <1>4, <3>1, <3>2, <3>3
  <2> QED BY <1>10, <2>1, <2>2 DEF Crash
<1>11. CASE UNCHANGED dir
  BY <1>11
<1> QED BY <1>5, <1>6, <1>7, <1>8, <1>9, <1>10, <1>11
     DEF Step, Enroll, Terminal, Cleanup, Acquire, GiveUp, Release, NextVictim, EvictionEnds,
         TerminalReads, DrainNext, InspectFails, List, Add, NotesFail, CleanupNext, CleanupEnds, store

\* At most one receipt falls out of the window, and then enough are left.
LEMMA Dropping ==
  ASSUME NEW s \in Seq(Commit), NEW S \in SUBSET Commit, IsFiniteSet(S), Len(s) <= ReceiptWindow + 1
  PROVE  /\ IsFiniteSet(S \ Dropped(s))
         /\ Len(s) <= Cardinality(S) =>
              /\ Len(s) <= ReceiptWindow => S \ Dropped(s) = S
              /\ Len(s) > ReceiptWindow => ReceiptWindow <= Cardinality(S \ Dropped(s))
<1>1. Len(s) \in Nat /\ ReceiptWindow \in Nat \ {0} /\ Cardinality(S) \in Nat
  BY Parameters, FS_CardinalityType
<1>2. CASE Len(s) <= ReceiptWindow
  <2>1. Dropped(s) = {}
    BY <1>1, <1>2 DEF Dropped
  <2> QED BY <1>1, <1>2, <2>1
<1>3. CASE Len(s) > ReceiptWindow
  <2>1. 1 .. Len(s) - ReceiptWindow = {1}
    BY <1>1, <1>3
  <2>2. Dropped(s) = {s[1]}
    BY <2>1 DEF Dropped
  <2>3. /\ IsFiniteSet(S \ {s[1]})
        /\ Cardinality(S \ {s[1]}) = IF s[1] \in S THEN Cardinality(S) - 1 ELSE Cardinality(S)
    BY FS_RemoveElement
  <2> QED BY <1>1, <1>3, <2>2, <2>3
<1> QED BY <1>1, <1>2, <1>3

LEMMA CountedStep ==
  ASSUME TypeOK, Owned, Placed, Counted, [Next]_vars
  PROVE  Counted'
<1>1. CASE UNCHANGED <<dir, hook>>
  BY <1>1 DEF Counted, Windowed, Measured
<1>2. ASSUME NEW h \in Hook, Step(h) PROVE Counted'
  <2> DEFINE i == hook[h].at
  <2>1. /\ Shaped(h) /\ InPlace(h) /\ Measured(h) /\ hook[h] \in Process
        /\ dir \in [Inv -> Directory \cup {None}]
    BY DEF Owned, Placed, Counted, TypeOK
  <2>2. ASSUME NEW r, Become(h, r) PROVE hook'[h] = r /\ Others(h)
    BY <2>2 DEF Become, Others, TypeOK
  <2>3. ASSUME ~Publish(h), ~DropOldest(h), ~SaveList(h) PROVE Counted'
    <3>1. Others(h) /\ Measured(h)'
      BY <1>2, <2>3, Unmeasured
    <3>2. CASE UNCHANGED dir
      BY <3>1, <3>2, CountedRead
    <3>3. ASSUME NEW k \in Inv, k = i, Holding(h), Windowed(k)',
                 \A j \in Inv : j # k => dir'[j] = dir[j]
          PROVE  Counted'
      BY <3>1, <3>3, CountedWrite
    <3> QED BY <1>2, <2>3, <3>2, <3>3, Unwindowed
  <2>4. ASSUME Publish(h) \/ DropOldest(h) \/ SaveList(h)
        PROVE  /\ i \in Inv /\ Holding(h) /\ dir[i] \in Directory /\ dir[i].status = "active"
               /\ IsFiniteSet(dir[i].receipts) /\ Cardinality(dir[i].receipts) \in Nat
               /\ Len(dir[i].nonces) \in Nat /\ ReceiptWindow \in Nat \ {0}
               /\ Len(dir[i].nonces) <= ReceiptWindow
               /\ Len(dir[i].nonces) <= Cardinality(dir[i].receipts)
    <3>1. i \in Inv /\ Holding(h) /\ StatusIn(i, {"active"})
      BY <2>1, <2>4 DEF Publish, DropOldest, SaveList, At, Shaped, Holding, Claimed, InPlace
    <3>2. dir[i] \in Directory /\ dir[i] # None /\ dir[i].status = "active"
      BY <2>1, <3>1 DEF StatusIn, Readable
    <3>3. /\ IsFiniteSet(dir[i].receipts) /\ Len(dir[i].nonces) <= ReceiptWindow
          /\ Len(dir[i].nonces) <= Cardinality(dir[i].receipts)
      BY <3>1, <3>2 DEF Counted, Windowed
    <3>4. dir[i].nonces \in Seq(Commit)
      BY <3>2 DEF Directory
    <3> QED BY <3>1, <3>2, <3>3, <3>4, FS_CardinalityType, Parameters
  <2>5. CASE Publish(h)
    <3>1. PICK c \in hook[h].names :
            \/ UNCHANGED dir /\ Become(h, [hook[h] EXCEPT !.names = @ \ {c}])
            \/ /\ c \notin dir[i].receipts
               /\ dir' = [dir EXCEPT ![i].receipts = @ \cup {c}]
               /\ Become(h, [hook[h] EXCEPT !.pc = "window", !.names = @ \ {c},
                                           !.listed = Append(dir[i].nonces, c)])
      BY <2>5 DEF Publish
    <3>2. CASE UNCHANGED dir /\ Become(h, [hook[h] EXCEPT !.names = @ \ {c}])
      <4>1. hook'[h].pc = "observe" /\ Others(h)
        BY <2>1, <2>2, <2>5, <3>2 DEF Publish, At, Process
      <4>2. Measured(h)'
        BY <4>1 DEF Measured
      <4> QED BY <3>2, <4>1, <4>2, CountedRead
    <3>3. CASE /\ c \notin dir[i].receipts
               /\ dir' = [dir EXCEPT ![i].receipts = @ \cup {c}]
               /\ Become(h, [hook[h] EXCEPT !.pc = "window", !.names = @ \ {c},
                                           !.listed = Append(dir[i].nonces, c)])
      <4> DEFINE l == Append(dir[i].nonces, c)
                 d == [dir[i] EXCEPT !.receipts = @ \cup {c}]
      <4>1. /\ hook'[h].pc = "window" /\ hook'[h].at = i /\ hook'[h].listed = l /\ Others(h)
        <5> DEFINE r == [hook[h] EXCEPT !.pc = "window", !.names = @ \ {c}, !.listed = l]
        <5>1. hook'[h] = r /\ Others(h)
          BY <2>2, <3>3
        <5>2. r.pc = "window" /\ r.at = i /\ r.listed = l
          BY <2>1 DEF Process
        <5> QED BY <5>1, <5>2
      <4>2. dir'[i] = d /\ \A j \in Inv : j # i => dir'[j] = dir[j]
        BY <2>1, <2>4, <2>5, <3>3
      <4>3. d.receipts = dir[i].receipts \cup {c} /\ d.status = "active" /\ d.nonces = dir[i].nonces
        BY <2>4, <2>5 DEF Directory
      <4> HIDE DEF d, l
      <4>4. /\ IsFiniteSet(d.receipts)
            /\ Cardinality(d.receipts) = Cardinality(dir[i].receipts) + 1
        <5> DEFINE S == dir[i].receipts
        <5>1. IsFiniteSet(S) /\ c \notin S
          BY <2>4, <2>5, <3>3
        <5>2. d.receipts = S \cup {c}
          BY <4>3
        <5> HIDE DEF S
        <5>3. IsFiniteSet(S \cup {c}) /\ Cardinality(S \cup {c}) = Cardinality(S) + 1
          BY <5>1, FS_AddElement
        <5>4. IsFiniteSet(d.receipts) /\ Cardinality(d.receipts) = Cardinality(S) + 1
          BY <5>2, <5>3
        <5> QED BY <5>4 DEF S
      <4>5. Len(l) = Len(dir[i].nonces) + 1
        BY <2>4, <2>5 DEF Directory, l
      <4>6. ASSUME NEW k \in Inv, k = i PROVE Windowed(k)'
        <5>1. /\ IsFiniteSet(dir'[k].receipts)
              /\ Len(dir'[k].nonces) = Len(dir[i].nonces)
              /\ Cardinality(dir'[k].receipts) = Cardinality(dir[i].receipts) + 1
          BY <4>2, <4>3, <4>4, <4>6
        <5>2. /\ Len(dir'[k].nonces) <= ReceiptWindow
              /\ Len(dir'[k].nonces) <= Cardinality(dir'[k].receipts)
          BY <2>4, <2>5, <5>1
        <5> QED BY <5>1, <5>2 DEF Windowed
      <4>7. Measured(h)'
        BY <2>4, <2>5, <4>1, <4>2, <4>3, <4>4, <4>5 DEF Measured
      <4>8. ASSUME NEW k \in Inv, k = i PROVE Counted'
        BY <2>4, <2>5, <4>1, <4>2, <4>6, <4>7, <4>8, CountedWrite
      <4> QED BY <2>4, <2>5, <4>8
    <3> QED BY <3>1, <3>2, <3>3
  <2>6. CASE DropOldest(h)
    <3> DEFINE s == hook[h].listed
               d == [dir[i] EXCEPT !.receipts = @ \ Dropped(s)]
    <3>1. hook[h].pc = "window" /\ dir' = [dir EXCEPT ![i] = d] /\ Goto(h, "state")
      BY <2>6 DEF DropOldest, At
    <3>2. hook'[h].pc = "state" /\ hook'[h].at = i /\ hook'[h].listed = s /\ Others(h)
      BY <2>1, <2>2, <3>1 DEF Goto, Process
    <3>3. dir'[i] = d /\ \A j \in Inv : j # i => dir'[j] = dir[j]
      BY <2>1, <2>4, <2>6, <3>1
    <3>4. d.receipts = dir[i].receipts \ Dropped(s) /\ d.status = "active" /\ d.nonces = dir[i].nonces
      BY <2>4, <2>6 DEF Directory
    <3>5. /\ s \in Seq(Commit) /\ Len(s) \in Nat /\ dir[i].receipts \in SUBSET Commit
          /\ Len(s) <= ReceiptWindow + 1 /\ Len(s) <= Cardinality(dir[i].receipts)
      BY <2>1, <2>4, <2>6, <3>1 DEF Measured, Process, Directory
    <3>6. /\ IsFiniteSet(d.receipts) /\ Cardinality(d.receipts) \in Nat
          /\ Len(s) <= ReceiptWindow => d.receipts = dir[i].receipts
          /\ Len(s) > ReceiptWindow => ReceiptWindow <= Cardinality(d.receipts)
      <4>1. IsFiniteSet(dir[i].receipts)
        BY <2>4, <2>6
      <4>2. /\ IsFiniteSet(d.receipts)
            /\ Len(s) <= ReceiptWindow => d.receipts = dir[i].receipts
            /\ Len(s) > ReceiptWindow => ReceiptWindow <= Cardinality(d.receipts)
        BY <3>4, <3>5, <4>1, Dropping
      <4> QED BY <4>2, FS_CardinalityType
    <3> HIDE DEF d
    <3>7. ASSUME NEW k \in Inv, k = i PROVE Windowed(k)'
      <4>1. IsFiniteSet(dir'[k].receipts) /\ Len(dir'[k].nonces) = Len(dir[i].nonces)
        BY <3>3, <3>4, <3>6, <3>7
      <4>2. \/ Cardinality(dir'[k].receipts) = Cardinality(dir[i].receipts)
            \/ ReceiptWindow <= Cardinality(dir'[k].receipts)
        BY <2>4, <2>6, <3>3, <3>5, <3>6, <3>7
      <4>3. Cardinality(dir'[k].receipts) \in Nat
        BY <3>3, <3>6, <3>7
      <4>4. /\ Len(dir'[k].nonces) <= ReceiptWindow
            /\ Len(dir'[k].nonces) <= Cardinality(dir'[k].receipts)
        BY <2>4, <2>6, <4>1, <4>2, <4>3
      <4> QED BY <4>1, <4>4 DEF Windowed
    <3>8. Measured(h)'
      <4>1. hook'[h].listed = s /\ dir'[hook'[h].at] = d
        BY <3>2, <3>3
      <4>2. Len(s) <= Cardinality(d.receipts) \/ ReceiptWindow <= Cardinality(d.receipts)
        BY <2>4, <2>6, <3>5, <3>6
      <4> HIDE DEF s
      <4> QED BY <3>2, <3>5, <4>1, <4>2 DEF Measured
    <3>9. ASSUME NEW k \in Inv, k = i PROVE Counted'
      BY <2>4, <2>6, <3>2, <3>3, <3>7, <3>8, <3>9, CountedWrite
    <3> QED BY <2>4, <2>6, <3>9
  <2>7. CASE SaveList(h)
    <3> DEFINE s == hook[h].listed
               d == [dir[i] EXCEPT !.nonces = Newest(s)]
    <3>1. /\ hook[h].pc = "state" /\ dir' = [dir EXCEPT ![i] = d]
          /\ Become(h, [hook[h] EXCEPT !.pc = "observe", !.listed = <<>>])
      BY <2>7 DEF SaveList, At
    <3>2. hook'[h].pc = "observe" /\ Others(h)
      <4> DEFINE r == [hook[h] EXCEPT !.pc = "observe", !.listed = <<>>]
      <4>1. hook'[h] = r /\ Others(h)
        BY <2>2, <3>1
      <4>2. r.pc = "observe"
        BY <2>1 DEF Process
      <4> QED BY <4>1, <4>2
    <3>3. dir'[i] = d /\ \A j \in Inv : j # i => dir'[j] = dir[j]
      BY <2>1, <2>4, <2>7, <3>1
    <3>4. d.receipts = dir[i].receipts /\ d.status = "active" /\ d.nonces = Newest(s)
      BY <2>4, <2>7 DEF Directory
    <3>5. /\ s \in Seq(Commit) /\ Len(s) \in Nat
          /\ Len(s) <= Cardinality(dir[i].receipts) \/ ReceiptWindow <= Cardinality(dir[i].receipts)
      BY <2>1, <3>1 DEF Measured, Process
    <3>6. Len(Newest(s)) = IF Len(s) > ReceiptWindow THEN ReceiptWindow ELSE Len(s)
      BY <3>5, NewestList
    <3> HIDE DEF d
    <3>7. ASSUME NEW k \in Inv, k = i PROVE Windowed(k)'
      BY <2>4, <2>7, <3>3, <3>4, <3>5, <3>6, <3>7 DEF Windowed
    <3>8. Measured(h)'
      BY <3>2 DEF Measured
    <3>9. ASSUME NEW k \in Inv, k = i PROVE Counted'
      BY <2>4, <2>7, <3>2, <3>3, <3>7, <3>8, <3>9, CountedWrite
    <3> QED BY <2>4, <2>7, <3>9
  <2> QED BY <2>3, <2>5, <2>6, <2>7
<1> QED BY <1>1, <1>2 DEF Next, HelperDies, OrphanEnds, GrowStale, vars, store

----------------------------------------------------------------------------
(* The theorems.                                                           *)

\* The invariant holds in every reachable state.
THEOREM Invariance == Spec => []IInv
<1>1. IInv /\ [Next]_vars => IInv'
  BY TypeStep, OwnedStep, PlacedStep, NotedStep, CountedStep DEF IInv
<1> QED BY InitInv, <1>1, PTL DEF Spec

\* The state has its type, for any number of hooks, invocations and commits.
THEOREM TypeCorrect == Spec => []TypeOK
<1>1. IInv => TypeOK
  BY DEF IInv
<1> QED BY Invariance, <1>1, PTL

\* No two hooks work under one claim (acquireReceiptClaim), however many of
\* them are killed and however many lock helpers die.
THEOREM Exclusive == Spec => []ClaimExclusive
<1>1. IInv => ClaimExclusive
  BY Apart DEF IInv
<1> QED BY Invariance, <1>1, PTL

\* An acknowledged or retired invocation holds no receipt (drainDirectory).
THEOREM NothingUndelivered == Spec => []FinishedIsEmpty
<1>1. IInv => FinishedIsEmpty
  BY DEF IInv, Placed
<1> QED BY Invariance, <1>1, PTL

\* A commit gets one note per session, not counting what an add that outlived
\* its hook brings late (selectCommitAssociation).
THEOREM OneNote == Spec => []OneAssociation
<1>1. IInv => OneAssociation
  <2> SUFFICES ASSUME IInv, NEW c \in Commit PROVE Cardinality(Fresh(c)) <= 1
    BY DEF OneAssociation, Fresh
  <2>1. CASE Fresh(c) = {}
    BY <2>1, FS_EmptySet
  <2>2. CASE Fresh(c) # {}
    <3>1. PICK l \in Fresh(c) : TRUE
      BY <2>2
    <3>2. Fresh(c) = {l}
      BY <3>1 DEF IInv, Noted
    <3> QED BY <3>2, FS_Singleton
  <2> QED BY <2>1, <2>2
<1> QED BY Invariance, <1>1, PTL

\* Hooks that wait for one another form no ring: as long as one is running,
\* one can go on (an invocation's claim is taken before an association's).
THEOREM SomeoneGoesOn == Spec => []NoStandoff
<1>1. IInv => NoStandoff
  <2> SUFFICES ASSUME IInv, NEW h \in Hook, ~At(h, "idle"),
                      \A g \in Hook : At(g, "idle") \/ Blocked(g)
               PROVE  FALSE
    BY DEF NoStandoff
  <2>1. \A g \in Hook : hook[g].pc \in {"idle", "lock"}
    BY DEF At, Blocked
  <2>2. TypeOK /\ Owned
    BY DEF IInv
  <2>3. ASSUME NEW g \in Hook PROVE ~Associating(g)
    BY <2>1, <2>3 DEF Associating
  <2>4. ASSUME NEW g \in Hook, At(g, "lock"), Nested(g) PROVE FALSE
    <3>1. KeyOf(g) = hook[g].cur /\ hook[g].cur \in Commit /\ KeyOf(g) \in Key
      BY <2>2, <2>4, KeyOfHook DEF At, Owned, KeyOf
    <3>2. LockName(KeyOf(g)) = <<"association", Slot[KeyOf(g)]>> /\ LockName(KeyOf(g)) \in LockNames
      BY <3>1, Parameters DEF LockName, LockNames
    <3>3. Blocked(g)
      BY <2>4 DEF At
    <3>4. ASSUME NEW f \in Hook, UsesLock(f, LockName(KeyOf(g))) \/ UsesClaim(f, KeyOf(g)) PROVE FALSE
      <4>1. Holding(f) /\ (LockName(KeyOf(g)) = LockName(hook[f].at) \/ KeyOf(g) = hook[f].at)
        BY <2>3, <3>4 DEF UsesLock, UsesClaim
      <4>2. hook[f].at \in Inv
        BY <2>2, <4>1 DEF Owned, Shaped, Holding, Claimed, Nested
      <4>3. LockName(hook[f].at) = <<"invocation", Slot[hook[f].at]>>
        BY <4>2 DEF LockName
      <4> QED BY <3>1, <3>2, <4>1, <4>2, <4>3, Parameters
    <3>5. lock[LockName(KeyOf(g))] \in Hook \/ claim[KeyOf(g)] \in Hook
      BY <2>2, <3>1, <3>2, <3>3 DEF Blocked, TypeOK
    <3> QED BY <2>2, <3>1, <3>2, <3>4, <3>5 DEF Owned
  <2>5. ASSUME NEW g \in Hook PROVE ~Holding(g)
    <3>1. Nested(g) => hook[g].pc # "idle"
      BY <2>2 DEF Owned, Shaped, Nested
    <3> QED BY <2>1, <2>4, <3>1 DEF Holding, Claimed, At
  <2>6. At(h, "lock") /\ Blocked(h)
    BY <2>1 DEF At
  <2>7. KeyOf(h) \in Key /\ LockName(KeyOf(h)) \in LockNames
    BY <2>2, <2>6, KeyOfHook DEF At, Owned
  <2>8. lock[LockName(KeyOf(h))] \in Hook \/ claim[KeyOf(h)] \in Hook
    BY <2>2, <2>6, <2>7 DEF Blocked, TypeOK
  <2> QED BY <2>2, <2>3, <2>5, <2>7, <2>8 DEF Owned, UsesLock, UsesClaim
<1> QED BY Invariance, <1>1, PTL

\* The claim of a running hook goes only when that hook gives it back
\* (decideCommitClaim steals from no live owner).
THEOREM OwnerKeeps == Spec => LiveOwnerKeepsClaim
<1> DEFINE Kept == \A k \in Key : claim[k] \in Hook /\ claim'[k] # claim[k] =>
                      hook[claim[k]].pc = "release" \/ hook'[claim[k]] = Idle
<1>1. IInv /\ [Next]_vars => Kept
  <2> SUFFICES ASSUME TypeOK, Owned, [Next]_vars PROVE Kept
    BY DEF IInv
  <2>1. CASE UNCHANGED claim
    BY <2>1
  <2>2. ASSUME NEW h \in Hook, Acquire(h) PROVE Kept
    <3>1. claim' = [claim EXCEPT ![KeyOf(h)] = h] /\ claim[KeyOf(h)] \notin Hook
      BY <2>2, Parameters DEF Acquire
    <3> QED BY <3>1 DEF TypeOK
  <2>3. ASSUME NEW h \in Hook, Release(h) PROVE Kept
    <3>1. /\ hook[h].pc = "release"
          /\ claim' = IF claim[KeyOf(h)] = h THEN [claim EXCEPT ![KeyOf(h)] = None] ELSE claim
      BY <2>3 DEF Release, At
    <3> QED BY <3>1 DEF TypeOK
  <2>4. ASSUME NEW h \in Hook, Crash(h) PROVE Kept
    <3>1. /\ hook'[h] = Idle
          /\ \A k \in Key : claim'[k] = IF claim[k] = h THEN Dead ELSE claim[k]
      BY <2>4, Ending DEF Crash
    <3> QED BY <3>1
  <2>5. ASSUME NEW h \in Hook, Step(h) PROVE Kept
    <3>1. Quiet(h) \/ Add(h) \/ GiveUp(h) => UNCHANGED claim
      BY QuietStep DEF Add, GiveUp, mutex
    <3> QED BY <2>1, <2>2, <2>3, <2>4, <2>5, <3>1, Splitting
  <2> QED BY <2>1, <2>5 DEF Next, HelperDies, OrphanEnds, GrowStale, vars, mutex
<1>2. Kept => [Kept]_vars
  OBVIOUS
<1> QED BY Invariance, <1>1, PTL DEF Spec, LiveOwnerKeepsClaim

\* What one step may do to a directory that is there: these are the writes of
\* the code, with what is known where they are made.
Writes(h) ==
    LET i == hook[h].at IN
    /\ i \in Inv
    /\ \A j \in Inv : j # i => dir'[j] = dir[j]
    /\ \/ dir[i] = None
       \/ dir'[i] = None /\ (dir[i].receipts = {} \/ i \in stale)
       \/ /\ dir'[i] # None /\ dir'[i].status = dir[i].status
          /\ \/ dir[i].receipts \subseteq dir'[i].receipts
             \/ /\ dir[i].receipts \ {hook[h].cur} \subseteq dir'[i].receipts
                /\ hook[h].cur \in MetadataOnly \/ notes[hook[h].cur] # {}
             \/ StatusIn(i, {"active"}) /\ ReceiptWindow <= Cardinality(dir'[i].receipts)
       \/ /\ dir'[i] # None /\ dir[i].receipts \subseteq dir'[i].receipts
          /\ \/ dir[i].status # "retired" /\ dir'[i].status \in {"completed", "acknowledged"}
             \/ dir'[i].status = "retired"

LEMMA Writings ==
  ASSUME IInv, NEW h \in Hook, Step(h)
  PROVE  UNCHANGED dir \/ Writes(h)
<1> DEFINE i == hook[h].at
<1>1. TypeOK /\ Owned /\ Shaped(h) /\ InPlace(h) /\ dir \in [Inv -> Directory \cup {None}]
  BY DEF IInv, Owned, Placed, TypeOK
<1>2. ASSUME NEW d, dir' = [dir EXCEPT ![i] = d], i \in Inv
      PROVE  dir'[i] = d /\ \A j \in Inv : j # i => dir'[j] = dir[j]
  BY <1>1, <1>2
<1>3. ASSUME i \in Inv, dir[i] # None, dir[i].files # "whole" \/ StatusIn(i, {"acknowledged", "retired"})
      PROVE  dir[i].receipts = {}
  BY <1>3 DEF IInv, Placed, Unpublished, FinishedIsEmpty, Pending
<1>4. CASE Evict(h)
  <2>1. i \in Inv
    BY <1>1, <1>4 DEF Evict, At, Shaped
  <2>2. CASE dir[i] # None /\ Evictable(i) /\ dir' = [dir EXCEPT ![i] = None]
    <3>1. dir[i].receipts = {} \/ i \in stale
      BY <1>1, <1>3, <2>1, <2>2 DEF Evictable, Readable, StatusIn, Directory, Files
    <3> QED BY <1>2, <2>1, <2>2, <3>1 DEF Writes
  <2> QED BY <1>4, <2>2 DEF Evict
<1>5. CASE EnrollOwn(h)
  <2>1. i \in Inv /\ i = hook[h].mine
    BY <1>1, <1>5 DEF EnrollOwn, In, Evicting, Shaped
  <2> QED BY <1>2, <1>5, <2>1 DEF EnrollOwn, Enrolled, Writes, store
<1>6. CASE Create(h) \/ CreateFails(h)
  <2>1. i \in Inv /\ i = hook[h].mine /\ dir[i] # None /\ dir[i].files \in {"enrollment", "state"}
    BY <1>1, <1>6 DEF Create, CreateFails, At, Shaped, InPlace
  <2>2. dir[i].receipts = {} /\ dir[i] \in Directory
    BY <1>1, <1>3, <2>1
  <2>3. CASE CreateFails(h)
    BY <1>2, <2>1, <2>2, <2>3 DEF CreateFails, Writes
  <2>4. CASE Create(h)
    <3>1. PICK f \in Files : dir' = [dir EXCEPT ![i] = [dir[i] EXCEPT !.files = f]]
      BY <2>1, <2>4 DEF Create, Files
    <3>2. dir'[i] = [dir[i] EXCEPT !.files = f] /\ \A j \in Inv : j # i => dir'[j] = dir[j]
      BY <1>2, <2>1, <3>1
    <3>3. dir'[i] # None
      <4>1. [dir[i] EXCEPT !.files = f] \in Directory
        BY <2>2, Writing
      <4> QED BY <3>2, <4>1, NoDirectory
    <3>4. dir'[i].status = dir[i].status /\ dir'[i].receipts = dir[i].receipts
      BY <2>2, <3>2 DEF Directory
    <3> QED BY <2>1, <3>2, <3>3, <3>4 DEF Writes
  <2> QED BY <1>6, <2>3, <2>4
<1>7. CASE Publish(h)
  <2>1. i \in Inv /\ dir[i] \in Directory
    BY <1>1, <1>7 DEF Publish, At, Shaped, StatusIn, Readable
  <2>2. PICK c \in hook[h].names :
          \/ UNCHANGED dir
          \/ dir' = [dir EXCEPT ![i].receipts = @ \cup {c}]
    BY <1>7 DEF Publish
  <2> DEFINE d == [dir[i] EXCEPT !.receipts = @ \cup {c}]
  <2>3. CASE UNCHANGED dir
    BY <2>3
  <2>4. CASE dir' = [dir EXCEPT ![i] = d]
    <3>1. dir'[i] = d /\ \A j \in Inv : j # i => dir'[j] = dir[j]
      BY <1>2, <2>1, <2>4
    <3>2. c \in Commit
      BY <1>1 DEF TypeOK, Process
    <3>3. d \in Directory
      BY <2>1, <3>2, Writing
    <3>4. d.status = dir[i].status /\ dir[i].receipts \subseteq d.receipts
      BY <2>1 DEF Directory
    <3> HIDE DEF d
    <3> QED BY <2>1, <3>1, <3>3, <3>4, NoDirectory DEF Writes
  <2> QED BY <2>2, <2>3, <2>4
<1>13. CASE DropOldest(h)
  <2> DEFINE s == hook[h].listed
             d == [dir[i] EXCEPT !.receipts = @ \ Dropped(s)]
  <2>1. /\ hook[h].pc = "window" /\ i \in Inv /\ dir[i] \in Directory /\ dir[i] # None
        /\ StatusIn(i, {"active"}) /\ dir[i].status = "active"
    BY <1>1, <1>13 DEF DropOldest, At, Shaped, InPlace, StatusIn, Readable
  <2>2. dir' = [dir EXCEPT ![i] = d]
    BY <1>13 DEF DropOldest
  <2>3. dir'[i] = d /\ \A j \in Inv : j # i => dir'[j] = dir[j]
    BY <1>2, <2>1, <2>2
  <2>4. d \in Directory /\ d.status = dir[i].status /\ d.receipts = dir[i].receipts \ Dropped(s)
    BY <2>1, Writing DEF Directory
  <2>5. /\ s \in Seq(Commit) /\ dir[i].receipts \in SUBSET Commit /\ IsFiniteSet(dir[i].receipts)
        /\ Len(s) <= ReceiptWindow + 1 /\ Len(s) <= Cardinality(dir[i].receipts)
    BY <1>1, <2>1 DEF IInv, TypeOK, Process, Directory, Counted, Measured, Windowed
  <2>6. \/ dir[i].receipts \subseteq d.receipts
        \/ ReceiptWindow <= Cardinality(d.receipts)
    <3>1. Len(s) <= ReceiptWindow \/ Len(s) > ReceiptWindow
      BY <2>5, Parameters
    <3>2. /\ Len(s) <= ReceiptWindow => dir[i].receipts \ Dropped(s) = dir[i].receipts
          /\ Len(s) > ReceiptWindow => ReceiptWindow <= Cardinality(dir[i].receipts \ Dropped(s))
      BY <2>5, Dropping
    <3> HIDE DEF d
    <3> QED BY <2>4, <3>1, <3>2
  <2> HIDE DEF d
  <2> QED BY <2>1, <2>3, <2>4, <2>6, NoDirectory DEF Writes
<1>14. CASE SaveList(h)
  <2> DEFINE d == [dir[i] EXCEPT !.nonces = Newest(hook[h].listed)]
  <2>1. i \in Inv /\ dir[i] \in Directory
    BY <1>1, <1>14 DEF SaveList, At, Shaped, Readable
  <2>2. dir' = [dir EXCEPT ![i] = d]
    BY <1>14 DEF SaveList
  <2>3. dir'[i] = d /\ \A j \in Inv : j # i => dir'[j] = dir[j]
    BY <1>2, <2>1, <2>2
  <2>4. d.status = dir[i].status /\ d.receipts = dir[i].receipts
    BY <2>1 DEF Directory
  <2>5. d \in Directory
    <3>1. Newest(hook[h].listed) \in Seq(Commit)
      BY <1>1, NewestList DEF TypeOK, Process
    <3> QED BY <2>1, <3>1, Writing
  <2> HIDE DEF d
  <2> QED BY <2>1, <2>3, <2>4, <2>5, NoDirectory DEF Writes
<1>8. CASE Complete(h) \/ DrainEnds(h) \/ Retire(h)
  <2>1. /\ i \in Inv /\ dir[i] \in Directory
        /\ StatusIn(i, {"active", "completed", "acknowledged"})
    BY <1>1, <1>8 DEF Complete, DrainEnds, Retire, At, Shaped, InPlace, StatusIn, Readable
  <2>2. PICK s \in {"completed", "acknowledged", "retired"} :
          dir' = [dir EXCEPT ![i].status = s, ![i].nonces = <<>>]
    BY <1>8 DEF Complete, DrainEnds, Retire, SetStatus
  <2> DEFINE d == [dir[i] EXCEPT !.status = s, !.nonces = <<>>]
  <2>3. dir'[i] = d /\ \A j \in Inv : j # i => dir'[j] = dir[j]
    BY <1>1, <2>1, <2>2
  <2>4. d \in Directory
    BY <2>1, EmptyList, Writing DEF Status
  <2>5. d.status = s /\ d.receipts = dir[i].receipts /\ dir[i].status # "retired"
    BY <2>1 DEF Directory, StatusIn
  <2> HIDE DEF d
  <2> QED BY <2>1, <2>3, <2>4, <2>5, NoDirectory DEF Writes
<1>9. CASE Acknowledge(h)
  <2>1. i \in Inv /\ (hook[h].cur \in MetadataOnly \/ notes[hook[h].cur] # {})
    BY <1>1, <1>9 DEF Acknowledge, At, Shaped, IInv, Noted
  <2>2. CASE dir[i] # None /\ dir' = [dir EXCEPT ![i] = [dir[i] EXCEPT !.receipts = @ \ {hook[h].cur}]]
    <3>1. dir[i] \in Directory
      BY <1>1, <2>1, <2>2
    <3>2. /\ dir'[i] = [dir[i] EXCEPT !.receipts = @ \ {hook[h].cur}]
          /\ \A j \in Inv : j # i => dir'[j] = dir[j]
      BY <1>2, <2>1, <2>2
    <3>3. dir'[i] # None
      <4>1. [dir[i] EXCEPT !.receipts = @ \ {hook[h].cur}] \in Directory
        BY <3>1, Writing
      <4> QED BY <3>2, <4>1, NoDirectory
    <3>4. dir'[i].status = dir[i].status /\ dir'[i].receipts = dir[i].receipts \ {hook[h].cur}
      BY <3>1, <3>2 DEF Directory
    <3> QED BY <2>1, <3>2, <3>3, <3>4 DEF Writes
  <2> QED BY <1>9, <2>2 DEF Acknowledge
<1>10. CASE CleanupReads(h)
  <2>1. i \in Inv
    BY <1>1, <1>10 DEF CleanupReads, In, Shaped
  <2>2. CASE i \in stale /\ dir' = [dir EXCEPT ![i] = None]
    BY <1>2, <2>1, <2>2 DEF Writes
  <2> QED BY <1>10, <2>2 DEF CleanupReads
<1>11. CASE Crash(h)
  <2> DEFINE d == [dir[i] EXCEPT !.leftover = @ + 1]
  <2>1. CASE UNCHANGED dir
    BY <2>1
  <2>2. CASE /\ hook[h].pc \in {"observe", "window"}
             /\ StatusIn(i, {"active"}) /\ dir' = [dir EXCEPT ![i] = d]
    <3>1. i \in Inv /\ dir[i] \in Directory
      BY <1>1, <2>2 DEF Shaped, StatusIn, Readable
    <3>2. dir'[i] = d /\ \A j \in Inv : j # i => dir'[j] = dir[j]
      BY <1>2, <2>2, <3>1
    <3>3. d.status = dir[i].status /\ d.receipts = dir[i].receipts
      BY <3>1 DEF Directory
    <3>4. d \in Directory
      BY <3>1, Writing
    <3> HIDE DEF d
    <3> QED BY <3>1, <3>2, <3>3, <3>4, NoDirectory DEF Writes
  <2> QED BY <1>11, <2>1, <2>2 DEF Crash, At
<1>12. CASE UNCHANGED dir
  BY <1>12
<1> QED BY <1>4, <1>5, <1>6, <1>7, <1>8, <1>9, <1>10, <1>11, <1>12, <1>13, <1>14
     DEF Step, Enroll, Terminal, Cleanup, Acquire, GiveUp, Release, NextVictim, EvictionEnds,
         TerminalReads, DrainNext, InspectFails, List, Add, NotesFail, CleanupNext, CleanupEnds, store

\* No receipt is lost before its commit is noted, needs no note, or the work it
\* belongs to is abandoned (drainDirectory, evictInvocations, cleanup), but for
\* those of a running invocation that fall out of its window, which is full
\* without them (publishReceipt).
THEOREM EvidenceStays == Spec => EvidenceKept
<1> DEFINE Kept == \A i \in Live : \A c \in dir[i].receipts :
                      \/ dir'[i] # None /\ c \in dir'[i].receipts
                      \/ dir'[i] # None /\ (c \in MetadataOnly \/ notes[c] # {})
                      \/ /\ dir'[i] # None /\ StatusIn(i, {"active"})
                         /\ Cardinality(dir'[i].receipts) >= ReceiptWindow
                      \/ dir'[i] = None /\ i \in stale
<1>1. IInv /\ [Next]_vars => Kept
  <2> SUFFICES ASSUME IInv, [Next]_vars PROVE Kept
    OBVIOUS
  <2>1. CASE UNCHANGED dir
    BY <2>1 DEF Live, Enrolled
  <2>2. ASSUME NEW h \in Hook, Writes(h) PROVE Kept
    BY <2>2 DEF Writes, Live, Enrolled
  <2> QED BY <2>1, <2>2, Writings DEF Next, HelperDies, OrphanEnds, GrowStale, vars, store
<1>2. Kept => [Kept]_vars
  OBVIOUS
<1> QED BY Invariance, <1>1, PTL DEF Spec, EvidenceKept

\* A retired invocation stays retired while its directory is there, and none
\* becomes active again (terminalCommitInvocation, drainDirectory).
THEOREM StaysClosed == Spec => NeverReopens
<1> DEFINE Closed == \A i \in Inv : Readable(i) /\ Readable(i)' =>
                        /\ dir[i].status = "retired" => dir'[i].status = "retired"
                        /\ dir[i].status # "active" => dir'[i].status # "active"
<1>1. IInv /\ [Next]_vars => Closed
  <2> SUFFICES ASSUME IInv, [Next]_vars PROVE Closed
    OBVIOUS
  <2>1. CASE UNCHANGED dir
    BY <2>1
  <2>2. ASSUME NEW h \in Hook, Writes(h) PROVE Closed
    BY <2>2 DEF Writes, Readable
  <2> QED BY <2>1, <2>2, Writings DEF Next, HelperDies, OrphanEnds, GrowStale, vars, store
<1>2. Closed => [Closed]_vars
  OBVIOUS
<1> QED BY Invariance, <1>1, PTL DEF Spec, NeverReopens
=============================================================================
