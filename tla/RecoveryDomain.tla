--------------------------- MODULE RecoveryDomain ---------------------------
(***************************************************************************)
(* The repository-wide advisory lock `<git-dir>/span/recovery-domain.lock` *)
(* of git-span (packages/git-span/src/cli/recovery_domain.rs).  Every      *)
(* command that reads spans holds it shared, every command that changes    *)
(* spans holds it exclusive, and a process that dies gives it back because *)
(* flock locks belong to the open descriptor.                              *)
(*                                                                         *)
(* `lock` is what flock records: the mode each process holds.  A process   *)
(* here is one git-span invocation (or one request of the resident         *)
(* service) with its own open descriptor on the lock file.                 *)
(***************************************************************************)

CONSTANT Proc

VARIABLE lock

\* recovery_domain::Mode, with "none" for a process that holds no guard.
Mode == {"none", "shared", "exclusive"}

\* What flock grants: an exclusive lock excludes every other holder, a shared
\* lock only an exclusive one.
Compatible(p, mode) ==
    \A q \in Proc \ {p} :
        IF mode = "shared" THEN lock[q] # "exclusive" ELSE lock[q] = "none"

\* try_acquire: one poll of `acquire`, which retries it until its deadline.
TryAcquire(p, mode) ==
    /\ Compatible(p, mode)
    /\ lock' = [lock EXCEPT ![p] = mode]

\* Dropping a Guard, returning an error past it, or dying while holding it.
Release(p) == lock' = [lock EXCEPT ![p] = "none"]

\* lock_shared() on the descriptor that holds the exclusive lock, when the
\* conversion is one step.  flock(2) does not promise that: it may remove the
\* old lock before it establishes the new one (Release, then TryAcquire).
Downgrade(p) ==
    /\ lock[p] = "exclusive"
    /\ lock' = [lock EXCEPT ![p] = "shared"]

LockInit == lock = [p \in Proc |-> "none"]

LockTypeOK == lock \in [Proc -> Mode]

\* What flock guarantees its users, who cannot break it: the proofs about them
\* start from it.
DomainExclusion ==
    \A p, q \in Proc : p # q /\ lock[p] = "exclusive" => lock[q] = "none"

=============================================================================
