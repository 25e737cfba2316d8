-------------------------- MODULE MCContextService --------------------------
(***************************************************************************)
(* Instances of ContextService.  Clients are interchangeable: runs without *)
(* liveness properties use their symmetry.                                 *)
(***************************************************************************)
EXTENDS ContextService, TLC

Interchangeable == Permutations(Proc)

NothingBlind == {}
AllBlind     == {"config", "ancestor"}

=============================================================================
