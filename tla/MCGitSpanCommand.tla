-------------------------- MODULE MCGitSpanCommand --------------------------
(* Small instances of GitSpanCommand for TLC.                              *)
EXTENDS GitSpanCommand
=============================================================================
