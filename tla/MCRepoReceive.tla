---------------------------- MODULE MCRepoReceive ----------------------------
(* TLC instances of RepoReceive. *)
EXTENDS RepoReceive
==============================================================================
