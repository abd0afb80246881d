-------------------------- MODULE MCRepoLifecycle --------------------------
(* RepoLifecycle over the mixes of jobs that contend for something. *)
EXTENDS RepoLifecycle, TLC, Sequences

CONSTANTS j1, j2, j3

Mix(a, b, c) == (j1 :> a) @@ (j2 :> b) @@ (j3 :> c)

\* A step may fail in these.
MCFaulty == {
    Mix("push", "delete", "delete"),
    Mix("push", "compact", "delete"),
    Mix("push", "snapshot", "delete"),
    Mix("read", "read", "delete"),
    Mix("sync", "sync", "delete")}

MCMixes == MCFaulty \cup {
    Mix("push", "backfill", "delete"),
    Mix("push", "read", "delete"),
    Mix("push", "push", "delete")}
====
