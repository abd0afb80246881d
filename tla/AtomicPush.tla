----------------------------- MODULE AtomicPush -----------------------------
(***************************************************************************)
(* What a push promises, whatever crashes in between: its ref commands are *)
(* published together, at one instant, against exactly the old values they *)
(* name, at most once; and what the client is told is what happened.  A    *)
(* push reported as committed is published; a push reported as refused is  *)
(* never published afterwards.  A third report is unclear: it promises     *)
(* neither, and the push may still be published after it.                  *)
(***************************************************************************)
CONSTANTS Ref, Push, None

VARIABLES
  refs,     \* refs[r]: the oid, None when the ref does not exist
  asked,    \* asked[p]: the ref commands of push p
  landed,   \* pushes whose commands were published
  told      \* told[p]: "nothing", "committed", "refused" or "unclear"

avars == <<refs, asked, landed, told>>

AnyCommands ==
  UNION {[D -> [old : Push \cup {None}, new : Push \cup {None}]] : D \in SUBSET Ref}

Holds(c) ==
  \A r \in DOMAIN c : refs[r] = c[r].old /\ (c[r].new = None => refs[r] # None)

Published(c) == [r \in Ref |-> IF r \in DOMAIN c THEN c[r].new ELSE refs[r]]

AInit ==
  /\ refs = [r \in Ref |-> None]
  /\ asked = [p \in Push |-> [r \in {} |-> [old |-> None, new |-> None]]]
  /\ landed = {}
  /\ told = [p \in Push |-> "nothing"]

Ask(p) ==
  /\ p \notin landed
  /\ told[p] = "nothing"
  /\ \E c \in AnyCommands : asked' = [asked EXCEPT ![p] = c]
  /\ UNCHANGED <<refs, landed, told>>

Land(p) ==
  /\ p \notin landed
  /\ told[p] \in {"nothing", "unclear"}
  /\ Holds(asked[p])
  /\ refs' = Published(asked[p])
  /\ landed' = landed \cup {p}
  /\ UNCHANGED <<asked, told>>

Tell(p) ==
  /\ told[p] = "nothing"
  /\ \E answer \in {"unclear", IF p \in landed THEN "committed" ELSE "refused"} :
       told' = [told EXCEPT ![p] = answer]
  /\ UNCHANGED <<refs, asked, landed>>

\* An administrator replaces the refs.
Overwrite ==
  /\ refs' \in [Ref -> Push \cup {None}]
  /\ UNCHANGED <<asked, landed, told>>

ANext == (\E p \in Push : Ask(p) \/ Land(p) \/ Tell(p)) \/ Overwrite

ASpec == AInit /\ [][ANext]_avars
=============================================================================
