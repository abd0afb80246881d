------------------------- MODULE NativeReceiveProofs -------------------------
(***************************************************************************)
(* NativeReceive, for any operations, attempts and faults: executions are  *)
(* fenced, and what an operation's record says of the refs and of its      *)
(* outputs is true.                                                        *)
(***************************************************************************)
EXTENDS NativeReceive, FiniteSetTheorems, SequenceTheorems, TLAPS

------------------------------------------------------------------------------
(* The inductive invariant.                                                  *)

States == {"absent", "staged", "processing", "ready", "finalizing"} \cup Terminal

Records == [state : States, claim : {0} \cup Claims, live : BOOLEAN, attempts : Int,
            cleanup : BOOLEAN, result : Nat, fresh : BOOLEAN]

Execs == [gen : Nat, op : Op \cup {None}, claim : {0} \cup Claims,
          state : {"none", "active", "completed", "revoked"},
          stop : BOOLEAN, drain : BOOLEAN, expired : BOOLEAN]

\* A run before it has a claim, and one that is to have an execution.
Early == {"entered", "wait", "claim"}

Trying == {"read", "begin", "start", "ready", "await", "caught", "fail", "store"}

Ending == {"finalize", "commit", "conflict"}

\* It has, or has had, an execution of its own.
Executing == {"start", "ready", "await", "store"}

Runs == [pc : {"idle", "stop", "clean", "erase"} \cup Early \cup Trying \cup Ending,
         op : Op \cup {None}, claim : {0} \cup Claims, attempts : Int, gen : Nat,
         then : {"", "wait", "caught", "superseded"}, beat : BOOLEAN]

Jobs == [gen : Nat, op : Op \cup {None}, wrote : SUBSET Half]

Puts == [gen : Nat, op : Op, half : Half]

Leases == [op : Op \cup {None, Other}, live : BOOLEAN]

Readers == [op : Op \cup {None}, live : BOOLEAN]

Slots == [gen : Nat, state : {"none", "active", "completed", "revoked"}]

Clients == {"idle", "leased", "dispatching", "accepted", "refused"}

StorageTypes ==
  /\ op \in [Op -> Records] /\ issued \in Nat /\ exec \in Execs
  /\ lease \in Leases /\ reader \in Readers
  /\ floor \in BOOLEAN /\ deleting \in {"no", "deleting", "stopped"}

OtherTypes ==
  /\ slot \in Slots /\ revoked \in Nat /\ run \in [Runner -> Runs]
  /\ box \in Jobs /\ puts \subseteq Puts
  /\ stored \in [Op -> [Half -> Nat]] /\ landed \in [Op -> Nat]
  /\ queued \subseteq Op /\ client \in [Op -> Clients]

\* The index lists the operations that have a record, each one once.
IndexOK ==
  /\ index \in Seq(Op)
  /\ \A i, j \in 1..Len(index) : index[i] = index[j] => i = j
  /\ \A o \in Op : op[o].state # "absent" <=> \E i \in 1..Len(index) : index[i] = o

\* Nobody knows of an operation before its record is written.
KnownOK ==
  \A o \in Op : client[o] \in {"idle", "leased"} =>
    /\ op[o].state = "absent" /\ o \notin queued /\ reader.op # o
    /\ \A r \in Runner : run[r].op # o

RecordsOK ==
  \A o \in Op :
    /\ op[o].state \notin {"processing", "finalizing"} => op[o].claim = 0
    /\ op[o].cleanup => op[o].state \in Terminal
    /\ op[o].state \in {"ready", "finalizing", "committed"} => op[o].result \in 1..issued

ExecOK ==
  /\ exec.gen <= issued /\ slot.gen <= issued /\ revoked <= issued
  /\ exec.gen = 0 <=> exec.state = "none"
  /\ exec.state # "none" => exec.op \in Op
  /\ exec.stop \/ exec.drain => exec.state = "revoked"

\* A write under way is one of the last execution, which has not drained.
PutsOK ==
  \A p \in puts : /\ p.gen = exec.gen /\ p.op = exec.op
                  /\ exec.state = "active" \/ exec.drain

\* The job in the container is the one of the last execution, whose stop, if it
\* was revoked, is still to come, and the slot knows it.
BoxOK ==
  /\ box.gen # 0 =>
       /\ box.gen = exec.gen /\ box.op = exec.op
       /\ exec.state = "active" \/ exec.stop
       /\ slot.gen = box.gen /\ slot.state \in {"active", "revoked"}
  /\ deleting = "stopped" => box.gen = 0

\* What the job has written is stored or on its way.
WroteOK ==
  box.gen # 0 /\ op[box.op].state \notin Terminal =>
    \A f \in box.wrote : \/ stored[box.op][f] = box.gen
                         \/ \E p \in puts : p.half = f

\* Where a run is, and what its claim is worth.
PlaceOK(r) ==
  /\ run[r].pc = "idle" <=> run[r] = NoRun
  /\ run[r].pc # "idle" => run[r].op \in Op
  /\ run[r].pc = "stop" => run[r].then \in {"wait", "caught"}
  /\ run[r].pc \in Early => run[r].claim = 0
  /\ run[r].pc = "stop" /\ run[r].then = "wait" => run[r].claim = 0
  /\ run[r].pc \in Trying \/ (run[r].pc = "stop" /\ run[r].then = "caught") =>
       run[r].claim # 0 /\ (Holds(r) => op[run[r].op].state = "processing")
  /\ run[r].pc \in Ending =>
       /\ run[r].claim # 0 /\ (Holds(r) => op[run[r].op].state = "finalizing")
       /\ op[run[r].op].state \in {"finalizing", "committed", "aborted"}
  /\ run[r].pc \in {"clean", "erase"} => op[run[r].op].state \in Terminal

PlacesOK ==
  /\ \A r \in Runner : PlaceOK(r)
  /\ \A r, s \in Runner : run[r].claim = run[s].claim /\ run[r].claim # 0 => r = s

\* Generations of executions are not shared, and one whose job was not posted
\* has written nothing.
GensOK ==
  \A r \in Runner :
    /\ run[r].gen <= issued /\ (run[r].pc \in Executing => run[r].gen # 0)
    /\ run[r].pc \in Executing /\ exec.gen = run[r].gen => exec.op = run[r].op
    /\ run[r].pc \in {"start", "ready"} =>
         box.gen # run[r].gen /\ \A p \in puts : p.gen # run[r].gen
    /\ \A s \in Runner :
         run[r].pc \in Executing /\ run[s].pc \in Executing /\ run[r].gen = run[s].gen => r = s

\* No execution of an operation can write any more.
Quiet(o) == exec.op = o => exec.state \notin {"active", "revoked"}

\* A run that is about to record its result has both outputs in R2.
StoreOK ==
  \A r \in Runner :
    run[r].pc = "store" /\ Holds(r) =>
      Quiet(run[r].op) /\ \A f \in Half : stored[run[r].op][f] = run[r].gen

IntactOK ==
  \A o \in Op :
    op[o].state \in {"ready", "finalizing", "committed"} =>
      Quiet(o) /\ (o \notin outrun => \A f \in Half : stored[o][f] = op[o].result)

\* Who landed, and who can still.
LandedOK ==
  /\ \A o \in Op :
       /\ landed[o] # 0 =>
            landed[o] = op[o].result /\ op[o].state \in {"finalizing", "committed", "aborted"}
       /\ op[o].state = "committed" => landed[o] # 0
       /\ op[o].state = "aborted" /\ deleting = "no" =>
            lease.op # o /\ (landed[o] = 0 \/ o \in robbed)
  /\ \A r \in Runner :
       /\ run[r].pc \in {"commit", "clean"} => landed[run[r].op] # 0
       /\ run[r].pc = "conflict" /\ Holds(r) /\ deleting = "no" =>
            lease.op # run[r].op /\ (landed[run[r].op] = 0 \/ run[r].op \in robbed)

\* A live reader lease keeps the catalog of its operation.
ReaderOK == reader.live => reader.op \in Op /\ ~Superseded(reader.op)

NativeInv ==
  /\ StorageTypes /\ OtherTypes
  /\ IndexOK /\ KnownOK /\ RecordsOK /\ ExecOK /\ PutsOK /\ BoxOK /\ WroteOK
  /\ PlacesOK /\ GensOK /\ StoreOK /\ IntactOK /\ LandedOK /\ CleanedUp /\ ReaderOK

------------------------------------------------------------------------------
(* Fields                                                                    *)

\* Zero is no claim.
LEMMA NoClaim == 0 \notin Claims
BY NativeAssumption, FS_CardinalityType DEF Claims

\* What is not there.
LEMMA Nothings ==
  /\ NoRun \in Runs /\ NoRun.pc = "idle" /\ NoRun.op = None /\ NoRun.claim = 0
  /\ NoRun.gen = 0
  /\ NoJob \in Jobs /\ NoJob.gen = 0 /\ NoJob.wrote = {}
  /\ Nobody \in Leases /\ Nobody \in Readers /\ Nobody.op = None /\ ~Nobody.live
<1>1. NoRun \in Runs /\ NoRun.pc = "idle" /\ NoRun.op = None /\ NoRun.claim = 0 /\ NoRun.gen = 0
  BY DEF NoRun, Runs
<1>2. NoJob \in Jobs /\ NoJob.gen = 0 /\ NoJob.wrote = {}
  BY DEF NoJob, Jobs
<1>3. Nobody \in Leases /\ Nobody \in Readers /\ Nobody.op = None
  BY DEF Nobody, Leases, Readers
<1>4. Nobody.live = FALSE
  BY Zenon DEF Nobody
<1> QED BY <1>1, <1>2, <1>3, <1>4

\* A record that is not there.
LEMMA AbsentOK ==
  /\ Absent \in Records /\ Absent.state = "absent" /\ Absent.claim = 0 /\ Absent.cleanup = FALSE
<1> DEFINE s == Staged(FALSE)
<1>1. s \in Records /\ s.claim = 0
  BY DEF Staged, Records, States
<1>2. s.cleanup = FALSE
  BY Zenon DEF Staged
<1>3. Absent = [s EXCEPT !.state = "absent"]
  BY DEF Absent
<1> HIDE DEF s
<1> QED BY <1>1, <1>2, <1>3 DEF Records, States

\* A run goes on to another place.
LEMMA GotoEffects ==
  ASSUME run \in [Runner -> Runs], NEW r \in Runner,
         NEW pc \in {"idle", "stop", "clean", "erase"} \cup Early \cup Trying \cup Ending, Goto(r, pc)
  PROVE  /\ run' \in [Runner -> Runs] /\ \A s \in Runner : s # r => run'[s] = run[s]
         /\ run'[r].pc = pc /\ run'[r].op = run[r].op /\ run'[r].claim = run[r].claim
         /\ run'[r].gen = run[r].gen /\ run'[r].then = run[r].then
<1>1. run[r] \in Runs
  OBVIOUS
<1>2. [run[r] EXCEPT !.pc = pc] \in Runs
  BY <1>1 DEF Runs
<1> QED BY <1>1, <1>2 DEF Goto, Runs

\* A run ends.
LEMMA ReturnEffects ==
  ASSUME run \in [Runner -> Runs], NEW r \in Runner, Return(r)
  PROVE  /\ run' \in [Runner -> Runs] /\ \A s \in Runner : s # r => run'[s] = run[s]
         /\ run'[r] = NoRun
BY Nothings DEF Return

\* A run begins.
LEMMA EnterEffects ==
  ASSUME run \in [Runner -> Runs], NEW r \in Runner, NEW o \in Op,
         NEW pc \in {"entered", "clean", "erase"},
         run' = [run EXCEPT ![r] = [NoRun EXCEPT !.pc = pc, !.op = o]]
  PROVE  /\ run' \in [Runner -> Runs] /\ \A s \in Runner : s # r => run'[s] = run[s]
         /\ run'[r].pc = pc /\ run'[r].op = o /\ run'[r].claim = 0 /\ run'[r].gen = 0
<1>0. NoRun \in Runs /\ pc \in {"clean", "erase"} \cup Early
  BY Nothings DEF Early
<1>1. [NoRun EXCEPT !.pc = pc, !.op = o] \in Runs
  BY <1>0 DEF Runs
<1>2. run'[r] = [NoRun EXCEPT !.pc = pc, !.op = o]
  OBVIOUS
<1>3. run'[r].pc = pc /\ run'[r].op = o /\ run'[r].claim = 0 /\ run'[r].gen = 0
  BY <1>2 DEF NoRun
<1> QED BY <1>1, <1>2, <1>3

\* An execution that is revoked.
LEMMA RevokedEffects ==
  ASSUME exec \in Execs, NEW g
  PROVE  /\ Revoked(g) \in Execs /\ Revoked(g).gen = exec.gen /\ Revoked(g).op = exec.op
         /\ exec.gen = g /\ exec.state = "active" =>
              Revoked(g).state = "revoked" /\ Revoked(g).stop /\ Revoked(g).drain
         /\ ~(exec.gen = g /\ exec.state = "active") => Revoked(g) = exec
BY DEF Revoked, Execs

\* A stop that is acknowledged.
LEMMA AcknowledgedEffects ==
  ASSUME exec \in Execs, NEW g
  PROVE  /\ Acknowledged(g) \in Execs /\ Acknowledged(g).gen = exec.gen
         /\ Acknowledged(g).op = exec.op /\ Acknowledged(g).state = exec.state
         /\ (Acknowledged(g).drain <=> exec.drain)
         /\ exec.gen = g /\ exec.state = "revoked" => ~Acknowledged(g).stop
         /\ ~(exec.gen = g /\ exec.state = "revoked") => Acknowledged(g) = exec
BY DEF Acknowledged, Execs

\* An execution that its run cancels.
LEMMA CancelEffects ==
  ASSUME run \in [Runner -> Runs], exec \in Execs, NEW r \in Runner, Cancel(r)
  PROVE  /\ run' \in [Runner -> Runs] /\ \A s \in Runner : s # r => run'[s] = run[s]
         /\ run'[r].pc = "stop" /\ run'[r].op = run[r].op /\ run'[r].claim = run[r].claim
         /\ run'[r].gen = run[r].gen /\ run'[r].then = "caught"
         /\ exec' \in Execs /\ exec'.gen = exec.gen /\ exec'.op = exec.op
         /\ exec' = exec \/ (/\ exec.gen = run[r].gen /\ exec.state = "active"
                             /\ exec'.state = "revoked" /\ exec'.stop /\ exec'.drain)
<1>1. run' = [run EXCEPT ![r] = [run[r] EXCEPT !.pc = "stop", !.then = "caught"]]
  BY DEF Cancel
<1>2. run[r] \in Runs
  OBVIOUS
<1>3. /\ run' \in [Runner -> Runs] /\ \A s \in Runner : s # r => run'[s] = run[s]
      /\ run'[r].pc = "stop" /\ run'[r].op = run[r].op /\ run'[r].claim = run[r].claim
      /\ run'[r].gen = run[r].gen /\ run'[r].then = "caught"
  BY <1>1, <1>2 DEF Runs
<1>4. exec' = Revoked(run[r].gen)
  BY DEF Cancel
<1> QED BY <1>3, <1>4, RevokedEffects

\* A slot whose job is done.
LEMMA SlotDoneEffects ==
  ASSUME slot \in Slots, NEW g
  PROVE  /\ SlotDone(g) \in Slots /\ SlotDone(g).gen = slot.gen
         /\ SlotDone(g) = slot \/ slot.gen = g
BY DEF SlotDone, Slots

\* The host's answer to a stop.
LEMMA StoppedEffects ==
  ASSUME slot \in Slots, revoked \in Nat, box \in Jobs, NEW g \in Nat, Stopped(g)
  PROVE  /\ slot' \in Slots /\ revoked' \in Nat /\ slot'.gen = slot.gen
         /\ revoked' \in {revoked, g}
         /\ slot.gen = g => slot'.state = "revoked"
         /\ slot.gen # g => slot' = slot
         /\ Destroyed(g) \in Jobs
         /\ slot.gen = g => Destroyed(g) = NoJob
         /\ slot.gen # g => Destroyed(g) = box
BY Nothings DEF Stopped, Destroyed, Slots

\* A record that is given up.
LEMMA UnclaimedEffects ==
  ASSUME op \in [Op -> Records], NEW o \in Op, NEW s \in States
  PROVE  /\ Unclaimed(o, s) \in Records /\ Unclaimed(o, s).state = s /\ Unclaimed(o, s).claim = 0
         /\ Unclaimed(o, s).result = op[o].result
         /\ (Unclaimed(o, s).cleanup <=> op[o].cleanup)
         /\ (Unclaimed(o, s).fresh <=> op[o].fresh)
<1>1. op[o] \in Records
  OBVIOUS
<1> QED BY <1>1 DEF Unclaimed, Records

\* A record that ends.
LEMMA EndedEffects ==
  ASSUME op \in [Op -> Records], NEW o \in Op, NEW s \in States
  PROVE  /\ Ended(o, s) \in Records /\ Ended(o, s).state = s /\ Ended(o, s).claim = 0
         /\ Ended(o, s).result = op[o].result /\ Ended(o, s).cleanup
         /\ (Ended(o, s).fresh <=> op[o].fresh)
<1> DEFINE u == Unclaimed(o, s)  e == [u EXCEPT !.cleanup = TRUE]
<1>1. /\ u \in Records /\ u.state = s /\ u.claim = 0 /\ u.result = op[o].result
      /\ (u.fresh <=> op[o].fresh)
  BY UnclaimedEffects
<1> HIDE DEF u
<1>2. /\ e \in Records /\ e.state = u.state /\ e.claim = u.claim /\ e.result = u.result
      /\ e.fresh = u.fresh /\ e.cleanup = TRUE
  BY <1>1 DEF Records
<1>3. Ended(o, s) = e
  BY DEF Ended, u
<1> HIDE DEF e
<1> QED BY <1>1, <1>2, <1>3

\* There is a claim that nobody holds.
LEMMA FreshClaimOK ==
  ASSUME op \in [Op -> Records], run \in [Runner -> Runs]
  PROVE  /\ FreshClaim \in Claims /\ FreshClaim # 0
         /\ \A o \in Op : op[o].claim # FreshClaim
         /\ \A r \in Runner : run[r].claim # FreshClaim
<1> DEFINE A == {op[o].claim : o \in Op}
           B == {run["queue"].claim}
           C == {run["alarm"].claim}
           D == {exec.claim}
           U == ((A \cup B) \cup C) \cup D
<1>0. {run[r].claim : r \in Runner} = B \cup C
  BY DEF Runner
<1>1. IsFiniteSet(A) /\ Cardinality(A) <= Cardinality(Op)
  <2> DEFINE c == [o \in Op |-> op[o].claim]
  <2>1. c \in Surjection(Op, A)
    BY DEF Surjection
  <2> QED BY <2>1, NativeAssumption, FS_Surjection
<1>2. /\ IsFiniteSet(B) /\ Cardinality(B) = 1 /\ IsFiniteSet(C) /\ Cardinality(C) = 1
      /\ IsFiniteSet(D) /\ Cardinality(D) = 1
  BY FS_Singleton
<1>3. Cardinality(Op) \in Nat /\ Cardinality(A) \in Nat
  BY <1>1, NativeAssumption, FS_CardinalityType
<1> HIDE DEF A, B, C, D
<1>4. IsFiniteSet(A \cup B) /\ Cardinality(A \cup B) \in Nat
      /\ Cardinality(A \cup B) <= Cardinality(Op) + 1
  <2>1. IsFiniteSet(A \cup B) /\ Cardinality(A \cup B) = Cardinality(A) + Cardinality(B) - Cardinality(A \cap B)
    BY <1>1, <1>2, FS_Union
  <2>2. Cardinality(A \cap B) \in Nat
    BY <1>1, FS_Intersection, FS_CardinalityType
  <2>3. Cardinality(A \cup B) \in Nat
    BY <2>1, FS_CardinalityType
  <2> QED BY <1>1, <1>2, <1>3, <2>1, <2>2, <2>3
<1>5. IsFiniteSet((A \cup B) \cup C) /\ Cardinality((A \cup B) \cup C) \in Nat
      /\ Cardinality((A \cup B) \cup C) <= Cardinality(Op) + 2
  <2>1. IsFiniteSet((A \cup B) \cup C) /\ Cardinality((A \cup B) \cup C)
          = Cardinality(A \cup B) + Cardinality(C) - Cardinality((A \cup B) \cap C)
    BY <1>4, <1>2, FS_Union
  <2>2. Cardinality((A \cup B) \cap C) \in Nat
    BY <1>4, FS_Intersection, FS_CardinalityType
  <2>3. Cardinality((A \cup B) \cup C) \in Nat
    BY <2>1, FS_CardinalityType
  <2> QED BY <1>2, <1>3, <1>4, <2>1, <2>2, <2>3
<1>6. IsFiniteSet(U) /\ Cardinality(U) \in Nat /\ Cardinality(U) <= Cardinality(Op) + 3
  <2>1. IsFiniteSet(U) /\ Cardinality(U) = Cardinality((A \cup B) \cup C) + Cardinality(D)
                                            - Cardinality(((A \cup B) \cup C) \cap D)
    BY <1>5, <1>2, FS_Union
  <2>2. Cardinality(((A \cup B) \cup C) \cap D) \in Nat
    BY <1>5, FS_Intersection, FS_CardinalityType
  <2>3. Cardinality(U) \in Nat
    BY <2>1, FS_CardinalityType
  <2> QED BY <1>2, <1>3, <1>5, <2>1, <2>2, <2>3
<1>7. IsFiniteSet(Claims) /\ Cardinality(Claims) = Cardinality(Op) + 4
  <2>1. Cardinality(Op) + 4 \in Int /\ 1 \in Int
    BY <1>3
  <2>2. Cardinality(1 .. Cardinality(Op) + 4) =
          IF 1 > Cardinality(Op) + 4 THEN 0 ELSE (Cardinality(Op) + 4) - 1 + 1
    BY <2>1, FS_Interval
  <2>3. IsFiniteSet(1 .. Cardinality(Op) + 4)
    BY <2>1, FS_Interval
  <2> QED BY <1>3, <2>2, <2>3 DEF Claims
<1>8. ~(Claims \subseteq U)
  <2> SUFFICES ASSUME Claims \subseteq U PROVE FALSE
    OBVIOUS
  <2>1. Cardinality(Claims) <= Cardinality(U)
    BY <1>6, FS_Subset
  <2> QED BY <1>3, <1>6, <1>7, <2>1
<1>9. \E c \in Claims : c \notin A \cup {run[r].claim : r \in Runner} \cup {exec.claim}
  BY <1>0, <1>8 DEF D
<1>10. FreshClaim \in Claims
       /\ FreshClaim \notin A \cup {run[r].claim : r \in Runner} \cup {exec.claim}
  BY <1>9 DEF FreshClaim, A
<1> QED BY <1>10, NoClaim DEF A

\* What is left when the i-th element of a sequence is removed.
LEMMA Removed ==
  ASSUME NEW S, NEW s \in Seq(S), NEW i \in 1..Len(s)
  PROVE  /\ RemoveAt(s, i) \in Seq(S) /\ Len(RemoveAt(s, i)) = Len(s) - 1
         /\ \A j \in 1..(Len(s) - 1) : RemoveAt(s, i)[j] = IF j < i THEN s[j] ELSE s[j + 1]
<1> DEFINE a == SubSeq(s, 1, i - 1)  b == SubSeq(s, i + 1, Len(s))
<1>1. a \in Seq(S) /\ Len(a) = i - 1 /\ \A j \in 1..(i - 1) : a[j] = s[j]
  OBVIOUS
<1>2. b \in Seq(S) /\ Len(b) = Len(s) - i /\ \A j \in 1..(Len(s) - i) : b[j] = s[i + j]
  OBVIOUS
<1>3. RemoveAt(s, i) = a \o b
  BY DEF RemoveAt
<1> HIDE DEF a, b
<1>4. a \o b \in Seq(S) /\ Len(a \o b) = Len(s) - 1
  <2>1. Len(a \o b) = Len(a) + Len(b)
    BY <1>1, <1>2, ConcatProperties
  <2>2. Len(s) \in Nat
    OBVIOUS
  <2> QED BY <1>1, <1>2, <2>1, <2>2
<1>5. ASSUME NEW j \in 1..(Len(s) - 1)
      PROVE  (a \o b)[j] = IF j < i THEN s[j] ELSE s[j + 1]
  <2>0. Len(s) \in Nat /\ i \in Nat /\ j \in Nat /\ i <= Len(s) /\ 1 <= j /\ j <= Len(s) - 1
    OBVIOUS
  <2>1. (a \o b)[j] = IF j <= i - 1 THEN a[j] ELSE b[j - (i - 1)]
    <3>1. j \in 1..(Len(a) + Len(b))
      BY <1>1, <1>2, <2>0
    <3>2. (a \o b)[j] = IF j <= Len(a) THEN a[j] ELSE b[j - Len(a)]
      BY <1>1, <1>2, <3>1, ConcatProperties
    <3> QED BY <1>1, <3>2
  <2>2. CASE j < i
    <3>1. j \in 1..(i - 1) /\ j <= i - 1
      BY <2>0, <2>2
    <3> QED BY <1>1, <2>1, <2>2, <3>1
  <2>3. CASE ~(j < i)
    <3>1. /\ j - (i - 1) \in 1..(Len(s) - i) /\ i + (j - (i - 1)) = j + 1
          /\ ~(j <= i - 1)
      BY <2>0, <2>3
    <3>2. b[j - (i - 1)] = s[j + 1]
      BY <1>2, <3>1
    <3> QED BY <2>1, <2>3, <3>1, <3>2
  <2> QED BY <2>2, <2>3
<1> QED BY <1>3, <1>4, <1>5

------------------------------------------------------------------------------
(* What each part of the invariant depends on                                *)

\* StorageTypes depends on nothing else.
LEMMA StorageTypesFrame ==
  ASSUME StorageTypes, UNCHANGED <<op, issued, exec, lease, reader, floor, deleting>>
  PROVE  StorageTypes'
BY DEF StorageTypes

\* OtherTypes depends on nothing else.
LEMMA OtherTypesFrame ==
  ASSUME OtherTypes, UNCHANGED <<slot, revoked, run, box, puts, stored, landed, queued, client>>
  PROVE  OtherTypes'
BY DEF OtherTypes

\* IndexOK depends on nothing else.
LEMMA IndexOKFrame ==
  ASSUME IndexOK, UNCHANGED <<index, op>>
  PROVE  IndexOK'
BY DEF IndexOK

\* KnownOK depends on nothing else.
LEMMA KnownOKFrame ==
  ASSUME KnownOK, UNCHANGED <<client, op, queued, reader, run>>
  PROVE  KnownOK'
BY DEF KnownOK

\* RecordsOK depends on nothing else.
LEMMA RecordsOKFrame ==
  ASSUME RecordsOK, UNCHANGED <<op, issued>>
  PROVE  RecordsOK'
BY DEF RecordsOK

\* ExecOK depends on nothing else.
LEMMA ExecOKFrame ==
  ASSUME ExecOK, UNCHANGED <<exec, slot, revoked, issued>>
  PROVE  ExecOK'
BY DEF ExecOK

\* PutsOK depends on nothing else.
LEMMA PutsOKFrame ==
  ASSUME PutsOK, UNCHANGED <<puts, exec>>
  PROVE  PutsOK'
BY DEF PutsOK

\* BoxOK depends on nothing else.
LEMMA BoxOKFrame ==
  ASSUME BoxOK, UNCHANGED <<box, exec, slot, deleting>>
  PROVE  BoxOK'
BY DEF BoxOK

\* WroteOK depends on nothing else.
LEMMA WroteOKFrame ==
  ASSUME WroteOK, UNCHANGED <<box, op, stored, puts>>
  PROVE  WroteOK'
BY DEF WroteOK

\* PlacesOK depends on nothing else.
LEMMA PlacesOKFrame ==
  ASSUME PlacesOK, UNCHANGED <<run, op>>
  PROVE  PlacesOK'
BY DEF PlacesOK, PlaceOK, Holds

\* GensOK depends on nothing else.
LEMMA GensOKFrame ==
  ASSUME GensOK, UNCHANGED <<run, issued, exec, box, puts>>
  PROVE  GensOK'
BY DEF GensOK

\* StoreOK depends on nothing else.
LEMMA StoreOKFrame ==
  ASSUME StoreOK, UNCHANGED <<run, op, stored, exec>>
  PROVE  StoreOK'
BY DEF StoreOK, Holds, Quiet

\* IntactOK depends on nothing else.
LEMMA IntactOKFrame ==
  ASSUME IntactOK, UNCHANGED <<op, stored, exec, outrun>>
  PROVE  IntactOK'
BY DEF IntactOK, Quiet

\* LandedOK depends on nothing else.
LEMMA LandedOKFrame ==
  ASSUME LandedOK, UNCHANGED <<landed, op, lease, deleting, robbed, run>>
  PROVE  LandedOK'
BY DEF LandedOK, Holds

\* CleanedUp depends on nothing else.
LEMMA CleanedUpFrame ==
  ASSUME CleanedUp, UNCHANGED <<op, late, stored, landed>>
  PROVE  CleanedUp'
BY DEF CleanedUp

\* ReaderOK depends on nothing else.
LEMMA ReaderOKFrame ==
  ASSUME ReaderOK, UNCHANGED <<reader, floor, op>>
  PROVE  ReaderOK'
BY DEF ReaderOK, Superseded

\* A step that changes nothing.
LEMMA StutterStep ==
  ASSUME NativeInv, UNCHANGED vars
  PROVE  NativeInv'
<1>1. UNCHANGED <<ops, faults, kinds, op, index, lease, reader, floor, exec, issued, deleting, alarm, slot,
                  revoked, shut, run, box, puts, stored, landed, queued, client, late, robbed, outrun>>
  BY DEF vars, requestVars, storageVars, hostVars, outsideVars
<1> QED BY <1>1, StorageTypesFrame, OtherTypesFrame, IndexOKFrame, KnownOKFrame, RecordsOKFrame,
    ExecOKFrame, PutsOKFrame, BoxOKFrame, WroteOKFrame, PlacesOKFrame, GensOKFrame,
    StoreOKFrame, IntactOKFrame, LandedOKFrame, CleanedUpFrame, ReaderOKFrame DEF NativeInv

------------------------------------------------------------------------------
(* The steps                                                                 *)

\* beginReceive keeps the invariant.
LEMMA TakeLeaseStep ==
  ASSUME NativeInv, NEW o \in Op, TakeLease(o)
  PROVE  NativeInv'
<1> USE DEF NativeInv
<1>t. /\ op \in [Op -> Records] /\ run \in [Runner -> Runs] /\ issued \in Nat
      /\ exec \in Execs /\ box \in Jobs
  BY DEF StorageTypes, OtherTypes
<1>u. UNCHANGED <<faults, kinds, op, index, reader, floor, exec, issued, deleting, alarm, slot,
   revoked, shut, run, box, puts, stored, landed, queued, late, robbed, outrun>>
  BY DEF TakeLease, requestVars, storageVars, hostVars, outsideVars
<1>c. \A s \in Runner : run[s].pc # "idle" => run[s].op \in Op
  BY DEF PlacesOK, PlaceOK
<1>1. /\ client[o] = "idle" /\ client' = [client EXCEPT ![o] = "leased"] /\ client \in [Op -> Clients]
      /\ lease' = [op |-> o, live |-> TRUE]
  BY DEF TakeLease, OtherTypes
<1>2. StorageTypes'
  BY <1>t, <1>1, <1>u DEF StorageTypes, Leases
<1>3. OtherTypes'
  BY <1>t, <1>1, <1>u DEF OtherTypes, Clients
<1>4. KnownOK'
  BY <1>t, <1>1, <1>u DEF KnownOK
<1>5. LandedOK'
  BY <1>t, <1>1, <1>c, <1>u DEF LandedOK, Holds, Terminal, RecordsOK, KnownOK
<1>6. IndexOK' /\ RecordsOK' /\ ExecOK' /\ PutsOK' /\ BoxOK' /\ WroteOK' /\ PlacesOK' /\ GensOK'
   /\ StoreOK' /\ IntactOK' /\ CleanedUp' /\ ReaderOK'
  BY <1>u, IndexOKFrame, RecordsOKFrame, ExecOKFrame, PutsOKFrame, BoxOKFrame, WroteOKFrame,
     PlacesOKFrame, GensOKFrame, StoreOKFrame, IntactOKFrame, CleanedUpFrame, ReaderOKFrame
<1> QED BY <1>2, <1>3, <1>4, <1>5, <1>6

\* So does a push on another path.
LEMMA OtherPushStep ==
  ASSUME NativeInv, OtherPush
  PROVE  NativeInv'
<1> USE DEF NativeInv
<1>t. /\ op \in [Op -> Records] /\ run \in [Runner -> Runs] /\ issued \in Nat
      /\ exec \in Execs /\ box \in Jobs
  BY DEF StorageTypes, OtherTypes
<1>u. UNCHANGED <<ops, kinds, op, index, reader, floor, exec, issued, deleting, alarm, slot,
   revoked, shut, run, box, puts, stored, landed, queued, client, late, robbed, outrun>>
  BY DEF OtherPush, Fault, requestVars, storageVars, hostVars, outsideVars
<1>c. \A s \in Runner : run[s].pc # "idle" => run[s].op \in Op
  BY DEF PlacesOK, PlaceOK
<1>1. lease' \in Leases /\ lease'.op \notin Op
  <2>1. lease' = [op |-> Other, live |-> TRUE] \/ lease' = Nobody
    BY DEF OtherPush
  <2>2. [op |-> Other, live |-> TRUE] \in Leases
    BY DEF Leases
  <2>3. [op |-> Other, live |-> TRUE].op = Other /\ Other \notin Op /\ None \notin Op
    BY NativeAssumption
  <2> QED BY <2>1, <2>2, <2>3, Nothings
<1>2. StorageTypes'
  BY <1>t, <1>1, <1>u DEF StorageTypes
<1>3. LandedOK'
  BY <1>t, <1>1, <1>c, <1>u DEF LandedOK, Holds, Terminal, RecordsOK
<1>4. OtherTypes' /\ IndexOK' /\ KnownOK' /\ RecordsOK' /\ ExecOK' /\ PutsOK' /\ BoxOK' /\
   WroteOK' /\ PlacesOK' /\ GensOK' /\ StoreOK' /\ IntactOK' /\ CleanedUp' /\ ReaderOK'
  BY <1>u, OtherTypesFrame, IndexOKFrame, KnownOKFrame, RecordsOKFrame, ExecOKFrame,
     PutsOKFrame, BoxOKFrame, WroteOKFrame, PlacesOKFrame, GensOKFrame, StoreOKFrame,
     IntactOKFrame, CleanedUpFrame, ReaderOKFrame
<1> QED BY <1>2, <1>3, <1>4

\* enqueueNativeReceive writes a record nobody has heard of.
LEMMA EnqueueStep ==
  ASSUME NativeInv, NEW o \in Op, Enqueue(o), deleting = "no" /\ lease = [op |-> o, live |->
     TRUE]
  PROVE  NativeInv'
<1> USE DEF NativeInv
<1>t. /\ op \in [Op -> Records] /\ run \in [Runner -> Runs] /\ issued \in Nat
      /\ exec \in Execs /\ box \in Jobs
  BY DEF StorageTypes, OtherTypes
<1>u. UNCHANGED <<ops, faults, kinds, lease, reader, floor, exec, issued, deleting, alarm, slot,
   revoked, shut, run, box, puts, stored, landed, queued, late, robbed, outrun>>
  BY DEF Enqueue, requestVars, storageVars, hostVars, outsideVars
<1>b. box.gen # 0 => box.op \in Op
  BY DEF BoxOK, ExecOK
<1>c. \A s \in Runner : run[s].pc # "idle" => run[s].op \in Op
  BY DEF PlacesOK, PlaceOK
<1>1. /\ client[o] = "leased" /\ client' = [client EXCEPT ![o] = "dispatching"] /\ client \in [Op -> Clients]
      /\ op[o].state = "absent" /\ index' = Append(index, o)
  BY DEF Enqueue, KnownOK, OtherTypes
<1>2. /\ op' = [op EXCEPT ![o] = Staged(floor)] /\ Staged(floor) \in Records
  BY DEF Enqueue, Staged, Records, States, StorageTypes
<1>3. /\ op' \in [Op -> Records] /\ \A q \in Op : q # o => op'[q] = op[q]
      /\ op'[o].state = "staged" /\ op'[o].claim = 0 /\ ~op'[o].cleanup
  <2>1. Staged(floor).state = "staged" /\ Staged(floor).claim = 0
    BY DEF Staged
  <2>2. Staged(floor).cleanup = FALSE
    BY Zenon DEF Staged
  <2> QED BY <1>t, <1>2, <2>1, <2>2
<1>4. StorageTypes'
  BY <1>t, <1>1, <1>2, <1>3, <1>u DEF StorageTypes
<1>5. OtherTypes'
  BY <1>t, <1>1, <1>2, <1>3, <1>u DEF OtherTypes, Clients
<1>6. IndexOK'
  <2>1. index \in Seq(Op) /\ Len(index) \in Nat
    BY DEF IndexOK
  <2>2. /\ index' \in Seq(Op) /\ Len(index') = Len(index) + 1 /\ index'[Len(index) + 1] = o
        /\ \A i \in 1..Len(index) : index'[i] = index[i]
    BY <2>1, <1>1
  <2>3. \A i \in 1..Len(index) : index[i] # o
    BY <1>1 DEF IndexOK
  <2>4. \A i, j \in 1..Len(index') : index'[i] = index'[j] => i = j
    <3>1. \A i, j \in 1..Len(index) : index[i] = index[j] => i = j
      BY DEF IndexOK
    <3> QED BY <2>1, <2>2, <2>3, <3>1
  <2>5. ASSUME NEW q \in Op
        PROVE  op'[q].state # "absent" <=> \E i \in 1..Len(index') : index'[i] = q
    <3>1. CASE q = o
      <4>1. Len(index) + 1 \in 1..Len(index')
        BY <2>1, <2>2
      <4> QED BY <2>2, <3>1, <4>1, <1>3
    <3>2. CASE q # o
      <4>1. op[q].state # "absent" <=> \E i \in 1..Len(index) : index[i] = q
        BY DEF IndexOK
      <4>2. (\E i \in 1..Len(index) : index[i] = q) <=> \E i \in 1..Len(index') : index'[i] = q
        BY <2>1, <2>2, <3>2
      <4>3. op'[q] = op[q]
        BY <1>3, <3>2
      <4> QED BY <4>1, <4>2, <4>3
    <3> QED BY <3>1, <3>2
  <2> QED BY <2>2, <2>4, <2>5 DEF IndexOK
<1>7. KnownOK'
  BY <1>t, <1>1, <1>2, <1>3, <1>u DEF KnownOK
<1>8. RecordsOK'
  BY <1>t, <1>1, <1>2, <1>3, <1>u DEF RecordsOK, Terminal
<1>9. WroteOK'
  BY <1>t, <1>1, <1>2, <1>3, <1>b, <1>u DEF WroteOK, Terminal
<1>10. PlacesOK'
  BY <1>t, <1>1, <1>2, <1>3, <1>u DEF PlacesOK, PlaceOK, Holds, Early, Trying, Ending, Terminal,
     RecordsOK, KnownOK
<1>11. StoreOK'
  BY <1>t, <1>1, <1>2, <1>3, <1>u DEF StoreOK, Holds, Quiet, Trying, PlacesOK, PlaceOK, Early,
     Ending, Terminal, KnownOK
<1>12. IntactOK'
  BY <1>t, <1>1, <1>2, <1>3, <1>u DEF IntactOK, Quiet
<1>13. LandedOK'
  BY <1>t, <1>1, <1>2, <1>3, <1>c, <1>u DEF LandedOK, Holds, Terminal, RecordsOK, KnownOK
<1>14. CleanedUp'
  BY <1>t, <1>1, <1>2, <1>3, <1>u DEF CleanedUp, Terminal
<1>15. ReaderOK'
  BY <1>t, <1>1, <1>2, <1>3, <1>u DEF ReaderOK, Superseded, KnownOK
<1>16. ExecOK' /\ PutsOK' /\ BoxOK' /\ GensOK'
  BY <1>u, ExecOKFrame, PutsOKFrame, BoxOKFrame, GensOKFrame
<1> QED BY <1>4, <1>5, <1>6, <1>7, <1>8, <1>9, <1>10, <1>11, <1>12, <1>13, <1>14, <1>15, <1>16

\* A request that lost its lease gives up.
LEMMA RefuseStep ==
  ASSUME NativeInv, NEW o \in Op, Enqueue(o), ~(deleting = "no" /\ lease = [op |-> o, live |->
     TRUE])
  PROVE  NativeInv'
<1> USE DEF NativeInv
<1>t. /\ op \in [Op -> Records] /\ run \in [Runner -> Runs] /\ issued \in Nat
      /\ exec \in Execs /\ box \in Jobs
  BY DEF StorageTypes, OtherTypes
<1>u. UNCHANGED <<ops, faults, kinds, op, index, reader, floor, exec, issued, deleting, alarm,
   slot, revoked, shut, run, box, puts, stored, landed, queued, late, robbed, outrun>>
  BY DEF Enqueue, requestVars, storageVars, hostVars, outsideVars
<1>c. \A s \in Runner : run[s].pc # "idle" => run[s].op \in Op
  BY DEF PlacesOK, PlaceOK
<1>1. /\ client[o] = "leased" /\ client' = [client EXCEPT ![o] = "refused"] /\ client \in [Op -> Clients]
  BY DEF Enqueue, OtherTypes
<1>2. lease' \in Leases /\ (lease' = lease \/ lease'.op = None) /\ None \notin Op
  BY Nothings, NativeAssumption DEF Enqueue, StorageTypes
<1>3. StorageTypes'
  BY <1>t, <1>1, <1>2, <1>u DEF StorageTypes
<1>4. OtherTypes'
  BY <1>t, <1>1, <1>2, <1>u DEF OtherTypes, Clients
<1>5. KnownOK'
  BY <1>t, <1>1, <1>2, <1>u DEF KnownOK
<1>6. LandedOK'
  BY <1>t, <1>1, <1>2, <1>c, <1>u DEF LandedOK, Holds, Terminal, RecordsOK
<1>7. IndexOK' /\ RecordsOK' /\ ExecOK' /\ PutsOK' /\ BoxOK' /\ WroteOK' /\ PlacesOK' /\ GensOK'
   /\ StoreOK' /\ IntactOK' /\ CleanedUp' /\ ReaderOK'
  BY <1>u, IndexOKFrame, RecordsOKFrame, ExecOKFrame, PutsOKFrame, BoxOKFrame, WroteOKFrame,
     PlacesOKFrame, GensOKFrame, StoreOKFrame, IntactOKFrame, CleanedUpFrame, ReaderOKFrame
<1> QED BY <1>3, <1>4, <1>5, <1>6, <1>7

\* Wakeups keep the invariant.
LEMMA DispatchWakes ==
  ASSUME NativeInv, NEW o \in Op, Dispatch(o), UNCHANGED <<op, index, lease>>
  PROVE  NativeInv'
<1> USE DEF NativeInv
<1>t. /\ op \in [Op -> Records] /\ run \in [Runner -> Runs] /\ issued \in Nat
      /\ exec \in Execs /\ box \in Jobs
  BY DEF StorageTypes, OtherTypes
<1>u. UNCHANGED <<ops, kinds, op, index, lease, reader, floor, exec, issued, deleting, slot,
   revoked, shut, run, box, puts, stored, landed, late, robbed, outrun>>
  BY DEF Dispatch, Fault, requestVars, storageVars, hostVars, outsideVars
<1>1. /\ client' = [client EXCEPT ![o] = "accepted"] \/ client' = [client EXCEPT ![o] = "refused"]
      /\ client[o] = "dispatching" /\ client \in [Op -> Clients] /\ queued' \subseteq queued \cup {o}
  BY DEF Dispatch, OtherTypes
<1>2. OtherTypes'
  BY <1>t, <1>1, <1>u DEF OtherTypes, Clients
<1>3. KnownOK'
  BY <1>t, <1>1, <1>u DEF KnownOK
<1>4. StorageTypes' /\ IndexOK' /\ RecordsOK' /\ ExecOK' /\ PutsOK' /\ BoxOK' /\ WroteOK' /\
   PlacesOK' /\ GensOK' /\ StoreOK' /\ IntactOK' /\ LandedOK' /\ CleanedUp' /\ ReaderOK'
  BY <1>u, StorageTypesFrame, IndexOKFrame, RecordsOKFrame, ExecOKFrame, PutsOKFrame,
     BoxOKFrame, WroteOKFrame, PlacesOKFrame, GensOKFrame, StoreOKFrame, IntactOKFrame,
     LandedOKFrame, CleanedUpFrame, ReaderOKFrame
<1> QED BY <1>2, <1>3, <1>4

\* So does taking back a record that no run has claimed.
LEMMA DispatchTakesBack ==
  ASSUME NativeInv, NEW o \in Op, Dispatch(o), op[o].state = "staged", op' = [op EXCEPT ![o] =
     [Absent EXCEPT !.fresh = op[o].fresh]], \E i \in DOMAIN index : index[i] = o /\ index' =
     RemoveAt(index, i), lease' = IF lease.op = o THEN Nobody ELSE lease, client' = [client
     EXCEPT ![o] = "refused"], UNCHANGED <<alarm, queued>>
  PROVE  NativeInv'
<1> USE DEF NativeInv
<1>t. /\ op \in [Op -> Records] /\ run \in [Runner -> Runs] /\ issued \in Nat
      /\ exec \in Execs /\ box \in Jobs
  BY DEF StorageTypes, OtherTypes
<1>u. UNCHANGED <<ops, kinds, reader, floor, exec, issued, deleting, alarm, slot, revoked, shut,
   run, box, puts, stored, landed, queued, late, robbed, outrun>>
  BY DEF Dispatch, Fault, requestVars, storageVars, hostVars, outsideVars
<1>b. box.gen # 0 => box.op \in Op
  BY DEF BoxOK, ExecOK
<1>c. \A s \in Runner : run[s].pc # "idle" => run[s].op \in Op
  BY DEF PlacesOK, PlaceOK
<1>1. /\ client[o] = "dispatching" /\ client' = [client EXCEPT ![o] = "refused"] /\ client \in [Op -> Clients]
  BY DEF Dispatch, OtherTypes
<1>2. lease' \in Leases /\ (lease' = lease \/ lease'.op = None) /\ None \notin Op
  BY Nothings, NativeAssumption DEF StorageTypes
<1>3. op[o].claim = 0 /\ op[o].state = "staged"
  BY DEF RecordsOK
<1>4. /\ op' \in [Op -> Records] /\ \A q \in Op : q # o => op'[q] = op[q]
      /\ op'[o].state = "absent" /\ op'[o].claim = 0 /\ ~op'[o].cleanup /\ (op'[o].fresh <=> op[o].fresh)
  <2> DEFINE a == [Absent EXCEPT !.fresh = op[o].fresh]
  <2>1. op[o].fresh \in BOOLEAN
    BY <1>t DEF Records
  <2>2. a \in Records /\ a.state = "absent" /\ a.claim = 0
    BY <2>1, AbsentOK DEF Records
  <2>3. a.cleanup = FALSE
    <3>1. a.cleanup = Absent.cleanup
      BY AbsentOK DEF Records
    <3> QED BY <3>1, AbsentOK
  <2>4. a.fresh = op[o].fresh
    BY AbsentOK DEF Records
  <2>5. op' = [op EXCEPT ![o] = a]
    OBVIOUS
  <2> HIDE DEF a
  <2> QED BY <1>t, <2>2, <2>3, <2>4, <2>5
<1>5. StorageTypes'
  BY <1>t, <1>1, <1>2, <1>3, <1>4, <1>u DEF StorageTypes
<1>6. OtherTypes'
  BY <1>t, <1>1, <1>2, <1>3, <1>4, <1>u DEF OtherTypes, Clients
<1>7. IndexOK'
  <2>1. PICK i \in 1..Len(index) : index[i] = o /\ index' = RemoveAt(index, i)
    BY DEF IndexOK
  <2>2. index \in Seq(Op) /\ Len(index) \in Nat
    BY DEF IndexOK
  <2>3. /\ index' \in Seq(Op) /\ Len(index') = Len(index) - 1
        /\ \A j \in 1..(Len(index) - 1) : index'[j] = IF j < i THEN index[j] ELSE index[j + 1]
    BY <2>1, <2>2, Removed
  <2>4. ASSUME NEW q \in Op
        PROVE  (\E j \in 1..Len(index') : index'[j] = q) <=>
               q # o /\ \E j \in 1..Len(index) : index[j] = q
    <3>1. ASSUME NEW j \in 1..Len(index'), index'[j] = q
          PROVE  q # o /\ \E k \in 1..Len(index) : index[k] = q
      <4>1. CASE j < i
        BY <2>1, <2>2, <2>3, <3>1, <4>1 DEF IndexOK
      <4>2. CASE ~(j < i)
        BY <2>1, <2>2, <2>3, <3>1, <4>2 DEF IndexOK
      <4> QED BY <4>1, <4>2
    <3>2. ASSUME NEW j \in 1..Len(index), index[j] = q, q # o
          PROVE  \E k \in 1..Len(index') : index'[k] = q
      <4>1. CASE j < i
        BY <2>1, <2>2, <2>3, <3>2, <4>1
      <4>2. CASE j > i
        <5>1. j - 1 \in 1..Len(index') /\ ~(j - 1 < i) /\ (j - 1) + 1 = j
          BY <2>1, <2>2, <2>3, <4>2
        <5>2. index'[j - 1] = index[j]
          BY <5>1, <2>3
        <5> QED BY <5>1, <5>2, <3>2
      <4> QED BY <2>1, <3>2, <4>1, <4>2
    <3> QED BY <3>1, <3>2
  <2>5. ASSUME NEW j \in 1..Len(index'), NEW k \in 1..Len(index'), index'[j] = index'[k]
        PROVE  j = k
    <3>1. index'[j] = IF j < i THEN index[j] ELSE index[j + 1]
      BY <2>2, <2>3
    <3>2. index'[k] = IF k < i THEN index[k] ELSE index[k + 1]
      BY <2>2, <2>3
    <3>3. \A m, n \in 1..Len(index) : index[m] = index[n] => m = n
      BY DEF IndexOK
    <3>4. j \in 1..Len(index) /\ j + 1 \in 1..Len(index) /\ k \in 1..Len(index) /\ k + 1 \in 1..Len(index)
      BY <2>2, <2>3
    <3>5. i \in Int /\ j \in Int /\ k \in Int
      BY <2>2, <2>3
    <3>6. CASE j < i /\ k < i
      BY <2>5, <3>1, <3>2, <3>3, <3>4, <3>6
    <3>7. CASE j < i /\ ~(k < i)
      <4>1. j = k + 1
        BY <2>5, <3>1, <3>2, <3>3, <3>4, <3>7
      <4> QED BY <4>1, <3>5, <3>7
    <3>8. CASE ~(j < i) /\ k < i
      <4>1. j + 1 = k
        BY <2>5, <3>1, <3>2, <3>3, <3>4, <3>8
      <4> QED BY <4>1, <3>5, <3>8
    <3>9. CASE ~(j < i) /\ ~(k < i)
      <4>1. j + 1 = k + 1
        BY <2>5, <3>1, <3>2, <3>3, <3>4, <3>9
      <4> QED BY <4>1, <3>5
    <3> QED BY <3>6, <3>7, <3>8, <3>9
  <2> QED BY <2>3, <2>4, <2>5, <1>4 DEF IndexOK
<1>8. KnownOK'
  BY <1>t, <1>1, <1>2, <1>3, <1>4, <1>u DEF KnownOK
<1>9. RecordsOK'
  BY <1>t, <1>1, <1>2, <1>3, <1>4, <1>u DEF RecordsOK, Terminal
<1>10. WroteOK'
  BY <1>t, <1>1, <1>2, <1>3, <1>4, <1>b, <1>u DEF WroteOK, Terminal
<1>11. PlacesOK'
  BY <1>t, <1>1, <1>2, <1>3, <1>4, <1>u DEF PlacesOK, PlaceOK, Holds, Early, Trying, Ending,
     Terminal, RecordsOK
<1>12. StoreOK'
  BY <1>t, <1>1, <1>2, <1>3, <1>4, <1>u DEF StoreOK, Holds, Quiet, Trying, PlacesOK, PlaceOK,
     Early, Ending, Terminal
<1>13. IntactOK'
  BY <1>t, <1>1, <1>2, <1>3, <1>4, <1>u DEF IntactOK, Quiet
<1>14. LandedOK'
  BY <1>t, <1>1, <1>2, <1>3, <1>4, <1>c, <1>u DEF LandedOK, Holds, Terminal, RecordsOK
<1>15. CleanedUp'
  BY <1>t, <1>1, <1>2, <1>3, <1>4, <1>u DEF CleanedUp, Terminal
<1>16. ReaderOK'
  BY <1>t, <1>1, <1>2, <1>3, <1>4, <1>u DEF ReaderOK, Superseded, KnownOK
<1>17. ExecOK' /\ PutsOK' /\ BoxOK' /\ GensOK'
  BY <1>u, ExecOKFrame, PutsOKFrame, BoxOKFrame, GensOKFrame
<1> QED BY <1>5, <1>6, <1>7, <1>8, <1>9, <1>10, <1>11, <1>12, <1>13, <1>14, <1>15, <1>16, <1>17

\* A message for an operation that is over is acknowledged.
LEMMA EnterDrops ==
  ASSUME NativeInv, NEW r \in Runner, NEW o \in Op, queued' = queued \ {o}, UNCHANGED <<run,
     alarm>>, Enter(r, o)
  PROVE  NativeInv'
<1> USE DEF NativeInv
<1>t. /\ op \in [Op -> Records] /\ run \in [Runner -> Runs] /\ issued \in Nat
      /\ exec \in Execs /\ box \in Jobs
  BY DEF StorageTypes, OtherTypes
<1>u. UNCHANGED <<ops, faults, kinds, op, index, lease, reader, floor, exec, issued, deleting,
   alarm, slot, revoked, shut, run, box, puts, stored, landed, client, late, robbed, outrun>>
  BY DEF Enter, requestVars, storageVars, hostVars, outsideVars
<1>1. queued' \subseteq queued
  OBVIOUS
<1>2. OtherTypes'
  BY <1>t, <1>1, <1>u DEF OtherTypes
<1>3. KnownOK'
  BY <1>t, <1>1, <1>u DEF KnownOK
<1>4. StorageTypes' /\ IndexOK' /\ RecordsOK' /\ ExecOK' /\ PutsOK' /\ BoxOK' /\ WroteOK' /\
   PlacesOK' /\ GensOK' /\ StoreOK' /\ IntactOK' /\ LandedOK' /\ CleanedUp' /\ ReaderOK'
  BY <1>u, StorageTypesFrame, IndexOKFrame, RecordsOKFrame, ExecOKFrame, PutsOKFrame,
     BoxOKFrame, WroteOKFrame, PlacesOKFrame, GensOKFrame, StoreOKFrame, IntactOKFrame,
     LandedOKFrame, CleanedUpFrame, ReaderOKFrame
<1> QED BY <1>2, <1>3, <1>4

\* A run begins with an operation that has, or had, a record.
LEMMA EnterStep ==
  ASSUME NativeInv, NEW r \in Runner, NEW o \in Op, NEW pc \in {"entered", "clean", "erase"}, Enter(r,
     o), pc = "clean" => op[o].state = "committed", pc = "erase" => op[o].state \in Terminal,
     o \in queued \/ op[o].state # "absent", run' = [run EXCEPT ![r] = [NoRun EXCEPT !.pc = pc, !.op = o]], UNCHANGED queued
  PROVE  NativeInv'
<1> USE DEF NativeInv
<1>t. /\ op \in [Op -> Records] /\ run \in [Runner -> Runs] /\ issued \in Nat
      /\ exec \in Execs /\ box \in Jobs
  BY DEF StorageTypes, OtherTypes
<1>n. /\ slot.gen \in Nat /\ revoked \in Nat /\ exec.gen \in Nat /\ box.gen \in Nat /\ issued \in Nat
      /\ \A s \in Runner : run[s].gen \in Nat
  BY DEF StorageTypes, OtherTypes, Slots, Execs, Jobs, Runs
<1>u. UNCHANGED <<ops, faults, kinds, op, index, lease, reader, floor, exec, issued, deleting,
   slot, revoked, shut, box, puts, stored, landed, queued, client, late, robbed, outrun>>
  BY DEF Enter, requestVars, storageVars, hostVars, outsideVars
<1>c. \A s \in Runner : run[s].pc # "idle" => run[s].op \in Op
  BY DEF PlacesOK, PlaceOK
<1>1. /\ run' \in [Runner -> Runs] /\ \A s \in Runner : s # r => run'[s] = run[s]
      /\ run'[r].pc = pc /\ run'[r].op = o /\ run'[r].claim = 0 /\ run'[r].gen = 0
  BY <1>t, EnterEffects
<1>2. NoRun.pc = "idle"
  BY Nothings
<1>p. /\ pc \in {"entered", "clean", "erase"}
      /\ (pc \in {"clean", "erase"} => op[o].state \in Terminal)
  BY DEF Terminal
<1>3. OtherTypes'
  BY <1>t, <1>1, <1>2, <1>u DEF OtherTypes
<1>4. KnownOK'
  BY <1>t, <1>1, <1>2, <1>u DEF KnownOK
<1>5. PlacesOK'
  <2>1. PlaceOK(r)'
    BY <1>t, <1>1, <1>2, <1>p, <1>u DEF PlaceOK, Early, Trying, Ending
  <2>2. ASSUME NEW s \in Runner, s # r PROVE PlaceOK(s)'
    BY <1>t, <1>1, <1>u, <2>2 DEF PlacesOK, PlaceOK, Holds
  <2> QED BY <1>t, <1>1, <1>u, <2>1, <2>2 DEF PlacesOK
<1>6. GensOK'
  BY <1>t, <1>1, <1>2, <1>n, <1>u DEF GensOK, Executing
<1>7. StoreOK'
  BY <1>t, <1>1, <1>2, <1>u DEF StoreOK, Holds, Quiet, Trying, PlacesOK, PlaceOK, Early, Ending,
     Terminal
<1>8. LandedOK'
  BY <1>t, <1>1, <1>2, <1>c, <1>u DEF LandedOK, Holds, Terminal, RecordsOK
<1>9. StorageTypes' /\ IndexOK' /\ RecordsOK' /\ ExecOK' /\ PutsOK' /\ BoxOK' /\ WroteOK' /\
   IntactOK' /\ CleanedUp' /\ ReaderOK'
  BY <1>u, StorageTypesFrame, IndexOKFrame, RecordsOKFrame, ExecOKFrame, PutsOKFrame,
     BoxOKFrame, WroteOKFrame, IntactOKFrame, CleanedUpFrame, ReaderOKFrame
<1> QED BY <1>3, <1>4, <1>5, <1>6, <1>7, <1>8, <1>9

\* A run that need not wait goes on to claim.
LEMMA GoesOnStep ==
  ASSUME NativeInv, NEW r \in Runner, NEW o \in Op, run[r].op = o, run[r].pc \in {"entered",
     "wait"}, Goto(r, "claim"), UNCHANGED <<requestVars, storageVars, hostVars, outsideVars,
     late, robbed, outrun>>
  PROVE  NativeInv'
<1> USE DEF NativeInv
<1>t. /\ op \in [Op -> Records] /\ run \in [Runner -> Runs] /\ issued \in Nat
      /\ exec \in Execs /\ box \in Jobs
  BY DEF StorageTypes, OtherTypes
<1>n. /\ slot.gen \in Nat /\ revoked \in Nat /\ exec.gen \in Nat /\ box.gen \in Nat /\ issued \in Nat
      /\ \A s \in Runner : run[s].gen \in Nat
  BY DEF StorageTypes, OtherTypes, Slots, Execs, Jobs, Runs
<1>u. UNCHANGED <<ops, faults, kinds, op, index, lease, reader, floor, exec, issued, deleting,
   slot, revoked, shut, box, puts, stored, landed, queued, client, late, robbed, outrun>>
  BY DEF requestVars, storageVars, hostVars, outsideVars
<1>c. \A s \in Runner : run[s].pc # "idle" => run[s].op \in Op
  BY DEF PlacesOK, PlaceOK
<1>1. /\ run' \in [Runner -> Runs] /\ \A s \in Runner : s # r => run'[s] = run[s]
      /\ run'[r].pc = "claim" /\ run'[r].op = o /\ run'[r].claim = run[r].claim
      /\ run'[r].gen = run[r].gen /\ run'[r].then = run[r].then
  BY <1>t, GotoEffects DEF Early
<1>2. NoRun.pc = "idle"
  BY Nothings
<1>3. run[r].pc \in {"entered", "wait"}
  OBVIOUS
<1>4. OtherTypes'
  BY <1>t, <1>1, <1>2, <1>3, <1>u DEF OtherTypes
<1>5. KnownOK'
  BY <1>t, <1>1, <1>2, <1>3, <1>u DEF KnownOK
<1>6. PlacesOK'
  BY <1>t, <1>1, <1>2, <1>3, <1>u DEF PlacesOK, PlaceOK, Holds, Early, Trying, Ending, Terminal,
     RecordsOK
<1>7. GensOK'
  BY <1>t, <1>1, <1>2, <1>3, <1>n, <1>u DEF GensOK, Executing
<1>8. StoreOK'
  BY <1>t, <1>1, <1>2, <1>3, <1>u DEF StoreOK, Holds, Quiet, Trying, PlacesOK, PlaceOK, Early,
     Ending, Terminal
<1>9. LandedOK'
  BY <1>t, <1>1, <1>2, <1>3, <1>c, <1>u DEF LandedOK, Holds, Terminal, RecordsOK
<1>10. StorageTypes' /\ IndexOK' /\ RecordsOK' /\ ExecOK' /\ PutsOK' /\ BoxOK' /\ WroteOK' /\
   IntactOK' /\ CleanedUp' /\ ReaderOK'
  BY <1>u, StorageTypesFrame, IndexOKFrame, RecordsOKFrame, ExecOKFrame, PutsOKFrame,
     BoxOKFrame, WroteOKFrame, IntactOKFrame, CleanedUpFrame, ReaderOKFrame
<1> QED BY <1>4, <1>5, <1>6, <1>7, <1>8, <1>9, <1>10

\* A run may end at any time.
LEMMA ReturnsStep ==
  ASSUME NativeInv, NEW r \in Runner, Return(r), UNCHANGED <<requestVars, op, index, lease,
     reader, floor, exec, issued, deleting, hostVars, outsideVars, late, robbed, outrun>>
  PROVE  NativeInv'
<1> USE DEF NativeInv
<1>t. /\ op \in [Op -> Records] /\ run \in [Runner -> Runs] /\ issued \in Nat
      /\ exec \in Execs /\ box \in Jobs
  BY DEF StorageTypes, OtherTypes
<1>n. /\ slot.gen \in Nat /\ revoked \in Nat /\ exec.gen \in Nat /\ box.gen \in Nat /\ issued \in Nat
      /\ \A s \in Runner : run[s].gen \in Nat
  BY DEF StorageTypes, OtherTypes, Slots, Execs, Jobs, Runs
<1>u. UNCHANGED <<ops, faults, kinds, op, index, lease, reader, floor, exec, issued, deleting,
   slot, revoked, shut, box, puts, stored, landed, queued, client, late, robbed, outrun>>
  BY DEF requestVars, storageVars, hostVars, outsideVars
<1>c. \A s \in Runner : run[s].pc # "idle" => run[s].op \in Op
  BY DEF PlacesOK, PlaceOK
<1>1. /\ run' \in [Runner -> Runs] /\ \A s \in Runner : s # r => run'[s] = run[s]
      /\ run'[r] = NoRun /\ run'[r].pc = "idle" /\ run'[r].claim = 0 /\ run'[r].op = None
      /\ run'[r].gen = 0
  BY <1>t, ReturnEffects, Nothings
<1>2. None \notin Op
  BY NativeAssumption
<1>3. OtherTypes'
  BY <1>t, <1>1, <1>2, <1>u DEF OtherTypes
<1>4. KnownOK'
  BY <1>t, <1>1, <1>2, <1>u DEF KnownOK
<1>5. PlacesOK'
  BY <1>t, <1>1, <1>2, <1>u DEF PlacesOK, PlaceOK, Holds, Early, Trying, Ending, Terminal,
     RecordsOK
<1>6. GensOK'
  BY <1>t, <1>1, <1>2, <1>n, <1>u DEF GensOK, Executing
<1>7. StoreOK'
  BY <1>t, <1>1, <1>2, <1>u DEF StoreOK, Holds, Quiet, Trying, PlacesOK, PlaceOK, Early, Ending,
     Terminal
<1>8. LandedOK'
  BY <1>t, <1>1, <1>2, <1>c, <1>u DEF LandedOK, Holds, Terminal, RecordsOK
<1>9. StorageTypes' /\ IndexOK' /\ RecordsOK' /\ ExecOK' /\ PutsOK' /\ BoxOK' /\ WroteOK' /\
   IntactOK' /\ CleanedUp' /\ ReaderOK'
  BY <1>u, StorageTypesFrame, IndexOKFrame, RecordsOKFrame, ExecOKFrame, PutsOKFrame,
     BoxOKFrame, WroteOKFrame, IntactOKFrame, CleanedUpFrame, ReaderOKFrame
<1> QED BY <1>3, <1>4, <1>5, <1>6, <1>7, <1>8, <1>9

\* reconcileNativeExecutionLeases revokes before it stops.
LEMMA ReconcileStep ==
  ASSUME NativeInv, NEW r \in Runner, NEW o \in Op, run[r].op = o, Reconcile(r), exec.stop \/
     exec.state = "active", exec' = Revoked(exec.gen), run' = [run EXCEPT ![r].pc = "stop",
     ![r].gen = exec.gen, ![r].then = "wait"], UNCHANGED alarm
  PROVE  NativeInv'
<1> USE DEF NativeInv
<1>t. /\ op \in [Op -> Records] /\ run \in [Runner -> Runs] /\ issued \in Nat
      /\ exec \in Execs /\ box \in Jobs
  BY DEF StorageTypes, OtherTypes
<1>n. /\ slot.gen \in Nat /\ revoked \in Nat /\ exec.gen \in Nat /\ box.gen \in Nat /\ issued \in Nat
      /\ \A s \in Runner : run[s].gen \in Nat
  BY DEF StorageTypes, OtherTypes, Slots, Execs, Jobs, Runs
<1>u. UNCHANGED <<ops, faults, kinds, op, index, lease, reader, floor, issued, deleting, alarm,
   slot, revoked, shut, box, puts, stored, landed, queued, client, late, robbed, outrun>>
  BY DEF Reconcile, requestVars, storageVars, hostVars, outsideVars
<1>c. \A s \in Runner : run[s].pc # "idle" => run[s].op \in Op
  BY DEF PlacesOK, PlaceOK
<1>1. run[r].pc = "entered" /\ exec.state \in {"active", "revoked"}
  BY DEF Reconcile, ExecOK
<1>2. /\ run' \in [Runner -> Runs] /\ \A s \in Runner : s # r => run'[s] = run[s]
      /\ run'[r].pc = "stop" /\ run'[r].op = o /\ run'[r].claim = run[r].claim /\ run'[r].then = "wait"
      /\ run'[r].gen = exec.gen
  <2> DEFINE a == [run[r] EXCEPT !.pc = "stop", !.gen = exec.gen, !.then = "wait"]
  <2>1. run' = [run EXCEPT ![r] = a]
    OBVIOUS
  <2>2. run[r] \in Runs
    BY <1>t
  <2>3. /\ a \in Runs /\ a.pc = "stop" /\ a.op = run[r].op /\ a.claim = run[r].claim
        /\ a.gen = exec.gen /\ a.then = "wait"
    BY <1>t, <1>n, <2>2 DEF Runs, Trying
  <2> HIDE DEF a
  <2> QED BY <1>t, <2>1, <2>3
<1>3. /\ exec' \in Execs /\ exec'.gen = exec.gen /\ exec'.op = exec.op
      /\ exec.state = "active" => exec'.state = "revoked" /\ exec'.stop /\ exec'.drain
      /\ exec.state # "active" => exec' = exec
  BY <1>t, RevokedEffects
<1>4. NoRun.pc = "idle"
  BY Nothings
<1>5. StorageTypes'
  BY <1>t, <1>1, <1>2, <1>3, <1>4, <1>u DEF StorageTypes
<1>6. OtherTypes'
  BY <1>t, <1>1, <1>2, <1>3, <1>4, <1>u DEF OtherTypes
<1>7. KnownOK'
  BY <1>t, <1>1, <1>2, <1>3, <1>4, <1>u DEF KnownOK
<1>8. ExecOK'
  BY <1>t, <1>1, <1>2, <1>3, <1>4, <1>n, <1>u DEF ExecOK
<1>9. PutsOK'
  BY <1>t, <1>1, <1>2, <1>3, <1>4, <1>u DEF PutsOK, ExecOK
<1>10. BoxOK'
  BY <1>t, <1>1, <1>2, <1>3, <1>4, <1>u DEF BoxOK, ExecOK
<1>11. PlacesOK'
  <2>1. ASSUME NEW s \in Runner, s # r PROVE PlaceOK(s)'
    BY <1>t, <1>1, <1>2, <1>3, <1>4, <1>u, <2>1 DEF PlacesOK, PlaceOK, Holds
  <2>2. PlaceOK(r)'
    BY <1>t, <1>1, <1>2, <1>3, <1>4, <1>u DEF PlacesOK, PlaceOK, Holds, Early, Trying, Ending,
        Terminal
  <2>3. \A x, y \in Runner : run'[x].claim = run'[y].claim /\ run'[x].claim # 0 => x = y
    BY <1>t, <1>1, <1>2, <1>3, <1>4, <1>u DEF PlacesOK
  <2> QED BY <2>1, <2>2, <2>3 DEF PlacesOK
<1>12. GensOK'
  BY <1>t, <1>1, <1>2, <1>3, <1>4, <1>n, <1>u DEF GensOK, Executing, ExecOK
<1>13. StoreOK'
  BY <1>t, <1>1, <1>2, <1>3, <1>4, <1>u DEF StoreOK, Holds, Quiet, Trying, PlacesOK, PlaceOK,
     Early, Ending, Terminal
<1>14. IntactOK'
  BY <1>t, <1>1, <1>2, <1>3, <1>4, <1>u DEF IntactOK, Quiet
<1>15. LandedOK'
  BY <1>t, <1>1, <1>2, <1>3, <1>4, <1>c, <1>u DEF LandedOK, Holds, Terminal, RecordsOK
<1>16. IndexOK' /\ RecordsOK' /\ WroteOK' /\ CleanedUp' /\ ReaderOK'
  BY <1>u, IndexOKFrame, RecordsOKFrame, WroteOKFrame, CleanedUpFrame, ReaderOKFrame
<1> QED BY <1>5, <1>6, <1>7, <1>8, <1>9, <1>10, <1>11, <1>12, <1>13, <1>14, <1>15, <1>16

\* A stop reaches the job of its generation before it is acknowledged.
LEMMA StopStep ==
  ASSUME NativeInv, NEW r \in Runner, NEW o \in Op, run[r].op = o, Stop(r)
  PROVE  NativeInv'
<1> USE DEF NativeInv
<1>t. /\ op \in [Op -> Records] /\ run \in [Runner -> Runs] /\ issued \in Nat
      /\ exec \in Execs /\ box \in Jobs
  BY DEF StorageTypes, OtherTypes
<1>n. /\ slot.gen \in Nat /\ revoked \in Nat /\ exec.gen \in Nat /\ box.gen \in Nat /\ issued \in Nat
      /\ \A s \in Runner : run[s].gen \in Nat
  BY DEF StorageTypes, OtherTypes, Slots, Execs, Jobs, Runs
<1>u. UNCHANGED <<ops, faults, kinds, op, index, lease, reader, floor, issued, deleting, alarm,
   shut, puts, stored, landed, queued, client, late, robbed, outrun>>
  BY DEF Stop, Stopped, Goto, requestVars, storageVars, hostVars, outsideVars
<1>b. box.gen # 0 => box.op \in Op
  BY DEF BoxOK, ExecOK
<1>c. \A s \in Runner : run[s].pc # "idle" => run[s].op \in Op
  BY DEF PlacesOK, PlaceOK
<1>1. run[r].pc = "stop" /\ run[r].then \in {"wait", "caught"}
  BY DEF Stop, PlacesOK, PlaceOK
<1>2. /\ run' \in [Runner -> Runs] /\ \A s \in Runner : s # r => run'[s] = run[s]
      /\ run'[r].pc = run[r].then /\ run'[r].op = o
      /\ run'[r].claim = run[r].claim /\ run'[r].then = run[r].then
      /\ run'[r].gen = run[r].gen
  BY <1>t, <1>1, GotoEffects DEF Stop, Early, Trying
<1>3. /\ slot' \in Slots /\ revoked' \in Nat /\ slot'.gen = slot.gen /\ revoked' \in {revoked, run[r].gen}
      /\ slot.gen = run[r].gen => slot'.state = "revoked"
      /\ slot.gen # run[r].gen => slot' = slot
  <2>1. Stopped(run[r].gen) /\ run[r].gen \in Nat
    BY <1>t DEF Stop, Runs
  <2> QED BY <2>1, <1>t, StoppedEffects DEF OtherTypes
<1>4. /\ box' \in Jobs /\ NoJob.gen = 0
      /\ slot.gen = run[r].gen => box' = NoJob
      /\ slot.gen # run[r].gen => box' = box
  <2>1. Stopped(run[r].gen) /\ run[r].gen \in Nat /\ box' = Destroyed(run[r].gen)
    BY <1>t DEF Stop, Runs
  <2> QED BY <2>1, <1>t, StoppedEffects, Nothings DEF OtherTypes
<1>5. /\ exec' \in Execs /\ exec'.gen = exec.gen /\ exec'.op = exec.op /\ exec'.state = exec.state
      /\ (exec'.drain <=> exec.drain)
      /\ exec.gen # run[r].gen => exec' = exec
      /\ exec.state # "revoked" => exec' = exec
      /\ exec.state = "revoked" /\ exec.gen = run[r].gen => ~exec'.stop
  BY <1>t, AcknowledgedEffects DEF Stop
<1>6. NoRun.pc = "idle"
  BY Nothings
<1>7. box.gen # 0 => box.gen = exec.gen /\ slot.gen = box.gen
  BY DEF BoxOK
<1>8. StorageTypes'
  BY <1>t, <1>1, <1>2, <1>3, <1>4, <1>5, <1>6, <1>7, <1>u DEF StorageTypes
<1>9. OtherTypes'
  BY <1>t, <1>1, <1>2, <1>3, <1>4, <1>5, <1>6, <1>7, <1>u DEF OtherTypes
<1>10. KnownOK'
  BY <1>t, <1>1, <1>2, <1>3, <1>4, <1>5, <1>6, <1>7, <1>u DEF KnownOK
<1>11. ExecOK'
  BY <1>t, <1>1, <1>2, <1>3, <1>4, <1>5, <1>6, <1>7, <1>n, <1>u DEF ExecOK, GensOK, Executing
<1>12. PutsOK'
  BY <1>t, <1>1, <1>2, <1>3, <1>4, <1>5, <1>6, <1>7, <1>u DEF PutsOK, ExecOK
<1>13. BoxOK'
  BY <1>t, <1>1, <1>2, <1>3, <1>4, <1>5, <1>6, <1>7, <1>u DEF BoxOK, ExecOK
<1>14. WroteOK'
  BY <1>t, <1>1, <1>2, <1>3, <1>4, <1>5, <1>6, <1>7, <1>b, <1>u DEF WroteOK, Terminal
<1>15. PlacesOK'
  BY <1>t, <1>1, <1>2, <1>3, <1>4, <1>5, <1>6, <1>7, <1>u DEF PlacesOK, PlaceOK, Holds, Early,
     Trying, Ending, Terminal, RecordsOK
<1>16. GensOK'
  BY <1>t, <1>1, <1>2, <1>3, <1>4, <1>5, <1>6, <1>7, <1>n, <1>u DEF GensOK, Executing
<1>17. StoreOK'
  BY <1>t, <1>1, <1>2, <1>3, <1>4, <1>5, <1>6, <1>7, <1>u DEF StoreOK, Holds, Quiet, Trying,
     PlacesOK, PlaceOK, Early, Ending, Terminal
<1>18. IntactOK'
  BY <1>t, <1>1, <1>2, <1>3, <1>4, <1>5, <1>6, <1>7, <1>u DEF IntactOK, Quiet
<1>19. LandedOK'
  BY <1>t, <1>1, <1>2, <1>3, <1>4, <1>5, <1>6, <1>7, <1>c, <1>u DEF LandedOK, Holds, Terminal,
     RecordsOK
<1>20. IndexOK' /\ RecordsOK' /\ CleanedUp' /\ ReaderOK'
  BY <1>u, IndexOKFrame, RecordsOKFrame, CleanedUpFrame, ReaderOKFrame
<1> QED BY <1>8, <1>9, <1>10, <1>11, <1>12, <1>13, <1>14, <1>15, <1>16, <1>17, <1>18, <1>19,
   <1>20

\* destroy() throws in a cancellation: the stop stays pending.
LEMMA StopThrowsCaught ==
  ASSUME NativeInv, NEW r \in Runner, NEW o \in Op, run[r].op = o, StopThrows(r), run[r].then =
     "caught", Goto(r, "caught")
  PROVE  NativeInv'
<1> USE DEF NativeInv
<1>t. /\ op \in [Op -> Records] /\ run \in [Runner -> Runs] /\ issued \in Nat
      /\ exec \in Execs /\ box \in Jobs
  BY DEF StorageTypes, OtherTypes
<1>n. /\ slot.gen \in Nat /\ revoked \in Nat /\ exec.gen \in Nat /\ box.gen \in Nat /\ issued \in Nat
      /\ \A s \in Runner : run[s].gen \in Nat
  BY DEF StorageTypes, OtherTypes, Slots, Execs, Jobs, Runs
<1>u. UNCHANGED <<ops, kinds, op, index, lease, reader, floor, exec, issued, deleting, shut,
   box, puts, stored, landed, queued, client, late, robbed, outrun>>
  BY DEF StopThrows, Stopped, Fault, Wake, Return, requestVars, storageVars, hostVars,
     outsideVars
<1>c. \A s \in Runner : run[s].pc # "idle" => run[s].op \in Op
  BY DEF PlacesOK, PlaceOK
<1>1. run[r].pc = "stop" /\ run[r].then = "caught"
  BY DEF StopThrows
<1>2. /\ run' \in [Runner -> Runs] /\ \A s \in Runner : s # r => run'[s] = run[s]
      /\ run'[r].pc = "caught" /\ run'[r].op = o /\ run'[r].claim = run[r].claim
      /\ run'[r].gen = run[r].gen /\ run'[r].then = run[r].then
  BY <1>t, GotoEffects DEF Early, Trying, Ending
<1>3. /\ slot' \in Slots /\ revoked' \in Nat /\ slot'.gen = slot.gen /\ revoked' \in {revoked, run[r].gen}
      /\ slot.gen = run[r].gen => slot'.state = "revoked"
      /\ slot.gen # run[r].gen => slot' = slot
  <2>1. Stopped(run[r].gen) /\ run[r].gen \in Nat
    BY <1>t DEF StopThrows, Runs
  <2> QED BY <2>1, <1>t, StoppedEffects DEF OtherTypes
<1>4. NoRun.pc = "idle"
  BY Nothings
<1>5. OtherTypes'
  BY <1>t, <1>1, <1>2, <1>3, <1>4, <1>u DEF OtherTypes
<1>6. KnownOK'
  BY <1>t, <1>1, <1>2, <1>3, <1>4, <1>u DEF KnownOK
<1>7. ExecOK'
  BY <1>t, <1>1, <1>2, <1>3, <1>4, <1>n, <1>u DEF ExecOK, GensOK, Executing
<1>8. BoxOK'
  BY <1>t, <1>1, <1>2, <1>3, <1>4, <1>u DEF BoxOK, ExecOK
<1>9. PlacesOK'
  BY <1>t, <1>1, <1>2, <1>3, <1>4, <1>u DEF PlacesOK, PlaceOK, Holds, Early, Trying, Ending,
     Terminal, RecordsOK
<1>10. GensOK'
  BY <1>t, <1>1, <1>2, <1>3, <1>4, <1>n, <1>u DEF GensOK, Executing
<1>11. StoreOK'
  BY <1>t, <1>1, <1>2, <1>3, <1>4, <1>u DEF StoreOK, Holds, Quiet, Trying, PlacesOK, PlaceOK,
     Early, Ending, Terminal
<1>12. LandedOK'
  BY <1>t, <1>1, <1>2, <1>3, <1>4, <1>c, <1>u DEF LandedOK, Holds, Terminal, RecordsOK
<1>13. StorageTypes' /\ IndexOK' /\ RecordsOK' /\ PutsOK' /\ WroteOK' /\ IntactOK' /\ CleanedUp'
   /\ ReaderOK'
  BY <1>u, StorageTypesFrame, IndexOKFrame, RecordsOKFrame, PutsOKFrame, WroteOKFrame,
     IntactOKFrame, CleanedUpFrame, ReaderOKFrame
<1> QED BY <1>5, <1>6, <1>7, <1>8, <1>9, <1>10, <1>11, <1>12, <1>13

\* It throws in a reconciliation, and the run ends.
LEMMA StopThrowsEnds ==
  ASSUME NativeInv, NEW r \in Runner, StopThrows(r), Return(r)
  PROVE  NativeInv'
<1> USE DEF NativeInv
<1>t. /\ op \in [Op -> Records] /\ run \in [Runner -> Runs] /\ issued \in Nat
      /\ exec \in Execs /\ box \in Jobs
  BY DEF StorageTypes, OtherTypes
<1>n. /\ slot.gen \in Nat /\ revoked \in Nat /\ exec.gen \in Nat /\ box.gen \in Nat /\ issued \in Nat
      /\ \A s \in Runner : run[s].gen \in Nat
  BY DEF StorageTypes, OtherTypes, Slots, Execs, Jobs, Runs
<1>u. UNCHANGED <<ops, kinds, op, index, lease, reader, floor, exec, issued, deleting, shut,
   box, puts, stored, landed, queued, client, late, robbed, outrun>>
  BY DEF StopThrows, Stopped, Fault, Wake, Return, requestVars, storageVars, hostVars,
     outsideVars
<1>c. \A s \in Runner : run[s].pc # "idle" => run[s].op \in Op
  BY DEF PlacesOK, PlaceOK
<1>1. /\ run' \in [Runner -> Runs] /\ \A s \in Runner : s # r => run'[s] = run[s]
      /\ run'[r] = NoRun /\ run'[r].pc = "idle" /\ run'[r].claim = 0 /\ run'[r].op = None
      /\ run'[r].gen = 0
  BY <1>t, ReturnEffects, Nothings
<1>2. /\ slot' \in Slots /\ revoked' \in Nat /\ slot'.gen = slot.gen /\ revoked' \in {revoked, run[r].gen}
      /\ slot.gen = run[r].gen => slot'.state = "revoked"
      /\ slot.gen # run[r].gen => slot' = slot
  <2>1. Stopped(run[r].gen) /\ run[r].gen \in Nat
    BY <1>t DEF StopThrows, Runs
  <2> QED BY <2>1, <1>t, StoppedEffects DEF OtherTypes
<1>3. None \notin Op
  BY NativeAssumption
<1>4. OtherTypes'
  BY <1>t, <1>1, <1>2, <1>3, <1>u DEF OtherTypes
<1>5. KnownOK'
  BY <1>t, <1>1, <1>2, <1>3, <1>u DEF KnownOK
<1>6. ExecOK'
  BY <1>t, <1>1, <1>2, <1>3, <1>n, <1>u DEF ExecOK, GensOK, Executing
<1>7. BoxOK'
  BY <1>t, <1>1, <1>2, <1>3, <1>u DEF BoxOK, ExecOK
<1>8. PlacesOK'
  BY <1>t, <1>1, <1>2, <1>3, <1>u DEF PlacesOK, PlaceOK, Holds, Early, Trying, Ending, Terminal,
     RecordsOK
<1>9. GensOK'
  BY <1>t, <1>1, <1>2, <1>3, <1>n, <1>u DEF GensOK, Executing
<1>10. StoreOK'
  BY <1>t, <1>1, <1>2, <1>3, <1>u DEF StoreOK, Holds, Quiet, Trying, PlacesOK, PlaceOK, Early,
     Ending, Terminal
<1>11. LandedOK'
  BY <1>t, <1>1, <1>2, <1>3, <1>c, <1>u DEF LandedOK, Holds, Terminal, RecordsOK
<1>12. StorageTypes' /\ IndexOK' /\ RecordsOK' /\ PutsOK' /\ WroteOK' /\ IntactOK' /\ CleanedUp'
   /\ ReaderOK'
  BY <1>u, StorageTypesFrame, IndexOKFrame, RecordsOKFrame, PutsOKFrame, WroteOKFrame,
     IntactOKFrame, CleanedUpFrame, ReaderOKFrame
<1> QED BY <1>4, <1>5, <1>6, <1>7, <1>8, <1>9, <1>10, <1>11, <1>12

\* claimOperationAttempt: the new claim is nobody else's.
LEMMA ClaimStep ==
  ASSUME NativeInv, NEW r \in Runner, NEW o \in Op, run[r].op = o, Claim(r), Claimable(o)
  PROVE  NativeInv'
<1> USE DEF NativeInv
<1>t. /\ op \in [Op -> Records] /\ run \in [Runner -> Runs] /\ issued \in Nat
      /\ exec \in Execs /\ box \in Jobs
  BY DEF StorageTypes, OtherTypes
<1>n. /\ slot.gen \in Nat /\ revoked \in Nat /\ exec.gen \in Nat /\ box.gen \in Nat /\ issued \in Nat
      /\ \A s \in Runner : run[s].gen \in Nat
  BY DEF StorageTypes, OtherTypes, Slots, Execs, Jobs, Runs
<1>u. UNCHANGED <<ops, faults, kinds, index, reader, floor, exec, issued, deleting, alarm, slot,
   revoked, shut, box, puts, stored, landed, queued, client, late, robbed, outrun>>
  BY DEF Claim, Claimable, requestVars, storageVars, hostVars, outsideVars
<1>b. box.gen # 0 => box.op \in Op
  BY DEF BoxOK, ExecOK
<1>c. \A s \in Runner : run[s].pc # "idle" => run[s].op \in Op
  BY DEF PlacesOK, PlaceOK
<1>1. /\ run[r].pc = "claim" /\ op[o].state \in {"staged", "processing", "ready", "finalizing"}
      /\ lease' = [op |-> o, live |-> TRUE]
  <2>1. op[o].state \in States
    BY <1>t DEF Records
  <2> QED BY <2>1 DEF Claim, Claimable, States, Terminal
<1>2. /\ FreshClaim \in Claims /\ FreshClaim # 0 /\ \A q \in Op : op[q].claim # FreshClaim
      /\ \A s \in Runner : run[s].claim # FreshClaim
  BY <1>t, FreshClaimOK
<1>3. /\ op' \in [Op -> Records] /\ \A q \in Op : q # o => op'[q] = op[q]
      /\ op'[o].state = IF op[o].state \in {"ready", "finalizing"} THEN "finalizing" ELSE "processing"
      /\ op'[o].claim = FreshClaim /\ op'[o].result = op[o].result
      /\ (op'[o].cleanup <=> op[o].cleanup) /\ (op'[o].fresh <=> op[o].fresh)
  <2> DEFINE done == op[o].state \in {"ready", "finalizing"}
             st == IF done THEN "finalizing" ELSE "processing"
             at == IF done THEN op[o].attempts ELSE op[o].attempts + 1
             a == [op[o] EXCEPT !.state = st, !.attempts = at, !.claim = FreshClaim, !.live = TRUE]
  <2>1. op' = [op EXCEPT ![o] = a]
    BY DEF Claim
  <2>2. op[o] \in Records
    BY <1>t
  <2>0. st \in States /\ at \in Int
    BY <2>2 DEF Records, States
  <2>4. st = (IF done THEN "finalizing" ELSE "processing")
    OBVIOUS
  <2> HIDE DEF st, at
  <2>3. /\ a \in Records /\ a.state = st
        /\ a.claim = FreshClaim /\ a.result = op[o].result /\ a.cleanup = op[o].cleanup
        /\ a.fresh = op[o].fresh
    BY <1>2, <2>0, <2>2 DEF Records
  <2> HIDE DEF a
  <2> QED BY <1>t, <2>1, <2>3, <2>4
<1>4. /\ run' \in [Runner -> Runs] /\ \A s \in Runner : s # r => run'[s] = run[s]
      /\ run'[r].pc = IF op[o].state \in {"ready", "finalizing"} THEN "finalize" ELSE "read"
      /\ run'[r].op = o /\ run'[r].claim = FreshClaim /\ run'[r].gen = 0
  <2>0. op'[o].attempts \in Int
    BY <1>3 DEF Records
  <2>1. run' = [run EXCEPT ![r] = [NoRun EXCEPT !.op = o, !.claim = FreshClaim,
          !.attempts = op'[o].attempts,
          !.pc = IF op[o].state \in {"ready", "finalizing"} THEN "finalize" ELSE "read"]]
    BY DEF Claim
  <2> QED BY <1>t, <1>2, <2>0, <2>1 DEF Runs, NoRun, Trying, Ending
<1>5. NoRun.pc = "idle"
  BY Nothings
<1>6. StorageTypes'
  BY <1>t, <1>1, <1>2, <1>3, <1>4, <1>5, <1>u DEF StorageTypes, Leases
<1>7. OtherTypes'
  BY <1>t, <1>1, <1>2, <1>3, <1>4, <1>5, <1>u DEF OtherTypes
<1>8. IndexOK'
  BY <1>1, <1>3, <1>u DEF IndexOK
<1>9. KnownOK'
  BY <1>t, <1>1, <1>2, <1>3, <1>4, <1>5, <1>u DEF KnownOK
<1>10. RecordsOK'
  BY <1>t, <1>1, <1>2, <1>3, <1>4, <1>5, <1>u DEF RecordsOK, Terminal
<1>11. WroteOK'
  BY <1>1, <1>3, <1>b, <1>u DEF WroteOK, Terminal
<1>12. PlacesOK'
  BY <1>t, <1>1, <1>2, <1>3, <1>4, <1>5, <1>u DEF PlacesOK, PlaceOK, Holds, Early, Trying,
     Ending, Terminal, RecordsOK
<1>13. GensOK'
  BY <1>t, <1>1, <1>2, <1>3, <1>4, <1>5, <1>n, <1>u DEF GensOK, Executing
<1>14. StoreOK'
  BY <1>t, <1>1, <1>2, <1>3, <1>4, <1>5, <1>u DEF StoreOK, Holds, Quiet, Trying, PlacesOK,
     PlaceOK, Early, Ending, Terminal
<1>15. IntactOK'
  BY <1>t, <1>1, <1>2, <1>3, <1>4, <1>5, <1>u DEF IntactOK, Quiet
<1>16. LandedOK'
  BY <1>t, <1>1, <1>2, <1>3, <1>4, <1>5, <1>c, <1>u DEF LandedOK, Holds, Terminal, RecordsOK,
     PlacesOK, PlaceOK, Early, Trying, Ending
<1>17. CleanedUp'
  BY <1>t, <1>1, <1>2, <1>3, <1>4, <1>5, <1>u DEF CleanedUp, Terminal
<1>18. ReaderOK'
  BY <1>t, <1>1, <1>2, <1>3, <1>4, <1>5, <1>u DEF ReaderOK, Superseded, KnownOK
<1>19. ExecOK' /\ PutsOK' /\ BoxOK'
  BY <1>u, ExecOKFrame, PutsOKFrame, BoxOKFrame
<1> QED BY <1>6, <1>7, <1>8, <1>9, <1>10, <1>11, <1>12, <1>13, <1>14, <1>15, <1>16, <1>17,
   <1>18, <1>19

\* An operation whose catalog is gone fails.
LEMMA SupersededStep ==
  ASSUME NativeInv, NEW r \in Runner, NEW o \in Op, run[r].op = o, AcquireReader(r), run' = [run
     EXCEPT ![r].pc = "fail", ![r].then = "superseded"], UNCHANGED <<op, reader, alarm>>
  PROVE  NativeInv'
<1> USE DEF NativeInv
<1>t. /\ op \in [Op -> Records] /\ run \in [Runner -> Runs] /\ issued \in Nat
      /\ exec \in Execs /\ box \in Jobs
  BY DEF StorageTypes, OtherTypes
<1>n. /\ slot.gen \in Nat /\ revoked \in Nat /\ exec.gen \in Nat /\ box.gen \in Nat /\ issued \in Nat
      /\ \A s \in Runner : run[s].gen \in Nat
  BY DEF StorageTypes, OtherTypes, Slots, Execs, Jobs, Runs
<1>u. UNCHANGED <<ops, faults, kinds, op, index, lease, reader, floor, exec, issued, deleting,
   alarm, slot, revoked, shut, box, puts, stored, landed, queued, client, late, robbed, outrun>>
  BY DEF AcquireReader, requestVars, storageVars, hostVars, outsideVars
<1>c. \A s \in Runner : run[s].pc # "idle" => run[s].op \in Op
  BY DEF PlacesOK, PlaceOK
<1>1. run[r].pc = "read"
  BY DEF AcquireReader
<1>2. /\ run' \in [Runner -> Runs] /\ \A s \in Runner : s # r => run'[s] = run[s]
      /\ run'[r].pc = "fail" /\ run'[r].op = o /\ run'[r].claim = run[r].claim
      /\ run'[r].gen = run[r].gen /\ run'[r].then = "superseded"
  <2> DEFINE a == [run[r] EXCEPT !.pc = "fail", !.then = "superseded"]
  <2>1. run' = [run EXCEPT ![r] = a]
    OBVIOUS
  <2>2. run[r] \in Runs
    BY <1>t
  <2>3. /\ a \in Runs /\ a.pc = "fail" /\ a.op = run[r].op /\ a.claim = run[r].claim
        /\ a.gen = run[r].gen /\ a.then = "superseded"
    BY <2>2 DEF Runs, Trying
  <2> HIDE DEF a
  <2> QED BY <1>t, <2>1, <2>3
<1>3. NoRun.pc = "idle"
  BY Nothings
<1>4. OtherTypes'
  BY <1>t, <1>1, <1>2, <1>3, <1>u DEF OtherTypes
<1>5. KnownOK'
  BY <1>t, <1>1, <1>2, <1>3, <1>u DEF KnownOK
<1>6. PlacesOK'
  <2>1. ASSUME NEW s \in Runner, s # r PROVE PlaceOK(s)'
    BY <1>t, <1>1, <1>2, <1>3, <1>u, <2>1 DEF PlacesOK, PlaceOK, Holds
  <2>2. PlaceOK(r)'
    <3>1. run[r].claim # 0 /\ (Holds(r) => op[o].state = "processing")
      BY <1>1 DEF PlacesOK, PlaceOK, Trying
    <3>2. Holds(r)' <=> Holds(r)
      BY <1>2, <1>u DEF Holds
    <3> QED BY <1>2, <1>3, <1>u, <3>1, <3>2 DEF PlaceOK, Early, Trying, Ending
  <2>3. \A x, y \in Runner : run'[x].claim = run'[y].claim /\ run'[x].claim # 0 => x = y
    BY <1>t, <1>1, <1>2, <1>3, <1>u DEF PlacesOK
  <2> QED BY <2>1, <2>2, <2>3 DEF PlacesOK
<1>7. GensOK'
  BY <1>t, <1>1, <1>2, <1>3, <1>n, <1>u DEF GensOK, Executing
<1>8. StoreOK'
  BY <1>t, <1>1, <1>2, <1>3, <1>u DEF StoreOK, Holds, Quiet, Trying, PlacesOK, PlaceOK, Early,
     Ending, Terminal
<1>9. LandedOK'
  BY <1>t, <1>1, <1>2, <1>3, <1>c, <1>u DEF LandedOK, Holds, Terminal, RecordsOK
<1>10. StorageTypes' /\ IndexOK' /\ RecordsOK' /\ ExecOK' /\ PutsOK' /\ BoxOK' /\ WroteOK' /\
   IntactOK' /\ CleanedUp' /\ ReaderOK'
  BY <1>u, StorageTypesFrame, IndexOKFrame, RecordsOKFrame, ExecOKFrame, PutsOKFrame,
     BoxOKFrame, WroteOKFrame, IntactOKFrame, CleanedUpFrame, ReaderOKFrame
<1> QED BY <1>4, <1>5, <1>6, <1>7, <1>8, <1>9, <1>10

\* Without the reader lease the operation is staged again.
LEMMA ReaderBusyStep ==
  ASSUME NativeInv, NEW r \in Runner, NEW o \in Op, run[r].op = o, AcquireReader(r), op' = IF
     Holds(r) THEN [op EXCEPT ![o] = [Unclaimed(o, "staged") EXCEPT !.attempts = @ - 1]] ELSE
     op, Return(r), UNCHANGED reader
  PROVE  NativeInv'
<1> USE DEF NativeInv
<1>t. /\ op \in [Op -> Records] /\ run \in [Runner -> Runs] /\ issued \in Nat
      /\ exec \in Execs /\ box \in Jobs
  BY DEF StorageTypes, OtherTypes
<1>n. /\ slot.gen \in Nat /\ revoked \in Nat /\ exec.gen \in Nat /\ box.gen \in Nat /\ issued \in Nat
      /\ \A s \in Runner : run[s].gen \in Nat
  BY DEF StorageTypes, OtherTypes, Slots, Execs, Jobs, Runs
<1>u. UNCHANGED <<ops, faults, kinds, index, lease, reader, floor, exec, issued, deleting, slot,
   revoked, shut, box, puts, stored, landed, queued, client, late, robbed, outrun>>
  BY DEF AcquireReader, Wake, Return, requestVars, storageVars, hostVars, outsideVars
<1>b. box.gen # 0 => box.op \in Op
  BY DEF BoxOK, ExecOK
<1>c. \A s \in Runner : run[s].pc # "idle" => run[s].op \in Op
  BY DEF PlacesOK, PlaceOK
<1>1. run[r].pc = "read"
  BY DEF AcquireReader
<1>2. /\ op' \in [Op -> Records] /\ \A q \in Op : q # o => op'[q] = op[q]
      /\ ~Holds(r) => op' = op
      /\ Holds(r) => /\ op'[o].state = "staged" /\ op'[o].claim = 0 /\ op'[o].result = op[o].result
                     /\ (op'[o].cleanup <=> op[o].cleanup) /\ (op'[o].fresh <=> op[o].fresh)
  <2> DEFINE u == Unclaimed(o, "staged")  a == [u EXCEPT !.attempts = @ - 1]
  <2>1. "staged" \in States
    BY DEF States
  <2>2. /\ u \in Records /\ u.state = "staged" /\ u.claim = 0 /\ u.result = op[o].result
        /\ (u.cleanup <=> op[o].cleanup) /\ (u.fresh <=> op[o].fresh)
    BY <1>t, <2>1, UnclaimedEffects
  <2>3. op' = IF Holds(r) THEN [op EXCEPT ![o] = a] ELSE op
    OBVIOUS
  <2> HIDE DEF u
  <2>4. /\ a \in Records /\ a.state = u.state /\ a.claim = u.claim /\ a.result = u.result
        /\ a.cleanup = u.cleanup /\ a.fresh = u.fresh
    BY <2>2 DEF Records
  <2> HIDE DEF a
  <2> QED BY <1>t, <2>2, <2>3, <2>4
<1>3. /\ run' \in [Runner -> Runs] /\ \A s \in Runner : s # r => run'[s] = run[s]
      /\ run'[r] = NoRun /\ run'[r].pc = "idle" /\ run'[r].claim = 0 /\ run'[r].op = None
      /\ run'[r].gen = 0
  BY <1>t, ReturnEffects, Nothings
<1>4. None \notin Op
  BY NativeAssumption
<1>5. Holds(r) => op[o].state = "processing" /\ run[r].claim # 0
  BY <1>1 DEF PlacesOK, PlaceOK, Trying
<1>6. StorageTypes'
  BY <1>t, <1>1, <1>2, <1>3, <1>4, <1>5, <1>u DEF StorageTypes
<1>7. OtherTypes'
  BY <1>t, <1>1, <1>2, <1>3, <1>4, <1>5, <1>u DEF OtherTypes
<1>8. IndexOK'
  BY <1>t, <1>1, <1>2, <1>3, <1>4, <1>5, <1>u DEF IndexOK
<1>9. KnownOK'
  BY <1>t, <1>1, <1>2, <1>3, <1>4, <1>5, <1>u DEF KnownOK
<1>10. RecordsOK'
  BY <1>t, <1>1, <1>2, <1>3, <1>4, <1>5, <1>u DEF RecordsOK, Terminal
<1>11. WroteOK'
  BY <1>t, <1>1, <1>2, <1>3, <1>4, <1>5, <1>b, <1>u DEF WroteOK, Terminal
<1>12. PlacesOK'
  BY <1>t, <1>1, <1>2, <1>3, <1>4, <1>5, <1>u DEF PlacesOK, PlaceOK, Holds, Early, Trying,
     Ending, Terminal, RecordsOK
<1>13. GensOK'
  BY <1>t, <1>1, <1>2, <1>3, <1>4, <1>5, <1>n, <1>u DEF GensOK, Executing
<1>14. StoreOK'
  BY <1>t, <1>1, <1>2, <1>3, <1>4, <1>5, <1>u DEF StoreOK, Holds, Quiet, Trying, PlacesOK,
     PlaceOK, Early, Ending, Terminal
<1>15. IntactOK'
  BY <1>t, <1>1, <1>2, <1>3, <1>4, <1>5, <1>u DEF IntactOK, Quiet
<1>16. LandedOK'
  BY <1>t, <1>1, <1>2, <1>3, <1>4, <1>5, <1>c, <1>u DEF LandedOK, Holds, Terminal, RecordsOK,
     PlacesOK, PlaceOK, Early, Trying, Ending
<1>17. CleanedUp'
  BY <1>t, <1>1, <1>2, <1>3, <1>4, <1>5, <1>u DEF CleanedUp, Terminal
<1>18. ReaderOK'
  BY <1>t, <1>1, <1>2, <1>3, <1>4, <1>5, <1>u DEF ReaderOK, Superseded, KnownOK
<1>19. ExecOK' /\ PutsOK' /\ BoxOK'
  BY <1>u, ExecOKFrame, PutsOKFrame, BoxOKFrame
<1> QED BY <1>6, <1>7, <1>8, <1>9, <1>10, <1>11, <1>12, <1>13, <1>14, <1>15, <1>16, <1>17,
   <1>18, <1>19

\* The reader lease is taken for a catalog that is still there.
LEMMA ReaderStep ==
  ASSUME NativeInv, NEW r \in Runner, NEW o \in Op, run[r].op = o, AcquireReader(r), deleting =
     "no" /\ ~Superseded(o), reader' = [op |-> o, live |-> TRUE], Goto(r, "begin"), UNCHANGED
     <<op, alarm>>
  PROVE  NativeInv'
<1> USE DEF NativeInv
<1>t. /\ op \in [Op -> Records] /\ run \in [Runner -> Runs] /\ issued \in Nat
      /\ exec \in Execs /\ box \in Jobs
  BY DEF StorageTypes, OtherTypes
<1>n. /\ slot.gen \in Nat /\ revoked \in Nat /\ exec.gen \in Nat /\ box.gen \in Nat /\ issued \in Nat
      /\ \A s \in Runner : run[s].gen \in Nat
  BY DEF StorageTypes, OtherTypes, Slots, Execs, Jobs, Runs
<1>u. UNCHANGED <<ops, faults, kinds, op, index, lease, floor, exec, issued, deleting, alarm,
   slot, revoked, shut, box, puts, stored, landed, queued, client, late, robbed, outrun>>
  BY DEF AcquireReader, requestVars, storageVars, hostVars, outsideVars
<1>c. \A s \in Runner : run[s].pc # "idle" => run[s].op \in Op
  BY DEF PlacesOK, PlaceOK
<1>1. run[r].pc = "read"
  BY DEF AcquireReader
<1>2. reader' = [op |-> o, live |-> TRUE] /\ reader' \in Readers /\ reader'.op = o /\ ~Superseded(o)
  BY DEF Readers
<1>3. /\ run' \in [Runner -> Runs] /\ \A s \in Runner : s # r => run'[s] = run[s]
      /\ run'[r].pc = "begin" /\ run'[r].op = o /\ run'[r].claim = run[r].claim
      /\ run'[r].gen = run[r].gen /\ run'[r].then = run[r].then
  BY <1>t, GotoEffects DEF Early, Trying, Ending
<1>4. NoRun.pc = "idle"
  BY Nothings
<1>5. StorageTypes'
  BY <1>t, <1>1, <1>2, <1>3, <1>4, <1>u DEF StorageTypes
<1>6. OtherTypes'
  BY <1>t, <1>1, <1>2, <1>3, <1>4, <1>u DEF OtherTypes
<1>7. KnownOK'
  BY <1>t, <1>1, <1>2, <1>3, <1>4, <1>u DEF KnownOK
<1>8. PlacesOK'
  BY <1>t, <1>1, <1>2, <1>3, <1>4, <1>u DEF PlacesOK, PlaceOK, Holds, Early, Trying, Ending,
     Terminal, RecordsOK
<1>9. GensOK'
  BY <1>t, <1>1, <1>2, <1>3, <1>4, <1>n, <1>u DEF GensOK, Executing
<1>10. StoreOK'
  BY <1>t, <1>1, <1>2, <1>3, <1>4, <1>u DEF StoreOK, Holds, Quiet, Trying, PlacesOK, PlaceOK,
     Early, Ending, Terminal
<1>11. LandedOK'
  BY <1>t, <1>1, <1>2, <1>3, <1>4, <1>c, <1>u DEF LandedOK, Holds, Terminal, RecordsOK
<1>12. ReaderOK'
  BY <1>t, <1>1, <1>2, <1>3, <1>4, <1>u DEF ReaderOK, Superseded, KnownOK
<1>13. IndexOK' /\ RecordsOK' /\ ExecOK' /\ PutsOK' /\ BoxOK' /\ WroteOK' /\ IntactOK' /\
   CleanedUp'
  BY <1>u, IndexOKFrame, RecordsOKFrame, ExecOKFrame, PutsOKFrame, BoxOKFrame, WroteOKFrame,
     IntactOKFrame, CleanedUpFrame
<1> QED BY <1>5, <1>6, <1>7, <1>8, <1>9, <1>10, <1>11, <1>12, <1>13

\* beginNativeExecution: the last execution has drained.
LEMMA BeginStep ==
  ASSUME NativeInv, NEW r \in Runner, NEW o \in Op, run[r].op = o, Begin(r), MayBegin(o,
     run[r].claim)
  PROVE  NativeInv'
<1> USE DEF NativeInv
<1>t. /\ op \in [Op -> Records] /\ run \in [Runner -> Runs] /\ issued \in Nat
      /\ exec \in Execs /\ box \in Jobs
  BY DEF StorageTypes, OtherTypes
<1>n. /\ slot.gen \in Nat /\ revoked \in Nat /\ exec.gen \in Nat /\ box.gen \in Nat /\ issued \in Nat
      /\ \A s \in Runner : run[s].gen \in Nat
  BY DEF StorageTypes, OtherTypes, Slots, Execs, Jobs, Runs
<1>u. UNCHANGED <<ops, faults, kinds, op, index, lease, reader, floor, deleting, alarm, slot,
   revoked, shut, box, puts, stored, landed, queued, client, late, robbed, outrun>>
  BY DEF Begin, requestVars, storageVars, hostVars, outsideVars
<1>c. \A s \in Runner : run[s].pc # "idle" => run[s].op \in Op
  BY DEF PlacesOK, PlaceOK
<1>1. run[r].pc = "begin"
  BY DEF Begin
<1>2. /\ op[o].state = "processing" /\ op[o].claim = run[r].claim /\ run[r].claim # 0
      /\ puts = {} /\ box.gen = 0
  BY <1>1 DEF MayBegin, OwnsClaim, PutsOK, BoxOK, PlacesOK, PlaceOK, Trying
<1>3. /\ issued' = issued + 1 /\ exec' \in Execs /\ exec'.gen = issued + 1 /\ exec'.op = o
      /\ exec'.state = "active" /\ ~exec'.stop /\ ~exec'.drain
  <2>1. run[r].claim \in {0} \cup Claims
    BY <1>t DEF Runs
  <2>2. exec' = [NoExec EXCEPT !.gen = issued + 1, !.op = o, !.claim = run[r].claim, !.state = "active"]
    BY DEF Begin
  <2>3. exec'.stop = FALSE /\ exec'.drain = FALSE
    BY <2>2, Zenon DEF NoExec
  <2>4. exec' \in Execs /\ exec'.gen = issued + 1 /\ exec'.op = o /\ exec'.state = "active"
    <3>1. NoExec \in Execs
      BY DEF NoExec, Execs
    <3>2. issued + 1 \in Nat
      BY <1>n
    <3> QED BY ONLY <2>1, <2>2, <3>1, <3>2, o \in Op DEF Execs
  <2>5. issued' = issued + 1
    BY DEF Begin
  <2> QED BY <2>3, <2>4, <2>5
<1>4. /\ run' \in [Runner -> Runs] /\ \A s \in Runner : s # r => run'[s] = run[s]
      /\ run'[r].pc = "start" /\ run'[r].op = o /\ run'[r].claim = run[r].claim
      /\ run'[r].gen = issued + 1
  <2> DEFINE a == [run[r] EXCEPT !.pc = "start", !.gen = issued + 1]
  <2>1. run' = [run EXCEPT ![r] = a]
    BY DEF Begin
  <2>2. run[r] \in Runs
    BY <1>t
  <2>3. /\ a \in Runs /\ a.pc = "start" /\ a.op = run[r].op /\ a.claim = run[r].claim
        /\ a.gen = issued + 1 /\ a.then = run[r].then
    <3>1. issued + 1 \in Nat
      BY <1>n
    <3> QED BY ONLY <2>2, <3>1 DEF Runs, Trying
  <2> HIDE DEF a
  <2> QED BY <1>t, <2>1, <2>3
<1>5. NoRun.pc = "idle"
  BY Nothings
<1>6. StorageTypes'
  BY <1>t, <1>1, <1>2, <1>3, <1>4, <1>5, <1>u DEF StorageTypes
<1>7. OtherTypes'
  BY <1>t, <1>1, <1>2, <1>3, <1>4, <1>5, <1>u DEF OtherTypes
<1>8. KnownOK'
  BY <1>t, <1>1, <1>2, <1>3, <1>4, <1>5, <1>u DEF KnownOK
<1>9. RecordsOK'
  BY <1>t, <1>1, <1>2, <1>3, <1>4, <1>5, <1>u DEF RecordsOK, Terminal
<1>10. ExecOK'
  BY <1>t, <1>1, <1>2, <1>3, <1>4, <1>5, <1>n, <1>u DEF ExecOK
<1>11. PutsOK'
  BY <1>t, <1>1, <1>2, <1>3, <1>4, <1>5, <1>u DEF PutsOK, ExecOK
<1>12. BoxOK'
  BY <1>t, <1>1, <1>2, <1>3, <1>4, <1>5, <1>u DEF BoxOK, ExecOK
<1>13. PlacesOK'
  BY <1>t, <1>1, <1>2, <1>3, <1>4, <1>5, <1>u DEF PlacesOK, PlaceOK, Holds, Early, Trying,
     Ending, Terminal, RecordsOK
<1>14. GensOK'
  BY <1>t, <1>1, <1>2, <1>3, <1>4, <1>5, <1>n, <1>u DEF GensOK, Executing, ExecOK
<1>15. StoreOK'
  BY <1>t, <1>1, <1>2, <1>3, <1>4, <1>5, <1>u DEF StoreOK, Holds, Quiet, Trying, PlacesOK,
     PlaceOK, Early, Ending, Terminal
<1>16. IntactOK'
  BY <1>t, <1>1, <1>2, <1>3, <1>4, <1>5, <1>u DEF IntactOK, Quiet
<1>17. LandedOK'
  BY <1>t, <1>1, <1>2, <1>3, <1>4, <1>5, <1>c, <1>u DEF LandedOK, Holds, Terminal, RecordsOK
<1>18. IndexOK' /\ WroteOK' /\ CleanedUp' /\ ReaderOK'
  BY <1>u, IndexOKFrame, WroteOKFrame, CleanedUpFrame, ReaderOKFrame
<1> QED BY <1>6, <1>7, <1>8, <1>9, <1>10, <1>11, <1>12, <1>13, <1>14, <1>15, <1>16, <1>17, <1>18

\* An execution that may not begin is an error.
LEMMA BeginRefused ==
  ASSUME NativeInv, NEW r \in Runner, NEW o \in Op, run[r].op = o, Begin(r), ~MayBegin(o,
     run[r].claim)
  PROVE  NativeInv'
<1> USE DEF NativeInv
<1>t. /\ op \in [Op -> Records] /\ run \in [Runner -> Runs] /\ issued \in Nat
      /\ exec \in Execs /\ box \in Jobs
  BY DEF StorageTypes, OtherTypes
<1>n. /\ slot.gen \in Nat /\ revoked \in Nat /\ exec.gen \in Nat /\ box.gen \in Nat /\ issued \in Nat
      /\ \A s \in Runner : run[s].gen \in Nat
  BY DEF StorageTypes, OtherTypes, Slots, Execs, Jobs, Runs
<1>u. UNCHANGED <<ops, faults, kinds, op, index, lease, reader, floor, exec, issued, deleting,
   alarm, slot, revoked, shut, box, puts, stored, landed, queued, client, late, robbed, outrun>>
  BY DEF Begin, requestVars, storageVars, hostVars, outsideVars
<1>c. \A s \in Runner : run[s].pc # "idle" => run[s].op \in Op
  BY DEF PlacesOK, PlaceOK
<1>1. run[r].pc = "begin"
  BY DEF Begin
<1>2. /\ run' \in [Runner -> Runs] /\ \A s \in Runner : s # r => run'[s] = run[s]
      /\ run'[r].pc = "caught" /\ run'[r].op = o /\ run'[r].claim = run[r].claim
      /\ run'[r].gen = run[r].gen /\ run'[r].then = run[r].then
  <2>1. Goto(r, "caught")
    BY DEF Begin
  <2> QED BY <1>t, <2>1, GotoEffects DEF Trying
<1>3. NoRun.pc = "idle"
  BY Nothings
<1>4. OtherTypes'
  BY <1>t, <1>1, <1>2, <1>3, <1>u DEF OtherTypes
<1>5. KnownOK'
  BY <1>t, <1>1, <1>2, <1>3, <1>u DEF KnownOK
<1>6. PlacesOK'
  BY <1>t, <1>1, <1>2, <1>3, <1>u DEF PlacesOK, PlaceOK, Holds, Early, Trying, Ending, Terminal,
     RecordsOK
<1>7. GensOK'
  BY <1>t, <1>1, <1>2, <1>3, <1>n, <1>u DEF GensOK, Executing
<1>8. StoreOK'
  BY <1>t, <1>1, <1>2, <1>3, <1>u DEF StoreOK, Holds, Quiet, Trying, PlacesOK, PlaceOK, Early,
     Ending, Terminal
<1>9. LandedOK'
  BY <1>t, <1>1, <1>2, <1>3, <1>c, <1>u DEF LandedOK, Holds, Terminal, RecordsOK
<1>10. StorageTypes' /\ IndexOK' /\ RecordsOK' /\ ExecOK' /\ PutsOK' /\ BoxOK' /\ WroteOK' /\
   IntactOK' /\ CleanedUp' /\ ReaderOK'
  BY <1>u, StorageTypesFrame, IndexOKFrame, RecordsOKFrame, ExecOKFrame, PutsOKFrame,
     BoxOKFrame, WroteOKFrame, IntactOKFrame, CleanedUpFrame, ReaderOKFrame
<1> QED BY <1>4, <1>5, <1>6, <1>7, <1>8, <1>9, <1>10

\* The slot is taken; a job left behind is gone by then.
LEMMA StartStep ==
  ASSUME NativeInv, NEW r \in Runner, NEW o \in Op, run[r].op = o, Start(r),
     MayStart(run[r].gen)
  PROVE  NativeInv'
<1> USE DEF NativeInv
<1>t. /\ op \in [Op -> Records] /\ run \in [Runner -> Runs] /\ issued \in Nat
      /\ exec \in Execs /\ box \in Jobs
  BY DEF StorageTypes, OtherTypes
<1>n. /\ slot.gen \in Nat /\ revoked \in Nat /\ exec.gen \in Nat /\ box.gen \in Nat /\ issued \in Nat
      /\ \A s \in Runner : run[s].gen \in Nat
  BY DEF StorageTypes, OtherTypes, Slots, Execs, Jobs, Runs
<1>u. UNCHANGED <<ops, faults, kinds, op, index, lease, reader, floor, exec, issued, deleting,
   alarm, revoked, shut, puts, stored, landed, queued, client, late, robbed, outrun>>
  BY DEF Start, Goto, requestVars, storageVars, hostVars, outsideVars
<1>b. box.gen # 0 => box.op \in Op
  BY DEF BoxOK, ExecOK
<1>c. \A s \in Runner : run[s].pc # "idle" => run[s].op \in Op
  BY DEF PlacesOK, PlaceOK
<1>1. run[r].pc = "start"
  BY DEF Start
<1>2. /\ run' \in [Runner -> Runs] /\ \A s \in Runner : s # r => run'[s] = run[s]
      /\ run'[r].pc = "ready" /\ run'[r].op = o /\ run'[r].claim = run[r].claim
      /\ run'[r].gen = run[r].gen /\ run'[r].then = run[r].then
  <2>1. Goto(r, "ready")
    BY DEF Start
  <2> QED BY <1>t, <2>1, GotoEffects DEF Trying
<1>3. /\ slot' \in Slots /\ slot'.gen = run[r].gen 
      /\ NoJob \in Jobs /\ NoJob.gen = 0 /\ (box' = NoJob \/ (box.gen = 0 /\ box' = box))
  <2>1. slot' = [gen |-> run[r].gen, state |-> "active"] /\ slot.state # "active"
    BY DEF Start, MayStart
  <2>2. box' = IF slot.state = "revoked" THEN NoJob ELSE box
    BY DEF Start
  <2>3. run[r].gen \in Nat
    BY <1>t DEF Runs
  <2> QED BY <2>1, <2>2, <2>3, Nothings DEF Slots, BoxOK
<1>4. NoRun.pc = "idle"
  BY Nothings
<1>5. OtherTypes'
  BY <1>t, <1>1, <1>2, <1>3, <1>4, <1>u DEF OtherTypes
<1>6. KnownOK'
  BY <1>t, <1>1, <1>2, <1>3, <1>4, <1>u DEF KnownOK
<1>7. ExecOK'
  BY <1>t, <1>1, <1>2, <1>3, <1>4, <1>n, <1>u DEF ExecOK, GensOK, Executing
<1>8. BoxOK'
  BY <1>t, <1>1, <1>2, <1>3, <1>4, <1>u DEF BoxOK, ExecOK
<1>9. WroteOK'
  BY <1>t, <1>1, <1>2, <1>3, <1>4, <1>b, <1>u DEF WroteOK, Terminal
<1>10. PlacesOK'
  BY <1>t, <1>1, <1>2, <1>3, <1>4, <1>u DEF PlacesOK, PlaceOK, Holds, Early, Trying, Ending,
     Terminal, RecordsOK
<1>11. GensOK'
  BY <1>t, <1>1, <1>2, <1>3, <1>4, <1>n, <1>u DEF GensOK, Executing
<1>12. StoreOK'
  BY <1>t, <1>1, <1>2, <1>3, <1>4, <1>u DEF StoreOK, Holds, Quiet, Trying, PlacesOK, PlaceOK,
     Early, Ending, Terminal
<1>13. LandedOK'
  BY <1>t, <1>1, <1>2, <1>3, <1>4, <1>c, <1>u DEF LandedOK, Holds, Terminal, RecordsOK
<1>14. StorageTypes' /\ IndexOK' /\ RecordsOK' /\ PutsOK' /\ IntactOK' /\ CleanedUp' /\
   ReaderOK'
  BY <1>u, StorageTypesFrame, IndexOKFrame, RecordsOKFrame, PutsOKFrame, IntactOKFrame,
     CleanedUpFrame, ReaderOKFrame
<1> QED BY <1>5, <1>6, <1>7, <1>8, <1>9, <1>10, <1>11, <1>12, <1>13, <1>14

\* A refused start cancels.
LEMMA StartRefused ==
  ASSUME NativeInv, NEW r \in Runner, NEW o \in Op, run[r].op = o, Start(r),
     ~MayStart(run[r].gen)
  PROVE  NativeInv'
<1> USE DEF NativeInv
<1>t. /\ op \in [Op -> Records] /\ run \in [Runner -> Runs] /\ issued \in Nat
      /\ exec \in Execs /\ box \in Jobs
  BY DEF StorageTypes, OtherTypes
<1>n. /\ slot.gen \in Nat /\ revoked \in Nat /\ exec.gen \in Nat /\ box.gen \in Nat /\ issued \in Nat
      /\ \A s \in Runner : run[s].gen \in Nat
  BY DEF StorageTypes, OtherTypes, Slots, Execs, Jobs, Runs
<1>u. UNCHANGED <<ops, faults, kinds, op, index, lease, reader, floor, issued, deleting, alarm,
   slot, revoked, shut, puts, stored, landed, queued, client, late, robbed, outrun>>
  BY DEF Start, Cancel, requestVars, storageVars, hostVars, outsideVars
<1>b. box.gen # 0 => box.op \in Op
  BY DEF BoxOK, ExecOK
<1>c. \A s \in Runner : run[s].pc # "idle" => run[s].op \in Op
  BY DEF PlacesOK, PlaceOK
<1>1. run[r].pc = "start"
  BY DEF Start
<1>2. /\ run' \in [Runner -> Runs] /\ \A s \in Runner : s # r => run'[s] = run[s]
      /\ run'[r].pc = "stop" /\ run'[r].op = o /\ run'[r].claim = run[r].claim
      /\ run'[r].gen = run[r].gen /\ run'[r].then = "caught"
      /\ exec' \in Execs /\ exec'.gen = exec.gen /\ exec'.op = exec.op
      /\ exec' = exec \/ (exec.gen = run[r].gen /\ exec.state = "active"
                          /\ exec'.state = "revoked" /\ exec'.stop /\ exec'.drain)
  <2>1. Cancel(r)
    BY DEF Start
  <2> QED BY <1>t, <2>1, CancelEffects
<1>3. /\ NoJob \in Jobs /\ NoJob.gen = 0 /\ (box' = NoJob \/ box' = box)
  BY Nothings DEF Start
<1>4. NoRun.pc = "idle"
  BY Nothings
<1>5. StorageTypes'
  BY <1>t, <1>1, <1>2, <1>3, <1>4, <1>u DEF StorageTypes
<1>6. OtherTypes'
  BY <1>t, <1>1, <1>2, <1>3, <1>4, <1>u DEF OtherTypes
<1>7. KnownOK'
  BY <1>t, <1>1, <1>2, <1>3, <1>4, <1>u DEF KnownOK
<1>8. ExecOK'
  BY <1>t, <1>1, <1>2, <1>3, <1>4, <1>n, <1>u DEF ExecOK
<1>9. PutsOK'
  BY <1>t, <1>1, <1>2, <1>3, <1>4, <1>u DEF PutsOK, ExecOK
<1>10. BoxOK'
  BY <1>t, <1>1, <1>2, <1>3, <1>4, <1>u DEF BoxOK, ExecOK
<1>11. WroteOK'
  BY <1>t, <1>1, <1>2, <1>3, <1>4, <1>b, <1>u DEF WroteOK, Terminal
<1>12. PlacesOK'
  BY <1>t, <1>1, <1>2, <1>3, <1>4, <1>u DEF PlacesOK, PlaceOK, Holds, Early, Trying, Ending,
     Terminal, RecordsOK
<1>13. GensOK'
  BY <1>t, <1>1, <1>2, <1>3, <1>4, <1>n, <1>u DEF GensOK, Executing
<1>14. StoreOK'
  BY <1>t, <1>1, <1>2, <1>3, <1>4, <1>u DEF StoreOK, Holds, Quiet, Trying, PlacesOK, PlaceOK,
     Early, Ending, Terminal
<1>15. IntactOK'
  BY <1>t, <1>1, <1>2, <1>3, <1>4, <1>u DEF IntactOK, Quiet
<1>16. LandedOK'
  BY <1>t, <1>1, <1>2, <1>3, <1>4, <1>c, <1>u DEF LandedOK, Holds, Terminal, RecordsOK
<1>17. IndexOK' /\ RecordsOK' /\ CleanedUp' /\ ReaderOK'
  BY <1>u, IndexOKFrame, RecordsOKFrame, CleanedUpFrame, ReaderOKFrame
<1> QED BY <1>5, <1>6, <1>7, <1>8, <1>9, <1>10, <1>11, <1>12, <1>13, <1>14, <1>15, <1>16, <1>17

\* A job is posted while its execution is active.
LEMMA PostStep ==
  ASSUME NativeInv, NEW r \in Runner, NEW o \in Op, run[r].op = o, Post(r),
     Authorized(run[r].gen) /\ slot = [gen |-> run[r].gen, state |-> "active"]
  PROVE  NativeInv'
<1> USE DEF NativeInv
<1>t. /\ op \in [Op -> Records] /\ run \in [Runner -> Runs] /\ issued \in Nat
      /\ exec \in Execs /\ box \in Jobs
  BY DEF StorageTypes, OtherTypes
<1>n. /\ slot.gen \in Nat /\ revoked \in Nat /\ exec.gen \in Nat /\ box.gen \in Nat /\ issued \in Nat
      /\ \A s \in Runner : run[s].gen \in Nat
  BY DEF StorageTypes, OtherTypes, Slots, Execs, Jobs, Runs
<1>u. UNCHANGED <<ops, faults, kinds, op, index, lease, reader, floor, exec, issued, deleting,
   alarm, slot, revoked, shut, puts, stored, landed, queued, client, late, robbed, outrun>>
  BY DEF Post, Goto, requestVars, storageVars, hostVars, outsideVars
<1>b. box.gen # 0 => box.op \in Op
  BY DEF BoxOK, ExecOK
<1>c. \A s \in Runner : run[s].pc # "idle" => run[s].op \in Op
  BY DEF PlacesOK, PlaceOK
<1>1. run[r].pc = "ready"
  BY DEF Post
<1>2. /\ run' \in [Runner -> Runs] /\ \A s \in Runner : s # r => run'[s] = run[s]
      /\ run'[r].pc = "await" /\ run'[r].op = o /\ run'[r].claim = run[r].claim
      /\ run'[r].gen = run[r].gen /\ run'[r].then = run[r].then
  <2>1. Goto(r, "await")
    BY DEF Post
  <2> QED BY <1>t, <2>1, GotoEffects DEF Trying
<1>3. /\ box' \in Jobs /\ box'.gen = run[r].gen /\ box'.op = o /\ box'.wrote = {}
  <2>1. run[r].gen \in Nat
    BY <1>t DEF Runs
  <2> QED BY <2>1 DEF Post, NoJob, Jobs
<1>4. /\ exec.gen = run[r].gen /\ exec.state = "active" /\ deleting = "no" /\ exec.op = o
      /\ slot.gen = run[r].gen /\ slot.state = "active"
  BY <1>1 DEF Authorized, OwnsClaim, GensOK, Executing
<1>5. NoRun.pc = "idle"
  BY Nothings
<1>6. OtherTypes'
  BY <1>t, <1>1, <1>2, <1>3, <1>4, <1>5, <1>u DEF OtherTypes
<1>7. KnownOK'
  BY <1>t, <1>1, <1>2, <1>3, <1>4, <1>5, <1>u DEF KnownOK
<1>8. BoxOK'
  BY <1>t, <1>1, <1>2, <1>3, <1>4, <1>5, <1>u DEF BoxOK, ExecOK
<1>9. WroteOK'
  BY <1>t, <1>1, <1>2, <1>3, <1>4, <1>5, <1>b, <1>u DEF WroteOK, Terminal
<1>10. PlacesOK'
  BY <1>t, <1>1, <1>2, <1>3, <1>4, <1>5, <1>u DEF PlacesOK, PlaceOK, Holds, Early, Trying,
     Ending, Terminal, RecordsOK
<1>11. GensOK'
  BY <1>t, <1>1, <1>2, <1>3, <1>4, <1>5, <1>n, <1>u DEF GensOK, Executing
<1>12. StoreOK'
  BY <1>t, <1>1, <1>2, <1>3, <1>4, <1>5, <1>u DEF StoreOK, Holds, Quiet, Trying, PlacesOK,
     PlaceOK, Early, Ending, Terminal
<1>13. LandedOK'
  BY <1>t, <1>1, <1>2, <1>3, <1>4, <1>5, <1>c, <1>u DEF LandedOK, Holds, Terminal, RecordsOK
<1>14. StorageTypes' /\ IndexOK' /\ RecordsOK' /\ ExecOK' /\ PutsOK' /\ IntactOK' /\ CleanedUp'
   /\ ReaderOK'
  BY <1>u, StorageTypesFrame, IndexOKFrame, RecordsOKFrame, ExecOKFrame, PutsOKFrame,
     IntactOKFrame, CleanedUpFrame, ReaderOKFrame
<1> QED BY <1>6, <1>7, <1>8, <1>9, <1>10, <1>11, <1>12, <1>13, <1>14

\* Otherwise the execution is cancelled.
LEMMA PostRefused ==
  ASSUME NativeInv, NEW r \in Runner, NEW o \in Op, run[r].op = o, Post(r),
     ~(Authorized(run[r].gen) /\ slot = [gen |-> run[r].gen, state |-> "active"])
  PROVE  NativeInv'
<1> USE DEF NativeInv
<1>t. /\ op \in [Op -> Records] /\ run \in [Runner -> Runs] /\ issued \in Nat
      /\ exec \in Execs /\ box \in Jobs
  BY DEF StorageTypes, OtherTypes
<1>n. /\ slot.gen \in Nat /\ revoked \in Nat /\ exec.gen \in Nat /\ box.gen \in Nat /\ issued \in Nat
      /\ \A s \in Runner : run[s].gen \in Nat
  BY DEF StorageTypes, OtherTypes, Slots, Execs, Jobs, Runs
<1>u. UNCHANGED <<ops, faults, kinds, op, index, lease, reader, floor, issued, deleting, alarm,
   slot, revoked, shut, box, puts, stored, landed, queued, client, late, robbed, outrun>>
  BY DEF Post, Cancel, requestVars, storageVars, hostVars, outsideVars
<1>c. \A s \in Runner : run[s].pc # "idle" => run[s].op \in Op
  BY DEF PlacesOK, PlaceOK
<1>1. run[r].pc = "ready"
  BY DEF Post
<1>2. /\ run' \in [Runner -> Runs] /\ \A s \in Runner : s # r => run'[s] = run[s]
      /\ run'[r].pc = "stop" /\ run'[r].op = o /\ run'[r].claim = run[r].claim
      /\ run'[r].gen = run[r].gen /\ run'[r].then = "caught"
      /\ exec' \in Execs /\ exec'.gen = exec.gen /\ exec'.op = exec.op
      /\ exec' = exec \/ (exec.gen = run[r].gen /\ exec.state = "active"
                          /\ exec'.state = "revoked" /\ exec'.stop /\ exec'.drain)
  <2>1. Cancel(r)
    BY DEF Post
  <2> QED BY <1>t, <2>1, CancelEffects
<1>3. NoRun.pc = "idle"
  BY Nothings
<1>4. StorageTypes'
  BY <1>t, <1>1, <1>2, <1>3, <1>u DEF StorageTypes
<1>5. OtherTypes'
  BY <1>t, <1>1, <1>2, <1>3, <1>u DEF OtherTypes
<1>6. KnownOK'
  BY <1>t, <1>1, <1>2, <1>3, <1>u DEF KnownOK
<1>7. ExecOK'
  BY <1>t, <1>1, <1>2, <1>3, <1>n, <1>u DEF ExecOK
<1>8. PutsOK'
  BY <1>t, <1>1, <1>2, <1>3, <1>u DEF PutsOK, ExecOK
<1>9. BoxOK'
  BY <1>t, <1>1, <1>2, <1>3, <1>u DEF BoxOK, ExecOK
<1>10. PlacesOK'
  BY <1>t, <1>1, <1>2, <1>3, <1>u DEF PlacesOK, PlaceOK, Holds, Early, Trying, Ending, Terminal,
     RecordsOK
<1>11. GensOK'
  BY <1>t, <1>1, <1>2, <1>3, <1>n, <1>u DEF GensOK, Executing
<1>12. StoreOK'
  BY <1>t, <1>1, <1>2, <1>3, <1>u DEF StoreOK, Holds, Quiet, Trying, PlacesOK, PlaceOK, Early,
     Ending, Terminal
<1>13. IntactOK'
  BY <1>t, <1>1, <1>2, <1>3, <1>u DEF IntactOK, Quiet
<1>14. LandedOK'
  BY <1>t, <1>1, <1>2, <1>3, <1>c, <1>u DEF LandedOK, Holds, Terminal, RecordsOK
<1>15. IndexOK' /\ RecordsOK' /\ WroteOK' /\ CleanedUp' /\ ReaderOK'
  BY <1>u, IndexOKFrame, RecordsOKFrame, WroteOKFrame, CleanedUpFrame, ReaderOKFrame
<1> QED BY <1>4, <1>5, <1>6, <1>7, <1>8, <1>9, <1>10, <1>11, <1>12, <1>13, <1>14, <1>15

\* container_not_ready completes an execution without a job.
LEMMA NotReadyStep ==
  ASSUME NativeInv, NEW r \in Runner, NEW o \in Op, run[r].op = o, NotReady(r)
  PROVE  NativeInv'
<1> USE DEF NativeInv
<1>t. /\ op \in [Op -> Records] /\ run \in [Runner -> Runs] /\ issued \in Nat
      /\ exec \in Execs /\ box \in Jobs
  BY DEF StorageTypes, OtherTypes
<1>n. /\ slot.gen \in Nat /\ revoked \in Nat /\ exec.gen \in Nat /\ box.gen \in Nat /\ issued \in Nat
      /\ \A s \in Runner : run[s].gen \in Nat
  BY DEF StorageTypes, OtherTypes, Slots, Execs, Jobs, Runs
<1>u. UNCHANGED <<ops, kinds, op, index, lease, reader, floor, issued, deleting, alarm, revoked,
   shut, box, puts, stored, landed, queued, client, late, robbed, outrun>>
  BY DEF NotReady, Fault, Goto, requestVars, storageVars, hostVars, outsideVars
<1>c. \A s \in Runner : run[s].pc # "idle" => run[s].op \in Op
  BY DEF PlacesOK, PlaceOK
<1>1. run[r].pc = "ready"
  BY DEF NotReady
<1>2. /\ run' \in [Runner -> Runs] /\ \A s \in Runner : s # r => run'[s] = run[s]
      /\ run'[r].pc = "caught" /\ run'[r].op = o /\ run'[r].claim = run[r].claim
      /\ run'[r].gen = run[r].gen /\ run'[r].then = run[r].then
  <2>1. Goto(r, "caught")
    BY DEF NotReady
  <2> QED BY <1>t, <2>1, GotoEffects DEF Trying
<1>3. /\ slot' \in Slots /\ slot'.gen = slot.gen /\ (slot' = slot \/ slot.gen = run[r].gen)
  BY SlotDoneEffects DEF NotReady, OtherTypes
<1>4. /\ exec' \in Execs /\ exec'.gen = exec.gen /\ exec'.op = exec.op
      /\ (exec'.stop <=> exec.stop) /\ (exec'.drain <=> exec.drain)
      /\ exec' = exec \/ (exec.gen = run[r].gen /\ exec.state = "active" /\ exec'.state = "completed")
  BY <1>t DEF NotReady, Authorized, Execs
<1>5. NoRun.pc = "idle"
  BY Nothings
<1>6. StorageTypes'
  BY <1>t, <1>1, <1>2, <1>3, <1>4, <1>5, <1>u DEF StorageTypes
<1>7. OtherTypes'
  BY <1>t, <1>1, <1>2, <1>3, <1>4, <1>5, <1>u DEF OtherTypes
<1>8. KnownOK'
  BY <1>t, <1>1, <1>2, <1>3, <1>4, <1>5, <1>u DEF KnownOK
<1>9. ExecOK'
  BY <1>t, <1>1, <1>2, <1>3, <1>4, <1>5, <1>n, <1>u DEF ExecOK
<1>10. PutsOK'
  BY <1>t, <1>1, <1>2, <1>3, <1>4, <1>5, <1>u DEF PutsOK, ExecOK, GensOK, Executing
<1>11. BoxOK'
  BY <1>t, <1>1, <1>2, <1>3, <1>4, <1>5, <1>u DEF BoxOK, ExecOK, GensOK, Executing
<1>12. PlacesOK'
  BY <1>t, <1>1, <1>2, <1>3, <1>4, <1>5, <1>u DEF PlacesOK, PlaceOK, Holds, Early, Trying,
     Ending, Terminal, RecordsOK
<1>13. GensOK'
  BY <1>t, <1>1, <1>2, <1>3, <1>4, <1>5, <1>n, <1>u DEF GensOK, Executing
<1>14. StoreOK'
  BY <1>t, <1>1, <1>2, <1>3, <1>4, <1>5, <1>u DEF StoreOK, Holds, Quiet, Trying, PlacesOK,
     PlaceOK, Early, Ending, Terminal
<1>15. IntactOK'
  BY <1>t, <1>1, <1>2, <1>3, <1>4, <1>5, <1>u DEF IntactOK, Quiet
<1>16. LandedOK'
  BY <1>t, <1>1, <1>2, <1>3, <1>4, <1>5, <1>c, <1>u DEF LandedOK, Holds, Terminal, RecordsOK
<1>17. IndexOK' /\ RecordsOK' /\ WroteOK' /\ CleanedUp' /\ ReaderOK'
  BY <1>u, IndexOKFrame, RecordsOKFrame, WroteOKFrame, CleanedUpFrame, ReaderOKFrame
<1> QED BY <1>6, <1>7, <1>8, <1>9, <1>10, <1>11, <1>12, <1>13, <1>14, <1>15, <1>16, <1>17

\* An answer settles an execution that still has its authority.
LEMMA SettleStep ==
  ASSUME NativeInv, NEW r \in Runner, NEW o \in Op, run[r].op = o, Settle(r),
     Authorized(run[r].gen)
  PROVE  NativeInv'
<1> USE DEF NativeInv
<1>t. /\ op \in [Op -> Records] /\ run \in [Runner -> Runs] /\ issued \in Nat
      /\ exec \in Execs /\ box \in Jobs
  BY DEF StorageTypes, OtherTypes
<1>n. /\ slot.gen \in Nat /\ revoked \in Nat /\ exec.gen \in Nat /\ box.gen \in Nat /\ issued \in Nat
      /\ \A s \in Runner : run[s].gen \in Nat
  BY DEF StorageTypes, OtherTypes, Slots, Execs, Jobs, Runs
<1>u. UNCHANGED <<ops, faults, kinds, op, index, lease, reader, floor, issued, deleting, alarm,
   revoked, shut, puts, stored, landed, queued, client, late, robbed, outrun>>
  BY DEF Settle, Cancel, Goto, requestVars, storageVars, hostVars, outsideVars
<1>b. box.gen # 0 => box.op \in Op
  BY DEF BoxOK, ExecOK
<1>c. \A s \in Runner : run[s].pc # "idle" => run[s].op \in Op
  BY DEF PlacesOK, PlaceOK
<1>1. run[r].pc = "await"
  BY DEF Settle
<1>2. /\ exec.gen = run[r].gen /\ exec.state = "active" /\ exec.op = o /\ op[o].state = "processing"
  BY <1>1 DEF Authorized, OwnsClaim, GensOK, Executing
<1>3. /\ box.gen = run[r].gen /\ (\A p \in puts : p.gen # run[r].gen) /\ puts = {} /\ box.op = o
  BY <1>1, <1>2 DEF Settle, Answers, PutsOK, BoxOK, GensOK, Executing
<1>4. /\ exec' \in Execs /\ exec'.gen = exec.gen /\ exec'.op = exec.op /\ exec'.state = "completed"
      /\ (exec'.stop <=> exec.stop) /\ (exec'.drain <=> exec.drain)
  BY <1>t DEF Settle, Execs
<1>5. box' = NoJob /\ NoJob \in Jobs /\ NoJob.gen = 0
  BY Nothings DEF Settle
<1>6. /\ slot' \in Slots /\ slot'.gen = slot.gen /\ (slot' = slot \/ slot.gen = run[r].gen)
  BY SlotDoneEffects DEF Settle, OtherTypes
<1>7. /\ run' \in [Runner -> Runs] /\ (\A s \in Runner : s # r => run'[s] = run[s])
      /\ run'[r].pc \in {"store", "fail", "caught"} /\ run'[r].op = o /\ run'[r].claim = run[r].claim
      /\ run'[r].gen = run[r].gen
      /\ run'[r].pc = "store" => box.wrote = Half
  <2>1. PICK a \in Answers(run[r].gen) :
          Goto(r, IF a = "ok" /\ run[r].beat THEN "store" ELSE IF a = "rejected" THEN "fail" ELSE "caught")
    BY DEF Settle
  <2> DEFINE pc == IF a = "ok" /\ run[r].beat THEN "store" ELSE IF a = "rejected" THEN "fail" ELSE "caught"
  <2>2. pc \in Trying /\ pc \in {"store", "fail", "caught"} /\ (pc = "store" => a = "ok")
    BY DEF Trying
  <2>3. a = "ok" => box.wrote = Half
    BY DEF Answers
  <2>4. Goto(r, pc)
    BY <2>1
  <2> HIDE DEF pc
  <2> QED BY <1>t, <2>2, <2>3, <2>4, GotoEffects
<1>8. NoRun.pc = "idle"
  BY Nothings
<1>9. run'[r].pc = "store" => \A f \in Half : stored[o][f] = run[r].gen
  BY <1>1, <1>2, <1>3, <1>7 DEF WroteOK, Terminal, GensOK, Executing
<1>10. StorageTypes'
  BY <1>t, <1>1, <1>2, <1>3, <1>4, <1>5, <1>6, <1>7, <1>8, <1>9, <1>u DEF StorageTypes
<1>11. OtherTypes'
  BY <1>t, <1>1, <1>2, <1>3, <1>4, <1>5, <1>6, <1>7, <1>8, <1>9, <1>u DEF OtherTypes
<1>12. KnownOK'
  BY <1>t, <1>1, <1>2, <1>3, <1>4, <1>5, <1>6, <1>7, <1>8, <1>9, <1>u DEF KnownOK
<1>13. ExecOK'
  BY <1>t, <1>1, <1>2, <1>3, <1>4, <1>5, <1>6, <1>7, <1>8, <1>9, <1>n, <1>u DEF ExecOK
<1>14. PutsOK'
  BY <1>t, <1>1, <1>2, <1>3, <1>4, <1>5, <1>6, <1>7, <1>8, <1>9, <1>u DEF PutsOK, ExecOK
<1>15. BoxOK'
  BY <1>t, <1>1, <1>2, <1>3, <1>4, <1>5, <1>6, <1>7, <1>8, <1>9, <1>u DEF BoxOK, ExecOK
<1>16. WroteOK'
  BY <1>t, <1>1, <1>2, <1>3, <1>4, <1>5, <1>6, <1>7, <1>8, <1>9, <1>b, <1>u DEF WroteOK,
     Terminal
<1>17. PlacesOK'
  BY <1>t, <1>1, <1>2, <1>3, <1>4, <1>5, <1>6, <1>7, <1>8, <1>9, <1>u DEF PlacesOK, PlaceOK,
     Holds, Early, Trying, Ending, Terminal, RecordsOK
<1>18. GensOK'
  BY <1>t, <1>1, <1>2, <1>3, <1>4, <1>5, <1>6, <1>7, <1>8, <1>9, <1>n, <1>u DEF GensOK,
     Executing, ExecOK
<1>19. StoreOK'
  BY <1>t, <1>1, <1>2, <1>3, <1>4, <1>5, <1>6, <1>7, <1>8, <1>9, <1>u DEF StoreOK, Holds, Quiet,
     Trying, PlacesOK, PlaceOK, Early, Ending, Terminal
<1>20. IntactOK'
  BY <1>t, <1>1, <1>2, <1>3, <1>4, <1>5, <1>6, <1>7, <1>8, <1>9, <1>u DEF IntactOK, Quiet
<1>21. LandedOK'
  BY <1>t, <1>1, <1>2, <1>3, <1>4, <1>5, <1>6, <1>7, <1>8, <1>9, <1>c, <1>u DEF LandedOK, Holds,
     Terminal, RecordsOK
<1>22. IndexOK' /\ RecordsOK' /\ CleanedUp' /\ ReaderOK'
  BY <1>u, IndexOKFrame, RecordsOKFrame, CleanedUpFrame, ReaderOKFrame
<1> QED BY <1>10, <1>11, <1>12, <1>13, <1>14, <1>15, <1>16, <1>17, <1>18, <1>19, <1>20, <1>21,
   <1>22

\* A result without authority is discarded and cancelled.
LEMMA SettleCancels ==
  ASSUME NativeInv, NEW r \in Runner, NEW o \in Op, run[r].op = o, Settle(r),
     ~Authorized(run[r].gen), Cancel(r)
  PROVE  NativeInv'
<1> USE DEF NativeInv
<1>t. /\ op \in [Op -> Records] /\ run \in [Runner -> Runs] /\ issued \in Nat
      /\ exec \in Execs /\ box \in Jobs
  BY DEF StorageTypes, OtherTypes
<1>n. /\ slot.gen \in Nat /\ revoked \in Nat /\ exec.gen \in Nat /\ box.gen \in Nat /\ issued \in Nat
      /\ \A s \in Runner : run[s].gen \in Nat
  BY DEF StorageTypes, OtherTypes, Slots, Execs, Jobs, Runs
<1>u. UNCHANGED <<ops, faults, kinds, op, index, lease, reader, floor, issued, deleting, alarm,
   revoked, shut, puts, stored, landed, queued, client, late, robbed, outrun>>
  BY DEF Settle, Cancel, requestVars, storageVars, hostVars, outsideVars
<1>b. box.gen # 0 => box.op \in Op
  BY DEF BoxOK, ExecOK
<1>c. \A s \in Runner : run[s].pc # "idle" => run[s].op \in Op
  BY DEF PlacesOK, PlaceOK
<1>1. run[r].pc = "await"
  BY DEF Settle
<1>2. /\ run' \in [Runner -> Runs] /\ \A s \in Runner : s # r => run'[s] = run[s]
      /\ run'[r].pc = "stop" /\ run'[r].op = o /\ run'[r].claim = run[r].claim
      /\ run'[r].gen = run[r].gen /\ run'[r].then = "caught"
      /\ exec' \in Execs /\ exec'.gen = exec.gen /\ exec'.op = exec.op
      /\ exec' = exec \/ (exec.gen = run[r].gen /\ exec.state = "active"
                          /\ exec'.state = "revoked" /\ exec'.stop /\ exec'.drain)
  BY <1>t, CancelEffects
<1>3. box' = NoJob /\ NoJob \in Jobs /\ NoJob.gen = 0
  BY Nothings DEF Settle
<1>4. /\ slot' \in Slots /\ slot'.gen = slot.gen /\ (slot' = slot \/ slot.gen = run[r].gen)
  BY SlotDoneEffects DEF Settle, OtherTypes
<1>5. NoRun.pc = "idle"
  BY Nothings
<1>6. StorageTypes'
  BY <1>t, <1>1, <1>2, <1>3, <1>4, <1>5, <1>u DEF StorageTypes
<1>7. OtherTypes'
  BY <1>t, <1>1, <1>2, <1>3, <1>4, <1>5, <1>u DEF OtherTypes
<1>8. KnownOK'
  BY <1>t, <1>1, <1>2, <1>3, <1>4, <1>5, <1>u DEF KnownOK
<1>9. ExecOK'
  BY <1>t, <1>1, <1>2, <1>3, <1>4, <1>5, <1>n, <1>u DEF ExecOK
<1>10. PutsOK'
  BY <1>t, <1>1, <1>2, <1>3, <1>4, <1>5, <1>u DEF PutsOK, ExecOK
<1>11. BoxOK'
  BY <1>t, <1>1, <1>2, <1>3, <1>4, <1>5, <1>u DEF BoxOK, ExecOK
<1>12. WroteOK'
  BY <1>t, <1>1, <1>2, <1>3, <1>4, <1>5, <1>b, <1>u DEF WroteOK, Terminal
<1>13. PlacesOK'
  BY <1>t, <1>1, <1>2, <1>3, <1>4, <1>5, <1>u DEF PlacesOK, PlaceOK, Holds, Early, Trying,
     Ending, Terminal, RecordsOK
<1>14. GensOK'
  BY <1>t, <1>1, <1>2, <1>3, <1>4, <1>5, <1>n, <1>u DEF GensOK, Executing
<1>15. StoreOK'
  BY <1>t, <1>1, <1>2, <1>3, <1>4, <1>5, <1>u DEF StoreOK, Holds, Quiet, Trying, PlacesOK,
     PlaceOK, Early, Ending, Terminal
<1>16. IntactOK'
  BY <1>t, <1>1, <1>2, <1>3, <1>4, <1>5, <1>u DEF IntactOK, Quiet
<1>17. LandedOK'
  BY <1>t, <1>1, <1>2, <1>3, <1>4, <1>5, <1>c, <1>u DEF LandedOK, Holds, Terminal, RecordsOK
<1>18. IndexOK' /\ RecordsOK' /\ CleanedUp' /\ ReaderOK'
  BY <1>u, IndexOKFrame, RecordsOKFrame, CleanedUpFrame, ReaderOKFrame
<1> QED BY <1>6, <1>7, <1>8, <1>9, <1>10, <1>11, <1>12, <1>13, <1>14, <1>15, <1>16, <1>17, <1>18

\* A failure without authority is only an error.
LEMMA SettleFails ==
  ASSUME NativeInv, NEW r \in Runner, NEW o \in Op, run[r].op = o, Settle(r),
     ~Authorized(run[r].gen), NEW pc \in {"fail", "caught"}, Goto(r, pc), UNCHANGED exec
  PROVE  NativeInv'
<1> USE DEF NativeInv
<1>t. /\ op \in [Op -> Records] /\ run \in [Runner -> Runs] /\ issued \in Nat
      /\ exec \in Execs /\ box \in Jobs
  BY DEF StorageTypes, OtherTypes
<1>n. /\ slot.gen \in Nat /\ revoked \in Nat /\ exec.gen \in Nat /\ box.gen \in Nat /\ issued \in Nat
      /\ \A s \in Runner : run[s].gen \in Nat
  BY DEF StorageTypes, OtherTypes, Slots, Execs, Jobs, Runs
<1>u. UNCHANGED <<ops, faults, kinds, op, index, lease, reader, floor, exec, issued, deleting,
   alarm, revoked, shut, puts, stored, landed, queued, client, late, robbed, outrun>>
  BY DEF Settle, requestVars, storageVars, hostVars, outsideVars
<1>b. box.gen # 0 => box.op \in Op
  BY DEF BoxOK, ExecOK
<1>c. \A s \in Runner : run[s].pc # "idle" => run[s].op \in Op
  BY DEF PlacesOK, PlaceOK
<1>1. run[r].pc = "await"
  BY DEF Settle
<1>2. /\ run' \in [Runner -> Runs] /\ \A s \in Runner : s # r => run'[s] = run[s]
      /\ run'[r].pc = pc /\ run'[r].op = o /\ run'[r].claim = run[r].claim
      /\ run'[r].gen = run[r].gen /\ run'[r].then = run[r].then
  BY <1>t, GotoEffects DEF Trying
<1>3. box' = NoJob /\ NoJob \in Jobs /\ NoJob.gen = 0
  BY Nothings DEF Settle
<1>4. /\ slot' \in Slots /\ slot'.gen = slot.gen /\ (slot' = slot \/ slot.gen = run[r].gen)
  BY SlotDoneEffects DEF Settle, OtherTypes
<1>5. NoRun.pc = "idle"
  BY Nothings
<1>6. OtherTypes'
  BY <1>t, <1>1, <1>2, <1>3, <1>4, <1>5, <1>u DEF OtherTypes
<1>7. KnownOK'
  BY <1>t, <1>1, <1>2, <1>3, <1>4, <1>5, <1>u DEF KnownOK
<1>8. ExecOK'
  BY <1>t, <1>1, <1>2, <1>3, <1>4, <1>5, <1>n, <1>u DEF ExecOK
<1>9. BoxOK'
  BY <1>t, <1>1, <1>2, <1>3, <1>4, <1>5, <1>u DEF BoxOK, ExecOK
<1>10. WroteOK'
  BY <1>t, <1>1, <1>2, <1>3, <1>4, <1>5, <1>b, <1>u DEF WroteOK, Terminal
<1>11. PlacesOK'
  BY <1>t, <1>1, <1>2, <1>3, <1>4, <1>5, <1>u DEF PlacesOK, PlaceOK, Holds, Early, Trying,
     Ending, Terminal, RecordsOK
<1>12. GensOK'
  BY <1>t, <1>1, <1>2, <1>3, <1>4, <1>5, <1>n, <1>u DEF GensOK, Executing
<1>13. StoreOK'
  BY <1>t, <1>1, <1>2, <1>3, <1>4, <1>5, <1>u DEF StoreOK, Holds, Quiet, Trying, PlacesOK,
     PlaceOK, Early, Ending, Terminal
<1>14. LandedOK'
  BY <1>t, <1>1, <1>2, <1>3, <1>4, <1>5, <1>c, <1>u DEF LandedOK, Holds, Terminal, RecordsOK
<1>15. StorageTypes' /\ IndexOK' /\ RecordsOK' /\ PutsOK' /\ IntactOK' /\ CleanedUp' /\
   ReaderOK'
  BY <1>u, StorageTypesFrame, IndexOKFrame, RecordsOKFrame, PutsOKFrame, IntactOKFrame,
     CleanedUpFrame, ReaderOKFrame
<1> QED BY <1>6, <1>7, <1>8, <1>9, <1>10, <1>11, <1>12, <1>13, <1>14, <1>15

\* A transport error stops the job and cancels.
LEMMA TransportStep ==
  ASSUME NativeInv, NEW r \in Runner, NEW o \in Op, run[r].op = o, TransportFails(r)
  PROVE  NativeInv'
<1> USE DEF NativeInv
<1>t. /\ op \in [Op -> Records] /\ run \in [Runner -> Runs] /\ issued \in Nat
      /\ exec \in Execs /\ box \in Jobs
  BY DEF StorageTypes, OtherTypes
<1>n. /\ slot.gen \in Nat /\ revoked \in Nat /\ exec.gen \in Nat /\ box.gen \in Nat /\ issued \in Nat
      /\ \A s \in Runner : run[s].gen \in Nat
  BY DEF StorageTypes, OtherTypes, Slots, Execs, Jobs, Runs
<1>u. UNCHANGED <<ops, kinds, op, index, lease, reader, floor, issued, deleting, alarm, shut,
   puts, stored, landed, queued, client, late, robbed, outrun>>
  BY DEF TransportFails, Stopped, Cancel, Fault, requestVars, storageVars, hostVars, outsideVars
<1>b. box.gen # 0 => box.op \in Op
  BY DEF BoxOK, ExecOK
<1>c. \A s \in Runner : run[s].pc # "idle" => run[s].op \in Op
  BY DEF PlacesOK, PlaceOK
<1>1. run[r].pc = "await"
  BY DEF TransportFails
<1>2. /\ run' \in [Runner -> Runs] /\ \A s \in Runner : s # r => run'[s] = run[s]
      /\ run'[r].pc = "stop" /\ run'[r].op = o /\ run'[r].claim = run[r].claim
      /\ run'[r].gen = run[r].gen /\ run'[r].then = "caught"
      /\ exec' \in Execs /\ exec'.gen = exec.gen /\ exec'.op = exec.op
      /\ exec' = exec \/ (exec.gen = run[r].gen /\ exec.state = "active"
                          /\ exec'.state = "revoked" /\ exec'.stop /\ exec'.drain)
  <2>1. Cancel(r)
    BY DEF TransportFails
  <2> QED BY <1>t, <2>1, CancelEffects
<1>3. /\ slot' \in Slots /\ revoked' \in Nat /\ slot'.gen = slot.gen /\ revoked' \in {revoked, run[r].gen}
      /\ slot.gen = run[r].gen => slot'.state = "revoked"
      /\ slot.gen # run[r].gen => slot' = slot
  <2>1. Stopped(run[r].gen) /\ run[r].gen \in Nat
    BY <1>t DEF TransportFails, Runs
  <2> QED BY <2>1, <1>t, StoppedEffects DEF OtherTypes
<1>4. /\ box' \in Jobs /\ NoJob.gen = 0
      /\ slot.gen = run[r].gen => box' = NoJob
      /\ slot.gen # run[r].gen => box' = box
  <2>1. Stopped(run[r].gen) /\ run[r].gen \in Nat /\ box' = Destroyed(run[r].gen)
    BY <1>t DEF TransportFails, Runs
  <2> QED BY <2>1, <1>t, StoppedEffects, Nothings DEF OtherTypes
<1>5. NoRun.pc = "idle"
  BY Nothings
<1>6. box.gen # 0 => box.gen = exec.gen /\ slot.gen = box.gen
  BY DEF BoxOK
<1>7. StorageTypes'
  BY <1>t, <1>1, <1>2, <1>3, <1>4, <1>5, <1>6, <1>u DEF StorageTypes
<1>8. OtherTypes'
  BY <1>t, <1>1, <1>2, <1>3, <1>4, <1>5, <1>6, <1>u DEF OtherTypes
<1>9. KnownOK'
  BY <1>t, <1>1, <1>2, <1>3, <1>4, <1>5, <1>6, <1>u DEF KnownOK
<1>10. ExecOK'
  BY <1>t, <1>1, <1>2, <1>3, <1>4, <1>5, <1>6, <1>n, <1>u DEF ExecOK, GensOK, Executing
<1>11. PutsOK'
  BY <1>t, <1>1, <1>2, <1>3, <1>4, <1>5, <1>6, <1>u DEF PutsOK, ExecOK
<1>12. BoxOK'
  BY <1>t, <1>1, <1>2, <1>3, <1>4, <1>5, <1>6, <1>u DEF BoxOK, ExecOK
<1>13. WroteOK'
  BY <1>t, <1>1, <1>2, <1>3, <1>4, <1>5, <1>6, <1>b, <1>u DEF WroteOK, Terminal
<1>14. PlacesOK'
  BY <1>t, <1>1, <1>2, <1>3, <1>4, <1>5, <1>6, <1>u DEF PlacesOK, PlaceOK, Holds, Early, Trying,
     Ending, Terminal, RecordsOK
<1>15. GensOK'
  BY <1>t, <1>1, <1>2, <1>3, <1>4, <1>5, <1>6, <1>n, <1>u DEF GensOK, Executing
<1>16. StoreOK'
  BY <1>t, <1>1, <1>2, <1>3, <1>4, <1>5, <1>6, <1>u DEF StoreOK, Holds, Quiet, Trying, PlacesOK,
     PlaceOK, Early, Ending, Terminal
<1>17. IntactOK'
  BY <1>t, <1>1, <1>2, <1>3, <1>4, <1>5, <1>6, <1>u DEF IntactOK, Quiet
<1>18. LandedOK'
  BY <1>t, <1>1, <1>2, <1>3, <1>4, <1>5, <1>6, <1>c, <1>u DEF LandedOK, Holds, Terminal,
     RecordsOK
<1>19. IndexOK' /\ RecordsOK' /\ CleanedUp' /\ ReaderOK'
  BY <1>u, IndexOKFrame, RecordsOKFrame, CleanedUpFrame, ReaderOKFrame
<1> QED BY <1>7, <1>8, <1>9, <1>10, <1>11, <1>12, <1>13, <1>14, <1>15, <1>16, <1>17, <1>18,
   <1>19

\* A retryable error stages the operation again.
LEMMA CaughtStep ==
  ASSUME NativeInv, NEW r \in Runner, NEW o \in Op, run[r].op = o, Caught(r),
         run[r].attempts < MaxAttempts
  PROVE  NativeInv'
<1> USE DEF NativeInv
<1>t. /\ op \in [Op -> Records] /\ run \in [Runner -> Runs] /\ issued \in Nat
      /\ exec \in Execs /\ box \in Jobs
  BY DEF StorageTypes, OtherTypes
<1>n. /\ slot.gen \in Nat /\ revoked \in Nat /\ exec.gen \in Nat /\ box.gen \in Nat /\ issued \in Nat
      /\ \A s \in Runner : run[s].gen \in Nat
  BY DEF StorageTypes, OtherTypes, Slots, Execs, Jobs, Runs
<1>u. UNCHANGED <<ops, faults, kinds, index, lease, floor, exec, issued, deleting, slot,
   revoked, shut, box, puts, stored, landed, queued, client, late, robbed, outrun>>
  BY DEF Caught, Wake, Return, requestVars, storageVars, hostVars, outsideVars
<1>b. box.gen # 0 => box.op \in Op
  BY DEF BoxOK, ExecOK
<1>c. \A s \in Runner : run[s].pc # "idle" => run[s].op \in Op
  BY DEF PlacesOK, PlaceOK
<1>1. run[r].pc = "caught"
  BY DEF Caught
<1>2. /\ op' \in [Op -> Records] /\ \A q \in Op : q # o => op'[q] = op[q]
      /\ ~Holds(r) => op' = op
      /\ Holds(r) => /\ op'[o].state = "staged" /\ op'[o].claim = 0 /\ op'[o].result = op[o].result
                     /\ (op'[o].cleanup <=> op[o].cleanup) /\ (op'[o].fresh <=> op[o].fresh)
  <2>1. "staged" \in States
    BY DEF States, Terminal
  <2>2. op' = IF Holds(r) THEN [op EXCEPT ![o] = Unclaimed(o, "staged")] ELSE op
    BY DEF Caught
  <2> QED BY <1>t, <2>1, <2>2, UnclaimedEffects
<1>3. /\ run' \in [Runner -> Runs] /\ \A s \in Runner : s # r => run'[s] = run[s]
      /\ run'[r] = NoRun /\ run'[r].pc = "idle" /\ run'[r].claim = 0 /\ run'[r].op = None
      /\ run'[r].gen = 0
  <2>1. Return(r)
    BY DEF Caught, Wake
  <2> QED BY <1>t, <2>1, ReturnEffects, Nothings
<1>4. /\ reader' \in Readers /\ (reader' = reader \/ (reader'.op = None /\ ~reader'.live)) /\ None \notin Op
  BY Nothings, NativeAssumption DEF Caught, ReleasedReader, StorageTypes
<1>5. Holds(r) => op[o].state = "processing" /\ run[r].claim # 0
  BY <1>1 DEF PlacesOK, PlaceOK, Trying
<1>6. StorageTypes'
  BY <1>t, <1>1, <1>2, <1>3, <1>4, <1>5, <1>u DEF StorageTypes
<1>7. OtherTypes'
  BY <1>t, <1>1, <1>2, <1>3, <1>4, <1>5, <1>u DEF OtherTypes
<1>8. IndexOK'
  BY <1>t, <1>1, <1>2, <1>3, <1>4, <1>5, <1>u DEF IndexOK
<1>9. KnownOK'
  BY <1>t, <1>1, <1>2, <1>3, <1>4, <1>5, <1>u DEF KnownOK
<1>10. RecordsOK'
  BY <1>t, <1>1, <1>2, <1>3, <1>4, <1>5, <1>u DEF RecordsOK, Terminal
<1>11. WroteOK'
  BY <1>t, <1>1, <1>2, <1>3, <1>4, <1>5, <1>b, <1>u DEF WroteOK, Terminal
<1>12. PlacesOK'
  BY <1>t, <1>1, <1>2, <1>3, <1>4, <1>5, <1>u DEF PlacesOK, PlaceOK, Holds, Early, Trying,
     Ending, Terminal, RecordsOK
<1>13. GensOK'
  BY <1>t, <1>1, <1>2, <1>3, <1>4, <1>5, <1>n, <1>u DEF GensOK, Executing
<1>14. StoreOK'
  BY <1>t, <1>1, <1>2, <1>3, <1>4, <1>5, <1>u DEF StoreOK, Holds, Quiet, Trying, PlacesOK,
     PlaceOK, Early, Ending, Terminal
<1>15. IntactOK'
  BY <1>t, <1>1, <1>2, <1>3, <1>4, <1>5, <1>u DEF IntactOK, Quiet
<1>16. LandedOK'
  BY <1>t, <1>1, <1>2, <1>3, <1>4, <1>5, <1>c, <1>u DEF LandedOK, Holds, Terminal, RecordsOK,
     PlacesOK, PlaceOK, Early, Trying, Ending
<1>17. CleanedUp'
  BY <1>t, <1>1, <1>2, <1>3, <1>4, <1>5, <1>u DEF CleanedUp, Terminal
<1>18. ReaderOK'
  BY <1>t, <1>1, <1>2, <1>3, <1>4, <1>5, <1>u DEF ReaderOK, Superseded, KnownOK
<1>19. ExecOK' /\ PutsOK' /\ BoxOK'
  BY <1>u, ExecOKFrame, PutsOKFrame, BoxOKFrame
<1> QED BY <1>6, <1>7, <1>8, <1>9, <1>10, <1>11, <1>12, <1>13, <1>14, <1>15, <1>16, <1>17,
   <1>18, <1>19

\* When the attempts are used up it fails.
LEMMA CaughtGivesUp ==
  ASSUME NativeInv, NEW r \in Runner, NEW o \in Op, run[r].op = o, Caught(r),
         ~(run[r].attempts < MaxAttempts)
  PROVE  NativeInv'
<1> USE DEF NativeInv
<1>t. /\ op \in [Op -> Records] /\ run \in [Runner -> Runs] /\ issued \in Nat
      /\ exec \in Execs /\ box \in Jobs
  BY DEF StorageTypes, OtherTypes
<1>n. /\ slot.gen \in Nat /\ revoked \in Nat /\ exec.gen \in Nat /\ box.gen \in Nat /\ issued \in Nat
      /\ \A s \in Runner : run[s].gen \in Nat
  BY DEF StorageTypes, OtherTypes, Slots, Execs, Jobs, Runs
<1>u. UNCHANGED <<ops, faults, kinds, op, index, lease, reader, floor, exec, issued, deleting,
   alarm, slot, revoked, shut, box, puts, stored, landed, queued, client, late, robbed, outrun>>
  BY DEF Caught, Goto, requestVars, storageVars, hostVars, outsideVars
<1>c. \A s \in Runner : run[s].pc # "idle" => run[s].op \in Op
  BY DEF PlacesOK, PlaceOK
<1>1. run[r].pc = "caught"
  BY DEF Caught
<1>2. /\ run' \in [Runner -> Runs] /\ \A s \in Runner : s # r => run'[s] = run[s]
      /\ run'[r].pc = "fail" /\ run'[r].op = o /\ run'[r].claim = run[r].claim
      /\ run'[r].gen = run[r].gen /\ run'[r].then = run[r].then
  <2>1. Goto(r, "fail")
    BY DEF Caught
  <2> QED BY <1>t, <2>1, GotoEffects DEF Trying
<1>3. NoRun.pc = "idle"
  BY Nothings
<1>4. OtherTypes'
  BY <1>t, <1>1, <1>2, <1>3, <1>u DEF OtherTypes
<1>5. KnownOK'
  BY <1>t, <1>1, <1>2, <1>3, <1>u DEF KnownOK
<1>6. PlacesOK'
  BY <1>t, <1>1, <1>2, <1>3, <1>u DEF PlacesOK, PlaceOK, Holds, Early, Trying, Ending, Terminal,
     RecordsOK
<1>7. GensOK'
  BY <1>t, <1>1, <1>2, <1>3, <1>n, <1>u DEF GensOK, Executing
<1>8. StoreOK'
  BY <1>t, <1>1, <1>2, <1>3, <1>u DEF StoreOK, Holds, Quiet, Trying, PlacesOK, PlaceOK, Early,
     Ending, Terminal
<1>9. LandedOK'
  BY <1>t, <1>1, <1>2, <1>3, <1>c, <1>u DEF LandedOK, Holds, Terminal, RecordsOK
<1>10. StorageTypes' /\ IndexOK' /\ RecordsOK' /\ ExecOK' /\ PutsOK' /\ BoxOK' /\ WroteOK' /\
   IntactOK' /\ CleanedUp' /\ ReaderOK'
  BY <1>u, StorageTypesFrame, IndexOKFrame, RecordsOKFrame, ExecOKFrame, PutsOKFrame,
     BoxOKFrame, WroteOKFrame, IntactOKFrame, CleanedUpFrame, ReaderOKFrame
<1> QED BY <1>4, <1>5, <1>6, <1>7, <1>8, <1>9, <1>10

\* markTerminal with the claim, or after another run ended the operation.
LEMMA FailStep ==
  ASSUME NativeInv, NEW r \in Runner, NEW o \in Op, run[r].op = o, Fail(r), Holds(r) \/
     op[o].state \in Terminal
  PROVE  NativeInv'
<1> USE DEF NativeInv
<1>t. /\ op \in [Op -> Records] /\ run \in [Runner -> Runs] /\ issued \in Nat
      /\ exec \in Execs /\ box \in Jobs
  BY DEF StorageTypes, OtherTypes
<1>n. /\ slot.gen \in Nat /\ revoked \in Nat /\ exec.gen \in Nat /\ box.gen \in Nat /\ issued \in Nat
      /\ \A s \in Runner : run[s].gen \in Nat
  BY DEF StorageTypes, OtherTypes, Slots, Execs, Jobs, Runs
<1>u. UNCHANGED <<ops, faults, kinds, index, floor, exec, issued, deleting, alarm, slot,
   revoked, shut, box, puts, stored, landed, queued, client, late, robbed, outrun>>
  BY DEF Fail, Goto, requestVars, storageVars, hostVars, outsideVars
<1>b. box.gen # 0 => box.op \in Op
  BY DEF BoxOK, ExecOK
<1>c. \A s \in Runner : run[s].pc # "idle" => run[s].op \in Op
  BY DEF PlacesOK, PlaceOK
<1>1. run[r].pc = "fail"
  BY DEF Fail
<1>2. /\ op' \in [Op -> Records] /\ \A q \in Op : q # o => op'[q] = op[q]
      /\ ~Holds(r) => op' = op
      /\ Holds(r) => /\ op'[o].state = "failed" /\ op'[o].claim = 0 /\ op'[o].result = op[o].result
                     /\ op'[o].cleanup /\ (op'[o].fresh <=> op[o].fresh)
  <2>1. "failed" \in States
    BY DEF States, Terminal
  <2>2. op' = IF Holds(r) THEN [op EXCEPT ![o] = Ended(o, "failed")] ELSE op
    BY DEF Fail
  <2> QED BY <1>t, <2>1, <2>2, EndedEffects
<1>3. /\ run' \in [Runner -> Runs] /\ \A s \in Runner : s # r => run'[s] = run[s]
      /\ run'[r].pc = "erase" /\ run'[r].op = o /\ run'[r].claim = run[r].claim
      /\ run'[r].gen = run[r].gen /\ run'[r].then = run[r].then
  <2>1. Goto(r, "erase")
    BY DEF Fail
  <2> QED BY <1>t, <2>1, GotoEffects
<1>4. /\ reader' \in Readers /\ (reader' = reader \/ (reader'.op = None /\ ~reader'.live)) /\ None \notin Op
  BY Nothings, NativeAssumption DEF Fail, ReleasedReader, StorageTypes
<1>5. /\ lease' \in Leases /\ (lease' = lease \/ lease'.op = None) /\ None \notin Op
  BY Nothings, NativeAssumption DEF Fail, StorageTypes
<1>6. Holds(r) => op[o].state = "processing" /\ run[r].claim # 0
  BY <1>1 DEF PlacesOK, PlaceOK, Trying
<1>7. NoRun.pc = "idle"
  BY Nothings
<1>8. Holds(r) \/ op[o].state \in Terminal
  OBVIOUS
<1>9. StorageTypes'
  BY <1>t, <1>1, <1>2, <1>3, <1>4, <1>5, <1>6, <1>7, <1>8, <1>u DEF StorageTypes
<1>10. OtherTypes'
  BY <1>t, <1>1, <1>2, <1>3, <1>4, <1>5, <1>6, <1>7, <1>8, <1>u DEF OtherTypes
<1>11. IndexOK'
  BY <1>t, <1>1, <1>2, <1>3, <1>4, <1>5, <1>6, <1>7, <1>8, <1>u DEF IndexOK
<1>12. KnownOK'
  BY <1>t, <1>1, <1>2, <1>3, <1>4, <1>5, <1>6, <1>7, <1>8, <1>u DEF KnownOK
<1>13. RecordsOK'
  BY <1>t, <1>1, <1>2, <1>3, <1>4, <1>5, <1>6, <1>7, <1>8, <1>u DEF RecordsOK, Terminal
<1>14. WroteOK'
  BY <1>t, <1>1, <1>2, <1>3, <1>4, <1>5, <1>6, <1>7, <1>8, <1>b, <1>u DEF WroteOK, Terminal
<1>15. PlacesOK'
  BY <1>t, <1>1, <1>2, <1>3, <1>4, <1>5, <1>6, <1>7, <1>8, <1>u DEF PlacesOK, PlaceOK, Holds,
     Early, Trying, Ending, Terminal, RecordsOK
<1>16. GensOK'
  BY <1>t, <1>1, <1>2, <1>3, <1>4, <1>5, <1>6, <1>7, <1>8, <1>n, <1>u DEF GensOK, Executing
<1>17. StoreOK'
  BY <1>t, <1>1, <1>2, <1>3, <1>4, <1>5, <1>6, <1>7, <1>8, <1>u DEF StoreOK, Holds, Quiet,
     Trying, PlacesOK, PlaceOK, Early, Ending, Terminal
<1>18. IntactOK'
  BY <1>t, <1>1, <1>2, <1>3, <1>4, <1>5, <1>6, <1>7, <1>8, <1>u DEF IntactOK, Quiet
<1>19. LandedOK'
  BY <1>t, <1>1, <1>2, <1>3, <1>4, <1>5, <1>6, <1>7, <1>8, <1>c, <1>u DEF LandedOK, Holds,
     Terminal, RecordsOK, PlacesOK, PlaceOK, Early, Trying, Ending
<1>20. CleanedUp'
  BY <1>t, <1>1, <1>2, <1>3, <1>4, <1>5, <1>6, <1>7, <1>8, <1>u DEF CleanedUp, Terminal
<1>21. ReaderOK'
  BY <1>t, <1>1, <1>2, <1>3, <1>4, <1>5, <1>6, <1>7, <1>8, <1>u DEF ReaderOK, Superseded,
     KnownOK
<1>22. ExecOK' /\ PutsOK' /\ BoxOK'
  BY <1>u, ExecOKFrame, PutsOKFrame, BoxOKFrame
<1> QED BY <1>9, <1>10, <1>11, <1>12, <1>13, <1>14, <1>15, <1>16, <1>17, <1>18, <1>19, <1>20,
   <1>21, <1>22

\* A run that lost its claim ends.
LEMMA FailEnds ==
  ASSUME NativeInv, NEW r \in Runner, NEW o \in Op, run[r].op = o, Fail(r), ~(Holds(r) \/
     op[o].state \in Terminal)
  PROVE  NativeInv'
<1> USE DEF NativeInv
<1>t. /\ op \in [Op -> Records] /\ run \in [Runner -> Runs] /\ issued \in Nat
      /\ exec \in Execs /\ box \in Jobs
  BY DEF StorageTypes, OtherTypes
<1>n. /\ slot.gen \in Nat /\ revoked \in Nat /\ exec.gen \in Nat /\ box.gen \in Nat /\ issued \in Nat
      /\ \A s \in Runner : run[s].gen \in Nat
  BY DEF StorageTypes, OtherTypes, Slots, Execs, Jobs, Runs
<1>u. UNCHANGED <<ops, faults, kinds, op, index, lease, floor, exec, issued, deleting, slot,
   revoked, shut, box, puts, stored, landed, queued, client, late, robbed, outrun>>
  BY DEF Fail, Wake, Return, requestVars, storageVars, hostVars, outsideVars
<1>c. \A s \in Runner : run[s].pc # "idle" => run[s].op \in Op
  BY DEF PlacesOK, PlaceOK
<1>1. run[r].pc = "fail"
  BY DEF Fail
<1>2. /\ run' \in [Runner -> Runs] /\ \A s \in Runner : s # r => run'[s] = run[s]
      /\ run'[r] = NoRun /\ run'[r].pc = "idle" /\ run'[r].claim = 0 /\ run'[r].op = None
      /\ run'[r].gen = 0
  <2>1. Return(r)
    BY DEF Fail, Wake
  <2> QED BY <1>t, <2>1, ReturnEffects, Nothings
<1>3. /\ reader' \in Readers /\ (reader' = reader \/ (reader'.op = None /\ ~reader'.live)) /\ None \notin Op
  BY Nothings, NativeAssumption DEF Fail, ReleasedReader, StorageTypes
<1>4. StorageTypes'
  BY <1>t, <1>1, <1>2, <1>3, <1>u DEF StorageTypes
<1>5. OtherTypes'
  BY <1>t, <1>1, <1>2, <1>3, <1>u DEF OtherTypes
<1>6. KnownOK'
  BY <1>t, <1>1, <1>2, <1>3, <1>u DEF KnownOK
<1>7. PlacesOK'
  BY <1>t, <1>1, <1>2, <1>3, <1>u DEF PlacesOK, PlaceOK, Holds, Early, Trying, Ending, Terminal,
     RecordsOK
<1>8. GensOK'
  BY <1>t, <1>1, <1>2, <1>3, <1>n, <1>u DEF GensOK, Executing
<1>9. StoreOK'
  BY <1>t, <1>1, <1>2, <1>3, <1>u DEF StoreOK, Holds, Quiet, Trying, PlacesOK, PlaceOK, Early,
     Ending, Terminal
<1>10. LandedOK'
  BY <1>t, <1>1, <1>2, <1>3, <1>c, <1>u DEF LandedOK, Holds, Terminal, RecordsOK
<1>11. ReaderOK'
  BY <1>t, <1>1, <1>2, <1>3, <1>u DEF ReaderOK, Superseded, KnownOK
<1>12. IndexOK' /\ RecordsOK' /\ ExecOK' /\ PutsOK' /\ BoxOK' /\ WroteOK' /\ IntactOK' /\
   CleanedUp'
  BY <1>u, IndexOKFrame, RecordsOKFrame, ExecOKFrame, PutsOKFrame, BoxOKFrame, WroteOKFrame,
     IntactOKFrame, CleanedUpFrame
<1> QED BY <1>4, <1>5, <1>6, <1>7, <1>8, <1>9, <1>10, <1>11, <1>12

\* completeOperationCleanup erases what the run meant to fail.
LEMMA CleanStep ==
  ASSUME NativeInv, NEW r \in Runner, NEW o \in Op, run[r].op = o, Clean(r), stored' = [stored
     EXCEPT ![o] = Erased(r)], op' = [op EXCEPT ![o].cleanup = FALSE], outrun' = IF run[r].pc = "erase"
     /\ op[o].state = "committed" THEN outrun \cup {o} ELSE outrun, Return(r), UNCHANGED
     <<faults, alarm>>
  PROVE  NativeInv'
<1> USE DEF NativeInv
<1>t. /\ op \in [Op -> Records] /\ run \in [Runner -> Runs] /\ issued \in Nat
      /\ exec \in Execs /\ box \in Jobs
  BY DEF StorageTypes, OtherTypes
<1>n. /\ slot.gen \in Nat /\ revoked \in Nat /\ exec.gen \in Nat /\ box.gen \in Nat /\ issued \in Nat
      /\ \A s \in Runner : run[s].gen \in Nat
  BY DEF StorageTypes, OtherTypes, Slots, Execs, Jobs, Runs
<1>u. UNCHANGED <<ops, faults, kinds, index, lease, reader, floor, exec, issued, deleting,
   alarm, slot, revoked, shut, box, puts, landed, queued, client, late, robbed>>
  BY DEF Clean, requestVars, storageVars, hostVars, outsideVars
<1>b. box.gen # 0 => box.op \in Op
  BY DEF BoxOK, ExecOK
<1>c. \A s \in Runner : run[s].pc # "idle" => run[s].op \in Op
  BY DEF PlacesOK, PlaceOK
<1>1. /\ run[r].pc \in {"clean", "erase"} /\ op[o].state \in Terminal
      /\ (run[r].pc = "clean" => landed[o] # 0)
  BY DEF Clean, PlacesOK, PlaceOK, LandedOK
<1>o. outrun \subseteq outrun' /\ (run[r].pc = "erase" /\ op[o].state = "committed" => o \in outrun')
  OBVIOUS
<1>2. /\ op' \in [Op -> Records] /\ \A q \in Op : q # o => op'[q] = op[q]
      /\ op'[o].state = op[o].state /\ op'[o].claim = op[o].claim /\ op'[o].result = op[o].result
      /\ ~op'[o].cleanup /\ (op'[o].fresh <=> op[o].fresh)
  <2>1. op[o] \in Records
    BY <1>t
  <2> QED BY <1>t, <2>1 DEF Records
<1>3. /\ stored' \in [Op -> [Half -> Nat]] /\ \A q \in Op : q # o => stored'[q] = stored[q]
      /\ run[r].pc = "clean" => stored'[o] = stored[o]
      /\ run[r].pc = "erase" => \A f \in Half : stored'[o][f] = 0
  <2>1. stored \in [Op -> [Half -> Nat]]
    BY DEF OtherTypes
  <2>2. Erased(r) \in [Half -> Nat]
    BY <2>1 DEF Erased
  <2>3. /\ run[r].pc = "clean" => Erased(r) = stored[o]
        /\ (run[r].pc = "erase" => \A f \in Half : Erased(r)[f] = 0)
    BY DEF Erased
  <2> QED BY <2>1, <2>2, <2>3
<1>4. /\ run' \in [Runner -> Runs] /\ \A s \in Runner : s # r => run'[s] = run[s]
      /\ run'[r] = NoRun /\ run'[r].pc = "idle" /\ run'[r].claim = 0 /\ run'[r].op = None
      /\ run'[r].gen = 0
  BY <1>t, ReturnEffects, Nothings
<1>5. None \notin Op
  BY NativeAssumption
<1>6. StorageTypes'
  BY <1>t, <1>1, <1>2, <1>3, <1>4, <1>5, <1>u DEF StorageTypes
<1>7. OtherTypes'
  BY <1>t, <1>1, <1>2, <1>3, <1>4, <1>5, <1>u DEF OtherTypes
<1>8. IndexOK'
  BY <1>t, <1>1, <1>2, <1>3, <1>4, <1>5, <1>u DEF IndexOK
<1>9. KnownOK'
  BY <1>t, <1>1, <1>2, <1>3, <1>4, <1>5, <1>u DEF KnownOK
<1>10. RecordsOK'
  BY <1>t, <1>1, <1>2, <1>3, <1>4, <1>5, <1>u DEF RecordsOK, Terminal
<1>11. WroteOK'
  BY <1>t, <1>1, <1>2, <1>3, <1>4, <1>5, <1>b, <1>u DEF WroteOK, Terminal
<1>12. PlacesOK'
  BY <1>t, <1>1, <1>2, <1>3, <1>4, <1>5, <1>u DEF PlacesOK, PlaceOK, Holds, Early, Trying,
     Ending, Terminal, RecordsOK
<1>13. GensOK'
  BY <1>t, <1>1, <1>2, <1>3, <1>4, <1>5, <1>n, <1>u DEF GensOK, Executing
<1>14. StoreOK'
  BY <1>t, <1>1, <1>2, <1>3, <1>4, <1>5, <1>u DEF StoreOK, Holds, Quiet, Trying, PlacesOK,
     PlaceOK, Early, Ending, Terminal
<1>15. IntactOK'
  BY <1>o, <1>t, <1>1, <1>2, <1>3, <1>4, <1>5, <1>u DEF IntactOK, Quiet, Terminal
<1>16. LandedOK'
  BY <1>t, <1>1, <1>2, <1>3, <1>4, <1>5, <1>c, <1>u DEF LandedOK, Holds, Terminal, RecordsOK
<1>17. CleanedUp'
  BY <1>t, <1>1, <1>2, <1>3, <1>4, <1>5, <1>u DEF CleanedUp, Terminal
<1>18. ReaderOK'
  BY <1>t, <1>1, <1>2, <1>3, <1>4, <1>5, <1>u DEF ReaderOK, Superseded, KnownOK
<1>19. ExecOK' /\ PutsOK' /\ BoxOK'
  BY <1>u, ExecOKFrame, PutsOKFrame, BoxOKFrame
<1> QED BY <1>6, <1>7, <1>8, <1>9, <1>10, <1>11, <1>12, <1>13, <1>14, <1>15, <1>16, <1>17,
   <1>18, <1>19

\* The result is recorded under the claim.
LEMMA StoreStep ==
  ASSUME NativeInv, NEW r \in Runner, NEW o \in Op, run[r].op = o, Store(r), Holds(r)
  PROVE  NativeInv'
<1> USE DEF NativeInv
<1>t. /\ op \in [Op -> Records] /\ run \in [Runner -> Runs] /\ issued \in Nat
      /\ exec \in Execs /\ box \in Jobs
  BY DEF StorageTypes, OtherTypes
<1>n. /\ slot.gen \in Nat /\ revoked \in Nat /\ exec.gen \in Nat /\ box.gen \in Nat /\ issued \in Nat
      /\ \A s \in Runner : run[s].gen \in Nat
  BY DEF StorageTypes, OtherTypes, Slots, Execs, Jobs, Runs
<1>u. UNCHANGED <<ops, faults, kinds, index, lease, floor, exec, issued, deleting, slot,
   revoked, shut, box, puts, stored, landed, queued, client, late, robbed, outrun>>
  BY DEF Store, requestVars, storageVars, hostVars, outsideVars
<1>b. box.gen # 0 => box.op \in Op
  BY DEF BoxOK, ExecOK
<1>c. \A s \in Runner : run[s].pc # "idle" => run[s].op \in Op
  BY DEF PlacesOK, PlaceOK
<1>1. run[r].pc = "store"
  BY DEF Store
<1>2. /\ op' \in [Op -> Records] /\ \A q \in Op : q # o => op'[q] = op[q]
      /\ op'[o].state = "ready" /\ op'[o].claim = 0 /\ op'[o].result = run[r].gen
      /\ (op'[o].cleanup <=> op[o].cleanup) /\ (op'[o].fresh <=> op[o].fresh)
  <2> DEFINE u == Unclaimed(o, "ready")  a == [u EXCEPT !.result = run[r].gen]
  <2>1. "ready" \in States /\ run[r].gen \in Nat
    BY <1>t DEF States, Runs
  <2>2. /\ u \in Records /\ u.state = "ready" /\ u.claim = 0
        /\ (u.cleanup <=> op[o].cleanup) /\ (u.fresh <=> op[o].fresh)
    BY <1>t, <2>1, UnclaimedEffects
  <2>3. op' = [op EXCEPT ![o] = a]
    BY DEF Store
  <2> HIDE DEF u
  <2>4. /\ a \in Records /\ a.state = u.state /\ a.claim = u.claim /\ a.result = run[r].gen
        /\ a.cleanup = u.cleanup /\ a.fresh = u.fresh
    BY <2>1, <2>2 DEF Records
  <2> HIDE DEF a
  <2> QED BY <1>t, <2>2, <2>3, <2>4
<1>3. /\ run' \in [Runner -> Runs] /\ \A s \in Runner : s # r => run'[s] = run[s]
      /\ run'[r].pc = "entered" /\ run'[r].op = o /\ run'[r].claim = 0 /\ run'[r].gen = 0
  <2>1. run' = [run EXCEPT ![r] = [NoRun EXCEPT !.pc = "entered", !.op = o]]
    BY DEF Store
  <2> QED BY <1>t, <2>1, EnterEffects
<1>4. /\ reader' \in Readers /\ (reader' = reader \/ (reader'.op = None /\ ~reader'.live)) /\ None \notin Op
  BY Nothings, NativeAssumption DEF Store, ReleasedReader, StorageTypes
<1>5. op[o].state = "processing" /\ run[r].claim # 0 /\ Holds(r) /\ run[r].gen \in 1..issued
  BY <1>t, <1>n, <1>1 DEF PlacesOK, PlaceOK, Trying, GensOK, Executing
<1>6. NoRun.pc = "idle"
  BY Nothings
<1>7. StorageTypes'
  BY <1>t, <1>1, <1>2, <1>3, <1>4, <1>5, <1>6, <1>u DEF StorageTypes
<1>8. OtherTypes'
  BY <1>t, <1>1, <1>2, <1>3, <1>4, <1>5, <1>6, <1>u DEF OtherTypes
<1>9. IndexOK'
  BY <1>t, <1>1, <1>2, <1>3, <1>4, <1>5, <1>6, <1>u DEF IndexOK
<1>10. KnownOK'
  BY <1>t, <1>1, <1>2, <1>3, <1>4, <1>5, <1>6, <1>u DEF KnownOK
<1>11. RecordsOK'
  BY <1>t, <1>1, <1>2, <1>3, <1>4, <1>5, <1>6, <1>u DEF RecordsOK, Terminal
<1>12. WroteOK'
  BY <1>t, <1>1, <1>2, <1>3, <1>4, <1>5, <1>6, <1>b, <1>u DEF WroteOK, Terminal
<1>13. PlacesOK'
  BY <1>t, <1>1, <1>2, <1>3, <1>4, <1>5, <1>6, <1>u DEF PlacesOK, PlaceOK, Holds, Early, Trying,
     Ending, Terminal, RecordsOK
<1>14. GensOK'
  BY <1>t, <1>1, <1>2, <1>3, <1>4, <1>5, <1>6, <1>n, <1>u DEF GensOK, Executing
<1>15. StoreOK'
  BY <1>t, <1>1, <1>2, <1>3, <1>4, <1>5, <1>6, <1>u DEF StoreOK, Holds, Quiet, Trying, PlacesOK,
     PlaceOK, Early, Ending, Terminal
<1>16. IntactOK'
  BY <1>t, <1>1, <1>2, <1>3, <1>4, <1>5, <1>6, <1>u DEF IntactOK, Quiet, StoreOK, Holds, Trying
<1>17. LandedOK'
  BY <1>t, <1>1, <1>2, <1>3, <1>4, <1>5, <1>6, <1>c, <1>u DEF LandedOK, Holds, Terminal,
     RecordsOK, PlacesOK, PlaceOK, Early, Trying, Ending
<1>18. CleanedUp'
  BY <1>t, <1>1, <1>2, <1>3, <1>4, <1>5, <1>6, <1>u DEF CleanedUp, Terminal
<1>19. ReaderOK'
  BY <1>t, <1>1, <1>2, <1>3, <1>4, <1>5, <1>6, <1>u DEF ReaderOK, Superseded, KnownOK
<1>20. ExecOK' /\ PutsOK' /\ BoxOK'
  BY <1>u, ExecOKFrame, PutsOKFrame, BoxOKFrame
<1> QED BY <1>7, <1>8, <1>9, <1>10, <1>11, <1>12, <1>13, <1>14, <1>15, <1>16, <1>17, <1>18,
   <1>19, <1>20

\* A result without the claim is dropped.
LEMMA StoreLost ==
  ASSUME NativeInv, NEW r \in Runner, NEW o \in Op, run[r].op = o, Store(r), ~Holds(r)
  PROVE  NativeInv'
<1> USE DEF NativeInv
<1>t. /\ op \in [Op -> Records] /\ run \in [Runner -> Runs] /\ issued \in Nat
      /\ exec \in Execs /\ box \in Jobs
  BY DEF StorageTypes, OtherTypes
<1>n. /\ slot.gen \in Nat /\ revoked \in Nat /\ exec.gen \in Nat /\ box.gen \in Nat /\ issued \in Nat
      /\ \A s \in Runner : run[s].gen \in Nat
  BY DEF StorageTypes, OtherTypes, Slots, Execs, Jobs, Runs
<1>u. UNCHANGED <<ops, faults, kinds, op, index, lease, floor, exec, issued, deleting, alarm,
   slot, revoked, shut, box, puts, stored, landed, queued, client, late, robbed, outrun>>
  BY DEF Store, Return, requestVars, storageVars, hostVars, outsideVars
<1>c. \A s \in Runner : run[s].pc # "idle" => run[s].op \in Op
  BY DEF PlacesOK, PlaceOK
<1>1. run[r].pc = "store"
  BY DEF Store
<1>2. /\ run' \in [Runner -> Runs] /\ \A s \in Runner : s # r => run'[s] = run[s]
      /\ run'[r] = NoRun /\ run'[r].pc = "idle" /\ run'[r].claim = 0 /\ run'[r].op = None
      /\ run'[r].gen = 0
  <2>1. Return(r)
    BY DEF Store
  <2> QED BY <1>t, <2>1, ReturnEffects, Nothings
<1>3. /\ reader' \in Readers /\ (reader' = reader \/ (reader'.op = None /\ ~reader'.live)) /\ None \notin Op
  BY Nothings, NativeAssumption DEF Store, ReleasedReader, StorageTypes
<1>4. StorageTypes'
  BY <1>t, <1>1, <1>2, <1>3, <1>u DEF StorageTypes
<1>5. OtherTypes'
  BY <1>t, <1>1, <1>2, <1>3, <1>u DEF OtherTypes
<1>6. KnownOK'
  BY <1>t, <1>1, <1>2, <1>3, <1>u DEF KnownOK
<1>7. PlacesOK'
  BY <1>t, <1>1, <1>2, <1>3, <1>u DEF PlacesOK, PlaceOK, Holds, Early, Trying, Ending, Terminal,
     RecordsOK
<1>8. GensOK'
  BY <1>t, <1>1, <1>2, <1>3, <1>n, <1>u DEF GensOK, Executing
<1>9. StoreOK'
  BY <1>t, <1>1, <1>2, <1>3, <1>u DEF StoreOK, Holds, Quiet, Trying, PlacesOK, PlaceOK, Early,
     Ending, Terminal
<1>10. LandedOK'
  BY <1>t, <1>1, <1>2, <1>3, <1>c, <1>u DEF LandedOK, Holds, Terminal, RecordsOK
<1>11. ReaderOK'
  BY <1>t, <1>1, <1>2, <1>3, <1>u DEF ReaderOK, Superseded, KnownOK
<1>12. IndexOK' /\ RecordsOK' /\ ExecOK' /\ PutsOK' /\ BoxOK' /\ WroteOK' /\ IntactOK' /\
   CleanedUp'
  BY <1>u, IndexOKFrame, RecordsOKFrame, ExecOKFrame, PutsOKFrame, BoxOKFrame, WroteOKFrame,
     IntactOKFrame, CleanedUpFrame
<1> QED BY <1>4, <1>5, <1>6, <1>7, <1>8, <1>9, <1>10, <1>11, <1>12

\* The receive lands, or has landed before.
LEMMA FinalizeLands ==
  ASSUME NativeInv, NEW r \in Runner, NEW o \in Op, run[r].op = o, Finalize(r), Replays(o) \/
     Lands(o), landed' = [landed EXCEPT ![o] = IF @ = 0 THEN op[o].result ELSE @], Goto(r,
     "commit")
  PROVE  NativeInv'
<1> USE DEF NativeInv
<1>t. /\ op \in [Op -> Records] /\ run \in [Runner -> Runs] /\ issued \in Nat
      /\ exec \in Execs /\ box \in Jobs
  BY DEF StorageTypes, OtherTypes
<1>n. /\ slot.gen \in Nat /\ revoked \in Nat /\ exec.gen \in Nat /\ box.gen \in Nat /\ issued \in Nat
      /\ \A s \in Runner : run[s].gen \in Nat
  BY DEF StorageTypes, OtherTypes, Slots, Execs, Jobs, Runs
<1>u. UNCHANGED <<ops, faults, kinds, op, index, reader, floor, exec, issued, deleting, alarm,
   slot, revoked, shut, box, puts, stored, queued, client, late, outrun>>
  BY DEF Finalize, requestVars, storageVars, hostVars, outsideVars
<1>c. \A s \in Runner : run[s].pc # "idle" => run[s].op \in Op
  BY DEF PlacesOK, PlaceOK
<1>1. run[r].pc = "finalize" /\ deleting = "no" /\ op[o].state \in {"finalizing", "committed", "aborted"}
  BY DEF Finalize, Replays, Lands, PlacesOK, PlaceOK, Ending
<1>2. /\ run' \in [Runner -> Runs] /\ \A s \in Runner : s # r => run'[s] = run[s]
      /\ run'[r].pc = "commit" /\ run'[r].op = o /\ run'[r].claim = run[r].claim
      /\ run'[r].gen = run[r].gen /\ run'[r].then = run[r].then
  BY <1>t, GotoEffects DEF Early, Trying, Ending
<1>3. /\ lease' \in Leases /\ None \notin Op /\ (lease' = lease \/ lease'.op = None)
      /\ deleting = "no" => lease'.op # o
  BY Nothings, NativeAssumption DEF Finalize, StorageTypes
<1>4. /\ robbed \subseteq robbed'
      /\ landed[o] # 0 /\ lease.live /\ lease.op # o => o \in robbed'
  BY DEF Finalize
<1>5. /\ landed' \in [Op -> Nat] /\ \A q \in Op : q # o => landed'[q] = landed[q]
      /\ landed'[o] = IF landed[o] = 0 THEN op[o].result ELSE landed[o]
  BY <1>t DEF OtherTypes, Records
<1>6. (op[o].state = "aborted" => landed[o] # 0) /\ (landed[o] = 0 => lease.op = o)
  BY <1>1 DEF LandedOK, Replays, Lands
<1>7. op[o].state \in {"finalizing", "committed"} => op[o].result # 0
  BY <1>t DEF RecordsOK
<1>8. NoRun.pc = "idle"
  BY Nothings
<1>9. StorageTypes'
  BY <1>t, <1>1, <1>2, <1>3, <1>4, <1>5, <1>6, <1>7, <1>8, <1>u DEF StorageTypes
<1>10. OtherTypes'
  BY <1>t, <1>1, <1>2, <1>3, <1>4, <1>5, <1>6, <1>7, <1>8, <1>u DEF OtherTypes
<1>11. KnownOK'
  BY <1>t, <1>1, <1>2, <1>3, <1>4, <1>5, <1>6, <1>7, <1>8, <1>u DEF KnownOK
<1>12. PlacesOK'
  BY <1>t, <1>1, <1>2, <1>3, <1>4, <1>5, <1>6, <1>7, <1>8, <1>u DEF PlacesOK, PlaceOK, Holds,
     Early, Trying, Ending, Terminal, RecordsOK
<1>13. GensOK'
  BY <1>t, <1>1, <1>2, <1>3, <1>4, <1>5, <1>6, <1>7, <1>8, <1>n, <1>u DEF GensOK, Executing
<1>14. StoreOK'
  BY <1>t, <1>1, <1>2, <1>3, <1>4, <1>5, <1>6, <1>7, <1>8, <1>u DEF StoreOK, Holds, Quiet,
     Trying, PlacesOK, PlaceOK, Early, Ending, Terminal
<1>15. LandedOK'
  BY <1>t, <1>1, <1>2, <1>3, <1>4, <1>5, <1>6, <1>7, <1>8, <1>c, <1>u DEF LandedOK, Holds,
     Terminal, RecordsOK, PlacesOK, PlaceOK, Early, Trying, Ending
<1>16. CleanedUp'
  BY <1>5, <1>u DEF CleanedUp
<1>17. IndexOK' /\ RecordsOK' /\ ExecOK' /\ PutsOK' /\ BoxOK' /\ WroteOK' /\ IntactOK' /\ ReaderOK'
  BY <1>u, IndexOKFrame, RecordsOKFrame, ExecOKFrame, PutsOKFrame, BoxOKFrame, WroteOKFrame,
     IntactOKFrame, ReaderOKFrame
<1> QED BY <1>9, <1>10, <1>11, <1>12, <1>13, <1>14, <1>15, <1>16, <1>17

\* The lease is another push's, or the refs moved.
LEMMA FinalizeConflicts ==
  ASSUME NativeInv, NEW r \in Runner, NEW o \in Op, run[r].op = o, Finalize(r), ~Replays(o),
     UNCHANGED landed, Goto(r, "conflict")
  PROVE  NativeInv'
<1> USE DEF NativeInv
<1>t. /\ op \in [Op -> Records] /\ run \in [Runner -> Runs] /\ issued \in Nat
      /\ exec \in Execs /\ box \in Jobs
  BY DEF StorageTypes, OtherTypes
<1>n. /\ slot.gen \in Nat /\ revoked \in Nat /\ exec.gen \in Nat /\ box.gen \in Nat /\ issued \in Nat
      /\ \A s \in Runner : run[s].gen \in Nat
  BY DEF StorageTypes, OtherTypes, Slots, Execs, Jobs, Runs
<1>u. UNCHANGED <<ops, faults, kinds, op, index, reader, floor, exec, issued, deleting, alarm,
   slot, revoked, shut, box, puts, stored, landed, queued, client, late, outrun>>
  BY DEF Finalize, requestVars, storageVars, hostVars, outsideVars
<1>c. \A s \in Runner : run[s].pc # "idle" => run[s].op \in Op
  BY DEF PlacesOK, PlaceOK
<1>1. run[r].pc = "finalize" /\ op[o].state \in {"finalizing", "committed", "aborted"}
  BY DEF Finalize, PlacesOK, PlaceOK, Ending
<1>2. /\ run' \in [Runner -> Runs] /\ \A s \in Runner : s # r => run'[s] = run[s]
      /\ run'[r].pc = "conflict" /\ run'[r].op = o /\ run'[r].claim = run[r].claim
      /\ run'[r].gen = run[r].gen /\ run'[r].then = run[r].then
  BY <1>t, GotoEffects DEF Early, Trying, Ending
<1>3. /\ lease' \in Leases /\ None \notin Op /\ (lease' = lease \/ lease'.op = None)
      /\ deleting = "no" => lease'.op # o
  BY Nothings, NativeAssumption DEF Finalize, StorageTypes
<1>4. /\ robbed \subseteq robbed'
      /\ landed[o] # 0 /\ lease.live /\ lease.op # o => o \in robbed'
  BY DEF Finalize
<1>5. deleting = "no" /\ landed[o] # 0 => lease.live /\ lease.op # o
  BY DEF Replays
<1>6. NoRun.pc = "idle"
  BY Nothings
<1>7. StorageTypes'
  BY <1>t, <1>1, <1>2, <1>3, <1>4, <1>5, <1>6, <1>u DEF StorageTypes
<1>8. OtherTypes'
  BY <1>t, <1>1, <1>2, <1>3, <1>4, <1>5, <1>6, <1>u DEF OtherTypes
<1>9. KnownOK'
  BY <1>t, <1>1, <1>2, <1>3, <1>4, <1>5, <1>6, <1>u DEF KnownOK
<1>10. PlacesOK'
  BY <1>t, <1>1, <1>2, <1>3, <1>4, <1>5, <1>6, <1>u DEF PlacesOK, PlaceOK, Holds, Early, Trying,
     Ending, Terminal, RecordsOK
<1>11. GensOK'
  BY <1>t, <1>1, <1>2, <1>3, <1>4, <1>5, <1>6, <1>n, <1>u DEF GensOK, Executing
<1>12. StoreOK'
  BY <1>t, <1>1, <1>2, <1>3, <1>4, <1>5, <1>6, <1>u DEF StoreOK, Holds, Quiet, Trying, PlacesOK,
     PlaceOK, Early, Ending, Terminal
<1>13. LandedOK'
  BY <1>t, <1>1, <1>2, <1>3, <1>4, <1>5, <1>6, <1>c, <1>u DEF LandedOK, Holds, Terminal,
     RecordsOK
<1>14. IndexOK' /\ RecordsOK' /\ ExecOK' /\ PutsOK' /\ BoxOK' /\ WroteOK' /\ IntactOK' /\
   CleanedUp' /\ ReaderOK'
  BY <1>u, IndexOKFrame, RecordsOKFrame, ExecOKFrame, PutsOKFrame, BoxOKFrame, WroteOKFrame,
     IntactOKFrame, CleanedUpFrame, ReaderOKFrame
<1> QED BY <1>7, <1>8, <1>9, <1>10, <1>11, <1>12, <1>13, <1>14

\* markTerminal records what happened to the refs.
LEMMA ConcludeStep ==
  ASSUME NativeInv, NEW r \in Runner, NEW o \in Op, run[r].op = o, Conclude(r), Holds(r), NEW x
     \in {"committed", "aborted"}, run[r].pc = "commit" <=> x = "committed"
  PROVE  NativeInv'
<1> USE DEF NativeInv
<1>t. /\ op \in [Op -> Records] /\ run \in [Runner -> Runs] /\ issued \in Nat
      /\ exec \in Execs /\ box \in Jobs
  BY DEF StorageTypes, OtherTypes
<1>n. /\ slot.gen \in Nat /\ revoked \in Nat /\ exec.gen \in Nat /\ box.gen \in Nat /\ issued \in Nat
      /\ \A s \in Runner : run[s].gen \in Nat
  BY DEF StorageTypes, OtherTypes, Slots, Execs, Jobs, Runs
<1>u. UNCHANGED <<ops, faults, kinds, index, lease, reader, floor, exec, issued, deleting,
   alarm, slot, revoked, shut, box, puts, stored, landed, queued, client, late, robbed, outrun>>
  BY DEF Conclude, Goto, requestVars, storageVars, hostVars, outsideVars
<1>b. box.gen # 0 => box.op \in Op
  BY DEF BoxOK, ExecOK
<1>c. \A s \in Runner : run[s].pc # "idle" => run[s].op \in Op
  BY DEF PlacesOK, PlaceOK
<1>1. /\ run[r].pc \in {"commit", "conflict"} /\ op[o].state = "finalizing" /\ run[r].claim # 0 /\ Holds(r)
      /\ (run[r].pc = "commit" <=> x = "committed")
  BY DEF Conclude, PlacesOK, PlaceOK, Ending
<1>2. /\ op' \in [Op -> Records] /\ \A q \in Op : q # o => op'[q] = op[q]
      /\ op'[o].state = x /\ op'[o].claim = 0 /\ op'[o].result = op[o].result
      /\ op'[o].cleanup /\ (op'[o].fresh <=> op[o].fresh)
  <2>1. x \in States
    BY DEF States, Terminal
  <2>2. op' = [op EXCEPT ![o] = Ended(o, x)]
    BY <1>1 DEF Conclude
  <2> QED BY <1>t, <2>1, <2>2, EndedEffects
<1>3. /\ run' \in [Runner -> Runs] /\ \A s \in Runner : s # r => run'[s] = run[s]
      /\ run'[r].pc = (IF run[r].pc = "commit" THEN "clean" ELSE "erase") /\ run'[r].op = o /\ run'[r].claim = run[r].claim
      /\ run'[r].gen = run[r].gen /\ run'[r].then = run[r].then
  <2>1. Goto(r, IF run[r].pc = "commit" THEN "clean" ELSE "erase")
    BY DEF Conclude
  <2> QED BY <1>t, <2>1, GotoEffects
<1>4. NoRun.pc = "idle"
  BY Nothings
<1>5. StorageTypes'
  BY <1>t, <1>1, <1>2, <1>3, <1>4, <1>u DEF StorageTypes
<1>6. OtherTypes'
  BY <1>t, <1>1, <1>2, <1>3, <1>4, <1>u DEF OtherTypes
<1>7. IndexOK'
  BY <1>t, <1>1, <1>2, <1>3, <1>4, <1>u DEF IndexOK
<1>8. KnownOK'
  BY <1>t, <1>1, <1>2, <1>3, <1>4, <1>u DEF KnownOK
<1>9. RecordsOK'
  BY <1>t, <1>1, <1>2, <1>3, <1>4, <1>u DEF RecordsOK, Terminal
<1>10. WroteOK'
  BY <1>t, <1>1, <1>2, <1>3, <1>4, <1>b, <1>u DEF WroteOK, Terminal
<1>11. PlacesOK'
  BY <1>t, <1>1, <1>2, <1>3, <1>4, <1>u DEF PlacesOK, PlaceOK, Holds, Early, Trying, Ending,
     Terminal, RecordsOK
<1>12. GensOK'
  BY <1>t, <1>1, <1>2, <1>3, <1>4, <1>n, <1>u DEF GensOK, Executing
<1>13. StoreOK'
  BY <1>t, <1>1, <1>2, <1>3, <1>4, <1>u DEF StoreOK, Holds, Quiet, Trying, PlacesOK, PlaceOK,
     Early, Ending, Terminal
<1>14. IntactOK'
  BY <1>t, <1>1, <1>2, <1>3, <1>4, <1>u DEF IntactOK, Quiet
<1>15. LandedOK'
  BY <1>t, <1>1, <1>2, <1>3, <1>4, <1>c, <1>u DEF LandedOK, Holds, Terminal, RecordsOK,
     PlacesOK, PlaceOK, Early, Trying, Ending
<1>16. CleanedUp'
  BY <1>t, <1>1, <1>2, <1>3, <1>4, <1>u DEF CleanedUp, Terminal
<1>17. ReaderOK'
  BY <1>t, <1>1, <1>2, <1>3, <1>4, <1>u DEF ReaderOK, Superseded, KnownOK
<1>18. ExecOK' /\ PutsOK' /\ BoxOK'
  BY <1>u, ExecOKFrame, PutsOKFrame, BoxOKFrame
<1> QED BY <1>5, <1>6, <1>7, <1>8, <1>9, <1>10, <1>11, <1>12, <1>13, <1>14, <1>15, <1>16, <1>17,
   <1>18

\* A run goes on to clean up after another one.
LEMMA CleansStep ==
  ASSUME NativeInv, NEW r \in Runner, NEW o \in Op, run[r].op = o,
     NEW pc \in {"clean", "erase"}, Goto(r, pc), op[o].state \in Terminal,
     run[r].pc # "idle", pc = "clean" => landed[o] # 0, UNCHANGED <<requestVars, storageVars, hostVars,
     outsideVars, late, robbed, outrun>>
  PROVE  NativeInv'
<1> USE DEF NativeInv
<1>t. /\ op \in [Op -> Records] /\ run \in [Runner -> Runs] /\ issued \in Nat
      /\ exec \in Execs /\ box \in Jobs
  BY DEF StorageTypes, OtherTypes
<1>n. /\ slot.gen \in Nat /\ revoked \in Nat /\ exec.gen \in Nat /\ box.gen \in Nat /\ issued \in Nat
      /\ \A s \in Runner : run[s].gen \in Nat
  BY DEF StorageTypes, OtherTypes, Slots, Execs, Jobs, Runs
<1>u. UNCHANGED <<ops, faults, kinds, op, index, lease, reader, floor, exec, issued, deleting,
   alarm, slot, revoked, shut, box, puts, stored, landed, queued, client, late, robbed, outrun>>
  BY DEF requestVars, storageVars, hostVars, outsideVars
<1>c. \A s \in Runner : run[s].pc # "idle" => run[s].op \in Op
  BY DEF PlacesOK, PlaceOK
<1>1. /\ run' \in [Runner -> Runs] /\ \A s \in Runner : s # r => run'[s] = run[s]
      /\ run'[r].pc = pc /\ run'[r].op = o /\ run'[r].claim = run[r].claim
      /\ run'[r].gen = run[r].gen /\ run'[r].then = run[r].then
  BY <1>t, GotoEffects DEF Early, Trying, Ending
<1>2. op[o].state \in Terminal /\ run[r].pc # "idle" /\ (pc = "clean" => landed[o] # 0)
  OBVIOUS
<1>3. NoRun.pc = "idle"
  BY Nothings
<1>4. OtherTypes'
  BY <1>t, <1>1, <1>2, <1>3, <1>u DEF OtherTypes
<1>5. KnownOK'
  BY <1>t, <1>1, <1>2, <1>3, <1>u DEF KnownOK
<1>6. PlacesOK'
  BY <1>t, <1>1, <1>2, <1>3, <1>u DEF PlacesOK, PlaceOK, Holds, Early, Trying, Ending, Terminal,
     RecordsOK
<1>7. GensOK'
  BY <1>t, <1>1, <1>2, <1>3, <1>n, <1>u DEF GensOK, Executing
<1>8. StoreOK'
  BY <1>t, <1>1, <1>2, <1>3, <1>u DEF StoreOK, Holds, Quiet, Trying, PlacesOK, PlaceOK, Early,
     Ending, Terminal
<1>9. LandedOK'
  BY <1>t, <1>1, <1>2, <1>3, <1>c, <1>u DEF LandedOK, Holds, Terminal, RecordsOK
<1>10. StorageTypes' /\ IndexOK' /\ RecordsOK' /\ ExecOK' /\ PutsOK' /\ BoxOK' /\ WroteOK' /\
   IntactOK' /\ CleanedUp' /\ ReaderOK'
  BY <1>u, StorageTypesFrame, IndexOKFrame, RecordsOKFrame, ExecOKFrame, PutsOKFrame,
     BoxOKFrame, WroteOKFrame, IntactOKFrame, CleanedUpFrame, ReaderOKFrame
<1> QED BY <1>4, <1>5, <1>6, <1>7, <1>8, <1>9, <1>10

\* An error releases the claim; the operation is retried.
LEMMA FinalizeThrowsStep ==
  ASSUME NativeInv, NEW r \in Runner, NEW o \in Op, run[r].op = o, FinalizeThrows(r)
  PROVE  NativeInv'
<1> USE DEF NativeInv
<1>t. /\ op \in [Op -> Records] /\ run \in [Runner -> Runs] /\ issued \in Nat
      /\ exec \in Execs /\ box \in Jobs
  BY DEF StorageTypes, OtherTypes
<1>n. /\ slot.gen \in Nat /\ revoked \in Nat /\ exec.gen \in Nat /\ box.gen \in Nat /\ issued \in Nat
      /\ \A s \in Runner : run[s].gen \in Nat
  BY DEF StorageTypes, OtherTypes, Slots, Execs, Jobs, Runs
<1>u. UNCHANGED <<ops, kinds, index, lease, reader, floor, exec, issued, deleting, slot,
   revoked, shut, box, puts, stored, landed, queued, client, late, robbed, outrun>>
  BY DEF FinalizeThrows, Fault, Wake, Return, requestVars, storageVars, hostVars, outsideVars
<1>b. box.gen # 0 => box.op \in Op
  BY DEF BoxOK, ExecOK
<1>c. \A s \in Runner : run[s].pc # "idle" => run[s].op \in Op
  BY DEF PlacesOK, PlaceOK
<1>1. run[r].pc \in {"finalize", "commit"} /\ (Holds(r) => op[o].state = "finalizing" /\ run[r].claim # 0)
  BY DEF FinalizeThrows, PlacesOK, PlaceOK, Ending
<1>2. /\ op' \in [Op -> Records] /\ \A q \in Op : q # o => op'[q] = op[q]
      /\ ~Holds(r) => op' = op
      /\ Holds(r) => /\ op'[o].state = "finalizing" /\ op'[o].claim = 0 /\ op'[o].result = op[o].result
                     /\ (op'[o].cleanup <=> op[o].cleanup) /\ (op'[o].fresh <=> op[o].fresh)
  <2>1. "finalizing" \in States
    BY DEF States, Terminal
  <2>2. op' = IF Holds(r) THEN [op EXCEPT ![o] = Unclaimed(o, "finalizing")] ELSE op
    BY DEF FinalizeThrows
  <2> QED BY <1>t, <2>1, <2>2, UnclaimedEffects
<1>3. /\ run' \in [Runner -> Runs] /\ \A s \in Runner : s # r => run'[s] = run[s]
      /\ run'[r] = NoRun /\ run'[r].pc = "idle" /\ run'[r].claim = 0 /\ run'[r].op = None
      /\ run'[r].gen = 0
  <2>1. Return(r)
    BY DEF FinalizeThrows, Wake
  <2> QED BY <1>t, <2>1, ReturnEffects, Nothings
<1>4. None \notin Op
  BY NativeAssumption
<1>5. StorageTypes'
  BY <1>t, <1>1, <1>2, <1>3, <1>4, <1>u DEF StorageTypes
<1>6. OtherTypes'
  BY <1>t, <1>1, <1>2, <1>3, <1>4, <1>u DEF OtherTypes
<1>7. IndexOK'
  BY <1>t, <1>1, <1>2, <1>3, <1>4, <1>u DEF IndexOK
<1>8. KnownOK'
  BY <1>t, <1>1, <1>2, <1>3, <1>4, <1>u DEF KnownOK
<1>9. RecordsOK'
  BY <1>t, <1>1, <1>2, <1>3, <1>4, <1>u DEF RecordsOK, Terminal
<1>10. WroteOK'
  BY <1>t, <1>1, <1>2, <1>3, <1>4, <1>b, <1>u DEF WroteOK, Terminal
<1>11. PlacesOK'
  BY <1>t, <1>1, <1>2, <1>3, <1>4, <1>u DEF PlacesOK, PlaceOK, Holds, Early, Trying, Ending,
     Terminal, RecordsOK
<1>12. GensOK'
  BY <1>t, <1>1, <1>2, <1>3, <1>4, <1>n, <1>u DEF GensOK, Executing
<1>13. StoreOK'
  BY <1>t, <1>1, <1>2, <1>3, <1>4, <1>u DEF StoreOK, Holds, Quiet, Trying, PlacesOK, PlaceOK,
     Early, Ending, Terminal
<1>14. IntactOK'
  BY <1>t, <1>1, <1>2, <1>3, <1>4, <1>u DEF IntactOK, Quiet
<1>15. LandedOK'
  BY <1>t, <1>1, <1>2, <1>3, <1>4, <1>c, <1>u DEF LandedOK, Holds, Terminal, RecordsOK,
     PlacesOK, PlaceOK, Early, Trying, Ending
<1>16. CleanedUp'
  BY <1>t, <1>1, <1>2, <1>3, <1>4, <1>u DEF CleanedUp, Terminal
<1>17. ReaderOK'
  BY <1>t, <1>1, <1>2, <1>3, <1>4, <1>u DEF ReaderOK, Superseded, KnownOK
<1>18. ExecOK' /\ PutsOK' /\ BoxOK'
  BY <1>u, ExecOKFrame, PutsOKFrame, BoxOKFrame
<1> QED BY <1>5, <1>6, <1>7, <1>8, <1>9, <1>10, <1>11, <1>12, <1>13, <1>14, <1>15, <1>16, <1>17,
   <1>18

\* A heartbeat renews the claim and the lease.
LEMMA HeartbeatRenews ==
  ASSUME NativeInv, NEW r \in Runner, NEW o \in Op, run[r].op = o, Heartbeat(r), UNCHANGED
     <<run, exec, box, hostVars>>
  PROVE  NativeInv'
<1> USE DEF NativeInv
<1>t. /\ op \in [Op -> Records] /\ run \in [Runner -> Runs] /\ issued \in Nat
      /\ exec \in Execs /\ box \in Jobs
  BY DEF StorageTypes, OtherTypes
<1>u. UNCHANGED <<ops, faults, kinds, index, reader, floor, exec, issued, deleting, alarm, slot,
   revoked, shut, run, box, puts, stored, landed, queued, client, late, robbed, outrun>>
  BY DEF Heartbeat, requestVars, storageVars, hostVars, outsideVars
<1>b. box.gen # 0 => box.op \in Op
  BY DEF BoxOK, ExecOK
<1>c. \A s \in Runner : run[s].pc # "idle" => run[s].op \in Op
  BY DEF PlacesOK, PlaceOK
<1>1. /\ op' \in [Op -> Records]
      /\ \A q \in Op : /\ op'[q].state = op[q].state /\ op'[q].claim = op[q].claim
                        /\ op'[q].result = op[q].result /\ (op'[q].cleanup <=> op[q].cleanup)
                        /\ (op'[q].fresh <=> op[q].fresh)
  <2> DEFINE a == [op[o] EXCEPT !.live = TRUE]
  <2>1. op' = [op EXCEPT ![o] = a] \/ op' = op
    BY DEF Heartbeat
  <2>2. op[o] \in Records
    BY <1>t
  <2>3. /\ a \in Records /\ a.state = op[o].state /\ a.claim = op[o].claim /\ a.result = op[o].result
        /\ a.cleanup = op[o].cleanup /\ a.fresh = op[o].fresh
    BY <2>2 DEF Records
  <2> HIDE DEF a
  <2> QED BY <1>t, <2>1, <2>3
<1>2. /\ lease' \in Leases /\ lease'.op = lease.op
  BY DEF Heartbeat, StorageTypes, Leases
<1>3. StorageTypes'
  BY <1>t, <1>1, <1>2, <1>u DEF StorageTypes
<1>4. IndexOK'
  BY <1>t, <1>1, <1>2, <1>u DEF IndexOK
<1>5. KnownOK'
  BY <1>t, <1>1, <1>2, <1>u DEF KnownOK
<1>6. RecordsOK'
  BY <1>t, <1>1, <1>2, <1>u DEF RecordsOK, Terminal
<1>7. WroteOK'
  BY <1>t, <1>1, <1>2, <1>b, <1>u DEF WroteOK, Terminal
<1>8. PlacesOK'
  BY <1>t, <1>1, <1>2, <1>u DEF PlacesOK, PlaceOK, Holds, Early, Trying, Ending, Terminal,
     RecordsOK
<1>9. StoreOK'
  BY <1>t, <1>1, <1>2, <1>u DEF StoreOK, Holds, Quiet, Trying, PlacesOK, PlaceOK, Early, Ending,
     Terminal
<1>10. IntactOK'
  BY <1>t, <1>1, <1>2, <1>u DEF IntactOK, Quiet
<1>11. LandedOK'
  BY <1>t, <1>1, <1>2, <1>c, <1>u DEF LandedOK, Holds, Terminal, RecordsOK
<1>12. CleanedUp'
  BY <1>t, <1>1, <1>2, <1>u DEF CleanedUp, Terminal
<1>13. ReaderOK'
  BY <1>t, <1>1, <1>2, <1>u DEF ReaderOK, Superseded, KnownOK
<1>14. OtherTypes' /\ ExecOK' /\ PutsOK' /\ BoxOK' /\ GensOK'
  BY <1>u, OtherTypesFrame, ExecOKFrame, PutsOKFrame, BoxOKFrame, GensOKFrame
<1> QED BY <1>3, <1>4, <1>5, <1>6, <1>7, <1>8, <1>9, <1>10, <1>11, <1>12, <1>13, <1>14

\* One that cannot lets its run know.
LEMMA HeartbeatGivesUp ==
  ASSUME NativeInv, NEW r \in Runner, NEW o \in Op, run[r].op = o, Heartbeat(r), run' = [run
     EXCEPT ![r].beat = FALSE], UNCHANGED <<exec, box, hostVars>>
  PROVE  NativeInv'
<1> USE DEF NativeInv
<1>t. /\ op \in [Op -> Records] /\ run \in [Runner -> Runs] /\ issued \in Nat
      /\ exec \in Execs /\ box \in Jobs
  BY DEF StorageTypes, OtherTypes
<1>n. /\ slot.gen \in Nat /\ revoked \in Nat /\ exec.gen \in Nat /\ box.gen \in Nat /\ issued \in Nat
      /\ \A s \in Runner : run[s].gen \in Nat
  BY DEF StorageTypes, OtherTypes, Slots, Execs, Jobs, Runs
<1>u. UNCHANGED <<ops, faults, kinds, index, reader, floor, exec, issued, deleting, alarm, slot,
   revoked, shut, box, puts, stored, landed, queued, client, late, robbed, outrun>>
  BY DEF Heartbeat, requestVars, storageVars, hostVars, outsideVars
<1>b. box.gen # 0 => box.op \in Op
  BY DEF BoxOK, ExecOK
<1>c. \A s \in Runner : run[s].pc # "idle" => run[s].op \in Op
  BY DEF PlacesOK, PlaceOK
<1>1. /\ op' \in [Op -> Records]
      /\ \A q \in Op : /\ op'[q].state = op[q].state /\ op'[q].claim = op[q].claim
                        /\ op'[q].result = op[q].result /\ (op'[q].cleanup <=> op[q].cleanup)
                        /\ (op'[q].fresh <=> op[q].fresh)
  <2> DEFINE a == [op[o] EXCEPT !.live = TRUE]
  <2>1. op' = [op EXCEPT ![o] = a] \/ op' = op
    BY DEF Heartbeat
  <2>2. op[o] \in Records
    BY <1>t
  <2>3. /\ a \in Records /\ a.state = op[o].state /\ a.claim = op[o].claim /\ a.result = op[o].result
        /\ a.cleanup = op[o].cleanup /\ a.fresh = op[o].fresh
    BY <2>2 DEF Records
  <2> HIDE DEF a
  <2> QED BY <1>t, <2>1, <2>3
<1>2. /\ lease' \in Leases /\ lease'.op = lease.op
  BY DEF Heartbeat, StorageTypes, Leases
<1>3. /\ run' \in [Runner -> Runs] /\ \A s \in Runner : s # r => run'[s] = run[s]
      /\ run'[r].pc = run[r].pc /\ run'[r].op = run[r].op /\ run'[r].claim = run[r].claim
      /\ run'[r].gen = run[r].gen /\ run'[r].then = run[r].then
  <2>1. run[r] \in Runs
    BY <1>t
  <2> QED BY <1>t, <2>1 DEF Runs
<1>4. run[r].pc # "idle" /\ NoRun.pc = "idle"
  BY Nothings DEF Heartbeat, Beating
<1>5. StorageTypes'
  BY <1>t, <1>1, <1>2, <1>3, <1>4, <1>u DEF StorageTypes
<1>6. OtherTypes'
  BY <1>t, <1>1, <1>2, <1>3, <1>4, <1>u DEF OtherTypes
<1>7. IndexOK'
  BY <1>t, <1>1, <1>2, <1>3, <1>4, <1>u DEF IndexOK
<1>8. KnownOK'
  BY <1>t, <1>1, <1>2, <1>3, <1>4, <1>u DEF KnownOK
<1>9. RecordsOK'
  BY <1>t, <1>1, <1>2, <1>3, <1>4, <1>u DEF RecordsOK, Terminal
<1>10. WroteOK'
  BY <1>t, <1>1, <1>2, <1>3, <1>4, <1>b, <1>u DEF WroteOK, Terminal
<1>11. PlacesOK'
  <2>1. ASSUME NEW s \in Runner PROVE PlaceOK(s)'
    <3>1. /\ run'[s].pc = run[s].pc /\ run'[s].op = run[s].op /\ run'[s].claim = run[s].claim
          /\ run'[s].then = run[s].then
      BY <1>3
    <3>2. run'[s].pc = "idle" <=> run'[s] = NoRun
      BY <1>3, <1>4 DEF PlacesOK, PlaceOK
    <3>3. CASE run[s].pc = "idle"
      BY <3>1, <3>2, <3>3 DEF PlaceOK, Early, Trying, Ending
    <3>4. CASE run[s].pc # "idle"
      <4>1. run[s].op \in Op
        BY <1>c, <3>4
      <4>2. op'[run[s].op].state = op[run[s].op].state /\ (Holds(s)' <=> Holds(s))
        BY <1>1, <3>1, <4>1 DEF Holds
      <4> QED BY <3>1, <3>2, <4>1, <4>2 DEF PlacesOK, PlaceOK
    <3> QED BY <3>3, <3>4
  <2>3. \A x, y \in Runner : run'[x].claim = run'[y].claim /\ run'[x].claim # 0 => x = y
    BY <1>t, <1>1, <1>2, <1>3, <1>4, <1>u DEF PlacesOK
  <2> QED BY <2>1, <2>3 DEF PlacesOK
<1>12. GensOK'
  BY <1>t, <1>1, <1>2, <1>3, <1>4, <1>n, <1>u DEF GensOK, Executing
<1>13. StoreOK'
  BY <1>t, <1>1, <1>2, <1>3, <1>4, <1>u DEF StoreOK, Holds, Quiet, Trying, PlacesOK, PlaceOK,
     Early, Ending, Terminal
<1>14. IntactOK'
  BY <1>t, <1>1, <1>2, <1>3, <1>4, <1>u DEF IntactOK, Quiet
<1>15. LandedOK'
  BY <1>t, <1>1, <1>2, <1>3, <1>4, <1>c, <1>u DEF LandedOK, Holds, Terminal, RecordsOK
<1>16. CleanedUp'
  BY <1>t, <1>1, <1>2, <1>3, <1>4, <1>u DEF CleanedUp, Terminal
<1>17. ReaderOK'
  BY <1>t, <1>1, <1>2, <1>3, <1>4, <1>u DEF ReaderOK, Superseded, KnownOK
<1>18. ExecOK' /\ PutsOK' /\ BoxOK'
  BY <1>u, ExecOKFrame, PutsOKFrame, BoxOKFrame
<1> QED BY <1>5, <1>6, <1>7, <1>8, <1>9, <1>10, <1>11, <1>12, <1>13, <1>14, <1>15, <1>16, <1>17,
   <1>18

\* It cancels the execution of its own claim.
LEMMA HeartbeatCancels ==
  ASSUME NativeInv, NEW r \in Runner, NEW o \in Op, run[r].op = o, Heartbeat(r), run' = [run
     EXCEPT ![r].beat = FALSE], exec.op = o, exec' = IF exec.state = "active" THEN [exec EXCEPT
     !.state = "revoked", !.drain = TRUE] ELSE Acknowledged(exec.gen), Stopped(exec.gen), box' =
     Destroyed(exec.gen)
  PROVE  NativeInv'
<1> USE DEF NativeInv
<1>t. /\ op \in [Op -> Records] /\ run \in [Runner -> Runs] /\ issued \in Nat
      /\ exec \in Execs /\ box \in Jobs
  BY DEF StorageTypes, OtherTypes
<1>n. /\ slot.gen \in Nat /\ revoked \in Nat /\ exec.gen \in Nat /\ box.gen \in Nat /\ issued \in Nat
      /\ \A s \in Runner : run[s].gen \in Nat
  BY DEF StorageTypes, OtherTypes, Slots, Execs, Jobs, Runs
<1>u. UNCHANGED <<ops, faults, kinds, index, reader, floor, issued, deleting, alarm, shut, puts,
   stored, landed, queued, client, late, robbed, outrun>>
  BY DEF Heartbeat, Stopped, requestVars, storageVars, hostVars, outsideVars
<1>b. box.gen # 0 => box.op \in Op
  BY DEF BoxOK, ExecOK
<1>c. \A s \in Runner : run[s].pc # "idle" => run[s].op \in Op
  BY DEF PlacesOK, PlaceOK
<1>1. /\ op' \in [Op -> Records]
      /\ \A q \in Op : /\ op'[q].state = op[q].state /\ op'[q].claim = op[q].claim
                        /\ op'[q].result = op[q].result /\ (op'[q].cleanup <=> op[q].cleanup)
                        /\ (op'[q].fresh <=> op[q].fresh)
  <2> DEFINE a == [op[o] EXCEPT !.live = TRUE]
  <2>1. op' = [op EXCEPT ![o] = a] \/ op' = op
    BY DEF Heartbeat
  <2>2. op[o] \in Records
    BY <1>t
  <2>3. /\ a \in Records /\ a.state = op[o].state /\ a.claim = op[o].claim /\ a.result = op[o].result
        /\ a.cleanup = op[o].cleanup /\ a.fresh = op[o].fresh
    BY <2>2 DEF Records
  <2> HIDE DEF a
  <2> QED BY <1>t, <2>1, <2>3
<1>2. /\ lease' \in Leases /\ lease'.op = lease.op
  BY DEF Heartbeat, StorageTypes, Leases
<1>3. /\ run' \in [Runner -> Runs] /\ \A s \in Runner : s # r => run'[s] = run[s]
      /\ run'[r].pc = run[r].pc /\ run'[r].op = run[r].op /\ run'[r].claim = run[r].claim
      /\ run'[r].gen = run[r].gen /\ run'[r].then = run[r].then
  <2>1. run[r] \in Runs
    BY <1>t
  <2> QED BY <1>t, <2>1 DEF Runs
<1>4. run[r].pc # "idle" /\ NoRun.pc = "idle"
  BY Nothings DEF Heartbeat, Beating
<1>5. /\ slot' \in Slots /\ revoked' \in Nat /\ slot'.gen = slot.gen /\ revoked' \in {revoked, exec.gen}
      /\ slot.gen = exec.gen => slot'.state = "revoked"
      /\ slot.gen # exec.gen => slot' = slot
  <2>1. Stopped(exec.gen) /\ exec.gen \in Nat
    BY <1>t DEF Heartbeat, Execs
  <2> QED BY <2>1, <1>t, StoppedEffects DEF OtherTypes
<1>6. /\ box' \in Jobs /\ NoJob.gen = 0
      /\ slot.gen = exec.gen => box' = NoJob
      /\ slot.gen # exec.gen => box' = box
  <2>1. Stopped(exec.gen) /\ exec.gen \in Nat /\ box' = Destroyed(exec.gen)
    BY <1>t DEF Heartbeat, Execs
  <2> QED BY <2>1, <1>t, StoppedEffects, Nothings DEF OtherTypes
<1>7. /\ exec' \in Execs /\ exec'.gen = exec.gen /\ exec'.op = exec.op
      /\ exec.state = "active" => exec'.state = "revoked" /\ exec'.drain /\ (exec'.stop <=> exec.stop)
      /\ exec.state # "active" => exec'.state = exec.state /\ (exec'.drain <=> exec.drain)
      /\ exec.state \notin {"active", "revoked"} => exec' = exec
      /\ exec.state = "revoked" => ~exec'.stop
  <2>1. CASE exec.state = "active"
    BY <1>t, <2>1 DEF Execs
  <2>2. CASE exec.state # "active"
    BY <1>t, <2>2, AcknowledgedEffects
  <2> QED BY <2>1, <2>2
<1>8. box.gen # 0 => box.gen = exec.gen /\ slot.gen = box.gen
  BY DEF BoxOK
<1>9. StorageTypes'
  BY <1>t, <1>1, <1>2, <1>3, <1>4, <1>5, <1>6, <1>7, <1>8, <1>u DEF StorageTypes
<1>10. OtherTypes'
  BY <1>t, <1>1, <1>2, <1>3, <1>4, <1>5, <1>6, <1>7, <1>8, <1>u DEF OtherTypes
<1>11. IndexOK'
  BY <1>t, <1>1, <1>2, <1>3, <1>4, <1>5, <1>6, <1>7, <1>8, <1>u DEF IndexOK
<1>12. KnownOK'
  BY <1>t, <1>1, <1>2, <1>3, <1>4, <1>5, <1>6, <1>7, <1>8, <1>u DEF KnownOK
<1>13. RecordsOK'
  BY <1>t, <1>1, <1>2, <1>3, <1>4, <1>5, <1>6, <1>7, <1>8, <1>u DEF RecordsOK, Terminal
<1>14. ExecOK'
  BY <1>t, <1>1, <1>2, <1>3, <1>4, <1>5, <1>6, <1>7, <1>8, <1>n, <1>u DEF ExecOK
<1>15. PutsOK'
  BY <1>t, <1>1, <1>2, <1>3, <1>4, <1>5, <1>6, <1>7, <1>8, <1>u DEF PutsOK, ExecOK
<1>16. BoxOK'
  BY <1>t, <1>1, <1>2, <1>3, <1>4, <1>5, <1>6, <1>7, <1>8, <1>u DEF BoxOK, ExecOK
<1>17. WroteOK'
  BY <1>t, <1>1, <1>2, <1>3, <1>4, <1>5, <1>6, <1>7, <1>8, <1>b, <1>u DEF WroteOK, Terminal
<1>18. PlacesOK'
  <2>1. ASSUME NEW s \in Runner PROVE PlaceOK(s)'
    <3>1. /\ run'[s].pc = run[s].pc /\ run'[s].op = run[s].op /\ run'[s].claim = run[s].claim
          /\ run'[s].then = run[s].then
      BY <1>3
    <3>2. run'[s].pc = "idle" <=> run'[s] = NoRun
      BY <1>3, <1>4 DEF PlacesOK, PlaceOK
    <3>3. CASE run[s].pc = "idle"
      BY <3>1, <3>2, <3>3 DEF PlaceOK, Early, Trying, Ending
    <3>4. CASE run[s].pc # "idle"
      <4>1. run[s].op \in Op
        BY <1>c, <3>4
      <4>2. op'[run[s].op].state = op[run[s].op].state /\ (Holds(s)' <=> Holds(s))
        BY <1>1, <3>1, <4>1 DEF Holds
      <4> QED BY <3>1, <3>2, <4>1, <4>2 DEF PlacesOK, PlaceOK
    <3> QED BY <3>3, <3>4
  <2>3. \A x, y \in Runner : run'[x].claim = run'[y].claim /\ run'[x].claim # 0 => x = y
    BY <1>t, <1>1, <1>2, <1>3, <1>4, <1>5, <1>6, <1>7, <1>8, <1>u DEF PlacesOK
  <2> QED BY <2>1, <2>3 DEF PlacesOK
<1>19. GensOK'
  BY <1>t, <1>1, <1>2, <1>3, <1>4, <1>5, <1>6, <1>7, <1>8, <1>n, <1>u DEF GensOK, Executing
<1>20. StoreOK'
  BY <1>t, <1>1, <1>2, <1>3, <1>4, <1>5, <1>6, <1>7, <1>8, <1>u DEF StoreOK, Holds, Quiet,
     Trying, PlacesOK, PlaceOK, Early, Ending, Terminal
<1>21. IntactOK'
  BY <1>t, <1>1, <1>2, <1>3, <1>4, <1>5, <1>6, <1>7, <1>8, <1>u DEF IntactOK, Quiet
<1>22. LandedOK'
  BY <1>t, <1>1, <1>2, <1>3, <1>4, <1>5, <1>6, <1>7, <1>8, <1>c, <1>u DEF LandedOK, Holds,
     Terminal, RecordsOK
<1>23. CleanedUp'
  BY <1>t, <1>1, <1>2, <1>3, <1>4, <1>5, <1>6, <1>7, <1>8, <1>u DEF CleanedUp, Terminal
<1>24. ReaderOK'
  BY <1>t, <1>1, <1>2, <1>3, <1>4, <1>5, <1>6, <1>7, <1>8, <1>u DEF ReaderOK, Superseded,
     KnownOK
<1> QED BY <1>9, <1>10, <1>11, <1>12, <1>13, <1>14, <1>15, <1>16, <1>17, <1>18, <1>19, <1>20,
   <1>21, <1>22, <1>23, <1>24

\* A claim may run out at any time.
LEMMA ClaimLapsesStep ==
  ASSUME NativeInv, NEW o \in Op, ClaimLapses(o)
  PROVE  NativeInv'
<1> USE DEF NativeInv
<1>t. /\ op \in [Op -> Records] /\ run \in [Runner -> Runs] /\ issued \in Nat
      /\ exec \in Execs /\ box \in Jobs
  BY DEF StorageTypes, OtherTypes
<1>u. UNCHANGED <<ops, kinds, index, lease, reader, floor, exec, issued, deleting, alarm, slot,
   revoked, shut, run, box, puts, stored, landed, queued, client, late, robbed, outrun>>
  BY DEF ClaimLapses, Fault, requestVars, storageVars, hostVars, outsideVars
<1>b. box.gen # 0 => box.op \in Op
  BY DEF BoxOK, ExecOK
<1>c. \A s \in Runner : run[s].pc # "idle" => run[s].op \in Op
  BY DEF PlacesOK, PlaceOK
<1>1. /\ op' \in [Op -> Records]
      /\ \A q \in Op : /\ op'[q].state = op[q].state /\ op'[q].claim = op[q].claim
                        /\ op'[q].result = op[q].result /\ (op'[q].cleanup <=> op[q].cleanup)
                        /\ (op'[q].fresh <=> op[q].fresh)
  <2> DEFINE a == [op[o] EXCEPT !.live = FALSE]
  <2>1. op' = [op EXCEPT ![o] = a] \/ op' = op
    BY DEF ClaimLapses
  <2>2. op[o] \in Records
    BY <1>t
  <2>3. /\ a \in Records /\ a.state = op[o].state /\ a.claim = op[o].claim /\ a.result = op[o].result
        /\ a.cleanup = op[o].cleanup /\ a.fresh = op[o].fresh
    BY <2>2 DEF Records
  <2> HIDE DEF a
  <2> QED BY <1>t, <2>1, <2>3
<1>2. StorageTypes'
  BY <1>t, <1>1, <1>u DEF StorageTypes
<1>3. IndexOK'
  BY <1>t, <1>1, <1>u DEF IndexOK
<1>4. KnownOK'
  BY <1>t, <1>1, <1>u DEF KnownOK
<1>5. RecordsOK'
  BY <1>t, <1>1, <1>u DEF RecordsOK, Terminal
<1>6. WroteOK'
  BY <1>t, <1>1, <1>b, <1>u DEF WroteOK, Terminal
<1>7. PlacesOK'
  BY <1>t, <1>1, <1>u DEF PlacesOK, PlaceOK, Holds, Early, Trying, Ending, Terminal, RecordsOK
<1>8. StoreOK'
  BY <1>t, <1>1, <1>u DEF StoreOK, Holds, Quiet, Trying, PlacesOK, PlaceOK, Early, Ending,
     Terminal
<1>9. IntactOK'
  BY <1>t, <1>1, <1>u DEF IntactOK, Quiet
<1>10. LandedOK'
  BY <1>t, <1>1, <1>c, <1>u DEF LandedOK, Holds, Terminal, RecordsOK
<1>11. CleanedUp'
  BY <1>t, <1>1, <1>u DEF CleanedUp, Terminal
<1>12. ReaderOK'
  BY <1>t, <1>1, <1>u DEF ReaderOK, Superseded, KnownOK
<1>13. OtherTypes' /\ ExecOK' /\ PutsOK' /\ BoxOK' /\ GensOK'
  BY <1>u, OtherTypesFrame, ExecOKFrame, PutsOKFrame, BoxOKFrame, GensOKFrame
<1> QED BY <1>2, <1>3, <1>4, <1>5, <1>6, <1>7, <1>8, <1>9, <1>10, <1>11, <1>12, <1>13

\* So may a reader lease.
LEMMA ReaderLapsesStep ==
  ASSUME NativeInv, ReaderLapses
  PROVE  NativeInv'
<1> USE DEF NativeInv
<1>t. /\ op \in [Op -> Records] /\ run \in [Runner -> Runs] /\ issued \in Nat
      /\ exec \in Execs /\ box \in Jobs
  BY DEF StorageTypes, OtherTypes
<1>u. UNCHANGED <<ops, kinds, op, index, lease, floor, exec, issued, deleting, alarm, slot,
   revoked, shut, run, box, puts, stored, landed, queued, client, late, robbed, outrun>>
  BY DEF ReaderLapses, Fault, requestVars, storageVars, hostVars, outsideVars
<1>1. reader' \in Readers /\ reader'.op = reader.op /\ ~reader'.live
  BY DEF ReaderLapses, Readers, StorageTypes
<1>2. StorageTypes'
  BY <1>t, <1>1, <1>u DEF StorageTypes
<1>3. KnownOK'
  BY <1>t, <1>1, <1>u DEF KnownOK
<1>4. ReaderOK'
  BY <1>t, <1>1, <1>u DEF ReaderOK, Superseded, KnownOK
<1>5. OtherTypes' /\ IndexOK' /\ RecordsOK' /\ ExecOK' /\ PutsOK' /\ BoxOK' /\ WroteOK' /\
   PlacesOK' /\ GensOK' /\ StoreOK' /\ IntactOK' /\ LandedOK' /\ CleanedUp'
  BY <1>u, OtherTypesFrame, IndexOKFrame, RecordsOKFrame, ExecOKFrame, PutsOKFrame, BoxOKFrame,
     WroteOKFrame, PlacesOKFrame, GensOKFrame, StoreOKFrame, IntactOKFrame, LandedOKFrame,
     CleanedUpFrame
<1> QED BY <1>2, <1>3, <1>4, <1>5

\* And the receive lease.
LEMMA LeaseLapsesStep ==
  ASSUME NativeInv, LeaseLapses
  PROVE  NativeInv'
<1> USE DEF NativeInv
<1>t. /\ op \in [Op -> Records] /\ run \in [Runner -> Runs] /\ issued \in Nat
      /\ exec \in Execs /\ box \in Jobs
  BY DEF StorageTypes, OtherTypes
<1>u. UNCHANGED <<ops, kinds, op, index, reader, floor, exec, issued, deleting, alarm, slot,
   revoked, shut, run, box, puts, stored, landed, queued, client, late, robbed, outrun>>
  BY DEF LeaseLapses, Fault, requestVars, storageVars, hostVars, outsideVars
<1>c. \A s \in Runner : run[s].pc # "idle" => run[s].op \in Op
  BY DEF PlacesOK, PlaceOK
<1>1. lease' \in Leases /\ lease'.op = lease.op
  BY DEF LeaseLapses, Leases, StorageTypes
<1>2. StorageTypes'
  BY <1>t, <1>1, <1>u DEF StorageTypes
<1>3. LandedOK'
  BY <1>t, <1>1, <1>c, <1>u DEF LandedOK, Holds, Terminal, RecordsOK
<1>4. OtherTypes' /\ IndexOK' /\ KnownOK' /\ RecordsOK' /\ ExecOK' /\ PutsOK' /\ BoxOK' /\
   WroteOK' /\ PlacesOK' /\ GensOK' /\ StoreOK' /\ IntactOK' /\ CleanedUp' /\ ReaderOK'
  BY <1>u, OtherTypesFrame, IndexOKFrame, KnownOKFrame, RecordsOKFrame, ExecOKFrame,
     PutsOKFrame, BoxOKFrame, WroteOKFrame, PlacesOKFrame, GensOKFrame, StoreOKFrame,
     IntactOKFrame, CleanedUpFrame, ReaderOKFrame
<1> QED BY <1>2, <1>3, <1>4

\* The old catalog goes when no reader lease is live.
LEMMA SupersedeStep ==
  ASSUME NativeInv, DeleteSuperseded
  PROVE  NativeInv'
<1> USE DEF NativeInv
<1>t. /\ op \in [Op -> Records] /\ run \in [Runner -> Runs] /\ issued \in Nat
      /\ exec \in Execs /\ box \in Jobs
  BY DEF StorageTypes, OtherTypes
<1>u. UNCHANGED <<ops, kinds, op, index, lease, reader, exec, issued, deleting, alarm, slot,
   revoked, shut, run, box, puts, stored, landed, queued, client, late, robbed, outrun>>
  BY DEF DeleteSuperseded, Fault, requestVars, storageVars, hostVars, outsideVars
<1>1. floor' \in BOOLEAN /\ ~reader.live
  BY DEF DeleteSuperseded, MayDelete
<1>2. StorageTypes'
  BY <1>t, <1>1, <1>u DEF StorageTypes
<1>3. ReaderOK'
  BY <1>t, <1>1, <1>u DEF ReaderOK, Superseded, KnownOK
<1>4. OtherTypes' /\ IndexOK' /\ KnownOK' /\ RecordsOK' /\ ExecOK' /\ PutsOK' /\ BoxOK' /\
   WroteOK' /\ PlacesOK' /\ GensOK' /\ StoreOK' /\ IntactOK' /\ LandedOK' /\ CleanedUp'
  BY <1>u, OtherTypesFrame, IndexOKFrame, KnownOKFrame, RecordsOKFrame, ExecOKFrame,
     PutsOKFrame, BoxOKFrame, WroteOKFrame, PlacesOKFrame, GensOKFrame, StoreOKFrame,
     IntactOKFrame, LandedOKFrame, CleanedUpFrame
<1> QED BY <1>2, <1>3, <1>4

\* An execution expires.
LEMMA ExecExpiresStep ==
  ASSUME NativeInv, ExecExpires
  PROVE  NativeInv'
<1> USE DEF NativeInv
<1>t. /\ op \in [Op -> Records] /\ run \in [Runner -> Runs] /\ issued \in Nat
      /\ exec \in Execs /\ box \in Jobs
  BY DEF StorageTypes, OtherTypes
<1>n. /\ slot.gen \in Nat /\ revoked \in Nat /\ exec.gen \in Nat /\ box.gen \in Nat /\ issued \in Nat
      /\ \A s \in Runner : run[s].gen \in Nat
  BY DEF StorageTypes, OtherTypes, Slots, Execs, Jobs, Runs
<1>u. UNCHANGED <<ops, kinds, op, index, lease, reader, floor, issued, deleting, alarm, slot,
   revoked, shut, run, box, puts, stored, landed, queued, client, late, robbed, outrun>>
  BY DEF ExecExpires, Fault, requestVars, storageVars, hostVars, outsideVars
<1>1. /\ exec' \in Execs /\ exec'.gen = exec.gen /\ exec'.op = exec.op /\ exec'.state = exec.state
      /\ (exec'.stop <=> exec.stop) /\ (exec'.drain <=> exec.drain)
  BY <1>t DEF ExecExpires, Execs
<1>2. StorageTypes'
  BY <1>t, <1>1, <1>u DEF StorageTypes
<1>3. ExecOK'
  BY <1>t, <1>1, <1>n, <1>u DEF ExecOK
<1>4. PutsOK'
  BY <1>t, <1>1, <1>u DEF PutsOK, ExecOK
<1>5. BoxOK'
  BY <1>t, <1>1, <1>u DEF BoxOK, ExecOK
<1>6. GensOK'
  BY <1>t, <1>1, <1>n, <1>u DEF GensOK, Executing
<1>7. StoreOK'
  BY <1>t, <1>1, <1>u DEF StoreOK, Holds, Quiet, Trying, PlacesOK, PlaceOK, Early, Ending,
     Terminal
<1>8. IntactOK'
  BY <1>t, <1>1, <1>u DEF IntactOK, Quiet
<1>9. OtherTypes' /\ IndexOK' /\ KnownOK' /\ RecordsOK' /\ WroteOK' /\ PlacesOK' /\ LandedOK' /\
   CleanedUp' /\ ReaderOK'
  BY <1>u, OtherTypesFrame, IndexOKFrame, KnownOKFrame, RecordsOKFrame, WroteOKFrame,
     PlacesOKFrame, LandedOKFrame, CleanedUpFrame, ReaderOKFrame
<1> QED BY <1>2, <1>3, <1>4, <1>5, <1>6, <1>7, <1>8, <1>9

\* The drain window ends after the last write.
LEMMA DrainedStep ==
  ASSUME NativeInv, Drained
  PROVE  NativeInv'
<1> USE DEF NativeInv
<1>t. /\ op \in [Op -> Records] /\ run \in [Runner -> Runs] /\ issued \in Nat
      /\ exec \in Execs /\ box \in Jobs
  BY DEF StorageTypes, OtherTypes
<1>n. /\ slot.gen \in Nat /\ revoked \in Nat /\ exec.gen \in Nat /\ box.gen \in Nat /\ issued \in Nat
      /\ \A s \in Runner : run[s].gen \in Nat
  BY DEF StorageTypes, OtherTypes, Slots, Execs, Jobs, Runs
<1>u. UNCHANGED <<ops, faults, kinds, op, index, lease, reader, floor, issued, deleting, alarm,
   slot, revoked, shut, run, box, puts, stored, landed, queued, client, late, robbed, outrun>>
  BY DEF Drained, requestVars, storageVars, hostVars, outsideVars
<1>1. /\ exec' \in Execs /\ exec'.gen = exec.gen /\ exec'.op = exec.op /\ exec'.state = exec.state
      /\ (exec'.stop <=> exec.stop) /\ ~exec'.drain
  BY <1>t DEF Drained, Execs
<1>2. \A p \in puts : p.gen # exec.gen
  BY DEF Drained
<1>3. StorageTypes'
  BY <1>t, <1>1, <1>2, <1>u DEF StorageTypes
<1>4. ExecOK'
  BY <1>t, <1>1, <1>2, <1>n, <1>u DEF ExecOK
<1>5. PutsOK'
  BY <1>t, <1>1, <1>2, <1>u DEF PutsOK, ExecOK
<1>6. BoxOK'
  BY <1>t, <1>1, <1>2, <1>u DEF BoxOK, ExecOK
<1>7. GensOK'
  BY <1>t, <1>1, <1>2, <1>n, <1>u DEF GensOK, Executing
<1>8. StoreOK'
  BY <1>t, <1>1, <1>2, <1>u DEF StoreOK, Holds, Quiet, Trying, PlacesOK, PlaceOK, Early, Ending,
     Terminal
<1>9. IntactOK'
  BY <1>t, <1>1, <1>2, <1>u DEF IntactOK, Quiet
<1>10. OtherTypes' /\ IndexOK' /\ KnownOK' /\ RecordsOK' /\ WroteOK' /\ PlacesOK' /\ LandedOK'
   /\ CleanedUp' /\ ReaderOK'
  BY <1>u, OtherTypesFrame, IndexOKFrame, KnownOKFrame, RecordsOKFrame, WroteOKFrame,
     PlacesOKFrame, LandedOKFrame, CleanedUpFrame, ReaderOKFrame
<1> QED BY <1>3, <1>4, <1>5, <1>6, <1>7, <1>8, <1>9, <1>10

\* An eviction ends every run.
LEMMA EvictStep ==
  ASSUME NativeInv, Evict
  PROVE  NativeInv'
<1> USE DEF NativeInv
<1>t. /\ op \in [Op -> Records] /\ run \in [Runner -> Runs] /\ issued \in Nat
      /\ exec \in Execs /\ box \in Jobs
  BY DEF StorageTypes, OtherTypes
<1>n. /\ slot.gen \in Nat /\ revoked \in Nat /\ exec.gen \in Nat /\ box.gen \in Nat /\ issued \in Nat
      /\ \A s \in Runner : run[s].gen \in Nat
  BY DEF StorageTypes, OtherTypes, Slots, Execs, Jobs, Runs
<1>u. UNCHANGED <<ops, kinds, op, index, lease, reader, floor, exec, issued, deleting, slot,
   revoked, shut, box, puts, stored, landed, queued, client, late, robbed, outrun>>
  BY DEF Evict, Fault, requestVars, storageVars, hostVars, outsideVars
<1>c. \A s \in Runner : run[s].pc # "idle" => run[s].op \in Op
  BY DEF PlacesOK, PlaceOK
<1>1. /\ run' \in [Runner -> Runs] /\ NoRun.pc = "idle" /\ NoRun.op = None /\ NoRun.claim = 0
      /\ NoRun.gen = 0 /\ \A s \in Runner : run'[s] = NoRun
  BY Nothings DEF Evict
<1>2. None \notin Op
  BY NativeAssumption
<1>3. OtherTypes'
  BY <1>t, <1>1, <1>2, <1>u DEF OtherTypes
<1>4. KnownOK'
  BY <1>t, <1>1, <1>2, <1>u DEF KnownOK
<1>5. PlacesOK'
  BY <1>t, <1>1, <1>2, <1>u DEF PlacesOK, PlaceOK, Holds, Early, Trying, Ending, Terminal,
     RecordsOK
<1>6. GensOK'
  BY <1>t, <1>1, <1>2, <1>n, <1>u DEF GensOK, Executing
<1>7. StoreOK'
  BY <1>t, <1>1, <1>2, <1>u DEF StoreOK, Holds, Quiet, Trying, PlacesOK, PlaceOK, Early, Ending,
     Terminal
<1>8. LandedOK'
  BY <1>t, <1>1, <1>2, <1>c, <1>u DEF LandedOK, Holds, Terminal, RecordsOK
<1>9. StorageTypes' /\ IndexOK' /\ RecordsOK' /\ ExecOK' /\ PutsOK' /\ BoxOK' /\ WroteOK' /\
   IntactOK' /\ CleanedUp' /\ ReaderOK'
  BY <1>u, StorageTypesFrame, IndexOKFrame, RecordsOKFrame, ExecOKFrame, PutsOKFrame,
     BoxOKFrame, WroteOKFrame, IntactOKFrame, CleanedUpFrame, ReaderOKFrame
<1> QED BY <1>3, <1>4, <1>5, <1>6, <1>7, <1>8, <1>9

\* A deletion begins.
LEMMA BeginDeletionStep ==
  ASSUME NativeInv, BeginDeletion
  PROVE  NativeInv'
<1> USE DEF NativeInv
<1>t. /\ op \in [Op -> Records] /\ run \in [Runner -> Runs] /\ issued \in Nat
      /\ exec \in Execs /\ box \in Jobs
  BY DEF StorageTypes, OtherTypes
<1>u. UNCHANGED <<ops, kinds, op, index, lease, reader, floor, exec, issued, alarm, slot,
   revoked, shut, run, box, puts, stored, landed, queued, client, late, robbed, outrun>>
  BY DEF BeginDeletion, Fault, requestVars, storageVars, hostVars, outsideVars
<1>c. \A s \in Runner : run[s].pc # "idle" => run[s].op \in Op
  BY DEF PlacesOK, PlaceOK
<1>1. deleting = "no" /\ deleting' = "deleting"
  BY DEF BeginDeletion
<1>2. StorageTypes'
  BY <1>t, <1>1, <1>u DEF StorageTypes
<1>3. BoxOK'
  BY <1>t, <1>1, <1>u DEF BoxOK, ExecOK
<1>4. LandedOK'
  BY <1>t, <1>1, <1>c, <1>u DEF LandedOK, Holds, Terminal, RecordsOK
<1>5. OtherTypes' /\ IndexOK' /\ KnownOK' /\ RecordsOK' /\ ExecOK' /\ PutsOK' /\ WroteOK' /\
   PlacesOK' /\ GensOK' /\ StoreOK' /\ IntactOK' /\ CleanedUp' /\ ReaderOK'
  BY <1>u, OtherTypesFrame, IndexOKFrame, KnownOKFrame, RecordsOKFrame, ExecOKFrame,
     PutsOKFrame, WroteOKFrame, PlacesOKFrame, GensOKFrame, StoreOKFrame, IntactOKFrame,
     CleanedUpFrame, ReaderOKFrame
<1> QED BY <1>2, <1>3, <1>4, <1>5

\* A deletion stops the container for good.
LEMMA StopAllStep ==
  ASSUME NativeInv, StopAll
  PROVE  NativeInv'
<1> USE DEF NativeInv
<1>t. /\ op \in [Op -> Records] /\ run \in [Runner -> Runs] /\ issued \in Nat
      /\ exec \in Execs /\ box \in Jobs
  BY DEF StorageTypes, OtherTypes
<1>n. /\ slot.gen \in Nat /\ revoked \in Nat /\ exec.gen \in Nat /\ box.gen \in Nat /\ issued \in Nat
      /\ \A s \in Runner : run[s].gen \in Nat
  BY DEF StorageTypes, OtherTypes, Slots, Execs, Jobs, Runs
<1>u. UNCHANGED <<ops, faults, kinds, op, index, lease, floor, issued, alarm, revoked, run,
   puts, stored, landed, queued, client, late, robbed, outrun>>
  BY DEF StopAll, requestVars, storageVars, hostVars, outsideVars
<1>b. box.gen # 0 => box.op \in Op
  BY DEF BoxOK, ExecOK
<1>c. \A s \in Runner : run[s].pc # "idle" => run[s].op \in Op
  BY DEF PlacesOK, PlaceOK
<1>1. /\ exec' \in Execs /\ exec'.gen = exec.gen /\ exec'.op = exec.op
      /\ exec.state \in {"active", "revoked"} => exec'.state = "revoked" /\ ~exec'.stop
      /\ exec.state = "active" => exec'.drain
      /\ exec.state = "revoked" => (exec'.drain <=> exec.drain)
      /\ exec.state \notin {"active", "revoked"} => exec' = exec
  BY <1>t DEF StopAll, Execs
<1>2. deleting' = "stopped" /\ box' = NoJob /\ NoJob \in Jobs /\ NoJob.gen = 0
  BY Nothings DEF StopAll
<1>3. reader' \in Readers /\ reader'.op = None /\ ~reader'.live /\ None \notin Op
  BY Nothings, NativeAssumption DEF StopAll
<1>4. slot' \in Slots /\ slot'.gen = slot.gen
  BY DEF StopAll, Slots, OtherTypes
<1>5. StorageTypes'
  BY <1>t, <1>1, <1>2, <1>3, <1>4, <1>u DEF StorageTypes
<1>6. OtherTypes'
  BY <1>t, <1>1, <1>2, <1>3, <1>4, <1>u DEF OtherTypes
<1>7. KnownOK'
  BY <1>t, <1>1, <1>2, <1>3, <1>4, <1>u DEF KnownOK
<1>8. ExecOK'
  BY <1>t, <1>1, <1>2, <1>3, <1>4, <1>n, <1>u DEF ExecOK
<1>9. PutsOK'
  BY <1>t, <1>1, <1>2, <1>3, <1>4, <1>u DEF PutsOK, ExecOK
<1>10. BoxOK'
  BY <1>t, <1>1, <1>2, <1>3, <1>4, <1>u DEF BoxOK, ExecOK
<1>11. WroteOK'
  BY <1>t, <1>1, <1>2, <1>3, <1>4, <1>b, <1>u DEF WroteOK, Terminal
<1>12. GensOK'
  BY <1>t, <1>1, <1>2, <1>3, <1>4, <1>n, <1>u DEF GensOK, Executing
<1>13. StoreOK'
  BY <1>t, <1>1, <1>2, <1>3, <1>4, <1>u DEF StoreOK, Holds, Quiet, Trying, PlacesOK, PlaceOK,
     Early, Ending, Terminal
<1>14. IntactOK'
  BY <1>t, <1>1, <1>2, <1>3, <1>4, <1>u DEF IntactOK, Quiet
<1>15. LandedOK'
  BY <1>t, <1>1, <1>2, <1>3, <1>4, <1>c, <1>u DEF LandedOK, Holds, Terminal, RecordsOK
<1>16. ReaderOK'
  BY <1>t, <1>1, <1>2, <1>3, <1>4, <1>u DEF ReaderOK, Superseded, KnownOK
<1>17. IndexOK' /\ RecordsOK' /\ PlacesOK' /\ CleanedUp'
  BY <1>u, IndexOKFrame, RecordsOKFrame, PlacesOKFrame, CleanedUpFrame
<1> QED BY <1>5, <1>6, <1>7, <1>8, <1>9, <1>10, <1>11, <1>12, <1>13, <1>14, <1>15, <1>16, <1>17

\* The bridge lets a write through for the active execution only.
LEMMA PutStartStep ==
  ASSUME NativeInv, NEW f \in Half, PutStart(f)
  PROVE  NativeInv'
<1> USE DEF NativeInv
<1>t. /\ op \in [Op -> Records] /\ run \in [Runner -> Runs] /\ issued \in Nat
      /\ exec \in Execs /\ box \in Jobs
  BY DEF StorageTypes, OtherTypes
<1>n. /\ slot.gen \in Nat /\ revoked \in Nat /\ exec.gen \in Nat /\ box.gen \in Nat /\ issued \in Nat
      /\ \A s \in Runner : run[s].gen \in Nat
  BY DEF StorageTypes, OtherTypes, Slots, Execs, Jobs, Runs
<1>u. UNCHANGED <<ops, faults, kinds, op, index, lease, reader, floor, exec, issued, deleting,
   alarm, slot, revoked, shut, run, stored, landed, queued, client, late, robbed, outrun>>
  BY DEF PutStart, requestVars, storageVars, hostVars, outsideVars
<1>b. box.gen # 0 => box.op \in Op
  BY DEF BoxOK, ExecOK
<1>1. /\ box.gen # 0 /\ exec.gen = box.gen /\ exec.op = box.op /\ exec.state = "active" /\ box.op \in Op
  BY DEF PutStart, MayPut, Authorized, BoxOK, ExecOK
<1>2. /\ box' \in Jobs /\ box'.gen = box.gen /\ box'.op = box.op /\ box'.wrote = box.wrote \cup {f}
  BY <1>t DEF PutStart, Jobs
<1>3. /\ puts' = puts \cup {[gen |-> box.gen, op |-> box.op, half |-> f]}
      /\ [gen |-> box.gen, op |-> box.op, half |-> f] \in Puts
  BY <1>t, <1>1 DEF PutStart, Jobs, Puts
<1>4. OtherTypes'
  BY <1>t, <1>1, <1>2, <1>3, <1>u DEF OtherTypes
<1>5. PutsOK'
  BY <1>t, <1>1, <1>2, <1>3, <1>u DEF PutsOK, ExecOK
<1>6. BoxOK'
  BY <1>t, <1>1, <1>2, <1>3, <1>u DEF BoxOK, ExecOK
<1>7. WroteOK'
  BY <1>t, <1>1, <1>2, <1>3, <1>b, <1>u DEF WroteOK, Terminal
<1>8. GensOK'
  BY <1>t, <1>1, <1>2, <1>3, <1>n, <1>u DEF GensOK, Executing
<1>9. StorageTypes' /\ IndexOK' /\ KnownOK' /\ RecordsOK' /\ ExecOK' /\ PlacesOK' /\ StoreOK' /\
   IntactOK' /\ LandedOK' /\ CleanedUp' /\ ReaderOK'
  BY <1>u, StorageTypesFrame, IndexOKFrame, KnownOKFrame, RecordsOKFrame, ExecOKFrame,
     PlacesOKFrame, StoreOKFrame, IntactOKFrame, LandedOKFrame, CleanedUpFrame, ReaderOKFrame
<1> QED BY <1>4, <1>5, <1>6, <1>7, <1>8, <1>9

\* A write ends.
LEMMA PutEndStep ==
  ASSUME NativeInv, NEW p \in puts, PutEnd(p)
  PROVE  NativeInv'
<1> USE DEF NativeInv
<1>t. /\ op \in [Op -> Records] /\ run \in [Runner -> Runs] /\ issued \in Nat
      /\ exec \in Execs /\ box \in Jobs
  BY DEF StorageTypes, OtherTypes
<1>n. /\ slot.gen \in Nat /\ revoked \in Nat /\ exec.gen \in Nat /\ box.gen \in Nat /\ issued \in Nat
      /\ \A s \in Runner : run[s].gen \in Nat
  BY DEF StorageTypes, OtherTypes, Slots, Execs, Jobs, Runs
<1>u. UNCHANGED <<ops, faults, kinds, op, index, lease, reader, floor, exec, issued, deleting,
   alarm, slot, revoked, shut, run, box, landed, queued, client, robbed, outrun>>
  BY DEF PutEnd, requestVars, storageVars, hostVars, outsideVars
<1>b. box.gen # 0 => box.op \in Op
  BY DEF BoxOK, ExecOK
<1>1. p \in Puts /\ p.op \in Op /\ p.half \in Half /\ p.gen \in Nat
  BY DEF OtherTypes, Puts
<1>2. puts' = puts \ {p} /\ p.gen = exec.gen /\ p.op = exec.op /\ exec.state \in {"active", "revoked"}
  BY DEF PutEnd, PutsOK, ExecOK
<1>3. /\ stored' \in [Op -> [Half -> Nat]] /\ \A q \in Op : q # p.op => stored'[q] = stored[q]
      /\ \A f \in Half : f # p.half => stored'[p.op][f] = stored[p.op][f]
      /\ box.gen = p.gen => stored'[p.op][p.half] = p.gen
  <2>1. stored \in [Op -> [Half -> Nat]]
    BY DEF OtherTypes
  <2>2. stored' = [stored EXCEPT ![p.op] = [stored[p.op] EXCEPT ![p.half] = p.gen]]
        \/ (box.gen # p.gen /\ stored' = stored)
    BY DEF PutEnd
  <2>3. [stored[p.op] EXCEPT ![p.half] = p.gen] \in [Half -> Nat]
    BY <1>1, <2>1
  <2> QED BY <1>1, <2>1, <2>2, <2>3
<1>4. /\ late \subseteq late' /\ (op[p.op].state \in Terminal => p.op \in late')
  BY DEF PutEnd
<1>5. OtherTypes'
  BY <1>t, <1>1, <1>2, <1>3, <1>4, <1>u DEF OtherTypes
<1>6. PutsOK'
  BY <1>t, <1>1, <1>2, <1>3, <1>4, <1>u DEF PutsOK, ExecOK
<1>7. WroteOK'
  <2> SUFFICES ASSUME box.gen # 0, op[box.op].state \notin Terminal, NEW f \in box.wrote
               PROVE  stored'[box.op][f] = box.gen \/ \E q \in puts' : q.half = f
    BY <1>u DEF WroteOK
  <2>1. box.gen = p.gen /\ box.op = p.op
    BY <1>2 DEF BoxOK
  <2>2. f \in Half
    BY <1>t DEF Jobs
  <2>3. CASE f = p.half
    BY <1>3, <2>1, <2>3
  <2>4. CASE f # p.half
    BY <1>2, <1>3, <2>1, <2>2, <2>4 DEF WroteOK
  <2> QED BY <2>3, <2>4
<1>8. GensOK'
  BY <1>t, <1>1, <1>2, <1>3, <1>4, <1>n, <1>u DEF GensOK, Executing
<1>9. StoreOK'
  BY <1>t, <1>1, <1>2, <1>3, <1>4, <1>u DEF StoreOK, Holds, Quiet, Trying, PlacesOK, PlaceOK,
     Early, Ending, Terminal
<1>10. IntactOK'
  BY <1>t, <1>1, <1>2, <1>3, <1>4, <1>u DEF IntactOK, Quiet
<1>11. CleanedUp'
  BY <1>t, <1>1, <1>2, <1>3, <1>4, <1>u DEF CleanedUp, Terminal
<1>12. StorageTypes' /\ IndexOK' /\ KnownOK' /\ RecordsOK' /\ ExecOK' /\ BoxOK' /\ PlacesOK' /\
   LandedOK' /\ ReaderOK'
  BY <1>u, StorageTypesFrame, IndexOKFrame, KnownOKFrame, RecordsOKFrame, ExecOKFrame,
     BoxOKFrame, PlacesOKFrame, LandedOKFrame, ReaderOKFrame
<1> QED BY <1>5, <1>6, <1>7, <1>8, <1>9, <1>10, <1>11, <1>12

\* A message may be dropped.
LEMMA DropStep ==
  ASSUME NativeInv, NEW o \in Op, Drop(o)
  PROVE  NativeInv'
<1> USE DEF NativeInv
<1>t. /\ op \in [Op -> Records] /\ run \in [Runner -> Runs] /\ issued \in Nat
      /\ exec \in Execs /\ box \in Jobs
  BY DEF StorageTypes, OtherTypes
<1>u. UNCHANGED <<ops, faults, kinds, op, index, lease, reader, floor, exec, issued, deleting,
   alarm, slot, revoked, shut, run, box, puts, stored, landed, client, late, robbed, outrun>>
  BY DEF Drop, requestVars, storageVars, hostVars, outsideVars
<1>1. queued' \subseteq queued
  BY DEF Drop
<1>2. OtherTypes'
  BY <1>t, <1>1, <1>u DEF OtherTypes
<1>3. KnownOK'
  BY <1>t, <1>1, <1>u DEF KnownOK
<1>4. StorageTypes' /\ IndexOK' /\ RecordsOK' /\ ExecOK' /\ PutsOK' /\ BoxOK' /\ WroteOK' /\
   PlacesOK' /\ GensOK' /\ StoreOK' /\ IntactOK' /\ LandedOK' /\ CleanedUp' /\ ReaderOK'
  BY <1>u, StorageTypesFrame, IndexOKFrame, RecordsOKFrame, ExecOKFrame, PutsOKFrame,
     BoxOKFrame, WroteOKFrame, PlacesOKFrame, GensOKFrame, StoreOKFrame, IntactOKFrame,
     LandedOKFrame, CleanedUpFrame, ReaderOKFrame
<1> QED BY <1>2, <1>3, <1>4

\* A cleanup that fails is left to the alarm.
LEMMA CleanFails ==
  ASSUME NativeInv, NEW r \in Runner, Clean(r), Wake(r), UNCHANGED <<stored, op, outrun>>
  PROVE  NativeInv'
<1> USE DEF NativeInv
<1>t. /\ op \in [Op -> Records] /\ run \in [Runner -> Runs] /\ issued \in Nat
      /\ exec \in Execs /\ box \in Jobs
  BY DEF StorageTypes, OtherTypes
<1>n. /\ slot.gen \in Nat /\ revoked \in Nat /\ exec.gen \in Nat /\ box.gen \in Nat /\ issued \in Nat
      /\ \A s \in Runner : run[s].gen \in Nat
  BY DEF StorageTypes, OtherTypes, Slots, Execs, Jobs, Runs
<1>u. UNCHANGED <<ops, kinds, op, index, lease, reader, floor, exec, issued, deleting, slot,
   revoked, shut, box, puts, stored, landed, queued, client, late, robbed, outrun>>
  BY DEF Clean, Wake, Return, Fault, requestVars, storageVars, hostVars, outsideVars
<1>c. \A s \in Runner : run[s].pc # "idle" => run[s].op \in Op
  BY DEF PlacesOK, PlaceOK
<1>1. /\ run' \in [Runner -> Runs] /\ \A s \in Runner : s # r => run'[s] = run[s]
      /\ run'[r] = NoRun /\ run'[r].pc = "idle" /\ run'[r].claim = 0 /\ run'[r].op = None
      /\ run'[r].gen = 0
  <2>1. Return(r)
    BY DEF Wake
  <2> QED BY <1>t, <2>1, ReturnEffects, Nothings
<1>2. None \notin Op
  BY NativeAssumption
<1>3. OtherTypes'
  BY <1>t, <1>1, <1>2, <1>u DEF OtherTypes
<1>4. KnownOK'
  BY <1>t, <1>1, <1>2, <1>u DEF KnownOK
<1>5. PlacesOK'
  BY <1>t, <1>1, <1>2, <1>u DEF PlacesOK, PlaceOK, Holds, Early, Trying, Ending, Terminal,
     RecordsOK
<1>6. GensOK'
  BY <1>t, <1>1, <1>2, <1>n, <1>u DEF GensOK, Executing
<1>7. StoreOK'
  BY <1>t, <1>1, <1>2, <1>u DEF StoreOK, Holds, Quiet, Trying, PlacesOK, PlaceOK, Early, Ending,
     Terminal
<1>8. LandedOK'
  BY <1>t, <1>1, <1>2, <1>c, <1>u DEF LandedOK, Holds, Terminal, RecordsOK
<1>9. StorageTypes' /\ IndexOK' /\ RecordsOK' /\ ExecOK' /\ PutsOK' /\ BoxOK' /\ WroteOK' /\
   IntactOK' /\ CleanedUp' /\ ReaderOK'
  BY <1>u, StorageTypesFrame, IndexOKFrame, RecordsOKFrame, ExecOKFrame, PutsOKFrame,
     BoxOKFrame, WroteOKFrame, IntactOKFrame, CleanedUpFrame, ReaderOKFrame
<1> QED BY <1>3, <1>4, <1>5, <1>6, <1>7, <1>8, <1>9

------------------------------------------------------------------------------
(* The invariant                                                             *)

\* It holds initially.
LEMMA NativeInit == Init => NativeInv
<1> SUFFICES ASSUME Init PROVE NativeInv
  OBVIOUS
<1>1. Absent \in Records /\ Absent.state = "absent" /\ Absent.claim = 0
  BY AbsentOK
<1>2. Absent.cleanup = FALSE
  BY AbsentOK
<1>3. NoExec \in Execs /\ NoExec.gen = 0 /\ NoExec.state = "none" /\ NoExec.op = None
  BY DEF NoExec, Execs
<1>4. NoExec.stop = FALSE /\ NoExec.drain = FALSE
  BY Zenon DEF NoExec
<1>5. /\ op = [o \in Op |-> Absent] /\ \A o \in Op : op[o] = Absent
      /\ index = <<>> /\ exec = NoExec /\ issued = 0 /\ lease = Nobody /\ reader = Nobody
  BY DEF Init
<1>6. /\ run = [r \in Runner |-> NoRun] /\ \A r \in Runner : run[r] = NoRun
      /\ box = NoJob /\ puts = {} /\ deleting = "no" /\ floor = FALSE
  BY DEF Init
<1>7. StorageTypes
  BY <1>1, <1>3, <1>5, <1>6, Nothings DEF StorageTypes
<1>8. OtherTypes
  BY <1>6, Nothings DEF Init, OtherTypes, Slots, Clients
<1>9. IndexOK
  BY <1>1, <1>5 DEF IndexOK
<1>10. KnownOK
  BY <1>1, <1>5, <1>6, Nothings, NativeAssumption DEF Init, KnownOK
<1>11. RecordsOK
  BY <1>1, <1>2, <1>5 DEF RecordsOK
<1>12. ExecOK
  BY <1>3, <1>4, <1>5 DEF Init, ExecOK
<1>13. PutsOK /\ BoxOK /\ WroteOK
  BY <1>6, Nothings DEF PutsOK, BoxOK, WroteOK
<1>14. PlacesOK
  BY <1>6, Nothings DEF PlacesOK, PlaceOK, Early, Trying, Ending
<1>15. GensOK
  BY <1>5, <1>6, Nothings DEF GensOK, Executing
<1>16. StoreOK
  BY <1>6, Nothings DEF StoreOK
<1>17. IntactOK
  BY <1>1, <1>5 DEF IntactOK
<1>18. LandedOK
  BY <1>1, <1>5, <1>6, Nothings DEF Init, LandedOK
<1>19. CleanedUp
  BY <1>1, <1>5 DEF CleanedUp
<1>20. ReaderOK
  BY <1>5, Nothings DEF ReaderOK
<1> QED BY <1>7, <1>8, <1>9, <1>10, <1>11, <1>12, <1>13, <1>14, <1>15, <1>16, <1>17, <1>18,
           <1>19, <1>20 DEF NativeInv

\* Requests keep it.
LEMMA RequestStep ==
  ASSUME NativeInv, NEW o \in Op, Request(o)
  PROVE  NativeInv'
<1>1. CASE TakeLease(o)
  BY <1>1, TakeLeaseStep
<1>2. CASE Enqueue(o)
  BY <1>2, EnqueueStep, RefuseStep
<1>3. CASE Dispatch(o)
  <2>1. CASE UNCHANGED <<op, index, lease>>
    BY <1>3, <2>1, DispatchWakes
  <2>2. CASE ~UNCHANGED <<op, index, lease>>
    <3>1. /\ op[o].state = "staged" /\ op' = [op EXCEPT ![o] = [Absent EXCEPT !.fresh = op[o].fresh]]
          /\ \E i \in DOMAIN index : index[i] = o /\ index' = RemoveAt(index, i)
          /\ lease' = IF lease.op = o THEN Nobody ELSE lease
          /\ client' = [client EXCEPT ![o] = "refused"]
          /\ UNCHANGED <<alarm, queued>>
      BY <1>3, <2>2 DEF Dispatch
    <3> QED BY <1>3, <3>1, DispatchTakesBack
  <2> QED BY <2>1, <2>2
<1> QED BY <1>1, <1>2, <1>3 DEF Request

\* A run's first step keeps it.
LEMMA EnterKeeps ==
  ASSUME NativeInv, NEW r \in Runner, NEW o \in Op, Enter(r, o)
  PROVE  NativeInv'
<1>1. CASE /\ r = "queue" /\ o \in queued /\ UNCHANGED alarm
           /\ op[o].state \in Terminal \cup {"absent"} /\ queued' = queued \ {o} /\ UNCHANGED run
  BY <1>1, EnterDrops
<1>2. CASE /\ r = "queue" /\ o \in queued /\ UNCHANGED <<alarm, queued>>
           /\ run' = [run EXCEPT ![r] = [NoRun EXCEPT !.pc = "entered", !.op = o]]
  BY <1>2, EnterStep
<1>3. CASE /\ Newest(o) /\ UNCHANGED queued
           /\ run' = [run EXCEPT ![r] = [NoRun EXCEPT !.op = o, !.pc =
                        IF op[o].state \notin Terminal THEN "entered"
                        ELSE IF op[o].state = "committed" THEN "clean" ELSE "erase"]]
  <2> DEFINE pc == IF op[o].state \notin Terminal THEN "entered"
                   ELSE IF op[o].state = "committed" THEN "clean" ELSE "erase"
  <2>1. op[o].state # "absent"
    BY <1>3 DEF Newest, NativeInv, IndexOK
  <2>2. [NoRun EXCEPT !.op = o, !.pc = pc] = [NoRun EXCEPT !.pc = pc, !.op = o]
    BY DEF NoRun
  <2>3. /\ pc \in {"entered", "clean", "erase"} /\ (pc = "clean" => op[o].state = "committed")
        /\ (pc = "erase" => op[o].state \in Terminal)
    OBVIOUS
  <2>4. run' = [run EXCEPT ![r] = [NoRun EXCEPT !.pc = pc, !.op = o]]
    BY <1>3, <2>2
  <2> HIDE DEF pc
  <2> QED BY <1>3, <2>1, <2>3, <2>4, EnterStep
<1> QED BY <1>1, <1>2, <1>3 DEF Enter

\* So do its other steps.
LEMMA AdvanceKeeps ==
  ASSUME NativeInv, NEW r \in Runner, Advance(r) \/ StopThrows(r) \/ NotReady(r) \/ FinalizeThrows(r)
                                      \/ Heartbeat(r)
  PROVE  NativeInv'
<1> DEFINE o == run[r].op
<1>0. o \in Op
  <2>1. run[r].pc # "idle"
    BY DEF Advance, Reconcile, Stop, Wait, Claim, AcquireReader, Begin, Start, Post, Settle,
       TransportFails, Caught, Fail, Clean, Store, Finalize, Conclude, StopThrows, NotReady,
       FinalizeThrows, Heartbeat, Beating
  <2> QED BY <2>1 DEF NativeInv, PlacesOK, PlaceOK
<1>1. CASE Reconcile(r)
  <2>1. CASE /\ exec' = Revoked(exec.gen) /\ UNCHANGED alarm
             /\ run' = [run EXCEPT ![r].pc = "stop", ![r].gen = exec.gen, ![r].then = "wait"]
             /\ exec.stop \/ exec.state = "active"
    BY <1>0, <1>1, <2>1, ReconcileStep
  <2>2. CASE Proceed(r) /\ UNCHANGED exec
    BY <1>0, <1>1, <2>2, ReturnsStep, GoesOnStep DEF Proceed, Wake, Reconcile, storageVars
  <2> QED BY <1>1, <2>1, <2>2 DEF Reconcile
<1>2. CASE Wait(r)
  BY <1>0, <1>2, ReturnsStep, GoesOnStep DEF Wait, Proceed, Wake, storageVars
<1>3. CASE Stop(r)
  BY <1>0, <1>3, StopStep
<1>4. CASE StopThrows(r)
  BY <1>0, <1>4, StopThrowsCaught, StopThrowsEnds DEF StopThrows, Wake
<1>5. CASE Claim(r)
  <2>1. CASE Claimable(o)
    BY <1>0, <1>5, <2>1, ClaimStep
  <2>2. CASE ~Claimable(o)
    BY <1>5, <2>2, ReturnsStep DEF Claim
  <2> QED BY <2>1, <2>2
<1>6. CASE AcquireReader(r)
  <2>1. CASE /\ run' = [run EXCEPT ![r].pc = "fail", ![r].then = "superseded"]
             /\ UNCHANGED <<op, reader, alarm>>
    BY <1>0, <1>6, <2>1, SupersededStep
  <2>2. CASE /\ op' = IF Holds(r) THEN [op EXCEPT ![o] = [Unclaimed(o, "staged") EXCEPT !.attempts = @ - 1]]
                                  ELSE op
             /\ Wake(r) /\ UNCHANGED reader
    BY <1>0, <1>6, <2>2, ReaderBusyStep DEF Wake
  <2>3. CASE /\ deleting = "no" /\ ~Superseded(o) /\ reader' = [op |-> o, live |-> TRUE]
             /\ Goto(r, "begin") /\ UNCHANGED <<op, alarm>>
    BY <1>0, <1>6, <2>3, ReaderStep
  <2> QED BY <1>6, <2>1, <2>2, <2>3 DEF AcquireReader
<1>7. CASE Begin(r)
  BY <1>0, <1>7, BeginStep, BeginRefused
<1>8. CASE Start(r)
  BY <1>0, <1>8, StartStep, StartRefused
<1>9. CASE Post(r)
  BY <1>0, <1>9, PostStep, PostRefused
<1>10. CASE NotReady(r)
  BY <1>0, <1>10, NotReadyStep
<1>11. CASE Settle(r)
  <2>1. CASE Authorized(run[r].gen)
    BY <1>0, <1>11, <2>1, SettleStep
  <2>2. CASE ~Authorized(run[r].gen)
    <3>1. Cancel(r) \/ ((Goto(r, "fail") \/ Goto(r, "caught")) /\ UNCHANGED exec)
      BY <1>11, <2>2 DEF Settle
    <3> QED BY <1>0, <1>11, <2>2, <3>1, SettleCancels, SettleFails
  <2> QED BY <2>1, <2>2
<1>12. CASE TransportFails(r)
  BY <1>0, <1>12, TransportStep
<1>13. CASE Caught(r)
  BY <1>0, <1>13, CaughtStep, CaughtGivesUp
<1>14. CASE Fail(r)
  BY <1>0, <1>14, FailStep, FailEnds
<1>15. CASE Clean(r)
  <2>1. CASE /\ stored' = [stored EXCEPT ![o] = Erased(r)] /\ op' = [op EXCEPT ![o].cleanup = FALSE]
             /\ outrun' = IF run[r].pc = "erase" /\ op[o].state = "committed" THEN outrun \cup {o}
                          ELSE outrun
             /\ Return(r) /\ UNCHANGED <<faults, alarm>>
    BY <1>0, <1>15, <2>1, CleanStep
  <2>2. CASE Wake(r) /\ UNCHANGED <<stored, op, outrun>>
    BY <1>15, <2>2, CleanFails
  <2> QED BY <1>15, <2>1, <2>2 DEF Clean
<1>16. CASE Store(r)
  BY <1>0, <1>16, StoreStep, StoreLost
<1>17. CASE Finalize(r)
  <2>1. CASE /\ Replays(o) \/ Lands(o)
             /\ landed' = [landed EXCEPT ![o] = IF @ = 0 THEN op[o].result ELSE @]
             /\ Goto(r, "commit")
    BY <1>0, <1>17, <2>1, FinalizeLands
  <2>2. CASE ~Replays(o) /\ UNCHANGED landed /\ Goto(r, "conflict")
    BY <1>0, <1>17, <2>2, FinalizeConflicts
  <2> QED BY <1>17, <2>1, <2>2 DEF Finalize
<1>18. CASE Conclude(r)
  <2>1. CASE Holds(r)
    <3>1. CASE run[r].pc = "commit"
      BY <1>0, <1>18, <2>1, <3>1, ConcludeStep
    <3>2. CASE run[r].pc # "commit"
      BY <1>0, <1>18, <2>1, <3>2, ConcludeStep
    <3> QED BY <3>1, <3>2
  <2>2. CASE ~Holds(r) /\ op[o].state \in Terminal
    <3>1. /\ Goto(r, IF run[r].pc = "commit" THEN "clean" ELSE "erase")
          /\ run[r].pc \in {"commit", "conflict"}
          /\ UNCHANGED <<requestVars, storageVars, hostVars, outsideVars, late, robbed, outrun>>
      BY <1>18, <2>2 DEF Conclude, storageVars
    <3>2. run[r].pc = "commit" => landed[o] # 0
      BY DEF NativeInv, LandedOK
    <3>3. CASE run[r].pc = "commit"
      BY <1>0, <2>2, <3>1, <3>2, <3>3, CleansStep
    <3>4. CASE run[r].pc = "conflict"
      BY <1>0, <2>2, <3>1, <3>4, CleansStep
    <3> QED BY <3>1, <3>3, <3>4
  <2>3. CASE ~Holds(r) /\ op[o].state \notin Terminal
    BY <1>18, <2>3, ReturnsStep DEF Conclude, Wake
  <2> QED BY <2>1, <2>2, <2>3
<1>19. CASE FinalizeThrows(r)
  BY <1>0, <1>19, FinalizeThrowsStep
<1>20. CASE Heartbeat(r)
  <2>1. CASE UNCHANGED <<run, exec, box, hostVars>>
    BY <1>0, <1>20, <2>1, HeartbeatRenews
  <2>2. CASE run' = [run EXCEPT ![r].beat = FALSE] /\ UNCHANGED <<exec, box, hostVars>>
    BY <1>0, <1>20, <2>2, HeartbeatGivesUp
  <2>3. CASE /\ run' = [run EXCEPT ![r].beat = FALSE] /\ exec.op = o
             /\ exec' = IF exec.state = "active" THEN [exec EXCEPT !.state = "revoked", !.drain = TRUE]
                        ELSE Acknowledged(exec.gen)
             /\ Stopped(exec.gen) /\ box' = Destroyed(exec.gen)
    BY <1>0, <1>20, <2>3, HeartbeatCancels
  <2> QED BY <1>20, <2>1, <2>2, <2>3 DEF Heartbeat
<1> QED BY <1>1, <1>2, <1>3, <1>4, <1>5, <1>6, <1>7, <1>8, <1>9, <1>10, <1>11, <1>12, <1>13, <1>14,
           <1>15, <1>16, <1>17, <1>18, <1>19, <1>20 DEF Advance

\* The invariant is inductive: every step of every actor keeps it.
LEMMA NativeNext == NativeInv /\ [Next]_vars => NativeInv'
<1> SUFFICES ASSUME NativeInv, [Next]_vars PROVE NativeInv'
  OBVIOUS
<1>1. CASE UNCHANGED vars
  BY <1>1, StutterStep
<1>2. ASSUME NEW o \in Op, Request(o) \/ ClaimLapses(o) \/ Drop(o)
      PROVE  NativeInv'
  BY <1>2, RequestStep, ClaimLapsesStep, DropStep
<1>3. ASSUME NEW r \in Runner, NEW o \in Op, Enter(r, o)
      PROVE  NativeInv'
  BY <1>3, EnterKeeps
<1>4. ASSUME NEW r \in Runner, Advance(r) \/ StopThrows(r) \/ NotReady(r) \/ FinalizeThrows(r)
                               \/ Heartbeat(r)
      PROVE  NativeInv'
  BY <1>4, AdvanceKeeps
<1>5. CASE OtherPush \/ ReaderLapses \/ LeaseLapses \/ DeleteSuperseded \/ ExecExpires \/ Drained
           \/ Evict \/ BeginDeletion \/ StopAll
  BY <1>5, OtherPushStep, ReaderLapsesStep, LeaseLapsesStep, SupersedeStep, ExecExpiresStep,
     DrainedStep, EvictStep, BeginDeletionStep, StopAllStep
<1>6. CASE Container
  BY <1>6, PutStartStep, PutEndStep DEF Container
<1> QED BY <1>1, <1>2, <1>3, <1>4, <1>5, <1>6 DEF Next

\* In every reachable state the parts of NativeInv hold: who holds a claim, whose
\* writes are under way, what a run may still do, and who landed.
THEOREM NativeInvariant == Spec => []NativeInv
BY NativeInit, NativeNext, PTL DEF Spec

------------------------------------------------------------------------------
(* The theorems                                                              *)

\* At most one execution touches R2, an acknowledged stop has reached the
\* container, and what an execution reads stays (beginNativeExecution,
\* stopNativeProcessorSlot, canDeleteSupersededGenerationState).
THEOREM ExecutionsAreFenced == Spec => []ExecutionsFenced
<1>1. NativeInv => ExecutionsFenced
  <2> SUFFICES ASSUME NativeInv PROVE ExecutionsFenced
    OBVIOUS
  <2> USE DEF NativeInv
  <2>1. WritersApart
    BY DEF PutsOK, WritersApart
  <2>2. StopsReach
    <3>1. exec \in Execs /\ box \in Jobs
      BY DEF StorageTypes, OtherTypes
    <3> QED BY <3>1 DEF BoxOK, ExecOK, StopsReach
  <2>3. ReadersUndisturbed
    <3> SUFFICES ASSUME NEW r \in Runner, reader = [op |-> run[r].op, live |-> TRUE]
                 PROVE  ~Superseded(run[r].op)
      BY DEF ReadersUndisturbed
    <3>1. reader.live = TRUE /\ reader.op = run[r].op
      BY Zenon
    <3> QED BY <3>1 DEF ReaderOK
  <2> QED BY <2>1, <2>2, <2>3 DEF ExecutionsFenced
<1> QED BY <1>1, NativeInvariant, PTL

\* A record that is ended says what happened to the refs (unless the operation
\* was finalized again under another push's lease), the outputs of a landed or
\* finished operation are those of one execution (unless moreover a run that
\* had lost its claim deleted them), and a cleaned one that never landed has none
\* (markTerminal, storeClaimedOperation, completeOperationCleanup).
THEOREM OutcomesAreKept == Spec => []OutcomesKept
<1>1. NativeInv => OutcomesKept
  <2> SUFFICES ASSUME NativeInv PROVE OutcomesKept
    OBVIOUS
  <2> USE DEF NativeInv
  <2>1. ServedIntact
    BY DEF ServedIntact, Intact, LandedOK, IntactOK
  <2>2. OutcomeTrue
    BY DEF OutcomeTrue, LandedOK
  <2>3. ASSUME NEW o \in Op
        PROVE  /\ op[o].state \in {"absent", "staged", "processing", "ready", "finalizing"} \cup Terminal
               /\ op[o].claim \in {0} \cup Claims
               /\ op[o].claim # 0 <=> op[o].state \in {"processing", "finalizing"} /\ op[o].claim # 0
               /\ op[o].state \in {"staged", "ready"} \cup Terminal => op[o].claim = 0
               /\ op[o].cleanup => op[o].state \in Terminal
               /\ op[o].state \in {"ready", "finalizing", "committed"} => op[o].result \in 1..issued
               /\ op[o].state # "absent" <=> o \in Range(index)
    <3>1. op[o] \in Records
      BY DEF StorageTypes
    <3>2. o \in Range(index) <=> \E i \in 1..Len(index) : index[i] = o
      BY DEF IndexOK, Range
    <3>3. op[o].state # "absent" <=> o \in Range(index)
      BY <3>2 DEF IndexOK
    <3> QED BY <3>1, <3>3 DEF Records, States, RecordsOK, Terminal
  <2>4. lease.op \in Op \cup {None, Other} /\ reader.op \in Op \cup {None}
    BY DEF StorageTypes, Leases, Readers
  <2>5. /\ exec.gen <= issued /\ slot.gen <= issued /\ revoked <= issued
        /\ exec.state \in {"none", "active", "completed", "revoked"}
        /\ exec.stop => exec.state = "revoked"
    BY DEF StorageTypes, Execs, ExecOK
  <2>6. \A p \in puts : p.gen \in 1..issued
    BY <2>5 DEF StorageTypes, Execs, ExecOK, PutsOK
  <2>7. \A r \in Runner : run[r].pc = "idle" <=> run[r] = NoRun
    BY DEF PlacesOK, PlaceOK
  <2>8. TypeOK
    BY <2>3, <2>4, <2>5, <2>6, <2>7 DEF TypeOK
  <2> QED BY <2>1, <2>2, <2>8 DEF OutcomesKept
<1> QED BY <1>1, NativeInvariant, PTL
=============================================================================
