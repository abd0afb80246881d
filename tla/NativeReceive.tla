---------------------------- MODULE NativeReceive ----------------------------
(***************************************************************************)
(* Native receives: a push whose pack a container processes with Git.  The *)
(* repository's Durable Object keeps the operation                         *)
(*                                                                         *)
(*    staged <-> processing -> ready -> finalizing -> committed, aborted   *)
(*                      \-> failed                                         *)
(*                                                                         *)
(* and runs it from a queue message (or the client's poll) and from its    *)
(* alarm, each run under a claim that runs out.  The container writes its  *)
(* outputs to keys fixed by the operation, through a bridge that asks the  *)
(* object before every request, so two executions of one operation would   *)
(* write to the same keys.  An execution record with a generation, a slot  *)
(* in the container's host and a drain window keep them apart.             *)
(***************************************************************************)
EXTENDS Integers, FiniteSets, Sequences, SequencesExt

CONSTANTS
  Op,           \* operation ids; the operation is also its lease token
  None,
  Other,        \* a push on another path that takes the receive lease
  MaxAttempts,  \* MAX_PROCESS_ATTEMPTS
  Mixes         \* the faults and requests considered

ASSUME NativeAssumption ==
  /\ None \notin Op /\ Other \notin Op /\ None # Other
  /\ MaxAttempts \in Nat \ {0} /\ IsFiniteSet(Op)

VARIABLES
  ops,          \* the operations clients ask for, in order
  faults,       \* bound: crashes, timeouts and failed calls still to come
  kinds,        \* ... and which
  \* storage of the Durable Object
  op,           \* nativeReceiveOperation:<id>
  index,        \* nativeReceiveOperationIndex
  lease,        \* receiveLease
  reader,       \* nativeCatalogReaderLease
  floor,        \* nativeCatalogReaderGenerationFloor has passed the old catalog
  exec,         \* nativeExecution:foreground
  issued,       \* nativeExecutionGeneration
  deleting,     \* "no", repositoryDeleting, or "stopped": the containers are
  alarm,        \* an alarm is set
  \* storage of the container's host
  slot,         \* nativeProcessorSlot
  revoked,      \* nativeProcessorRevokedThrough
  shut,         \* nativeProcessorDeleting
  \* memory of the Durable Object
  run,          \* runNativeReceiveOperationState, for the queue and the alarm
  \* outside
  box,          \* the job in the container
  puts,         \* writes the bridge has let through and R2 has not finished
  stored,       \* stored[o][half]: generation that wrote the output, 0: none
  landed,       \* generation whose outputs the catalog serves, 0: none
  queued,       \* operations named by native-receive messages
  client,       \* the request that carries an operation
  \* history
  late,         \* operations a write reached after they ended
  robbed,       \* landed operations finalized again under another push's lease
  outrun        \* committed operations whose outputs a run deleted that had lost
                \* its claim

requestVars == <<ops, faults, kinds>>
storageVars == <<op, index, lease, reader, floor, exec, issued, deleting, alarm>>
hostVars == <<slot, revoked, shut>>
outsideVars == <<box, puts, stored, landed, queued, client>>
vars == <<requestVars, storageVars, hostVars, run, outsideVars, late, robbed, outrun>>

Runner == {"queue", "alarm"}
Half == {"pack", "idx"}
Claims == 1 .. Cardinality(Op) + 4   \* enough for one that is not in use

Terminal == {"committed", "aborted", "failed"}

Staged(fresh) == [state |-> "staged", claim |-> 0, live |-> FALSE, attempts |-> 0,
                  cleanup |-> FALSE, result |-> 0, fresh |-> fresh]

Absent == [Staged(FALSE) EXCEPT !.state = "absent"]

NoExec == [gen |-> 0, op |-> None, claim |-> 0, state |-> "none", stop |-> FALSE,
           drain |-> FALSE, expired |-> FALSE]

NoRun == [pc |-> "idle", op |-> None, claim |-> 0, attempts |-> 0, gen |-> 0, then |-> "",
          beat |-> TRUE]

NoJob == [gen |-> 0, op |-> None, wrote |-> {}]

Nobody == [op |-> None, live |-> FALSE]

TypeOK ==
  /\ \A o \in Op :
       /\ op[o].state \in {"absent", "staged", "processing", "ready", "finalizing"} \cup Terminal
       /\ op[o].claim \in {0} \cup Claims
       \* a claim is held exactly while an attempt owns the operation
       /\ op[o].claim # 0 <=> op[o].state \in {"processing", "finalizing"} /\ op[o].claim # 0
       /\ op[o].state \in {"staged", "ready"} \cup Terminal => op[o].claim = 0
       /\ op[o].cleanup => op[o].state \in Terminal
       /\ op[o].state \in {"ready", "finalizing", "committed"} => op[o].result \in 1..issued
       /\ op[o].state # "absent" <=> o \in Range(index)
  /\ lease.op \in Op \cup {None, Other} /\ reader.op \in Op \cup {None}
  /\ exec.gen <= issued /\ slot.gen <= issued /\ revoked <= issued
  /\ exec.state \in {"none", "active", "completed", "revoked"}
  /\ exec.stop => exec.state = "revoked"
  /\ \A p \in puts : p.gen \in 1..issued
  /\ \A r \in Runner : run[r].pc = "idle" <=> run[r] = NoRun

Init ==
  /\ \E mix \in Mixes : ops = mix.ops /\ faults = mix.faults /\ kinds = mix.kinds
  /\ op = [o \in Op |-> Absent] /\ index = <<>>
  /\ lease = Nobody /\ reader = Nobody /\ floor = FALSE
  /\ exec = NoExec /\ issued = 0 /\ deleting = "no" /\ alarm = FALSE
  /\ slot = [gen |-> 0, state |-> "none"] /\ revoked = 0 /\ shut = FALSE
  /\ run = [r \in Runner |-> NoRun]
  /\ box = NoJob /\ puts = {} /\ stored = [o \in Op |-> [f \in Half |-> 0]]
  /\ landed = [o \in Op |-> 0]
  /\ queued = {} /\ client = [o \in Op |-> "idle"]
  /\ late = {} /\ robbed = {} /\ outrun = {}

Fault(kind) == kind \in kinds /\ faults > 0 /\ faults' = faults - 1

-----------------------------------------------------------------------------
(* The client's request: a lease, the staged input, the durable record.     *)

\* beginReceive: the lease is free or has run out.
TakeLease(o) ==
  /\ ops # <<>> /\ Head(ops) = o /\ client[o] = "idle" /\ deleting = "no"
  /\ ~lease.live
  /\ lease' = [op |-> o, live |-> TRUE]
  /\ client' = [client EXCEPT ![o] = "leased"]
  /\ ops' = Tail(ops)
  /\ UNCHANGED <<faults, kinds, op, index, reader, floor, exec, issued, deleting, alarm, hostVars, run,
                 box, puts, stored, landed, queued, late, robbed, outrun>>

\* A push that goes another way, or a retry whose operation exists already,
\* holds the lease for a while.
OtherPush ==
  /\ \/ Fault("other") /\ ~lease.live /\ lease.op # None /\ lease' = [op |-> Other, live |-> TRUE]
     \/ lease.op = Other /\ lease' = Nobody /\ UNCHANGED faults
  /\ deleting = "no"
  /\ UNCHANGED <<ops, kinds, op, index, reader, floor, exec, issued, deleting, alarm, hostVars, run,
                 outsideVars, late, robbed, outrun>>

\* The transaction of enqueueNativeReceive; otherwise the request aborts.
Enqueue(o) ==
  /\ client[o] = "leased"
  /\ IF deleting = "no" /\ lease = [op |-> o, live |-> TRUE]
     THEN /\ op' = [op EXCEPT ![o] = Staged(floor)]
          /\ index' = Append(index, o)
          /\ client' = [client EXCEPT ![o] = "dispatching"]
          /\ UNCHANGED lease
     ELSE /\ lease' = IF lease.op = o THEN Nobody ELSE lease
          /\ client' = [client EXCEPT ![o] = "refused"]
          /\ UNCHANGED <<op, index>>
  /\ UNCHANGED <<requestVars, reader, floor, exec, issued, deleting, alarm, hostVars, run,
                 box, puts, stored, landed, queued, late, robbed, outrun>>

\* Either wakeup is enough.  With neither, a record no run has claimed yet is
\* taken back, and the request aborts its lease.
Dispatch(o) ==
  /\ client[o] = "dispatching"
  /\ \/ /\ \E wakes \in SUBSET {"alarm", "queue"} \ {{}} :
             /\ alarm' = (alarm \/ "alarm" \in wakes)
             /\ queued' = IF "queue" \in wakes THEN queued \cup {o} ELSE queued
             /\ IF "alarm" \in wakes THEN UNCHANGED faults ELSE Fault("dispatch")
        /\ client' = [client EXCEPT ![o] = "accepted"]
        /\ UNCHANGED <<op, index, lease>>
     \/ /\ Fault("dispatch")
        /\ IF op[o].state = "staged" /\ op[o].claim = 0
           THEN /\ op' = [op EXCEPT ![o] = [Absent EXCEPT !.fresh = op[o].fresh]]
                /\ \E i \in DOMAIN index : index[i] = o /\ index' = RemoveAt(index, i)
                /\ lease' = IF lease.op = o THEN Nobody ELSE lease
                /\ client' = [client EXCEPT ![o] = "refused"]
           ELSE /\ client' = [client EXCEPT ![o] = "accepted"]
                /\ UNCHANGED <<op, index, lease>>
        /\ UNCHANGED <<alarm, queued>>
  /\ UNCHANGED <<ops, kinds, reader, floor, exec, issued, deleting, hostVars, run, box, puts, stored,
                 landed, late, robbed, outrun>>

Request(o) == TakeLease(o) \/ Enqueue(o) \/ Dispatch(o)

-----------------------------------------------------------------------------
(* Authority over an execution.                                             *)

\* ownsClaim: the operation is still processed under the claim.
OwnsClaim(o, claim) ==
  /\ deleting = "no"
  /\ op[o].state = "processing" /\ op[o].claim = claim /\ op[o].live

\* authorizeNativeExecution, asked before every bridge request.
Authorized(gen) ==
  /\ exec.gen = gen /\ exec.state = "active" /\ ~exec.expired
  /\ OwnsClaim(exec.op, exec.claim)

\* Mutant of MayBegin: the revoked execution is not waited for.
MayBeginUndrained(o, claim) ==
  OwnsClaim(o, claim) /\ exec.state # "active" /\ ~exec.stop

\* beginNativeExecution: one execution at a time, after the last one drained.
MayBegin(o, claim) ==
  /\ OwnsClaim(o, claim)
  /\ exec.state # "active" /\ ~exec.stop /\ ~exec.drain

\* finishNativeExecution with the outcome "revoked".
Revoked(gen) ==
  IF exec.gen = gen /\ exec.state = "active"
  THEN [exec EXCEPT !.state = "revoked", !.stop = TRUE, !.drain = TRUE]
  ELSE exec

\* acknowledgeNativeStop
Acknowledged(gen) ==
  IF exec.gen = gen /\ exec.state = "revoked" THEN [exec EXCEPT !.stop = FALSE] ELSE exec

\* startNativeProcessorSlot
MayStart(gen) == ~shut /\ revoked < gen /\ slot.gen < gen /\ slot.state # "active"

\* stopNativeProcessorSlot: never a newer job, and a stop that overtakes its
\* start only retires the generation.
Stopped(gen) ==
  /\ revoked' = IF slot.gen <= gen /\ revoked < gen THEN gen ELSE revoked
  /\ slot' = IF slot.gen = gen THEN [slot EXCEPT !.state = "revoked"] ELSE slot
  /\ UNCHANGED shut

\* stopProcessor's destroy().
Destroyed(gen) == IF slot.gen = gen THEN NoJob ELSE box

-----------------------------------------------------------------------------
(* runNativeReceiveOperationState, one step for each await that another     *)
(* actor can use.                                                           *)

Goto(r, pc) == run' = [run EXCEPT ![r].pc = pc]

Return(r) == run' = [run EXCEPT ![r] = NoRun]

Wake(r) == alarm' = TRUE /\ Return(r)

\* The operation the alarm goes on with.
Open(o) == op[o].state \notin Terminal \/ op[o].cleanup

Newest(o) ==
  \E i \in DOMAIN index :
    /\ index[i] = o /\ Open(o)
    /\ \A j \in i + 1 .. Len(index) : ~Open(index[j])

\* A message is delivered (again) until a run finds the operation ended; a
\* client's poll makes the same call.  The alarm takes the newest operation that is not ended and cleaned.
Enter(r, o) ==
  /\ run[r].pc = "idle"
  /\ \/ /\ r = "queue" /\ o \in queued
        /\ IF op[o].state \in Terminal \cup {"absent"}
           THEN queued' = queued \ {o} /\ UNCHANGED run
           ELSE run' = [run EXCEPT ![r] = [NoRun EXCEPT !.pc = "entered", !.op = o]]
                /\ UNCHANGED queued
        /\ UNCHANGED alarm
     \/ /\ r = "alarm" /\ alarm /\ alarm' = FALSE
        /\ deleting = "no" /\ Newest(o)
        /\ run' = [run EXCEPT ![r] = [NoRun EXCEPT !.op = o, !.pc =
                     IF op[o].state \notin Terminal THEN "entered"
                     ELSE IF op[o].state = "committed" THEN "clean" ELSE "erase"]]
        /\ UNCHANGED queued
  /\ UNCHANGED <<requestVars, op, index, lease, reader, floor, exec, issued, deleting, hostVars,
                 box, puts, stored, landed, client, late, robbed, outrun>>

\* An execution in progress or draining is waited for.
Waits(o) == op[o].state \in {"staged", "processing"} /\ (exec.state = "active" \/ exec.drain)

Proceed(r) == IF Waits(run[r].op) THEN Wake(r) ELSE Goto(r, "claim") /\ UNCHANGED alarm

\* reconcileNativeExecutionLeases: an execution that lost its authority, or
\* whose stop was not confirmed, is cancelled first.
Reconcile(r) ==
  LET o == run[r].op IN
  /\ run[r].pc = "entered"
  /\ IF op[o].state \in {"staged", "processing"}
        /\ (exec.stop \/ (exec.state = "active" /\ ~Authorized(exec.gen)))
     THEN /\ exec' = Revoked(exec.gen)
          /\ run' = [run EXCEPT ![r].pc = "stop", ![r].gen = exec.gen, ![r].then = "wait"]
          /\ UNCHANGED alarm
     ELSE Proceed(r) /\ UNCHANGED exec
  /\ UNCHANGED <<requestVars, op, index, lease, reader, floor, issued, deleting, hostVars,
                 outsideVars, late, robbed, outrun>>

\* cancelNativeExecution, second half: the host stops the job, and the stop is
\* acknowledged.
Stop(r) ==
  /\ run[r].pc = "stop"
  /\ Stopped(run[r].gen)
  /\ box' = Destroyed(run[r].gen)
  /\ exec' = Acknowledged(run[r].gen)
  /\ Goto(r, run[r].then)
  /\ UNCHANGED <<requestVars, op, index, lease, reader, floor, issued, deleting, alarm,
                 puts, stored, landed, queued, client, late, robbed, outrun>>

\* destroy() throws after the slot was revoked: the error ends the run (its
\* finally releases the reader lease) and the stop stays pending.
StopThrows(r) ==
  /\ run[r].pc = "stop" /\ Fault("stop")
  /\ Stopped(run[r].gen)
  /\ IF run[r].then = "caught"
     THEN Goto(r, "caught") /\ UNCHANGED alarm
     ELSE IF r = "alarm" THEN Wake(r) ELSE Return(r) /\ UNCHANGED alarm
  /\ UNCHANGED <<ops, kinds, op, index, lease, reader, floor, exec, issued, deleting, outsideVars,
                 late, robbed, outrun>>

Wait(r) ==
  /\ run[r].pc = "wait" /\ Proceed(r)
  /\ UNCHANGED <<requestVars, op, index, lease, reader, floor, exec, issued, deleting, hostVars,
                 outsideVars, late, robbed, outrun>>

\* Mutant of Claimable: an operation that was being processed is not resumed.
ClaimableUnstarted(o) ==
  /\ deleting = "no" /\ op[o].state \in {"staged", "ready"} /\ ~op[o].live
  /\ lease.op = o \/ op[o].state = "ready"

\* claimOperationAttempt: the receive lease is written again, whoever holds it.
Claimable(o) ==
  /\ deleting = "no" /\ op[o].state \notin Terminal \cup {"absent"}
  /\ ~op[o].live
  /\ lease.op = o \/ op[o].state \in {"ready", "finalizing"}

FreshClaim ==
  CHOOSE c \in Claims :
    c \notin {op[o].claim : o \in Op} \cup {run[r].claim : r \in Runner} \cup {exec.claim}

Claim(r) ==
  LET o == run[r].op
      done == op[o].state \in {"ready", "finalizing"}
  IN
  /\ run[r].pc = "claim"
  /\ IF Claimable(o)
     THEN /\ op' = [op EXCEPT ![o].state = IF done THEN "finalizing" ELSE "processing",
                              ![o].attempts = IF done THEN @ ELSE @ + 1,
                              ![o].claim = FreshClaim, ![o].live = TRUE]
          /\ lease' = [op |-> o, live |-> TRUE]
          /\ run' = [run EXCEPT ![r] = [NoRun EXCEPT !.op = o, !.claim = FreshClaim,
                                          !.attempts = op'[o].attempts,
                                          !.pc = IF done THEN "finalize" ELSE "read"]]
          /\ UNCHANGED alarm
     ELSE /\ alarm' = (alarm \/ (deleting = "no" /\ op[o].claim # 0))
          /\ Return(r)
          /\ UNCHANGED <<op, lease>>
  /\ UNCHANGED <<requestVars, index, reader, floor, exec, issued, deleting, hostVars, outsideVars,
                 late, robbed, outrun>>

Holds(r) == op[run[r].op].claim = run[r].claim

\* storeClaimedOperation and markTerminal write only under the claim.
Unclaimed(o, state) == [op[o] EXCEPT !.state = state, !.claim = 0, !.live = FALSE]

Ended(o, state) == [Unclaimed(o, state) EXCEPT !.cleanup = TRUE]

Superseded(o) == floor /\ ~op[o].fresh

\* acquireNativeCatalogReaderLease
AcquireReader(r) ==
  LET o == run[r].op IN
  /\ run[r].pc = "read"
  /\ \/ /\ deleting = "no" /\ Superseded(o)
        /\ run' = [run EXCEPT ![r].pc = "fail", ![r].then = "superseded"]
        /\ UNCHANGED <<op, reader, alarm>>
     \/ /\ ~(deleting = "no" /\ Superseded(o))
        /\ deleting # "no" \/ (reader.live /\ reader.op # o)
        /\ op' = IF Holds(r) THEN [op EXCEPT ![o] = [Unclaimed(o, "staged") EXCEPT !.attempts = @ - 1]]
                             ELSE op
        /\ Wake(r)
        /\ UNCHANGED reader
     \/ /\ deleting = "no" /\ ~Superseded(o) /\ ~(reader.live /\ reader.op # o)
        /\ reader' = [op |-> o, live |-> TRUE]
        /\ Goto(r, "begin")
        /\ UNCHANGED <<op, alarm>>
  /\ UNCHANGED <<requestVars, index, lease, floor, exec, issued, deleting, hostVars, outsideVars,
                 late, robbed, outrun>>

Begin(r) ==
  LET o == run[r].op IN
  /\ run[r].pc = "begin"
  /\ IF MayBegin(o, run[r].claim)
     THEN /\ issued' = issued + 1
          /\ exec' = [NoExec EXCEPT !.gen = issued + 1, !.op = o, !.claim = run[r].claim,
                                    !.state = "active"]
          /\ run' = [run EXCEPT ![r].pc = "start", ![r].gen = issued + 1]
     ELSE Goto(r, "caught") /\ UNCHANGED <<issued, exec>>
  /\ UNCHANGED <<requestVars, op, index, lease, reader, floor, deleting, alarm, hostVars,
                 outsideVars, late, robbed, outrun>>

Cancel(r) ==
  /\ exec' = Revoked(run[r].gen)
  /\ run' = [run EXCEPT ![r].pc = "stop", ![r].then = "caught"]

\* The slot is taken and the container started.  A job left behind by a stop
\* that failed is destroyed first.  A refused start cancels the execution.
Start(r) ==
  /\ run[r].pc = "start"
  /\ box' = IF slot.state = "revoked" THEN NoJob ELSE box
  /\ IF MayStart(run[r].gen)
     THEN /\ slot' = [gen |-> run[r].gen, state |-> "active"]
          /\ Goto(r, "ready")
          /\ UNCHANGED exec
     ELSE Cancel(r) /\ UNCHANGED slot
  /\ UNCHANGED <<requestVars, op, index, lease, reader, floor, issued, deleting, alarm, revoked,
                 shut, puts, stored, landed, queued, client, late, robbed, outrun>>

SlotDone(gen) == IF slot = [gen |-> gen, state |-> "active"]
                 THEN [slot EXCEPT !.state = "completed"] ELSE slot

\* The container answers its health check, the authority is checked again and
\* the job is posted.  An error here stops the slot and cancels.
Post(r) ==
  /\ run[r].pc = "ready"
  /\ IF Authorized(run[r].gen) /\ slot = [gen |-> run[r].gen, state |-> "active"]
     THEN /\ box' = [NoJob EXCEPT !.gen = run[r].gen, !.op = run[r].op]
          /\ Goto(r, "await") /\ UNCHANGED exec
     ELSE Cancel(r) /\ UNCHANGED box
  /\ UNCHANGED <<requestVars, op, index, lease, reader, floor, issued, deleting, alarm, hostVars,
                 puts, stored, landed, queued, client, late, robbed, outrun>>

\* container_not_ready: the execution completes without a job.
NotReady(r) ==
  /\ run[r].pc = "ready" /\ Fault("unready")
  /\ slot' = SlotDone(run[r].gen)
  /\ exec' = IF Authorized(run[r].gen) THEN [exec EXCEPT !.state = "completed"] ELSE exec
  /\ Goto(r, "caught")
  /\ UNCHANGED <<ops, kinds, op, index, lease, reader, floor, issued, deleting, alarm, revoked, shut,
                 outsideVars, late, robbed, outrun>>

\* The container answers when its own writes are done.  It fails when a pack of
\* its catalog is gone or the bridge refuses it; it may fail for reasons of its
\* own, or reject the push before it wrote anything.
Answers(gen) ==
  IF box.gen = gen /\ \A p \in puts : p.gen # gen
  THEN (IF box.wrote = Half /\ ~Superseded(box.op) THEN {"ok"} ELSE {})
         \cup (IF Superseded(box.op) \/ ~Authorized(gen) \/ "container" \in kinds
               THEN {"failed"} ELSE {})
         \cup (IF box.wrote = {} /\ "container" \in kinds THEN {"rejected"} ELSE {})
  ELSE {}

\* The answer arrives.  Settling the execution checks its authority in the
\* same transaction; a failed heartbeat discards the result.
Settle(r) ==
  /\ run[r].pc = "await"
  /\ \E answer \in Answers(run[r].gen) :
       IF Authorized(run[r].gen)
       THEN /\ exec' = [exec EXCEPT !.state = "completed"]
            /\ Goto(r, IF answer = "ok" /\ run[r].beat THEN "store"
                       ELSE IF answer = "rejected" THEN "fail" ELSE "caught")
       ELSE IF answer = "ok" THEN Cancel(r)
            ELSE Goto(r, IF answer = "rejected" THEN "fail" ELSE "caught") /\ UNCHANGED exec
  /\ box' = NoJob
  /\ slot' = SlotDone(run[r].gen)
  /\ UNCHANGED <<requestVars, op, index, lease, reader, floor, issued, deleting, alarm, revoked,
                 shut, puts, stored, landed, queued, client, late, robbed, outrun>>

\* The request times out or breaks, or the job is gone: the slot is stopped
\* and the execution cancelled.
TransportFails(r) ==
  /\ run[r].pc = "await"
  /\ IF box.gen = run[r].gen /\ slot.state = "active" THEN Fault("transport") ELSE UNCHANGED faults
  /\ Stopped(run[r].gen)
  /\ box' = Destroyed(run[r].gen)
  /\ Cancel(r)
  /\ UNCHANGED <<ops, kinds, op, index, lease, reader, floor, issued, deleting, alarm,
                 puts, stored, landed, queued, client, late, robbed, outrun>>

ReleasedReader(o) == IF reader.op = o THEN Nobody ELSE reader

\* A retryable error: staged again, unless the run's was the last attempt.
Caught(r) ==
  LET o == run[r].op IN
  /\ run[r].pc = "caught"
  /\ IF run[r].attempts < MaxAttempts
     THEN /\ reader' = ReleasedReader(o)
          /\ IF Holds(r)
             THEN op' = [op EXCEPT ![o] = Unclaimed(o, "staged")] /\ Wake(r)
             ELSE Return(r) /\ UNCHANGED <<op, alarm>>
     ELSE Goto(r, "fail") /\ UNCHANGED <<op, reader, alarm>>
  /\ UNCHANGED <<requestVars, index, lease, floor, exec, issued, deleting, hostVars, outsideVars,
                 late, robbed, outrun>>

\* markTerminal, then abortReceiveLease and the finally clause of a run that had
\* the reader lease.  A run that lost its claim takes the record of the run that
\* ended the operation for its own, or fails.
Fail(r) ==
  LET o == run[r].op
      over == Holds(r) \/ op[o].state \in Terminal
  IN
  /\ run[r].pc = "fail"
  /\ op' = IF Holds(r) THEN [op EXCEPT ![o] = Ended(o, "failed")] ELSE op
  /\ lease' = IF over /\ lease.op = o THEN Nobody ELSE lease
  /\ reader' = IF run[r].then = "superseded" THEN reader ELSE ReleasedReader(o)
  /\ \/ over /\ Goto(r, "erase") /\ UNCHANGED alarm
     \/ ~over /\ r = "alarm" /\ Wake(r)
     \/ ~over /\ r # "alarm" /\ Return(r) /\ UNCHANGED alarm
  /\ UNCHANGED <<requestVars, index, floor, exec, issued, deleting, hostVars, outsideVars,
                 late, robbed, outrun>>

\* deleteOperationObjects: the outputs go if the caller meant to fail the
\* operation, whatever the record it got back says.
Erased(r) == IF run[r].pc = "erase" THEN [f \in Half |-> 0] ELSE stored[run[r].op]

\* completeOperationCleanup
Clean(r) ==
  LET o == run[r].op IN
  /\ run[r].pc \in {"clean", "erase"}
  /\ \/ /\ stored' = [stored EXCEPT ![o] = Erased(r)]
        /\ op' = [op EXCEPT ![o].cleanup = FALSE]
        /\ outrun' = IF run[r].pc = "erase" /\ op[o].state = "committed" THEN outrun \cup {o}
                     ELSE outrun
        /\ Return(r)
        /\ UNCHANGED <<faults, alarm>>
     \/ Fault("clean") /\ Wake(r) /\ UNCHANGED <<stored, op, outrun>>
  /\ UNCHANGED <<ops, kinds, index, lease, reader, floor, exec, issued, deleting, hostVars, box, puts,
                 landed, queued, client, late, robbed>>

\* The result is stored under the claim and the run starts over to finalize.
Store(r) ==
  LET o == run[r].op IN
  /\ run[r].pc = "store"
  /\ reader' = ReleasedReader(o)
  /\ IF Holds(r)
     THEN /\ op' = [op EXCEPT ![o] = [Unclaimed(o, "ready") EXCEPT !.result = run[r].gen]]
          /\ alarm' = TRUE
          /\ run' = [run EXCEPT ![r] = [NoRun EXCEPT !.pc = "entered", !.op = o]]
     ELSE Return(r) /\ UNCHANGED <<op, alarm>>
  /\ UNCHANGED <<requestVars, index, lease, floor, exec, issued, deleting, hostVars, outsideVars,
                 late, robbed, outrun>>

-----------------------------------------------------------------------------
(* Finalization.  finalizeReceiveState is one step here: RepoReceive has    *)
(* its intent, its crashes and its replay.                                  *)

\* Mutant of Replays: the stored outcome is not looked up.
ReplaysNever(o) == FALSE

\* A receive that landed before answers from its stored outcome.
Replays(o) == landed[o] # 0 /\ deleting = "no" /\ (lease.op = o \/ ~lease.live)

Lands(o) == landed[o] = 0 /\ deleting = "no" /\ lease = [op |-> o, live |-> TRUE]

Finalize(r) ==
  LET o == run[r].op IN
  /\ run[r].pc = "finalize"
  /\ \/ /\ Replays(o) \/ Lands(o)
        /\ landed' = [landed EXCEPT ![o] = IF @ = 0 THEN op[o].result ELSE @]
        /\ Goto(r, "commit")
     \/ /\ ~Replays(o)          \* lease mismatch or ref conflict
        /\ UNCHANGED landed
        /\ Goto(r, "conflict")
  /\ lease' = IF lease.op = o /\ deleting = "no" THEN Nobody ELSE lease
  /\ robbed' = IF landed[o] # 0 /\ lease.live /\ lease.op # o THEN robbed \cup {o} ELSE robbed
  /\ UNCHANGED <<requestVars, op, index, reader, floor, exec, issued, deleting, alarm, hostVars,
                 box, puts, stored, queued, client, late, outrun>>

\* markTerminal; without the claim the run goes on with the record of the run
\* that ended the operation, or it throws and the run gives up its attempt.
Conclude(r) ==
  LET o == run[r].op
      next == IF run[r].pc = "commit" THEN "clean" ELSE "erase"
  IN
  /\ run[r].pc \in {"commit", "conflict"}
  /\ IF Holds(r)
     THEN /\ op' = [op EXCEPT ![o] = Ended(o, IF run[r].pc = "commit" THEN "committed"
                                              ELSE "aborted")]
          /\ Goto(r, next) /\ UNCHANGED alarm
     ELSE /\ UNCHANGED op
          /\ IF op[o].state \in Terminal THEN Goto(r, next) /\ UNCHANGED alarm ELSE Wake(r)
  /\ UNCHANGED <<requestVars, index, lease, reader, floor, exec, issued, deleting, hostVars,
                 outsideVars, late, robbed, outrun>>

\* An error on the way, before or after the receive landed: the claim is
\* released and the operation retried.
FinalizeThrows(r) ==
  LET o == run[r].op IN
  /\ run[r].pc \in {"finalize", "commit"} /\ Fault("finalize")
  /\ op' = IF Holds(r) THEN [op EXCEPT ![o] = Unclaimed(o, "finalizing")] ELSE op
  /\ Wake(r)
  /\ UNCHANGED <<ops, kinds, index, lease, reader, floor, exec, issued, deleting, hostVars, outsideVars,
                 late, robbed, outrun>>

-----------------------------------------------------------------------------
(* Heartbeats, leases and deletions.                                        *)

Beating(r) == run[r].pc \in {"begin", "start", "ready", "await"}

\* The heartbeat renews the claim (even one that has run out, while nobody
\* took it), the receive lease and a live reader lease.  If it cannot, it
\* cancels the execution of its own claim.
Heartbeat(r) ==
  LET o == run[r].op
      owns == deleting = "no" /\ lease.op = o /\ Holds(r)
      reads == deleting = "no" /\ reader = [op |-> o, live |-> TRUE]
      mine == exec.op = o /\ exec.claim = run[r].claim
  IN
  /\ Beating(r) /\ run[r].beat
  /\ ~(owns /\ reads /\ op[o].live /\ lease.live)
  /\ op' = IF owns THEN [op EXCEPT ![o].live = TRUE] ELSE op
  /\ lease' = IF owns THEN [lease EXCEPT !.live = TRUE] ELSE lease
  /\ IF owns /\ reads THEN UNCHANGED <<run, exec, box, hostVars>>
     ELSE /\ run' = [run EXCEPT ![r].beat = FALSE]
          /\ IF mine
             THEN /\ exec' = IF exec.state = "active"
                             THEN [exec EXCEPT !.state = "revoked", !.drain = TRUE]
                             ELSE Acknowledged(exec.gen)
                  /\ Stopped(exec.gen)
                  /\ box' = Destroyed(exec.gen)
             ELSE UNCHANGED <<exec, box, hostVars>>
  /\ UNCHANGED <<requestVars, index, reader, floor, issued, deleting, alarm, puts, stored, landed,
                 queued, client, late, robbed, outrun>>

\* Three minutes pass without a heartbeat: the run is gone or has stalled, or
\* it is finalizing, where nothing renews the claim.
Attended(o) == \E r \in Runner : run[r].op = o /\ run[r].claim = op[o].claim

ClaimLapses(o) ==
  /\ op[o].live
  /\ IF Attended(o) THEN Fault("stall") ELSE UNCHANGED faults
  /\ op' = [op EXCEPT ![o].live = FALSE]
  /\ UNCHANGED <<ops, kinds, index, lease, reader, floor, exec, issued, deleting, alarm, hostVars, run,
                 outsideVars, late, robbed, outrun>>

ReaderLapses ==
  /\ reader.live
  /\ IF \E r \in Runner : run[r].op = reader.op /\ Beating(r)
     THEN Fault("stall") ELSE UNCHANGED faults
  /\ reader' = [reader EXCEPT !.live = FALSE]
  /\ UNCHANGED <<ops, kinds, op, index, lease, floor, exec, issued, deleting, alarm, hostVars, run,
                 outsideVars, late, robbed, outrun>>

\* Thirty minutes: longer than any claim.
LeaseLapses ==
  /\ lease.live /\ lease.op \in Op /\ ~op[lease.op].live /\ client[lease.op] # "leased"
  /\ Fault("lapse")
  /\ lease' = [lease EXCEPT !.live = FALSE]
  /\ UNCHANGED <<ops, kinds, op, index, reader, floor, exec, issued, deleting, alarm, hostVars, run,
                 outsideVars, late, robbed, outrun>>

\* canDeleteSupersededGeneration: the packs of the old catalog go.
MayDelete == ~reader.live

DeleteSuperseded ==
  /\ ~floor /\ Fault("supersede") /\ MayDelete
  /\ floor' = TRUE
  /\ UNCHANGED <<ops, kinds, op, index, lease, reader, exec, issued, deleting, alarm, hostVars, run,
                 outsideVars, late, robbed, outrun>>

\* The execution's fourteen minutes are over.
ExecExpires ==
  /\ exec.state = "active" /\ ~exec.expired /\ Fault("expire")
  /\ exec' = [exec EXCEPT !.expired = TRUE]
  /\ UNCHANGED <<ops, kinds, op, index, lease, reader, floor, issued, deleting, alarm, hostVars, run,
                 outsideVars, late, robbed, outrun>>

\* Five minutes, in which a write that was let through ends.
Drained ==
  /\ exec.drain /\ \A p \in puts : p.gen # exec.gen
  /\ exec' = [exec EXCEPT !.drain = FALSE]
  /\ UNCHANGED <<requestVars, op, index, lease, reader, floor, issued, deleting, alarm, hostVars,
                 run, outsideVars, late, robbed, outrun>>

\* The object is evicted: every run is gone, an alarm is delivered again, and
\* the container keeps working.
Evict ==
  /\ \E r \in Runner : run[r].pc # "idle"
  /\ Fault("evict")
  /\ run' = [r \in Runner |-> NoRun]
  /\ alarm' = (alarm \/ run["alarm"].pc # "idle")
  /\ UNCHANGED <<ops, kinds, op, index, lease, reader, floor, exec, issued, deleting, hostVars,
                 outsideVars, late, robbed, outrun>>

\* Repository deletion and stopNativeReceiveContainerState.
BeginDeletion ==
  /\ deleting = "no" /\ Fault("delete")
  /\ deleting' = "deleting"
  /\ UNCHANGED <<ops, kinds, op, index, lease, reader, floor, exec, issued, alarm, hostVars, run,
                 outsideVars, late, robbed, outrun>>

StopAll ==
  /\ deleting = "deleting"
  /\ deleting' = "stopped"
  /\ exec' = IF exec.state \in {"active", "revoked"}
             THEN [exec EXCEPT !.drain = (exec.state = "active" \/ @),
                               !.state = "revoked", !.stop = FALSE]
             ELSE exec
  /\ shut' = TRUE
  /\ slot' = IF slot.gen # 0 THEN [slot EXCEPT !.state = "revoked"] ELSE slot
  /\ box' = NoJob
  /\ reader' = Nobody
  /\ UNCHANGED <<requestVars, op, index, lease, floor, issued, alarm, revoked, run, puts, stored,
                 landed, queued, client, late, robbed, outrun>>

-----------------------------------------------------------------------------
(* The container and the bridge.                                            *)

\* The container uploads the pack, then the index.
NextHalf == IF "pack" \in box.wrote THEN IF "idx" \in box.wrote THEN "none" ELSE "idx" ELSE "pack"

\* The bridge asks for authority, then the write is under way.
MayPut == Authorized(box.gen)

PutStart(f) ==
  /\ box.gen # 0 /\ f = NextHalf /\ \A p \in puts : p.gen # box.gen
  /\ MayPut
  /\ puts' = puts \cup {[gen |-> box.gen, op |-> box.op, half |-> f]}
  /\ box' = [box EXCEPT !.wrote = @ \cup {f}]
  /\ UNCHANGED <<requestVars, storageVars, hostVars, run, stored, landed, queued, client, late,
                 robbed, outrun>>

\* It ends, whether the container still waits for it or not; one whose
\* container is gone may also be cut short.
PutEnd(p) ==
  /\ p \in puts
  /\ puts' = puts \ {p}
  /\ \/ stored' = [stored EXCEPT ![p.op][p.half] = p.gen]
     \/ box.gen # p.gen /\ UNCHANGED stored
  /\ late' = IF op[p.op].state \in Terminal THEN late \cup {p.op} ELSE late
  /\ UNCHANGED <<requestVars, storageVars, hostVars, run, box, landed, queued, client, robbed, outrun>>

-----------------------------------------------------------------------------
Advance(r) ==
  \/ Reconcile(r) \/ Stop(r) \/ Wait(r) \/ Claim(r) \/ AcquireReader(r) \/ Begin(r) \/ Start(r)
  \/ Post(r) \/ Settle(r) \/ TransportFails(r) \/ Caught(r) \/ Fail(r)
  \/ Clean(r) \/ Store(r) \/ Finalize(r) \/ Conclude(r)

Container == (\E f \in Half : PutStart(f)) \/ (\E p \in puts : PutEnd(p))

\* A message is delivered, and redelivered a few times only; then the alarm is
\* left.
Drop(o) ==
  /\ o \in queued /\ (op[o].attempts > 0 \/ alarm) /\ queued' = queued \ {o}
  /\ UNCHANGED <<requestVars, storageVars, hostVars, run, box, puts, stored, landed, client, late,
                 robbed, outrun>>

Next ==
  \/ \E o \in Op : Request(o) \/ ClaimLapses(o) \/ Drop(o)
  \/ \E r \in Runner :
       \/ \E o \in Op : Enter(r, o)
       \/ Advance(r) \/ StopThrows(r) \/ NotReady(r) \/ FinalizeThrows(r) \/ Heartbeat(r)
  \/ OtherPush \/ ReaderLapses \/ LeaseLapses \/ DeleteSuperseded \/ ExecExpires \/ Drained
  \/ Evict \/ BeginDeletion \/ StopAll
  \/ Container

Spec == Init /\ [][Next]_vars

\* Handlers run, an alarm that is set fires, requests to R2 and to the
\* container end, and time passes.
LiveSpec ==
  /\ Spec
  /\ \A r \in Runner : WF_vars(Advance(r)) /\ WF_vars(Heartbeat(r))
  /\ \A r \in Runner : WF_vars(\E o \in Op : Enter(r, o))
  /\ \A o \in Op : WF_vars(Request(o)) /\ WF_vars(ClaimLapses(o))
  /\ WF_vars(ReaderLapses) /\ WF_vars(Drained) /\ WF_vars(StopAll) /\ WF_vars(OtherPush)
  /\ WF_vars(Container)

-----------------------------------------------------------------------------
(* Properties.                                                              *)

\* From the moment a result is recorded, the pack and the index in R2 are
\* both the ones of that execution: no earlier or later execution of the
\* operation writes over them and no cleanup removes them.  Exceptions: an
\* operation that landed and was finalized again under another push's lease, and
\* one that a run with a lost claim took for failed after it was committed.
Intact(o) ==
  op[o].state \in {"ready", "finalizing", "committed"} \/ landed[o] # 0 =>
    \A f \in Half : stored[o][f] = IF landed[o] # 0 THEN landed[o] ELSE op[o].result

ServedIntact == deleting = "no" => \A o \in Op \ (robbed \cup outrun) : Intact(o)

\* Writes of two executions are never under way at once.
WritersApart == \A p, q \in puts : p.gen = q.gen

\* A stop that was acknowledged has reached the container, also when it
\* overtook the start; after a deletion's stop nothing runs at all.
StopsReach ==
  /\ exec.state = "revoked" /\ ~exec.stop => box.gen # exec.gen
  /\ deleting = "stopped" => box.gen = 0

\* The packs a run reads are not deleted while its reader lease is live.
ReadersUndisturbed ==
  \A r \in Runner :
    Beating(r) /\ reader = [op |-> run[r].op, live |-> TRUE] => ~Superseded(run[r].op)

\* What the record says is what happened to the refs.
OutcomeTrue ==
  deleting = "no" =>
    \A o \in Op \ robbed :
      /\ op[o].state = "committed" => landed[o] # 0
      /\ op[o].state \in {"aborted", "failed"} => landed[o] = 0

\* A cleaned operation that was not committed has left no output, unless a
\* write of a revoked execution reached it later, or it had landed.
CleanedUp ==
  \A o \in Op :
    op[o].state \in {"aborted", "failed"} /\ ~op[o].cleanup /\ o \notin late /\ landed[o] = 0 =>
      \A f \in Half : stored[o][f] = 0

\* An operation whose receive lease went to another push before its result was
\* recorded is never claimed again.
Stranded(o) == op[o].state \in {"staged", "processing"} /\ lease.op # o

\* Every operation comes to its end, and is cleaned up.  (An eviction right
\* after the end leaves the cleanup to the next alarm, which may be the one the
\* next request to the repository sets.)
Settles ==
  <>[](\/ deleting # "no"
       \/ \A o \in Op : \/ op[o].state = "absent"
                        \/ op[o].state \in Terminal /\ (op[o].cleanup => "evict" \in kinds)
       \/ \E o \in Op : Stranded(o))

\* With two runners on one operation the record still says what happened to
\* the refs, its outputs are those of one execution, and they are in R2
\* exactly if it counts.
OutcomesKept ==
  /\ TypeOK
  /\ ServedIntact
  /\ OutcomeTrue
  /\ CleanedUp

\* At most one execution touches R2: the next one waits for the last writes,
\* a stop has an effect, and what an execution reads stays.
ExecutionsFenced ==
  /\ WritersApart
  /\ StopsReach
  /\ ReadersUndisturbed
=============================================================================
