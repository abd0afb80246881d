------------------------------ MODULE PushUpload ------------------------------
(***************************************************************************)
(* One push request, from its body to its answer: readPktSectionStream     *)
(* cuts the command section off a stream of arbitrary chunks, the early    *)
(* refusals give the receive lease back, and the pack goes to R2 in one of *)
(* the ways of r2Upload.ts, checked on the fly by a rolling window over    *)
(* the pack trailer:                                                       *)
(*   known    one PUT of a FixedLengthStream (stageKnownLengthPack);       *)
(*   parts    a multipart upload (stageMultipartPack);                     *)
(*   stock    one PUT of the whole request (stageStockReceiveRequestToR2); *)
(*   durable  the PUT of the durable GC, which withholds the trailer until *)
(*            the identity of the pack is recorded, and may be tried again.*)
(* The PUT runs beside the code that feeds it.  Bytes are abstracted to    *)
(* units <<tag, content>>; the SHA-1 of a sequence of units is the         *)
(* sequence itself, repeated in each unit of the trailer.                  *)
(***************************************************************************)
EXTENDS Integers, Sequences

CONSTANTS
  Requests,       \* the requests, see below
  HeaderUnits,    \* PACK_HEADER_BYTES
  TrailerUnits,   \* PACK_TRAILER_BYTES
  PartUnits,      \* MULTIPART_PART_BYTES
  MaxSection,     \* MAX_COMMAND_SECTION_BYTES
  MaxStock,       \* MAX_STOCK_RECEIVE_REQUEST_BYTES
  MaxChunk        \* bound: the largest chunk the client's stream delivers

ASSUME SizesAssumption ==
  /\ HeaderUnits \in Nat \ {0} /\ TrailerUnits \in Nat \ {0}
  /\ PartUnits \in Nat \ {0} /\ MaxChunk \in Nat \ {0}
  /\ MaxSection \in Nat /\ MaxStock \in Nat

\* No Content-Length.
Chunked == -1

\* A request is a record: its way ("push", "stock" or "durable"), the command
\* section and the pack it sends, the declared length, the verdict of the checks
\* on its commands and its objects ("ok", "refused", "deletes", "disconnected"
\* or "conflict"), the pack of a second durable attempt, how many calls may fail
\* and whether the client may leave.

VARIABLES
  req,      \* the request
  pc,       \* where its Worker is
  wire,     \* what the stream has not delivered yet
  buffered, \* readPktSectionStream: the command section so far
  queue,    \* prefixRemainder: pack units that came with the section
  up,       \* the running state of the staging function
  puts,     \* puts[n]: the PUT of attempt n and what was written to it
  mpu,      \* the multipart upload and its parts
  pack,     \* the stored object under the staging key, or Missing
  side,     \* which of .idx and .refs are stored
  lease,    \* the receive lease
  intent,   \* durable: the recorded identity, or Missing
  attempt,  \* durable: the attempt that runs
  gone,     \* the client has disconnected
  finalizing, \* finalizationAttempted
  answer,   \* what the client was told
  missed,   \* what a failed or a forbidden cleanup call has left behind
  faults    \* faults that may still happen

vars == <<req, pc, wire, buffered, queue, up, puts, mpu, pack, side, lease,
          intent, attempt, gone, finalizing, answer, missed, faults>>
upload == <<up, puts, mpu>>
stored == <<pack, side>>
input == <<wire, buffered, queue>>
rest == <<req, intent, attempt>>

------------------------------------------------------------------------------
(* Values *)

Missing == <<"missing">>
NoUpload == [total |-> 0, expected |-> 0, header |-> <<>>, tail |-> <<>>,
             digest |-> <<>>, buffered |-> <<>>, staged |-> FALSE]
NoPut == [state |-> "none", sent |-> <<>>, expected |-> 0]
NoMultipart == [state |-> "none", parts |-> <<>>]

Header == [i \in 1..HeaderUnits |-> <<"PACK", <<>>>>]
Trailer(content) == [i \in 1..TrailerUnits |-> <<"sum", content>>]
PackOf(content) == content \o Trailer(content)

Smaller(a, b) == IF a < b THEN a ELSE b
First(s, n) == SubSeq(s, 1, n)
After(s, n) == SubSeq(s, n + 1, Len(s))

Steps == {"begin", "section", "parsed", "refuse", "staging", "parting", "lastPart",
          "identify", "closing", "failing", "settle", "delete", "thrown", "staged",
          "indexed", "checked", "clean", "cleanOnce", "error", "abort", "retryAbort",
          "retryClean", "end", "dead"}
Artifacts == {"pack", "idx", "refs"}

TypeOK ==
  /\ pc \in Steps
  /\ up.total \in Nat /\ Len(up.tail) <= TrailerUnits
  /\ Len(up.header) <= HeaderUnits
  /\ \A n \in 1..2 :
       /\ puts[n].state \in {"none", "open", "done", "failed"}
       /\ puts[n].state # "none" => Len(puts[n].sent) <= puts[n].expected
  /\ mpu.state \in {"none", "open", "completed", "aborted"}
  /\ side \subseteq {"idx", "refs"}
  /\ up.staged \in BOOLEAN
  /\ lease \in {"none", "held", "released", "landed"}
  /\ attempt \in 1..2
  /\ gone \in BOOLEAN /\ finalizing \in BOOLEAN
  /\ answer \in {"none", "busy", "failed", "ok", "staged", "silent"}
  /\ missed \subseteq Artifacts \cup {"multipart", "lease"}
  /\ faults \in Nat

Init ==
  /\ req \in Requests
  /\ pc = IF req.way = "durable" THEN "parsed" ELSE "begin"
  /\ wire = req.section \o req.pack
  /\ buffered = <<>> /\ queue = <<>>
  /\ up = NoUpload
  /\ puts = [n \in 1..2 |-> NoPut]
  /\ mpu = NoMultipart
  /\ pack = Missing /\ side = {}
  /\ lease = "none"
  /\ intent = Missing /\ attempt = 1
  /\ gone = FALSE /\ finalizing = FALSE
  /\ answer = "none"
  /\ missed = {}
  /\ faults = req.faults

\* A call fails; the request bounds how many do.
Fault == faults > 0 /\ faults' = faults - 1

------------------------------------------------------------------------------
(* The command section *)

\* Payload units that a pkt-line header announces.
PayloadOf(tag) == CASE tag = "line1" -> 1 [] tag = "line2" -> 2

\* parsePktSectionPrefix: the pkt-lines of the buffer up to the flush packet.
ParsePktSection(bytes) ==
  LET from[o \in 0..Len(bytes)] ==
        IF o = Len(bytes) THEN [status |-> "incomplete", offset |-> 0]
        ELSE LET tag == bytes[o + 1][1]
             IN IF tag = "flush" THEN [status |-> "ok", offset |-> o + 1]
                ELSE IF tag \notin {"line1", "line2"}
                THEN [status |-> "invalid", offset |-> 0]
                ELSE IF o + 1 + PayloadOf(tag) > Len(bytes)
                THEN [status |-> "incomplete", offset |-> 0]
                ELSE from[o + 1 + PayloadOf(tag)]
  IN from[0]

\* The stream delivers its next chunk: between one and MaxChunk units.
Chunks == {First(wire, k) : k \in 1..Smaller(MaxChunk, Len(wire))}

\* Without a bounded length a stock request is answered at once.  beginReceive
\* grants the lease, or another receive holds it.
BeginReceive ==
  /\ pc = "begin"
  /\ IF req.way = "stock" /\ (req.length <= 0 \/ req.length > MaxStock)
     THEN lease' = lease /\ pc' = "end" /\ answer' = "failed"
     ELSE \/ lease' = "held" /\ pc' = "section" /\ UNCHANGED answer
          \/ lease' = lease /\ pc' = "end" /\ answer' = "busy"
  /\ UNCHANGED <<input, upload, stored, rest, gone, finalizing, missed, faults>>

\* prefixRemainder: what came with the section and belongs to the pack.
Remainder(bytes, offset) == After(bytes, offset)

\* The section is whole: the rest of the chunk becomes the head of the pack.
SectionRead ==
  /\ pc = "section"
  /\ LET parsed == ParsePktSection(buffered)
     IN /\ parsed.status = "ok"
        /\ queue' = Remainder(buffered, parsed.offset)
        /\ buffered' = First(buffered, parsed.offset)
  /\ pc' = "parsed"
  /\ UNCHANGED <<wire, upload, stored, lease, rest, gone, finalizing, answer,
                 missed, faults>>

\* More of the section is read.  A stream that ends or fails, and a buffer
\* over the limit, end the request.
SectionMore ==
  /\ pc = "section"
  /\ ParsePktSection(buffered).status = "incomplete"
  /\ \/ /\ Chunks # {} /\ ~gone
        /\ \E chunk \in Chunks :
             /\ wire' = After(wire, Len(chunk))
             /\ buffered' = buffered \o chunk
             /\ pc' = IF Len(buffered) + Len(chunk) > MaxSection THEN "refuse" ELSE pc
     \/ /\ Chunks = {} \/ gone
        /\ pc' = "refuse"
        /\ UNCHANGED <<wire, buffered>>
  /\ UNCHANGED <<queue, upload, stored, lease, rest, gone, finalizing, answer,
                 missed, faults>>

SectionInvalid ==
  /\ pc = "section"
  /\ ParsePktSection(buffered).status = "invalid"
  /\ pc' = "refuse"
  /\ UNCHANGED <<input, upload, stored, lease, rest, gone, finalizing, answer,
                 missed, faults>>

\* The command checks of handleStreamingReceivePackPOST refuse the request:
\* ref names, expected old oids, a preparation that cannot be promoted.
CommandsRefused ==
  /\ pc = "parsed" /\ req.way # "durable"
  /\ gone \/ req.verdict = "refused"
  /\ pc' = "refuse"
  /\ UNCHANGED <<input, upload, stored, lease, rest, gone, finalizing, answer,
                 missed, faults>>

\* What an ended request tells the client: nothing if it has disconnected.
Told(what) == answer' = IF gone THEN "silent" ELSE what

\* abortReceive before the pipeline has started, tried once.
Refuse ==
  /\ pc = "refuse"
  /\ \/ lease' = "released" /\ UNCHANGED <<missed, faults>>
     \/ lease' = lease /\ missed' = missed \cup {"lease"} /\ Fault
  /\ Told("failed")
  /\ pc' = "end"
  /\ UNCHANGED <<input, upload, stored, rest, gone, finalizing>>

------------------------------------------------------------------------------
(* Staging: the checks on the fly *)

\* getRemainingBodyLength, and the choice of stagePackToR2.
Consumed == Len(buffered)
Declared == req.length # Chunked /\ req.length >= Consumed
Way == IF req.way # "push" THEN req.way ELSE IF Declared THEN "known" ELSE "parts"

\* The length the PUT announces.
Expected == IF Way = "stock" THEN req.length ELSE req.length - Consumed

\* Lengths that are refused before anything is sent to R2.
LengthRefused ==
  IF Way = "stock" THEN req.length <= Consumed ELSE Expected <= 0

\* validatePackHeader
HeaderValid(prefix) == Len(prefix) < HeaderUnits \/ prefix = Header

\* updateTrailerWindow: the units that may still be the trailer ...
Window(tail, chunk) ==
  LET all == tail \o chunk IN After(all, Len(all) - Smaller(Len(all), TrailerUnits))

\* ... the ones before them go to the digest.
Passed(tail, chunk) ==
  First(tail \o chunk, Len(tail) + Len(chunk) - Len(Window(tail, chunk)))

\* The state of the staging function after a chunk.
Observe(chunk) ==
  [up EXCEPT !.total = @ + Len(chunk),
             !.header = First(@ \o chunk, Smaller(HeaderUnits, Len(@) + Len(chunk))),
             !.tail = Window(@, chunk),
             !.digest = @ \o Passed(up.tail, chunk)]

\* totalBytes and the trailer after the last chunk.
Complete ==
  /\ up.total >= HeaderUnits + TrailerUnits
  /\ up.tail = Trailer(up.digest)

\* The next chunk of packStream: what came with the section first.
NextChunks == IF queue # <<>> THEN {queue} ELSE Chunks
Consume(chunk) ==
  IF queue # <<>> THEN queue' = <<>> /\ UNCHANGED wire
  ELSE wire' = After(wire, Len(chunk)) /\ UNCHANGED queue

Put == puts[attempt]
SetPut(p) == puts' = [puts EXCEPT ![attempt] = p]

------------------------------------------------------------------------------
(* Staging with one PUT *)

\* The PUT starts on the empty stream; a stock request writes its section.
StartPut ==
  /\ pc = "parsed" /\ Way \in {"known", "stock", "durable"}
  /\ ~gone /\ req.verdict \notin {"refused", "deletes"}
  /\ IF LengthRefused
     THEN pc' = "thrown" /\ UNCHANGED <<up, puts>>
     ELSE /\ pc' = "staging"
          /\ up' = [NoUpload EXCEPT !.expected = Expected]
          /\ SetPut([state |-> "open", expected |-> Expected,
                     sent |-> IF Way = "stock" THEN buffered ELSE <<>>])
  /\ UNCHANGED <<input, mpu, stored, lease, rest, gone, finalizing, answer,
                 missed, faults>>

\* What a chunk releases to the PUT: a durable owner withholds the window.
Released(tail, chunk) == IF Way = "durable" THEN Passed(tail, chunk) ELSE chunk

\* A chunk is observed and written.  A stream that fails, a wrong header, too
\* many units and a PUT that has failed end the loop.
PutChunk ==
  /\ pc = "staging"
  /\ \/ \E chunk \in NextChunks :
          LET next == Observe(chunk)
              out == Released(up.tail, chunk)
              fits == Len(Put.sent) + Len(out) <= Put.expected
          IN /\ queue # <<>> \/ ~gone
             /\ Consume(chunk)
             /\ up' = next
             /\ IF HeaderValid(next.header) /\ fits /\ Put.state = "open"
                THEN SetPut([Put EXCEPT !.sent = @ \o out]) /\ UNCHANGED pc
                ELSE pc' = "failing" /\ UNCHANGED puts
     \/ /\ queue = <<>> /\ gone
        /\ pc' = "failing"
        /\ UNCHANGED <<queue, wire, up, puts>>
  /\ UNCHANGED <<buffered, mpu, stored, lease, rest, gone, finalizing, answer,
                 missed, faults>>

\* The stream has ended: length and trailer are checked.
PutChecked ==
  /\ pc = "staging" /\ NextChunks = {} /\ ~gone
  /\ LET size == up.total + IF Way = "stock" THEN Consumed ELSE 0
     IN pc' = IF size # up.expected \/ ~Complete THEN "failing"
              ELSE IF Way = "durable" THEN "identify" ELSE "closing"
  /\ UNCHANGED <<input, upload, stored, lease, rest, gone, finalizing, answer,
                 missed, faults>>

\* beforeComplete: recordGcProgress stores the identity, once; then the
\* trailer is released.  The call may fail although it was recorded.
Identify ==
  /\ pc = "identify"
  /\ LET identity == up.digest \o up.tail
     IN \/ /\ intent \in {Missing, identity} /\ Put.state = "open"
           /\ intent' = identity
           /\ SetPut([Put EXCEPT !.sent = @ \o up.tail])
           /\ pc' = "closing"
           /\ UNCHANGED faults
        \/ /\ intent \in {Missing, identity}
           /\ intent' = identity
           /\ pc' = "failing"
           /\ Fault
           /\ UNCHANGED puts
        \/ /\ intent \notin {Missing, identity} \/ Put.state # "open"
           /\ intent' = IF intent = Missing THEN identity ELSE intent
           /\ pc' = "failing"
           /\ UNCHANGED <<puts, faults>>
  /\ UNCHANGED <<req, attempt, input, up, mpu, stored, lease, gone, finalizing,
                 answer, missed>>

\* The writer is closed and the PUT awaited.  A durable PUT that finds the key
\* taken answers null, which is not looked at.
AwaitPut ==
  /\ pc = "closing" /\ Put.state # "open"
  /\ IF Put.state = "done"
     THEN pc' = "staged" /\ up' = [up EXCEPT !.staged = TRUE]
     ELSE pc' = "failing" /\ UNCHANGED up
  /\ UNCHANGED <<input, puts, mpu, stored, lease, rest, gone, finalizing, answer,
                 missed, faults>>

\* R2 has every announced unit: the object appears at once, unless the durable
\* PUT's onlyIf finds one.  The answer may be lost.
PutCompletes(n) ==
  /\ puts[n].state = "open" /\ Len(puts[n].sent) = puts[n].expected
  /\ pack' = IF Way = "durable" /\ pack # Missing THEN pack ELSE puts[n].sent
  /\ \/ puts' = [puts EXCEPT ![n].state = "done"] /\ UNCHANGED faults
     \/ puts' = [puts EXCEPT ![n].state = "failed"] /\ Fault
  /\ UNCHANGED <<pc, input, up, mpu, side, lease, rest, gone, finalizing,
                 answer, missed>>

\* The PUT fails without having stored anything.
PutFails(n) ==
  /\ puts[n].state = "open"
  /\ puts' = [puts EXCEPT ![n].state = "failed"]
  /\ Fault
  /\ UNCHANGED <<pc, input, up, mpu, stored, lease, rest, gone, finalizing,
                 answer, missed>>

\* Mutant of Aborted: the writer is left as it is.
AbortedNever(p) == p

\* writer.abort: a PUT that has not got its units fails; one that has them may
\* still complete.
Aborted(p) ==
  IF p.state = "open" /\ Len(p.sent) < p.expected THEN [p EXCEPT !.state = "failed"] ELSE p

\* Mutant of Settled: the key is deleted beside the PUT.
SettledAtOnce == TRUE

\* putPromise is settled.
Settled == Put.state # "open"

StagingFails ==
  /\ pc = "failing" /\ mpu.state = "none"
  /\ SetPut(Aborted(Put))
  /\ pc' = "settle"
  /\ UNCHANGED <<input, up, mpu, stored, lease, rest, gone, finalizing, answer,
                 missed, faults>>

\* A durable owner keeps what is stored: its operation cleans up.
Settle ==
  /\ pc = "settle" /\ Settled
  /\ pc' = IF Way = "durable" THEN "thrown" ELSE "delete"
  /\ UNCHANGED <<input, upload, stored, lease, rest, gone, finalizing, answer,
                 missed, faults>>

DeleteStaged ==
  /\ pc = "delete"
  /\ \/ pack' = Missing /\ UNCHANGED <<missed, faults>>
     \/ missed' = missed \cup {"pack"} /\ Fault /\ UNCHANGED pack
  /\ pc' = "thrown"
  /\ UNCHANGED <<input, upload, side, lease, rest, gone, finalizing, answer>>

------------------------------------------------------------------------------
(* Staging with a multipart upload *)

CreateMultipart ==
  /\ pc = "parsed" /\ Way = "parts"
  /\ ~gone /\ req.verdict \notin {"refused", "deletes"}
  /\ up' = NoUpload
  /\ \/ mpu' = [NoMultipart EXCEPT !.state = "open"] /\ pc' = "parting"
        /\ UNCHANGED <<missed, faults>>
     \/ \* the answer is lost: nobody knows the upload's id
        /\ mpu' = [NoMultipart EXCEPT !.state = "open"] /\ pc' = "thrown"
        /\ missed' = missed \cup {"multipart"} /\ Fault
  /\ UNCHANGED <<input, puts, stored, lease, rest, gone, finalizing, answer>>

\* The chunk is observed and buffered.
PartChunk ==
  /\ pc = "parting" /\ Len(up.buffered) < PartUnits
  /\ \/ \E chunk \in NextChunks :
          LET next == Observe(chunk)
          IN /\ queue # <<>> \/ ~gone
             /\ Consume(chunk)
             /\ up' = [next EXCEPT !.buffered = @ \o chunk]
             /\ pc' = IF HeaderValid(next.header) THEN pc ELSE "failing"
     \/ /\ queue = <<>> /\ gone
        /\ pc' = "failing"
        /\ UNCHANGED <<queue, wire, up>>
  /\ UNCHANGED <<buffered, puts, mpu, stored, lease, rest, gone, finalizing,
                 answer, missed, faults>>

\* Mutant of Kept: the part takes a unit that it does not hold.
KeptBeyond(bytes) == After(bytes, PartUnits + 1)

\* What stays buffered after a part was cut off.
Kept(bytes) == After(bytes, PartUnits)

\* uploadMultipartPart, for every full part.
UploadPart ==
  /\ pc = "parting" /\ Len(up.buffered) >= PartUnits
  /\ \/ /\ mpu' = [mpu EXCEPT !.parts = Append(@, First(up.buffered, PartUnits))]
        /\ up' = [up EXCEPT !.buffered = Kept(@)]
        /\ UNCHANGED <<pc, faults>>
     \/ pc' = "failing" /\ Fault /\ UNCHANGED <<up, mpu>>
  /\ UNCHANGED <<input, puts, stored, lease, rest, gone, finalizing, answer, missed>>

\* The stream has ended: the rest, which may be empty, is the last part.
LastPart ==
  /\ pc = "parting" /\ Len(up.buffered) < PartUnits
  /\ NextChunks = {} /\ ~gone
  /\ \/ /\ up.total >= HeaderUnits + TrailerUnits
        /\ mpu' = [mpu EXCEPT !.parts = Append(@, up.buffered)]
        /\ pc' = IF Complete THEN "lastPart" ELSE "failing"
        /\ UNCHANGED faults
     \/ /\ up.total < HeaderUnits + TrailerUnits
        /\ pc' = "failing"
        /\ UNCHANGED <<mpu, faults>>
     \/ pc' = "failing" /\ Fault /\ UNCHANGED mpu
  /\ UNCHANGED <<input, up, puts, stored, lease, rest, gone, finalizing, answer, missed>>

\* R2 joins the parts; all but the last have the same size.
Joined(parts) ==
  LET upTo[n \in 0..Len(parts)] == IF n = 0 THEN <<>> ELSE upTo[n - 1] \o parts[n]
  IN upTo[Len(parts)]
Joinable(parts) == \A i \in 1..Len(parts) - 1 : Len(parts[i]) = PartUnits

\* upload.complete: its answer may be lost although the object is there.
CompleteMultipart ==
  /\ pc = "lastPart" /\ Joinable(mpu.parts)
  /\ \/ /\ pack' = Joined(mpu.parts)
        /\ mpu' = [mpu EXCEPT !.state = "completed"]
        /\ \/ pc' = "staged" /\ up' = [up EXCEPT !.staged = TRUE] /\ UNCHANGED faults
           \/ pc' = "failing" /\ Fault /\ UNCHANGED up
     \/ pc' = "failing" /\ Fault /\ UNCHANGED <<pack, mpu, up>>
  /\ UNCHANGED <<input, puts, side, lease, rest, gone, finalizing, answer, missed>>

\* upload.abort: it has nothing to abort if the upload was completed.
AbortMultipart ==
  /\ pc = "failing" /\ mpu.state # "none"
  /\ \/ /\ mpu' = IF mpu.state = "open" THEN [mpu EXCEPT !.state = "aborted"] ELSE mpu
        /\ UNCHANGED <<missed, faults>>
     \/ /\ mpu.state = "open"
        /\ missed' = missed \cup {"multipart"} /\ Fault /\ UNCHANGED mpu
  /\ pc' = "delete"
  /\ UNCHANGED <<input, up, puts, stored, lease, rest, gone, finalizing, answer>>

------------------------------------------------------------------------------
(* The pipeline around the staging *)

\* What the cleanup deletes: the artifacts of stagedUpload, which is set only
\* when the upload returned; the native pipeline always deletes its input key.
Cleaned == IF Way = "stock" THEN {"pack"} ELSE IF up.staged THEN Artifacts ELSE {}

\* A push that only deletes refs sends no pack.
DeletesOnly ==
  /\ pc = "parsed" /\ req.way # "durable"
  /\ ~gone /\ req.verdict = "deletes"
  /\ pc' = "checked"
  /\ UNCHANGED <<input, upload, stored, lease, rest, gone, finalizing, answer,
                 missed, faults>>

\* Staged: stock and durable inputs go to their operations.  The durable one
\* looks at the object first, by its size.
HandOver ==
  /\ pc = "staged" /\ Way \in {"stock", "durable"}
  /\ answer' = IF Way = "stock" \/ (pack # Missing /\ Len(pack) = Len(intent))
               THEN "staged" ELSE "failed"
  /\ pc' = "end"
  /\ UNCHANGED <<input, upload, stored, lease, rest, gone, finalizing, missed, faults>>

\* The pack is indexed: .idx and .refs are stored, one after the other; the
\* indexer may throw and a client that left ends the push.
Index ==
  /\ pc = "staged" /\ Way \in {"known", "parts"}
  /\ \/ /\ ~gone
        /\ \E x \in {"idx", "refs"} \ side : side' = side \cup {x}
        /\ UNCHANGED <<pc, faults>>
     \/ ~gone /\ side = {"idx", "refs"} /\ pc' = "indexed" /\ UNCHANGED <<side, faults>>
     \/ gone /\ pc' = "abort" /\ UNCHANGED <<side, faults>>
     \/ ~gone /\ pc' = "abort" /\ Fault /\ UNCHANGED side
  /\ UNCHANGED <<input, upload, pack, lease, rest, gone, finalizing, answer, missed>>

\* runPackConnectivityCheck
Connectivity ==
  /\ pc = "indexed"
  /\ pc' = IF gone \/ req.verdict = "disconnected" THEN "abort" ELSE "checked"
  /\ UNCHANGED <<input, upload, stored, lease, rest, gone, finalizing, answer,
                 missed, faults>>

\* The outcomes that prove that the pack was not and will not be committed.
Removes(status) == status \in {"ref_conflict", "aborted"}

\* finalizeReceive, and reconcileReceive when its answer is lost.  A commit may
\* have happened, or happen in the replay, behind an unknown outcome and behind
\* a lease that is gone.  RepoReceive has the detail.
Finalize ==
  /\ pc = "checked"
  /\ \/ gone /\ pc' = "abort" /\ UNCHANGED <<lease, finalizing, answer, missed, faults>>
     \/ /\ ~gone /\ finalizing' = TRUE
        /\ \E status \in {"ok", "ref_conflict", "committed", "aborted", "unknown",
                         "lease_mismatch"} :
             /\ IF status \in {"ok", "ref_conflict"} THEN UNCHANGED faults ELSE Fault
             /\ lease' \in CASE status \in {"ok", "committed"} -> {"landed"}
                            [] status \in {"ref_conflict", "aborted"} -> {"released"}
                            [] OTHER -> {"held", "released", "landed"}
             /\ status = "ref_conflict" => req.verdict = "conflict"
             /\ lease' = "landed" => req.verdict # "conflict"
             /\ pc' = IF status \in {"ok", "committed"} THEN "end"
                      ELSE IF status = "ref_conflict" THEN "cleanOnce"
                      ELSE IF Removes(status) THEN "clean" ELSE "error"
             /\ IF status \in {"ok", "committed"} THEN Told("ok") ELSE UNCHANGED answer
             /\ missed' = IF status \in {"unknown", "lease_mismatch"}
                          THEN missed \cup Artifacts \cup {"lease"} ELSE missed
  /\ UNCHANGED <<input, upload, stored, rest, gone>>

\* The catch blocks of executeReceivePipeline and executeNativeReceivePipeline:
\* an error after the finalization began is only reported.
Caught ==
  /\ pc \in {"thrown", "error"} /\ Way # "durable"
  /\ \/ ~finalizing /\ pc' = "abort" /\ UNCHANGED answer
     \/ finalizing /\ pc' = "end" /\ Told("failed")
  /\ UNCHANGED <<input, upload, stored, lease, rest, gone, finalizing, missed, faults>>

\* cleanupFailedReceive: abortReceive, and once more in the background if it
\* fails; the native pipeline tries once.  What is stored is deleted only after
\* the object confirmed the abort.
AbortReceive ==
  /\ pc \in {"abort", "retryAbort"}
  /\ \/ /\ lease' = "released"
        /\ pc' = IF pc = "retryAbort" THEN "retryClean"
                 ELSE IF Way = "stock" THEN "cleanOnce" ELSE "clean"
        /\ UNCHANGED <<missed, answer, faults>>
     \/ /\ pc = "abort" /\ Way # "stock"
        /\ pc' = "retryAbort" /\ Fault
        /\ UNCHANGED <<lease, missed, answer>>
     \/ /\ pc = "retryAbort" \/ Way = "stock"
        /\ pc' = "end" /\ Fault
        /\ missed' = missed \cup Artifacts \cup {"lease"}
        /\ Told("failed")
        /\ UNCHANGED lease
  /\ UNCHANGED <<input, upload, stored, rest, gone, finalizing>>

\* deleteStagedPackArtifacts deletes one artifact after the other; a failed
\* deletion does not keep it from the next, and is tried again except after a
\* ref conflict and by the native pipeline.
CleanupStagedPack ==
  /\ pc \in {"clean", "cleanOnce", "retryClean"}
  /\ \E left \in {{}} \cup (IF faults > 0 THEN {{a} : a \in Cleaned} ELSE {}) :
       /\ pack' = IF "pack" \in Cleaned \ left THEN Missing ELSE pack
       /\ side' = side \ (Cleaned \ left)
       /\ faults' = IF left = {} THEN faults ELSE faults - 1
       /\ \/ /\ left # {} /\ pc = "clean"
             /\ pc' = "retryClean" /\ UNCHANGED <<missed, answer>>
          \/ /\ left = {} \/ pc # "clean"
             /\ missed' = missed \cup left
             /\ pc' = "end"
             /\ Told("failed")
  /\ UNCHANGED <<input, upload, lease, rest, gone, finalizing>>

------------------------------------------------------------------------------
(* The environment *)

\* The client disconnects: request.signal is aborted and the stream fails.
Disconnect ==
  /\ req.aborts /\ ~gone /\ req.way # "durable"
  /\ pc \notin {"end", "dead"}
  /\ gone' = TRUE
  /\ UNCHANGED <<pc, input, upload, stored, lease, rest, finalizing, answer,
                 missed, faults>>

\* The Worker is killed: a PUT that lacks units fails, one that has them may
\* still complete.
WorkerDies ==
  /\ pc \notin {"end", "dead"}
  /\ Fault
  /\ pc' = "dead"
  /\ puts' = [puts EXCEPT ![attempt] = Aborted(Put)]
  /\ UNCHANGED <<input, up, mpu, stored, lease, rest, gone, finalizing, answer, missed>>

\* The durable operation is claimed again, after an error or a dead Worker.  An
\* object that is there is taken if it has the recorded identity; the rewrite
\* that is done otherwise may give other units.
TryAgain ==
  /\ req.way = "durable" /\ attempt = 1
  /\ pc \in {"thrown", "dead"}
  /\ attempt' = 2
  /\ pc' = IF pack = Missing THEN "parsed" ELSE IF pack = intent THEN "staged" ELSE "thrown"
  /\ wire' = req.again /\ queue' = <<>>
  /\ UNCHANGED <<req, buffered, upload, stored, lease, intent, gone, finalizing,
                 answer, missed, faults>>

\* Bound: a durable operation is claimed twice here.
Stops ==
  /\ req.way = "durable" /\ attempt = 2 /\ pc = "thrown"
  /\ pc' = "end"
  /\ UNCHANGED <<input, upload, stored, lease, rest, gone, finalizing, answer,
                 missed, faults>>

Step ==
  \/ BeginReceive \/ SectionRead \/ SectionMore \/ SectionInvalid
  \/ CommandsRefused \/ Refuse
  \/ StartPut \/ PutChunk \/ PutChecked \/ Identify \/ AwaitPut
  \/ StagingFails \/ Settle \/ DeleteStaged
  \/ CreateMultipart \/ PartChunk \/ UploadPart \/ LastPart
  \/ CompleteMultipart \/ AbortMultipart
  \/ DeletesOnly \/ HandOver \/ Index \/ Connectivity \/ Finalize
  \/ Caught \/ AbortReceive \/ CleanupStagedPack \/ TryAgain \/ Stops

Next ==
  \/ Step
  \/ \E n \in 1..2 : PutCompletes(n) \/ PutFails(n)
  \/ Disconnect \/ WorkerDies

Spec == Init /\ [][Next]_vars

\* A Worker goes on unless it is killed, streams deliver or fail, and R2
\* answers a PUT that has got all its units.
LiveSpec ==
  Spec /\ WF_vars(Step) /\ \A n \in 1..2 : WF_vars(PutCompletes(n))

------------------------------------------------------------------------------
(* Properties *)

\* What a staging function returned is what the client sent: the stored
\* object is the pack (or the whole stock request), unit for unit, whatever
\* chunks it came in, and ends in its own checksum.
StagedWhole ==
  pc \in {"staged", "indexed"} /\ Way # "durable" =>
    /\ pack = (IF Way = "stock" THEN req.section ELSE <<>>) \o req.pack
    /\ \E n \in 0..Len(req.pack) : req.pack = PackOf(First(req.pack, n))

\* A pack that was published keeps its object and its sidecars: neither an
\* error nor a client that leaves makes this request delete them.
ServedKept ==
  lease = "landed" /\ req.verdict # "deletes" =>
    pack = req.pack /\ side = {"idx", "refs"}

\* A request that ended without landing leaves nothing: no object, no sidecar,
\* no open multipart upload, no lease and no PUT that could still store
\* something, except where the cleanup call itself failed.
NothingLeft ==
  pc = "end" /\ answer \notin {"ok", "staged"} /\ req.way # "durable" =>
    /\ pack # Missing => "pack" \in missed
    /\ side \subseteq missed
    /\ mpu.state = "open" => "multipart" \in missed
    /\ lease = "held" => "lease" \in missed
    /\ \A n \in 1..2 : puts[n].state # "open"

\* The durable input appears only after its identity was recorded, and it is
\* the pack of that identity, whichever attempt wrote it and wherever a
\* Worker died.
OwnedBeforeVisible ==
  req.way = "durable" /\ pack # Missing => pack = intent

\* What the staging accepts, said of the whole body at once.
SectionGood ==
  /\ ParsePktSection(req.section) = [status |-> "ok", offset |-> Len(req.section)]
  /\ Len(req.section) <= MaxSection
PackGood ==
  /\ \E n \in HeaderUnits..Len(req.pack) : req.pack = PackOf(First(req.pack, n))
  /\ First(req.pack, HeaderUnits) = Header
LengthGood ==
  IF req.length = Chunked THEN req.way = "push"
  ELSE /\ req.length = Len(req.section) + Len(req.pack)
       /\ req.way = "stock" => req.length <= MaxStock
Acceptable ==
  /\ req.way # "durable" => SectionGood
  /\ req.verdict = "deletes" \/ (PackGood /\ LengthGood)
  /\ req.verdict \in {"ok", "deletes"}

\* The verdict depends on the bytes and never on how the network cut them:
\* without faults the incremental checks accept exactly the requests that are
\* good as a whole.  (A chunk may carry the section's buffer over its limit
\* although the section is within it; such sections are left out.)
VerdictExact ==
  pc = "end" /\ faults = req.faults /\ ~gone /\ answer # "busy" =>
    /\ answer \in {"ok", "staged"} => Acceptable
    /\ Acceptable /\ Len(req.section) + MaxChunk <= MaxSection + 1 =>
         answer \in {"ok", "staged"}

\* Every request ends, unless its Worker is killed.
Ends == <>(pc \in {"end", "dead"})

\* A request is accepted exactly if it is good, and then stored as it is.
StagedExactly ==
  /\ TypeOK
  /\ StagedWhole
  /\ VerdictExact

\* Every object in the bucket has an owner: the push that landed, the intent
\* that was recorded before, or a cleanup that is known to have failed.
ArtifactsOwned ==
  /\ ServedKept
  /\ NothingLeft
  /\ OwnedBeforeVisible
=============================================================================
