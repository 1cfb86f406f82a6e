--------------------------- MODULE BackupSession ---------------------------
(***************************************************************************)
(* One backup run: run_source and run_destination (rb-core/src/session.rs) *)
(* over one substream, with the framing of rb-core/src/channel.rs and      *)
(* rb-core/src/wire.rs.                                                    *)
(*                                                                         *)
(* The substream from source to destination is an append-only log of whole *)
(* frames, sent, and the number rd of frames the destination has read. A   *)
(* ChunkStart frame stands for its header and the raw bytes after it. When *)
(* the stream comes down, arrives says how many frames of the log still    *)
(* reach the destination and cut what the read after them meets.           *)
(***************************************************************************)
EXTENDS Integers, Sequences

CONSTANTS
    Payloads,     \* the call sequences stream_out may make on its ChunkSink
    ChunkSize,    \* wire::CHUNK_SIZE
    Window,       \* frames the transport buffers before a write blocks
    MaxVersion,   \* bound: backend contents are numbered 0..MaxVersion
    Reverts,      \* may an edit bring back an earlier content?
    Faults        \* the fault kinds the environment may produce

FaultKinds == {"break", "crash", "corrupt", "module", "stall", "reject", "exit_loss"}

\* A call on the ChunkSink: send_chunk(item, offset arg, len bytes of data) or
\* finish_item(item, total arg).
Call == [op : {"send_chunk"}, item : Nat, arg : Nat, len : Nat]
        \cup [op : {"finish_item"}, item : Nat, arg : Nat, len : {0}]

ASSUME PayloadsAssumption   == Payloads \subseteq Seq(Call)
ASSUME ChunkSizeAssumption  == ChunkSize \in Nat \ {0}
ASSUME WindowAssumption     == Window \in Nat \ {0}
ASSUME MaxVersionAssumption == MaxVersion \in Nat
ASSUME RevertsAssumption    == Reverts \in BOOLEAN
ASSUME FaultsAssumption     == Faults \subseteq FaultKinds

VARIABLES
    calls,      \* what this run's stream_out does with its sink
    version,    \* the content the source backend holds
    srcPc,      \* where run_source stands
    srcRes,     \* what run_source returned
    fpBefore,   \* run_source's fp_before
    plan,       \* the content the plan describes
    pos,        \* ChunkSink calls stream_out has completed
    srcBytes,   \* the source's progress.bytes()
    audited,    \* has run_source taken its second fingerprint?
    dstPc,      \* where run_destination stands
    dstRes,     \* what run_destination returned
    preflight,  \* preflight.ok
    decision,   \* the answer to the plan: "none", "accepted" or "rejected"
    applied,    \* data frames stream_in has applied to the destination backend
    dstBytes,   \* the destination's progress.bytes()
    doneTotal,  \* total_bytes of the Done frame, -1 while none has been read
    opened,     \* has the destination opened the substream?
    link,       \* "up", or "down" for good
    sent,       \* log of the frames the source has written
    rd,         \* frames of the log the destination has read
    arrives,    \* frames of the log that arrive once the link is down
    cut,        \* what the read after them meets: "eof" or "error"
    ack         \* the PlanAck on its way to the source

backend == <<calls, version>>
srcData == <<fpBefore, plan, pos, srcBytes, audited>>
source  == <<srcPc, srcRes, srcData>>
dstData == <<preflight, decision, applied, dstBytes, doneTotal>>
destination == <<dstPc, dstRes, dstData>>
fate    == <<link, arrives, cut>>
stream  == <<opened, fate, sent, rd, ack>>
vars    == <<backend, source, destination, stream>>

SrcPcs == {"fingerprint", "analyze", "accept_stream", "send_plan", "recv_ack",
           "stream_out", "done", "audit", "ended"}
DstPcs == {"open_stream", "recv_plan", "validate", "accept", "send_ack",
           "stream_in", "recv_done", "ended"}
SrcResults == {"none", "ok", "PlanRejected", "SourceMutated", "error", "crash"}
DstResults == {"none", "ok", "Preflight", "PlanRejected", "Integrity", "error", "crash"}

Frame == [kind   : {"Plan", "ChunkStart", "ItemEnd", "StreamEnd", "Done"},
          item   : Nat,       \* item_id
          arg    : Nat,       \* offset, total or total_bytes
          len    : Nat,       \* raw bytes that follow
          ver    : Nat,       \* the backend content the frame was made from
          intact : BOOLEAN]   \* do the raw bytes still match the blake3 field?

ControlFrame(k, a, v) ==
    [kind |-> k, item |-> 0, arg |-> a, len |-> 0, ver |-> v, intact |-> TRUE]

\* The frame a ChunkSink call writes: ChunkStart with its bytes, or ItemEnd.
DataFrame(c, v) ==
    [kind   |-> IF c.op = "send_chunk" THEN "ChunkStart" ELSE "ItemEnd",
     item   |-> c.item,
     arg    |-> c.arg,
     len    |-> c.len,
     ver    |-> v,
     intact |-> TRUE]

----------------------------------------------------------------------------
(* The substream.                                                          *)

\* send_frame and write_all_idle can complete while the flow-control window
\* has room. On a link that is down the bytes go nowhere, which the writer
\* need not notice.
WriteRoom == Len(sent) - rd < Window

\* write_all_idle fails when the window stays full for the whole
\* IO_IDLE_TIMEOUT.
WriteStalls == "stall" \in Faults /\ ~WriteRoom

\* recv_frame at the destination: a frame, None on EOF, or an error.
FrameHere == rd < (IF link = "down" THEN arrives ELSE Len(sent))
AtEof     == link = "down" /\ rd >= arrives /\ cut = "eof"
AtError   == link = "down" /\ rd >= arrives /\ cut = "error"

\* read_exact_idle fails when a frame that has begun to arrive stays incomplete
\* for the whole IO_IDLE_TIMEOUT: its writer is still inside send_frame.
ReadStalls ==
    /\ "stall" \in Faults
    /\ link = "up" /\ ~FrameHere
    /\ srcPc \in {"send_plan", "stream_out", "done"}

\* The stream comes down. When lossy, what was handed to the transport may be
\* lost from some frame on, and that frame may be left half written.
TakeDown(lossy) ==
    /\ link' = "down"
    /\ IF link = "down"
         THEN UNCHANGED <<arrives, cut>>
         ELSE /\ arrives' \in (IF lossy THEN rd .. Len(sent) ELSE {Len(sent)})
              /\ cut' \in (IF lossy THEN {"eof", "error"} ELSE {"eof"})

----------------------------------------------------------------------------
(* run_source                                                              *)

\* One of run_source's steps succeeds and the next one is pc.
SrcGoto(pc) == srcPc' = pc /\ UNCHANGED srcRes

\* run_source returns: the stream is dropped and the process exits, which
\* only "exit_loss" turns into a loss when the result is Ok.
SrcReturn(res) ==
    /\ srcPc' = "ended"
    /\ srcRes' = res
    /\ TakeDown(res # "ok" \/ "exit_loss" \in Faults)

\* 1. The immutability baseline.
SrcFingerprint ==
    /\ srcPc = "fingerprint"
    /\ fpBefore' = version
    /\ SrcGoto("analyze")
    /\ UNCHANGED <<backend, plan, pos, srcBytes, audited, destination, stream>>

\* 2. The plan describes what the backend holds at this moment.
SrcAnalyze ==
    /\ srcPc = "analyze"
    /\ plan' = version
    /\ SrcGoto("accept_stream")
    /\ UNCHANGED <<backend, fpBefore, pos, srcBytes, audited, destination, stream>>

\* 3. Waits, with no timeout, until a destination opens the substream.
SrcAcceptStream ==
    /\ srcPc = "accept_stream"
    /\ opened
    /\ SrcGoto("send_plan")
    /\ UNCHANGED <<backend, srcData, destination, stream>>

\* A frame of run_source goes out and the next step is pc.
SrcSend(f, pc) ==
    /\ WriteRoom
    /\ sent' = Append(sent, f)
    /\ SrcGoto(pc)
    /\ UNCHANGED <<backend, destination, opened, fate, rd, ack>>

SrcSendPlan ==
    /\ srcPc = "send_plan"
    /\ SrcSend(ControlFrame("Plan", 0, plan), "recv_ack")
    /\ UNCHANGED srcData

\* Mutation: any PlanAck is taken for a yes.
BugRecvAnyAck ==
    /\ srcPc = "recv_ack"
    /\ ack # "none"
    /\ SrcGoto("stream_out")
    /\ UNCHANGED <<backend, srcData, destination, stream>>

\* Waits, with no timeout, for the decision.
SrcRecvAck ==
    /\ srcPc = "recv_ack"
    /\ ack = "accepted"
    /\ SrcGoto("stream_out")
    /\ UNCHANGED <<backend, srcData, destination, stream>>

SrcRecvNack ==
    /\ srcPc = "recv_ack"
    /\ ack = "rejected"
    /\ SrcReturn("PlanRejected")
    /\ UNCHANGED <<backend, srcData, destination, opened, sent, rd, ack>>

\* 4. stream_out: the next call on the sink reads the backend as it is now.
SrcStreamOut ==
    /\ srcPc = "stream_out"
    /\ pos < Len(calls)
    /\ LET c == calls[pos + 1] IN
         /\ c.op = "send_chunk" => c.len <= ChunkSize
         /\ SrcSend(DataFrame(c, version), "stream_out")
         /\ srcBytes' = srcBytes + c.len
    /\ pos' = pos + 1
    /\ UNCHANGED <<fpBefore, plan, audited>>

\* send_chunk refuses more than CHUNK_SIZE bytes; nothing is written.
SrcChunkTooLarge ==
    /\ srcPc = "stream_out"
    /\ pos < Len(calls)
    /\ calls[pos + 1].op = "send_chunk" /\ calls[pos + 1].len > ChunkSize
    /\ SrcReturn("error")
    /\ UNCHANGED <<backend, srcData, destination, opened, sent, rd, ack>>

\* Mutation: an error of stream_out is swallowed and the data ended early.
BugFinishEarly ==
    /\ srcPc = "stream_out"
    /\ SrcSend(ControlFrame("StreamEnd", 0, fpBefore), "done")
    /\ UNCHANGED srcData

\* Mutation: the sink is dropped without finish().
BugNoFinish ==
    /\ srcPc = "stream_out"
    /\ pos = Len(calls)
    /\ SrcGoto("done")
    /\ UNCHANGED <<backend, srcData, destination, stream>>

\* stream_out has returned; sink.finish() ends the data.
SrcFinish ==
    /\ srcPc = "stream_out"
    /\ pos = Len(calls)
    /\ SrcSend(ControlFrame("StreamEnd", 0, fpBefore), "done")
    /\ UNCHANGED srcData

\* Mutation: the total is what the plan announced, one byte off.
BugDoneTotal ==
    /\ srcPc = "done"
    /\ SrcSend(ControlFrame("Done", srcBytes + 1, fpBefore), "audit")
    /\ UNCHANGED srcData

\* 5. The completion frame.
SrcSendDone ==
    /\ srcPc = "done"
    /\ SrcSend(ControlFrame("Done", srcBytes, fpBefore), "audit")
    /\ UNCHANGED srcData

\* Mutation: the second fingerprint is the one analyze() left in a cache.
BugAuditCached ==
    /\ srcPc = "audit"
    /\ audited' = TRUE
    /\ SrcReturn(IF plan = fpBefore THEN "ok" ELSE "SourceMutated")
    /\ UNCHANGED <<backend, fpBefore, plan, pos, srcBytes, destination,
                   opened, sent, rd, ack>>

\* 6. The second fingerprint and the comparison with the first.
SrcAudit ==
    /\ srcPc = "audit"
    /\ audited' = TRUE
    /\ SrcReturn(IF version = fpBefore THEN "ok" ELSE "SourceMutated")
    /\ UNCHANGED <<backend, fpBefore, plan, pos, srcBytes, destination,
                   opened, sent, rd, ack>>

\* A `?` of run_source that meets the end of the stream: nothing after it runs.
SrcFail ==
    /\ link = "down"
    /\ \/ srcPc \in {"accept_stream", "send_plan", "stream_out", "done"}
       \/ srcPc = "recv_ack" /\ ack = "none"
    /\ SrcReturn("error")
    /\ UNCHANGED <<backend, srcData, destination, opened, sent, rd, ack>>

\* A `?` of run_source that meets a failing module call or a timeout.
SrcFault ==
    /\ \/ srcPc \in {"fingerprint", "analyze", "stream_out", "audit"} /\ "module" \in Faults
       \/ srcPc \in {"send_plan", "stream_out", "done"} /\ WriteStalls
    /\ SrcReturn("error")
    /\ UNCHANGED <<backend, srcData, destination, opened, sent, rd, ack>>

SrcStep ==
    \/ SrcFingerprint \/ SrcAnalyze \/ SrcAcceptStream \/ SrcSendPlan
    \/ SrcRecvAck \/ SrcRecvNack \/ SrcStreamOut \/ SrcChunkTooLarge
    \/ SrcFinish \/ SrcSendDone \/ SrcAudit \/ SrcFail

----------------------------------------------------------------------------
(* run_destination                                                         *)

DstGoto(pc) == dstPc' = pc /\ UNCHANGED dstRes

\* run_destination returns and drops the stream, if it has one. Nobody reads
\* the frames still on their way; an answer a still lies with the transport,
\* and a process that exits may take it along.
DstReturn(res, a) ==
    /\ dstPc' = "ended"
    /\ dstRes' = res
    /\ link' = (IF opened THEN "down" ELSE link)
    /\ UNCHANGED <<arrives, cut>>
    /\ ack' \in {a} \cup (IF "exit_loss" \in Faults /\ link = "up" THEN {"none"} ELSE {})

\* 1. open_stream writes its marker and returns without an answer: when nobody
\* is at the other end, only the read that follows finds out.
DstOpenStream ==
    /\ dstPc = "open_stream"
    /\ opened' = (link = "up")
    /\ DstGoto("recv_plan")
    /\ UNCHANGED <<backend, source, dstData, fate, sent, rd, ack>>

DstRecvPlan ==
    /\ dstPc = "recv_plan"
    /\ FrameHere
    /\ rd' = rd + 1
    /\ DstGoto("validate")
    /\ UNCHANGED <<backend, source, dstData, opened, fate, sent, ack>>

\* 2. Preflight: the module's checks pass, or one of them does not.
DstValidate ==
    /\ dstPc = "validate"
    /\ preflight' \in (IF "reject" \in Faults THEN BOOLEAN ELSE {TRUE})
    /\ DstGoto("accept")
    /\ UNCHANGED <<backend, source, decision, applied, dstBytes, doneTotal, stream>>

\* 3. The accept policy is asked only when the preflight passed.
DstDecide ==
    /\ dstPc = "accept"
    /\ \/ preflight /\ decision' = "accepted"
       \/ preflight /\ "reject" \in Faults /\ decision' = "rejected"
       \/ ~preflight /\ decision' = "rejected"
    /\ DstGoto("send_ack")
    /\ UNCHANGED <<backend, source, preflight, applied, dstBytes, doneTotal, stream>>

DstSendAck ==
    /\ dstPc = "send_ack"
    /\ decision = "accepted"
    /\ ack' \in (IF link = "up" THEN {decision} ELSE {ack})
    /\ DstGoto("stream_in")
    /\ UNCHANGED <<backend, source, dstData, opened, fate, sent, rd>>

DstSendNack ==
    /\ dstPc = "send_ack"
    /\ decision = "rejected"
    /\ DstReturn(IF preflight THEN "PlanRejected" ELSE "Preflight",
                 IF link = "up" THEN decision ELSE ack)
    /\ UNCHANGED <<backend, source, dstData, opened, sent, rd>>

\* Mutation: the digest of a chunk is not checked.
BugApplyUnchecked ==
    /\ dstPc = "stream_in"
    /\ FrameHere
    /\ LET f == sent[rd + 1] IN
         /\ f.kind \in {"ChunkStart", "ItemEnd"}
         /\ applied' = Append(applied, f)
         /\ dstBytes' = dstBytes + f.len
    /\ rd' = rd + 1
    /\ DstGoto("stream_in")
    /\ UNCHANGED <<backend, source, preflight, decision, doneTotal, opened, fate, sent, ack>>

\* 4. stream_in pulls the next event from the ChunkSource and applies it.
DstApply ==
    /\ dstPc = "stream_in"
    /\ FrameHere
    /\ LET f == sent[rd + 1] IN
         /\ f.kind \in {"ChunkStart", "ItemEnd"}
         /\ f.intact
         /\ applied' = Append(applied, f)
         /\ dstBytes' = dstBytes + f.len
    /\ rd' = rd + 1
    /\ DstGoto("stream_in")
    /\ UNCHANGED <<backend, source, preflight, decision, doneTotal, opened, fate, sent, ack>>

\* The blake3 of the bytes read differs from the header's.
DstBadChunk ==
    /\ dstPc = "stream_in"
    /\ FrameHere
    /\ ~sent[rd + 1].intact
    /\ rd' = rd + 1
    /\ DstReturn("Integrity", ack)
    /\ UNCHANGED <<backend, source, dstData, opened, sent>>

\* Mutation: EOF is counted as one more frame read.
BugEndCountsEof ==
    /\ dstPc = "stream_in"
    /\ \/ FrameHere /\ sent[rd + 1].kind = "StreamEnd"
       \/ AtEof
    /\ rd' = rd + 1
    /\ DstGoto("recv_done")
    /\ UNCHANGED <<backend, source, dstData, opened, fate, sent, ack>>

\* Mutation: at EOF the read is tried again for ever.
BugEndIgnoresEof ==
    /\ dstPc = "stream_in"
    /\ FrameHere /\ sent[rd + 1].kind = "StreamEnd"
    /\ rd' = rd + 1
    /\ DstGoto("recv_done")
    /\ UNCHANGED <<backend, source, dstData, opened, fate, sent, ack>>

\* next() answers End: on StreamEnd, and on EOF where a frame should begin.
DstEnd ==
    /\ dstPc = "stream_in"
    /\ \/ FrameHere /\ sent[rd + 1].kind = "StreamEnd" /\ rd' = rd + 1
       \/ AtEof /\ UNCHANGED rd
    /\ DstGoto("recv_done")
    /\ UNCHANGED <<backend, source, dstData, opened, fate, sent, ack>>

\* 5. The completion frame; on EOF the code only warns and returns Ok too.
DstRecvDone ==
    /\ dstPc = "recv_done"
    /\ \/ /\ FrameHere /\ sent[rd + 1].kind = "Done"
          /\ rd' = rd + 1 /\ doneTotal' = sent[rd + 1].arg
       \/ AtEof /\ UNCHANGED <<rd, doneTotal>>
    /\ DstReturn("ok", ack)
    /\ UNCHANGED <<backend, source, preflight, decision, applied, dstBytes, opened, sent>>

\* A `?` of run_destination that meets the end of the stream.
DstFail ==
    /\ \/ dstPc \in {"open_stream", "send_ack"} /\ link = "down"
       \/ dstPc = "recv_plan" /\ (AtEof \/ AtError)
       \/ dstPc \in {"stream_in", "recv_done"} /\ AtError
    /\ DstReturn("error", ack)
    /\ UNCHANGED <<backend, source, dstData, opened, sent, rd>>

\* A `?` of run_destination that meets a failing module call or a timeout.
DstFault ==
    /\ \/ dstPc \in {"validate", "stream_in"} /\ "module" \in Faults
       \/ dstPc \in {"recv_plan", "stream_in", "recv_done"} /\ ReadStalls
    /\ DstReturn("error", ack)
    /\ UNCHANGED <<backend, source, dstData, opened, sent, rd>>

DstStep ==
    \/ DstOpenStream \/ DstRecvPlan \/ DstValidate \/ DstDecide \/ DstSendAck
    \/ DstSendNack \/ DstApply \/ DstBadChunk \/ DstEnd \/ DstRecvDone \/ DstFail

----------------------------------------------------------------------------
(* The environment.                                                        *)

\* Somebody else writes to the source backend. The backup only reads it.
Edit ==
    /\ srcRes = "none"
    /\ version' \in IF Reverts THEN (0 .. MaxVersion) \ {version}
                               ELSE {version + 1} \cap (0 .. MaxVersion)
    /\ UNCHANGED <<calls, source, destination, stream>>

\* The connection or the relay between the two sides breaks.
Break ==
    /\ "break" \in Faults
    /\ link = "up"
    /\ TakeDown(TRUE)
    /\ ack' \in {ack, "none"}
    /\ UNCHANGED <<backend, source, destination, opened, sent, rd>>

\* Raw bytes of a chunk change between the source and the destination.
Corrupt ==
    /\ "corrupt" \in Faults
    /\ \E i \in rd + 1 .. Len(sent) :
         /\ sent[i].kind = "ChunkStart" /\ sent[i].len > 0
         /\ sent' = [sent EXCEPT ![i].intact = FALSE]
    /\ UNCHANGED <<backend, source, destination, opened, fate, rd, ack>>

SrcCrash ==
    /\ "crash" \in Faults
    /\ srcRes = "none"
    /\ SrcReturn("crash")
    /\ UNCHANGED <<backend, srcData, destination, opened, sent, rd, ack>>

DstCrash ==
    /\ "crash" \in Faults
    /\ dstRes = "none"
    /\ DstReturn("crash", ack)
    /\ UNCHANGED <<backend, source, dstData, opened, sent, rd>>

Init ==
    /\ calls \in Payloads
    /\ version = 0
    /\ srcPc = "fingerprint" /\ srcRes = "none"
    /\ fpBefore = 0 /\ plan = 0 /\ pos = 0
    /\ srcBytes = 0 /\ audited = FALSE
    /\ dstPc = "open_stream" /\ dstRes = "none"
    /\ preflight = FALSE /\ decision = "none" /\ applied = <<>>
    /\ dstBytes = 0 /\ doneTotal = -1
    /\ opened = FALSE /\ link = "up" /\ sent = <<>> /\ rd = 0
    /\ arrives = 0 /\ cut = "eof" /\ ack = "none"

Next ==
    \/ SrcStep \/ DstStep
    \/ SrcFault \/ DstFault \/ SrcCrash \/ DstCrash
    \/ Edit \/ Break \/ Corrupt

Spec == Init /\ [][Next]_vars

\* Each side's task is polled until it returns, and the module calls and the
\* operator behind validate and accept answer. No fault is ever forced.
FairSpec == Spec /\ WF_vars(SrcStep) /\ WF_vars(DstStep)

----------------------------------------------------------------------------
(* Properties.                                                             *)

TypeOK ==
    /\ calls \in Payloads
    /\ version \in 0 .. MaxVersion
    /\ srcPc \in SrcPcs /\ srcRes \in SrcResults
    /\ fpBefore \in 0 .. MaxVersion
    /\ plan \in 0 .. MaxVersion
    /\ pos \in 0 .. Len(calls) /\ srcBytes \in Nat /\ audited \in BOOLEAN
    /\ dstPc \in DstPcs /\ dstRes \in DstResults
    /\ preflight \in BOOLEAN
    /\ decision \in {"none", "accepted", "rejected"}
    /\ applied \in Seq(Frame) /\ dstBytes \in Nat /\ doneTotal \in Nat \cup {-1}
    /\ opened \in BOOLEAN /\ link \in {"up", "down"}
    /\ sent \in Seq(Frame) /\ rd \in 0 .. Len(sent)
    /\ arrives \in 0 .. Len(sent) /\ cut \in {"eof", "error"}
    /\ ack \in {"none", "accepted", "rejected"}

\* Not one byte of payload leaves the source, and the source does not report
\* success, unless this destination's preflight passed and its operator said
\* yes (session.rs: recv_ack before stream_out on one side, preflight.ok &&
\* accept before send_ack on the other).
NothingBeforeApproval ==
    (Len(sent) > 1 \/ srcRes = "ok") => decision = "accepted" /\ preflight

\* What the sequence of ChunkSink calls looked like, read off a frame; raw
\* bytes that no longer match the digest are no call of the source's.
CallOf(f) ==
    [op   |-> IF f.kind = "ItemEnd" THEN "finish_item"
              ELSE IF f.intact THEN "send_chunk" ELSE "garbage",
     item |-> f.item, arg |-> f.arg, len |-> f.len]

Restored == [i \in DOMAIN applied |-> CallOf(applied[i])]

Whole == Restored = calls

\* At every moment, a broken, corrupted or crashed run included, what the
\* destination backend has been given is an initial part of what stream_out
\* sent, in order, without gap, duplicate or damaged byte.
AppliedInOrder ==
    /\ Len(applied) <= pos
    /\ \A i \in 1 .. Len(applied) : Restored[i] = calls[i]

\* run_source answers Ok only if the plan and every frame of payload it sent
\* were read from the content it fingerprinted at the start, however edits
\* interleave with its steps. Contents never come back (Reverts = FALSE): two
\* equal fingerprints around an edit and its undo prove nothing.
AuditSound ==
    srcRes = "ok" => \A i \in 1 .. Len(sent) : sent[i].ver = fpBefore

\* A destination that has read Done has applied the complete payload, and the
\* total in the frame, which run_destination only logs, is what it counted.
DoneMeansWhole ==
    doneTotal # -1 => Whole /\ dstBytes = doneTotal

\* The run keeps the destination's contract: one answer, then the parts of the
\* payload in order, and confirmation (Ok after a Done frame) only of a whole.
Verdict ==
    IF dstRes = "none" THEN "none"
    ELSE IF dstRes = "ok" /\ doneTotal # -1 THEN "confirmed"
    ELSE "unconfirmed"

Contract == INSTANCE TransferContract
    WITH Offers <- Payloads, offer <- calls, answer <- decision,
         restored <- Restored, verdict <- Verdict

KeepsContract == Contract!Spec

\* Once the substream is open both sides return, whatever breaks.
BothReturn == opened ~> (srcRes # "none" /\ dstRes # "none")

\* With no fault, both sides return Ok and the payload has arrived whole.
RunSucceeds == <>(srcRes = "ok" /\ dstRes = "ok" /\ Whole)

----------------------------------------------------------------------------
(* What the documentation says of a run, and the code does not keep.       *)

\* README.md: "the destination restores it 1:1"; USAGE.md: exit code 0 means
\* success. Ok from run_destination would mean the whole payload is applied.
DestinationOkMeansWhole == dstRes = "ok" => Whole
=============================================================================
