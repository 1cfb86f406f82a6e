----------------------- MODULE BackupSession_proofs -----------------------
(***************************************************************************)
(* Proofs about BackupSession: its type invariant, then one inductive      *)
(* invariant per question, each resting on the ones before.                *)
(***************************************************************************)
EXTENDS BackupSession, SequenceTheorems, TLAPS

USE PayloadsAssumption, ChunkSizeAssumption, WindowAssumption,
    MaxVersionAssumption, RevertsAssumption, FaultsAssumption

\* Replacing one element of a sequence (a corrupted chunk) keeps its length
\* and type.
LEMMA ReplaceOne ==
    ASSUME NEW S, NEW s \in Seq(S), NEW i \in 1 .. Len(s), NEW e \in S
    PROVE  /\ [s EXCEPT ![i] = e] \in Seq(S)
           /\ Len([s EXCEPT ![i] = e]) = Len(s)
  OBVIOUS

\* The frames the source writes are frames.
LEMMA FramesTyped ==
    /\ \A k \in {"Plan", "StreamEnd", "Done"}, a \in Nat, v \in Nat :
          ControlFrame(k, a, v) \in Frame
    /\ \A c \in Call, v \in Nat : DataFrame(c, v) \in Frame
  BY DEF ControlFrame, DataFrame, Frame, Call

\* A run starts well typed.
LEMMA TypeInit == Init => TypeOK
  <1> SUFFICES ASSUME Init PROVE TypeOK
    OBVIOUS
  <1>1. /\ applied \in Seq(Frame) /\ sent \in Seq(Frame) /\ Len(sent) = 0
        /\ Len(calls) \in Nat
    BY DEF Init
  <1>2. plan \in 0 .. MaxVersion /\ doneTotal \in Nat \cup {-1}
    BY DEF Init
  <1>3. audited \in BOOLEAN /\ preflight \in BOOLEAN /\ opened \in BOOLEAN
    BY Zenon DEF Init
  <1> QED BY <1>1, <1>2, <1>3 DEF Init, TypeOK, SrcPcs, SrcResults, DstPcs, DstResults

\* The next call of stream_out, while there is one, is a Call.
LEMMA CallTyped ==
    TypeOK => \A i \in 1 .. Len(calls) : calls[i] \in Call
  BY DEF TypeOK

\* Every step keeps the types, fault by fault and read by read.
LEMMA TypeStep == TypeOK /\ [Next]_vars => TypeOK'
  <1> SUFFICES ASSUME TypeOK, [Next]_vars PROVE TypeOK'
    OBVIOUS
  <1> USE DEF TypeOK, SrcPcs, SrcResults, DstPcs, DstResults, backend, srcData, source,
              dstData, destination, fate, stream
  <1>0. calls \in Seq(Call) /\ Len(calls) \in Nat
    OBVIOUS
  <1>1. CASE SrcFingerprint
    BY <1>1 DEF SrcFingerprint, SrcGoto
  <1>2. CASE SrcAnalyze
    BY <1>2 DEF SrcAnalyze, SrcGoto
  <1>3. CASE SrcAcceptStream
    BY <1>3 DEF SrcAcceptStream, SrcGoto
  <1>4. CASE SrcSendPlan
    <2>1. ControlFrame("Plan", 0, plan) \in Frame
      BY FramesTyped
    <2> QED BY <1>4, <2>1 DEF SrcSendPlan, SrcSend, SrcGoto
  <1>5. CASE SrcRecvAck
    BY <1>5 DEF SrcRecvAck, SrcGoto
  <1>6. CASE SrcRecvNack
    BY <1>6 DEF SrcRecvNack, SrcReturn, TakeDown
  <1>7. CASE SrcStreamOut
    <2> DEFINE c == calls[pos + 1]
    <2>1. pos < Len(calls) /\ c \in Call
      BY <1>7, CallTyped DEF SrcStreamOut
    <2>2. DataFrame(c, version) \in Frame
      BY <2>1, FramesTyped
    <2>3. c.len \in Nat
      BY <2>1 DEF Call
    <2>4. /\ sent' = Append(sent, DataFrame(c, version))
          /\ srcBytes' = srcBytes + c.len
          /\ pos' = pos + 1 /\ srcPc' = "stream_out" /\ srcRes' = srcRes
      BY <1>7 DEF SrcStreamOut, SrcSend, SrcGoto
    <2>5. /\ UNCHANGED <<backend, destination, opened, fate, rd, ack>>
          /\ UNCHANGED <<fpBefore, plan, audited>>
      BY <1>7 DEF SrcStreamOut, SrcSend
    <2> HIDE DEF c
    <2>6. sent' \in Seq(Frame) /\ Len(sent') = Len(sent) + 1
      BY <2>2, <2>4
    <2> QED BY <2>1, <2>3, <2>4, <2>5, <2>6
  <1>8. CASE SrcChunkTooLarge
    BY <1>8 DEF SrcChunkTooLarge, SrcReturn, TakeDown
  <1>9. CASE SrcFinish
    <2>1. ControlFrame("StreamEnd", 0, fpBefore) \in Frame
      BY FramesTyped
    <2> QED BY <1>9, <2>1 DEF SrcFinish, SrcSend, SrcGoto
  <1>10. CASE SrcSendDone
    <2>1. ControlFrame("Done", srcBytes, fpBefore) \in Frame
      BY FramesTyped
    <2> QED BY <1>10, <2>1 DEF SrcSendDone, SrcSend, SrcGoto
  <1>11. CASE SrcAudit
    BY <1>11 DEF SrcAudit, SrcReturn, TakeDown
  <1>12. CASE SrcFail
    BY <1>12 DEF SrcFail, SrcReturn, TakeDown
  <1>13. CASE DstOpenStream
    BY <1>13 DEF DstOpenStream, DstGoto
  <1>14. CASE DstRecvPlan
    BY <1>14 DEF DstRecvPlan, DstGoto, FrameHere
  <1>15. CASE DstValidate
    <2>1. preflight' \in BOOLEAN
      BY <1>15, Zenon DEF DstValidate
    <2> QED BY <1>15, <2>1 DEF DstValidate, DstGoto
  <1>16. CASE DstDecide
    BY <1>16 DEF DstDecide, DstGoto
  <1>17. CASE DstSendAck
    BY <1>17 DEF DstSendAck, DstGoto
  <1>18. CASE DstSendNack
    BY <1>18 DEF DstSendNack, DstReturn
  <1>19. CASE DstApply
    <2>1. rd + 1 \in 1 .. Len(sent) /\ sent[rd + 1] \in Frame
      BY <1>19 DEF DstApply, FrameHere
    <2>2. sent[rd + 1].len \in Nat
      BY <2>1 DEF Frame
    <2> QED BY <1>19, <2>1, <2>2 DEF DstApply, DstGoto
  <1>20. CASE DstBadChunk
    BY <1>20 DEF DstBadChunk, DstReturn, FrameHere
  <1>21. CASE DstEnd
    BY <1>21 DEF DstEnd, DstGoto, FrameHere
  <1>22. CASE DstRecvDone
    <2>1. CASE FrameHere
      <3>1. rd + 1 \in 0 .. Len(sent) /\ sent[rd + 1] \in Frame
        BY <2>1 DEF FrameHere
      <3>2. sent[rd + 1].arg \in Nat
        BY <3>1 DEF Frame
      <3> QED BY <1>22, <3>1, <3>2 DEF DstRecvDone, DstReturn
    <2>2. CASE ~FrameHere
      BY <1>22, <2>2 DEF DstRecvDone, DstReturn
    <2> QED BY <2>1, <2>2
  <1>23. CASE DstFail
    BY <1>23 DEF DstFail, DstReturn
  <1>24. CASE Edit
    BY <1>24 DEF Edit
  <1>25. CASE Break
    BY <1>25 DEF Break, TakeDown
  <1>26. CASE Corrupt
    <2>1. PICK i \in rd + 1 .. Len(sent) : sent' = [sent EXCEPT ![i].intact = FALSE]
      BY <1>26 DEF Corrupt
    <2>a. sent[i] \in Frame
      OBVIOUS
    <2>2. [sent[i] EXCEPT !.intact = FALSE] \in Frame
      BY <2>a DEF Frame
    <2>3. sent' = [sent EXCEPT ![i] = [sent[i] EXCEPT !.intact = FALSE]]
      BY <2>1
    <2>4. sent' \in Seq(Frame) /\ Len(sent') = Len(sent)
      <3>1. sent \in Seq(Frame) /\ i \in 1 .. Len(sent)
        OBVIOUS
      <3> QED BY ONLY <2>2, <2>3, <3>1, ReplaceOne
    <2> QED BY <1>26, <2>4 DEF Corrupt
  <1>27. CASE SrcCrash
    BY <1>27 DEF SrcCrash, SrcReturn, TakeDown
  <1>28. CASE DstCrash
    BY <1>28 DEF DstCrash, DstReturn
  <1>29. CASE SrcFault
    BY <1>29 DEF SrcFault, SrcReturn, TakeDown
  <1>30. CASE DstFault
    BY <1>30 DEF DstFault, DstReturn
  <1>31. CASE UNCHANGED vars
    BY <1>31 DEF vars
  <1> QED
    BY <1>1, <1>2, <1>3, <1>4, <1>5, <1>6, <1>7, <1>8, <1>9, <1>10, <1>11, <1>12, <1>13,
       <1>14, <1>15, <1>16, <1>17, <1>18, <1>19, <1>20, <1>21, <1>22, <1>23, <1>24, <1>25,
       <1>26, <1>27, <1>28, <1>29, <1>30, <1>31 DEF Next, SrcStep, DstStep

\* Every state of a run is well typed: the counters stay within the log they
\* index, and the results and program points are those of the code.
THEOREM TypeCorrect == Spec => []TypeOK
  BY TypeInit, TypeStep, PTL DEF Spec

----------------------------------------------------------------------------
(* Nothing before approval. The decision, once taken, is final, and every  *)
(* place from which the source could write payload lies behind it.         *)

Approval ==
    /\ dstPc \in {"open_stream", "recv_plan", "validate", "accept"} => decision = "none"
    /\ decision = "accepted" => preflight
    /\ ack = "accepted" => decision = "accepted"
    /\ srcPc \in {"fingerprint", "analyze", "accept_stream", "send_plan"} => Len(sent) = 0
    /\ srcPc = "recv_ack" => Len(sent) = 1
    /\ srcPc \in {"stream_out", "done", "audit"} \/ Len(sent) > 1 \/ srcRes = "ok"
         => decision = "accepted"

\* Nothing has been sent or approved at the start.
LEMMA ApprovalInit == Init => Approval
  BY DEF Init, Approval

\* The source goes past the handshake only with a yes it has read, and the destination
\* answers once.
LEMMA ApprovalStep == TypeOK /\ Approval /\ [Next]_vars => Approval'
  <1> SUFFICES ASSUME TypeOK, Approval, [Next]_vars PROVE Approval'
    OBVIOUS
  <1> USE DEF Approval, backend, srcData, source, dstData, destination, fate, stream
  <1>0. sent \in Seq(Frame) /\ Len(sent) \in Nat
    BY DEF TypeOK
  <1>1. CASE SrcFingerprint \/ SrcAnalyze \/ SrcAcceptStream \/ SrcRecvAck
    BY <1>1 DEF SrcFingerprint, SrcAnalyze, SrcAcceptStream, SrcRecvAck, SrcGoto
  <1>2. CASE SrcSendPlan
    BY <1>0, <1>2 DEF SrcSendPlan, SrcSend, SrcGoto
  <1>3. CASE SrcStreamOut
    BY <1>0, <1>3 DEF SrcStreamOut, SrcSend, SrcGoto
  <1>4. CASE SrcFinish
    BY <1>0, <1>4 DEF SrcFinish, SrcSend, SrcGoto
  <1>5. CASE SrcSendDone
    BY <1>0, <1>5 DEF SrcSendDone, SrcSend, SrcGoto
  <1>6. CASE SrcRecvNack \/ SrcChunkTooLarge \/ SrcAudit \/ SrcFail \/ SrcFault \/ SrcCrash
    BY <1>6 DEF SrcRecvNack, SrcChunkTooLarge, SrcAudit, SrcFail, SrcFault, SrcCrash, SrcReturn
  <1>7. CASE DstOpenStream \/ DstRecvPlan \/ DstApply \/ DstEnd
    BY <1>7 DEF DstOpenStream, DstRecvPlan, DstApply, DstEnd, DstGoto
  <1>8. CASE DstValidate
    BY <1>8 DEF DstValidate, DstGoto
  <1>9. CASE DstDecide
    BY <1>9 DEF DstDecide, DstGoto
  <1>10. CASE DstSendAck
    BY <1>10 DEF DstSendAck, DstGoto
  <1>11. CASE DstSendNack
    BY <1>11 DEF DstSendNack, DstReturn
  <1>12. CASE DstBadChunk \/ DstRecvDone \/ DstFail \/ DstFault \/ DstCrash
    BY <1>12 DEF DstBadChunk, DstRecvDone, DstFail, DstFault, DstCrash, DstReturn
  <1>13. CASE Edit \/ Break
    BY <1>13 DEF Edit, Break
  <1>14. CASE Corrupt
    <2>1. Len(sent') = Len(sent)
      BY <1>0, <1>14 DEF Corrupt
    <2> QED BY <1>14, <2>1 DEF Corrupt
  <1>15. CASE UNCHANGED vars
    BY <1>15 DEF vars
  <1> QED
    BY <1>1, <1>2, <1>3, <1>4, <1>5, <1>6, <1>7, <1>8, <1>9, <1>10, <1>11, <1>12, <1>13,
       <1>14, <1>15 DEF Next, SrcStep, DstStep

\* For every payload, window and fault: no payload leaves the source, and the
\* source does not report success, without an approved plan.
THEOREM ApprovalFirst == Spec => []NothingBeforeApproval
  <1>1. Approval => NothingBeforeApproval
    BY DEF Approval, NothingBeforeApproval
  <1> QED
    BY <1>1, TypeCorrect, ApprovalInit, ApprovalStep, PTL DEF Spec

----------------------------------------------------------------------------
(* Applied in order. The log is, position by position, what stream_out did *)
(* with its sink, and what stream_in has applied is the part of the log    *)
(* between the plan and the read index.                                    *)

IsData(f) == f.kind \in {"ChunkStart", "ItemEnd"}

Carries(f, c) ==
    /\ f.kind = IF c.op = "send_chunk" THEN "ChunkStart" ELSE "ItemEnd"
    /\ f.item = c.item /\ f.arg = c.arg /\ f.len = c.len

LogShape ==
    /\ srcPc \in {"fingerprint", "analyze", "accept_stream", "send_plan"} =>
         Len(sent) = 0 /\ pos = 0
    /\ srcPc = "recv_ack" => Len(sent) = 1 /\ pos = 0
    /\ srcPc = "stream_out" => Len(sent) = pos + 1
    /\ \A i \in 1 .. Len(sent) : IsData(sent[i]) =>
         i \in 2 .. pos + 1 /\ Carries(sent[i], calls[i - 1])

\* The log is empty at the start.
LEMMA LogShapeInit == Init => LogShape
  <1> SUFFICES ASSUME Init PROVE LogShape
    OBVIOUS
  <1>1. Len(sent) = 0
    BY DEF Init
  <1> QED BY <1>1 DEF Init, LogShape

\* The source writes the plan, then the payload in order, then at most one Done.
LEMMA LogShapeStep == TypeOK /\ LogShape /\ [Next]_vars => LogShape'
  <1> SUFFICES ASSUME TypeOK, LogShape, [Next]_vars PROVE LogShape'
    OBVIOUS
  <1> USE DEF LogShape, backend, srcData, source, dstData, destination, fate, stream
  <1>0. /\ sent \in Seq(Frame) /\ Len(sent) \in Nat
        /\ pos \in Nat /\ pos <= Len(calls) /\ Len(calls) \in Nat
    BY DEF TypeOK
  <1>1. CASE SrcFingerprint \/ SrcAnalyze \/ SrcAcceptStream \/ SrcRecvAck
    BY <1>1 DEF SrcFingerprint, SrcAnalyze, SrcAcceptStream, SrcRecvAck, SrcGoto
  <1>2. ASSUME NEW k, NEW a, NEW v, k \in {"Plan", "StreamEnd", "Done"},
               sent' = Append(sent, ControlFrame(k, a, v)),
               UNCHANGED <<calls, pos>>
        PROVE  /\ Len(sent') = Len(sent) + 1
               /\ \A i \in 1 .. Len(sent') : IsData(sent'[i]) =>
                    i \in 2 .. pos' + 1 /\ Carries(sent'[i], calls'[i - 1])
    <2>1. ~IsData(ControlFrame(k, a, v))
      BY <1>2 DEF IsData, ControlFrame
    <2>2. /\ Len(sent') = Len(sent) + 1
          /\ sent'[Len(sent) + 1] = ControlFrame(k, a, v)
          /\ \A i \in 1 .. Len(sent) : sent'[i] = sent[i]
      BY <1>0, <1>2
    <2> QED BY <1>0, <1>2, <2>1, <2>2
  <1>3. CASE SrcSendPlan
    BY <1>0, <1>2, <1>3 DEF SrcSendPlan, SrcSend, SrcGoto
  <1>4. CASE SrcFinish
    BY <1>0, <1>2, <1>4 DEF SrcFinish, SrcSend, SrcGoto
  <1>5. CASE SrcSendDone
    BY <1>0, <1>2, <1>5 DEF SrcSendDone, SrcSend, SrcGoto
  <1>6. CASE SrcStreamOut
    <2> DEFINE f == DataFrame(calls[pos + 1], version)
    <2>1. /\ sent' = Append(sent, f) /\ pos' = pos + 1 /\ calls' = calls
          /\ srcPc = "stream_out" /\ srcPc' = "stream_out"
      BY <1>6 DEF SrcStreamOut, SrcSend, SrcGoto
    <2>2. Carries(f, calls[pos + 1])
      BY DEF Carries, DataFrame
    <2> HIDE DEF f
    <2>3. /\ Len(sent') = Len(sent) + 1
          /\ sent'[Len(sent) + 1] = f
          /\ \A i \in 1 .. Len(sent) : sent'[i] = sent[i]
      BY <1>0, <2>1
    <2>4. Len(sent) = pos + 1
      BY <2>1
    <2> QED BY <1>0, <2>1, <2>2, <2>3, <2>4
  <1>7. CASE SrcRecvNack \/ SrcChunkTooLarge \/ SrcAudit \/ SrcFail \/ SrcFault \/ SrcCrash
    BY <1>7 DEF SrcRecvNack, SrcChunkTooLarge, SrcAudit, SrcFail, SrcFault, SrcCrash, SrcReturn
  <1>8. CASE DstStep
    BY <1>8 DEF DstStep, DstOpenStream, DstRecvPlan, DstValidate, DstDecide, DstSendAck,
       DstSendNack, DstApply, DstBadChunk, DstEnd, DstRecvDone, DstFail
  <1>9. CASE DstFault \/ DstCrash \/ Edit \/ Break
    BY <1>9 DEF DstFault, DstCrash, Edit, Break
  <1>10. CASE Corrupt
    <2>1. PICK j \in rd + 1 .. Len(sent) : sent' = [sent EXCEPT ![j].intact = FALSE]
      BY <1>10 DEF Corrupt
    <2>a. Len(sent') = Len(sent)
      BY <1>0, <2>1
    <2>b. ASSUME NEW i \in 1 .. Len(sent)
          PROVE  /\ sent'[i].kind = sent[i].kind /\ sent'[i].item = sent[i].item
                 /\ sent'[i].arg = sent[i].arg /\ sent'[i].len = sent[i].len
      <3>1. sent[i] \in Frame
        BY <1>0
      <3>2. sent' = [sent EXCEPT ![j] = [sent[j] EXCEPT !.intact = FALSE]]
        BY <2>1
      <3>3. i \in DOMAIN sent
        BY <1>0
      <3>4. CASE i = j
        <4>1. sent'[i] = [sent[i] EXCEPT !.intact = FALSE]
          BY <3>2, <3>3, <3>4
        <4> QED BY <3>1, <4>1 DEF Frame
      <3>5. CASE i # j
        BY <3>2, <3>3, <3>5
      <3> QED BY <3>4, <3>5
    <2>2. /\ Len(sent') = Len(sent)
          /\ \A i \in 1 .. Len(sent) : /\ sent'[i].kind = sent[i].kind
                                       /\ sent'[i].item = sent[i].item
                                       /\ sent'[i].arg = sent[i].arg
                                       /\ sent'[i].len = sent[i].len
      BY <2>a, <2>b
    <2>3. UNCHANGED <<calls, pos, srcPc>>
      BY <1>10 DEF Corrupt
    <2> QED BY <1>0, <2>2, <2>3 DEF IsData, Carries
  <1>11. CASE UNCHANGED vars
    BY <1>11 DEF vars
  <1> QED
    BY <1>1, <1>3, <1>4, <1>5, <1>6, <1>7, <1>8, <1>9, <1>10, <1>11 DEF Next, SrcStep

ReadShape ==
    /\ dstPc \in {"open_stream", "recv_plan"} => rd = 0
    /\ dstPc \in {"validate", "accept", "send_ack"} => rd = 1
    /\ dstPc \in {"open_stream", "recv_plan", "validate", "accept", "send_ack"} =>
         Len(applied) = 0
    /\ dstPc = "stream_in" => rd = Len(applied) + 1
    /\ Len(applied) > 0 => Len(applied) + 1 <= rd
    /\ \A i \in 1 .. Len(applied) :
         /\ applied[i] = sent[i + 1]
         /\ IsData(applied[i]) /\ applied[i].intact

\* Nothing has been read at the start.
LEMMA ReadShapeInit == Init => ReadShape
  <1> SUFFICES ASSUME Init PROVE ReadShape
    OBVIOUS
  <1>1. Len(applied) = 0
    BY DEF Init
  <1> QED BY <1>1 DEF Init, ReadShape

\* The destination reads frame by frame and applies each part where it left off.
LEMMA ReadShapeStep == TypeOK /\ ReadShape /\ [Next]_vars => ReadShape'
  <1> SUFFICES ASSUME TypeOK, ReadShape, [Next]_vars PROVE ReadShape'
    OBVIOUS
  <1> USE DEF ReadShape, backend, srcData, source, dstData, destination, fate, stream
  <1>0. /\ sent \in Seq(Frame) /\ Len(sent) \in Nat
        /\ applied \in Seq(Frame) /\ Len(applied) \in Nat
        /\ rd \in Nat /\ rd <= Len(sent)
    BY DEF TypeOK
  <1>1. CASE UNCHANGED <<dstPc, rd, applied, sent>>
    BY <1>1
  \* The log only grows at its end.
  <1>2. ASSUME NEW f, sent' = Append(sent, f), UNCHANGED <<dstPc, rd, applied>>
        PROVE  ReadShape'
    <2>1. \A i \in 1 .. Len(sent) : sent'[i] = sent[i]
      BY <1>0, <1>2
    <2>2. \A i \in 1 .. Len(applied) : i + 1 \in 1 .. Len(sent)
      BY <1>0
    <2> QED BY <1>2, <2>1, <2>2
  <1>3. CASE SrcStep
    <2>1. CASE SrcSendPlan
      BY <1>2, <2>1 DEF SrcSendPlan, SrcSend
    <2>2. CASE SrcStreamOut
      BY <1>2, <2>2 DEF SrcStreamOut, SrcSend
    <2>3. CASE SrcFinish
      BY <1>2, <2>3 DEF SrcFinish, SrcSend
    <2>4. CASE SrcSendDone
      BY <1>2, <2>4 DEF SrcSendDone, SrcSend
    <2>5. CASE SrcFingerprint \/ SrcAnalyze \/ SrcAcceptStream \/ SrcRecvAck
      BY <1>1, <2>5 DEF SrcFingerprint, SrcAnalyze, SrcAcceptStream, SrcRecvAck
    <2>6. CASE SrcRecvNack \/ SrcChunkTooLarge \/ SrcAudit \/ SrcFail
      BY <1>1, <2>6 DEF SrcRecvNack, SrcChunkTooLarge, SrcAudit, SrcFail
    <2> QED BY <1>3, <2>1, <2>2, <2>3, <2>4, <2>5, <2>6 DEF SrcStep
  <1>4. CASE SrcFault \/ SrcCrash \/ Edit \/ Break
    BY <1>1, <1>4 DEF SrcFault, SrcCrash, Edit, Break
  <1>5. CASE DstOpenStream
    BY <1>5 DEF DstOpenStream, DstGoto
  <1>6. CASE DstRecvPlan
    BY <1>6 DEF DstRecvPlan, DstGoto
  <1>7. CASE DstValidate \/ DstDecide \/ DstSendAck
    <2>1. CASE DstValidate
      BY <1>0, <2>1 DEF DstValidate, DstGoto
    <2>2. CASE DstDecide
      BY <1>0, <2>2 DEF DstDecide, DstGoto
    <2>3. CASE DstSendAck
      BY <1>0, <2>3 DEF DstSendAck, DstGoto
    <2> QED BY <1>7, <2>1, <2>2, <2>3
  <1>8. CASE DstSendNack \/ DstFail \/ DstFault \/ DstCrash
    BY <1>0, <1>8 DEF DstSendNack, DstFail, DstFault, DstCrash, DstReturn
  <1>9. CASE DstApply
    <2> DEFINE f == sent[rd + 1]
    <2>1. /\ dstPc = "stream_in" /\ dstPc' = "stream_in" /\ sent' = sent
          /\ IsData(f) /\ f.intact
          /\ applied' = Append(applied, f) /\ rd' = rd + 1
      BY <1>9 DEF DstApply, DstGoto, IsData
    <2>2. rd + 1 \in 1 .. Len(sent) /\ rd = Len(applied) + 1
      BY <1>0, <1>9, <2>1 DEF DstApply, FrameHere, TypeOK
    <2> HIDE DEF f
    <2>3. /\ Len(applied') = Len(applied) + 1
          /\ applied'[Len(applied) + 1] = f
          /\ \A i \in 1 .. Len(applied) : applied'[i] = applied[i]
      BY <1>0, <2>1
    <2> QED BY <1>0, <2>1, <2>2, <2>3 DEF f
  <1>10. CASE DstBadChunk
    BY <1>0, <1>10 DEF DstBadChunk, DstReturn
  <1>11. CASE DstEnd
    BY <1>0, <1>11 DEF DstEnd, DstGoto
  <1>12. CASE DstRecvDone
    BY <1>0, <1>12 DEF DstRecvDone, DstReturn
  \* Only frames not yet read can be damaged.
  <1>13. CASE Corrupt
    <2>1. PICK j \in rd + 1 .. Len(sent) : sent' = [sent EXCEPT ![j].intact = FALSE]
      BY <1>13 DEF Corrupt
    <2>2. \A i \in 1 .. rd : sent'[i] = sent[i]
      BY <1>0, <2>1
    <2>3. UNCHANGED <<dstPc, rd, applied>>
      BY <1>13 DEF Corrupt
    <2>4. \A i \in 1 .. Len(applied) : i + 1 \in 1 .. rd
      BY <1>0
    <2> QED BY <2>2, <2>3, <2>4
  <1>14. CASE UNCHANGED vars
    BY <1>1, <1>14 DEF vars
  <1> QED
    BY <1>3, <1>4, <1>5, <1>6, <1>7, <1>8, <1>9, <1>10, <1>11, <1>12, <1>13, <1>14
    DEF Next, DstStep

\* A data frame of the log carries the call at its place, and only intact ones were
\* applied.
LEMMA InOrder == TypeOK /\ LogShape /\ ReadShape => AppliedInOrder
  <1> SUFFICES ASSUME TypeOK, LogShape, ReadShape PROVE AppliedInOrder
    OBVIOUS
  <1>0. /\ sent \in Seq(Frame) /\ applied \in Seq(Frame) /\ Len(applied) \in Nat
        /\ rd \in 0 .. Len(sent) /\ pos \in 0 .. Len(calls) /\ Len(calls) \in Nat
    BY DEF TypeOK
  <1>1. ASSUME NEW i \in 1 .. Len(applied)
        PROVE  i <= pos /\ Carries(applied[i], calls[i]) /\ applied[i].intact
    <2>1. i + 1 \in 1 .. Len(sent)
      BY <1>0 DEF ReadShape
    <2>2. applied[i] = sent[i + 1] /\ IsData(applied[i]) /\ applied[i].intact
      BY DEF ReadShape
    <2>3. i + 1 \in 2 .. pos + 1 /\ Carries(sent[i + 1], calls[(i + 1) - 1])
      BY <2>1, <2>2 DEF LogShape
    <2> QED BY <1>0, <2>2, <2>3
  <1>2. ASSUME NEW i \in 1 .. Len(applied) PROVE Restored[i] = calls[i]
    <2>1. /\ Carries(applied[i], calls[i]) /\ applied[i].intact
          /\ i \in 1 .. Len(calls)
      BY <1>0, <1>1
    <2>2. calls[i] \in Call
      BY <2>1, CallTyped
    <2>3. Restored[i] = CallOf(applied[i])
      BY <1>0 DEF Restored
    <2>4. CallOf(applied[i]) = calls[i]
      BY <2>1, <2>2 DEF CallOf, Carries, Call
    <2> QED BY <2>3, <2>4
  <1>3. Len(applied) <= pos
    BY <1>0, <1>1
  <1> QED BY <1>2, <1>3 DEF AppliedInOrder

\* For every payload, window and fault: what the destination backend has been
\* given is an intact initial part of what stream_out sent, in its order.
THEOREM RestoresInOrder == Spec => []AppliedInOrder
  BY InOrder, TypeCorrect, LogShapeInit, LogShapeStep, ReadShapeInit, ReadShapeStep, PTL DEF Spec

----------------------------------------------------------------------------
(* The audit. As long as contents never come back, every content the run   *)
(* has read lies between the first fingerprint and the present; when the   *)
(* second fingerprint equals the first, nothing is left in between.        *)

Between(v) == fpBefore <= v /\ v <= version

ReadBetween ==
    /\ srcRes = "none" <=> srcPc # "ended"
    /\ fpBefore <= version
    /\ srcPc \in {"accept_stream", "send_plan"} => Between(plan)
    /\ \A i \in 1 .. Len(sent) : Between(sent[i].ver)
    /\ AuditSound

\* Nothing has been read from the source's content at the start.
LEMMA ReadBetweenInit == Init => ReadBetween
  <1> SUFFICES ASSUME Init PROVE ReadBetween
    OBVIOUS
  <1>1. Len(sent) = 0
    BY DEF Init
  <1> QED BY <1>1 DEF Init, ReadBetween, AuditSound, Between

\* As long as contents do not come back, what was read between two equal fingerprints
\* was read from one content.
LEMMA ReadBetweenStep ==
    ASSUME ~Reverts
    PROVE  TypeOK /\ LogShape /\ ReadBetween /\ [Next]_vars => ReadBetween'
  <1> SUFFICES ASSUME TypeOK, LogShape, ReadBetween, [Next]_vars PROVE ReadBetween'
    OBVIOUS
  <1> USE DEF ReadBetween, Between, AuditSound,
              backend, srcData, source, dstData, destination, fate, stream
  <1>0. /\ sent \in Seq(Frame) /\ Len(sent) \in Nat
        /\ version \in Nat /\ fpBefore \in Nat
    BY DEF TypeOK
  <1>a. \A i \in 1 .. Len(sent) : sent[i].ver \in Nat
    <2> TAKE i \in 1 .. Len(sent)
    <2>1. sent[i] \in Frame
      BY <1>0
    <2> QED BY <2>1 DEF Frame
  <1>1. CASE UNCHANGED <<srcPc, srcRes, fpBefore, version, plan, sent>>
    BY <1>1
  <1>2. CASE SrcFingerprint
    <2>1. Len(sent) = 0 /\ srcRes = "none"
      BY <1>2 DEF SrcFingerprint, LogShape
    <2> QED BY <1>0, <1>2, <2>1 DEF SrcFingerprint, SrcGoto
  <1>3. CASE SrcAnalyze
    BY <1>0, <1>3 DEF SrcAnalyze, SrcGoto
  <1>4. CASE SrcAcceptStream \/ SrcRecvAck
    BY <1>4 DEF SrcAcceptStream, SrcRecvAck, SrcGoto
  \* A frame written now carries a content read between baseline and now.
  <1>5. ASSUME NEW f, Between(f.ver), sent' = Append(sent, f),
               srcPc # "ended", srcPc' \in {"recv_ack", "stream_out", "done", "audit"},
               UNCHANGED <<srcRes, fpBefore, version, plan>>
        PROVE  ReadBetween'
    <2>1. /\ Len(sent') = Len(sent) + 1
          /\ sent'[Len(sent) + 1] = f
          /\ \A i \in 1 .. Len(sent) : sent'[i] = sent[i]
      BY <1>0, <1>5
    <2> QED BY <1>0, <1>5, <2>1
  <1>6. CASE SrcSendPlan
    <2>1. Between(ControlFrame("Plan", 0, plan).ver)
      BY <1>6 DEF SrcSendPlan, ControlFrame
    <2> QED BY <1>5, <1>6, <2>1 DEF SrcSendPlan, SrcSend, SrcGoto
  <1>7. CASE SrcStreamOut
    <2>1. Between(DataFrame(calls[pos + 1], version).ver)
      BY <1>0 DEF DataFrame
    <2> QED BY <1>5, <1>7, <2>1 DEF SrcStreamOut, SrcSend, SrcGoto
  <1>8. CASE SrcFinish
    <2>1. Between(ControlFrame("StreamEnd", 0, fpBefore).ver)
      BY <1>0 DEF ControlFrame
    <2> QED BY <1>5, <1>8, <2>1 DEF SrcFinish, SrcSend, SrcGoto
  <1>9. CASE SrcSendDone
    <2>1. Between(ControlFrame("Done", srcBytes, fpBefore).ver)
      BY <1>0 DEF ControlFrame
    <2> QED BY <1>5, <1>9, <2>1 DEF SrcSendDone, SrcSend, SrcGoto
  \* The comparison: equal fingerprints leave no room for another content.
  <1>10. CASE SrcAudit
    BY <1>0, <1>a, <1>10 DEF SrcAudit, SrcReturn
  <1>11. CASE SrcRecvNack \/ SrcChunkTooLarge \/ SrcFail \/ SrcFault \/ SrcCrash
    BY <1>11 DEF SrcRecvNack, SrcChunkTooLarge, SrcFail, SrcFault, SrcCrash, SrcReturn
  <1>12. CASE DstStep
    BY <1>1, <1>12 DEF DstStep, DstOpenStream, DstRecvPlan, DstValidate, DstDecide, DstSendAck,
       DstSendNack, DstApply, DstBadChunk, DstEnd, DstRecvDone, DstFail
  <1>13. CASE DstFault \/ DstCrash \/ Break
    BY <1>1, <1>13 DEF DstFault, DstCrash, Break
  <1>14. CASE Edit
    <2>1. version' = version + 1 /\ srcRes = "none"
      BY <1>14 DEF Edit
    <2>2. UNCHANGED <<srcPc, srcRes, fpBefore, plan, sent>>
      BY <1>14 DEF Edit
    <2>3. srcPc \in {"accept_stream", "send_plan"} => plan \in Nat
      BY DEF TypeOK
    <2> QED BY <1>0, <1>a, <2>1, <2>2, <2>3
  <1>15. CASE Corrupt
    <2>1. PICK j \in rd + 1 .. Len(sent) : sent' = [sent EXCEPT ![j].intact = FALSE]
      BY <1>15 DEF Corrupt
    <2>2. Len(sent') = Len(sent)
      BY <1>0, <2>1
    <2>3. ASSUME NEW i \in 1 .. Len(sent) PROVE sent'[i].ver = sent[i].ver
      <3>1. sent' = [sent EXCEPT ![j] = [sent[j] EXCEPT !.intact = FALSE]]
        BY <2>1
      <3>2. i \in DOMAIN sent /\ sent[i] \in Frame
        BY <1>0
      <3>3. CASE i = j
        <4>1. sent'[i] = [sent[i] EXCEPT !.intact = FALSE]
          BY <3>1, <3>2, <3>3
        <4> QED BY <3>2, <4>1 DEF Frame
      <3>4. CASE i # j
        BY <3>1, <3>2, <3>4
      <3> QED BY <3>3, <3>4
    <2>4. UNCHANGED <<srcPc, srcRes, fpBefore, version, plan>>
      BY <1>15 DEF Corrupt
    <2> QED BY <2>2, <2>3, <2>4
  <1>16. CASE UNCHANGED vars
    BY <1>1, <1>16 DEF vars
  <1> QED
    BY <1>2, <1>3, <1>4, <1>6, <1>7, <1>8, <1>9, <1>10, <1>11, <1>12, <1>13, <1>14, <1>15, <1>16
    DEF Next, SrcStep

\* For every payload, window, fault and number of edits: as long as contents
\* never come back, Ok from run_source means that the plan and all payload
\* were read from the content that was fingerprinted first.
THEOREM AuditIsSound ==
    ASSUME ~Reverts
    PROVE  Spec => []AuditSound
  <1>1. ReadBetween => AuditSound
    BY DEF ReadBetween
  <1>2. TypeOK /\ LogShape /\ ReadBetween /\ [Next]_vars => ReadBetween'
    BY ReadBetweenStep
  <1> QED
    BY <1>1, <1>2, TypeCorrect, LogShapeInit, LogShapeStep, ReadBetweenInit, PTL DEF Spec

----------------------------------------------------------------------------
(* Done. The frames after the payload have their places in the log, and    *)
(* the destination that waits for Done stands behind StreamEnd, or at the  *)
(* end of a stream on which nothing more arrives.                          *)

LogEnd ==
    /\ srcPc \in {"done", "audit"} => pos = Len(calls)
    /\ srcPc = "done" => Len(sent) = pos + 2
    /\ \A i \in 1 .. Len(sent) :
         /\ sent[i].kind = "StreamEnd" => pos = Len(calls) /\ i = pos + 2
         /\ sent[i].kind = "Done" => pos = Len(calls) /\ i = pos + 3 /\ sent[i].arg = srcBytes

\* Nothing is in the log before the plan goes out.
LEMMA LogEndInit == Init => LogEnd
  <1> SUFFICES ASSUME Init PROVE LogEnd
    OBVIOUS
  <1>1. Len(sent) = 0
    BY DEF Init
  <1> QED BY <1>1 DEF Init, LogEnd

\* Damage to the raw bytes of a chunk leaves kinds and arguments alone.
LEMMA CorruptKeeps ==
    ASSUME TypeOK, Corrupt
    PROVE  /\ Len(sent') = Len(sent)
           /\ \A i \in 1 .. Len(sent) :
                sent'[i].kind = sent[i].kind /\ sent'[i].arg = sent[i].arg
  <1>0. sent \in Seq(Frame) /\ Len(sent) \in Nat /\ rd \in Nat
    BY DEF TypeOK
  <1>1. PICK j \in rd + 1 .. Len(sent) : sent' = [sent EXCEPT ![j].intact = FALSE]
    BY DEF Corrupt
  <1>2. sent' = [sent EXCEPT ![j] = [sent[j] EXCEPT !.intact = FALSE]]
    BY <1>1
  <1>3. ASSUME NEW i \in 1 .. Len(sent)
        PROVE  sent'[i].kind = sent[i].kind /\ sent'[i].arg = sent[i].arg
    <2>1. i \in DOMAIN sent /\ sent[i] \in Frame
      BY <1>0
    <2>2. CASE i = j
      <3>1. sent'[i] = [sent[i] EXCEPT !.intact = FALSE]
        BY <1>2, <2>1, <2>2
      <3> QED BY <2>1, <3>1 DEF Frame
    <2>3. CASE i # j
      BY <1>2, <2>1, <2>3
    <2> QED BY <2>2, <2>3
  <1> QED BY <1>0, <1>1, <1>3

\* The data is ended once, behind the last call of stream_out, and Done follows it.
LEMMA LogEndStep == TypeOK /\ LogShape /\ LogEnd /\ [Next]_vars => LogEnd'
  <1> SUFFICES ASSUME TypeOK, LogShape, LogEnd, [Next]_vars PROVE LogEnd'
    OBVIOUS
  <1> USE DEF LogEnd, backend, srcData, source, dstData, destination, fate, stream
  <1>0. /\ sent \in Seq(Frame) /\ Len(sent) \in Nat
        /\ pos \in Nat /\ pos <= Len(calls) /\ Len(calls) \in Nat
    BY DEF TypeOK
  <1>1. CASE UNCHANGED <<srcPc, calls, pos, srcBytes, sent>>
    BY <1>1
  <1>2. CASE SrcFingerprint \/ SrcAnalyze \/ SrcAcceptStream \/ SrcRecvAck
    BY <1>2 DEF SrcFingerprint, SrcAnalyze, SrcAcceptStream, SrcRecvAck, SrcGoto
  <1>3. ASSUME NEW f, sent' = Append(sent, f)
        PROVE  /\ Len(sent') = Len(sent) + 1
               /\ sent'[Len(sent) + 1] = f
               /\ \A i \in 1 .. Len(sent) : sent'[i] = sent[i]
    BY <1>0, <1>3
  <1>4. CASE SrcSendPlan
    <2> DEFINE f == ControlFrame("Plan", 0, plan)
    <2>1. /\ sent' = Append(sent, f) /\ UNCHANGED <<calls, pos, srcBytes>>
          /\ srcPc' = "recv_ack" /\ Len(sent) = 0
      BY <1>4 DEF SrcSendPlan, SrcSend, SrcGoto, LogShape
    <2>2. f.kind = "Plan"
      BY DEF ControlFrame
    <2> HIDE DEF f
    <2> QED BY <1>0, <1>3, <2>1, <2>2
  <1>5. CASE SrcStreamOut
    <2> DEFINE f == DataFrame(calls[pos + 1], version)
    <2>1. /\ sent' = Append(sent, f) /\ calls' = calls /\ pos < Len(calls)
          /\ srcPc' = "stream_out"
      BY <1>5 DEF SrcStreamOut, SrcSend, SrcGoto
    <2>2. f.kind \in {"ChunkStart", "ItemEnd"}
      BY DEF DataFrame
    <2> HIDE DEF f
    <2>3. ASSUME NEW i \in 1 .. Len(sent') PROVE sent'[i].kind \notin {"StreamEnd", "Done"}
      <3>1. CASE i = Len(sent) + 1
        BY <1>3, <2>1, <2>2, <3>1
      <3>2. CASE i # Len(sent) + 1
        BY <1>0, <1>3, <2>1, <3>2
      <3> QED BY <3>1, <3>2
    <2> QED BY <2>1, <2>3
  <1>6. CASE SrcFinish
    <2> DEFINE f == ControlFrame("StreamEnd", 0, fpBefore)
    <2>1. /\ sent' = Append(sent, f) /\ UNCHANGED <<calls, pos, srcBytes>>
          /\ srcPc' = "done" /\ pos = Len(calls) /\ Len(sent) = pos + 1
      BY <1>6 DEF SrcFinish, SrcSend, SrcGoto, LogShape
    <2>2. f.kind = "StreamEnd"
      BY DEF ControlFrame
    <2> HIDE DEF f
    <2> QED BY <1>0, <1>3, <2>1, <2>2
  <1>7. CASE SrcSendDone
    <2> DEFINE f == ControlFrame("Done", srcBytes, fpBefore)
    <2>1. /\ sent' = Append(sent, f) /\ UNCHANGED <<calls, pos, srcBytes>>
          /\ srcPc' = "audit" /\ pos = Len(calls) /\ Len(sent) = pos + 2
      BY <1>7 DEF SrcSendDone, SrcSend, SrcGoto
    <2>2. f.kind = "Done" /\ f.arg = srcBytes
      BY DEF ControlFrame
    <2> HIDE DEF f
    <2> QED BY <1>0, <1>3, <2>1, <2>2
  <1>8. CASE SrcRecvNack \/ SrcChunkTooLarge \/ SrcAudit \/ SrcFail \/ SrcFault \/ SrcCrash
    BY <1>8 DEF SrcRecvNack, SrcChunkTooLarge, SrcAudit, SrcFail, SrcFault, SrcCrash, SrcReturn
  <1>9. CASE DstStep
    BY <1>1, <1>9 DEF DstStep, DstOpenStream, DstRecvPlan, DstValidate, DstDecide, DstSendAck,
       DstSendNack, DstApply, DstBadChunk, DstEnd, DstRecvDone, DstFail
  <1>10. CASE DstFault \/ DstCrash \/ Edit \/ Break
    BY <1>1, <1>10 DEF DstFault, DstCrash, Edit, Break
  <1>11. CASE Corrupt
    <2>1. UNCHANGED <<srcPc, calls, pos, srcBytes>>
      BY <1>11 DEF Corrupt
    <2> QED BY <1>11, <2>1, CorruptKeeps
  <1>12. CASE UNCHANGED vars
    BY <1>1, <1>12 DEF vars
  <1> QED
    BY <1>2, <1>4, <1>5, <1>6, <1>7, <1>8, <1>9, <1>10, <1>11, <1>12 DEF Next, SrcStep

\* The byte counters of both sides are the same running total of the calls, the
\* source's after pos of them, the destination's after those it has applied.
RunningTotal(t) ==
    /\ t[0] = 0
    /\ \A i \in 1 .. pos : t[i] = t[i - 1] + calls[i].len
    /\ srcBytes = t[pos] /\ dstBytes = t[Len(applied)]

Counted == \E t : t \in [Nat -> Nat] /\ RunningTotal(t)

\* A running total can be continued by one more call.
LEMMA Continued ==
    ASSUME NEW t, t \in [Nat -> Nat], NEW n \in Nat, NEW v \in Nat
    PROVE  \E u : /\ u \in [Nat -> Nat]
                  /\ u[n + 1] = v
                  /\ \A i \in 0 .. n : u[i] = t[i]
  <1> DEFINE u == [t EXCEPT ![n + 1] = v]
  <1>1. u \in [Nat -> Nat] /\ u[n + 1] = v /\ \A i \in 0 .. n : u[i] = t[i]
    OBVIOUS
  <1> QED BY <1>1

\* The running total of an empty log is zero.
LEMMA CountedInit == Init => Counted
  <1> SUFFICES ASSUME Init PROVE Counted
    OBVIOUS
  <1> DEFINE t == [n \in Nat |-> 0]
  <1>1. pos = 0 /\ srcBytes = 0 /\ dstBytes = 0 /\ Len(applied) = 0
    BY DEF Init
  <1>2. t \in [Nat -> Nat] /\ RunningTotal(t)
    BY <1>1 DEF RunningTotal
  <1> QED BY <1>2 DEF Counted

\* A call goes out: the total is continued. A frame is applied: it is one that the
\* source has counted.
LEMMA CountedStep ==
    TypeOK /\ LogShape /\ ReadShape /\ AppliedInOrder /\ Counted /\ [Next]_vars => Counted'
  <1> SUFFICES ASSUME TypeOK, LogShape, ReadShape, AppliedInOrder, Counted, [Next]_vars
               PROVE  Counted'
    OBVIOUS
  <1> USE DEF backend, srcData, source, dstData, destination, fate, stream
  <1>0. /\ sent \in Seq(Frame) /\ applied \in Seq(Frame) /\ Len(applied) \in Nat
        /\ pos \in Nat /\ pos <= Len(calls) /\ Len(calls) \in Nat /\ Len(sent) \in Nat
        /\ Len(applied) <= pos
    BY DEF TypeOK, AppliedInOrder
  <1>1. PICK t : t \in [Nat -> Nat] /\ RunningTotal(t)
    BY DEF Counted
  <1>2. CASE UNCHANGED <<calls, pos, srcBytes, dstBytes, applied>>
    BY <1>1, <1>2 DEF Counted, RunningTotal
  <1>3. CASE SrcStreamOut
    <2> DEFINE len == calls[pos + 1].len
    <2>1. /\ pos' = pos + 1 /\ srcBytes' = srcBytes + len /\ pos < Len(calls)
          /\ UNCHANGED <<calls, dstBytes, applied>>
      BY <1>3 DEF SrcStreamOut, SrcSend
    <2>2. calls[pos + 1] \in Call
      BY <1>0, <2>1, CallTyped
    <2>3. len \in Nat
      BY <2>2 DEF Call
    <2> HIDE DEF len
    <2>4. PICK u : /\ u \in [Nat -> Nat]
                   /\ u[pos + 1] = t[pos] + len
                   /\ \A i \in 0 .. pos : u[i] = t[i]
      <3>1. t \in [Nat -> Nat] /\ pos \in Nat
        BY <1>0, <1>1
      <3>2. t[pos] \in Nat
        BY ONLY <3>1
      <3>3. t[pos] + len \in Nat
        BY ONLY <2>3, <3>2
      <3> QED BY ONLY <3>1, <3>3, Continued
    <2>5. ASSUME NEW i \in 1 .. pos + 1 PROVE u[i] = u[i - 1] + calls[i].len
      <3>1. CASE i = pos + 1
        <4>1. u[i - 1] = t[pos]
          BY <1>0, <2>4, <3>1
        <4> QED BY <2>4, <3>1, <4>1 DEF len
      <3>2. CASE i # pos + 1
        <4>1. i \in 1 .. pos /\ i - 1 \in 0 .. pos /\ i \in 0 .. pos
          BY <1>0, <3>2
        <4>2. t[i] = t[i - 1] + calls[i].len
          BY <1>1, <4>1 DEF RunningTotal
        <4> QED BY <2>4, <4>1, <4>2
      <3> QED BY <3>1, <3>2
    <2>6. u[0] = 0 /\ srcBytes' = u[pos + 1] /\ dstBytes' = u[Len(applied)]
      BY <1>0, <1>1, <2>1, <2>4 DEF RunningTotal
    <2>7. RunningTotal(u)'
      <3>1. \A i \in 1 .. pos' : u[i] = u[i - 1] + calls'[i].len
        BY <2>1, <2>5
      <3>2. srcBytes' = u[pos'] /\ dstBytes' = u[Len(applied')]
        BY <2>1, <2>6
      <3> QED BY <2>6, <3>1, <3>2 DEF RunningTotal
    <2> QED BY <2>4, <2>7 DEF Counted
  <1>4. CASE DstApply
    <2> DEFINE f == sent[rd + 1]
    <2>1. /\ dstPc = "stream_in" /\ IsData(f) /\ dstBytes' = dstBytes + f.len
          /\ applied' = Append(applied, f)
          /\ UNCHANGED <<calls, pos, srcBytes>>
      BY <1>4 DEF DstApply, IsData
    <2>2. rd + 1 \in 1 .. Len(sent) /\ rd = Len(applied) + 1
      BY <1>0, <1>4, <2>1 DEF DstApply, FrameHere, TypeOK, ReadShape
    <2>3. rd + 1 \in 2 .. pos + 1 /\ Carries(f, calls[(rd + 1) - 1])
      BY <2>1, <2>2 DEF LogShape
    <2>4. f.len = calls[rd].len /\ rd \in 1 .. pos
      BY <1>0, <2>2, <2>3 DEF Carries
    <2> HIDE DEF f
    <2>5. Len(applied') = rd
      BY <1>0, <2>1, <2>2
    <2>6. t[rd] = t[rd - 1] + calls[rd].len /\ dstBytes = t[rd - 1]
      <3>1. Len(applied) = rd - 1
        BY <1>0, <2>2
      <3> QED BY <1>1, <2>4, <3>1 DEF RunningTotal
    <2>7. RunningTotal(t)'
      BY <1>1, <2>1, <2>4, <2>5, <2>6 DEF RunningTotal
    <2> QED BY <1>1, <2>7 DEF Counted
  <1>5. CASE SrcFingerprint \/ SrcAnalyze \/ SrcAcceptStream \/ SrcSendPlan \/ SrcRecvAck
             \/ SrcRecvNack \/ SrcChunkTooLarge \/ SrcFinish \/ SrcSendDone \/ SrcAudit \/ SrcFail
    BY <1>2, <1>5 DEF SrcFingerprint, SrcAnalyze, SrcAcceptStream, SrcSendPlan, SrcRecvAck,
       SrcRecvNack, SrcChunkTooLarge, SrcFinish, SrcSendDone, SrcAudit, SrcFail, SrcSend
  <1>6. CASE DstOpenStream \/ DstRecvPlan \/ DstValidate \/ DstDecide \/ DstSendAck
             \/ DstSendNack \/ DstBadChunk \/ DstEnd \/ DstRecvDone \/ DstFail
    BY <1>2, <1>6 DEF DstOpenStream, DstRecvPlan, DstValidate, DstDecide, DstSendAck,
       DstSendNack, DstBadChunk, DstEnd, DstRecvDone, DstFail
  <1>7. CASE SrcFault \/ DstFault \/ SrcCrash \/ DstCrash \/ Edit \/ Break \/ Corrupt
    BY <1>2, <1>7 DEF SrcFault, DstFault, SrcCrash, DstCrash, Edit, Break, Corrupt
  <1>8. CASE UNCHANGED vars
    BY <1>2, <1>8 DEF vars
  <1> QED
    BY <1>3, <1>4, <1>5, <1>6, <1>7, <1>8 DEF Next, SrcStep, DstStep

ReadEnd ==
    /\ dstRes = "none" <=> dstPc # "ended"
    /\ dstPc \in {"stream_in", "recv_done"} => decision = "accepted"
    /\ dstPc = "recv_done" =>
         \/ rd = Len(applied) + 2 /\ sent[rd].kind = "StreamEnd"
         \/ link = "down" /\ rd >= arrives
    /\ doneTotal # -1 =>
         /\ dstPc = "ended" /\ dstRes \in {"ok", "crash"}
         /\ Len(applied) = Len(calls) /\ pos = Len(calls)
         /\ doneTotal = srcBytes /\ doneTotal = dstBytes

\* No Done has been read at the start.
LEMMA ReadEndInit == Init => ReadEnd
  BY DEF Init, ReadEnd

\* Done is read only behind StreamEnd: what ends the data early on an EOF is an EOF
\* for the read of Done too.
LEMMA ReadEndStep ==
    TypeOK /\ LogShape /\ LogEnd /\ ReadShape /\ Counted /\ ReadEnd /\ [Next]_vars => ReadEnd'
  <1> SUFFICES ASSUME TypeOK, LogShape, LogEnd, ReadShape, Counted, ReadEnd, [Next]_vars
               PROVE  ReadEnd'
    OBVIOUS
  <1> USE DEF ReadEnd, backend, srcData, source, dstData, destination, fate, stream
  <1>0. /\ sent \in Seq(Frame) /\ Len(sent) \in Nat
        /\ applied \in Seq(Frame) /\ Len(applied) \in Nat
        /\ rd \in Nat /\ rd <= Len(sent) /\ arrives \in Nat
        /\ pos \in Nat /\ pos <= Len(calls) /\ Len(calls) \in Nat
        /\ link \in {"up", "down"} /\ dstRes \in DstResults
    BY DEF TypeOK
  <1>1. CASE UNCHANGED <<dstPc, dstRes, decision, rd, applied, sent, fate, doneTotal, calls, pos,
                         srcBytes, dstBytes>>
    BY <1>1
  \* The log only grows at its end.
  <1>2. ASSUME NEW f, sent' = Append(sent, f),
               UNCHANGED <<dstPc, dstRes, decision, rd, applied, fate, doneTotal, calls, dstBytes>>,
               \/ UNCHANGED <<pos, srcBytes>>
               \/ pos # Len(calls)
        PROVE  ReadEnd'
    <2>1. \A i \in 1 .. Len(sent) : sent'[i] = sent[i]
      BY <1>0, <1>2
    <2>2. dstPc = "recv_done" /\ rd = Len(applied) + 2 => sent'[rd] = sent[rd]
      BY <1>0, <2>1
    <2> QED BY <1>2, <2>2
  <1>3. CASE SrcSendPlan
    BY <1>2, <1>3 DEF SrcSendPlan, SrcSend
  <1>4. CASE SrcStreamOut
    <2>1. pos # Len(calls)
      BY <1>0, <1>4 DEF SrcStreamOut
    <2> QED BY <1>2, <1>4, <2>1 DEF SrcStreamOut, SrcSend
  <1>5. CASE SrcFinish \/ SrcSendDone
    BY <1>2, <1>5 DEF SrcFinish, SrcSendDone, SrcSend
  <1>6. CASE SrcFingerprint \/ SrcAnalyze \/ SrcAcceptStream \/ SrcRecvAck
    BY <1>1, <1>6 DEF SrcFingerprint, SrcAnalyze, SrcAcceptStream, SrcRecvAck
  \* What has stopped arriving does not come back.
  <1>7. ASSUME NEW lossy, TakeDown(lossy),
               UNCHANGED <<dstPc, dstRes, decision, rd, applied, sent, doneTotal, calls, pos,
                           srcBytes, dstBytes>>
        PROVE  ReadEnd'
    BY <1>0, <1>7 DEF TakeDown
  <1>8. CASE SrcRecvNack \/ SrcChunkTooLarge \/ SrcAudit \/ SrcFail \/ SrcFault \/ SrcCrash \/ Break
    BY <1>7, <1>8 DEF SrcRecvNack, SrcChunkTooLarge, SrcAudit, SrcFail, SrcFault, SrcCrash, Break,
       SrcReturn
  <1>9. CASE DstOpenStream \/ DstRecvPlan \/ DstValidate \/ DstApply
    BY <1>0, <1>9 DEF DstOpenStream, DstRecvPlan, DstValidate, DstApply, DstGoto
  <1>10. CASE DstDecide \/ DstSendAck
    BY <1>0, <1>10 DEF DstDecide, DstSendAck, DstGoto
  <1>11. CASE DstSendNack \/ DstBadChunk \/ DstFail \/ DstFault \/ DstCrash
    BY <1>0, <1>11 DEF DstSendNack, DstBadChunk, DstFail, DstFault, DstCrash, DstReturn
  <1>12. CASE DstEnd
    <2>1. /\ dstPc = "stream_in" /\ dstPc' = "recv_done" /\ rd = Len(applied) + 1
          /\ UNCHANGED <<dstRes, decision, applied, sent, link, arrives, doneTotal>>
      BY <1>12 DEF DstEnd, DstGoto, ReadShape
    <2>2. CASE FrameHere /\ sent[rd + 1].kind = "StreamEnd" /\ rd' = rd + 1
      BY <1>0, <2>1, <2>2
    <2>3. CASE AtEof /\ UNCHANGED rd
      BY <1>0, <2>1, <2>3 DEF AtEof
    <2> QED BY <1>12, <2>2, <2>3 DEF DstEnd
  <1>13. CASE DstRecvDone
    <2>1. /\ dstPc = "recv_done" /\ dstPc' = "ended" /\ dstRes' = "ok" /\ doneTotal = -1
          /\ UNCHANGED <<decision, applied, calls, pos, srcBytes, dstBytes>>
      BY <1>13 DEF DstRecvDone, DstReturn
    <2>2. CASE FrameHere /\ sent[rd + 1].kind = "Done" /\ doneTotal' = sent[rd + 1].arg
      <3>1. rd + 1 \in 1 .. Len(sent) /\ ~(link = "down" /\ rd >= arrives)
        BY <1>0, <2>2 DEF FrameHere, TypeOK
      <3>2. rd = Len(applied) + 2 /\ sent[rd].kind = "StreamEnd" /\ rd \in 1 .. Len(sent)
        BY <1>0, <2>1, <3>1
      <3>3. pos = Len(calls) /\ rd = pos + 2
        BY <3>2 DEF LogEnd
      <3>4. Len(applied) = pos
        BY <1>0, <3>2, <3>3
      <3>5. sent[rd + 1].arg = srcBytes
        BY <2>2, <3>1 DEF LogEnd
      <3>6. dstBytes = srcBytes
        BY <3>4 DEF Counted, RunningTotal
      <3> QED BY <2>1, <2>2, <3>3, <3>4, <3>5, <3>6
    <2>3. CASE AtEof /\ UNCHANGED doneTotal
      BY <2>1, <2>3
    <2> QED BY <1>13, <2>2, <2>3 DEF DstRecvDone
  <1>14. CASE Edit
    BY <1>1, <1>14 DEF Edit
  <1>15. CASE Corrupt
    <2>1. UNCHANGED <<dstPc, dstRes, decision, rd, applied, fate, doneTotal, calls, pos, srcBytes,
                      dstBytes>>
      BY <1>15 DEF Corrupt
    <2>2. dstPc = "recv_done" /\ rd = Len(applied) + 2 => sent'[rd].kind = sent[rd].kind
      BY <1>0, <1>15, CorruptKeeps
    <2> QED BY <2>1, <2>2
  <1>16. CASE UNCHANGED vars
    BY <1>1, <1>16 DEF vars
  <1> QED
    BY <1>3, <1>4, <1>5, <1>6, <1>8, <1>9, <1>10, <1>11, <1>12, <1>13, <1>14, <1>15, <1>16
    DEF Next, SrcStep, DstStep

\* Everything the session's invariants say, together.
Inv == TypeOK /\ Approval /\ LogShape /\ ReadShape /\ LogEnd /\ Counted /\ ReadEnd

\* The invariants hold together in every state of a run.
LEMMA InvAlways == Spec => []Inv
  <1>1. Init => Inv
    BY TypeInit, ApprovalInit, LogShapeInit, ReadShapeInit, LogEndInit, CountedInit, ReadEndInit
    DEF Inv
  <1>2. Inv /\ [Next]_vars => Inv'
    BY TypeStep, ApprovalStep, LogShapeStep, ReadShapeStep, LogEndStep, CountedStep, ReadEndStep,
       InOrder DEF Inv
  <1> QED BY <1>1, <1>2, PTL DEF Spec

\* As many frames applied as there are calls: the restore is the payload.
LEMMA WholeByLength ==
    TypeOK /\ AppliedInOrder /\ Len(applied) = Len(calls) => Whole
  <1> SUFFICES ASSUME TypeOK, AppliedInOrder, Len(applied) = Len(calls) PROVE Whole
    OBVIOUS
  <1>1. applied \in Seq(Frame) /\ calls \in Seq(Call)
    BY DEF TypeOK
  <1>2. DOMAIN applied = 1 .. Len(calls) /\ DOMAIN calls = 1 .. Len(calls)
    BY <1>1
  <1>3. calls = [i \in 1 .. Len(calls) |-> calls[i]]
    BY <1>1, <1>2
  <1>4. \A i \in 1 .. Len(calls) : CallOf(applied[i]) = calls[i]
    BY <1>1, <1>2 DEF AppliedInOrder, Restored
  <1>5. Restored = [i \in 1 .. Len(calls) |-> CallOf(applied[i])]
    BY <1>2 DEF Restored
  <1> QED BY <1>3, <1>4, <1>5 DEF Whole

\* For every payload, window and fault: a destination that has read Done holds the
\* whole payload, and the total of the frame is what it has counted.
THEOREM DoneIsWhole == Spec => []DoneMeansWhole
  <1>1. Inv => DoneMeansWhole
    BY InOrder, WholeByLength DEF Inv, ReadEnd, DoneMeansWhole
  <1> QED BY <1>1, InvAlways, PTL

----------------------------------------------------------------------------
(* The refinement of TransferContract, step by step.                       *)

\* The first state of a run is a first state of the contract.
LEMMA ContractInit == Init => Contract!Init
  <1> SUFFICES ASSUME Init PROVE Contract!Init
    OBVIOUS
  <1>1. Restored = <<>>
    BY DEF Init, Restored
  <1> QED BY <1>1 DEF Init, Verdict, Contract!Init

\* A step that gives the backend nothing, decides nothing and returns nothing.
LEMMA Stutters ==
    ASSUME UNCHANGED <<calls, decision, applied, dstRes, doneTotal>>
    PROVE  UNCHANGED Contract!vars
  BY DEF Contract!vars, Restored, Verdict

\* A return without Done.
LEMMA GivesUp ==
    ASSUME dstRes = "none", dstRes' # "none", doneTotal' = -1 \/ dstRes' # "ok",
           UNCHANGED <<calls, decision, applied>>
    PROVE  Contract!GiveUp
  BY DEF Contract!GiveUp, Restored, Verdict

\* Every step of a run answers, restores the next part, gives the verdict, or leaves the
\* contract's variables alone.
LEMMA ContractStep == Inv /\ Inv' /\ [Next]_vars => [Contract!Next]_(Contract!vars)
  <1> SUFFICES ASSUME Inv, Inv', [Next]_vars PROVE [Contract!Next]_(Contract!vars)
    OBVIOUS
  <1> USE DEF backend, srcData, source, dstData, destination, fate, stream
  <1>0. /\ applied \in Seq(Frame) /\ Len(applied) \in Nat /\ calls \in Seq(Call)
        /\ Len(calls) \in Nat /\ pos' <= Len(calls)' /\ pos' \in Nat
        /\ TypeOK /\ AppliedInOrder /\ AppliedInOrder'
    <2>1. TypeOK /\ LogShape /\ ReadShape => AppliedInOrder
      BY InOrder
    <2>2. (TypeOK /\ LogShape /\ ReadShape => AppliedInOrder)'
      BY InOrder, PTL
    <2>3. AppliedInOrder /\ AppliedInOrder'
      BY <2>1, <2>2 DEF Inv
    <2>4. TypeOK /\ TypeOK'
      BY DEF Inv
    <2>5. applied \in Seq(Frame) /\ calls \in Payloads
      BY <2>4 DEF TypeOK
    <2>6. calls' \in Payloads /\ pos' \in 0 .. Len(calls')
      BY <2>4 DEF TypeOK
    <2>7. /\ calls \in Seq(Call) /\ Len(calls) \in Nat /\ Len(calls') \in Nat
          /\ Len(applied) \in Nat
      BY <2>5, <2>6
    <2> QED BY <2>3, <2>4, <2>5, <2>6, <2>7
  <1>1. CASE UNCHANGED <<calls, decision, applied, dstRes, doneTotal>>
    BY <1>1, Stutters
  <1>2. CASE SrcStep \/ SrcFault \/ SrcCrash
    BY <1>1, <1>2 DEF SrcStep, SrcFingerprint, SrcAnalyze, SrcAcceptStream, SrcSendPlan, SrcRecvAck,
       SrcRecvNack, SrcStreamOut, SrcChunkTooLarge, SrcFinish, SrcSendDone, SrcAudit, SrcFail,
       SrcSend, SrcFault, SrcCrash
  <1>3. CASE Edit \/ Break \/ Corrupt
    BY <1>1, <1>3 DEF Edit, Break, Corrupt
  <1>4. CASE DstOpenStream \/ DstRecvPlan \/ DstValidate \/ DstSendAck \/ DstEnd
    BY <1>1, <1>4 DEF DstOpenStream, DstRecvPlan, DstValidate, DstSendAck, DstEnd, DstGoto
  <1>5. CASE DstDecide
    <2>1. /\ decision = "none" /\ dstRes = "none" /\ decision' \in {"accepted", "rejected"}
          /\ UNCHANGED <<calls, applied, dstRes, doneTotal>>
      BY <1>5 DEF DstDecide, DstGoto, Inv, Approval, ReadEnd
    <2>2. Contract!Answer
      BY <2>1 DEF Contract!Answer, Restored, Verdict
    <2> QED BY <2>2 DEF Contract!Next
  <1>6. CASE DstApply
    <2> DEFINE f == sent[rd + 1]
               n == Len(applied)
    <2>1. /\ decision = "accepted" /\ dstRes = "none" /\ applied' = Append(applied, f)
          /\ UNCHANGED <<calls, decision, dstRes, doneTotal>>
      BY <1>6 DEF DstApply, DstGoto, Inv, ReadEnd
    <2> HIDE DEF f
    <2>2. /\ DOMAIN applied = 1 .. n /\ Len(applied') = n + 1 /\ DOMAIN applied' = 1 .. n + 1
          /\ \A i \in 1 .. n : applied'[i] = applied[i]
      BY <1>0, <2>1
    <2>3. n + 1 <= Len(calls)
      BY <1>0, <2>1, <2>2 DEF AppliedInOrder
    <2>4. Restored'[n + 1] = calls[n + 1]
      BY <1>0, <2>1, <2>2 DEF AppliedInOrder
    <2>5. Restored' = Append(Restored, calls[n + 1]) /\ Len(Restored) = n /\ Restored # calls
      <3>1. Restored = [i \in 1 .. n |-> CallOf(applied[i])]
        BY <2>2 DEF Restored
      <3>2. Restored' = [i \in 1 .. n + 1 |-> CallOf(applied'[i])]
        BY <2>2 DEF Restored
      <3>3. CallOf(applied'[n + 1]) = calls[n + 1]
        BY <1>0, <2>4, <3>2
      <3>4. Len(Restored) = n
        BY <1>0, <3>1
      <3>5. Restored # calls
        BY <1>0, <2>3, <3>4
      <3>6. Restored' = Append(Restored, calls[n + 1])
        BY <1>0, <2>2, <3>1, <3>2, <3>3, <3>4
      <3> QED BY <3>4, <3>5, <3>6
    <2>6. Contract!Restore
      BY <2>1, <2>5 DEF Contract!Restore, Verdict
    <2> QED BY <2>6 DEF Contract!Next
  <1>7. CASE DstSendNack \/ DstBadChunk \/ DstFail \/ DstFault \/ DstCrash
    <2>1. /\ dstRes = "none" /\ dstRes' # "none" /\ dstRes' # "ok"
          /\ UNCHANGED <<calls, decision, applied>>
      BY <1>7 DEF DstSendNack, DstBadChunk, DstFail, DstFault, DstCrash, DstReturn, Inv, ReadEnd
    <2>2. Contract!GiveUp
      BY <2>1, GivesUp
    <2> QED BY <2>2 DEF Contract!Next
  <1>8. CASE DstRecvDone
    <2>1. /\ dstRes = "none" /\ dstRes' = "ok" /\ decision = "accepted" /\ doneTotal = -1
          /\ UNCHANGED <<calls, decision, applied>>
      BY <1>8 DEF DstRecvDone, DstReturn, Inv, ReadEnd
    <2>2. CASE doneTotal' = -1
      <3>1. Contract!GiveUp
        BY <2>1, <2>2, GivesUp
      <3> QED BY <3>1 DEF Contract!Next
    <2>3. CASE doneTotal' # -1
      <3>1. Len(applied) = Len(calls)
        BY <2>1, <2>3 DEF Inv, ReadEnd
      <3>2. Restored = calls
        BY <1>0, <3>1, WholeByLength DEF Whole
      <3>3. Contract!Confirm
        BY <2>1, <2>3, <3>2 DEF Contract!Confirm, Restored, Verdict
      <3> QED BY <3>3 DEF Contract!Next
    <2> QED BY <2>2, <2>3
  <1>9. CASE UNCHANGED vars
    BY <1>1, <1>9 DEF vars
  <1> QED
    BY <1>2, <1>3, <1>4, <1>5, <1>6, <1>7, <1>8, <1>9 DEF Next, DstStep

\* For every payload, window and fault, a run implements the destination's contract:
\* one answer, the parts in order after a yes, confirmation only of a whole.
THEOREM ContractKept == Spec => KeepsContract
  BY InvAlways, ContractInit, ContractStep, PTL DEF Spec, KeepsContract, Contract!Spec
=============================================================================
