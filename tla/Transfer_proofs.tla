--------------------------- MODULE Transfer_proofs ---------------------------
(***************************************************************************)
(* For every set of files and chunks, any number of streams and any number  *)
(* of kills, edits, failed writes and late streams: a file is left out of    *)
(* the hashing only when all its chunks are of this run, what is committed  *)
(* is whole and the sender's, what was there before is kept until the new   *)
(* content is, and a sender that returned Ok finds what it sent at the      *)
(* destination - but for chunks of which a write failed or is late.         *)
(***************************************************************************)
EXTENDS Transfer, FiniteSetTheorems, TLAPS

Versions == [Files -> Nat]
Content  == [Chunks -> [is : Int, due : SUBSET Nat]]
Frame    == [k : {"chunk"}, c : Chunks, v : Nat] \cup [k : {"done"}]
ToRcv    == [k : {"manifest", "summary"}, man : Versions]
ToSnd    == [k : {"accepted"}, done : SUBSET Chunks] \cup [k : {"completed"}, man : Versions]
            \cup [k : {"error"}]
Flushers == {"flush", "last", "lastOld", "lastErr"}
RwStates == {"off", "run", "write", "mark", "ended", "spent", "err"} \cup Flushers
Hand     == [c : Chunks, v : Nat, next : {"run", "lastOld", "lastErr"}]
Singles  == {"root", "root (1)"}

\* The variables hold what the code's types say.
SourceTyped == src \in Versions /\ man \in Versions /\ rman \in Versions /\ torn \subseteq Files
QueueTyped == todo \subseteq 1 .. Len(Tasks) /\ wk \in [Workers -> {"off", "run", "wait", "ok"}]
NetTyped ==
    /\ toR \in Seq(ToRcv) /\ toS \in Seq(ToSnd)
    /\ pipe \in [Workers -> Seq(Frame)] /\ stray \in Seq(Seq(Frame))
MemTyped ==
    /\ had \subseteq Chunks /\ done \subseteq Chunks /\ fresh \in [Files -> Nat]
    /\ rw \in [Workers -> RwStates] /\ hand \in [Workers -> Hand \cup {NoHand}]
    /\ busy \subseteq [w : Workers, c : Chunks, v : Nat]
    /\ flush \in [step : {"idle", "remove", "rename"}, done : SUBSET Chunks, by : Nat]
    /\ final \in Names /\ (final \in Singles \/ rp \in {"commit", "swap", "backup", "ack"})
DiskTyped ==
    /\ stage \in Content /\ dest \in [Names -> Content] /\ backup \in [Names -> Content]
    /\ state \in [present : BOOLEAN, man : Versions, done : SUBSET Chunks, final : Singles]
    /\ astray \subseteq Chunks
Typed == multi \in BOOLEAN /\ SourceTyped /\ QueueTyped /\ NetTyped /\ MemTyped /\ DiskTyped

-----------------------------------------------------------------------------
\* Nobody is being received.
Idle == rp \in {"listen", "down"}
NotBegun == Idle \/ rp \in {"recheck", "confirm"}

\* The manifest under way is that of the sender there is.
SameManifest ==
    /\ ~Idle => rman = man
    /\ \A i \in 1 .. Len(toR) : toR[i].man = man

\* Before the first stream nothing is in memory but the resume plan.
NoStreams == \A w \in Workers : rw[w] = "off"
CleanStart ==
    /\ NotBegun => NoStreams
    /\ NotBegun \/ (rp = "stream" /\ NoStreams) => fresh = NoCount /\ done = had
    /\ rp = "stream" => had \subseteq done
    /\ rp = "stream" /\ had = Chunks => NoStreams
    /\ rp \in {"stream", "reset"} \/ flush.step = "idle"

\* The streams are taken in the order of their numbers.
InOrder == \A w, x \in Workers : rw[w] # "off" /\ x < w => rw[x] # "off"

\* A handler has a chunk in hand while it writes and marks it.
Holding == \A w \in Workers : rw[w] \in {"write", "mark"} <=> hand[w] \in Hand

\* A flush is that of a handler that waits for it, or of reset_file.
OneFlush ==
    flush.step # "idle" /\ rp = "stream" => flush.by \in Workers /\ rw[flush.by] \in Flushers

Session == SameManifest /\ CleanStart /\ InOrder /\ Holding /\ OneFlush

-----------------------------------------------------------------------------
\* Some handler does not serve a stream of this sender, or has failed.
Excuse == \E w \in Workers : rw[w] \in {"lastOld", "lastErr", "spent", "err"}
                             \/ hand[w].next \in {"lastOld", "lastErr"}

\* A sender starts with nothing under way; what it leaves out is the resume plan.
Asked == (rp = "listen" /\ toR # <<>>) \/ rp = "confirm"
Offer ==
    /\ Idle /\ toR = <<>> => ~up
    /\ (rp = "listen" => Len(toR) <= 1) /\ (rp \in {"confirm", "down"} => toR = <<>>)
    /\ Asked => sp \notin {"sending", "summed"} /\ toS = <<>>
    /\ Asked \/ sp = "offered" => todo = {} /\ pipe = NoPipes
    /\ sp = "offered" => wk = AllOff /\ (rp = "stream" => NoStreams \/ Excuse)
    /\ rp = "stream" => \A i \in 1 .. Len(toS) : toS[i].k = "accepted" => toS[i].done = had

\* The summary is sent when the sender's own streams have ended, or none was needed.
Ended ==
    /\ sp = "sending" /\ rp = "stream" /\ up => \A w \in Workers : wk[w] = "ok" => rw[w] = "ended"
    /\ rp = "stream" /\ HasSummary => had = Chunks \/ \A w \in Workers : rw[w] = "ended"

\* A chunk is in one place: in the queue, on a stream, in a hand, or complete.
InPipe(w, i, c) == i \in 1 .. Len(pipe[w]) /\ pipe[w][i].k = "chunk" /\ pipe[w][i].c = c
InHand(w, c) == hand[w] \in Hand /\ hand[w].c = c
OnePlace ==
    /\ \A i \in todo, w \in Workers :
         /\ Tasks[i] \notin done /\ ~InHand(w, Tasks[i])
         /\ \A j \in 1 .. Len(pipe[w]) : ~InPipe(w, j, Tasks[i])
    /\ \A c \in Chunks, w, x \in Workers : \A j \in 1 .. Len(pipe[w]) : InPipe(w, j, c) =>
         /\ c \notin done /\ ~InHand(x, c)
         /\ \A i \in 1 .. Len(pipe[x]) : InPipe(x, i, c) => x = w /\ i = j
    /\ \A c \in Chunks, w, x \in Workers : InHand(w, c) => c \notin done /\ (InHand(x, c) => x = w)
Once == rp = "stream" /\ ~Excuse => OnePlace

\* So fresh_chunks counts the chunks of this run.
Taken(f) == {c \in ChunksOf(f) : c \in done /\ c \notin had}
Counted == rp = "stream" /\ ~Excuse => \A f \in Files : fresh[f] = Cardinality(Taken(f))

Count == Offer /\ Ended /\ Once /\ Counted

-----------------------------------------------------------------------------
\* No write is under way to a file that is not there.
NoGhost(x) == \A c \in Chunks : x[c].is = None => x[c].due = {}
Good(x, n) == Whole(x, n) /\ \A c \in Chunks \ Within(n) : x[c] = Bytes(None)
Kind(x, n) == x = Absent \/ (Good(x, n) /\ NoGhost(x))

\* What is at the destination, and what was moved out of the way.
Shelf ==
    \A n \in Names :
        /\ Kind(dest[n], n) /\ Kind(backup[n], n)
        /\ backup[n] # Absent => policy = "overwrite" /\ n \in IF multi THEN Files ELSE {"root"}

FinalIsFree ==
    ~multi => /\ final \in Singles /\ (policy = "overwrite" => final = "root")
              /\ (policy = "overwrite" => state.final = "root")

Staging ==
    /\ NoGhost(stage)
    /\ rp \in {"confirm", "stream"} => \A c \in Chunks : stage[c].is # None

\* A chunk taken in this run is what the sender read in it.
DueOwn(c, x) == c \in astray \/ \A v \in x.due : IsOwn(c, v)
Sound(c, x) == DueOwn(c, x) /\ Arrived(c, x)
Own ==
    /\ \A f \in Files : man[f] <= src[f]
    /\ sp \in {"offered", "sending"} => \A f \in Files : f \in torn \/ src[f] = man[f]
    /\ \A w \in Workers : \A i \in 1 .. Len(pipe[w]) :
         pipe[w][i].k = "chunk" => IsOwn(pipe[w][i].c, pipe[w][i].v)
    /\ \A w \in Workers : hand[w].next = "run" => IsOwn(hand[w].c, hand[w].v)
Taking ==
    /\ rp = "confirm" => \A c \in Chunks : DueOwn(c, stage[c])
    /\ rp = "stream" /\ ~Excuse =>
         /\ \A c \in Chunks : DueOwn(c, stage[c])
         /\ \A c \in done \ had : Arrived(c, stage[c])
         /\ \A w \in Workers : rw[w] = "mark" => Arrived(hand[w].c, stage[hand[w].c])

\* commit_stage: what is still staged, what has been moved.
Committing == rp \in {"commit", "swap", "backup"}
Place(c) == IF multi THEN FileOf[c] ELSE final
Commit ==
    /\ Committing =>
         \A c \in Chunks : IF stage[c].is = None THEN dest[Place(c)][c].is # None /\ Sound(c, dest[Place(c)][c])
                           ELSE Sound(c, stage[c])
    /\ Committing =>
         \A n \in Targets : \A c, d \in Within(n) : stage[c].is = None => stage[d].is = None
    /\ rp = "swap" => /\ final \in Targets /\ dest[final] = Absent
                      /\ \A c \in Within(final) : stage[c].is # None
    /\ rp = "backup" => final \in Targets /\ Good(dest[final], final)

\* Completed is sent, and believed, only for what is at the destination.
Here(n) == \A c \in Within(n) : Sound(c, dest[n][c])
Delivered == IF multi THEN \A f \in Files : Here(f) ELSE \E n \in Singles : Here(n)
Deliver ==
    /\ rp \in {"ack", "recheck"} => Delivered
    /\ sp = "ok" \/ (\E i \in 1 .. Len(toS) : toS[i].k = "completed") =>
         Delivered /\ Idle /\ toR = <<>> /\ ~up

-----------------------------------------------------------------------------
\* What a step of the listener leaves behind when receive_transfer returns.
Returns == RcvRefuse \/ RcvReject \/ RcvFails \/ RcvRecheck \/ RcvCompleted \/ CommitRollback
           \/ \E n \in Targets : CommitRefuse(n)

\* The manifest arrives.
Manifests == RcvAlreadyComplete \/ RcvFresh \/ RcvResume

\* The sets of what the listener writes.
StateSet == [present : BOOLEAN, man : Versions, done : SUBSET Chunks, final : Singles]
FlushSet == [step : {"idle", "remove", "rename"}, done : SUBSET Chunks, by : Nat]
ByteSet  == [is : Int, due : SUBSET Nat]

\* The values that stand for nothing are well typed.
LEMMA Constant ==
    /\ Unchanged \in Versions /\ Absent \in Content /\ NoState \in StateSet /\ NoFlush \in FlushSet
    /\ NoFlush.step = "idle" /\ ~NoState.present /\ NoState.final = "root" /\ NoState.done = {}
    /\ NoCount \in [Files -> Nat] /\ NoHands \in [Workers -> Hand \cup {NoHand}]
    /\ NoHand \notin Hand /\ NoHand.next = "none"
    /\ Bytes(None) \in ByteSet /\ Bytes(None).is = None /\ Bytes(None).due = {}
    /\ Bytes(Zero) \in ByteSet /\ Bytes(Zero).is = Zero /\ Bytes(Zero).due = {}
<1>0. /\ Bytes(None) \in ByteSet /\ Bytes(None).is = None /\ Bytes(None).due = {}
      /\ Bytes(Zero) \in ByteSet /\ Bytes(Zero).is = Zero /\ Bytes(Zero).due = {}
  BY DEF Bytes, ByteSet, None, Zero
<1>1. Unchanged \in Versions /\ Absent \in Content
  BY <1>0 DEF Unchanged, Versions, Absent, Content, ByteSet
<1>2. NoState \in StateSet /\ ~NoState.present /\ NoState.final = "root" /\ NoState.done = {}
  BY <1>1 DEF NoState, Singles, StateSet
<1>3. NoFlush \in FlushSet /\ NoFlush.step = "idle"
  BY DEF NoFlush, FlushSet
<1>4. NoHand \notin Hand /\ NoHand.next = "none"
  BY DEF NoHand, Hand
<1>5. NoCount \in [Files -> Nat] /\ NoHands \in [Workers -> Hand \cup {NoHand}]
  BY DEF NoCount, NoHands
<1> QED BY <1>0, <1>1, <1>2, <1>3, <1>4, <1>5

\* When receive_transfer returns, it forgets what it knew and its connections close.
LEMMA Returned ==
    ASSUME Typed, Returns
    PROVE  /\ rp' = "listen" /\ Forget /\ up' = FALSE /\ toR' = <<>> /\ stray' = <<>> /\ pipe' = Untaken
           /\ UNCHANGED <<src_vars, snd_vars>>
           /\ \E last \in ToSnd : toS' = IF up THEN Append(toS, last) ELSE toS
<1>1. Error \in ToSnd /\ [k |-> "completed", man |-> rman] \in ToSnd
  BY DEF Error, ToSnd, Typed, SourceTyped
<1>2. \E last \in ToSnd : RcvReturn(last)
  BY <1>1 DEF Returns, RcvRefuse, RcvReject, RcvFails, RcvRecheck, RcvCompleted, CommitRollback, CommitRefuse
<1>3. UNCHANGED <<src_vars, snd_vars>>
  BY DEF Returns, RcvRefuse, RcvReject, RcvFails, RcvRecheck, RcvCompleted, CommitRollback, CommitRefuse
<1> QED BY <1>2, <1>3 DEF RcvReturn

\* The manifest is that of the first frame.
LEMMA Came ==
    ASSUME Typed, Manifests
    PROVE  /\ rp = "listen" /\ toR # <<>> /\ rman' = Head(toR).man /\ toR' = Tail(toR)
           /\ rp' \in {"recheck", "confirm"} /\ Head(toR) \in ToRcv /\ Head(toR).man \in Versions
           /\ astray' = Late
           /\ UNCHANGED <<src_vars, snd_vars, up, pipe, stray, fresh, pend, flush, rw, hand, busy, dest,
                          backup, faults>>
<1>1. /\ rp = "listen" /\ toR # <<>> /\ rman' = Head(toR).man /\ toR' = Tail(toR)
      /\ rp' \in {"recheck", "confirm"} /\ astray' = Late
  BY DEF Manifests, RcvAlreadyComplete, RcvFresh, RcvResume, HasManifest, Manifest
<1>2. Head(toR) \in ToRcv
  BY <1>1 DEF Typed, NetTyped
<1>3. Head(toR).man \in Versions
  BY <1>2 DEF ToRcv
<1>4. UNCHANGED <<src_vars, snd_vars, up, pipe, stray, fresh, pend, flush, rw, hand, busy, dest,
                  backup, faults>>
  BY DEF Manifests, RcvAlreadyComplete, RcvFresh, RcvResume, res_vars
<1> QED BY <1>1, <1>2, <1>3, <1>4

\* The steps, by what they leave alone.
Sends ==
    \/ SndStart \/ SndAccepted \/ SndCompleted \/ SndFails \/ SndDie
    \/ \E w \in Workers : SndChunk(w) \/ SndWorkerDone(w) \/ SndWorkerComplete(w)
    \/ \E f \in Files : Edit(f)
Notices == RcvStray \/ RcvAccept \/ RcvVerify \/ RcvRestart
Waits == \E w \in Workers : RcvWorker(w) \/ RcvWorkerDone(w) \/ RcvWorkerEof(w) \/ RcvStall(w)
Checks == \E w \in Workers : RcvChunk(w) \/ RcvLeftover(w)
Writes == \E w \in Workers : RcvWrite(w)
Marks == \E w \in Workers : RcvMark(w)
Flushes == (\E w \in Workers : FlushBegin(w)) \/ FlushRemove \/ FlushRename \/ FlushFails
Resets == \E f \in Files : RcvResetFile(f)
Commits ==
    \/ \E n \in Targets : CommitPlace(n) \/ CommitBackup(n)
    \/ CommitSwap \/ CommitRemoveBackup \/ CommitClean
Lands == \E c \in Chunks : \E v \in UnderWay(c) : Land(c, v)
Losses == \E c \in Chunks : \E v \in UnderWay(c) : WriteFails(c, v)

\* Every step is one of these.
LEMMA Steps ==
    ASSUME [Next]_vars
    PROVE  \/ UNCHANGED vars \/ Sends \/ Notices \/ Waits \/ Checks \/ Writes \/ Marks \/ Flushes \/ Resets
           \/ Commits \/ Returns \/ Manifests \/ Lands \/ Losses \/ RcvCrash
BY Zenon DEF Next, SenderNext, ReceiverNext, ManifestNext, StreamNext, CommitNext, DiskNext, Returns, Manifests,
   Sends, Notices, Waits, Checks, Writes, Marks, Flushes, Resets, Commits, Lands, Losses

\* The sender changes nothing of the listener.
LEMMA Sent ==
    ASSUME Sends PROVE UNCHANGED <<policy, multi, rp, mem_vars, disk_vars>>
BY Zenon DEF Sends, SndStart, SndAccepted, SndCompleted, SndFails, SndDie, SndChunk, SndWorkerDone,
   SndWorkerComplete, Edit, src_vars

\* A step that only goes on.
LEMMA Noticed ==
    ASSUME Notices PROVE UNCHANGED <<src_vars, snd_vars, up, pipe, mem_vars, disk_vars>>
BY Zenon DEF Notices, RcvStray, RcvAccept, RcvVerify, RcvRestart, net_vars

\* The next stream to be taken is the first that was not.
LEMMA NextIsFirst ==
    ASSUME MemTyped, InOrder, NEW w \in Workers, w = NextStream
    PROVE  rw[w] = "off" /\ \A x \in Workers : x < w => rw[x] # "off"
<1> DEFINE S == {x \in Workers : rw[x] # "off"}
<1>0. Parallel \in Nat /\ Workers = 1 .. Parallel /\ w \in Nat /\ w >= 1
  BY BoundAssumption DEF Workers
<1>1. IsFiniteSet(Workers)
  BY <1>0, FS_Interval
<1>2. IsFiniteSet(S) /\ S \subseteq Workers
  BY <1>1, FS_Subset
<1>3. w = Cardinality(S) + 1 /\ Cardinality(S) \in Nat
  BY <1>2, FS_CardinalityType DEF NextStream
<1>4. rw[w] = "off"
  <2> SUFFICES ASSUME rw[w] # "off" PROVE FALSE
    OBVIOUS
  <2>1. 1 .. w \subseteq S
    BY <1>0 DEF InOrder
  <2>2. Cardinality(1 .. w) = w
    BY <1>0, FS_Interval
  <2>3. Cardinality(1 .. w) <= Cardinality(S)
    BY <2>1, <1>2, FS_Subset
  <2> QED BY <2>2, <2>3, <1>3, <1>0
<1>5. ASSUME NEW x \in Workers, x < w, rw[x] = "off" PROVE FALSE
  <2>0. x \in Nat /\ x >= 1
    BY <1>0
  <2>1. S \subseteq 1 .. (x - 1)
    BY <1>0, <1>5, <2>0 DEF InOrder
  <2>2. IsFiniteSet(1 .. (x - 1)) /\ Cardinality(1 .. (x - 1)) = x - 1
    BY <2>0, FS_Interval
  <2>3. Cardinality(S) <= x - 1
    BY <2>1, <2>2, FS_Subset
  <2> QED BY <2>3, <2>0, <1>3, <1>0, <1>5
<1> QED BY <1>4, <1>5


\* A handler is started, or one that runs comes to its last flush.
LEMMA Waited ==
    ASSUME MemTyped, InOrder, Waits
    PROVE  /\ rp = "stream"
           /\ \E w \in Workers : \E r \in {"run", "last", "lastErr"} :
                /\ rw' = [rw EXCEPT ![w] = r]
                /\ \/ /\ r = "run" /\ w \in Expected /\ wk[w] # "off" /\ rw[w] = "off"
                      /\ \A x \in Workers : x < w => rw[x] # "off"
                   \/ r # "run" /\ rw[w] = "run"
                /\ pipe' = pipe \/ (pipe[w] # <<>> /\ pipe' = [pipe EXCEPT ![w] = Tail(@)])
           /\ UNCHANGED <<src_vars, snd_vars, toR, toS, up, stray, rp, rman, final, had, done, fresh, pend,
                          flush, hand, busy, stage, state, dest, backup, astray>>
<1>1. CASE \E w \in Workers : RcvWorker(w)
  <2>1. PICK w \in Workers : RcvWorker(w)
    BY <1>1
  <2>2. rw[w] = "off" /\ \A x \in Workers : x < w => rw[x] # "off"
    BY <2>1, NextIsFirst DEF RcvWorker
  <2> QED BY <2>1, <2>2 DEF RcvWorker, net_vars, res_vars, disk_vars
<1>2. CASE \E w \in Workers : RcvWorkerDone(w) \/ RcvWorkerEof(w) \/ RcvStall(w)
  BY <1>2 DEF RcvWorkerDone, RcvWorkerEof, RcvStall, net_vars, res_vars, disk_vars
<1> QED BY <1>1, <1>2 DEF Waits

\* A chunk that is_chunk_complete does not know is in hand.
Held(w, c, v, next) ==
    /\ c \notin done /\ rw' = [rw EXCEPT ![w] = "write"]
    /\ hand' = [hand EXCEPT ![w] = [c |-> c, v |-> v, next |-> next]]
    /\ next = "run" => pipe[w][1].k = "chunk" /\ pipe[w][1].c = c /\ pipe[w][1].v = v

\* A step that takes a frame off a stream, the sender's own or one that was left over.
LEMMA Checked ==
    ASSUME Typed, InOrder, Checks
    PROVE  /\ rp = "stream"
           /\ \E w \in Workers : \E next \in {"run", "lastOld", "lastErr"} :
                /\ \/ /\ next = "run" /\ rw[w] = "run" /\ pipe[w] # <<>>
                      /\ pipe' = [pipe EXCEPT ![w] = Tail(@)]
                   \/ /\ next # "run" /\ w \in Expected /\ rw[w] = "off" /\ pipe' = pipe
                      /\ \A x \in Workers : x < w => rw[x] # "off"
                /\ \/ rw' = [rw EXCEPT ![w] = next] /\ UNCHANGED hand
                   \/ \E c \in Chunks : \E v \in Nat : Held(w, c, v, next)
           /\ UNCHANGED <<src_vars, snd_vars, toR, toS, up, rp, rman, final, had, done, fresh, pend,
                          flush, busy, stage, state, dest, backup, astray>>
<1>0. pipe \in [Workers -> Seq(Frame)] /\ stray \in Seq(Seq(Frame)) /\ MemTyped
  BY DEF Typed, NetTyped
<1>a. ASSUME NEW q \in Seq(Frame), q # <<>>, Head(q).k = "chunk"
      PROVE  Head(q).c \in Chunks /\ Head(q).v \in Nat /\ Head(q) = q[1]
  <2>1. Head(q) \in Frame /\ Head(q) = q[1]
    BY <1>a
  <2> QED BY <2>1, <1>a DEF Frame
<1>1. CASE \E w \in Workers : RcvChunk(w)
  <2>1. PICK w \in Workers : RcvChunk(w)
    BY <1>1
  <2>2. /\ rp = "stream" /\ rw[w] = "run" /\ pipe[w] # <<>> /\ pipe' = [pipe EXCEPT ![w] = Tail(@)]
        /\ UNCHANGED <<src_vars, snd_vars, toR, toS, up, rp, rman, final, had, done, fresh, pend,
                       flush, busy, stage, state, dest, backup, astray>>
    BY <2>1 DEF RcvChunk, res_vars, disk_vars
  <2>3. Head(pipe[w]).c \in Chunks /\ Head(pipe[w]).v \in Nat /\ Head(pipe[w]) = pipe[w][1]
    BY <2>1, <1>0, <1>a DEF RcvChunk
  <2>4. CASE Head(pipe[w]).c \in done
    <3>1. rw' = [rw EXCEPT ![w] = "run"] /\ UNCHANGED hand
      BY <2>1, <2>4 DEF RcvChunk, Check
    <3> QED BY <2>2, <3>1
  <2>5. CASE Head(pipe[w]).c \notin done
    <3>1. Held(w, Head(pipe[w]).c, Head(pipe[w]).v, "run")
      BY <2>1, <2>3, <2>5 DEF RcvChunk, Check, Held
    <3> QED BY <2>2, <2>3, <3>1
  <2> QED BY <2>4, <2>5
<1>2. CASE \E w \in Workers : RcvLeftover(w)
  <2>1. PICK w \in Workers : RcvLeftover(w)
    BY <1>2
  <2>2. rw[w] = "off" /\ (\A x \in Workers : x < w => rw[x] # "off") /\ w \in Expected
    BY <2>1, <1>0, NextIsFirst DEF RcvLeftover
  <2>3. /\ rp = "stream" /\ pipe' = pipe
        /\ UNCHANGED <<src_vars, snd_vars, toR, toS, up, rp, rman, final, had, done, fresh, pend,
                       flush, busy, stage, state, dest, backup, astray>>
    BY <2>1 DEF RcvLeftover, res_vars, disk_vars
  <2> DEFINE s == Head(stray)
  <2>4. s \in Seq(Frame)
    BY <2>1, <1>0 DEF RcvLeftover
  <2>5. PICK next \in {"lastOld", "lastErr"} :
           IF s # <<>> /\ Head(s).k = "chunk" THEN Check(w, Head(s), next)
           ELSE rw' = [rw EXCEPT ![w] = next] /\ UNCHANGED hand
    BY <2>1, Zenon DEF RcvLeftover
  <2>6. CASE s # <<>> /\ Head(s).k = "chunk" /\ Head(s).c \notin done
    <3>1. Head(s).c \in Chunks /\ Head(s).v \in Nat
      BY <2>4, <2>6, <1>a
    <3>2. Held(w, Head(s).c, Head(s).v, next)
      BY <2>5, <2>6 DEF Check, Held
    <3> QED BY <2>2, <2>3, <3>1, <3>2
  <2>7. CASE ~(s # <<>> /\ Head(s).k = "chunk" /\ Head(s).c \notin done)
    <3>1. rw' = [rw EXCEPT ![w] = next] /\ UNCHANGED hand
      BY <2>5, <2>7 DEF Check
    <3> QED BY <2>2, <2>3, <3>1
  <2> QED BY <2>6, <2>7
<1> QED BY <1>1, <1>2 DEF Checks

\* Flushes, commits and the disk touch neither the sender nor a connection.
LEMMA Apart ==
    ASSUME Flushes \/ Resets \/ Commits \/ Writes \/ Marks \/ Lands \/ Losses
    PROVE  UNCHANGED <<src_vars, snd_vars, net_vars, rman>>
<1>1. Flushes \/ Resets \/ Commits => UNCHANGED <<src_vars, snd_vars, net_vars, rman>>
  BY Zenon DEF Flushes, Resets, Commits, FlushBegin, FlushRemove, FlushRename, FlushFails, RcvResetFile,
     CommitPlace, CommitBackup, CommitSwap, CommitRemoveBackup, CommitClean, mem_vars
<1>2. Writes \/ Marks \/ Lands \/ Losses => UNCHANGED <<src_vars, snd_vars, net_vars, rman>>
  BY Zenon DEF Writes, Marks, Lands, Losses, RcvWrite, RcvMark, Land, WriteFails
<1> QED BY <1>1, <1>2

\* A killed listener.
LEMMA Crashed ==
    ASSUME RcvCrash
    PROVE  /\ rp' = "down" /\ Forget /\ up' = FALSE /\ toR' = <<>> /\ stray' = <<>> /\ pipe' = Untaken
           /\ UNCHANGED <<src_vars, snd_vars, toS, state>>
BY DEF RcvCrash

\* Only the sender's steps change the sender.
LEMMA SenderOnly ==
    ASSUME Typed, InOrder, [Next]_vars PROVE Sends \/ UNCHANGED <<src_vars, snd_vars>>
<1>0. MemTyped
  BY DEF Typed
<1>1. UNCHANGED vars => UNCHANGED <<src_vars, snd_vars>>
  BY DEF vars
<1>2. Flushes \/ Resets \/ Commits \/ Writes \/ Marks \/ Lands \/ Losses => UNCHANGED <<src_vars, snd_vars>>
  BY Apart
<1>3. Notices \/ Waits \/ Checks => UNCHANGED <<src_vars, snd_vars>>
  BY <1>0, Noticed, Waited, Checked
<1>4. Returns \/ Manifests \/ RcvCrash => UNCHANGED <<src_vars, snd_vars>>
  BY Returned, Came, Crashed
<1> QED BY <1>1, <1>2, <1>3, <1>4, Steps, Zenon

\* The policy and the kind of transfer never change.
LEMMA Config == ASSUME Typed, InOrder, [Next]_vars PROVE UNCHANGED <<policy, multi>>
BY SenderOnly, Sent DEF src_vars

\* The manifest is the scan's at the start, and stays; only an edit and a start change the
\* source and what is torn.
LEMMA Source ==
    ASSUME Sends
    PROVE  \/ SndStart
           \/ UNCHANGED <<src, torn, man>>
           \/ \E f \in Files : Edit(f)
BY Zenon DEF Sends, SndAccepted, SndCompleted, SndFails, SndDie, SndChunk, SndWorkerDone,
   SndWorkerComplete, src_vars

\* Every step keeps the types of the source's files.
LEMMA SourceStep == ASSUME Typed, InOrder, [Next]_vars PROVE SourceTyped'
<1>0. SourceTyped /\ MemTyped
  BY DEF Typed
<1>1. CASE Sends
  <2>1. rman' = rman
    BY <1>1, Sent DEF mem_vars
  <2>2. CASE SndStart
    BY <1>0, <2>1, <2>2 DEF SndStart, SourceTyped
  <2>3. CASE UNCHANGED <<src, torn, man>>
    BY <1>0, <2>1, <2>3 DEF SourceTyped
  <2>4. CASE \E f \in Files : Edit(f)
    BY <1>0, <2>1, <2>4 DEF Edit, SourceTyped, Versions, snd_vars
  <2> QED BY <1>1, <2>2, <2>3, <2>4, Source
<1>2. CASE UNCHANGED <<src_vars, snd_vars>>
  <2>1. rman' \in Versions
    <3>1. rman \in Versions /\ Unchanged \in Versions
      BY <1>0, Constant DEF SourceTyped
    <3>2. CASE Manifests
      BY <3>2, Came
    <3>3. CASE Returns \/ RcvCrash
      BY <3>1, <3>3, Returned, Crashed DEF Forget
    <3>4. CASE UNCHANGED vars \/ Sends \/ Notices \/ Flushes \/ Resets \/ Commits \/ Writes \/ Marks \/ Lands \/ Losses
      BY <3>1, <3>4, Sent, Noticed, Apart DEF vars, mem_vars
    <3>5. CASE Waits \/ Checks
      BY <3>1, <3>5, <1>0, Waited, Checked
    <3> QED BY <3>2, <3>3, <3>4, <3>5, Steps, Zenon
  <2> QED BY <1>0, <1>2, <2>1 DEF SourceTyped, src_vars, snd_vars
<1> QED BY <1>1, <1>2, SenderOnly

\* Every step keeps the types of the sender's queue and workers.
LEMMA QueueStep == ASSUME Typed, InOrder, [Next]_vars PROVE QueueTyped'
<1>0. QueueTyped
  BY DEF Typed
<1>1. CASE SndStart \/ SndCompleted \/ SndFails \/ SndDie
  <2>1. todo' = {} /\ wk' = AllOff
    BY <1>1, Zenon DEF SndStart, SndCompleted, SndFails, SndDie, SndEnd
  <2> QED BY <2>1 DEF QueueTyped, AllOff
<1>2. CASE SndAccepted
  BY <1>0, <1>2 DEF SndAccepted, QueueTyped
<1>3. CASE \E w \in Workers : SndChunk(w)
  BY <1>0, <1>3 DEF SndChunk, QueueTyped
<1>4. CASE \E w \in Workers : SndWorkerDone(w) \/ SndWorkerComplete(w)
  BY <1>0, <1>4 DEF SndWorkerDone, SndWorkerComplete, QueueTyped
<1>5. CASE UNCHANGED snd_vars
  BY <1>0, <1>5 DEF QueueTyped, snd_vars
<1>6. CASE \E f \in Files : Edit(f)
  BY <1>5, <1>6 DEF Edit
<1> QED BY <1>1, <1>2, <1>3, <1>4, <1>5, <1>6, SenderOnly DEF Sends

\* What is on the control connection, towards the listener.
LEMMA ToRcvStep ==
    ASSUME Typed, InOrder, [Next]_vars
    PROVE  \/ UNCHANGED toR \/ toR' = <<>>
           \/ toR # <<>> /\ toR' = Tail(toR)
           \/ SndStart
           \/ (SndAccepted \/ \E w \in Workers : SndWorkerComplete(w)) /\ toR' = SummaryTo(toR)
<1>0. MemTyped
  BY DEF Typed
<1>1. CASE Sends
  BY <1>1, Zenon DEF Sends, SndAccepted, SndCompleted, SndFails, SndDie, SndChunk, SndWorkerDone,
     SndWorkerComplete, Edit, net_vars
<1>2. CASE UNCHANGED vars \/ Flushes \/ Resets \/ Commits \/ Writes \/ Marks \/ Lands \/ Losses
  BY <1>2, Apart DEF vars, net_vars
<1>3. CASE Waits \/ Checks
  BY <1>0, <1>3, Waited, Checked
<1>4. CASE Notices
  BY <1>4 DEF Notices, RcvStray, RcvAccept, RcvVerify, RcvRestart, HasSummary, net_vars
<1>5. CASE Returns \/ RcvCrash
  BY <1>5, Returned, Crashed
<1>6. CASE Manifests
  BY <1>6, Came
<1> QED BY <1>1, <1>2, <1>3, <1>4, <1>5, <1>6, Steps, Zenon

\* ... and towards the sender.
LEMMA ToSndStep ==
    ASSUME Typed, InOrder, [Next]_vars
    PROVE  \/ UNCHANGED toS \/ toS' = <<>>
           \/ (SndAccepted \/ SndCompleted) /\ toS # <<>> /\ toS' = Tail(toS)
           \/ RcvAlreadyComplete /\ toS' = Append(toS, [k |-> "accepted", done |-> Chunks])
           \/ RcvAccept /\ toS' = Append(toS, [k |-> "accepted", done |-> done])
           \/ Returns /\ \E last \in ToSnd : toS' = Append(toS, last)
<1>0. MemTyped
  BY DEF Typed
<1>1. CASE Sends
  BY <1>1, Zenon DEF Sends, SndStart, SndAccepted, SndCompleted, SndFails, SndDie, SndChunk, SndWorkerDone,
     SndWorkerComplete, Edit, net_vars
<1>2. CASE UNCHANGED vars \/ Flushes \/ Resets \/ Commits \/ Writes \/ Marks \/ Lands \/ Losses
  BY <1>2, Apart DEF vars, net_vars
<1>3. CASE Waits \/ Checks
  BY <1>0, <1>3, Waited, Checked
<1>4. CASE Notices
  BY <1>4, Zenon DEF Notices, RcvStray, RcvAccept, RcvVerify, RcvRestart, HasSummary, net_vars
<1>5. CASE Returns
  BY <1>5, Returned
<1>6. CASE RcvCrash
  BY <1>6, Crashed
<1>7. CASE Manifests
  BY <1>7, Zenon DEF Manifests, RcvAlreadyComplete, RcvFresh, RcvResume
<1> QED BY <1>1, <1>2, <1>3, <1>4, <1>5, <1>6, <1>7, Steps, Zenon

\* What is on the data streams.
LEMMA PipeStep ==
    ASSUME Typed, InOrder, [Next]_vars
    PROVE  \/ UNCHANGED pipe \/ pipe' = NoPipes \/ pipe' = Untaken
           \/ \E w \in Workers : pipe[w] # <<>> /\ pipe' = [pipe EXCEPT ![w] = Tail(@)]
           \/ \E w \in Workers : SndChunk(w) \/ SndWorkerDone(w)
<1>1. CASE Sends
  BY <1>1, Zenon DEF Sends, SndStart, SndAccepted, SndCompleted, SndFails, SndDie,
     SndWorkerComplete, Edit, net_vars
<1>2. CASE UNCHANGED vars \/ Flushes \/ Resets \/ Commits \/ Writes \/ Marks \/ Lands \/ Losses
  BY <1>2, Apart DEF vars, net_vars
<1>3. CASE Waits \/ Checks
  BY <1>3, Zenon DEF Waits, Checks, RcvWorker, RcvWorkerDone, RcvWorkerEof, RcvStall, RcvChunk, RcvLeftover,
     net_vars
<1>4. CASE Notices \/ Manifests
  BY <1>4, Noticed, Came
<1>5. CASE Returns \/ RcvCrash
  BY <1>5, Returned, Crashed
<1> QED BY <1>1, <1>2, <1>3, <1>4, <1>5, Steps, Zenon

\* The streams that come late.
LEMMA StrayStep ==
    ASSUME Typed, InOrder, [Next]_vars
    PROVE  \/ UNCHANGED stray \/ stray' = <<>>
           \/ stray # <<>> /\ stray' = Tail(stray)
           \/ \E w \in Workers : stray' = Append(stray, pipe[w])
<1>1. CASE Sends
  BY <1>1, Zenon DEF Sends, SndStart, SndAccepted, SndCompleted, SndFails, SndDie, SndChunk, SndWorkerDone,
     SndWorkerComplete, Edit, SndEnd, net_vars
<1>2. CASE UNCHANGED vars \/ Flushes \/ Resets \/ Commits \/ Writes \/ Marks \/ Lands \/ Losses
  BY <1>2, Apart DEF vars, net_vars
<1>3. CASE Waits \/ Checks
  BY <1>3, Zenon DEF Waits, Checks, RcvWorker, RcvWorkerDone, RcvWorkerEof, RcvStall, RcvChunk, RcvLeftover,
     net_vars
<1>4. CASE Notices
  BY <1>4, Zenon DEF Notices, RcvStray, RcvAccept, RcvVerify, RcvRestart, net_vars
<1>5. CASE Manifests
  BY <1>5, Came
<1>6. CASE Returns \/ RcvCrash
  BY <1>6, Returned, Crashed
<1> QED BY <1>1, <1>2, <1>3, <1>4, <1>5, <1>6, Steps, Zenon

\* An empty connection.
LEMMA NoFrames == ASSUME NEW S PROVE <<>> \in Seq(S)
OBVIOUS

\* Every step keeps the types of the connections.
LEMMA NetStep == ASSUME Typed, InOrder, [Next]_vars PROVE NetTyped'
<1>0. NetTyped /\ SourceTyped /\ MemTyped /\ DiskTyped /\ QueueTyped
  BY DEF Typed
<1>1. toR' \in Seq(ToRcv)
  <2>0. toR \in Seq(ToRcv)
    BY <1>0 DEF NetTyped
  <2>1. CASE SndStart
    <3>1. [k |-> "manifest", man |-> src] \in ToRcv
      BY <1>0 DEF SourceTyped, ToRcv
    <3> QED BY <2>1, <3>1 DEF SndStart
  <2>2. CASE toR' = SummaryTo(toR)
    <3>1. [k |-> "summary", man |-> man] \in ToRcv
      BY <1>0 DEF SourceTyped, ToRcv
    <3> QED BY <2>0, <2>2, <3>1 DEF SummaryTo
  <2>3. CASE toR # <<>> /\ toR' = Tail(toR)
    BY <2>0, <2>3
  <2>4. CASE UNCHANGED toR \/ toR' = <<>>
    BY <2>0, <2>4, NoFrames, Zenon
  <2> QED BY <2>1, <2>2, <2>3, <2>4, ToRcvStep
<1>2. toS' \in Seq(ToSnd)
  <2>0. toS \in Seq(ToSnd)
    BY <1>0 DEF NetTyped
  <2>1. [k |-> "accepted", done |-> Chunks] \in ToSnd /\ [k |-> "accepted", done |-> done] \in ToSnd
    BY <1>0 DEF MemTyped, ToSnd
  <2>2. CASE \E last \in ToSnd : toS' = Append(toS, last)
    BY <2>0, <2>2
  <2>3. CASE toS # <<>> /\ toS' = Tail(toS)
    BY <2>0, <2>3
  <2>4. CASE UNCHANGED toS \/ toS' = <<>>
    BY <2>0, <2>4, NoFrames, Zenon
  <2> QED BY <2>1, <2>2, <2>3, <2>4, ToSndStep, Zenon
<1>3. pipe' \in [Workers -> Seq(Frame)]
  <2>0. pipe \in [Workers -> Seq(Frame)]
    BY <1>0 DEF NetTyped
  <2>1. CASE \E w \in Workers : SndChunk(w)
    <3>1. PICK w \in Workers : SndChunk(w)
      BY <2>1
    <3>2. PICK i \in todo : pipe' = [pipe EXCEPT ![w] =
                                        <<[k |-> "chunk", c |-> Tasks[i], v |-> src[FileOf[Tasks[i]]]]>>]
      BY <3>1 DEF SndChunk
    <3>3. Tasks[i] \in Chunks
      BY <1>0 DEF QueueTyped, Chunks
    <3>4. src[FileOf[Tasks[i]]] \in Nat
      BY <1>0, <3>3, ChunkAssumption DEF SourceTyped, Versions
    <3>5. [k |-> "chunk", c |-> Tasks[i], v |-> src[FileOf[Tasks[i]]]] \in Frame
      BY <3>3, <3>4 DEF Frame
    <3> DEFINE e == [k |-> "chunk", c |-> Tasks[i], v |-> src[FileOf[Tasks[i]]]]
    <3> HIDE DEF e
    <3>6. pipe' = [pipe EXCEPT ![w] = <<e>>] /\ e \in Frame
      BY <3>2, <3>5 DEF e
    <3> QED BY <2>0, <3>6
  <2>2. CASE \E w \in Workers : SndWorkerDone(w)
    <3>1. [k |-> "done"] \in Frame
      BY DEF Frame
    <3> QED BY <2>0, <2>2, <3>1 DEF SndWorkerDone
  <2>3. CASE \E w \in Workers : pipe[w] # <<>> /\ pipe' = [pipe EXCEPT ![w] = Tail(@)]
    BY <2>0, <2>3
  <2>4. CASE UNCHANGED pipe \/ pipe' = NoPipes \/ pipe' = Untaken
    BY <2>0, <2>4, NoFrames DEF NoPipes, Untaken
  <2> QED BY <2>1, <2>2, <2>3, <2>4, PipeStep
<1>4. stray' \in Seq(Seq(Frame))
  <2>0. stray \in Seq(Seq(Frame)) /\ pipe \in [Workers -> Seq(Frame)]
    BY <1>0 DEF NetTyped
  <2>1. CASE \E w \in Workers : stray' = Append(stray, pipe[w])
    <3>1. PICK w \in Workers : stray' = Append(stray, pipe[w])
      BY <2>1
    <3>2. pipe[w] \in Seq(Frame)
      BY <2>0
    <3> QED BY <2>0, <3>1, <3>2
  <2>2. CASE stray # <<>> /\ stray' = Tail(stray)
    BY <2>0, <2>2
  <2>3. CASE UNCHANGED stray \/ stray' = <<>>
    BY <2>0, <2>3, NoFrames, Zenon
  <2> QED BY <2>1, <2>2, <2>3, StrayStep
<1> QED BY <1>1, <1>2, <1>3, <1>4 DEF NetTyped

\* One more write under way to some bytes.
LEMMA OneMore ==
    ASSUME NEW x \in ByteSet, NEW v \in Nat
    PROVE  [x EXCEPT !.due = @ \cup {v}] = [is |-> x.is, due |-> x.due \cup {v}]
BY DEF ByteSet

\* seek and write_all: the write of the chunk in hand is under way.
LEMMA Wrote ==
    ASSUME Typed, Holding, Writes
    PROVE  /\ rp = "stream"
           /\ \E w \in Workers : \E c \in Chunks : \E v \in Nat :
                /\ rw[w] = "write" /\ rw' = [rw EXCEPT ![w] = "mark"]
                /\ hand[w] \in Hand /\ hand[w].c = c /\ hand[w].v = v
                /\ stage' = [stage EXCEPT ![c] = [is |-> stage[c].is, due |-> stage[c].due \cup {v}]]
                /\ busy' = busy \cup {[w |-> w, c |-> c, v |-> v]}
           /\ UNCHANGED <<rp, rman, final, had, done, fresh, pend, flush, hand, state, dest, backup, astray>>
<1>1. PICK w \in Workers : RcvWrite(w)
  BY DEF Writes
<1>2. hand[w] \in Hand
  BY <1>1 DEF RcvWrite, Holding
<1> DEFINE c == hand[w].c
           v == hand[w].v
<1>3. c \in Chunks /\ v \in Nat
  BY <1>2 DEF Hand
<1>4. stage[c] \in ByteSet /\ stage \in [Chunks -> ByteSet]
  BY <1>3 DEF Typed, DiskTyped, Content, ByteSet
<1>5. stage' = [stage EXCEPT ![c].due = @ \cup {v}]
  BY <1>1 DEF RcvWrite
<1>6. [stage[c] EXCEPT !.due = @ \cup {v}] = [is |-> stage[c].is, due |-> stage[c].due \cup {v}]
  BY <1>3, <1>4, OneMore
<1>7. stage' = [stage EXCEPT ![c] = [is |-> stage[c].is, due |-> stage[c].due \cup {v}]]
  BY <1>5, <1>6, Zenon
<1>8. /\ rp = "stream" /\ rw[w] = "write" /\ rw' = [rw EXCEPT ![w] = "mark"]
      /\ busy' = busy \cup {[w |-> w, c |-> c, v |-> v]}
      /\ UNCHANGED <<rp, rman, final, had, done, fresh, pend, flush, hand, state, dest, backup, astray>>
  BY <1>1 DEF RcvWrite, res_vars
<1> HIDE DEF c, v
<1>9. hand[w].c = c /\ hand[w].v = v
  BY DEF c, v
<1> QED BY <1>2, <1>3, <1>7, <1>8, <1>9

\* mark_chunk_complete of the chunk in hand.
LEMMA Marked ==
    ASSUME Typed, Holding, Marks
    PROVE  /\ rp = "stream"
           /\ \E w \in Workers : \E c \in Chunks : \E r \in {"run", "flush", "lastOld", "lastErr"} :
                /\ rw[w] = "mark" /\ rw' = [rw EXCEPT ![w] = r]
                /\ hand[w] \in Hand /\ hand[w].c = c /\ hand' = [hand EXCEPT ![w] = NoHand]
                /\ r = hand[w].next \/ (r = "flush" /\ hand[w].next = "run")
                /\ done' = done \cup {c} /\ fresh' = [fresh EXCEPT ![FileOf[c]] = @ + 1]
           /\ UNCHANGED <<rp, rman, final, had, flush, busy, stage, state, dest, backup, astray>>
<1>1. PICK w \in Workers : RcvMark(w)
  BY DEF Marks
<1>2. hand[w] \in Hand
  BY <1>1 DEF RcvMark, Holding
<1>3. hand[w].c \in Chunks /\ hand[w].next \in {"run", "lastOld", "lastErr"}
  BY <1>2 DEF Hand
<1>4. \E r \in {"run", "flush", "lastOld", "lastErr"} :
         rw' = [rw EXCEPT ![w] = r] /\ (r = hand[w].next \/ (r = "flush" /\ hand[w].next = "run"))
  BY <1>1, <1>3 DEF RcvMark
<1>5. /\ rp = "stream" /\ rw[w] = "mark" /\ hand' = [hand EXCEPT ![w] = NoHand]
      /\ done' = done \cup {hand[w].c} /\ fresh' = [fresh EXCEPT ![FileOf[hand[w].c]] = @ + 1]
      /\ UNCHANGED <<rp, rman, final, had, flush, busy, stage, state, dest, backup, astray>>
  BY <1>1 DEF RcvMark, disk_vars
<1> QED BY <1>2, <1>3, <1>4, <1>5

\* A write lands or fails; a handler may learn of it.
LEMMA Settled ==
    ASSUME Lands \/ Losses
    PROVE  /\ \/ UNCHANGED <<rw, hand>>
              \/ \E w \in Workers : /\ rw[w] = "write" /\ rw' = [rw EXCEPT ![w] = "lastErr"]
                                    /\ hand' = [hand EXCEPT ![w] = NoHand]
           /\ busy' \subseteq busy
           /\ UNCHANGED <<rp, rman, final, had, done, fresh, pend, flush, state>>
<1>1. CASE Lands
  BY <1>1 DEF Lands, Land, Settle, res_vars
<1>2. CASE Losses
  <2>0. PICK c \in Chunks : \E v \in UnderWay(c) : WriteFails(c, v)
    BY <1>2 DEF Losses
  <2>1. PICK v \in UnderWay(c) : WriteFails(c, v)
    BY <2>0
  <2>2. busy' \subseteq busy /\ UNCHANGED <<rp, rman, final, had, done, fresh, pend, flush, state>>
    BY <2>1 DEF WriteFails, Settle, res_vars
  <2>3. \A w \in Told(c, v) : w \in Workers
    BY DEF Told
  <2> QED BY <2>1, <2>2, <2>3, Zenon DEF WriteFails
<1> QED BY <1>1, <1>2

\* Where a flush may lead a handler.
Leads(s, r) ==
    /\ s \in Flushers /\ r \in {"run", "ended", "spent", "err", "lastErr"}
    /\ s \in {"lastOld", "lastErr"} => r \in {"spent", "err", "lastErr"}
    /\ r \in {"run", "ended"} => s \in {"flush", "last"}

\* A step of a flush moves at most the handler that flushes.
LEMMA FlushMoves ==
    ASSUME MemTyped, CleanStart, OneFlush, Flushes
    PROVE  /\ \/ UNCHANGED rw
              \/ rp = "stream" /\ \E w \in Workers : \E r : Leads(rw[w], r) /\ rw' = [rw EXCEPT ![w] = r]
           /\ (rp = "stream" /\ rp' = rp) \/ (rp = "reset" /\ (rp' = rp \/ (rp' = "fail" /\ flush' = NoFlush)))
           /\ UNCHANGED <<rman, final, had, done, fresh, hand, busy, stage, dest, backup, astray>>
<1>0. flush.step # "idle" => rp \in {"stream", "reset"}
  BY DEF CleanStart
<1>a. \A w \in Workers : rw[w] \in Flushers => Leads(rw[w], Flushed[w])
  BY DEF Flushers, Flushed, Leads
<1>1. CASE \E w \in Workers : FlushBegin(w)
  BY <1>1, <1>a DEF FlushBegin, Flushing, Flushers, disk_vars
<1>2. CASE FlushRemove
  BY <1>0, <1>2 DEF FlushRemove, res_vars
<1>3. CASE FlushRename \/ FlushFails
  <2>1. /\ flush.step # "idle" /\ flush' = NoFlush
        /\ UNCHANGED <<rman, final, had, done, fresh, hand, busy, stage, dest, backup, astray>>
    BY <1>3 DEF FlushRename, FlushFails, res_vars, disk_vars
  <2>2. CASE rp = "reset"
    BY <1>3, <2>1, <2>2 DEF FlushRename, FlushFails
  <2>3. CASE rp = "stream"
    <3>1. flush.by \in Workers /\ rw[flush.by] \in Flushers
      BY <2>1, <2>3 DEF OneFlush
    <3>2. rp' = rp
      BY <1>3, <2>3 DEF FlushRename, FlushFails
    <3>3. \E r : Leads(rw[flush.by], r) /\ rw' = [rw EXCEPT ![flush.by] = r]
      <4>1. CASE FlushRename
        <5>1. rw' = [rw EXCEPT ![flush.by] = Flushed[flush.by]]
          BY <2>3, <4>1 DEF FlushRename
        <5> QED BY <3>1, <5>1, <1>a
      <4>2. CASE FlushFails
        <5> DEFINE r == IF rw[flush.by] = "lastErr" THEN "err" ELSE "lastErr"
        <5>1. rw' = [rw EXCEPT ![flush.by] = r]
          BY <2>3, <4>2 DEF FlushFails
        <5>2. Leads(rw[flush.by], r)
          BY <3>1 DEF Leads
        <5> HIDE DEF r
        <5> QED BY <5>1, <5>2
      <4> QED BY <1>3, <4>1, <4>2
    <3> QED BY <2>1, <2>3, <3>1, <3>2, <3>3
  <2> QED BY <1>0, <2>1, <2>2, <2>3
<1> QED BY <1>1, <1>2, <1>3 DEF Flushes

\* commit_stage works on the disk.
LEMMA Committed ==
    ASSUME Commits
    PROVE  /\ UNCHANGED <<rman, had, done, fresh, pend, flush, rw, hand, busy, astray>>
           /\ rp \in {"commit", "swap", "backup"} /\ rp' \in {"commit", "swap", "backup", "ack"}
           /\ final' = final \/ final' \in Targets
<1>1. /\ UNCHANGED <<rman, had, done, fresh, pend, flush, rw, hand, busy, astray>>
      /\ final' = final \/ final' \in Targets
  BY Zenon DEF Commits, CommitPlace, CommitBackup, CommitSwap, CommitRemoveBackup, CommitClean, mem_vars, res_vars
<1>2. rp \in {"commit", "swap", "backup"} /\ rp' \in {"commit", "swap", "backup", "ack"}
  BY DEF Commits, CommitPlace, CommitBackup, CommitSwap, CommitRemoveBackup, CommitClean
<1> QED BY <1>1, <1>2

\* reset_file, with all the streams joined.
LEMMA Reset ==
    ASSUME Resets
    PROVE  /\ rp = "stream" /\ rp' = "reset" /\ done' \subseteq done
           /\ flush' = [step |-> "remove", done |-> done', by |-> 0]
           /\ UNCHANGED <<rman, final, had, fresh, rw, hand, busy, stage, state, dest, backup, astray>>
BY DEF Resets, RcvResetFile, disk_vars

\* What the code keeps in memory.
LEMMA Forgotten == ASSUME Forget PROVE MemTyped'
<1>1. AllOff \in [Workers -> RwStates]
  BY DEF AllOff, RwStates
<1>2. /\ {} \subseteq Chunks /\ {} \subseteq [w : Workers, c : Chunks, v : Nat]
      /\ "root" \in Names /\ "root" \in Singles
  BY DEF Names, Singles
<1> QED BY <1>1, <1>2, Constant DEF Forget, MemTyped, FlushSet

\* Every step keeps the types of what the listener has in memory.
LEMMA MemStep == ASSUME Typed, Session, [Next]_vars PROVE MemTyped'
<1>0. /\ MemTyped /\ DiskTyped /\ InOrder /\ Holding /\ CleanStart /\ OneFlush
      /\ flush \in FlushSet /\ rw \in [Workers -> RwStates] /\ done \subseteq Chunks
      /\ hand \in [Workers -> Hand \cup {NoHand}]
  BY DEF Typed, MemTyped, Session, FlushSet
<1>1. CASE Returns \/ RcvCrash
  BY <1>1, Returned, Crashed, Forgotten
<1>2. CASE UNCHANGED vars \/ Sends
  BY <1>0, <1>2, Sent DEF vars, mem_vars, res_vars, MemTyped
<1>3. CASE Notices
  <2>1. UNCHANGED mem_vars
    BY <1>3, Noticed
  <2>2. rp \in {"commit", "swap", "backup", "ack"} => rp' = rp
    BY <1>3 DEF Notices, RcvStray, RcvAccept, RcvVerify, RcvRestart
  <2> QED BY <1>0, <2>1, <2>2 DEF mem_vars, res_vars, MemTyped
<1>4. CASE Manifests
  <2>1. done' \subseteq Chunks /\ had' \subseteq Chunks
    BY <1>0, <1>4 DEF Manifests, RcvAlreadyComplete, RcvFresh, RcvResume, MemTyped, DiskTyped, res_vars
  <2>2. final' \in Names /\ final' \in Singles
    <3>1. final \in Singles
      BY <1>0, <1>4, Came DEF MemTyped
    <3>2. CASE RcvAlreadyComplete
      BY <3>1, <3>2 DEF RcvAlreadyComplete, Singles, Names
    <3>3. CASE RcvFresh
      BY <3>3 DEF RcvFresh, FinalNames, Names, Singles
    <3>4. CASE RcvResume
      BY <1>0, <3>4 DEF RcvResume, DiskTyped, Names, Singles
    <3> QED BY <1>4, <3>2, <3>3, <3>4 DEF Manifests
  <2> QED BY <1>0, <1>4, <2>1, <2>2, Came DEF MemTyped
<1>5. CASE Waits
  <2>1. PICK w \in Workers, r \in {"run", "last", "lastErr"} : rw' = [rw EXCEPT ![w] = r]
    BY <1>0, <1>5, Waited
  <2>2. rw' \in [Workers -> RwStates]
    BY <1>0, <2>1 DEF RwStates, Flushers
  <2> QED BY <1>0, <1>5, <2>2, Waited DEF MemTyped
<1>6. CASE Checks
  <2>1. PICK w \in Workers, next \in {"run", "lastOld", "lastErr"} :
             \/ rw' = [rw EXCEPT ![w] = next] /\ UNCHANGED hand
             \/ \E c \in Chunks : \E v \in Nat : Held(w, c, v, next)
    BY <1>0, <1>6, Checked
  <2>2. rw' \in [Workers -> RwStates]
    BY <1>0, <2>1 DEF RwStates, Flushers, Held
  <2>3. hand' \in [Workers -> Hand \cup {NoHand}]
    <3>1. CASE UNCHANGED hand
      BY <1>0, <3>1
    <3>2. CASE \E c \in Chunks : \E v \in Nat : Held(w, c, v, next)
      <4>1. PICK c \in Chunks, v \in Nat : Held(w, c, v, next)
        BY <3>2
      <4> DEFINE h == [c |-> c, v |-> v, next |-> next]
      <4>2. h \in Hand
        BY DEF Hand
      <4>3. hand' = [hand EXCEPT ![w] = h]
        BY <4>1 DEF Held
      <4> HIDE DEF h
      <4> QED BY <1>0, <4>2, <4>3
    <3> QED BY <2>1, <3>1, <3>2
  <2>4. UNCHANGED <<rp, rman, final, had, done, fresh, flush, busy>>
    BY <1>0, <1>6, Checked
  <2> QED BY <1>0, <2>2, <2>3, <2>4 DEF MemTyped
<1>7. CASE Writes
  <2>1. PICK w \in Workers, c \in Chunks, v \in Nat :
             rw' = [rw EXCEPT ![w] = "mark"] /\ busy' = busy \cup {[w |-> w, c |-> c, v |-> v]}
    BY <1>0, <1>7, Wrote
  <2>2. rw' \in [Workers -> RwStates] /\ busy' \subseteq [w : Workers, c : Chunks, v : Nat]
    BY <1>0, <2>1 DEF RwStates, MemTyped
  <2>3. UNCHANGED <<rp, rman, final, had, done, fresh, flush, hand>>
    BY <1>0, <1>7, Wrote
  <2> QED BY <1>0, <2>2, <2>3 DEF MemTyped
<1>8. CASE Marks
  <2>1. PICK w \in Workers, c \in Chunks, r \in {"run", "flush", "lastOld", "lastErr"} :
             /\ rw' = [rw EXCEPT ![w] = r] /\ hand' = [hand EXCEPT ![w] = NoHand]
             /\ done' = done \cup {c} /\ fresh' = [fresh EXCEPT ![FileOf[c]] = @ + 1]
    BY <1>0, <1>8, Marked
  <2>2. rw' \in [Workers -> RwStates] /\ hand' \in [Workers -> Hand \cup {NoHand}] /\ done' \subseteq Chunks
    BY <1>0, <2>1 DEF RwStates, Flushers
  <2>3. fresh' \in [Files -> Nat]
    BY <1>0, <2>1, ChunkAssumption DEF MemTyped
  <2>4. UNCHANGED <<rp, rman, final, had, flush, busy>>
    BY <1>0, <1>8, Marked
  <2> QED BY <1>0, <2>2, <2>3, <2>4 DEF MemTyped
<1>9. CASE Lands \/ Losses
  <2>1. rw' \in [Workers -> RwStates] /\ hand' \in [Workers -> Hand \cup {NoHand}]
    BY <1>0, <1>9, Settled DEF RwStates, Flushers
  <2>2. UNCHANGED <<rp, rman, final, had, done, fresh, flush>> /\ busy' \subseteq busy
    BY <1>9, Settled
  <2> QED BY <1>0, <2>1, <2>2 DEF MemTyped
<1>10. CASE Flushes
  <2>1. rw' \in [Workers -> RwStates]
    BY <1>0, <1>10, FlushMoves DEF RwStates, Flushers, Leads
  <2>2. flush' \in FlushSet
    <3>1. CASE \E w \in Workers : FlushBegin(w)
      BY <1>0, <3>1 DEF FlushBegin, Workers, FlushSet
    <3>2. CASE FlushRemove
      BY <1>0, <3>2 DEF FlushRemove, FlushSet
    <3>3. CASE FlushRename \/ FlushFails
      BY <3>3, Constant DEF FlushRename, FlushFails
    <3> QED BY <1>10, <3>1, <3>2, <3>3 DEF Flushes
  <2>3. UNCHANGED <<rman, final, had, done, fresh, hand, busy>>
    BY <1>0, <1>10, FlushMoves
  <2>4. rp \notin {"commit", "swap", "backup", "ack"}
    BY <1>0, <1>10, FlushMoves
  <2> QED BY <1>0, <2>1, <2>2, <2>3, <2>4 DEF MemTyped, FlushSet
<1>11. CASE Resets
  <2>1. done' \subseteq Chunks /\ flush' \in FlushSet
    BY <1>0, <1>11, Reset DEF FlushSet
  <2> QED BY <1>0, <1>11, <2>1, Reset DEF MemTyped, FlushSet
<1>12. CASE Commits
  <2>1. final' \in Names
    BY <1>0, <1>12, Committed DEF MemTyped, Targets, Names
  <2> QED BY <1>0, <1>12, <2>1, Committed DEF MemTyped
<1> QED BY <1>1, <1>2, <1>3, <1>4, <1>5, <1>6, <1>7, <1>8, <1>9, <1>10, <1>11, <1>12, Steps

\* What a step does to the handlers.
LEMMA Handlers ==
    ASSUME Typed, Session, [Next]_vars
    PROVE  \/ UNCHANGED <<rw, hand>>
           \/ Forget
           \/ rp = "stream" /\ rp' = rp /\ (Waits \/ Checks \/ Writes \/ Marks \/ Flushes)
           \/ rp' = rp /\ (Lands \/ Losses)
<1>0. MemTyped /\ InOrder /\ Holding /\ CleanStart /\ OneFlush
  BY DEF Typed, Session
<1>1. Returns \/ RcvCrash => Forget
  BY Returned, Crashed
<1>2. UNCHANGED vars \/ Sends \/ Notices \/ Manifests => UNCHANGED <<rw, hand>>
  BY Sent, Noticed, Came DEF vars, mem_vars
<1>3. Resets \/ Commits => UNCHANGED <<rw, hand>>
  BY Reset, Committed
<1>4. Waits \/ Checks \/ Writes \/ Marks => rp = "stream" /\ rp' = rp
  BY <1>0, Waited, Checked, Wrote, Marked
<1>5. Flushes => UNCHANGED <<rw, hand>> \/ (rp = "stream" /\ rp' = rp)
  BY <1>0, FlushMoves
<1>6. CASE Lands \/ Losses
  BY <1>6, <1>0, Settled
<1> QED BY <1>1, <1>2, <1>3, <1>4, <1>5, <1>6, Steps, Zenon

\* The streams are taken in order, and nobody waits without a chunk in hand.
LEMMA HandlerStep == ASSUME Typed, Session, [Next]_vars PROVE InOrder' /\ Holding'
<1>0. /\ MemTyped /\ InOrder /\ Holding /\ CleanStart /\ OneFlush
      /\ rw \in [Workers -> RwStates] /\ hand \in [Workers -> Hand \cup {NoHand}] /\ NoHand \notin Hand
  BY Constant DEF Typed, MemTyped, Session
<1>1. CASE UNCHANGED <<rw, hand>>
  BY <1>0, <1>1 DEF InOrder, Holding
<1>2. CASE Forget
  BY <1>0, <1>2 DEF Forget, AllOff, NoHands, InOrder, Holding
<1>3. CASE Waits
  <2>1. PICK w \in Workers, r \in {"run", "last", "lastErr"} :
           /\ rw' = [rw EXCEPT ![w] = r]
           /\ \/ rw[w] = "off" /\ \A x \in Workers : x < w => rw[x] # "off"
              \/ rw[w] = "run"
    BY <1>0, <1>3, Waited
  <2>2. hand' = hand
    BY <1>0, <1>3, Waited
  <2> QED BY <1>0, <2>1, <2>2 DEF InOrder, Holding
<1>4. CASE Checks
  <2>1. PICK w \in Workers, next \in {"run", "lastOld", "lastErr"} :
           /\ rw[w] = "run" \/ (rw[w] = "off" /\ \A x \in Workers : x < w => rw[x] # "off")
           /\ \/ rw' = [rw EXCEPT ![w] = next] /\ UNCHANGED hand
              \/ \E c \in Chunks : \E v \in Nat : Held(w, c, v, next)
    BY <1>0, <1>4, Checked
  <2>2. InOrder'
    BY <1>0, <2>1 DEF InOrder, Held
  <2>3. CASE rw' = [rw EXCEPT ![w] = next] /\ UNCHANGED hand
    BY <1>0, <2>1, <2>2, <2>3 DEF Holding
  <2>4. CASE \E c \in Chunks : \E v \in Nat : Held(w, c, v, next)
    <3>1. PICK c \in Chunks, v \in Nat : Held(w, c, v, next)
      BY <2>4
    <3> DEFINE h == [c |-> c, v |-> v, next |-> next]
    <3>2. h \in Hand
      BY DEF Hand
    <3>3. hand' = [hand EXCEPT ![w] = h] /\ rw' = [rw EXCEPT ![w] = "write"]
      BY <3>1 DEF Held
    <3> HIDE DEF h
    <3> QED BY <1>0, <2>2, <3>2, <3>3 DEF Holding
  <2> QED BY <2>1, <2>3, <2>4
<1>5. CASE Writes
  BY <1>0, <1>5, Wrote DEF InOrder, Holding
<1>6. CASE Marks
  <2>1. PICK w \in Workers, r \in {"run", "flush", "lastOld", "lastErr"} :
           rw[w] = "mark" /\ rw' = [rw EXCEPT ![w] = r] /\ hand' = [hand EXCEPT ![w] = NoHand]
    BY <1>0, <1>6, Marked
  <2> QED BY <1>0, <2>1 DEF InOrder, Holding
<1>7. CASE Flushes
  <2>1. hand' = hand
    BY <1>0, <1>7, FlushMoves
  <2>2. CASE UNCHANGED rw
    BY <1>1, <2>1, <2>2
  <2>3. CASE \E w \in Workers : \E r : Leads(rw[w], r) /\ rw' = [rw EXCEPT ![w] = r]
    BY <1>0, <2>1, <2>3 DEF InOrder, Holding, Leads, Flushers
  <2> QED BY <1>0, <1>7, <2>2, <2>3, FlushMoves
<1>8. CASE Lands \/ Losses
  BY <1>0, <1>1, <1>8, Settled DEF InOrder, Holding
<1> QED BY <1>1, <1>2, <1>3, <1>4, <1>5, <1>6, <1>7, <1>8, Handlers

-----------------------------------------------------------------------------
\* What a write that ends, or is cut off, does to the bytes of a chunk.
Wear(c, x, y) ==
    \/ y = x
    \/ /\ x.due # {} /\ y \in ByteSet /\ y.due \subseteq x.due
       /\ \/ c \in astray' /\ (y.is = x.is \/ y.is = Zero \/ y.is \in x.due)
          \/ y.is \in x.due

\* One write.
LEMMA AfterWears ==
    ASSUME NEW c \in Chunks, NEW x \in ByteSet, NEW v \in x.due, NEW lands \in BOOLEAN,
           NEW y \in After(x, v, lands), lands \/ c \in astray'
    PROVE  Wear(c, x, y)
<1>1. PICK r \in IF lands \/ x.is = v THEN {v} ELSE {x.is, Zero} : y = [is |-> r, due |-> x.due \ {v}]
  BY DEF After
<1>2. x.is \in Int /\ x.due \in SUBSET Nat /\ v \in Nat /\ Zero \in Int
  BY DEF ByteSet, Zero
<1>3. r \in Int
  BY <1>1, <1>2
<1>4. y \in ByteSet /\ y.due = x.due \ {v} /\ y.is = r
  BY <1>1, <1>2, <1>3 DEF ByteSet
<1> QED BY <1>1, <1>2, <1>4 DEF Wear

\* A kill.
LEMMA CutWears ==
    ASSUME NEW x \in Content, NEW hit, NEW c \in Chunks, x[c].due # {} => c \in astray'
    PROVE  Wear(c, x[c], Cut(x, hit)[c])
<1>0. x[c] \in ByteSet
  BY DEF Content, ByteSet
<1> DEFINE r == IF c \in hit /\ ~(x[c].due \subseteq {x[c].is}) THEN Zero ELSE x[c].is
<1>1. Cut(x, hit)[c] = [is |-> r, due |-> {}]
  BY DEF Cut, Bytes
<1>2. r \in Int
  BY <1>0 DEF ByteSet, Zero
<1>3. r = Zero \/ r = x[c].is
  OBVIOUS
<1>4. CASE x[c].due = {}
  <2>1. r = x[c].is
    BY <1>4
  <2>2. x[c] = [is |-> x[c].is, due |-> x[c].due]
    BY <1>0 DEF ByteSet
  <2> QED BY <1>1, <1>4, <2>1, <2>2 DEF Wear
<1>5. CASE x[c].due # {}
  <2> HIDE DEF r
  <2>1. [is |-> r, due |-> {}] \in ByteSet /\ [is |-> r, due |-> {}].is = r /\ [is |-> r, due |-> {}].due = {}
    BY <1>2 DEF ByteSet
  <2> QED BY <1>1, <1>3, <1>5, <2>1 DEF Wear
<1> QED BY <1>4, <1>5

\* Bytes that wear stay bytes.
LEMMA WearTyped ==
    ASSUME NEW c, NEW x \in ByteSet, NEW y, Wear(c, x, y) PROVE y \in ByteSet
BY DEF Wear

\* The writes under way, wherever their files are: the disk wears.
LEMMA Wears ==
    ASSUME DiskTyped, Lands \/ Losses \/ RcvCrash
    PROVE  /\ \A c \in Chunks : Wear(c, stage[c], stage'[c])
           /\ \A n \in Names, c \in Chunks : Wear(c, dest[n][c], dest'[n][c]) /\ Wear(c, backup[n][c], backup'[n][c])
           /\ stage' \in Content /\ dest' \in [Names -> Content] /\ backup' \in [Names -> Content]
           /\ astray \subseteq astray' /\ astray' \subseteq Chunks /\ UNCHANGED state
<1>0. stage \in Content /\ dest \in [Names -> Content] /\ backup \in [Names -> Content] /\ astray \subseteq Chunks
  BY DEF DiskTyped
<1>a. \A x \in Content : \A c \in Chunks : x[c] \in ByteSet
  BY DEF Content, ByteSet
<1>1. CASE Lands \/ Losses
  <2>1. PICK c \in Chunks : \E v \in UnderWay(c) : Land(c, v) \/ WriteFails(c, v)
    BY <1>1 DEF Lands, Losses
  <2>2. PICK v : Land(c, v) \/ WriteFails(c, v)
    BY <2>1
  <2>3. /\ \E lands \in BOOLEAN : Settle(c, v, lands) /\ (lands \/ c \in astray')
        /\ astray \subseteq astray' /\ astray' \subseteq Chunks /\ UNCHANGED state
    BY <1>0, <2>2 DEF Land, WriteFails
  <2>4. PICK lands \in BOOLEAN : Settle(c, v, lands) /\ (lands \/ c \in astray')
    BY <2>3
  <2>b. \A x \in ByteSet : v \in x.due => \A y \in After(x, v, lands) : Wear(c, x, y) /\ y \in ByteSet
    BY <2>4, AfterWears, WearTyped
  <2>c. \A d, x : Wear(d, x, x)
    BY DEF Wear
  <2>5. CASE v \in stage[c].due /\ UNCHANGED <<dest, backup>>
             /\ \E x \in After(stage[c], v, lands) : stage' = [stage EXCEPT ![c] = x]
    <3>1. PICK y \in After(stage[c], v, lands) : stage' = [stage EXCEPT ![c] = y]
      BY <2>5
    <3>2. Wear(c, stage[c], y) /\ y \in ByteSet
      BY <1>0, <1>a, <2>5, <2>b
    <3>3. stage' \in Content /\ \A d \in Chunks : stage'[d] = IF d = c THEN y ELSE stage[d]
      BY <1>0, <3>1, <3>2 DEF Content, ByteSet
    <3>4. \A d \in Chunks : Wear(d, stage[d], stage'[d])
      BY <2>c, <3>2, <3>3
    <3> QED BY <1>0, <2>3, <2>5, <2>c, <3>3, <3>4
  <2>6. ASSUME NEW n \in Names, v \in dest[n][c].due, UNCHANGED <<stage, backup>>,
               \E x \in After(dest[n][c], v, lands) : dest' = [dest EXCEPT ![n][c] = x]
        PROVE  /\ \A m \in Names, d \in Chunks : Wear(d, dest[m][d], dest'[m][d])
               /\ dest' \in [Names -> Content]
    <3>1. PICK y \in After(dest[n][c], v, lands) : dest' = [dest EXCEPT ![n][c] = y]
      BY <2>6
    <3>2. dest[n] \in Content /\ Wear(c, dest[n][c], y) /\ y \in ByteSet
      BY <1>0, <1>a, <2>6, <2>b
    <3> DEFINE z == [dest[n] EXCEPT ![c] = y]
    <3>3. z \in Content /\ \A d \in Chunks : z[d] = IF d = c THEN y ELSE dest[n][d]
      BY <3>2 DEF Content, ByteSet
    <3>4. dest' = [dest EXCEPT ![n] = z]
      BY <3>1
    <3>5. \A d \in Chunks : Wear(d, dest[n][d], z[d])
      BY <2>c, <3>2, <3>3
    <3> HIDE DEF z
    <3>6. dest' \in [Names -> Content] /\ \A m \in Names : dest'[m] = IF m = n THEN z ELSE dest[m]
      BY <1>0, <3>3, <3>4
    <3> QED BY <2>c, <3>5, <3>6
  <2>7. ASSUME NEW n \in Names, v \in backup[n][c].due, UNCHANGED <<stage, dest>>,
               \E x \in After(backup[n][c], v, lands) : backup' = [backup EXCEPT ![n][c] = x]
        PROVE  /\ \A m \in Names, d \in Chunks : Wear(d, backup[m][d], backup'[m][d])
               /\ backup' \in [Names -> Content]
    <3>1. PICK y \in After(backup[n][c], v, lands) : backup' = [backup EXCEPT ![n][c] = y]
      BY <2>7
    <3>2. backup[n] \in Content /\ Wear(c, backup[n][c], y) /\ y \in ByteSet
      BY <1>0, <1>a, <2>7, <2>b
    <3> DEFINE z == [backup[n] EXCEPT ![c] = y]
    <3>3. z \in Content /\ \A d \in Chunks : z[d] = IF d = c THEN y ELSE backup[n][d]
      BY <3>2 DEF Content, ByteSet
    <3>4. backup' = [backup EXCEPT ![n] = z]
      BY <3>1
    <3>5. \A d \in Chunks : Wear(d, backup[n][d], z[d])
      BY <2>c, <3>2, <3>3
    <3> HIDE DEF z
    <3>6. backup' \in [Names -> Content] /\ \A m \in Names : backup'[m] = IF m = n THEN z ELSE backup[m]
      BY <1>0, <3>3, <3>4
    <3> QED BY <2>c, <3>5, <3>6
  <2>8. \/ /\ v \in stage[c].due /\ UNCHANGED <<dest, backup>>
           /\ \E x \in After(stage[c], v, lands) : stage' = [stage EXCEPT ![c] = x]
        \/ \E n \in Names :
              \/ /\ v \in dest[n][c].due /\ UNCHANGED <<stage, backup>>
                 /\ \E x \in After(dest[n][c], v, lands) : dest' = [dest EXCEPT ![n][c] = x]
              \/ /\ v \in backup[n][c].due /\ UNCHANGED <<stage, dest>>
                 /\ \E x \in After(backup[n][c], v, lands) : backup' = [backup EXCEPT ![n][c] = x]
    BY <2>4, Zenon DEF Settle
  <2>9. CASE ~(v \in stage[c].due /\ UNCHANGED <<dest, backup>>
              /\ \E x \in After(stage[c], v, lands) : stage' = [stage EXCEPT ![c] = x])
    <3>1. PICK n \in Names :
              \/ /\ v \in dest[n][c].due /\ UNCHANGED <<stage, backup>>
                 /\ \E x \in After(dest[n][c], v, lands) : dest' = [dest EXCEPT ![n][c] = x]
              \/ /\ v \in backup[n][c].due /\ UNCHANGED <<stage, dest>>
                 /\ \E x \in After(backup[n][c], v, lands) : backup' = [backup EXCEPT ![n][c] = x]
      BY <2>8, <2>9, Zenon
    <3>2. CASE /\ v \in dest[n][c].due /\ UNCHANGED <<stage, backup>>
               /\ \E x \in After(dest[n][c], v, lands) : dest' = [dest EXCEPT ![n][c] = x]
      <4>1. /\ \A m \in Names, d \in Chunks : Wear(d, dest[m][d], dest'[m][d])
            /\ dest' \in [Names -> Content]
        BY <2>6, <3>2, Zenon
      <4> QED BY <1>0, <2>3, <2>c, <3>2, <4>1
    <3>3. CASE /\ v \in backup[n][c].due /\ UNCHANGED <<stage, dest>>
               /\ \E x \in After(backup[n][c], v, lands) : backup' = [backup EXCEPT ![n][c] = x]
      <4>1. /\ \A m \in Names, d \in Chunks : Wear(d, backup[m][d], backup'[m][d])
            /\ backup' \in [Names -> Content]
        BY <2>7, <3>3, Zenon
      <4> QED BY <1>0, <2>3, <2>c, <3>3, <4>1
    <3> QED BY <3>1, <3>2, <3>3, Zenon
  <2> QED BY <2>5, <2>9, Zenon
<1>2. CASE RcvCrash
  <2>1. PICK hit : /\ stage' = Cut(stage, hit)
                   /\ dest' = [n \in Names |-> Cut(dest[n], hit)]
                   /\ backup' = [n \in Names |-> Cut(backup[n], hit)]
    BY <1>2 DEF RcvCrash
  <2>2. /\ astray' = astray \cup {c \in Chunks : UnderWay(c) # {}} /\ UNCHANGED state
        /\ astray \subseteq astray' /\ astray' \subseteq Chunks
    BY <1>0, <1>2 DEF RcvCrash
  <2>3. \A c \in Chunks : /\ stage[c].due # {} => c \in astray'
                          /\ \A n \in Names : dest[n][c].due # {} \/ backup[n][c].due # {} => c \in astray'
    <3>1. \A c \in Chunks : stage[c].due \subseteq UnderWay(c)
      BY Zenon DEF UnderWay
    <3>2. \A c \in Chunks, n \in Names : dest[n][c].due \subseteq UnderWay(c) /\ backup[n][c].due \subseteq UnderWay(c)
      <4> TAKE c \in Chunks, n \in Names
      <4>1. dest[n][c].due \cup backup[n][c].due \in {dest[m][c].due \cup backup[m][c].due : m \in Names}
        OBVIOUS
      <4> QED BY <4>1, Zenon DEF UnderWay
    <3>3. \A c \in Chunks : UnderWay(c) # {} => c \in astray'
      BY <2>2
    <3> QED BY <3>1, <3>2, <3>3
  <2>4. \A x \in Content : Cut(x, hit) \in Content
    <3> TAKE x \in Content
    <3>1. \A c \in Chunks : x[c].is \in Int
      BY DEF Content
    <3>2. \A v \in Int : Bytes(v) \in [is : Int, due : SUBSET Nat]
      BY DEF Bytes
    <3>3. \A c \in Chunks :
             Bytes(IF c \in hit /\ ~(x[c].due \subseteq {x[c].is}) THEN Zero ELSE x[c].is) \in [is : Int, due : SUBSET Nat]
      BY <3>1, <3>2 DEF Zero
    <3> QED BY <3>3 DEF Content, Cut
  <2>5. \A n \in Names : /\ dest[n] \in Content /\ backup[n] \in Content
                         /\ dest'[n] = Cut(dest[n], hit) /\ backup'[n] = Cut(backup[n], hit)
    BY <1>0, <2>1
  <2>6. \A c \in Chunks : Wear(c, stage[c], stage'[c])
    BY <1>0, <2>1, <2>3, CutWears
  <2>7. \A n \in Names, c \in Chunks : Wear(c, dest[n][c], dest'[n][c]) /\ Wear(c, backup[n][c], backup'[n][c])
    BY <2>3, <2>5, CutWears
  <2>8. stage' \in Content /\ dest' \in [Names -> Content] /\ backup' \in [Names -> Content]
    BY <1>0, <2>1, <2>4, <2>5
  <2> QED BY <2>2, <2>6, <2>7, <2>8
<1> QED BY <1>1, <1>2

\* The disk.  What is staged is put in place or left; the resume state is a whole one.
LEMMA DiskStep == ASSUME Typed, Session, [Next]_vars PROVE DiskTyped'
<1>0. DiskTyped /\ MemTyped /\ SourceTyped /\ InOrder /\ CleanStart /\ Holding /\ OneFlush
  BY DEF Typed, Session
<1>a. /\ stage \in Content /\ state \in StateSet /\ astray \subseteq Chunks
      /\ dest \in [Names -> Content] /\ backup \in [Names -> Content]
  BY <1>0 DEF DiskTyped, StateSet
<1>b. /\ Prepared \in Content
      /\ \A n : Moved(n) \in Content /\ Staged(n) \in Content
  <2>1. \A c \in Chunks : stage[c] \in ByteSet
    BY <1>a DEF Content, ByteSet
  <2>2. Bytes(None) \in ByteSet /\ Bytes(Zero) \in ByteSet
    BY Constant
  <2> QED BY <2>1, <2>2 DEF Prepared, Moved, Staged, Content, ByteSet
<1>1. CASE UNCHANGED disk_vars
  BY <1>0, <1>1 DEF DiskTyped, disk_vars
<1>2. CASE UNCHANGED vars \/ Sends \/ Notices \/ Waits
  BY <1>0, <1>1, <1>2, Sent, Noticed, Waited DEF vars, disk_vars
<1>3. CASE RcvRefuse \/ RcvFails \/ RcvRecheck \/ RcvCompleted \/ \E n \in Targets : CommitRefuse(n)
  BY <1>1, <1>3, Zenon DEF RcvRefuse, RcvFails, RcvRecheck, RcvCompleted, CommitRefuse
<1>4. CASE RcvReject \/ CommitClean
  <2>1. /\ stage' = Absent /\ state' = NoState /\ backup' = [n \in Names |-> Absent] /\ dest' = dest
        /\ astray' = astray
    BY <1>4, Zenon DEF RcvReject, CommitClean
  <2> QED BY <1>a, <2>1, Constant DEF DiskTyped, StateSet
<1>5. CASE CommitRollback
  <2>1. dest' = [dest EXCEPT ![final] = backup[final]] /\ backup' = [backup EXCEPT ![final] = Absent]
        /\ UNCHANGED <<stage, state, astray>>
    BY <1>5 DEF CommitRollback
  <2>2. final \in Names
    BY <1>0 DEF MemTyped
  <2>3. backup[final] \in Content
    BY <1>a, <2>2
  <2>4. dest' \in [Names -> Content] /\ backup' \in [Names -> Content]
    BY <1>a, <2>1, <2>3, Constant
  <2> QED BY <1>a, <2>1, <2>4 DEF DiskTyped, StateSet
<1>6. CASE Manifests
  <2>0. astray' \subseteq Chunks /\ UNCHANGED <<dest, backup>>
    BY <1>6, Came DEF Late
  <2>1. CASE RcvAlreadyComplete
    BY <1>a, <2>0, <2>1 DEF RcvAlreadyComplete, DiskTyped, StateSet
  <2>2. CASE RcvFresh
    <3>1. PICK n \in FinalNames : state' = [present |-> TRUE, man |-> Manifest, done |-> {}, final |-> n]
      BY <2>2 DEF RcvFresh
    <3>2. n \in Singles
      BY DEF FinalNames, Singles
    <3>3. Manifest \in Versions
      BY <1>6, Came DEF Manifest
    <3>4. state' \in StateSet
      BY <3>1, <3>2, <3>3 DEF StateSet
    <3> QED BY <1>a, <1>b, <2>0, <2>2, <3>4 DEF RcvFresh, DiskTyped, StateSet
  <2>3. CASE RcvResume
    BY <1>a, <1>b, <2>0, <2>3 DEF RcvResume, DiskTyped, StateSet
  <2> QED BY <1>6, <2>1, <2>2, <2>3 DEF Manifests
<1>7. CASE Checks \/ Marks
  <2>1. UNCHANGED <<stage, state, dest, backup, astray>>
    BY <1>0, <1>7, Checked, Marked
  <2> QED BY <1>1, <2>1 DEF disk_vars
<1>8. CASE Writes
  <2>1. PICK c \in Chunks, v \in Nat :
           stage' = [stage EXCEPT ![c] = [is |-> stage[c].is, due |-> stage[c].due \cup {v}]]
    BY <1>0, <1>8, Wrote
  <2> DEFINE y == [is |-> stage[c].is, due |-> stage[c].due \cup {v}]
  <2>2. y \in [is : Int, due : SUBSET Nat]
    BY <1>a DEF Content
  <2> HIDE DEF y
  <2>3. stage' \in Content
    BY <1>a, <2>1, <2>2 DEF Content, y
  <2>4. UNCHANGED <<state, dest, backup, astray>>
    BY <1>0, <1>8, Wrote
  <2> QED BY <1>a, <2>3, <2>4 DEF DiskTyped, StateSet
<1>9. CASE Flushes
  <2>0. UNCHANGED <<stage, dest, backup, astray>>
    BY <1>0, <1>9, FlushMoves
  <2>1. CASE state' = state
    BY <1>a, <2>0, <2>1 DEF DiskTyped, StateSet
  <2>2. CASE FlushRemove
    BY <1>a, <2>0, <2>2, Constant DEF FlushRemove, DiskTyped, StateSet
  <2>3. CASE FlushRename
    <3>1. final \in Singles
      BY <1>0, <2>3 DEF FlushRename, CleanStart, MemTyped
    <3>2. rman \in Versions /\ flush.done \subseteq Chunks
      BY <1>0 DEF SourceTyped, MemTyped
    <3>3. state' \in StateSet
      BY <2>3, <3>1, <3>2 DEF FlushRename, StateSet
    <3> QED BY <1>a, <2>0, <3>3 DEF DiskTyped, StateSet
  <2>4. CASE FlushFails \/ \E w \in Workers : FlushBegin(w)
    BY <2>1, <2>4 DEF FlushFails, FlushBegin, disk_vars
  <2> QED BY <1>9, <2>2, <2>3, <2>4 DEF Flushes
<1>10. CASE Resets
  BY <1>1, <1>10, Reset DEF disk_vars
<1>11. CASE CommitSwap \/ \E n \in Targets : CommitPlace(n)
  <2>1. PICK n : /\ dest' = [dest EXCEPT ![n] = Staged(n)] /\ stage' = Moved(n)
                 /\ UNCHANGED <<state, backup, astray>>
    BY <1>11, Zenon DEF CommitSwap, CommitPlace
  <2>2. dest' \in [Names -> Content]
    BY <1>a, <1>b, <2>1
  <2> QED BY <1>a, <1>b, <2>1, <2>2 DEF DiskTyped, StateSet
<1>12. CASE \E n \in Targets : CommitBackup(n)
  <2>1. PICK n \in Targets : CommitBackup(n)
    BY <1>12
  <2>2. n \in Names
    BY DEF Targets, Names
  <2>3. dest[n] \in Content
    BY <1>a, <2>2
  <2>4. dest' \in [Names -> Content] /\ backup' \in [Names -> Content]
    BY <1>a, <2>1, <2>3, Constant DEF CommitBackup
  <2> QED BY <1>a, <2>1, <2>4 DEF CommitBackup, DiskTyped, StateSet
<1>13. CASE CommitRemoveBackup
  <2>1. backup' \in [Names -> Content]
    BY <1>a, <1>13, Constant DEF CommitRemoveBackup
  <2> QED BY <1>a, <1>13, <2>1 DEF CommitRemoveBackup, DiskTyped, StateSet
<1>14. CASE Returns
  BY <1>3, <1>4, <1>5, <1>14, Zenon DEF Returns
<1>15. CASE Commits
  BY <1>4, <1>11, <1>12, <1>13, <1>15, Zenon DEF Commits
<1>16. CASE Lands \/ Losses \/ RcvCrash
  BY <1>0, <1>a, <1>16, Wears DEF DiskTyped, StateSet
<1> QED BY <1>2, <1>6, <1>7, <1>8, <1>9, <1>10, <1>14, <1>15, <1>16, Steps, Zenon

\* Every variable keeps its type.
LEMMA Types == ASSUME Typed, Session, [Next]_vars PROVE Typed'
<1>0. InOrder
  BY DEF Session
<1>1. multi' \in BOOLEAN
  BY <1>0, Config DEF Typed
<1> QED BY <1>0, <1>1, SourceStep, QueueStep, NetStep, MemStep, DiskStep DEF Typed

\* Once every stream is joined nothing is left to flush.
LEMMA NothingLeft ==
    ASSUME MemTyped, CleanStart, OneFlush, rp = "stream", Joined
    PROVE  flush.step = "idle"
<1>1. \A w \in Workers : rw[w] \in {"off", "ended", "spent"}
  BY DEF Joined, Expected, CleanStart, NoStreams
<1> QED BY <1>1 DEF OneFlush, Flushers

\* A stream is taken only when one is expected.
LEMMA Expecting ==
    ASSUME Typed, Session, [Next]_vars, rp = "stream", rp' = "stream"
    PROVE  /\ UNCHANGED had /\ done \subseteq done'
           /\ \A w \in Workers : rw[w] # "off" => rw'[w] # "off"
           /\ \A w \in Workers : rw[w] = "off" /\ rw'[w] # "off" => had # Chunks
           /\ NoStreams' => UNCHANGED <<fresh, done>>
<1>0. /\ MemTyped /\ InOrder /\ Holding /\ CleanStart /\ OneFlush /\ rw \in [Workers -> RwStates]
  BY DEF Typed, MemTyped, Session
<1>1. CASE UNCHANGED vars \/ Sends \/ Notices
  BY <1>1, Sent, Noticed DEF vars, mem_vars, res_vars
<1>2. CASE Waits
  <2>1. PICK w \in Workers, r \in {"run", "last", "lastErr"} :
           rw' = [rw EXCEPT ![w] = r] /\ (w \in Expected \/ rw[w] = "run")
    BY <1>0, <1>2, Waited
  <2>2. UNCHANGED <<had, done, fresh>>
    BY <1>0, <1>2, Waited
  <2> QED BY <1>0, <2>1, <2>2 DEF Expected
<1>3. CASE Checks
  <2>1. PICK w \in Workers, next \in {"run", "lastOld", "lastErr"} :
           /\ rw[w] = "run" \/ w \in Expected
           /\ rw' = [rw EXCEPT ![w] = next] \/ \E c \in Chunks : \E v \in Nat : Held(w, c, v, next)
    BY <1>0, <1>3, Checked
  <2>2. UNCHANGED <<had, done, fresh>>
    BY <1>0, <1>3, Checked
  <2> QED BY <1>0, <2>1, <2>2 DEF Expected, Held
<1>4. CASE Writes
  BY <1>0, <1>4, Wrote
<1>5. CASE Marks
  <2>1. PICK w \in Workers, r \in {"run", "flush", "lastOld", "lastErr"} :
           rw[w] = "mark" /\ rw' = [rw EXCEPT ![w] = r]
    BY <1>0, <1>5, Marked
  <2>2. UNCHANGED had /\ done \subseteq done'
    BY <1>0, <1>5, Marked
  <2> QED BY <1>0, <2>1, <2>2 DEF NoStreams
<1>6. CASE Lands \/ Losses
  BY <1>0, <1>6, Settled
<1>7. CASE Flushes
  BY <1>0, <1>7, FlushMoves DEF Leads, Flushers
<1>8. CASE Returns \/ RcvCrash \/ Manifests \/ Resets \/ Commits
  BY <1>8, Returned, Crashed, Came, Reset, Committed
<1> QED BY <1>1, <1>2, <1>3, <1>4, <1>5, <1>6, <1>7, <1>8, Steps, Zenon

\* Nothing is in memory before the first stream.
LEMMA CleanStep == ASSUME Typed, Session, [Next]_vars PROVE CleanStart'
<1>0. MemTyped /\ InOrder /\ Holding /\ CleanStart /\ OneFlush /\ flush.step \in {"idle", "remove", "rename"}
  BY DEF Typed, MemTyped, Session
<1>1. CASE Returns \/ RcvCrash
  <2>1. Forget /\ rp' \in {"listen", "down"}
    BY <1>1, Returned, Crashed
  <2> QED BY <2>1, Constant DEF Forget, CleanStart, NoStreams, NotBegun, Idle, AllOff
<1>2. CASE UNCHANGED <<rp, had, done, fresh, flush, rw>>
  BY <1>0, <1>2 DEF CleanStart, NotBegun, Idle, NoStreams
<1>3. CASE UNCHANGED vars \/ Sends
  BY <1>2, <1>3, Sent DEF vars, mem_vars, res_vars
<1>4. CASE Notices
  <2>1. UNCHANGED <<had, done, fresh, flush, rw>>
    BY <1>4, Noticed DEF mem_vars, res_vars
  <2>2. CASE RcvStray
    BY <1>2, <2>1, <2>2 DEF RcvStray
  <2>3. CASE RcvAccept \/ RcvRestart
    BY <1>0, <2>1, <2>3 DEF RcvAccept, RcvRestart, CleanStart, Idle, NotBegun, NoStreams
  <2>4. CASE RcvVerify
    <3>1. flush.step = "idle"
      BY <1>0, <2>4, NothingLeft DEF RcvVerify
    <3> QED BY <2>1, <2>4, <3>1 DEF RcvVerify, CleanStart, NotBegun, Idle
  <2> QED BY <1>4, <2>2, <2>3, <2>4 DEF Notices
<1>5. CASE Manifests
  <2>1. done' = had'
    <3>1. done = had
      BY <1>0, <1>5, Came DEF CleanStart, NotBegun, Idle
    <3>2. CASE RcvAlreadyComplete
      BY <3>1, <3>2 DEF RcvAlreadyComplete, res_vars
    <3>3. CASE RcvFresh
      BY <3>3 DEF RcvFresh
    <3>4. CASE RcvResume
      BY <3>4 DEF RcvResume
    <3> QED BY <1>5, <3>2, <3>3, <3>4 DEF Manifests
  <2> QED BY <1>0, <1>5, <2>1, Came DEF CleanStart, NotBegun, Idle, NoStreams
<1>6. CASE rp = "stream" /\ rp' = "stream"
  BY <1>0, <1>6, Expecting DEF CleanStart, NotBegun, Idle, NoStreams
<1>7. CASE Waits \/ Checks \/ Writes \/ Marks
  BY <1>0, <1>6, <1>7, Waited, Checked, Wrote, Marked
<1>8. CASE Lands \/ Losses
  <2>1. UNCHANGED <<rp, had, done, fresh, flush>>
    BY <1>8, Settled
  <2>2. NoStreams <=> NoStreams'
    BY <1>0, <1>8, Settled DEF NoStreams, MemTyped
  <2> QED BY <1>0, <2>1, <2>2 DEF CleanStart, NotBegun, Idle
<1>9. CASE Flushes
  <2>1. (rp = "stream" /\ rp' = rp) \/ (rp = "reset" /\ (rp' = rp \/ (rp' = "fail" /\ flush' = NoFlush)))
    BY <1>0, <1>9, FlushMoves
  <2> QED BY <1>6, <2>1, Constant DEF CleanStart, NotBegun, Idle
<1>10. CASE Resets
  BY <1>10, Reset DEF CleanStart, NotBegun, Idle
<1>11. CASE Commits
  BY <1>0, <1>11, Committed DEF CleanStart, NotBegun, Idle
<1> QED BY <1>1, <1>3, <1>4, <1>5, <1>7, <1>8, <1>9, <1>10, <1>11, Steps, Zenon

\* The manifest under way is the sender's.
LEMMA ManifestStep == ASSUME Typed, Session, [Next]_vars PROVE SameManifest'
<1>0. /\ MemTyped /\ InOrder /\ Holding /\ CleanStart /\ OneFlush /\ SameManifest
      /\ toR \in Seq(ToRcv) /\ toR' \in Seq(ToRcv)
  BY NetStep DEF Typed, NetTyped, Session
<1>1. \A i \in 1 .. Len(toR') : toR'[i].man = man'
  <2>1. CASE SndStart
    <3> DEFINE e == [k |-> "manifest", man |-> src]
    <3>1. e.man = man'
      BY <2>1 DEF SndStart
    <3> HIDE DEF e
    <3>2. toR' = <<e>>
      BY <2>1 DEF SndStart, e
    <3> QED BY <3>1, <3>2
  <2>2. CASE man' = man
    <3>1. CASE UNCHANGED toR \/ toR' = <<>>
      BY <1>0, <2>2, <3>1 DEF SameManifest
    <3>2. CASE toR # <<>> /\ toR' = Tail(toR)
      BY <1>0, <2>2, <3>2 DEF SameManifest
    <3>3. CASE toR' = SummaryTo(toR)
      <4> DEFINE e == [k |-> "summary", man |-> man]
      <4>1. e.man = man
        OBVIOUS
      <4> HIDE DEF e
      <4>2. toR' = toR \/ toR' = Append(toR, e)
        BY <3>3 DEF SummaryTo, e
      <4> QED BY <1>0, <2>2, <4>1, <4>2 DEF SameManifest
    <3> QED BY <1>0, <2>1, <3>1, <3>2, <3>3, ToRcvStep
  <2>3. SndStart \/ man' = man
    BY <1>0, SenderOnly, Source DEF Edit, snd_vars
  <2> QED BY <2>1, <2>2, <2>3
<1>2. ~Idle' => rman' = man'
  <2>1. CASE Manifests
    <3>1. Head(toR) = toR[1] /\ 1 \in 1 .. Len(toR)
      BY <1>0, <2>1, Came
    <3> QED BY <1>0, <2>1, <3>1, Came DEF SameManifest, snd_vars
  <2>2. CASE SndStart
    BY <2>2 DEF SndStart, Idle
  <2>3. CASE Sends /\ ~SndStart
    <3>1. UNCHANGED <<man, rman, rp>>
      BY <2>3, Sent, Source DEF Edit, snd_vars, mem_vars
    <3> QED BY <1>0, <3>1 DEF SameManifest, Idle
  <2>4. CASE Returns \/ RcvCrash
    BY <2>4, Returned, Crashed DEF Idle
  <2>5. CASE UNCHANGED <<man, rman, rp>>
    BY <1>0, <2>5 DEF SameManifest, Idle
  <2>6. CASE Notices
    <3>1. UNCHANGED <<man, rman>>
      BY <2>6, Noticed DEF snd_vars, mem_vars
    <3>2. ~Idle' => ~Idle
      BY <2>6 DEF Notices, RcvStray, RcvAccept, RcvVerify, RcvRestart, Idle
    <3> QED BY <1>0, <3>1, <3>2 DEF SameManifest
  <2>7. CASE UNCHANGED vars \/ Waits \/ Checks
    BY <1>0, <2>5, <2>7, Waited, Checked DEF snd_vars, vars, mem_vars
  <2>8. CASE Writes \/ Marks \/ Lands \/ Losses
    <3>1. UNCHANGED <<man, rman>>
      BY <2>8, Apart DEF snd_vars
    <3>2. rp' = rp
      BY <1>0, <2>8, Wrote, Marked, Settled
    <3> QED BY <2>5, <3>1, <3>2
  <2>9. CASE Flushes \/ Resets \/ Commits
    <3>1. UNCHANGED <<man, rman>>
      BY <2>9, Apart DEF snd_vars
    <3>2. rp # "listen" /\ rp # "down"
      BY <1>0, <2>9, FlushMoves, Reset, Committed
    <3> QED BY <1>0, <3>1, <3>2 DEF SameManifest, Idle
  <2> QED BY <2>1, <2>2, <2>3, <2>4, <2>6, <2>7, <2>8, <2>9, Steps, Zenon
<1> QED BY <1>1, <1>2 DEF SameManifest

\* The flush under way is that of a handler that waits.
LEMMA FlushStep == ASSUME Typed, Session, [Next]_vars PROVE OneFlush'
<1>0. /\ MemTyped /\ InOrder /\ Holding /\ CleanStart /\ OneFlush
      /\ rw \in [Workers -> RwStates] /\ flush \in FlushSet
  BY DEF Typed, MemTyped, Session, FlushSet
<1>1. CASE UNCHANGED <<rp, rw, flush>>
  BY <1>0, <1>1 DEF OneFlush
<1>2. CASE UNCHANGED vars \/ Sends
  BY <1>1, <1>2, Sent DEF vars, mem_vars
<1>3. CASE rp' # "stream"
  BY <1>3 DEF OneFlush
<1>4. CASE Returns \/ RcvCrash \/ Manifests \/ Resets \/ Commits
  BY <1>3, <1>4, Returned, Crashed, Came, Reset, Committed
<1>5. CASE Notices
  <2>1. UNCHANGED <<rw, flush>>
    BY <1>5, Noticed DEF mem_vars
  <2>2. rp' = "stream" => rp = "confirm"
    BY <1>5 DEF Notices, RcvStray, RcvAccept, RcvVerify, RcvRestart
  <2> QED BY <1>0, <2>1, <2>2 DEF OneFlush, CleanStart
<1>6. CASE flush' = flush /\ rp' = rp /\ \A w \in Workers : rw[w] \in Flushers => rw'[w] = rw[w]
  BY <1>0, <1>6 DEF OneFlush
<1>7. CASE Waits
  <2>1. PICK w \in Workers, r \in {"run", "last", "lastErr"} :
           rw' = [rw EXCEPT ![w] = r] /\ rw[w] \in {"off", "run"}
    BY <1>0, <1>7, Waited
  <2>2. \A x \in Workers : rw[x] \in Flushers => rw'[x] = rw[x]
    BY <1>0, <2>1 DEF Flushers
  <2> QED BY <1>0, <1>6, <1>7, <2>2, Waited
<1>8. CASE Checks
  <2>1. PICK w \in Workers, next \in {"run", "lastOld", "lastErr"} :
           /\ rw[w] \in {"off", "run"}
           /\ rw' = [rw EXCEPT ![w] = next] \/ \E c \in Chunks : \E v \in Nat : Held(w, c, v, next)
    BY <1>0, <1>8, Checked
  <2>2. \A x \in Workers : rw[x] \in Flushers => rw'[x] = rw[x]
    BY <1>0, <2>1 DEF Flushers, Held
  <2> QED BY <1>0, <1>6, <1>8, <2>2, Checked
<1>9. CASE Writes
  <2>1. \A x \in Workers : rw[x] \in Flushers => rw'[x] = rw[x]
    BY <1>0, <1>9, Wrote DEF Flushers
  <2> QED BY <1>0, <1>6, <1>9, <2>1, Wrote
<1>10. CASE Marks
  <2>1. PICK w \in Workers, r \in {"run", "flush", "lastOld", "lastErr"} :
           rw[w] = "mark" /\ rw' = [rw EXCEPT ![w] = r]
    BY <1>0, <1>10, Marked
  <2>2. \A x \in Workers : rw[x] \in Flushers => rw'[x] = rw[x]
    BY <1>0, <2>1 DEF Flushers
  <2> QED BY <1>0, <1>6, <1>10, <2>2, Marked
<1>11. CASE Lands \/ Losses
  <2>1. \A x \in Workers : rw[x] \in Flushers => rw'[x] = rw[x]
    BY <1>0, <1>11, Settled DEF Flushers
  <2> QED BY <1>6, <1>11, <2>1, Settled
<1>12. CASE \E w \in Workers : FlushBegin(w)
  <2>1. PICK w \in Workers : FlushBegin(w)
    BY <1>12
  <2>2. CASE pend = 0
    BY <2>1, <2>2 DEF FlushBegin, OneFlush
  <2>3. CASE pend # 0
    BY <2>1, <2>3 DEF FlushBegin, OneFlush, Flushing, Flushers
  <2> QED BY <2>2, <2>3
<1>13. CASE FlushRemove
  <2>1. flush.step # "idle" /\ UNCHANGED <<rp, rw>> /\ flush'.by = flush.by
    BY <1>0, <1>13 DEF FlushRemove, FlushSet
  <2> QED BY <1>0, <2>1 DEF OneFlush
<1>14. CASE FlushRename \/ FlushFails
  BY <1>14, Constant DEF FlushRename, FlushFails, OneFlush
<1> QED BY <1>2, <1>4, <1>5, <1>7, <1>8, <1>9, <1>10, <1>11, <1>12, <1>13, <1>14, Steps, Zenon DEF Flushes

\* What is known of a session.
LEMMA SessionStep == ASSUME Typed, Session, [Next]_vars PROVE Typed' /\ Session'
BY Types, HandlerStep, CleanStep, ManifestStep, FlushStep DEF Session

-----------------------------------------------------------------------------
\* A handler that has an excuse keeps it.
LEMMA ExcuseKept ==
    ASSUME Typed, Session, [Next]_vars, rp' = "stream", rp = "stream", Excuse PROVE Excuse'
<1>0. /\ MemTyped /\ InOrder /\ Holding /\ CleanStart /\ OneFlush /\ NoHand \notin Hand /\ NoHand.next = "none"
      /\ rw \in [Workers -> RwStates] /\ hand \in [Workers -> Hand \cup {NoHand}]
  BY Constant DEF Typed, MemTyped, Session
<1>a. PICK x \in Workers : rw[x] \in {"lastOld", "lastErr", "spent", "err"} \/ hand[x].next \in {"lastOld", "lastErr"}
  BY DEF Excuse
<1>b. hand[x].next \in {"lastOld", "lastErr"} => rw[x] \in {"write", "mark"}
  BY <1>0 DEF Holding
<1>1. CASE UNCHANGED <<rw, hand>>
  BY <1>a, <1>1 DEF Excuse
<1>2. CASE Waits
  <2>1. PICK w \in Workers, r \in {"run", "last", "lastErr"} :
           rw' = [rw EXCEPT ![w] = r] /\ rw[w] \in {"off", "run"}
    BY <1>0, <1>2, Waited
  <2>2. hand' = hand
    BY <1>0, <1>2, Waited
  <2>3. rw'[x] = rw[x]
    BY <1>0, <1>a, <1>b, <2>1
  <2> QED BY <1>a, <2>2, <2>3 DEF Excuse
<1>3. CASE Checks
  <2>1. PICK w \in Workers, next \in {"run", "lastOld", "lastErr"} :
           /\ rw[w] \in {"off", "run"}
           /\ \/ rw' = [rw EXCEPT ![w] = next] /\ UNCHANGED hand
              \/ \E c \in Chunks : \E v \in Nat : Held(w, c, v, next)
    BY <1>0, <1>3, Checked
  <2>2. x # w
    BY <1>a, <1>b, <2>1
  <2>3. rw'[x] = rw[x] /\ hand'[x] = hand[x]
    BY <1>0, <2>1, <2>2 DEF Held
  <2> QED BY <1>a, <2>3 DEF Excuse
<1>4. CASE Writes
  <2>1. PICK w \in Workers : rw[w] = "write" /\ rw' = [rw EXCEPT ![w] = "mark"]
    BY <1>0, <1>4, Wrote
  <2>2. hand' = hand
    BY <1>0, <1>4, Wrote
  <2> QED BY <1>0, <1>a, <2>1, <2>2 DEF Excuse
<1>5. CASE Marks
  <2>1. PICK w \in Workers, r \in {"run", "flush", "lastOld", "lastErr"} :
           /\ rw[w] = "mark" /\ rw' = [rw EXCEPT ![w] = r] /\ hand' = [hand EXCEPT ![w] = NoHand]
           /\ r = hand[w].next \/ (r = "flush" /\ hand[w].next = "run")
    BY <1>0, <1>5, Marked
  <2>2. CASE x = w
    BY <1>0, <1>a, <2>1, <2>2 DEF Excuse
  <2>3. CASE x # w
    BY <1>0, <1>a, <2>1, <2>3 DEF Excuse
  <2> QED BY <2>2, <2>3
<1>6. CASE Lands \/ Losses
  <2>1. CASE \E w \in Workers : rw[w] = "write" /\ rw' = [rw EXCEPT ![w] = "lastErr"]
    BY <1>0, <2>1 DEF Excuse
  <2> QED BY <1>1, <1>6, <2>1, Settled
<1>7. CASE Flushes
  <2>1. hand' = hand
    BY <1>0, <1>7, FlushMoves
  <2>2. CASE \E w \in Workers : \E r : Leads(rw[w], r) /\ rw' = [rw EXCEPT ![w] = r]
    <3>0. PICK w \in Workers : \E r : Leads(rw[w], r) /\ rw' = [rw EXCEPT ![w] = r]
      BY <2>2
    <3>1. PICK r : Leads(rw[w], r) /\ rw' = [rw EXCEPT ![w] = r]
      BY <3>0
    <3>2. CASE x = w
      BY <1>0, <1>a, <1>b, <3>1, <3>2 DEF Excuse, Leads, Flushers
    <3>3. CASE x # w
      BY <1>0, <1>a, <2>1, <3>1, <3>3 DEF Excuse
    <3> QED BY <3>2, <3>3
  <2> QED BY <1>0, <1>1, <1>7, <2>1, <2>2, FlushMoves
<1>8. CASE UNCHANGED vars \/ Sends \/ Notices \/ Manifests
  BY <1>1, <1>8, Sent, Noticed, Came DEF vars, mem_vars
<1>9. CASE Returns \/ RcvCrash \/ Resets \/ Commits
  BY <1>9, Returned, Crashed, Reset, Committed
<1> QED BY <1>2, <1>3, <1>4, <1>5, <1>6, <1>7, <1>8, <1>9, Steps, Zenon

\* Before the first stream nobody has a chunk in hand.
LEMMA EmptyHands ==
    ASSUME Typed, Session, NoStreams
    PROVE  ~Excuse /\ \A w \in Workers : hand[w] = NoHand /\ hand[w] \notin Hand
<1>1. \A w \in Workers : hand[w] \in Hand \cup {NoHand} /\ rw[w] = "off"
  BY DEF Typed, MemTyped, NoStreams
<1>2. \A w \in Workers : hand[w] \notin Hand
  BY <1>1 DEF Session, Holding
<1>3. \A w \in Workers : hand[w] = NoHand
  BY <1>1, <1>2
<1>4. NoHand.next = "none"
  BY Constant
<1>5. \A w \in Workers : hand[w].next = "none"
  BY <1>3, <1>4, Zenon
<1>6. ~Excuse
  <2> SUFFICES ASSUME Excuse PROVE FALSE
    OBVIOUS
  <2>1. PICK w \in Workers : rw[w] \in {"lastOld", "lastErr", "spent", "err"} \/ hand[w].next \in {"lastOld", "lastErr"}
    BY DEF Excuse
  <2>2. rw[w] = "off" /\ hand[w].next = "none"
    BY <1>1, <1>5
  <2> QED BY <2>1, <2>2
<1> QED BY <1>2, <1>3, <1>6

\* The connection of a sender that the listener has not heard of.
LEMMA UpStep ==
    ASSUME Typed, Session, Offer, [Next]_vars
    PROVE  /\ (Idle /\ toR = <<>> => ~up)'
           /\ (rp = "listen" => Len(toR) <= 1)' /\ (rp \in {"confirm", "down"} => toR = <<>>)'
           /\ (Asked => sp \notin {"sending", "summed"} /\ toS = <<>>)'
           /\ Asked' => Asked \/ SndStart
<1>0. /\ MemTyped /\ InOrder /\ Holding /\ CleanStart /\ OneFlush /\ toR \in Seq(ToRcv)
      /\ Idle /\ toR = <<>> => ~up
      /\ rp = "listen" => Len(toR) <= 1
      /\ rp \in {"confirm", "down"} => toR = <<>>
      /\ Asked => sp \notin {"sending", "summed"} /\ toS = <<>>
  BY DEF Typed, Session, Offer, NetTyped
<1>1. CASE UNCHANGED <<rp, toR, toS, up, sp>>
  BY <1>0, <1>1 DEF Idle, Asked
<1>2. CASE SndStart
  <2> DEFINE e == [k |-> "manifest", man |-> src]
  <2>1. rp' = "listen" /\ toR' = <<e>> /\ toS' = <<>> /\ sp' = "offered"
    BY <1>2 DEF SndStart
  <2> HIDE DEF e
  <2> QED BY <1>2, <2>1 DEF Idle, Asked
<1>3. CASE SndAccepted \/ \E w \in Workers : SndWorkerComplete(w)
  <2>1. rp' = rp /\ up' = up /\ (toR' = toR \/ toR' = SummaryTo(toR)) /\ ~Asked
    BY <1>0, <1>3 DEF SndAccepted, SndWorkerComplete
  <2>2. Idle => toR' = toR
    BY <1>0, <2>1 DEF SummaryTo, Idle, Asked
  <2>3. ~Asked' /\ (Idle' => Idle)
    BY <2>1, <2>2 DEF Asked, Idle
  <2> QED BY <1>0, <2>1, <2>2, <2>3 DEF Idle, Asked
<1>4. CASE SndCompleted \/ SndFails \/ SndDie
  <2>1. rp' = rp /\ toR' = toR /\ up' = FALSE /\ sp' \notin {"sending", "summed"} /\ (toS' = <<>> \/ toS # <<>>)
    BY <1>4, Zenon DEF SndCompleted, SndFails, SndDie, SndEnd
  <2> QED BY <1>0, <2>1 DEF Idle, Asked
<1>5. CASE (\E w \in Workers : SndChunk(w) \/ SndWorkerDone(w)) \/ \E f \in Files : Edit(f)
  BY <1>1, <1>5, Zenon DEF SndChunk, SndWorkerDone, Edit, snd_vars, net_vars
<1>6. CASE Sends
  BY <1>2, <1>3, <1>4, <1>5, <1>6, Zenon DEF Sends
<1>7. CASE Returns \/ RcvCrash
  <2>1. up' = FALSE /\ toR' = <<>> /\ rp' \in {"listen", "down"}
    BY <1>7, Returned, Crashed
  <2> QED BY <2>1 DEF Idle, Asked
<1>8. CASE Manifests
  <2>1. toR' = <<>>
    BY <1>0, <1>8, Came
  <2>2. rp' = "confirm" => toS' = toS
    BY <1>8, Zenon DEF Manifests, RcvAlreadyComplete, RcvFresh, RcvResume
  <2>3. Asked /\ sp' = sp /\ rp' \in {"recheck", "confirm"}
    BY <1>8, Came DEF Asked, snd_vars
  <2> QED BY <1>0, <2>1, <2>2, <2>3 DEF Idle, Asked
<1>9. CASE Notices
  <2>1. CASE RcvStray
    BY <1>1, <2>1 DEF RcvStray, snd_vars
  <2>2. CASE RcvAccept \/ RcvVerify
    BY <2>2 DEF RcvAccept, RcvVerify, Idle, Asked
  <2>3. CASE RcvRestart
    BY <1>0, <2>3 DEF RcvRestart, Idle, Asked, net_vars
  <2> QED BY <1>9, <2>1, <2>2, <2>3 DEF Notices
<1>10. CASE Waits \/ Checks
  BY <1>0, <1>1, <1>10, Waited, Checked DEF snd_vars
<1>11. CASE Writes \/ Marks \/ Lands \/ Losses
  <2>1. rp' = rp
    BY <1>0, <1>11, Wrote, Marked, Settled
  <2> QED BY <1>1, <1>11, <2>1, Apart DEF snd_vars, net_vars
<1>12. CASE Flushes \/ Resets \/ Commits
  <2>1. rp' \notin {"listen", "down", "confirm"}
    BY <1>0, <1>12, FlushMoves, Reset, Committed
  <2> QED BY <2>1 DEF Idle, Asked
<1>13. CASE UNCHANGED vars
  BY <1>1, <1>13 DEF vars, snd_vars, net_vars
<1> QED BY <1>6, <1>7, <1>8, <1>9, <1>10, <1>11, <1>12, <1>13, Steps, Zenon

\* The streaming of a transfer begins with the answer to its manifest.
LEMMA Accepted ==
    ASSUME Typed, Session, [Next]_vars, rp # "stream", rp' = "stream"
    PROVE  /\ RcvAccept /\ rp = "confirm" /\ NoStreams /\ done = had /\ fresh = NoCount
           /\ UNCHANGED <<mem_vars, snd_vars, disk_vars, pipe, toR>>
<1>0. MemTyped /\ InOrder /\ Holding /\ CleanStart /\ OneFlush
  BY DEF Typed, Session
<1>1. ~(UNCHANGED vars \/ Sends \/ Returns \/ Manifests \/ RcvCrash)
  BY Sent, Returned, Came, Crashed DEF vars
<1>2. ~(Waits \/ Checks \/ Writes \/ Marks \/ Lands \/ Losses \/ Flushes \/ Resets \/ Commits)
  BY <1>0, Waited, Checked, Wrote, Marked, Settled, FlushMoves, Reset, Committed
<1>3. Notices
  BY <1>1, <1>2, Steps, Zenon
<1>4. RcvAccept
  BY <1>3 DEF Notices, RcvStray, RcvVerify, RcvRestart
<1> QED BY <1>0, <1>4 DEF RcvAccept, CleanStart, NotBegun

\* What a sender that has not been accepted has under way.
LEMMA OfferStep == ASSUME Typed, Session, Offer, [Next]_vars PROVE Offer'
<1>0. /\ MemTyped /\ InOrder /\ Holding /\ CleanStart /\ OneFlush /\ rw \in [Workers -> RwStates]
      /\ pipe \in [Workers -> Seq(Frame)] /\ toS \in Seq(ToSnd) /\ QueueTyped
      /\ Asked => sp \notin {"sending", "summed"} /\ toS = <<>>
      /\ Asked \/ sp = "offered" => todo = {} /\ pipe = NoPipes
      /\ sp = "offered" => wk = AllOff /\ (rp = "stream" => NoStreams \/ Excuse)
      /\ rp = "stream" => \A i \in 1 .. Len(toS) : toS[i].k = "accepted" => toS[i].done = had
  BY DEF Typed, MemTyped, Session, NetTyped, Offer
<1>a. sp' = "offered" => sp = "offered" \/ SndStart
  <2>1. CASE Sends
    BY <2>1, Zenon DEF Sends, SndAccepted, SndCompleted, SndFails, SndDie, SndChunk, SndWorkerDone,
       SndWorkerComplete, SndEnd, Edit, snd_vars
  <2> QED BY <1>0, <2>1, SenderOnly DEF snd_vars
<1>1. Asked' \/ sp' = "offered" => Asked \/ sp = "offered" \/ SndStart
  BY <1>a, UpStep
<1>2. (Asked \/ sp = "offered" => todo = {} /\ pipe = NoPipes)'
  <2>1. CASE SndStart
    BY <2>1 DEF SndStart
  <2>2. CASE ~SndStart /\ (Asked' \/ sp' = "offered")
    <3>0. todo = {} /\ pipe = NoPipes /\ sp \notin {"sending", "summed"}
      BY <1>0, <1>1, <2>2
    <3>1. \A w \in Workers : pipe[w] = <<>>
      BY <3>0 DEF NoPipes
    <3>2. CASE Sends
      <4>1. ~SndAccepted
        <5> SUFFICES ASSUME SndAccepted PROVE FALSE
          OBVIOUS
        <5>1. sp' \in {"sending", "summed"} /\ toS # <<>>
          BY DEF SndAccepted
        <5>2. Asked'
          BY <2>2, <5>1
        <5> QED BY <1>0, <2>2, <5>1, <5>2, UpStep
      <4> QED BY <2>2, <3>0, <3>2, <4>1, Zenon DEF Sends, SndCompleted, SndFails, SndDie, SndChunk, SndWorkerDone,
               SndWorkerComplete, SndEnd, Edit, snd_vars, net_vars
    <3>3. CASE UNCHANGED <<src_vars, snd_vars>>
      <4>1. Untaken = NoPipes
        BY <3>1 DEF Untaken, NoPipes
      <4>2. ~\E w \in Workers : SndChunk(w)
        BY <3>0 DEF SndChunk
      <4>3. ~\E w \in Workers : SndWorkerDone(w)
        BY <3>0 DEF SndWorkerDone
      <4>4. \/ UNCHANGED pipe \/ pipe' = NoPipes \/ pipe' = Untaken
            \/ \E w \in Workers : pipe[w] # <<>> /\ pipe' = [pipe EXCEPT ![w] = Tail(@)]
        BY <1>0, <4>2, <4>3, PipeStep
      <4> QED BY <3>0, <3>1, <3>3, <4>1, <4>4 DEF snd_vars
    <3> QED BY <1>0, <3>2, <3>3, SenderOnly
  <2> QED BY <2>1, <2>2
<1>3. (sp = "offered" => wk = AllOff)'
  <2>1. CASE SndStart
    BY <2>1 DEF SndStart
  <2>2. CASE sp = "offered" /\ sp' = "offered"
    <3>1. CASE Sends
      BY <1>0, <2>2, <3>1, Zenon DEF Sends, SndStart, SndAccepted, SndCompleted, SndFails, SndDie, SndChunk, SndWorkerDone,
         SndWorkerComplete, SndEnd, Edit, snd_vars
    <3> QED BY <1>0, <2>2, <3>1, SenderOnly DEF snd_vars
  <2> QED BY <1>a, <2>1, <2>2
<1>4. (sp = "offered" => (rp = "stream" => NoStreams \/ Excuse))'
  <2>1. CASE SndStart
    BY <2>1 DEF SndStart
  <2>2. CASE sp = "offered" /\ sp' = "offered" /\ rp' = "stream"
    <3>1. CASE rp = "stream" /\ Excuse
      BY <2>2, <3>1, ExcuseKept
    <3>2. CASE rp = "stream" /\ NoStreams /\ ~Waits /\ ~Checks
      <4>1. \A w \in Workers : rw[w] = "off"
        BY <3>2 DEF NoStreams
      <4>2. UNCHANGED vars \/ Sends \/ Notices \/ Manifests => UNCHANGED rw
        BY Sent, Noticed, Came DEF vars, mem_vars
      <4>3. ~Writes /\ ~Marks
        BY <1>0, <4>1, Wrote, Marked
      <4>4. Flushes \/ Lands \/ Losses => UNCHANGED rw
        BY <1>0, <4>1, FlushMoves, Settled DEF Leads, Flushers
      <4>5. ~(Returns \/ RcvCrash \/ Resets \/ Commits)
        BY <2>2, Returned, Crashed, Reset, Committed
      <4>6. UNCHANGED rw
        BY <3>2, <4>2, <4>3, <4>4, <4>5, Steps, Zenon
      <4> QED BY <3>2, <4>6 DEF NoStreams
    <3>3. CASE Waits
      <4>1. PICK w \in Workers : wk[w] # "off" \/ rw[w] = "run"
        BY <1>0, <3>3, Waited
      <4>2. wk[w] = "off"
        BY <1>0, <2>2 DEF AllOff
      <4>3. rp = "stream"
        BY <1>0, <3>3, Waited
      <4>4. ~NoStreams
        BY <4>1, <4>2 DEF NoStreams
      <4> QED BY <1>0, <2>2, <3>1, <4>3, <4>4
    <3>4. CASE Checks
      <4>1. PICK w \in Workers, next \in {"run", "lastOld", "lastErr"} :
              /\ (next = "run" /\ pipe[w] # <<>>) \/ next # "run"
              /\ rw' = [rw EXCEPT ![w] = next] \/ \E c \in Chunks : \E v \in Nat : Held(w, c, v, next)
        BY <1>0, <3>4, Checked
      <4>2. pipe[w] = <<>>
        BY <1>0, <2>2 DEF NoPipes
      <4>3. next # "run"
        BY <4>1, <4>2
      <4>4. CASE rw' = [rw EXCEPT ![w] = next]
        BY <1>0, <4>3, <4>4 DEF Excuse
      <4>5. CASE \E c \in Chunks : \E v \in Nat : Held(w, c, v, next)
        <5>1. hand'[w].next = next
          BY <4>5 DEF Held, MemTyped, Typed
        <5> QED BY <4>3, <5>1 DEF Excuse
      <4> QED BY <4>1, <4>4, <4>5
    <3>5. CASE rp # "stream"
      <4>1. NoStreams /\ UNCHANGED rw
        BY <1>0, <2>2, <3>5, Accepted DEF mem_vars
      <4> QED BY <4>1 DEF NoStreams
    <3> QED BY <1>0, <2>2, <3>1, <3>2, <3>3, <3>4, <3>5
  <2> QED BY <1>a, <2>1, <2>2
<1>5. (rp = "stream" => \A i \in 1 .. Len(toS) : toS[i].k = "accepted" => toS[i].done = had)'
  <2> SUFFICES ASSUME rp' = "stream"
               PROVE  \A i \in 1 .. Len(toS') : toS'[i].k = "accepted" => toS'[i].done = had'
    OBVIOUS
  <2>1. CASE rp # "stream"
    <3>1. RcvAccept /\ done = had /\ had' = had
      BY <2>1, Accepted DEF mem_vars, res_vars
    <3>2. toS = <<>>
      BY <1>0, <3>1 DEF RcvAccept, Asked
    <3> DEFINE e == [k |-> "accepted", done |-> done]
    <3>3. e.done = had
      BY <3>1
    <3> HIDE DEF e
    <3>4. toS' = toS \/ toS' = Append(toS, e)
      BY <3>1 DEF RcvAccept, e
    <3> QED BY <3>1, <3>2, <3>3, <3>4
  <2>2. CASE rp = "stream"
    <3>1. had' = had
      BY <2>2, Expecting
    <3>2. ~RcvAlreadyComplete /\ ~RcvAccept /\ ~Returns
      BY <2>2, Returned DEF RcvAlreadyComplete, HasManifest, RcvAccept
    <3>3. UNCHANGED toS \/ toS' = <<>> \/ (toS # <<>> /\ toS' = Tail(toS))
      BY <1>0, <3>2, ToSndStep
    <3>4. CASE UNCHANGED toS \/ toS' = <<>>
      BY <1>0, <2>2, <3>1, <3>4
    <3>5. CASE toS # <<>> /\ toS' = Tail(toS)
      <4>1. \A i \in 1 .. Len(toS') : toS'[i] = toS[i + 1] /\ i + 1 \in 1 .. Len(toS)
        BY <1>0, <3>5
      <4> QED BY <1>0, <2>2, <3>1, <4>1
    <3> QED BY <3>3, <3>4, <3>5
  <2> QED BY <2>1, <2>2
<1> QED BY <1>2, <1>3, <1>4, <1>5, UpStep DEF Offer

\* A stream that has ended stays so.
LEMMA EndedKept ==
    ASSUME Typed, Session, [Next]_vars, rp' = "stream", rp = "stream", NEW x \in Workers, rw[x] = "ended"
    PROVE  rw'[x] = "ended"
<1>0. MemTyped /\ InOrder /\ Holding /\ CleanStart /\ OneFlush /\ rw \in [Workers -> RwStates]
  BY DEF Typed, MemTyped, Session
<1>1. CASE UNCHANGED vars \/ Sends \/ Notices \/ Manifests
  BY <1>1, Sent, Noticed, Came DEF vars, mem_vars
<1>2. CASE Returns \/ RcvCrash \/ Resets \/ Commits
  BY <1>2, Returned, Crashed, Reset, Committed
<1>3. CASE Waits
  BY <1>0, <1>3, Waited
<1>4. CASE Checks
  <2>1. PICK w \in Workers, next \in {"run", "lastOld", "lastErr"} :
           /\ rw[w] \in {"off", "run"}
           /\ rw' = [rw EXCEPT ![w] = next] \/ \E c \in Chunks : \E v \in Nat : Held(w, c, v, next)
    BY <1>0, <1>4, Checked
  <2> QED BY <1>0, <2>1 DEF Held
<1>5. CASE Writes
  BY <1>0, <1>5, Wrote
<1>6. CASE Marks
  <2>1. PICK w \in Workers, r \in {"run", "flush", "lastOld", "lastErr"} : rw[w] = "mark" /\ rw' = [rw EXCEPT ![w] = r]
    BY <1>0, <1>6, Marked
  <2> QED BY <1>0, <2>1
<1>7. CASE Lands \/ Losses
  BY <1>0, <1>7, Settled
<1>8. CASE Flushes
  BY <1>0, <1>8, FlushMoves DEF Leads, Flushers
<1> QED BY <1>1, <1>2, <1>3, <1>4, <1>5, <1>6, <1>7, <1>8, Steps, Zenon

\* The summary comes after the sender's own streams.
LEMMA EndedStep == ASSUME Typed, Session, Offer, Ended, [Next]_vars PROVE Ended'
<1>0. /\ MemTyped /\ InOrder /\ Holding /\ CleanStart /\ OneFlush
      /\ wk \in [Workers -> {"off", "run", "wait", "ok"}] /\ toR \in Seq(ToRcv) /\ toS \in Seq(ToSnd)
      /\ Asked => sp \notin {"sending", "summed"} /\ toS = <<>>
      /\ rp = "confirm" => toR = <<>>
      /\ sp = "sending" /\ rp = "stream" /\ up => \A w \in Workers : wk[w] = "ok" => rw[w] = "ended"
      /\ rp = "stream" /\ HasSummary => had = Chunks \/ \A w \in Workers : rw[w] = "ended"
      /\ rp = "stream" => \A i \in 1 .. Len(toS) : toS[i].k = "accepted" => toS[i].done = had
  BY DEF Typed, QueueTyped, NetTyped, Session, Offer, Ended
<1>1. ASSUME rp' = "stream", rp # "stream" PROVE sp' # "sending" /\ ~HasSummary'
  <2>1. rp = "confirm" /\ sp' = sp /\ toR' = toR
    BY <1>1, Accepted DEF snd_vars
  <2> QED BY <1>0, <2>1 DEF Asked, HasSummary
<1>2. ASSUME rp' = "stream", sp' = "sending", up', NEW w \in Workers, wk'[w] = "ok" PROVE rw'[w] = "ended"
  <2>0. rp = "stream"
    BY <1>1, <1>2
  <2>1. up
    <3>1. CASE Sends
      BY <2>0, <1>2, <3>1, Zenon DEF Sends, SndStart, SndAccepted, SndCompleted, SndFails, SndDie, SndChunk, SndWorkerDone,
         SndWorkerComplete, SndEnd, Edit, net_vars
    <3>2. CASE UNCHANGED vars \/ Notices \/ Waits \/ Checks \/ Manifests \/ Returns \/ RcvCrash
      BY <1>0, <1>2, <3>2, Noticed, Waited, Checked, Came, Returned, Crashed DEF vars, net_vars
    <3>3. CASE Flushes \/ Resets \/ Commits \/ Writes \/ Marks \/ Lands \/ Losses
      BY <1>2, <3>3, Apart DEF net_vars
    <3> QED BY <3>1, <3>2, <3>3, Steps, Zenon
  <2>2. CASE wk[w] = "ok" /\ sp = "sending"
    BY <1>0, <1>2, <2>0, <2>1, <2>2, EndedKept
  <2>3. CASE ~(wk[w] = "ok" /\ sp = "sending")
    <3>1. Sends
      BY <1>0, <1>2, <2>3, SenderOnly DEF snd_vars
    <3>2. CASE SndAccepted
      <4>1. wk' = [x \in Workers |-> "run"]
        BY <1>2, <3>2 DEF SndAccepted
      <4> QED BY <1>2, <4>1
    <3>3. CASE \E x \in Workers : SndWorkerComplete(x)
      <4>1. PICK x \in Workers : SndWorkerComplete(x)
        BY <3>3
      <4>2. sp = "sending" /\ rw[x] = "ended" /\ wk' = [wk EXCEPT ![x] = "ok"]
        BY <4>1 DEF SndWorkerComplete
      <4>3. x = w
        BY <1>0, <1>2, <2>3, <4>2
      <4> QED BY <1>2, <2>0, <4>2, <4>3, EndedKept
    <3>4. CASE \E x \in Workers : SndWorkerDone(x)
      BY <1>0, <1>2, <2>3, <3>4 DEF SndWorkerDone
    <3>5. CASE (\E x \in Workers : SndChunk(x)) \/ \E f \in Files : Edit(f)
      BY <1>2, <2>3, <3>5 DEF SndChunk, Edit, snd_vars
    <3>6. CASE SndStart \/ SndCompleted \/ SndFails \/ SndDie
      BY <1>2, <3>6, Zenon DEF SndStart, SndCompleted, SndFails, SndDie, SndEnd
    <3> QED BY <3>1, <3>2, <3>3, <3>4, <3>5, <3>6, Zenon DEF Sends
  <2> QED BY <2>2, <2>3
<1>3. ASSUME rp' = "stream", HasSummary' PROVE had' = Chunks \/ \A w \in Workers : rw'[w] = "ended"
  <2>0. rp = "stream"
    BY <1>1, <1>3
  <2>a. had' = had
    BY <1>3, <2>0, Expecting
  <2>1. CASE HasSummary
    BY <1>0, <1>3, <2>0, <2>1, <2>a, EndedKept
  <2>2. CASE ~HasSummary
    <3>1. ~(UNCHANGED toR) /\ toR' # <<>>
      BY <1>3, <2>2 DEF HasSummary
    <3>2. ~SndStart
      BY <2>0 DEF SndStart
    <3>3. CASE toR # <<>> /\ toR' = Tail(toR)
      <4>1. RcvVerify \/ Manifests
        <5>1. UNCHANGED vars \/ Waits \/ Checks => UNCHANGED toR
          BY <1>0, Waited, Checked DEF vars, net_vars
        <5>2. Flushes \/ Resets \/ Commits \/ Writes \/ Marks \/ Lands \/ Losses => UNCHANGED toR
          BY Apart DEF net_vars
        <5>3. Returns \/ RcvCrash => toR' = <<>>
          BY Returned, Crashed
        <5>4. ~Sends
          <6> SUFFICES ASSUME Sends PROVE FALSE
            OBVIOUS
          <6>1. toR' = SummaryTo(toR)
            BY <3>1, <3>2, Zenon DEF Sends, SndAccepted, SndCompleted, SndFails, SndDie, SndChunk, SndWorkerDone,
               SndWorkerComplete, Edit, net_vars
          <6>2. Len(toR') >= Len(toR)
            BY <1>0, <6>1 DEF SummaryTo
          <6> QED BY <1>0, <3>3, <6>2
        <5>5. Notices => RcvVerify \/ UNCHANGED toR
          BY Zenon DEF Notices, RcvStray, RcvAccept, RcvRestart, net_vars
        <5> QED BY <3>1, <5>1, <5>2, <5>3, <5>4, <5>5, Steps, Zenon
      <4> QED BY <1>3, <4>1, Came DEF RcvVerify
    <3>4. CASE (SndAccepted \/ \E w \in Workers : SndWorkerComplete(w)) /\ toR' = SummaryTo(toR)
      <4>0. toR = <<>>
        <5> SUFFICES ASSUME toR # <<>> PROVE FALSE
          OBVIOUS
        <5> DEFINE e == [k |-> "summary", man |-> man]
        <5> HIDE DEF e
        <5>1. toR' = toR \/ toR' = Append(toR, e)
          BY <3>4 DEF SummaryTo, e
        <5>2. Head(toR') = Head(toR)
          BY <1>0, <5>1
        <5> QED BY <1>3, <2>2, <5>2 DEF HasSummary
      <4>1. CASE SndAccepted
        <5>1. toS # <<>> /\ Head(toS).k = "accepted" /\ todo' = {i \in 1 .. Len(Tasks) : Tasks[i] \notin Head(toS).done}
          BY <4>1 DEF SndAccepted
        <5>2. Head(toS) = toS[1] /\ 1 \in 1 .. Len(toS)
          BY <1>0, <5>1
        <5>3. Head(toS).done = had
          BY <1>0, <2>0, <5>1, <5>2
        <5>4. todo' = {}
          BY <3>1, <4>1 DEF SndAccepted
        <5>5. Chunks \subseteq had
          BY <5>1, <5>3, <5>4 DEF Chunks
        <5> QED BY <1>0, <2>a, <5>5 DEF MemTyped
      <4>2. CASE \E w \in Workers : SndWorkerComplete(w)
        <5>1. PICK w \in Workers : SndWorkerComplete(w)
          BY <4>2
        <5>2. sp = "sending" /\ up /\ rw[w] = "ended" /\ wk' = [wk EXCEPT ![w] = "ok"]
          BY <5>1 DEF SndWorkerComplete
        <5>3. \A x \in Workers : wk'[x] = "ok"
          BY <3>1, <5>1 DEF SndWorkerComplete
        <5>4. \A x \in Workers : rw[x] = "ended"
          BY <1>0, <2>0, <5>2, <5>3
        <5> QED BY <1>3, <2>0, <5>4, EndedKept
      <4> QED BY <3>4, <4>1, <4>2
    <3> QED BY <1>0, <3>1, <3>2, <3>3, <3>4, ToRcvStep
  <2> QED BY <2>1, <2>2
<1> QED BY <1>2, <1>3 DEF Ended

\* Frames that are taken, tasks that are dropped and hands that are emptied leave every chunk in
\* one place; the streams have moved on by d.
LEMMA OneShrinks ==
    ASSUME Typed, NetTyped', OnePlace, todo' \subseteq todo, done' = done,
           \A w \in Workers : hand'[w] \in Hand => hand'[w] = hand[w],
           NEW d \in [Workers -> Nat],
           \A w \in Workers : \A j \in 1 .. Len(pipe'[w]) :
               j + d[w] \in 1 .. Len(pipe[w]) /\ pipe'[w][j] = pipe[w][j + d[w]]
    PROVE  OnePlace'
<1>0. \A w \in Workers : Len(pipe'[w]) \in Nat /\ d[w] \in Nat
  BY DEF NetTyped
<1>1. \A w \in Workers : \A c : InHand(w, c)' => InHand(w, c)
  BY DEF InHand
<1>2. \A w \in Workers : \A c : \A j \in 1 .. Len(pipe'[w]) :
         InPipe(w, j, c)' => InPipe(w, j + d[w], c) /\ j + d[w] \in 1 .. Len(pipe[w])
  BY DEF InPipe
<1>3. ASSUME NEW i \in todo', NEW w \in Workers
      PROVE  /\ Tasks[i] \notin done' /\ ~InHand(w, Tasks[i])'
             /\ \A j \in 1 .. Len(pipe'[w]) : ~InPipe(w, j, Tasks[i])'
  BY <1>1, <1>2 DEF OnePlace
<1>4. ASSUME NEW c \in Chunks, NEW w \in Workers, NEW x \in Workers, NEW j \in 1 .. Len(pipe'[w]), InPipe(w, j, c)'
      PROVE  /\ c \notin done' /\ ~InHand(x, c)'
             /\ \A i \in 1 .. Len(pipe'[x]) : InPipe(x, i, c)' => x = w /\ i = j
  <2>1. InPipe(w, j + d[w], c) /\ j + d[w] \in 1 .. Len(pipe[w])
    BY <1>2, <1>4
  <2>2. c \notin done /\ ~InHand(x, c)
    BY <2>1 DEF OnePlace
  <2>3. ASSUME NEW i \in 1 .. Len(pipe'[x]), InPipe(x, i, c)' PROVE x = w /\ i = j
    <3>1. InPipe(x, i + d[x], c) /\ i + d[x] \in 1 .. Len(pipe[x])
      BY <1>2, <2>3
    <3>2. x = w /\ i + d[x] = j + d[w]
      BY <2>1, <3>1 DEF OnePlace
    <3>3. i \in Int /\ j \in Int /\ d[w] \in Int
      BY <1>0
    <3> QED BY <3>2, <3>3
  <2> QED BY <1>1, <2>2, <2>3
<1>5. ASSUME NEW c \in Chunks, NEW w \in Workers, NEW x \in Workers, InHand(w, c)'
      PROVE  c \notin done' /\ (InHand(x, c)' => x = w)
  BY <1>1, <1>5 DEF OnePlace
<1> QED BY <1>3, <1>4, <1>5 DEF OnePlace

\* Nothing moves.
LEMMA OneStays ==
    ASSUME Typed, NetTyped', OnePlace, todo' \subseteq todo, done' = done, pipe' = pipe,
           \A w \in Workers : hand'[w] \in Hand => hand'[w] = hand[w]
    PROVE  OnePlace'
<1> DEFINE d == [w \in Workers |-> 0]
<1>1. d \in [Workers -> Nat] /\ \A w \in Workers : d[w] = 0
  OBVIOUS
<1>2. \A w \in Workers : Len(pipe[w]) \in Nat
  BY DEF Typed, NetTyped
<1> HIDE DEF d
<1>3. \A w \in Workers : \A j \in 1 .. Len(pipe'[w]) :
               j + d[w] \in 1 .. Len(pipe[w]) /\ pipe'[w][j] = pipe[w][j + d[w]]
  BY <1>1, <1>2
<1> QED BY <1>1, <1>3, OneShrinks

\* A frame is taken off a stream.
LEMMA OneTaken ==
    ASSUME Typed, NetTyped', OnePlace, todo' = todo, done' = done, hand' = hand,
           NEW w \in Workers, pipe[w] # <<>>, pipe' = [pipe EXCEPT ![w] = Tail(@)]
    PROVE  OnePlace'
<1> DEFINE d == [x \in Workers |-> IF x = w THEN 1 ELSE 0]
<1>1. d \in [Workers -> Nat] /\ \A x \in Workers : d[x] = IF x = w THEN 1 ELSE 0
  OBVIOUS
<1>2. pipe \in [Workers -> Seq(Frame)] /\ \A x \in Workers : Len(pipe[x]) \in Nat
  BY DEF Typed, NetTyped
<1> HIDE DEF d
<1>3. pipe'[w] = Tail(pipe[w]) /\ pipe[w] \in Seq(Frame) /\ \A x \in Workers : x # w => pipe'[x] = pipe[x]
  BY <1>2
<1>4. \A x \in Workers : \A j \in 1 .. Len(pipe'[x]) :
               j + d[x] \in 1 .. Len(pipe[x]) /\ pipe'[x][j] = pipe[x][j + d[x]]
  BY <1>1, <1>2, <1>3
<1> QED BY <1>1, <1>4, OneShrinks

\* The chunk at the head of a stream is taken in hand.
LEMMA OneHeld ==
    ASSUME Typed, NetTyped', OnePlace, todo' = todo, done' = done, NEW w \in Workers, hand[w] \notin Hand,
           NEW c \in Chunks, NEW v \in Nat, hand' = [hand EXCEPT ![w] = [c |-> c, v |-> v, next |-> "run"]],
           pipe[w] # <<>>, pipe[w][1].k = "chunk", pipe[w][1].c = c, pipe' = [pipe EXCEPT ![w] = Tail(@)]
    PROVE  OnePlace'
<1>1. /\ pipe \in [Workers -> Seq(Frame)] /\ hand \in [Workers -> Hand \cup {NoHand}]
      /\ \A x \in Workers : Len(pipe[x]) \in Nat
  BY DEF Typed, NetTyped, MemTyped
<1>2. pipe'[w] = Tail(pipe[w]) /\ pipe[w] \in Seq(Frame) /\ \A x \in Workers : x # w => pipe'[x] = pipe[x]
  BY <1>1
<1>3. InPipe(w, 1, c) /\ 1 \in 1 .. Len(pipe[w])
  BY <1>2 DEF InPipe
<1> DEFINE h == [c |-> c, v |-> v, next |-> "run"]
<1>4. h.c = c /\ hand' = [hand EXCEPT ![w] = h]
  OBVIOUS
<1> HIDE DEF h
<1>5. \A x \in Workers : \A b : InHand(x, b)' => (x = w /\ b = c) \/ (x # w /\ InHand(x, b))
  BY <1>1, <1>4 DEF InHand
<1>6. \A x \in Workers : \A b : \A j \in 1 .. Len(pipe'[x]) :
         InPipe(x, j, b)' => \/ x = w /\ InPipe(w, j + 1, b) /\ j + 1 \in 1 .. Len(pipe[w])
                             \/ x # w /\ InPipe(x, j, b) /\ j \in 1 .. Len(pipe[x])
  BY <1>1, <1>2 DEF InPipe
<1>7. \A x \in Workers, j \in Nat : InPipe(x, j, c) => x = w /\ j = 1
  BY <1>3 DEF OnePlace, InPipe
<1>8. \A x \in Workers : \A j \in 1 .. Len(pipe'[x]) : ~InPipe(x, j, c)'
  BY <1>1, <1>6, <1>7
<1>9. ASSUME NEW i \in todo', NEW x \in Workers
      PROVE  /\ Tasks[i] \notin done' /\ ~InHand(x, Tasks[i])'
             /\ \A j \in 1 .. Len(pipe'[x]) : ~InPipe(x, j, Tasks[i])'
  <2>1. Tasks[i] # c
    BY <1>3 DEF OnePlace
  <2> QED BY <1>5, <1>6, <2>1 DEF OnePlace
<1>10. ASSUME NEW b \in Chunks, NEW y \in Workers, NEW x \in Workers, NEW j \in 1 .. Len(pipe'[y]), InPipe(y, j, b)'
      PROVE  /\ b \notin done' /\ ~InHand(x, b)'
             /\ \A i \in 1 .. Len(pipe'[x]) : InPipe(x, i, b)' => x = y /\ i = j
  <2>0. b # c
    BY <1>8, <1>10
  <2>1. PICK k \in 1 .. Len(pipe[y]) : InPipe(y, k, b) /\ k = IF y = w THEN j + 1 ELSE j
    BY <1>6, <1>10
  <2>2. b \notin done /\ ~InHand(x, b)
    BY <2>1 DEF OnePlace
  <2>3. ASSUME NEW i \in 1 .. Len(pipe'[x]), InPipe(x, i, b)' PROVE x = y /\ i = j
    <3>1. PICK l \in 1 .. Len(pipe[x]) : InPipe(x, l, b) /\ l = IF x = w THEN i + 1 ELSE i
      BY <1>6, <2>3
    <3>2. x = y /\ k = l
      BY <2>1, <3>1 DEF OnePlace
    <3> QED BY <2>1, <3>1, <3>2
  <2> QED BY <1>5, <2>0, <2>2, <2>3
<1>11. ASSUME NEW b \in Chunks, NEW y \in Workers, NEW x \in Workers, InHand(y, b)'
      PROVE  b \notin done' /\ (InHand(x, b)' => x = y)
  <2>1. CASE b = c
    <3>1. c \notin done /\ \A z \in Workers : ~InHand(z, c)
      BY <1>3 DEF OnePlace
    <3> QED BY <1>5, <1>11, <2>1, <3>1
  <2>2. CASE b # c
    BY <1>5, <1>11, <2>2 DEF OnePlace
  <2> QED BY <2>1, <2>2
<1> QED BY <1>9, <1>10, <1>11 DEF OnePlace

\* The chunk in hand is complete.
LEMMA OneMarked ==
    ASSUME Typed, OnePlace, todo' = todo, pipe' = pipe, NEW w \in Workers, NEW c \in Chunks, InHand(w, c),
           done' = done \cup {c}, hand' = [hand EXCEPT ![w] = NoHand]
    PROVE  OnePlace' /\ c \notin done
<1>1. hand \in [Workers -> Hand \cup {NoHand}] /\ NoHand \notin Hand
  BY Constant DEF Typed, MemTyped
<1>2. \A x \in Workers : \A b : InHand(x, b)' => x # w /\ InHand(x, b)
  BY <1>1 DEF InHand
<1>3. \A x \in Workers : \A j, b : InPipe(x, j, b)' <=> InPipe(x, j, b)
  BY DEF InPipe
<1>4. c \notin done /\ \A x \in Workers : InHand(x, c) => x = w
  BY DEF OnePlace
<1>5. \A i \in todo : Tasks[i] # c
  BY DEF OnePlace
<1>6. \A x \in Workers : \A j \in 1 .. Len(pipe[x]) : ~InPipe(x, j, c)
  BY DEF OnePlace
<1>7. ASSUME NEW i \in todo, NEW x \in Workers
      PROVE  /\ Tasks[i] \notin done' /\ ~InHand(x, Tasks[i])'
             /\ \A j \in 1 .. Len(pipe[x]) : ~InPipe(x, j, Tasks[i])
  BY <1>2, <1>5 DEF OnePlace
<1>8. ASSUME NEW b \in Chunks, NEW y \in Workers, NEW x \in Workers, NEW j \in 1 .. Len(pipe[y]), InPipe(y, j, b)
      PROVE  /\ b \notin done' /\ ~InHand(x, b)'
             /\ \A i \in 1 .. Len(pipe[x]) : InPipe(x, i, b) => x = y /\ i = j
  <2>1. b # c
    BY <1>6, <1>8
  <2> QED BY <1>2, <1>8, <2>1 DEF OnePlace
<1>9. ASSUME NEW b \in Chunks, NEW y \in Workers, NEW x \in Workers, InHand(y, b)'
      PROVE  b \notin done' /\ (InHand(x, b)' => x = y)
  <2>1. b # c
    BY <1>2, <1>4, <1>9
  <2> QED BY <1>2, <1>9, <2>1 DEF OnePlace
<1> QED BY <1>3, <1>4, <1>7, <1>8, <1>9 DEF OnePlace

\* A worker sends the chunk of a task.
LEMMA OneSent ==
    ASSUME Typed, OnePlace, UNCHANGED <<done, hand>>, NEW w \in Workers, SndChunk(w)
    PROVE  OnePlace'
<1>1. pipe \in [Workers -> Seq(Frame)] /\ todo \subseteq 1 .. Len(Tasks)
  BY DEF Typed, NetTyped, QueueTyped
<1>2. PICK i \in todo :
         /\ todo' = todo \ {i} /\ pipe[w] = <<>>
         /\ pipe' = [pipe EXCEPT ![w] = <<[k |-> "chunk", c |-> Tasks[i], v |-> src[FileOf[Tasks[i]]]]>>]
  BY DEF SndChunk
<1> DEFINE e == [k |-> "chunk", c |-> Tasks[i], v |-> src[FileOf[Tasks[i]]]]
<1>3. e.c = Tasks[i] /\ pipe' = [pipe EXCEPT ![w] = <<e>>]
  BY <1>2
<1> HIDE DEF e
<1>4. \A x \in Workers : pipe'[x] = IF x = w THEN <<e>> ELSE pipe[x]
  BY <1>1, <1>3
<1>5. \A x \in Workers : \A b : \A j \in 1 .. Len(pipe'[x]) :
         InPipe(x, j, b)' => \/ x = w /\ j = 1 /\ b = Tasks[i]
                             \/ x # w /\ InPipe(x, j, b) /\ j \in 1 .. Len(pipe[x])
  BY <1>3, <1>4 DEF InPipe
<1>6. \A x \in Workers : \A b : InHand(x, b)' <=> InHand(x, b)
  BY DEF InHand
<1>7. Tasks[i] \notin done /\ \A x \in Workers : ~InHand(x, Tasks[i])
  BY DEF OnePlace
<1>8. \A x \in Workers : \A j \in 1 .. Len(pipe[x]) : ~InPipe(x, j, Tasks[i])
  BY DEF OnePlace
<1>9. \A l \in todo' : l \in todo /\ Tasks[l] # Tasks[i]
  BY <1>1, <1>2, ChunkAssumption
<1>10. ASSUME NEW l \in todo', NEW x \in Workers
      PROVE  /\ Tasks[l] \notin done' /\ ~InHand(x, Tasks[l])'
             /\ \A j \in 1 .. Len(pipe'[x]) : ~InPipe(x, j, Tasks[l])'
  BY <1>5, <1>6, <1>9 DEF OnePlace
<1>11. ASSUME NEW b \in Chunks, NEW y \in Workers, NEW x \in Workers, NEW j \in 1 .. Len(pipe'[y]), InPipe(y, j, b)'
      PROVE  /\ b \notin done' /\ ~InHand(x, b)'
             /\ \A l \in 1 .. Len(pipe'[x]) : InPipe(x, l, b)' => x = y /\ l = j
  <2>1. CASE b = Tasks[i]
    BY <1>5, <1>6, <1>7, <1>8, <1>11, <2>1
  <2>2. CASE b # Tasks[i]
    <3>1. InPipe(y, j, b) /\ j \in 1 .. Len(pipe[y])
      BY <1>5, <1>11, <2>2
    <3> QED BY <1>5, <1>6, <2>2, <3>1 DEF OnePlace
  <2> QED BY <2>1, <2>2
<1>12. ASSUME NEW b \in Chunks, NEW y \in Workers, NEW x \in Workers, InHand(y, b)'
      PROVE  b \notin done' /\ (InHand(x, b)' => x = y)
  BY <1>6, <1>12 DEF OnePlace
<1> QED BY <1>10, <1>11, <1>12 DEF OnePlace

\* WorkerDone is no chunk.
LEMMA OneDone ==
    ASSUME Typed, OnePlace, UNCHANGED <<done, hand>>, NEW w \in Workers, SndWorkerDone(w)
    PROVE  OnePlace'
<1>1. pipe \in [Workers -> Seq(Frame)]
  BY DEF Typed, NetTyped
<1> DEFINE e == [k |-> "done"]
<1>2. pipe' = [pipe EXCEPT ![w] = Append(@, e)] /\ todo' = todo /\ e.k # "chunk"
  BY DEF SndWorkerDone
<1> HIDE DEF e
<1>3. \A x \in Workers : pipe[x] \in Seq(Frame) /\ pipe'[x] = IF x = w THEN Append(pipe[x], e) ELSE pipe[x]
  BY <1>1, <1>2
<1>4. \A x \in Workers : \A b : \A j \in 1 .. Len(pipe'[x]) :
         InPipe(x, j, b)' => InPipe(x, j, b) /\ j \in 1 .. Len(pipe[x])
  BY <1>2, <1>3 DEF InPipe
<1>5. \A x \in Workers : \A b : InHand(x, b)' <=> InHand(x, b)
  BY DEF InHand
<1> QED BY <1>2, <1>4, <1>5 DEF OnePlace

\* Nothing is under way but the queue.
LEMMA OneQueued ==
    ASSUME pipe' = NoPipes, \A w \in Workers : hand'[w] \notin Hand, \A i \in todo' : Tasks[i] \notin done'
    PROVE  OnePlace'
<1>1. \A w \in Workers : pipe'[w] = <<>> /\ 1 .. Len(pipe'[w]) = {}
  BY DEF NoPipes
<1>2. \A w \in Workers : \A c : ~InHand(w, c)'
  BY DEF InHand
<1> QED BY <1>1, <1>2 DEF OnePlace

\* A handler that takes a chunk of a stream that was left over has an excuse.
LEMMA LeftoverExcused ==
    ASSUME Typed, Session, Checks, ~Excuse'
    PROVE  \E w \in Workers :
             /\ rw[w] = "run" /\ pipe[w] # <<>> /\ pipe' = [pipe EXCEPT ![w] = Tail(@)]
             /\ \/ UNCHANGED hand
                \/ \E c \in Chunks : \E v \in Nat : Held(w, c, v, "run")
<1>0. InOrder /\ rw \in [Workers -> RwStates] /\ hand \in [Workers -> Hand \cup {NoHand}]
  BY DEF Typed, Session, MemTyped
<1>1. PICK w \in Workers, next \in {"run", "lastOld", "lastErr"} :
           /\ \/ next = "run" /\ rw[w] = "run" /\ pipe[w] # <<>> /\ pipe' = [pipe EXCEPT ![w] = Tail(@)]
              \/ next # "run"
           /\ \/ rw' = [rw EXCEPT ![w] = next] /\ UNCHANGED hand
              \/ \E c \in Chunks : \E v \in Nat : Held(w, c, v, next)
  BY <1>0, Checked
<1>2. CASE next # "run"
  <2>1. CASE rw' = [rw EXCEPT ![w] = next]
    BY <1>0, <1>2, <2>1 DEF Excuse
  <2>2. CASE \E c \in Chunks : \E v \in Nat : Held(w, c, v, next)
    <3>1. hand'[w].next = next
      BY <1>0, <2>2 DEF Held
    <3> QED BY <1>2, <3>1 DEF Excuse
  <2> QED BY <1>1, <2>1, <2>2
<1>3. CASE next = "run"
  BY <1>1, <1>3
<1> QED BY <1>2, <1>3

\* Every chunk stays in one place.
LEMMA OnceStep == ASSUME Typed, Session, Offer, Once, [Next]_vars PROVE Once'
<1> SUFFICES ASSUME rp' = "stream", ~Excuse' PROVE OnePlace'
  BY DEF Once
<1>0. /\ MemTyped /\ InOrder /\ Holding /\ CleanStart /\ OneFlush /\ NetTyped'
      /\ toS \in Seq(ToSnd) /\ NoHand \notin Hand /\ hand \in [Workers -> Hand \cup {NoHand}]
      /\ Asked \/ sp = "offered" => todo = {} /\ pipe = NoPipes
      /\ sp = "offered" => wk = AllOff /\ (rp = "stream" => NoStreams \/ Excuse)
      /\ rp = "stream" => \A i \in 1 .. Len(toS) : toS[i].k = "accepted" => toS[i].done = had
  BY Types, Constant DEF Typed, MemTyped, NetTyped, Session, Offer
<1>1. CASE rp # "stream"
  <2>1. rp = "confirm" /\ NoStreams /\ UNCHANGED <<done, hand, todo, pipe>>
    BY <1>1, Accepted DEF mem_vars, res_vars, snd_vars
  <2>2. todo = {} /\ pipe = NoPipes
    BY <1>0, <2>1 DEF Asked
  <2>3. \A w \in Workers : hand[w] \notin Hand
    BY <2>1, EmptyHands
  <2> QED BY <2>1, <2>2, <2>3, OneQueued
<1>2. CASE rp = "stream"
  <2>0. ~Excuse
    BY <1>2, ExcuseKept
  <2>a. OnePlace
    BY <1>2, <2>0 DEF Once
  <2>1. CASE UNCHANGED <<todo, done, pipe, hand>>
    BY <1>0, <2>a, <2>1, OneStays
  <2>2. CASE Sends
    <3>0. UNCHANGED <<done, hand, rw>>
      BY <2>2, Sent DEF mem_vars, res_vars
    <3>1. CASE SndAccepted
      <4>1. toS # <<>> /\ Head(toS).k = "accepted" /\ todo' = {i \in 1 .. Len(Tasks) : Tasks[i] \notin Head(toS).done}
            /\ sp = "offered" /\ pipe' = pipe
        BY <3>1 DEF SndAccepted
      <4>2. Head(toS) = toS[1] /\ 1 \in 1 .. Len(toS)
        BY <1>0, <4>1
      <4>3. Head(toS).done = had
        BY <1>0, <1>2, <4>1, <4>2
      <4>4. NoStreams /\ pipe = NoPipes
        BY <1>0, <1>2, <2>0, <4>1
      <4>5. done = had
        BY <1>0, <1>2, <4>4 DEF CleanStart
      <4>6. \A w \in Workers : hand[w] \notin Hand
        BY <4>4, EmptyHands
      <4> QED BY <3>0, <4>1, <4>3, <4>4, <4>5, <4>6, OneQueued
    <3>2. CASE \E w \in Workers : SndChunk(w)
      BY <2>a, <3>0, <3>2, OneSent
    <3>3. CASE \E w \in Workers : SndWorkerDone(w)
      BY <2>a, <3>0, <3>3, OneDone
    <3>4. CASE SndStart
      BY <1>2, <3>4 DEF SndStart
    <3>5. CASE SndCompleted \/ SndFails \/ SndDie \/ (\E w \in Workers : SndWorkerComplete(w)) \/ \E f \in Files : Edit(f)
      <4>1. pipe' = pipe /\ todo' \subseteq todo
        BY <3>5 DEF SndCompleted, SndFails, SndDie, SndEnd, SndWorkerComplete, Edit, snd_vars, net_vars
      <4> QED BY <1>0, <2>a, <3>0, <4>1, OneStays
    <3> QED BY <2>2, <3>1, <3>2, <3>3, <3>4, <3>5, Zenon DEF Sends
  <2>3. CASE UNCHANGED vars \/ Notices \/ Manifests \/ Writes \/ Flushes
    <3>1. CASE UNCHANGED vars
      BY <2>1, <3>1 DEF vars, snd_vars, net_vars, mem_vars, res_vars
    <3>2. CASE Notices
      BY <2>1, <3>2, Noticed DEF snd_vars, mem_vars, res_vars
    <3>3. CASE Manifests
      BY <1>2, <3>3, Came
    <3>4. CASE Writes
      BY <1>0, <2>1, <3>4, Apart, Wrote DEF snd_vars, net_vars
    <3>5. CASE Flushes
      BY <1>0, <2>1, <3>5, Apart, FlushMoves DEF snd_vars, net_vars
    <3> QED BY <2>3, <3>1, <3>2, <3>3, <3>4, <3>5
  <2>4. CASE Waits
    <3>1. PICK w \in Workers : pipe' = pipe \/ (pipe[w] # <<>> /\ pipe' = [pipe EXCEPT ![w] = Tail(@)])
      BY <1>0, <2>4, Waited
    <3>2. UNCHANGED <<todo, done, hand>>
      BY <1>0, <2>4, Waited DEF snd_vars
    <3> QED BY <1>0, <2>1, <2>a, <3>1, <3>2, OneTaken
  <2>5. CASE Checks
    <3>1. PICK w \in Workers :
             /\ rw[w] = "run" /\ pipe[w] # <<>> /\ pipe' = [pipe EXCEPT ![w] = Tail(@)]
             /\ \/ UNCHANGED hand
                \/ \E c \in Chunks : \E v \in Nat : Held(w, c, v, "run")
      BY <2>5, LeftoverExcused
    <3>2. UNCHANGED <<todo, done>>
      BY <1>0, <2>5, Checked DEF snd_vars
    <3>3. CASE UNCHANGED hand
      BY <1>0, <2>a, <3>1, <3>2, <3>3, OneTaken
    <3>4. CASE \E c \in Chunks : \E v \in Nat : Held(w, c, v, "run")
      <4>1. PICK c \in Chunks, v \in Nat : Held(w, c, v, "run")
        BY <3>4
      <4>2. hand[w] \notin Hand
        BY <1>0, <3>1 DEF Holding
      <4>3. hand' = [hand EXCEPT ![w] = [c |-> c, v |-> v, next |-> "run"]] /\ pipe[w][1].k = "chunk" /\ pipe[w][1].c = c
        BY <4>1 DEF Held
      <4> QED BY <1>0, <2>a, <3>1, <3>2, <4>2, <4>3, OneHeld
    <3> QED BY <3>1, <3>3, <3>4
  <2>6. CASE Marks
    <3>1. PICK w \in Workers, c \in Chunks :
             /\ hand[w] \in Hand /\ hand[w].c = c /\ hand' = [hand EXCEPT ![w] = NoHand] /\ done' = done \cup {c}
      BY <1>0, <2>6, Marked
    <3>2. UNCHANGED <<todo, pipe>>
      BY <2>6, Apart DEF snd_vars, net_vars
    <3> QED BY <2>a, <3>1, <3>2, OneMarked DEF InHand
  <2>7. CASE Lands \/ Losses
    <3>1. \A w \in Workers : hand'[w] \in Hand => hand'[w] = hand[w]
      BY <1>0, <2>7, Settled
    <3>2. UNCHANGED <<todo, done, pipe>>
      BY <2>7, Settled, Apart DEF snd_vars, net_vars
    <3> QED BY <1>0, <2>a, <3>1, <3>2, OneStays
  <2>8. CASE Returns \/ RcvCrash \/ Resets \/ Commits
    BY <2>8, Returned, Crashed, Reset, Committed
  <2> QED BY <2>2, <2>3, <2>4, <2>5, <2>6, <2>7, <2>8, Steps, Zenon
<1> QED BY <1>1, <1>2

\* There are finitely many chunks.
LEMMA FiniteChunks == \A S : S \subseteq Chunks => IsFiniteSet(S) /\ Cardinality(S) \in Nat
<1>1. Len(Tasks) \in Nat
  BY ChunkAssumption
<1>2. IsFiniteSet(1 .. Len(Tasks))
  BY <1>1, FS_Interval
<1> DEFINE g == [i \in 1 .. Len(Tasks) |-> Tasks[i]]
<1>3. g \in Surjection(1 .. Len(Tasks), Chunks)
  BY DEF Surjection, Chunks
<1>4. IsFiniteSet(Chunks)
  BY <1>2, <1>3, FS_Surjection
<1> QED BY <1>4, FS_Subset, FS_CardinalityType

\* fresh_chunks counts the chunks of this run, once each.
LEMMA CountedStep == ASSUME Typed, Session, Offer, Once, Counted, [Next]_vars PROVE Counted'
<1> SUFFICES ASSUME rp' = "stream", ~Excuse', NEW f \in Files
             PROVE  fresh'[f] = Cardinality(Taken(f)')
  BY DEF Counted
<1>0. MemTyped /\ InOrder /\ Holding /\ CleanStart /\ OneFlush
  BY DEF Typed, Session
<1>1. CASE rp # "stream"
  <2>1. fresh' = NoCount /\ done' = had'
    BY <1>1, Accepted DEF mem_vars, res_vars
  <2>2. Taken(f)' = {}
    BY <2>1 DEF Taken
  <2>3. fresh'[f] = 0
    BY <2>1 DEF NoCount
  <2> QED BY <2>2, <2>3, FS_EmptySet
<1>2. CASE rp = "stream"
  <2>0. ~Excuse /\ had' = had
    BY <1>2, ExcuseKept, Expecting
  <2>a. fresh[f] = Cardinality(Taken(f)) /\ OnePlace
    BY <1>2, <2>0 DEF Counted, Once
  <2>1. CASE UNCHANGED <<done, fresh>>
    <3>1. Taken(f)' = Taken(f)
      BY <2>0, <2>1 DEF Taken
    <3> QED BY <2>1, <2>a, <3>1
  <2>2. CASE Marks
    <3>1. PICK w \in Workers, c \in Chunks :
             /\ hand[w] \in Hand /\ hand[w].c = c /\ hand' = [hand EXCEPT ![w] = NoHand] /\ done' = done \cup {c}
             /\ fresh' = [fresh EXCEPT ![FileOf[c]] = @ + 1]
      BY <1>0, <2>2, Marked
    <3>2. UNCHANGED <<todo, pipe>>
      BY <2>2, Apart DEF snd_vars, net_vars
    <3>3. c \notin done
      BY <2>a, <3>1, <3>2, OneMarked DEF InHand
    <3>4. c \notin had
      BY <1>0, <1>2, <3>3 DEF CleanStart
    <3>5. FileOf[c] \in Files /\ fresh \in [Files -> Nat]
      BY <1>0, ChunkAssumption DEF MemTyped
    <3>6. CASE f = FileOf[c]
      <4>1. Taken(f)' = Taken(f) \cup {c} /\ c \notin Taken(f)
        BY <2>0, <3>1, <3>3, <3>4, <3>6 DEF Taken, ChunksOf
      <4>2. IsFiniteSet(Taken(f))
        BY FiniteChunks DEF Taken, ChunksOf
      <4>3. Cardinality(Taken(f) \cup {c}) = Cardinality(Taken(f)) + 1
        BY <4>1, <4>2, FS_AddElement
      <4>4. fresh'[f] = fresh[f] + 1
        BY <3>1, <3>5, <3>6
      <4> QED BY <2>a, <4>1, <4>3, <4>4
    <3>7. CASE f # FileOf[c]
      <4>1. Taken(f)' = Taken(f)
        BY <2>0, <3>1, <3>7 DEF Taken, ChunksOf
      <4>2. fresh'[f] = fresh[f]
        BY <3>1, <3>5, <3>7
      <4> QED BY <2>a, <4>1, <4>2
    <3> QED BY <3>6, <3>7
  <2>3. CASE UNCHANGED vars \/ Sends \/ Notices
    BY <2>1, <2>3, Sent, Noticed DEF vars, mem_vars, res_vars
  <2>4. CASE Waits \/ Checks \/ Writes \/ Flushes \/ Lands \/ Losses
    BY <1>0, <2>1, <2>4, Waited, Checked, Wrote, FlushMoves, Settled
  <2>5. CASE Returns \/ RcvCrash \/ Manifests \/ Resets \/ Commits
    BY <2>5, Returned, Crashed, Came, Reset, Committed
  <2> QED BY <2>2, <2>3, <2>4, <2>5, Steps, Zenon
<1> QED BY <1>1, <1>2

\* The count of what is fresh, with all it rests on.
LEMMA CountStep == ASSUME Typed, Session, Count, [Next]_vars PROVE Count'
BY OfferStep, EndedStep, OnceStep, CountedStep DEF Count

\* When the summary is there, no stream of another sender is among those that were joined, and
\* the count is true.
LEMMA Summed ==
    ASSUME Typed, Session, Count, rp = "stream", HasSummary
    PROVE  ~Excuse /\ \A f \in Files : AllFresh(f) => ChunksOf(f) \subseteq done \ had
<1>0. MemTyped /\ Holding /\ CleanStart /\ rw \in [Workers -> RwStates] /\ hand \in [Workers -> Hand \cup {NoHand}]
  BY DEF Typed, MemTyped, Session
<1>1. had = Chunks \/ \A w \in Workers : rw[w] = "ended"
  BY DEF Count, Ended
<1>2. ~Excuse
  <2>1. CASE had = Chunks
    <3>1. NoStreams
      BY <1>0, <2>1 DEF CleanStart
    <3> QED BY <3>1, EmptyHands
  <2>2. CASE \A w \in Workers : rw[w] = "ended"
    <3>1. \A w \in Workers : hand[w] = NoHand
      BY <1>0, <2>2 DEF Holding
    <3>2. \A w \in Workers : hand[w].next = "none"
      BY <3>1, Constant, Zenon
    <3> SUFFICES ASSUME Excuse PROVE FALSE
      OBVIOUS
    <3>3. PICK w \in Workers : rw[w] \in {"lastOld", "lastErr", "spent", "err"} \/ hand[w].next \in {"lastOld", "lastErr"}
      BY DEF Excuse
    <3>4. rw[w] = "ended" /\ hand[w].next = "none"
      BY <2>2, <3>2
    <3> QED BY <3>3, <3>4
  <2> QED BY <1>1, <2>1, <2>2
<1>3. ASSUME NEW f \in Files, AllFresh(f) PROVE ChunksOf(f) \subseteq done \ had
  <2>1. fresh[f] = Cardinality(Taken(f))
    BY <1>2 DEF Count, Counted
  <2>2. Taken(f) \subseteq ChunksOf(f) /\ ChunksOf(f) \subseteq Chunks
    BY DEF Taken, ChunksOf
  <2>3. /\ IsFiniteSet(ChunksOf(f)) /\ Cardinality(ChunksOf(f)) \in Nat
        /\ IsFiniteSet(Taken(f)) /\ Cardinality(Taken(f)) \in Nat
    BY <2>2, FiniteChunks
  <2>4. Cardinality(Taken(f)) <= Cardinality(ChunksOf(f))
    BY <2>2, <2>3, FS_Subset
  <2>5. Cardinality(Taken(f)) >= Cardinality(ChunksOf(f))
    BY <1>3, <2>1 DEF AllFresh
  <2>6. Cardinality(Taken(f)) = Cardinality(ChunksOf(f))
    BY <2>3, <2>4, <2>5
  <2>7. Taken(f) = ChunksOf(f)
    BY <2>2, <2>3, <2>6, FS_Subset
  <2> QED BY <2>7 DEF Taken
<1> QED BY <1>2, <1>3

-----------------------------------------------------------------------------
\* The chunks of a name to commit to: a file's own, or all of them.
LEMMA TargetWithin ==
    ASSUME NEW n \in Targets
    PROVE  /\ n \in Names
           /\ multi => n \in Files /\ Within(n) = {c \in Chunks : FileOf[c] = n}
           /\ ~multi => n \notin Files /\ Within(n) = Chunks /\ n \in Singles
BY NameAssumption DEF Targets, Names, Within, Singles

\* A single transfer commits to one name, and an overwrite to the name asked for.
LEMMA FinalStep == ASSUME Typed, Session, FinalIsFree, [Next]_vars PROVE FinalIsFree'
<1>0. UNCHANGED <<policy, multi>> /\ MemTyped /\ InOrder /\ Holding
  BY Config DEF Session, Typed
<1>1. CASE UNCHANGED <<final, state>>
  BY <1>0, <1>1 DEF FinalIsFree
<1>2. CASE UNCHANGED vars \/ Sends \/ Notices \/ Waits \/ Checks
  BY <1>0, <1>1, <1>2, Sent, Noticed, Waited, Checked DEF vars, mem_vars, disk_vars
<1>3. CASE Returns \/ RcvCrash
  <2>1. final' = "root"
    BY <1>3, Returned, Crashed DEF Forget
  <2>2. state' = state \/ state' = NoState
    BY <1>3, Zenon DEF Returns, RcvRefuse, RcvReject, RcvFails, RcvRecheck, RcvCompleted, CommitRollback,
       CommitRefuse, RcvCrash, disk_vars
  <2> QED BY <1>0, <2>1, <2>2, Constant DEF FinalIsFree, Singles
<1>4. CASE Manifests
  <2>1. CASE RcvAlreadyComplete
    BY <1>1, <2>1 DEF RcvAlreadyComplete
  <2>2. CASE RcvFresh
    <3>1. PICK n \in FinalNames : state' = [present |-> TRUE, man |-> Manifest, done |-> {}, final |-> n]
                                  /\ final' = n
      BY <2>2 DEF RcvFresh
    <3>2. n \in Singles /\ (policy = "overwrite" => n = "root") /\ state'.final = n
      BY <3>1 DEF FinalNames, Singles
    <3> QED BY <1>0, <3>1, <3>2 DEF FinalIsFree
  <2>3. CASE RcvResume
    BY <1>0, <2>3 DEF RcvResume, FinalIsFree, Typed, DiskTyped
  <2> QED BY <1>4, <2>1, <2>2, <2>3 DEF Manifests
<1>5. CASE (\E w \in Workers : FlushBegin(w)) \/ FlushFails \/ Resets
  BY <1>1, <1>5, Zenon DEF FlushBegin, FlushFails, Resets, RcvResetFile, disk_vars
<1>6. CASE FlushRemove
  BY <1>0, <1>6, Constant DEF FlushRemove, FinalIsFree
<1>7. CASE FlushRename
  <2>1. final' = final /\ state'.final = final
    BY <1>7 DEF FlushRename
  <2> QED BY <1>0, <2>1 DEF FinalIsFree
<1>8. CASE Commits
  <2>1. CASE \E n \in Targets : CommitBackup(n)
    BY <1>0, <2>1 DEF CommitBackup, ToMove, FinalIsFree
  <2>2. CASE CommitClean
    BY <1>0, <2>2, Constant DEF CommitClean, FinalIsFree, mem_vars
  <2>3. CASE (\E n \in Targets : CommitPlace(n)) \/ CommitSwap \/ CommitRemoveBackup
    BY <1>1, <2>3, Zenon DEF CommitPlace, CommitSwap, CommitRemoveBackup, mem_vars
  <2> QED BY <1>8, <2>1, <2>2, <2>3 DEF Commits
<1>9. CASE Writes \/ Marks
  BY <1>0, <1>1, <1>9, Wrote, Marked
<1>10. CASE Lands \/ Losses
  BY <1>1, <1>10, Settled
<1> QED BY <1>2, <1>3, <1>4, <1>5, <1>6, <1>7, <1>8, <1>9, <1>10, Steps, Zenon DEF Flushes

\* Wear makes nothing of something, and nothing of nothing.
LEMMA WearIs ==
    ASSUME NEW c, NEW x \in ByteSet, NEW y, Wear(c, x, y), x.is = None => x.due = {}
    PROVE  (y.is = None <=> x.is = None) /\ (y.is = None => y.due = {}) /\ (x.due = {} => y = x)
<1>2. \A v \in x.due : v # None
  BY DEF ByteSet, None
<1>3. Zero # None
  BY DEF Zero, None
<1> QED BY <1>2, <1>3 DEF Wear

\* So what is at a place stays of its kind.
LEMMA KindKept ==
    ASSUME NEW n, NEW x \in Content, NEW y \in Content, \A c \in Chunks : Wear(c, x[c], y[c]), Kind(x, n)
    PROVE  /\ Kind(y, n) /\ (x = Absent => y = Absent) /\ (Good(x, n) => Good(y, n)) /\ (Whole(x, n) => Whole(y, n))
           /\ \A c \in Chunks : x[c].is # None => y[c].is # None
<1>0. \A c \in Chunks : x[c] \in ByteSet
  BY DEF Content, ByteSet
<1>1. NoGhost(x)
  BY Constant DEF Kind, NoGhost, Absent
<1>2. \A c \in Chunks : (y[c].is = None <=> x[c].is = None) /\ (y[c].is = None => y[c].due = {})
                        /\ (x[c] = Bytes(None) => y[c] = Bytes(None))
  <2> TAKE c \in Chunks
  <2>1. x[c].is = None => x[c].due = {}
    BY <1>1 DEF NoGhost
  <2>2. x[c] \in ByteSet /\ Wear(c, x[c], y[c])
    BY <1>0
  <2>3. /\ (y[c].is = None <=> x[c].is = None) /\ (y[c].is = None => y[c].due = {})
        /\ (x[c].due = {} => y[c] = x[c])
    BY <2>1, <2>2, WearIs
  <2>4. x[c] = Bytes(None) => x[c].due = {}
    BY Constant, Zenon
  <2> QED BY <2>3, <2>4, Zenon
<1>3. x = Absent => y = Absent
  BY <1>2 DEF Absent, Content
<1>4. Within(n) \subseteq Chunks
  BY DEF Within
<1>5. Whole(x, n) => Whole(y, n)
  BY <1>2, <1>4 DEF Whole
<1>6. Good(x, n) => Good(y, n)
  BY <1>2, <1>5 DEF Good
<1>7. NoGhost(y)
  BY <1>2 DEF NoGhost
<1> QED BY <1>2, <1>3, <1>5, <1>6, <1>7 DEF Kind

\* What is staged is there from the manifest to the commit.
LEMMA StagingStep == ASSUME Typed, Session, Staging, [Next]_vars PROVE Staging'
<1>0. /\ MemTyped /\ DiskTyped /\ InOrder /\ CleanStart /\ Holding /\ OneFlush /\ NoGhost(stage)
      /\ stage \in Content /\ \A c \in Chunks : stage[c] \in ByteSet
  BY DEF Typed, Session, Staging, DiskTyped, Content, ByteSet
<1>1. CASE UNCHANGED stage /\ (rp' = rp \/ rp' \notin {"confirm", "stream"})
  BY <1>0, <1>1 DEF Staging, NoGhost
<1>2. CASE UNCHANGED vars \/ Sends
  BY <1>1, <1>2, Sent DEF vars, disk_vars
<1>3. CASE Notices
  <2>1. UNCHANGED stage
    BY <1>3, Noticed DEF disk_vars
  <2>2. rp' \in {"confirm", "stream"} => rp \in {"confirm", "stream"}
    BY <1>3 DEF Notices, RcvStray, RcvAccept, RcvVerify, RcvRestart
  <2> QED BY <1>0, <2>1, <2>2 DEF Staging, NoGhost
<1>4. CASE Waits \/ Checks \/ Marks
  BY <1>0, <1>1, <1>4, Waited, Checked, Marked
<1>5. CASE Flushes \/ Resets
  BY <1>0, <1>1, <1>5, FlushMoves, Reset
<1>6. CASE Writes
  <2>1. PICK c \in Chunks, v \in Nat :
           stage' = [stage EXCEPT ![c] = [is |-> stage[c].is, due |-> stage[c].due \cup {v}]]
    BY <1>0, <1>6, Wrote
  <2>2. rp = "stream" /\ rp' = rp
    BY <1>0, <1>6, Wrote
  <2> DEFINE y == [is |-> stage[c].is, due |-> stage[c].due \cup {v}]
  <2>3. y.is = stage[c].is
    OBVIOUS
  <2> HIDE DEF y
  <2>4. \A d \in Chunks : stage'[d].is = stage[d].is
    BY <1>0, <2>1, <2>3 DEF y, Content
  <2> QED BY <2>2, <2>4 DEF Staging, NoGhost
<1>7. CASE Manifests
  <2>1. CASE RcvAlreadyComplete
    BY <1>1, <2>1 DEF RcvAlreadyComplete
  <2>2. CASE RcvFresh \/ RcvResume
    <3>1. stage' = Prepared
      BY <2>2 DEF RcvFresh, RcvResume
    <3>2. \A c \in Chunks : stage'[c].is # None
      BY <3>1, Constant DEF Prepared, Zero, None
    <3> QED BY <3>2 DEF Staging, NoGhost
  <2> QED BY <1>7, <2>1, <2>2 DEF Manifests
<1>8. CASE Lands \/ Losses \/ RcvCrash
  <2>1. \A c \in Chunks : Wear(c, stage[c], stage'[c])
    BY <1>0, <1>8, Wears
  <2>2. \A c \in Chunks : (stage'[c].is = None <=> stage[c].is = None) /\ (stage'[c].is = None => stage'[c].due = {})
    <3> TAKE c \in Chunks
    <3>1. stage[c].is = None => stage[c].due = {}
      BY <1>0 DEF NoGhost
    <3>2. stage[c] \in ByteSet /\ Wear(c, stage[c], stage'[c])
      BY <1>0, <2>1
    <3> QED BY <3>1, <3>2, WearIs
  <2>3. rp' = rp \/ rp' = "down"
    BY <1>8, Settled, Crashed
  <2> QED BY <2>2, <2>3 DEF Staging, NoGhost
<1>9. CASE Returns
  <2>1. rp' = "listen"
    BY <1>9, Returned
  <2>2. stage' = stage \/ stage' = Absent
    BY <1>9, Zenon DEF Returns, RcvRefuse, RcvReject, RcvFails, RcvRecheck, RcvCompleted, CommitRollback,
       CommitRefuse, disk_vars
  <2> QED BY <1>0, <2>1, <2>2, Constant DEF Staging, NoGhost, Absent
<1>10. CASE Commits
  <2>1. rp' \notin {"confirm", "stream"}
    BY <1>10, Committed
  <2>2. stage' = stage \/ stage' = Absent \/ \E n : stage' = Moved(n)
    BY <1>10, Zenon DEF Commits, CommitPlace, CommitBackup, CommitSwap, CommitRemoveBackup, CommitClean
  <2> QED BY <1>0, <2>1, <2>2, Constant DEF Staging, NoGhost, Absent, Moved
<1> QED BY <1>2, <1>3, <1>4, <1>5, <1>6, <1>7, <1>8, <1>9, <1>10, Steps, Zenon

\* One rename puts what is staged for a name in its place.
Puts(n) ==
    /\ Committing /\ n \in Targets /\ (~multi => n = final) /\ dest[n] = Absent
    /\ dest' = [dest EXCEPT ![n] = Staged(n)] /\ stage' = Moved(n)
    /\ UNCHANGED <<src_vars, snd_vars, state, backup, final, astray>>
    /\ \A c \in Within(n) : stage[c].is # None /\ Sound(c, stage[c])
    /\ Good(Staged(n), n) /\ NoGhost(Staged(n))

\* What is still staged for a name is all of it, and the sender's.
LEMMA StillStaged ==
    ASSUME Commit, Committing, NEW n \in Targets, NEW d \in Within(n), stage[d].is # None
    PROVE  \A c \in Within(n) : stage[c].is # None /\ Sound(c, stage[c])
<1>1. \A c \in Within(n) : c \in Chunks /\ stage[c].is # None
  BY DEF Commit, Within
<1> QED BY <1>1 DEF Commit

\* A stage with something in it.
LEMMA StageHolds ==
    ASSUME DiskTyped, Staging, stage # Absent PROVE \E d \in Chunks : stage[d].is # None
<1> SUFFICES ASSUME \A d \in Chunks : stage[d].is = None PROVE stage = Absent
  OBVIOUS
<1>1. \A d \in Chunks : stage[d] = Bytes(None)
  <2> TAKE d \in Chunks
  <2>1. stage[d] \in ByteSet /\ stage[d].is = None /\ stage[d].due = {}
    BY DEF Staging, NoGhost, DiskTyped, Content, ByteSet
  <2>2. stage[d] = [is |-> stage[d].is, due |-> stage[d].due]
    BY <2>1 DEF ByteSet
  <2> QED BY <2>1, <2>2 DEF Bytes
<1> QED BY <1>1 DEF DiskTyped, Content, Absent

\* What is moved into the destination is whole.
LEMMA PutStep ==
    ASSUME Typed, Staging, Commit, NEW n \in Targets, CommitPlace(n) \/ (CommitSwap /\ n = final)
    PROVE  Puts(n)
<1>0. MemTyped /\ DiskTyped
  BY DEF Typed
<1>1. /\ Committing /\ dest[n] = Absent
      /\ dest' = [dest EXCEPT ![n] = Staged(n)] /\ stage' = Moved(n)
      /\ UNCHANGED <<src_vars, snd_vars, state, backup, final, astray>>
  <2>1. CASE CommitPlace(n)
    BY <2>1 DEF CommitPlace, Committing, Exists, mem_vars
  <2>2. CASE CommitSwap /\ n = final
    BY <2>2 DEF CommitSwap, Committing, Commit, mem_vars
  <2> QED BY <2>1, <2>2
<1>2. ~multi => n = final
  BY DEF CommitPlace, ToMove, CommitSwap
<1>3. Within(n) = {} \/ \E d \in Within(n) : stage[d].is # None
  <2>1. CASE CommitPlace(n)
    <3>1. CASE multi
      BY <2>1, <3>1 DEF CommitPlace, ToMove
    <3>2. CASE ~multi
      <4>1. stage # Absent /\ Within(n) = Chunks
        BY <2>1, <3>2, TargetWithin DEF CommitPlace, ToMove
      <4> QED BY <1>0, <4>1, StageHolds
    <3> QED BY <3>1, <3>2
  <2>2. CASE CommitSwap /\ n = final
    BY <2>2 DEF CommitSwap, Commit
  <2> QED BY <2>1, <2>2
<1>4. \A c \in Within(n) : stage[c].is # None /\ Sound(c, stage[c])
  BY <1>1, <1>3, StillStaged
<1>5. Good(Staged(n), n)
  BY <1>4 DEF Good, Whole, Staged, Within
<1>6. NoGhost(Staged(n))
  BY Constant DEF NoGhost, Staging, Staged
<1> QED BY <1>1, <1>2, <1>4, <1>5, <1>6 DEF Puts

\* What may change at the destination and in its backup.
LEMMA Shelves ==
    ASSUME Typed, Session, Staging, Commit, [Next]_vars
    PROVE  \/ UNCHANGED <<dest, backup>>
           \/ \E n \in Targets : Puts(n)
           \/ \E n \in Targets : CommitBackup(n)
           \/ CommitRollback \/ CommitRemoveBackup \/ RcvReject \/ CommitClean
           \/ Lands \/ Losses \/ RcvCrash
<1>0. MemTyped /\ InOrder /\ Holding /\ CleanStart /\ OneFlush
  BY DEF Typed, Session
<1>1. CASE UNCHANGED vars \/ Sends \/ Notices \/ Waits \/ Checks \/ Writes \/ Marks \/ Manifests
  BY <1>0, <1>1, Sent, Noticed, Waited, Checked, Wrote, Marked, Came DEF vars, disk_vars
<1>2. CASE Flushes \/ Resets
  BY <1>0, <1>2, FlushMoves, Reset
<1>3. CASE Returns
  BY <1>3, Zenon DEF Returns, RcvRefuse, RcvFails, RcvRecheck, RcvCompleted, CommitRefuse, disk_vars
<1>4. CASE CommitSwap
  <2>1. final \in Targets
    BY <1>4 DEF CommitSwap, Commit
  <2> QED BY <1>4, <2>1, PutStep
<1>5. CASE \E n \in Targets : CommitPlace(n)
  BY <1>5, PutStep
<1> QED BY <1>1, <1>2, <1>3, <1>4, <1>5, Steps, Zenon DEF Commits

\* The old content, or the new in full.
LEMMA ShelfStep ==
    ASSUME Typed, Session, FinalIsFree, Shelf, Staging, Commit, [Next]_vars
    PROVE  Shelf'
<1>0. UNCHANGED <<policy, multi>> /\ InOrder /\ DiskTyped
  BY Config DEF Session, Typed
<1>a. dest \in [Names -> Content] /\ backup \in [Names -> Content] /\ \A m : Kind(Absent, m)
  BY DEF Typed, DiskTyped, Kind
<1> SUFFICES ASSUME NEW n \in Names
             PROVE  /\ Kind(dest'[n], n) /\ Kind(backup'[n], n)
                    /\ backup'[n] # Absent => policy = "overwrite" /\ n \in IF multi THEN Files ELSE {"root"}
  BY <1>0 DEF Shelf, Kind, Good, Whole, NoGhost
<1>c. /\ Kind(dest[n], n) /\ Kind(backup[n], n)
      /\ backup[n] # Absent => policy = "overwrite" /\ n \in IF multi THEN Files ELSE {"root"}
  BY DEF Shelf
<1>1. CASE UNCHANGED <<dest, backup>>
  BY <1>1, <1>c
<1>2. CASE \E m \in Targets : Puts(m)
  <2>1. PICK m \in Targets : Puts(m)
    BY <1>2
  <2>2. backup' = backup /\ dest' = [dest EXCEPT ![m] = Staged(m)] /\ Kind(Staged(m), m)
    BY <2>1 DEF Puts, Kind
  <2>3. dest'[n] = IF n = m THEN Staged(m) ELSE dest[n]
    BY <1>a, <2>2
  <2> QED BY <1>c, <2>2, <2>3
<1>3. CASE \E m \in Targets : CommitBackup(m)
  <2>1. PICK m \in Targets : CommitBackup(m)
    BY <1>3
  <2>2. backup' = [backup EXCEPT ![m] = dest[m]] /\ dest' = [dest EXCEPT ![m] = Absent] /\ policy = "overwrite"
        /\ m \in ToMove
    BY <2>1 DEF CommitBackup
  <2>3. m \in IF multi THEN Files ELSE {"root"}
    BY <2>2, TargetWithin DEF ToMove, FinalIsFree
  <2>4. /\ dest'[n] = (IF n = m THEN Absent ELSE dest[n])
        /\ backup'[n] = (IF n = m THEN dest[m] ELSE backup[n])
    BY <1>a, <2>2
  <2> QED BY <1>a, <1>c, <2>2, <2>3, <2>4
<1>4. CASE CommitRollback
  <2>1. dest' = [dest EXCEPT ![final] = backup[final]] /\ backup' = [backup EXCEPT ![final] = Absent]
    BY <1>4 DEF CommitRollback
  <2>2. /\ dest'[n] = (IF n = final THEN backup[n] ELSE dest[n])
        /\ backup'[n] = (IF n = final THEN Absent ELSE backup[n])
    BY <1>a, <2>1
  <2> QED BY <1>a, <1>c, <2>2
<1>5. CASE CommitRemoveBackup
  <2>1. dest' = dest /\ backup'[n] = (IF n = final THEN Absent ELSE backup[n])
    BY <1>a, <1>5 DEF CommitRemoveBackup
  <2> QED BY <1>a, <1>c, <2>1
<1>6. CASE RcvReject \/ CommitClean
  <2>1. dest' = dest /\ backup'[n] = Absent
    BY <1>6 DEF RcvReject, CommitClean
  <2> QED BY <1>a, <1>c, <2>1
<1>7. CASE Lands \/ Losses \/ RcvCrash
  <2>1. /\ \A c \in Chunks : Wear(c, dest[n][c], dest'[n][c]) /\ Wear(c, backup[n][c], backup'[n][c])
        /\ dest'[n] \in Content /\ backup'[n] \in Content /\ dest[n] \in Content /\ backup[n] \in Content
    BY <1>0, <1>a, <1>7, Wears
  <2>2. Kind(dest'[n], n) /\ Kind(backup'[n], n) /\ (backup[n] = Absent => backup'[n] = Absent)
    BY <1>c, <2>1, KindKept
  <2> QED BY <1>c, <2>2
<1> QED BY <1>1, <1>2, <1>3, <1>4, <1>5, <1>6, <1>7, Shelves, Zenon

-----------------------------------------------------------------------------
\* A version that was the sender's is the sender's, until it starts again.
OwnNext(c, v) ==
    \/ v = man'[FileOf[c]]
    \/ FileOf[c] \in torn' /\ v >= man'[FileOf[c]] /\ v <= src'[FileOf[c]]
DueNext(c, y) == c \in astray' \/ \A v \in y.due : OwnNext(c, v)
ArrivedNext(c, y) == c \in astray' \/ (\E v \in {y.is} \cup y.due : OwnNext(c, v))

\* ... also of a file that is edited again.
LEMMA OwnKept ==
    ASSUME Typed, InOrder, [Next]_vars, ~SndStart
    PROVE  /\ man' = man /\ torn \subseteq torn' /\ \A f \in Files : src[f] \in Nat /\ src'[f] \in Nat /\ src[f] <= src'[f]
           /\ \A c \in Chunks, v \in Int : IsOwn(c, v) => OwnNext(c, v)
<1>0. src \in Versions /\ \A c \in Chunks : FileOf[c] \in Files
  BY ChunkAssumption DEF Typed, SourceTyped
<1>1. man' = man /\ torn \subseteq torn' /\ (src' = src \/ \E f \in Files : src' = [src EXCEPT ![f] = @ + 1])
  BY SenderOnly, Source DEF Edit, src_vars, snd_vars
<1>2. \A f \in Files : src[f] \in Nat /\ src'[f] \in Nat /\ src[f] <= src'[f]
  BY <1>0, <1>1 DEF Versions
<1>3. ASSUME NEW c \in Chunks, NEW v \in Int, IsOwn(c, v) PROVE OwnNext(c, v)
  <2>1. FileOf[c] \in Files
    BY <1>0
  <2>2. src[FileOf[c]] \in Nat /\ src'[FileOf[c]] \in Nat /\ src[FileOf[c]] <= src'[FileOf[c]]
    BY <1>2, <2>1
  <2> QED BY <1>1, <1>3, <2>2 DEF IsOwn, OwnNext
<1> QED BY <1>1, <1>2, <1>3

\* The next sender starts when nobody is being received.
LEMMA StartIdle == ASSUME SndStart PROVE rp = "listen" /\ rp' = "listen"
BY DEF SndStart

\* A write that lands is one of those that were under way.
LEMMA SoundKept ==
    ASSUME Typed, InOrder, [Next]_vars, ~SndStart, astray \subseteq astray',
           NEW c \in Chunks, NEW x \in ByteSet, NEW y, Wear(c, x, y), DueOwn(c, x)
    PROVE  DueNext(c, y) /\ (Arrived(c, x) => ArrivedNext(c, y))
<1>1. \A v \in Int : IsOwn(c, v) => OwnNext(c, v)
  BY OwnKept
<1>2. x.is \in Int /\ x.due \subseteq Int
  BY DEF ByteSet
<1>3. CASE c \in astray'
  BY <1>3 DEF DueNext, ArrivedNext
<1>4. CASE c \notin astray'
  <2>1. c \notin astray /\ \A v \in x.due : OwnNext(c, v)
    BY <1>1, <1>2, <1>4 DEF DueOwn
  <2>2. CASE y = x
    BY <1>1, <1>2, <2>1, <2>2 DEF DueNext, ArrivedNext, Arrived
  <2>3. CASE y # x
    <3>1. y.due \subseteq x.due /\ y.is \in x.due
      BY <1>4, <2>3 DEF Wear
    <3> QED BY <2>1, <3>1 DEF DueNext, ArrivedNext
  <2> QED BY <2>2, <2>3
<1> QED BY <1>3, <1>4

\* The source's versions only grow.
LEMMA OwnSource ==
    ASSUME Typed, Session, Own, [Next]_vars
    PROVE  /\ (\A f \in Files : man[f] <= src[f])'
           /\ (sp \in {"offered", "sending"} => \A f \in Files : f \in torn \/ src[f] = man[f])'
<1>0. InOrder /\ src \in Versions /\ man \in Versions /\ \A f \in Files : man[f] \in Nat /\ src[f] \in Nat
  BY DEF Session, Typed, SourceTyped, Versions
<1>1. ASSUME sp' \in {"offered", "sending"}, NEW f \in Files PROVE f \in torn' \/ src'[f] = man'[f]
  <2>1. CASE SndStart
    BY <2>1 DEF SndStart
  <2>2. CASE \E g \in Files : Edit(g)
    <3>1. PICK g \in Files : Edit(g)
      BY <2>2
    <3>2. sp \in {"offered", "sending"} /\ torn' = torn \cup {g} /\ src' = [src EXCEPT ![g] = @ + 1] /\ man' = man
      BY <1>1, <3>1 DEF Edit, snd_vars
    <3>3. f = g \/ src'[f] = src[f]
      BY <1>0, <3>2 DEF Versions
    <3> QED BY <3>2, <3>3 DEF Own
  <2>3. CASE UNCHANGED <<src, torn, man>> /\ ~SndStart
    <3>1. sp \in {"offered", "sending"}
      <4>1. CASE Sends
        BY <1>1, <2>3, <4>1 DEF Sends, SndAccepted, SndCompleted, SndFails, SndDie, SndChunk, SndWorkerDone,
           SndWorkerComplete, SndEnd, Edit, snd_vars
      <4>2. CASE UNCHANGED snd_vars
        BY <1>1, <4>2 DEF snd_vars
      <4> QED BY <1>0, <4>1, <4>2, SenderOnly
    <3> QED BY <2>3, <3>1 DEF Own
  <2> QED BY <1>0, <2>1, <2>2, <2>3, SenderOnly, Source DEF src_vars, snd_vars
<1>2. ASSUME NEW f \in Files PROVE man'[f] <= src'[f]
  <2>1. CASE SndStart
    BY <1>0, <2>1 DEF SndStart
  <2>2. CASE ~SndStart
    <3>1. man' = man /\ src[f] \in Nat /\ src'[f] \in Nat /\ src[f] <= src'[f]
      BY <1>0, <2>2, OwnKept
    <3>2. man[f] <= src[f] /\ man[f] \in Nat
      BY <1>0 DEF Own
    <3> QED BY <3>1, <3>2
  <2> QED BY <2>1, <2>2
<1> QED BY <1>1, <1>2

\* The chunks on the sender's streams are what it read in this run.
LEMMA OwnPipes ==
    ASSUME Typed, Session, Own, [Next]_vars, NEW w \in Workers, NEW i \in 1 .. Len(pipe'[w]), pipe'[w][i].k = "chunk"
    PROVE  OwnNext(pipe'[w][i].c, pipe'[w][i].v)
<1>0. InOrder /\ pipe \in [Workers -> Seq(Frame)] /\ src \in Versions /\ man \in Versions
  BY DEF Session, Typed, NetTyped, SourceTyped
<1>1. ASSUME NEW q \in Seq(Frame), pipe'[w] = q, ~SndStart,
             \A j \in 1 .. Len(q) : q[j].k = "chunk" => IsOwn(q[j].c, q[j].v)
      PROVE  OwnNext(pipe'[w][i].c, pipe'[w][i].v)
  <2>1. q[i] \in Frame /\ q[i].k = "chunk" /\ IsOwn(q[i].c, q[i].v)
    BY <1>1
  <2>2. q[i].c \in Chunks /\ q[i].v \in Int
    BY <2>1 DEF Frame
  <2>3. OwnNext(q[i].c, q[i].v)
    BY <1>0, <1>1, <2>1, <2>2, OwnKept
  <2> QED BY <1>1, <2>3
<1>a. pipe[w] \in Seq(Frame) /\ \A j \in 1 .. Len(pipe[w]) : pipe[w][j].k = "chunk" => IsOwn(pipe[w][j].c, pipe[w][j].v)
  BY <1>0 DEF Own
<1>b. pipe'[w] # <<>>
  OBVIOUS
<1>2. CASE SndStart
  BY <1>2, <1>b DEF SndStart, NoPipes
<1>3. CASE pipe'[w] = pipe[w] /\ ~SndStart
  BY <1>1, <1>a, <1>3
<1>4. CASE ~SndStart /\ \E x \in Workers : pipe[x] # <<>> /\ pipe' = [pipe EXCEPT ![x] = Tail(@)]
  <2>1. PICK x \in Workers : pipe[x] # <<>> /\ pipe' = [pipe EXCEPT ![x] = Tail(@)]
    BY <1>4
  <2>2. CASE x # w
    BY <1>0, <1>3, <1>4, <2>1, <2>2
  <2>3. CASE x = w
    <3> DEFINE q == Tail(pipe[w])
    <3>1. q \in Seq(Frame) /\ pipe'[w] = q
      BY <1>0, <2>1, <2>3
    <3>2. \A j \in 1 .. Len(q) : q[j].k = "chunk" => IsOwn(q[j].c, q[j].v)
      <4> SUFFICES ASSUME NEW j \in 1 .. Len(q), q[j].k = "chunk" PROVE IsOwn(q[j].c, q[j].v)
        OBVIOUS
      <4>1. q[j] = pipe[w][j + 1] /\ j + 1 \in 1 .. Len(pipe[w])
        BY <1>a, <2>1, <2>3
      <4> QED BY <1>a, <4>1
    <3> HIDE DEF q
    <3> QED BY <1>1, <1>4, <3>1, <3>2
  <2> QED BY <2>2, <2>3
<1>5. CASE \E x \in Workers : SndChunk(x)
  <2>1. PICK x \in Workers : SndChunk(x)
    BY <1>5
  <2>2. ~SndStart /\ sp = "sending" /\ UNCHANGED <<man, torn, src>>
    BY <2>1 DEF SndChunk, SndStart, src_vars
  <2>3. PICK j \in todo : pipe' = [pipe EXCEPT ![x] =
                                      <<[k |-> "chunk", c |-> Tasks[j], v |-> src[FileOf[Tasks[j]]]]>>]
    BY <2>1 DEF SndChunk
  <2>4. CASE x # w
    BY <1>0, <1>3, <2>2, <2>3, <2>4
  <2>5. CASE x = w
    <3>1. Tasks[j] \in Chunks
      BY DEF Typed, QueueTyped, Chunks
    <3>2. FileOf[Tasks[j]] \in Files
      BY <3>1, ChunkAssumption
    <3>3. man[FileOf[Tasks[j]]] \in Nat /\ src[FileOf[Tasks[j]]] \in Nat
      BY <1>0, <3>2 DEF Versions
    <3>4. OwnNext(Tasks[j], src[FileOf[Tasks[j]]])
      BY <2>2, <3>2, <3>3 DEF Own, OwnNext
    <3> DEFINE e == [k |-> "chunk", c |-> Tasks[j], v |-> src[FileOf[Tasks[j]]]]
    <3>5. e.c = Tasks[j] /\ e.v = src[FileOf[Tasks[j]]]
      OBVIOUS
    <3> HIDE DEF e
    <3>6. pipe'[w] = <<e>>
      BY <1>0, <2>3, <2>5 DEF e
    <3>7. pipe'[w][i] = e
      BY <3>6
    <3> QED BY <3>4, <3>5, <3>7
  <2> QED BY <2>4, <2>5
<1>6. CASE \E x \in Workers : SndWorkerDone(x)
  <2>0. ~SndStart
    BY <1>6 DEF SndWorkerDone, SndStart
  <2> DEFINE e == [k |-> "done"]
  <2>1. PICK x \in Workers : pipe' = [pipe EXCEPT ![x] = Append(@, e)]
    BY <1>6 DEF SndWorkerDone
  <2>2. e.k # "chunk"
    OBVIOUS
  <2> HIDE DEF e
  <2>3. CASE x # w
    BY <1>0, <1>3, <2>0, <2>1, <2>3
  <2>4. CASE x = w
    <3>1. pipe'[w] = Append(pipe[w], e)
      BY <1>0, <2>1, <2>4
    <3>2. i \in 1 .. Len(pipe[w]) /\ pipe'[w][i] = pipe[w][i]
      BY <1>a, <2>2, <3>1
    <3>3. pipe[w][i] \in Frame /\ pipe[w][i].k = "chunk"
      BY <1>a, <3>2
    <3>4. pipe[w][i].c \in Chunks /\ pipe[w][i].v \in Int
      BY <3>3 DEF Frame
    <3>5. OwnNext(pipe[w][i].c, pipe[w][i].v)
      BY <1>0, <1>a, <2>0, <3>2, <3>3, <3>4, OwnKept
    <3> QED BY <3>2, <3>5
  <2> QED BY <2>3, <2>4
<1>7. CASE ~SndStart /\ (UNCHANGED pipe \/ pipe' = NoPipes \/ pipe' = Untaken)
  BY <1>3, <1>7, <1>b DEF NoPipes, Untaken
<1> QED BY <1>0, <1>2, <1>4, <1>5, <1>6, <1>7, PipeStep

\* So is what a handler of its own has in hand.
LEMMA OwnHands ==
    ASSUME Typed, Session, Own, [Next]_vars, NEW w \in Workers, hand'[w].next = "run"
    PROVE  OwnNext(hand'[w].c, hand'[w].v)
<1>0. /\ MemTyped /\ InOrder /\ Holding /\ CleanStart /\ OneFlush /\ NoHand.next = "none" /\ NoHand \notin Hand
      /\ hand \in [Workers -> Hand \cup {NoHand}] /\ pipe \in [Workers -> Seq(Frame)]
  BY Constant DEF Session, Typed, MemTyped, NetTyped
<1>1. CASE hand'[w] = hand[w]
  <2>1. hand[w] \in Hand
    BY <1>0, <1>1
  <2>2. ~SndStart
    BY <1>0, <2>1, StartIdle, EmptyHands DEF CleanStart, NotBegun, Idle
  <2>3. hand[w].c \in Chunks /\ hand[w].v \in Int
    BY <2>1 DEF Hand
  <2>4. OwnNext(hand[w].c, hand[w].v)
    BY <1>0, <1>1, <2>2, <2>3, OwnKept DEF Own
  <2> QED BY <1>1, <2>4
<1>2. hand'[w] # NoHand
  BY <1>0
<1>3. CASE Forget
  BY <1>2, <1>3 DEF Forget, NoHands
<1>4. CASE Checks
  <2>1. PICK x \in Workers, next \in {"run", "lastOld", "lastErr"} :
           /\ next = "run" => rw[x] = "run" /\ pipe[x] # <<>>
           /\ UNCHANGED hand \/ \E c \in Chunks : \E v \in Nat : Held(x, c, v, next)
    BY <1>0, <1>4, Checked
  <2>2. CASE \E c \in Chunks : \E v \in Nat : Held(x, c, v, next)
    <3>1. PICK c \in Chunks, v \in Nat : Held(x, c, v, next)
      BY <2>2
    <3>2. CASE x # w
      BY <1>0, <1>1, <3>1, <3>2 DEF Held
    <3>3. CASE x = w
      <4> DEFINE h == [c |-> c, v |-> v, next |-> next]
      <4>1. h.c = c /\ h.v = v /\ h.next = next
        OBVIOUS
      <4> HIDE DEF h
      <4>2. hand'[w] = h
        BY <1>0, <3>1, <3>3 DEF Held, h
      <4>3. next = "run"
        BY <4>1, <4>2
      <4>4. pipe[w][1].k = "chunk" /\ pipe[w][1].c = c /\ pipe[w][1].v = v /\ 1 \in 1 .. Len(pipe[w])
        BY <1>0, <2>1, <3>1, <3>3, <4>3 DEF Held
      <4>5. IsOwn(c, v)
        BY <4>4 DEF Own
      <4>6. ~SndStart
        BY <1>0, <1>4, Checked, StartIdle
      <4>7. OwnNext(c, v)
        BY <1>0, <4>5, <4>6, OwnKept
      <4> QED BY <4>1, <4>2, <4>7
    <3> QED BY <3>2, <3>3
  <2> QED BY <1>1, <2>1, <2>2
<1>5. CASE Marks
  <2>1. PICK x \in Workers : hand' = [hand EXCEPT ![x] = NoHand]
    BY <1>0, <1>5, Marked
  <2> QED BY <1>0, <1>1, <1>2, <2>1
<1>6. CASE Lands \/ Losses
  <2>1. UNCHANGED hand \/ \E x \in Workers : hand' = [hand EXCEPT ![x] = NoHand]
    BY <1>6, Settled
  <2> QED BY <1>0, <1>1, <1>2, <2>1
<1>7. CASE Waits \/ Writes \/ Flushes
  BY <1>0, <1>1, <1>7, Waited, Wrote, FlushMoves
<1> QED BY <1>1, <1>3, <1>4, <1>5, <1>6, <1>7, Handlers

\* What is under way in this run is the sender's.
LEMMA OwnStep == ASSUME Typed, Session, Own, [Next]_vars PROVE Own'
<1>1. ASSUME NEW w \in Workers, NEW i \in 1 .. Len(pipe'[w]), pipe'[w][i].k = "chunk"
      PROVE  IsOwn(pipe[w][i].c, pipe[w][i].v)'
  BY <1>1, OwnPipes DEF OwnNext, IsOwn
<1>2. ASSUME NEW w \in Workers, hand'[w].next = "run" PROVE IsOwn(hand[w].c, hand[w].v)'
  BY <1>2, OwnHands DEF OwnNext, IsOwn
<1> QED BY <1>1, <1>2, OwnSource DEF Own

\* While chunks come in, the stage changes by a write that begins, or wears.
LEMMA StageMoves ==
    ASSUME Typed, Session, [Next]_vars, rp' = rp, rp \in {"confirm", "stream"}, ~Writes
    PROVE  astray \subseteq astray' /\ \A c \in Chunks : Wear(c, stage[c], stage'[c])
<1>0. MemTyped /\ DiskTyped /\ InOrder /\ Holding /\ CleanStart /\ OneFlush
  BY DEF Typed, Session
<1>1. CASE UNCHANGED <<stage, astray>>
  BY <1>1 DEF Wear
<1>2. CASE UNCHANGED vars \/ Sends \/ Notices \/ Waits \/ Checks \/ Marks
  BY <1>0, <1>1, <1>2, Sent, Noticed, Waited, Checked, Marked DEF vars, disk_vars
<1>3. CASE Flushes \/ Resets
  BY <1>0, <1>1, <1>3, FlushMoves, Reset
<1>4. CASE Lands \/ Losses \/ RcvCrash
  BY <1>0, <1>4, Wears
<1>5. CASE Commits \/ Returns \/ Manifests
  BY <1>5, Committed, Returned, Came
<1> QED BY <1>2, <1>3, <1>4, <1>5, Steps, Zenon

\* A handler that is about to mark a chunk was so before, or has just written it.
LEMMA MarkKept ==
    ASSUME Typed, Session, [Next]_vars, rp' = rp, rp = "stream", ~Writes, NEW x \in Workers, rw'[x] = "mark"
    PROVE  rw[x] = "mark" /\ hand'[x] = hand[x]
<1>0. /\ MemTyped /\ InOrder /\ Holding /\ CleanStart /\ OneFlush
      /\ rw \in [Workers -> RwStates] /\ hand \in [Workers -> Hand \cup {NoHand}]
  BY DEF Typed, Session, MemTyped
<1>1. CASE UNCHANGED <<rw, hand>>
  BY <1>1
<1>2. CASE Forget
  BY <1>2 DEF Forget, AllOff
<1>3. CASE Waits
  BY <1>0, <1>3, Waited
<1>4. CASE Checks
  <2>1. PICK w \in Workers, next \in {"run", "lastOld", "lastErr"} :
           \/ rw' = [rw EXCEPT ![w] = next] /\ UNCHANGED hand
           \/ \E c \in Chunks : \E v \in Nat : Held(w, c, v, next)
    BY <1>0, <1>4, Checked
  <2> QED BY <1>0, <2>1 DEF Held
<1>5. CASE Marks
  <2>1. PICK w \in Workers, r \in {"run", "flush", "lastOld", "lastErr"} :
           rw' = [rw EXCEPT ![w] = r] /\ hand' = [hand EXCEPT ![w] = NoHand]
    BY <1>0, <1>5, Marked
  <2> QED BY <1>0, <2>1
<1>6. CASE Flushes
  BY <1>0, <1>6, FlushMoves DEF Leads
<1>7. CASE Lands \/ Losses
  BY <1>0, <1>7, Settled
<1> QED BY <1>1, <1>2, <1>3, <1>4, <1>5, <1>6, <1>7, Handlers

\* What is complete grows by what is marked.
LEMMA DoneKept ==
    ASSUME Typed, Session, [Next]_vars, rp' = rp, rp = "stream", ~Marks
    PROVE  UNCHANGED <<had, done>>
<1>0. MemTyped /\ DiskTyped /\ InOrder /\ Holding /\ CleanStart /\ OneFlush
  BY DEF Typed, Session
<1>1. CASE UNCHANGED vars \/ Sends \/ Notices \/ Waits \/ Checks \/ Writes
  BY <1>0, <1>1, Sent, Noticed, Waited, Checked, Wrote DEF vars, mem_vars, res_vars
<1>2. CASE Flushes \/ Resets
  BY <1>0, <1>2, FlushMoves, Reset
<1>3. CASE Lands \/ Losses
  BY <1>3, Settled
<1>4. CASE Commits \/ Returns \/ Manifests \/ RcvCrash
  BY <1>4, Committed, Returned, Came, Crashed
<1> QED BY <1>1, <1>2, <1>3, <1>4, Steps, Zenon

\* What is staged in this run is what the sender read in it, or was there before it.
LEMMA TakingStep ==
    ASSUME Typed, Session, Own, Taking, [Next]_vars
    PROVE  Taking'
<1>0. /\ MemTyped /\ DiskTyped /\ InOrder /\ Holding /\ CleanStart /\ OneFlush /\ Session'
      /\ stage \in Content /\ (\A c \in Chunks : stage[c] \in ByteSet) /\ hand \in [Workers -> Hand \cup {NoHand}]
      /\ done \subseteq Chunks
  BY SessionStep DEF Typed, Session, DiskTyped, Content, ByteSet, MemTyped
<1>a. rp \in {"confirm", "stream"} => ~SndStart
  BY StartIdle
<1>b. ASSUME rp \in {"confirm", "stream"}, rp' = rp, ~Writes, \A c \in Chunks : DueOwn(c, stage[c]), NEW c \in Chunks
      PROVE  DueNext(c, stage'[c]) /\ (Arrived(c, stage[c]) => ArrivedNext(c, stage'[c]))
  <2>1. astray \subseteq astray' /\ Wear(c, stage[c], stage'[c])
    BY <1>b, StageMoves
  <2>2. ~SndStart /\ DueOwn(c, stage[c]) /\ stage[c] \in ByteSet
    BY <1>0, <1>a, <1>b
  <2> QED BY <1>0, <2>1, <2>2, SoundKept
<1>1. ASSUME rp' = "confirm", NEW c \in Chunks PROVE DueNext(c, stage'[c])
  <2>1. CASE Manifests
    <3>1. stage' = Prepared /\ astray' = Late
      BY <1>1, <2>1 DEF Manifests, RcvAlreadyComplete, RcvFresh, RcvResume
    <3>2. stage'[c] = stage[c] \/ stage'[c].due = {}
      BY <3>1, Constant DEF Prepared
    <3> QED BY <3>1, <3>2 DEF Late, DueNext
  <2>2. CASE ~Manifests
    <3>1. rp = "confirm"
      <4>1. CASE UNCHANGED vars \/ Sends \/ Waits \/ Checks \/ Writes \/ Marks
        BY <1>0, <1>1, <4>1, Sent, Waited, Checked, Wrote, Marked DEF vars
      <4>2. CASE Notices
        BY <1>1, <4>2 DEF Notices, RcvStray, RcvAccept, RcvVerify, RcvRestart
      <4>3. CASE Flushes \/ Resets \/ Commits
        BY <1>0, <1>1, <4>3, FlushMoves, Reset, Committed
      <4>4. CASE Lands \/ Losses \/ Returns \/ RcvCrash
        BY <1>1, <4>4, Settled, Returned, Crashed
      <4> QED BY <2>2, <4>1, <4>2, <4>3, <4>4, Steps, Zenon
    <3>2. ~Writes /\ \A d \in Chunks : DueOwn(d, stage[d])
      BY <1>0, <3>1, Wrote DEF Taking
    <3> QED BY <1>1, <1>b, <3>1, <3>2
  <2> QED BY <2>1, <2>2
<1>2. ASSUME rp' = "stream", ~Excuse'
      PROVE  /\ \A c \in Chunks : DueNext(c, stage'[c])
             /\ \A c \in done' \ had' : ArrivedNext(c, stage'[c])
             /\ \A w \in Workers : rw'[w] = "mark" => ArrivedNext(hand'[w].c, stage'[hand'[w].c])
  <2>1. CASE rp # "stream"
    <3>1. RcvAccept /\ rp = "confirm" /\ NoStreams /\ done = had /\ UNCHANGED <<stage, astray, done, had, rw>>
      BY <1>2, <2>1, Accepted DEF mem_vars, res_vars, disk_vars
    <3>2. \A c \in Chunks : DueNext(c, stage'[c])
      <4> TAKE c \in Chunks
      <4>1. ~SndStart /\ DueOwn(c, stage[c]) /\ stage[c] \in ByteSet /\ Wear(c, stage[c], stage'[c]) /\ astray \subseteq astray'
        BY <1>0, <1>a, <3>1 DEF Taking, Wear
      <4> QED BY <1>0, <4>1, SoundKept
    <3> QED BY <3>1, <3>2 DEF NoStreams
  <2>2. CASE rp = "stream"
    <3>0. ~Excuse
      BY <1>2, <2>2, ExcuseKept
    <3>1. /\ \A c \in Chunks : DueOwn(c, stage[c])
          /\ \A c \in done \ had : Arrived(c, stage[c])
          /\ \A w \in Workers : rw[w] = "mark" => Arrived(hand[w].c, stage[hand[w].c])
      BY <2>2, <3>0 DEF Taking
    <3>2. CASE Writes
      <4>1. PICK w \in Workers, c \in Chunks, v \in Nat :
              /\ rw[w] = "write" /\ rw' = [rw EXCEPT ![w] = "mark"]
              /\ hand[w] \in Hand /\ hand[w].c = c /\ hand[w].v = v
              /\ stage' = [stage EXCEPT ![c] = [is |-> stage[c].is, due |-> stage[c].due \cup {v}]]
        BY <1>0, <3>2, Wrote
      <4>2. UNCHANGED <<hand, had, done, astray, src_vars, snd_vars>>
        BY <1>0, <3>2, Wrote, Apart
      <4>3. hand[w].next = "run"
        BY <3>0, <4>1 DEF Excuse, Hand
      <4>4. OwnNext(c, v)
        BY <4>1, <4>2, <4>3 DEF Own, IsOwn, OwnNext, src_vars, snd_vars
      <4> DEFINE y == [is |-> stage[c].is, due |-> stage[c].due \cup {v}]
      <4>5. y.is = stage[c].is /\ y.due = stage[c].due \cup {v}
        OBVIOUS
      <4> HIDE DEF y
      <4>6. stage'[c] = y /\ \A d \in Chunks : d # c => stage'[d] = stage[d]
        BY <1>0, <4>1 DEF y, Content
      <4>7. ASSUME NEW d \in Chunks
            PROVE  DueNext(d, stage[d]) /\ (Arrived(d, stage[d]) => ArrivedNext(d, stage[d]))
        <5>1. DueOwn(d, stage[d])
          BY <3>1
        <5> QED BY <4>2, <5>1 DEF DueOwn, DueNext, Arrived, ArrivedNext, IsOwn, OwnNext, src_vars, snd_vars
      <4>8. DueNext(c, stage'[c]) /\ ArrivedNext(c, stage'[c])
        <5>1. DueNext(c, stage[c])
          BY <4>7
        <5> QED BY <4>4, <4>5, <4>6, <5>1 DEF DueNext, ArrivedNext
      <4>9. \A d \in Chunks : DueNext(d, stage'[d]) /\ (Arrived(d, stage[d]) => ArrivedNext(d, stage'[d]))
        BY <4>6, <4>7, <4>8
      <4>10. \A x \in Workers : rw'[x] = "mark" => hand[x].c \in Chunks /\ (x = w \/ rw[x] = "mark")
        <5> SUFFICES ASSUME NEW x \in Workers, rw'[x] = "mark" PROVE hand[x].c \in Chunks /\ (x = w \/ rw[x] = "mark")
          OBVIOUS
        <5>1. hand'[x] \in Hand
          BY <1>0 DEF Session, Holding
        <5>2. hand[x].c \in Chunks
          BY <4>2, <5>1 DEF Hand
        <5>3. x = w \/ rw[x] = "mark"
          BY <1>0, <4>1 DEF MemTyped
        <5> QED BY <5>2, <5>3
      <4>11. \A d \in done' \ had' : d \in Chunks /\ Arrived(d, stage[d])
        BY <1>0, <3>1, <4>2
      <4>12. ASSUME NEW x \in Workers, rw'[x] = "mark" PROVE ArrivedNext(hand'[x].c, stage'[hand'[x].c])
        BY <3>1, <4>1, <4>2, <4>8, <4>9, <4>10, <4>12
      <4> QED BY <4>9, <4>11, <4>12
    <3>3. CASE ~Writes
      <4>1. \A c \in Chunks : DueNext(c, stage'[c]) /\ (Arrived(c, stage[c]) => ArrivedNext(c, stage'[c]))
        BY <1>2, <1>b, <2>2, <3>1, <3>3
      <4>2. ASSUME NEW x \in Workers, rw'[x] = "mark" PROVE ArrivedNext(hand'[x].c, stage'[hand'[x].c])
        <5>1. rw[x] = "mark" /\ hand'[x] = hand[x]
          BY <1>2, <2>2, <3>3, <4>2, MarkKept
        <5>2. hand[x].c \in Chunks
          BY <1>0, <5>1 DEF Holding, Hand
        <5> QED BY <3>1, <4>1, <5>1, <5>2
      <4>3. ASSUME NEW c \in done' \ had' PROVE c \in Chunks /\ Arrived(c, stage[c])
        <5>1. CASE Marks
          <6>1. PICK w \in Workers, d \in Chunks : rw[w] = "mark" /\ hand[w].c = d /\ done' = done \cup {d}
            BY <1>0, <5>1, Marked
          <6>2. had' = had
            BY <1>0, <5>1, Marked
          <6> QED BY <1>0, <3>1, <6>1, <6>2
        <5>2. CASE ~Marks
          BY <1>0, <1>2, <2>2, <3>1, <5>2, DoneKept
        <5> QED BY <5>1, <5>2
      <4> QED BY <4>1, <4>2, <4>3
    <3> QED BY <3>2, <3>3
  <2> QED BY <2>1, <2>2
<1>3. (\A w \in Workers : rw[w] = "mark" => Arrived(hand[w].c, stage[hand[w].c]))'
         <=> \A w \in Workers : rw'[w] = "mark" => ArrivedNext(hand'[w].c, stage'[hand'[w].c])
  BY DEF Arrived, ArrivedNext, IsOwn, OwnNext
<1>4. (\A c \in Chunks : DueOwn(c, stage[c]))' <=> \A c \in Chunks : DueNext(c, stage'[c])
  BY DEF DueOwn, DueNext, IsOwn, OwnNext
<1>5. (\A c \in done \ had : Arrived(c, stage[c]))' <=> \A c \in done' \ had' : ArrivedNext(c, stage'[c])
  BY DEF Arrived, ArrivedNext, IsOwn, OwnNext
<1> QED BY <1>1, <1>2, <1>3, <1>4, <1>5 DEF Taking

-----------------------------------------------------------------------------
\* What verify_summary lets through is there and is the sender's.
LEMMA Verified ==
    ASSUME Typed, Session, Count, Staging, Taking, RcvVerify, NEW c \in Chunks
    PROVE  stage[c].is # None /\ Sound(c, stage[c])
<1>0. FileOf[c] \in Files /\ SameManifest
  BY ChunkAssumption DEF Session
<1>1. rp = "stream" /\ HasSummary /\ Mismatched = {}
  BY DEF RcvVerify
<1>2. ~Excuse /\ \A f \in Files : AllFresh(f) => ChunksOf(f) \subseteq done \ had
  BY <1>1, Summed
<1>3. stage[c].is # None /\ DueOwn(c, stage[c])
  BY <1>1, <1>2 DEF Staging, Taking
<1>4. CASE AllFresh(FileOf[c])
  <2>1. c \in done \ had
    BY <1>0, <1>2, <1>4 DEF ChunksOf
  <2> QED BY <1>1, <1>2, <1>3, <2>1 DEF Taking, Sound
<1>5. CASE ~AllFresh(FileOf[c])
  <2>1. stage[c].is = rman[FileOf[c]]
    BY <1>0, <1>1, <1>5 DEF Mismatched, ChunksOf
  <2>2. rman = man
    BY <1>0, <1>1 DEF SameManifest, Idle
  <2>3. IsOwn(c, stage[c].is)
    BY <2>1, <2>2 DEF IsOwn
  <2> QED BY <1>3, <2>3 DEF Sound, Arrived
<1> QED BY <1>4, <1>5

\* The parts of Commit after a step.
SoundNext(c, y) == DueNext(c, y) /\ ArrivedNext(c, y)
CommitNow(c, at) ==
    IF stage'[c].is = None THEN dest'[at][c].is # None /\ SoundNext(c, dest'[at][c]) ELSE SoundNext(c, stage'[c])

\* Commit holds again when these do.
LEMMA CommitAgain ==
    ASSUME UNCHANGED multi,
           Committing' => \A c \in Chunks : \E at : at = Place(c)' /\ CommitNow(c, at),
           Committing' => \A n \in Targets : \A c, d \in Within(n) : stage'[c].is = None => stage'[d].is = None,
           rp' = "swap" => /\ final' \in Targets /\ dest'[final'] = Absent
                           /\ \A c \in Within(final') : stage'[c].is # None,
           rp' = "backup" => final' \in Targets /\ Good(dest'[final'], final')
    PROVE  Commit'
<1>1. Targets' = Targets
  BY DEF Targets
<1>2. ASSUME Committing', NEW c \in Chunks
      PROVE  (IF stage[c].is = None THEN dest[Place(c)][c].is # None /\ Sound(c, dest[Place(c)][c])
              ELSE Sound(c, stage[c]))'
  <2>1. CommitNow(c, Place(c)')
    BY <1>2
  <2> QED BY <2>1 DEF CommitNow, SoundNext, Sound, DueNext, DueOwn, ArrivedNext, Arrived, OwnNext, IsOwn
<1>3. Good(dest'[final'], final') <=> Good(dest[final], final)'
  BY DEF Good, Whole
<1> QED BY <1>1, <1>2, <1>3 DEF Commit

\* Names are names.
LEMMA PlaceNamed ==
    ASSUME Typed, NEW c \in Chunks
    PROVE  /\ Place(c) \in Names /\ FileOf[c] \in Files
           /\ \A n \in Targets : (~multi => n = final) => (c \in Within(n) <=> Place(c) = n)
<1>1. FileOf[c] \in Files /\ final \in Names /\ multi \in BOOLEAN
  BY ChunkAssumption DEF Typed, MemTyped
<1>2. Place(c) \in Names
  BY <1>1 DEF Place, Names
<1>3. ASSUME NEW n \in Targets, ~multi => n = final PROVE c \in Within(n) <=> Place(c) = n
  <2>1. CASE multi
    BY <2>1, TargetWithin DEF Place
  <2>2. CASE ~multi
    BY <1>3, <2>2, TargetWithin DEF Place
  <2> QED BY <2>1, <2>2
<1> QED BY <1>1, <1>2, <1>3

\* While nothing is moved, what is there wears.
LEMMA CommitWears ==
    ASSUME Typed, Session, Shelf, Staging, Commit, [Next]_vars, UNCHANGED <<rp, final>>, astray \subseteq astray',
           \A c \in Chunks : Wear(c, stage[c], stage'[c]),
           \A n \in Names : dest'[n] \in Content /\ \A c \in Chunks : Wear(c, dest[n][c], dest'[n][c])
    PROVE  Commit'
<1>0. /\ UNCHANGED multi /\ InOrder /\ stage \in Content /\ dest \in [Names -> Content]
      /\ \A x \in Content : \A c \in Chunks : x[c] \in ByteSet
  BY Config DEF Session, Typed, DiskTyped, Content, ByteSet
<1>1. CASE ~Committing
  BY <1>1 DEF Commit, Committing
<1>2. CASE Committing
  <2>0. ~SndStart /\ Committing'
    BY <1>2, StartIdle DEF Committing
  <2>1. \A c \in Chunks : stage'[c].is = None <=> stage[c].is = None
    <3> TAKE c \in Chunks
    <3>1. stage[c].is = None => stage[c].due = {}
      BY DEF Staging, NoGhost
    <3>2. stage[c] \in ByteSet /\ Wear(c, stage[c], stage'[c])
      BY <1>0
    <3>3. /\ (stage'[c].is = None <=> stage[c].is = None) /\ (stage'[c].is = None => stage'[c].due = {})
          /\ (stage[c].due = {} => stage'[c] = stage[c])
      BY <3>1, <3>2, WearIs
    <3> QED BY <3>3
  <2>2. ASSUME NEW n \in Names, NEW c \in Chunks
        PROVE  /\ dest[n][c] \in ByteSet /\ Wear(c, dest[n][c], dest'[n][c])
               /\ dest[n][c].is # None => dest'[n][c].is # None
    <3>1. dest[n] \in Content /\ dest[n][c] \in ByteSet /\ Wear(c, dest[n][c], dest'[n][c])
      BY <1>0
    <3>2. Kind(dest[n], n) /\ dest[n] \in Content /\ dest'[n] \in Content /\ \A d \in Chunks : Wear(d, dest[n][d], dest'[n][d])
      BY <1>0 DEF Shelf
    <3>3. \A d \in Chunks : dest[n][d].is # None => dest'[n][d].is # None
      BY <3>2, KindKept
    <3> QED BY <3>1, <3>3
  <2>3. ASSUME NEW c \in Chunks, NEW x \in ByteSet, NEW y, Wear(c, x, y), Sound(c, x) PROVE SoundNext(c, y)
    <3>1. DueOwn(c, x) /\ Arrived(c, x)
      BY <2>3 DEF Sound
    <3>2. DueNext(c, y) /\ ArrivedNext(c, y)
      BY <1>0, <2>0, <2>3, <3>1, SoundKept
    <3> QED BY <3>2 DEF SoundNext
  <2>4. ASSUME NEW c \in Chunks PROVE CommitNow(c, Place(c)) /\ Place(c)' = Place(c)
    <3>1. Place(c)' = Place(c) /\ Place(c) \in Names
      BY <1>0, PlaceNamed DEF Place
    <3>2. CASE stage[c].is = None
      <4>1. dest[Place(c)][c].is # None /\ Sound(c, dest[Place(c)][c])
        BY <1>2, <3>2 DEF Commit
      <4>2. dest'[Place(c)][c].is # None /\ SoundNext(c, dest'[Place(c)][c])
        BY <2>2, <2>3, <3>1, <4>1
      <4> QED BY <2>1, <3>1, <3>2, <4>2 DEF CommitNow
    <3>3. CASE stage[c].is # None
      <4>1. Sound(c, stage[c]) /\ stage[c] \in ByteSet /\ Wear(c, stage[c], stage'[c])
        BY <1>0, <1>2, <3>3 DEF Commit
      <4>2. SoundNext(c, stage'[c])
        BY <2>3, <4>1
      <4> QED BY <2>1, <3>1, <3>3, <4>2 DEF CommitNow
    <3> QED BY <3>2, <3>3
  <2>5. \A n : Within(n) \subseteq Chunks
    BY DEF Within
  <2>6. \A n \in Targets : \A c, d \in Within(n) : stage'[c].is = None => stage'[d].is = None
    BY <1>2, <2>1, <2>5 DEF Commit
  <2>7. ASSUME NEW n \in Targets
        PROVE  (dest[n] = Absent => dest'[n] = Absent) /\ (Good(dest[n], n) => Good(dest'[n], n))
    <3>1. n \in Names
      BY TargetWithin
    <3>2. Kind(dest[n], n) /\ dest[n] \in Content /\ dest'[n] \in Content /\ \A c \in Chunks : Wear(c, dest[n][c], dest'[n][c])
      BY <1>0, <3>1 DEF Shelf
    <3> QED BY <3>2, KindKept
  <2>8. rp' = "swap" => final' \in Targets /\ dest'[final'] = Absent /\ \A c \in Within(final') : stage'[c].is # None
    BY <2>1, <2>5, <2>7 DEF Commit
  <2>9. rp' = "backup" => final' \in Targets /\ Good(dest'[final'], final')
    BY <2>7 DEF Commit
  <2>10. \A c \in Chunks : \E at : at = Place(c)' /\ CommitNow(c, at)
    BY <2>4
  <2> QED BY <1>0, <2>6, <2>8, <2>9, <2>10, CommitAgain
<1> QED BY <1>1, <1>2

\* What is to be moved is all there.
LEMMA Movable ==
    ASSUME Typed, Staging, Commit, rp = "commit", NEW n \in Targets, n \in ToMove
    PROVE  (~multi => n = final) /\ \A c \in Within(n) : stage[c].is # None
<1>1. ~multi => n = final
  BY DEF ToMove
<1>2. \E d \in Within(n) : stage[d].is # None
  <2>1. CASE multi
    BY <2>1 DEF ToMove
  <2>2. CASE ~multi
    <3>1. stage # Absent /\ Within(n) = Chunks /\ DiskTyped
      BY <2>2, TargetWithin DEF ToMove, Typed
    <3> QED BY <3>1, StageHolds
  <2> QED BY <2>1, <2>2
<1>3. Committing
  BY DEF Committing
<1> QED BY <1>1, <1>2, <1>3, StillStaged

\* A rename into place moves what was verified.
LEMMA CommitPuts ==
    ASSUME Typed, Session, Commit, [Next]_vars, NEW n \in Targets, Puts(n), rp' = "commit" \/ (rp' = "backup" /\ n = final)
    PROVE  Commit'
<1>0. /\ UNCHANGED <<multi, final, astray, man, torn, src>> /\ Committing /\ dest \in [Names -> Content] /\ n \in Names
      /\ dest' = [dest EXCEPT ![n] = Staged(n)] /\ stage' = Moved(n) /\ (~multi => n = final)
      /\ Good(Staged(n), n)
  BY TargetWithin DEF Puts, src_vars, snd_vars, Typed, DiskTyped
<1>1. \A c \in Within(n) : stage[c].is # None /\ Sound(c, stage[c])
  BY DEF Puts
<1>2. \A c \in Chunks : stage'[c] = IF c \in Within(n) THEN Bytes(None) ELSE stage[c]
  BY <1>0 DEF Moved
<1>3. dest'[n] = Staged(n) /\ \A m \in Names : m # n => dest'[m] = dest[m]
  BY <1>0
<1>4. \A c, x : Sound(c, x) => SoundNext(c, x)
  BY <1>0 DEF Sound, SoundNext, DueOwn, DueNext, Arrived, ArrivedNext, IsOwn, OwnNext
<1>5. ASSUME NEW c \in Chunks PROVE CommitNow(c, Place(c)) /\ Place(c)' = Place(c)
  <2>0. Place(c)' = Place(c) /\ Place(c) \in Names /\ (c \in Within(n) <=> Place(c) = n)
    BY <1>0, PlaceNamed DEF Place
  <2>1. CASE c \in Within(n)
    <3>1. stage'[c].is = None /\ dest'[n][c] = stage[c]
      BY <1>2, <1>3, <2>1, Constant DEF Staged
    <3>2. stage[c].is # None /\ SoundNext(c, stage[c])
      BY <1>1, <1>4, <2>1
    <3> QED BY <2>0, <2>1, <3>1, <3>2 DEF CommitNow
  <2>2. CASE c \notin Within(n)
    <3>1. stage'[c] = stage[c] /\ dest'[Place(c)] = dest[Place(c)]
      BY <1>2, <1>3, <2>0, <2>2
    <3>2. IF stage[c].is = None THEN dest[Place(c)][c].is # None /\ Sound(c, dest[Place(c)][c]) ELSE Sound(c, stage[c])
      BY <1>0 DEF Commit
    <3>3. IF stage[c].is = None THEN dest[Place(c)][c].is # None /\ SoundNext(c, dest[Place(c)][c])
          ELSE SoundNext(c, stage[c])
      BY <1>4, <3>2
    <3> QED BY <2>0, <3>1, <3>3 DEF CommitNow
  <2> QED BY <2>1, <2>2
<1>6. ASSUME NEW m \in Targets, NEW c \in Within(m), NEW d \in Within(m), stage'[c].is = None PROVE stage'[d].is = None
  <2>1. c \in Chunks /\ d \in Chunks
    BY DEF Within
  <2>2. c \in Within(n) <=> d \in Within(n)
    BY <2>1, TargetWithin DEF Typed
  <2>3. stage[c].is = None => stage[d].is = None
    BY <1>0 DEF Commit
  <2> QED BY <1>2, <1>6, <2>1, <2>2, <2>3, Constant
<1>7. rp' = "backup" => final' \in Targets /\ Good(dest'[final'], final')
  BY <1>0, <1>3
<1>8. \A c \in Chunks : \E at : at = Place(c)' /\ CommitNow(c, at)
  BY <1>5
<1>9. rp' # "swap"
  OBVIOUS
<1> QED BY <1>0, <1>6, <1>7, <1>8, <1>9, CommitAgain

\* A commit moves what was verified, name by name.
LEMMA CommitStep ==
    ASSUME Typed, Session, Count, Shelf, Staging, Taking, Commit, [Next]_vars
    PROVE  Commit'
<1>0. /\ UNCHANGED <<policy, multi>> /\ MemTyped /\ DiskTyped /\ InOrder /\ Holding /\ CleanStart /\ OneFlush
      /\ dest \in [Names -> Content] /\ \A c \in Chunks : FileOf[c] \in Files
  BY Config, ChunkAssumption DEF Session, Typed, DiskTyped
<1>b. \A n : Within(n) \subseteq Chunks
  BY DEF Within
<1>q. CASE UNCHANGED <<rp, final, stage, dest, astray>>
  <2>1. \A c \in Chunks : Wear(c, stage[c], stage'[c])
    BY <1>q DEF Wear
  <2>2. \A n \in Names : dest'[n] \in Content /\ \A c \in Chunks : Wear(c, dest[n][c], dest'[n][c])
    BY <1>0, <1>q DEF Wear
  <2> QED BY <1>q, <2>1, <2>2, CommitWears
<1>n. CASE rp' \notin {"commit", "swap", "backup"}
  BY <1>n DEF Commit, Committing
<1>1. CASE UNCHANGED vars \/ Sends
  BY <1>1, <1>q, Sent DEF vars, mem_vars, disk_vars
<1>2. CASE Notices
  <2>1. CASE RcvVerify
    <3>1. \A c \in Chunks : stage[c].is # None /\ Sound(c, stage[c])
      BY <2>1, Verified
    <3>2. UNCHANGED <<stage, astray, man, torn, src>> /\ rp' = "commit"
      BY <2>1 DEF RcvVerify, disk_vars, snd_vars, src_vars
    <3>3. \A c, x : Sound(c, x) => SoundNext(c, x)
      BY <3>2 DEF Sound, SoundNext, DueOwn, DueNext, Arrived, ArrivedNext, IsOwn, OwnNext
    <3>4. \A c \in Chunks : stage'[c].is # None /\ SoundNext(c, stage'[c])
      BY <3>1, <3>2, <3>3
    <3>5. \A c \in Chunks : \E at : at = Place(c)' /\ CommitNow(c, at)
      BY <3>4 DEF CommitNow
    <3>6. \A n \in Targets : \A c, d \in Within(n) : stage'[c].is = None => stage'[d].is = None
      BY <1>b, <3>4
    <3> QED BY <1>0, <3>2, <3>5, <3>6, CommitAgain
  <2>2. CASE RcvStray \/ RcvAccept \/ RcvRestart
    BY <1>n, <2>2 DEF RcvStray, RcvAccept, RcvRestart
  <2> QED BY <1>2, <2>1, <2>2 DEF Notices
<1>3. CASE Waits \/ Checks \/ Writes \/ Marks \/ Manifests \/ Returns \/ RcvCrash
  BY <1>0, <1>3, <1>n, Waited, Checked, Wrote, Marked, Came, Returned, Crashed
<1>4. CASE Flushes \/ Resets
  BY <1>0, <1>4, <1>n, FlushMoves, Reset
<1>5. CASE Lands \/ Losses
  <2>1. /\ UNCHANGED <<rp, final>> /\ astray \subseteq astray'
        /\ \A c \in Chunks : Wear(c, stage[c], stage'[c])
        /\ \A n \in Names : dest'[n] \in Content /\ \A c \in Chunks : Wear(c, dest[n][c], dest'[n][c])
    BY <1>0, <1>5, Settled, Wears
  <2> QED BY <2>1, CommitWears
<1>6. CASE \E n \in Targets : CommitPlace(n) \/ (CommitSwap /\ n = final)
  <2>1. PICK n \in Targets : CommitPlace(n) \/ (CommitSwap /\ n = final)
    BY <1>6
  <2>2. Puts(n)
    BY <2>1, PutStep
  <2>3. rp' = "commit" \/ (rp' = "backup" /\ n = final)
    BY <2>1 DEF CommitPlace, CommitSwap
  <2> QED BY <2>2, <2>3, CommitPuts
<1>7. CASE \E n \in Targets : CommitBackup(n)
  <2>1. PICK n \in Targets : CommitBackup(n)
    BY <1>7
  <2>2. /\ dest' = [dest EXCEPT ![n] = Absent] /\ rp = "commit" /\ rp' = "swap" /\ final' = n /\ n \in ToMove
        /\ UNCHANGED <<stage, man, torn, src, astray>>
    BY <2>1 DEF CommitBackup, snd_vars, src_vars
  <2>3. (~multi => n = final) /\ \A c \in Within(n) : stage[c].is # None
    BY <2>2, Movable
  <2>4. dest'[n] = Absent /\ \A m \in Names : m # n => dest'[m] = dest[m]
    BY <1>0, <2>2, TargetWithin
  <2>a. \A c, x : Sound(c, x) => SoundNext(c, x)
    BY <2>2 DEF Sound, SoundNext, DueOwn, DueNext, Arrived, ArrivedNext, IsOwn, OwnNext
  <2>5. ASSUME NEW c \in Chunks PROVE CommitNow(c, Place(c)) /\ Place(c)' = Place(c)
    <3>1. Place(c)' = Place(c) /\ Place(c) \in Names /\ (c \in Within(n) <=> Place(c) = n)
      BY <1>0, <2>2, <2>3, PlaceNamed DEF Place
    <3>2. IF stage[c].is = None THEN dest[Place(c)][c].is # None /\ Sound(c, dest[Place(c)][c]) ELSE Sound(c, stage[c])
      BY <2>2 DEF Commit, Committing
    <3>3. stage[c].is = None => dest'[Place(c)] = dest[Place(c)]
      BY <2>3, <2>4, <3>1
    <3> QED BY <2>2, <2>a, <3>1, <3>2, <3>3 DEF CommitNow
  <2>6. \A m \in Targets : \A c, d \in Within(m) : stage'[c].is = None => stage'[d].is = None
    BY <2>2 DEF Commit, Committing
  <2>7. \A c \in Chunks : \E at : at = Place(c)' /\ CommitNow(c, at)
    BY <2>5
  <2> QED BY <1>0, <2>2, <2>3, <2>4, <2>6, <2>7, CommitAgain
<1>8. CASE CommitRemoveBackup
  <2>1. UNCHANGED <<final, stage, dest, man, torn, src, astray>> /\ rp = "backup" /\ rp' = "commit"
    BY <1>8 DEF CommitRemoveBackup, mem_vars, snd_vars, src_vars
  <2>2. \A c, x : Sound(c, x) => SoundNext(c, x)
    BY <2>1 DEF Sound, SoundNext, DueOwn, DueNext, Arrived, ArrivedNext, IsOwn, OwnNext
  <2>3. ASSUME NEW c \in Chunks PROVE CommitNow(c, Place(c)) /\ Place(c)' = Place(c)
    <3>1. Place(c)' = Place(c)
      BY <1>0, <2>1 DEF Place
    <3>2. IF stage[c].is = None THEN dest[Place(c)][c].is # None /\ Sound(c, dest[Place(c)][c]) ELSE Sound(c, stage[c])
      BY <2>1 DEF Commit, Committing
    <3> QED BY <2>1, <2>2, <3>1, <3>2 DEF CommitNow
  <2>4. \A m \in Targets : \A c, d \in Within(m) : stage'[c].is = None => stage'[d].is = None
    BY <2>1 DEF Commit, Committing
  <2>5. \A c \in Chunks : \E at : at = Place(c)' /\ CommitNow(c, at)
    BY <2>3
  <2> QED BY <1>0, <2>1, <2>4, <2>5, CommitAgain
<1>9. CASE CommitClean
  BY <1>9, <1>n DEF CommitClean
<1>10. CASE Commits
  <2>1. CommitSwap => final \in Targets
    BY DEF CommitSwap, Commit
  <2> QED BY <1>6, <1>7, <1>8, <1>9, <1>10, <2>1, Zenon DEF Commits
<1> QED BY <1>1, <1>2, <1>3, <1>4, <1>5, <1>10, Steps, Zenon

-----------------------------------------------------------------------------
\* What was delivered stays, until the next sender.
LEMMA DeliveredKept ==
    ASSUME Typed, InOrder, [Next]_vars, ~SndStart, Delivered, astray \subseteq astray',
           \A n \in Names, c \in Chunks : Wear(c, dest[n][c], dest'[n][c])
    PROVE  Delivered'
<1>1. multi' = multi /\ \A n \in Names : dest[n] \in Content
  BY Config DEF Typed, DiskTyped
<1>2. ASSUME NEW n \in Names, Here(n) PROVE Here(n)'
  <2>1. ASSUME NEW c \in Within(n) PROVE SoundNext(c, dest'[n][c])
    <3>1. c \in Chunks /\ dest[n][c] \in ByteSet /\ Wear(c, dest[n][c], dest'[n][c])
      BY <1>1 DEF Within, Content, ByteSet
    <3>2. DueOwn(c, dest[n][c]) /\ Arrived(c, dest[n][c])
      BY <1>2 DEF Here, Sound
    <3>3. DueNext(c, dest'[n][c]) /\ (Arrived(c, dest[n][c]) => ArrivedNext(c, dest'[n][c]))
      BY <3>1, <3>2, SoundKept
    <3> QED BY <3>2, <3>3 DEF SoundNext
  <2> QED BY <2>1 DEF Here, Sound, SoundNext, DueOwn, DueNext, Arrived, ArrivedNext, IsOwn, OwnNext
<1>3. \A n \in Files \cup Singles : n \in Names
  BY DEF Names, Singles
<1>4. CASE multi
  <2>1. \A f \in Files : Here(f)'
    BY <1>2, <1>3, <1>4 DEF Delivered
  <2> QED BY <1>1, <1>4, <2>1 DEF Delivered
<1>5. CASE ~multi
  <2>1. PICK n \in Singles : Here(n)
    BY <1>5 DEF Delivered
  <2>2. Here(n)'
    BY <1>2, <1>3, <2>1
  <2> QED BY <1>1, <1>5, <2>2 DEF Delivered
<1> QED BY <1>4, <1>5

\* The content is found in place ...
LEMMA ContentFound == ASSUME Typed, Session, RcvAlreadyComplete PROVE Delivered'
<1>0. /\ UNCHANGED <<multi, man, torn, src, dest>> /\ astray' = Late /\ SameManifest
  BY DEF Session, RcvAlreadyComplete, src_vars, snd_vars
<1>1. Manifest = man
  <2>1. toR # <<>> /\ toR \in Seq(ToRcv)
    BY DEF RcvAlreadyComplete, HasManifest, Typed, NetTyped
  <2>2. Head(toR) = toR[1] /\ 1 \in 1 .. Len(toR)
    BY <2>1
  <2> QED BY <1>0, <2>2 DEF SameManifest, Manifest
<1>2. Satisfied(man)
  BY <1>1 DEF RcvAlreadyComplete
<1>3. ASSUME NEW n \in Names, NEW c \in Chunks, dest[n][c].is = man[FileOf[c]] PROVE SoundNext(c, dest'[n][c])
  <2>1. dest'[n][c].due # {} => c \in astray'
    BY <1>0 DEF Late
  <2>2. OwnNext(c, dest'[n][c].is)
    BY <1>0, <1>3 DEF OwnNext
  <2> QED BY <2>1, <2>2 DEF SoundNext, DueNext, ArrivedNext
<1>4. \A n \in Names : (\A c \in Within(n) : SoundNext(c, dest'[n][c])) => Here(n)'
  BY DEF Here, Sound, SoundNext, DueOwn, DueNext, Arrived, ArrivedNext, IsOwn, OwnNext
<1>5. CASE multi
  <2>1. ASSUME NEW f \in Files PROVE Here(f)'
    <3>1. f \in Names /\ \A c \in Within(f) : c \in Chunks /\ FileOf[c] = f
      BY DEF Names, Within
    <3>2. \A c \in Within(f) : dest[f][c].is = man[FileOf[c]]
      BY <1>2, <1>5, <3>1 DEF Satisfied
    <3> QED BY <1>3, <1>4, <3>1, <3>2
  <2> QED BY <1>0, <1>5, <2>1 DEF Delivered
<1>6. CASE ~multi
  <2>1. "root" \in Names /\ "root" \in Singles /\ Within("root") \subseteq Chunks
    BY DEF Names, Singles, Within
  <2>2. \A c \in Within("root") : dest["root"][c].is = man[FileOf[c]]
    BY <1>2, <1>6, <2>1 DEF Satisfied
  <2>3. Here("root")'
    BY <1>3, <1>4, <2>1, <2>2
  <2> QED BY <1>0, <1>6, <2>1, <2>3 DEF Delivered
<1> QED BY <1>5, <1>6

\* ... or has just been put there.
LEMMA ContentPut == ASSUME Typed, FinalIsFree, Commit, CommitClean PROVE Delivered'
<1>0. /\ UNCHANGED <<multi, man, torn, src, dest, astray>> /\ ToMove = {} /\ Committing
      /\ \A c \in Chunks : FileOf[c] \in Files
  BY ChunkAssumption DEF CommitClean, Committing, src_vars, snd_vars
<1>1. \A n : Within(n) \subseteq Chunks
  BY DEF Within
<1>2. \A n \in Files : \A c \in Within(n) : FileOf[c] = n
  BY DEF Within
<1> SUFFICES Delivered
  BY <1>0 DEF Delivered, Here, Sound, DueOwn, Arrived, IsOwn
<1>3. \A c \in Chunks : stage[c].is = None
  <2>1. CASE multi
    <3>1. \A c \in Chunks : c \in Within(FileOf[c])
      BY <1>0 DEF Within
    <3> QED BY <1>0, <2>1, <3>1 DEF ToMove
  <2>2. CASE ~multi
    BY <1>0, <2>2, Constant DEF ToMove, Absent
  <2> QED BY <2>1, <2>2
<1>4. \A c \in Chunks : Sound(c, dest[Place(c)][c])
  BY <1>0, <1>3 DEF Commit
<1> QED BY <1>1, <1>2, <1>4 DEF Delivered, Here, Place, FinalIsFree

\* When the content is known to be in place.
LEMMA Knows ==
    ASSUME Typed, Session, [Next]_vars, rp' \in {"ack", "recheck"}
    PROVE  \/ RcvAlreadyComplete \/ CommitClean
           \/ rp' = rp /\ (UNCHANGED <<dest, astray>> \/ Lands \/ Losses)
<1>0. MemTyped /\ InOrder /\ Holding /\ CleanStart /\ OneFlush
  BY DEF Typed, Session
<1>1. CASE UNCHANGED vars \/ Sends \/ Waits \/ Checks \/ Writes \/ Marks
  BY <1>0, <1>1, Sent, Waited, Checked, Wrote, Marked DEF vars, disk_vars
<1>2. CASE Notices
  BY <1>2 DEF Notices, RcvStray, RcvVerify, RcvRestart, RcvAccept
<1>3. CASE Flushes \/ Resets
  BY <1>0, <1>3, FlushMoves, Reset
<1>4. CASE Commits
  BY <1>4 DEF Commits, CommitPlace, CommitBackup, CommitSwap, CommitRemoveBackup
<1>5. CASE Returns \/ RcvCrash
  BY <1>5, Returned, Crashed
<1>6. CASE Manifests
  BY <1>6 DEF Manifests, RcvFresh, RcvResume
<1>7. CASE Lands \/ Losses
  BY <1>7, Settled
<1> QED BY <1>1, <1>2, <1>3, <1>4, <1>5, <1>6, <1>7, Steps, Zenon

ToldOk == sp = "ok" \/ \E i \in 1 .. Len(toS) : toS[i].k = "completed"

\* Who tells the sender that it is complete.
LEMMA Tells ==
    ASSUME Typed, InOrder, [Next]_vars, ~ToldOk, ToldOk'
    PROVE  RcvRecheck \/ RcvCompleted
<1>0. toS \in Seq(ToSnd) /\ done \subseteq Chunks
  BY DEF Typed, NetTyped, MemTyped
<1>a. sp # "ok" /\ \A i \in 1 .. Len(toS) : toS[i].k # "completed"
  BY DEF ToldOk
<1>1. sp' # "ok"
  <2>1. CASE SndCompleted
    <3>1. toS # <<>> /\ Head(toS).k = "completed"
      BY <2>1 DEF SndCompleted
    <3>2. Head(toS) = toS[1] /\ 1 \in 1 .. Len(toS)
      BY <1>0, <3>1
    <3> QED BY <1>a, <3>1, <3>2
  <2>2. CASE Sends /\ ~SndCompleted
    BY <1>a, <2>2 DEF Sends, SndStart, SndAccepted, SndFails, SndDie, SndChunk, SndWorkerDone, SndWorkerComplete,
       SndEnd, Edit, snd_vars
  <2>3. CASE UNCHANGED snd_vars
    BY <1>a, <2>3 DEF snd_vars
  <2> QED BY <2>1, <2>2, <2>3, SenderOnly
<1>2. PICK i \in 1 .. Len(toS') : toS'[i].k = "completed"
  BY <1>1 DEF ToldOk
<1>b. ASSUME NEW e, e.k # "completed" PROVE toS' # Append(toS, e)
  BY <1>0, <1>a, <1>2, <1>b
<1>3. toS' # toS /\ toS' # <<>> /\ ~(toS # <<>> /\ toS' = Tail(toS))
  <2>1. toS' # toS /\ toS' # <<>>
    BY <1>a, <1>2
  <2>2. ~(toS # <<>> /\ toS' = Tail(toS))
    <3> SUFFICES ASSUME toS # <<>>, toS' = Tail(toS) PROVE FALSE
      OBVIOUS
    <3>1. toS'[i] = toS[i + 1] /\ i + 1 \in 1 .. Len(toS)
      BY <1>0
    <3> QED BY <1>a, <1>2, <3>1
  <2> QED BY <2>1, <2>2
<1>4. toS' # Append(toS, [k |-> "accepted", done |-> Chunks]) /\ toS' # Append(toS, [k |-> "accepted", done |-> done])
  <2>1. [k |-> "accepted", done |-> Chunks].k # "completed" /\ [k |-> "accepted", done |-> done].k # "completed"
    OBVIOUS
  <2> QED BY <2>1, <1>b, Zenon
<1>5. toS' # Append(toS, Error)
  <2>1. Error.k # "completed"
    BY DEF Error
  <2> QED BY <2>1, <1>b
<1>6. Returns
  BY <1>3, <1>4, ToSndStep, Zenon
<1>7. ASSUME RcvReturn(Error) PROVE FALSE
  BY <1>3, <1>5, <1>7 DEF RcvReturn
<1> QED BY <1>6, <1>7, Zenon DEF Returns, RcvRefuse, RcvReject, RcvFails, CommitRollback, CommitRefuse

\* Once it is told, nobody touches the destination before the next sender starts.
LEMMA Quiet ==
    ASSUME Typed, Session, [Next]_vars, ~SndStart, Idle, toR = <<>>, ~up
    PROVE  Idle' /\ toR' = <<>> /\ ~up' /\ (UNCHANGED <<dest, astray>> \/ Lands \/ Losses \/ RcvCrash)
<1>0. MemTyped /\ InOrder /\ Holding /\ CleanStart /\ OneFlush
  BY DEF Typed, Session
<1>1. CASE Sends
  <2>1. UNCHANGED <<rp, dest, astray>>
    BY <1>1, Sent DEF disk_vars
  <2>2. toR' = <<>>
    BY <1>1, Zenon DEF Sends, SndAccepted, SndCompleted, SndFails, SndDie, SndChunk, SndWorkerDone,
       SndWorkerComplete, Edit, SummaryTo, net_vars
  <2>3. ~up'
    BY <1>1, Zenon DEF Sends, SndAccepted, SndCompleted, SndFails, SndDie, SndChunk, SndWorkerDone,
       SndWorkerComplete, Edit, SndEnd, net_vars
  <2> QED BY <2>1, <2>2, <2>3 DEF Idle
<1>2. CASE RcvStray \/ RcvRestart
  BY <1>2 DEF RcvStray, RcvRestart, Idle, net_vars, disk_vars
<1>3. CASE RcvCrash
  BY <1>3, Crashed DEF Idle
<1>4. CASE UNCHANGED vars
  BY <1>4 DEF vars, Idle, net_vars, disk_vars
<1>5. CASE RcvAccept \/ RcvVerify \/ Waits \/ Checks \/ Writes \/ Marks
  BY <1>0, <1>5, Waited, Checked, Wrote, Marked DEF RcvAccept, RcvVerify, Idle
<1>6. CASE Flushes \/ Resets \/ Commits
  BY <1>0, <1>6, FlushMoves, Reset, Committed DEF Idle
<1>7. CASE Manifests
  BY <1>7, Came
<1>8. CASE Returns
  BY <1>8 DEF Returns, RcvRefuse, RcvReject, RcvFails, RcvRecheck, RcvCompleted, CommitRollback,
     CommitRefuse, HasManifest, Idle
<1>9. CASE Lands \/ Losses
  <2>1. UNCHANGED <<rp, toR, up>>
    BY <1>9, Settled, Apart DEF net_vars
  <2> QED BY <1>9, <2>1 DEF Idle
<1> QED BY <1>1, <1>2, <1>3, <1>4, <1>5, <1>6, <1>7, <1>8, <1>9, Steps, Zenon DEF Notices

\* Completed is sent, and believed, only for what is delivered.
LEMMA DeliverStep ==
    ASSUME Typed, Session, FinalIsFree, Commit, Deliver, [Next]_vars
    PROVE  Deliver'
<1>0. MemTyped /\ InOrder /\ DiskTyped
  BY DEF Typed, Session
<1>a. ToldOk => Delivered /\ Idle /\ toR = <<>> /\ ~up
  BY DEF ToldOk, Deliver
<1>b. ASSUME ~SndStart, Delivered, UNCHANGED <<dest, astray>> \/ Lands \/ Losses \/ RcvCrash PROVE Delivered'
  <2>1. astray \subseteq astray' /\ \A n \in Names, c \in Chunks : Wear(c, dest[n][c], dest'[n][c])
    <3>1. CASE UNCHANGED <<dest, astray>>
      BY <3>1 DEF Wear
    <3>2. CASE Lands \/ Losses \/ RcvCrash
      BY <1>0, <3>2, Wears
    <3> QED BY <1>b, <3>1, <3>2
  <2> QED BY <1>0, <1>b, <2>1, DeliveredKept
<1>1. ASSUME rp' \in {"ack", "recheck"} PROVE Delivered'
  <2>1. CASE RcvAlreadyComplete \/ CommitClean
    BY <2>1, ContentFound, ContentPut
  <2>2. CASE rp' = rp /\ (UNCHANGED <<dest, astray>> \/ Lands \/ Losses)
    <3>1. ~SndStart /\ Delivered
      BY <1>1, <2>2, StartIdle DEF Deliver
    <3> QED BY <1>b, <2>2, <3>1
  <2> QED BY <1>1, <2>1, <2>2, Knows
<1>2. ASSUME ToldOk' PROVE Delivered' /\ Idle' /\ toR' = <<>> /\ ~up'
  <2>0. ~SndStart
    BY <1>2 DEF SndStart, ToldOk
  <2>1. CASE RcvRecheck \/ RcvCompleted
    <3>1. Delivered /\ UNCHANGED <<dest, astray>>
      BY <2>1 DEF RcvRecheck, RcvCompleted, Deliver, disk_vars
    <3>2. Delivered'
      BY <1>b, <2>0, <3>1
    <3>3. Returns
      BY <2>1 DEF Returns
    <3> QED BY <3>2, <3>3, Returned DEF Idle
  <2>2. CASE ToldOk
    <3>1. Delivered /\ Idle /\ toR = <<>> /\ ~up
      BY <1>a, <2>2
    <3>2. Idle' /\ toR' = <<>> /\ ~up' /\ (UNCHANGED <<dest, astray>> \/ Lands \/ Losses \/ RcvCrash)
      BY <2>0, <3>1, Quiet
    <3> QED BY <1>b, <2>0, <3>1, <3>2
  <2> QED BY <1>0, <1>2, <2>1, <2>2, Tells
<1> QED BY <1>1, <1>2 DEF Deliver, ToldOk

-----------------------------------------------------------------------------
\* The inductive invariant.
Inv ==
    /\ Typed /\ Session /\ Count /\ FinalIsFree /\ Shelf
    /\ Staging /\ Own /\ Taking /\ Commit /\ Deliver

\* What was at a name before is of the kind of that name.
LEMMA OldKind == ASSUME NEW n PROVE Old(n) \in Content /\ Kind(Old(n), n)
<1>1. Bytes(OldV) \in ByteSet /\ Bytes(OldV).is = OldV /\ Bytes(OldV).due = {} /\ OldV # None
  BY DEF Bytes, ByteSet, OldV, None
<1>2. \A c \in Chunks : Old(n)[c] = IF c \in Within(n) THEN Bytes(OldV) ELSE Bytes(None)
  BY DEF Old
<1>3. Old(n) \in Content
  <2>1. \A c \in Chunks : Old(n)[c] \in ByteSet
    BY <1>1, <1>2, Constant
  <2> QED BY <2>1 DEF Old, Content, ByteSet
<1>4. Within(n) \subseteq Chunks
  BY DEF Within
<1>5. Good(Old(n), n) /\ NoGhost(Old(n))
  BY <1>1, <1>2, <1>4, Constant DEF Good, Whole, NoGhost
<1> QED BY <1>3, <1>5 DEF Kind

\* The invariant holds with nothing sent and the destination as it was found.
LEMMA InvInit == Init => Inv
<1> SUFFICES ASSUME Init PROVE Inv
  OBVIOUS
<1>0. /\ src = Unchanged /\ man = Unchanged /\ rman = Unchanged /\ torn = {} /\ todo = {} /\ wk = AllOff
      /\ toR = <<>> /\ toS = <<>> /\ pipe = NoPipes /\ stray = <<>> /\ ~up
      /\ sp = "idle" /\ rp = "listen" /\ rw = AllOff /\ hand = NoHands /\ fresh = NoCount
      /\ had = {} /\ done = {} /\ flush = NoFlush /\ final = "root" /\ busy = {}
      /\ stage = Absent /\ state = NoState /\ astray = {}
  BY DEF Init
<1>a. \A w \in Workers : pipe[w] = <<>> /\ hand[w] = NoHand /\ hand[w].next = "none" /\ rw[w] = "off"
  BY <1>0, Constant DEF NoPipes, NoHands, AllOff
<1>b. multi \in BOOLEAN
  BY PolicyAssumption DEF Init
<1>1. Typed
  <2>2. SourceTyped /\ QueueTyped
    BY <1>0, Constant DEF SourceTyped, QueueTyped, AllOff
  <2>3. NetTyped
    BY <1>0, NoFrames DEF NetTyped, NoPipes
  <2>4. MemTyped
    <3>1. AllOff \in [Workers -> RwStates]
      BY DEF AllOff, RwStates
    <3> QED BY <1>0, <3>1, Constant DEF MemTyped, Names, Singles, FlushSet
  <2>5. DiskTyped
    <3>1. dest \in [Names -> Content] /\ backup \in [Names -> Content]
      BY OldKind, Constant DEF Init
    <3> QED BY <1>0, <3>1, Constant DEF DiskTyped, StateSet
  <2> QED BY <1>0, <1>b, <2>2, <2>3, <2>4, <2>5 DEF Typed
<1>2. Session
  BY <1>0, <1>a, Constant DEF Session, SameManifest, CleanStart, NoStreams, NotBegun, InOrder, Holding, OneFlush, Idle
<1>3. Count
  BY <1>0 DEF Count, Offer, Asked, Ended, HasSummary, Once, Counted
<1>4. FinalIsFree
  BY <1>0, Constant DEF FinalIsFree, Singles
<1>5. Shelf
  <2>1. \A n \in Names : (dest[n] = Old(n) \/ dest[n] = Absent) /\ backup[n] = Absent
    BY DEF Init
  <2>2. \A n : Kind(Absent, n)
    BY DEF Kind
  <2> QED BY <2>1, <2>2, OldKind DEF Shelf
<1>6. Staging
  BY <1>0, Constant DEF Staging, NoGhost, Absent
<1>7. Own
  BY <1>0, <1>a, Constant DEF Own, Unchanged
<1>8. Taking /\ Commit /\ Deliver
  BY <1>0 DEF Taking, Commit, Committing, Deliver
<1> QED BY <1>1, <1>2, <1>3, <1>4, <1>5, <1>6, <1>7, <1>8 DEF Inv

\* Every step keeps the invariant, part by part.
LEMMA InvStep == Inv /\ [Next]_vars => Inv'
<1> SUFFICES ASSUME Inv, [Next]_vars PROVE Inv'
  OBVIOUS
<1>1. Typed /\ Session /\ Count /\ FinalIsFree /\ Shelf /\ Staging /\ Own /\ Taking /\ Commit /\ Deliver
  BY DEF Inv
<1>2. Typed' /\ Session'
  BY <1>1, SessionStep
<1>3. Count' /\ FinalIsFree' /\ Shelf' /\ Staging'
  BY <1>1, CountStep, FinalStep, ShelfStep, StagingStep
<1>4. Own' /\ Taking' /\ Commit' /\ Deliver'
  BY <1>1, OwnStep, TakingStep, CommitStep, DeliverStep
<1> QED BY <1>2, <1>3, <1>4 DEF Inv

\* Sender, listener, connections, handlers and disk hold what the types of transfer.rs say,
\* for any files and chunks, any number of streams and any number of faults.
THEOREM TypeCorrect == Spec => []Typed
<1>1. Inv => Typed
  BY DEF Inv
<1> QED BY <1>1, InvInit, InvStep, PTL DEF Spec

\* When verify_summary trusts the count of a file's chunks, every one of them came in this
\* run, although is_chunk_complete, the write and mark_chunk_complete are separate steps of
\* several handlers and a chunk may be marked, and counted, twice.
THEOREM FreshIsCounted == Spec => []FreshIsFresh
<1>1. Inv => FreshIsFresh
  <2> SUFFICES ASSUME Inv, rp = "stream", HasSummary PROVE \A f \in Files : AllFresh(f) => ChunksOf(f) \cap had = {}
    BY DEF FreshIsFresh
  <2>1. \A f \in Files : AllFresh(f) => ChunksOf(f) \subseteq done \ had
    BY Summed DEF Inv
  <2> QED BY <2>1
<1> QED BY <1>1, InvInit, InvStep, PTL DEF Spec

\* A sender that returned Ok finds what it sent at the destination, but for the chunks of
\* which a write failed or is late.
THEOREM OkIsDelivered == Spec => []OkMeansDelivered
<1>1. Inv => OkMeansDelivered
  <2> SUFFICES ASSUME Deliver PROVE OkMeansDelivered
    BY DEF Inv
  <2>1. \A n : Here(n) => \A c \in Within(n) : Arrived(c, dest[n][c])
    BY DEF Here, Sound
  <2>2. sp = "ok" => IF multi THEN \A f \in Files : Here(f) ELSE \E n \in Singles : Here(n)
    BY DEF Deliver, Delivered
  <2>3. sp = "ok" => IF multi THEN \A f \in Files : Here(f) ELSE Here("root") \/ Here("root (1)")
    BY <2>2 DEF Singles
  <2> QED BY <2>1, <2>3 DEF OkMeansDelivered
<1> QED BY <1>1, InvInit, InvStep, PTL DEF Spec

\* commit_stage moves into the destination only what is complete and what the sender read in
\* this run, whatever was interrupted, killed, late, double or resumed before, but for the
\* chunks of which a write failed or is late.
THEOREM CommitsAreWhole == Spec => CommitsWhole
<1>1. ASSUME Inv, [Next]_vars, NEW n \in Names PROVE PutsWhole(n)
  <2>0. Typed /\ Session /\ Staging /\ Commit
    BY <1>1 DEF Inv
  <2>a. dest \in [Names -> Content] /\ stage \in Content /\ NoGhost(stage) /\ DiskTyped
    BY <2>0 DEF Typed, DiskTyped, Staging
  <2> SUFFICES ASSUME dest'[n] # dest[n], NEW d \in Within(n), stage[d].is # None, stage'[d].is = None
               PROVE  Whole(dest'[n], n) /\ \A c \in Within(n) : Arrived(c, dest'[n][c])
    BY DEF PutsWhole
  <2>b. d \in Chunks
    BY DEF Within
  <2>1. CASE \E m \in Targets : Puts(m)
    <3>1. PICK m \in Targets : Puts(m)
      BY <2>1
    <3>2. /\ dest' = [dest EXCEPT ![m] = Staged(m)]
          /\ \A c \in Within(m) : stage[c].is # None /\ Sound(c, stage[c])
      BY <3>1 DEF Puts
    <3>3. m = n /\ dest'[n] = Staged(n)
      BY <2>a, <3>2
    <3>4. \A c \in Within(n) : dest'[n][c] = stage[c]
      BY <3>3 DEF Staged, Within
    <3> QED BY <3>2, <3>3, <3>4 DEF Whole, Sound
  <2>2. CASE Lands \/ Losses \/ RcvCrash
    <3>1. Wear(d, stage[d], stage'[d]) /\ stage[d] \in ByteSet
      BY <2>a, <2>b, <2>2, Wears DEF Content, ByteSet
    <3>2. /\ (stage'[d].is = None <=> stage[d].is = None) /\ (stage'[d].is = None => stage'[d].due = {})
          /\ (stage[d].due = {} => stage'[d] = stage[d])
      BY <2>a, <2>b, <3>1, WearIs DEF NoGhost
    <3> QED BY <3>2
  <2>3. CASE (\E m \in Targets : CommitBackup(m)) \/ CommitRollback \/ CommitRemoveBackup
    <3>1. stage' = stage
      BY <2>3 DEF CommitBackup, CommitRollback, CommitRemoveBackup
    <3> QED BY <3>1
  <2>4. CASE RcvReject \/ CommitClean \/ UNCHANGED <<dest, backup>>
    <3>1. dest' = dest
      BY <2>4 DEF RcvReject, CommitClean
    <3> QED BY <3>1
  <2> QED BY <1>1, <2>0, <2>1, <2>2, <2>3, <2>4, Shelves, Zenon
<1>2. Inv /\ [Next]_vars => [\A n \in Names : PutsWhole(n)]_vars
  BY <1>1
<1> QED BY <1>2, InvInit, InvStep, PTL DEF Spec, CommitsWhole

\* What was at a name is kept, in place or in the state directory, until the new content
\* is there in full: through every step, failure and kill of an overwrite.
THEOREM ContentIsKept == Spec => OldOrNew
<1>1. ASSUME Inv, [Next]_vars, NEW n \in Names PROVE KeepsContent(n)
  <2>0. Typed /\ Session /\ FinalIsFree /\ Staging /\ Commit /\ Shelf /\ UNCHANGED multi /\ DiskTyped
    BY <1>1, Config DEF Inv, Session, Typed
  <2>a. dest \in [Names -> Content] /\ backup \in [Names -> Content] /\ multi \in BOOLEAN
    BY <2>0 DEF Typed, DiskTyped
  <2>b. Kind(dest[n], n) /\ Kind(backup[n], n)
    BY <2>0 DEF Shelf
  <2> SUFFICES ASSUME Kept(n), ~(rp = "confirm" /\ rp' = "listen") PROVE Kept(n)'
    BY DEF KeepsContent
  <2>1. CASE dest'[n] = dest[n] /\ backup'[n] = backup[n]
    BY <2>1 DEF Kept, Whole
  <2>g. ASSUME Whole(dest'[n], n) \/ Whole(backup'[n], n) PROVE Kept(n)'
    BY <2>g DEF Kept, Whole
  <2>2. CASE \E m \in Targets : Puts(m)
    <3>1. PICK m \in Targets : Puts(m)
      BY <2>2
    <3>2. dest' = [dest EXCEPT ![m] = Staged(m)] /\ backup' = backup /\ Good(Staged(m), m)
      BY <3>1 DEF Puts
    <3>3. dest'[n] = IF n = m THEN Staged(m) ELSE dest[n]
      BY <2>a, <3>2
    <3> QED BY <2>1, <2>g, <3>2, <3>3 DEF Good
  <2>3. CASE \E m \in Targets : CommitBackup(m)
    <3>1. PICK m \in Targets : CommitBackup(m)
      BY <2>3
    <3>2. backup' = [backup EXCEPT ![m] = dest[m]] /\ dest' = [dest EXCEPT ![m] = Absent] /\ dest[m] # Absent
      BY <3>1 DEF CommitBackup, Exists
    <3>3. CASE m # n
      BY <2>1, <2>a, <3>2, <3>3
    <3>4. CASE m = n
      <4>1. backup'[n] = dest[n] /\ Whole(dest[n], n)
        BY <2>a, <2>b, <3>2, <3>4 DEF Kind, Good
      <4> QED BY <2>g, <4>1
    <3> QED BY <3>3, <3>4
  <2>4. CASE CommitRollback
    <3>1. dest' = [dest EXCEPT ![final] = backup[final]] /\ backup' = [backup EXCEPT ![final] = Absent]
          /\ dest[final] = Absent
      BY <2>0, <2>4 DEF CommitRollback, Commit
    <3>2. CASE n # final
      BY <2>1, <2>a, <3>1, <3>2
    <3>3. CASE n = final
      <4>1. dest'[n] = backup[n] /\ backup'[n] = dest[n]
        BY <2>a, <3>1, <3>3
      <4> QED BY <2>g, <4>1 DEF Kept
    <3> QED BY <3>2, <3>3
  <2>5. CASE CommitRemoveBackup
    <3>1. dest' = dest /\ backup' = [backup EXCEPT ![final] = Absent] /\ Good(dest[final], final)
      BY <2>0, <2>5 DEF CommitRemoveBackup, Commit
    <3>2. CASE n # final
      BY <2>1, <2>a, <3>1, <3>2
    <3>3. CASE n = final
      BY <2>g, <3>1, <3>3 DEF Good
    <3> QED BY <3>2, <3>3
  <2>6. CASE CommitClean
    <3>0. dest' = dest /\ backup'[n] = Absent /\ ToMove = {} /\ Committing
      BY <2>6 DEF CommitClean, Committing
    <3>1. CASE backup[n] = Absent
      BY <2>1, <3>0, <3>1
    <3>2. CASE backup[n] # Absent
      <4>1. policy = "overwrite" /\ n \in IF multi THEN Files ELSE {"root"}
        BY <2>0, <3>2 DEF Shelf
      <4>2. \A c \in Within(n) : c \in Chunks /\ Place(c) = n
        BY <2>0, <2>a, <4>1 DEF Within, Place, FinalIsFree
      <4>3. \A c \in Within(n) : stage[c].is = None
        BY <2>0, <2>a, <3>0, <4>1, <4>2, Constant DEF ToMove, Absent
      <4>4. Whole(dest[n], n)
        BY <2>0, <3>0, <4>2, <4>3 DEF Commit, Whole
      <4> QED BY <2>g, <3>0, <4>4
    <3> QED BY <3>1, <3>2
  <2>7. CASE RcvReject
    <3>1. rp = "confirm" /\ rp' = "listen"
      BY <2>7 DEF RcvReject, RcvReturn
    <3> QED BY <3>1
  <2>8. CASE UNCHANGED <<dest, backup>>
    BY <2>1, <2>8
  <2>9. CASE Lands \/ Losses \/ RcvCrash
    <3>1. /\ \A c \in Chunks : Wear(c, dest[n][c], dest'[n][c]) /\ Wear(c, backup[n][c], backup'[n][c])
          /\ dest'[n] \in Content /\ backup'[n] \in Content /\ dest[n] \in Content /\ backup[n] \in Content
      BY <2>0, <2>a, <2>9, Wears
    <3>2. (Whole(dest[n], n) => Whole(dest'[n], n)) /\ (Whole(backup[n], n) => Whole(backup'[n], n))
      BY <2>b, <3>1, KindKept
    <3> QED BY <2>g, <3>2 DEF Kept
  <2> QED BY <1>1, <2>0, <2>2, <2>3, <2>4, <2>5, <2>6, <2>7, <2>8, <2>9, Shelves, Zenon
<1>2. Inv /\ [Next]_vars => [\A n \in Names : KeepsContent(n)]_vars
  BY <1>1
<1> QED BY <1>2, InvInit, InvStep, PTL DEF Spec, OldOrNew
=============================================================================
