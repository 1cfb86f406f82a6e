------------------------------ MODULE Transfer ------------------------------
(***************************************************************************)
(* The resumable file transfer of vendored-from-bore/transfer.rs: a sender  *)
(* that may be run again, a persistent listener that may be killed, the     *)
(* parallel data streams between them, the staging directory with its       *)
(* resume state, and the commit into the destination.                      *)
(*                                                                         *)
(* A chunk's content is the version of its file that was read; a file's     *)
(* full_hash is the version found by the scan.  Both sides of one run use   *)
(* one transfer id.  The frames Begin .. ManifestDone are one message.      *)
(* A tokio write is under way until it lands or fails, and moves with its   *)
(* file.  The machine stays up: what has landed is there after a kill.      *)
(***************************************************************************)
EXTENDS Integers, Sequences, FiniteSets

CONSTANTS
    Files,        \* regular files of the transfer
    Tasks,        \* all their chunks, in the order of build_chunk_tasks
    FileOf,       \* the file a chunk belongs to
    Parallel,     \* the number of data streams (requested_parallel)
    FlushEvery,   \* RESUME_FLUSH_EVERY_CHUNKS
    Cases,        \* collision policies, each with whether there are several sources
    Existing,     \* the names that exist at the destination before
    MaxWrites,    \* bound on the chunks with a write under way
    MaxFaults     \* bound on edits, crashes, failures, rejections, late streams and writes

Workers == 1 .. Parallel      \* numbered in the order the listener takes them
Chunks == {Tasks[i] : i \in 1 .. Len(Tasks)}

ASSUME ChunkAssumption ==
    /\ Tasks \in Seq(Chunks) /\ FileOf \in [Chunks -> Files]
    /\ \A i, j \in 1 .. Len(Tasks) : Tasks[i] = Tasks[j] => i = j
ASSUME BoundAssumption ==
    /\ Parallel \in Nat \ {0} /\ FlushEvery \in Nat \ {0}
    /\ MaxWrites \in Nat /\ MaxFaults \in Nat
ASSUME PolicyAssumption ==
    /\ Cases \subseteq {"fail", "overwrite", "rename"} \X BOOLEAN
    /\ Existing \subseteq Files \cup {"root"}
\* A file's own name is none of the names that stand for a single source.
ASSUME NameAssumption == Files \cap {"root", "root (1)"} = {}

VARIABLES
    policy, multi,                   \* the listener's policy; several sources
    src, torn,                              \* the source files; those edited in mid-run
    sp, man, todo, wk,               \* the sender: phase, manifest, queue (positions in Tasks), workers
    toR, toS, up, pipe, stray,       \* the connections; streams that come late
    rp, rman, final,                 \* receive_transfer
    had, done, fresh, pend, flush,   \* the resume plan, ResumeShared
    rw, hand, busy,                  \* its handlers, the chunk in hand, their writes under way
    stage, state, dest, backup,      \* its disk
    astray,                          \* history: chunks some write of which came to nothing or is late
    faults

src_vars  == <<policy, multi, src, torn>>
snd_vars  == <<sp, man, todo, wk>>
net_vars  == <<toR, toS, up, pipe, stray>>
res_vars  == <<had, done, fresh, pend>>
mem_vars  == <<rman, final, res_vars, flush, rw, hand, busy>>
disk_vars == <<stage, state, dest, backup, astray>>
vars == <<src_vars, snd_vars, net_vars, rp, mem_vars, disk_vars, faults>>

None == -1          \* nothing at this path
Zero == -2          \* a hole, or bytes of a write that was cut off
OldV == -3          \* what was at the destination before

Names    == Files \cup {"root", "root (1)"}
Targets  == IF multi THEN Files ELSE {"root", "root (1)"}
Within(n) == IF n \in Files THEN {c \in Chunks : FileOf[c] = n} ELSE Chunks
Bytes(v) == [is |-> v, due |-> {}]        \* a chunk's bytes, and the writes under way to them
Absent   == [c \in Chunks |-> Bytes(None)]
Old(n)   == [c \in Chunks |-> Bytes(IF c \in Within(n) THEN OldV ELSE None)]
Exists(n) == dest[n] # Absent
ChunksOf(f) == {c \in Chunks : FileOf[c] = f}

Unchanged == [f \in Files |-> 0]
NoState   == [present |-> FALSE, man |-> Unchanged, done |-> {}, final |-> "root"]
NoFlush   == [step |-> "idle", done |-> {}, by |-> 0]
NoCount   == [f \in Files |-> 0]
NoHand    == [next |-> "none"]
NoHands   == [w \in Workers |-> NoHand]
NoPipes   == [w \in Workers |-> <<>>]
AllOff    == [w \in Workers |-> "off"]

Init ==
    /\ \E k \in Cases : policy = k[1] /\ multi = k[2]
    /\ multi => policy # "rename"       \* commit_stage treats it like Fail
    /\ src = Unchanged /\ torn = {}
    /\ sp = "idle" /\ man = Unchanged /\ todo = {} /\ wk = AllOff
    /\ toR = <<>> /\ toS = <<>> /\ up = FALSE /\ pipe = NoPipes /\ stray = <<>>
    /\ rp = "listen" /\ rman = Unchanged /\ final = "root"
    /\ had = {} /\ done = {} /\ fresh = NoCount /\ pend = 0 /\ flush = NoFlush
    /\ rw = AllOff /\ hand = NoHands /\ busy = {}
    /\ stage = Absent /\ state = NoState /\ astray = {}
    /\ dest = [n \in Names |-> IF n \in Targets \cap Existing THEN Old(n) ELSE Absent]
    /\ backup = [n \in Names |-> Absent]
    /\ faults = 0

Active == sp \in {"offered", "sending", "summed"}

-----------------------------------------------------------------------------
(* The sender: run_sender, send_transfer, send_chunked_files.              *)

\* Somebody changes a source file.
Edit(f) ==
    /\ faults < MaxFaults /\ faults' = faults + 1
    /\ src' = [src EXCEPT ![f] = @ + 1]
    /\ torn' = IF sp \in {"offered", "sending"} THEN torn \cup {f} ELSE torn
    /\ UNCHANGED <<policy, multi, snd_vars, net_vars, rp, mem_vars, disk_vars>>

\* The writes to a chunk that are under way, wherever its file has been moved.
UnderWay(c) == stage[c].due \cup UNION {dest[n][c].due \cup backup[n][c].due : n \in Names}

\* Bound: a rename needs a name that is free, and there is one.
NamesLeft == policy = "rename" /\ ~multi /\ ~state.present => ~Exists("root (1)")

\* plan_transfer scans and hashes the source, then Begin .. ManifestDone.
SndStart ==
    /\ sp \in {"idle", "failed", "ok"} /\ rp = "listen" /\ toR = <<>> /\ ~up /\ NamesLeft
    /\ sp' = "offered" /\ man' = src /\ torn' = {} /\ todo' = {} /\ wk' = AllOff
    /\ toR' = <<[k |-> "manifest", man |-> src]>> /\ toS' = <<>>
    /\ up' = TRUE /\ pipe' = NoPipes
    /\ IF \A c \in Chunks : UnderWay(c) = {} THEN UNCHANGED faults
       ELSE faults < MaxFaults /\ faults' = faults + 1
    /\ UNCHANGED <<policy, multi, src, stray, rp, mem_vars, disk_vars>>

\* The sender's task ends: every connection it holds closes.  A data stream the
\* listener has not taken may reach it later, after the next sender's control
\* connection, with the frames written to it so far.  (The control connection of
\* a sender that was started too early is such a stream too, with none.)
SndEnd(how) ==
    /\ sp' = how /\ up' = FALSE /\ wk' = AllOff /\ todo' = {}
    /\ \/ UNCHANGED <<stray, faults>>
       \/ /\ faults < MaxFaults /\ faults' = faults + 1
          /\ \E w \in Workers :
                /\ wk[w] # "off" /\ rw[w] = "off"
                /\ stray' = Append(stray, pipe[w])

\* Killed, interrupted or cut off.
SndDie ==
    /\ Active /\ faults < MaxFaults
    /\ sp' = "failed" /\ up' = FALSE /\ wk' = AllOff /\ todo' = {} /\ toS' = <<>>
    /\ faults' = faults + 1
    /\ \/ UNCHANGED stray
       \/ \E w \in Workers : wk[w] # "off" /\ rw[w] = "off" /\ stray' = Append(stray, pipe[w])
    /\ UNCHANGED <<src_vars, man, toR, pipe, rp, mem_vars, disk_vars>>

SummaryTo(q) == IF up THEN Append(q, [k |-> "summary", man |-> man]) ELSE q

\* ManifestAccepted: build_chunk_tasks leaves out what the resume plan has.
SndAccepted ==
    /\ sp = "offered" /\ toS # <<>> /\ Head(toS).k = "accepted"
    /\ toS' = Tail(toS)
    /\ todo' = {i \in 1 .. Len(Tasks) : Tasks[i] \notin Head(toS).done}
    /\ IF todo' = {} THEN /\ sp' = "summed" /\ UNCHANGED wk
                          /\ toR' = SummaryTo(toR)
                     ELSE /\ sp' = "sending" /\ UNCHANGED toR
                          /\ wk' = [w \in Workers |-> "run"]
    /\ UNCHANGED <<src_vars, man, up, pipe, stray, rp, mem_vars, disk_vars, faults>>

\* A worker takes the next task, reads the chunk from the file as it is now and
\* writes ChunkStart with its hash; the hash of these bytes always fits them.
SndChunk(w) ==
    /\ sp = "sending" /\ wk[w] = "run" /\ pipe[w] = <<>>
    /\ \E i \in todo :
          /\ (\A j \in todo : i <= j) /\ todo' = todo \ {i}
          /\ pipe' = [pipe EXCEPT ![w] =
                         <<[k |-> "chunk", c |-> Tasks[i], v |-> src[FileOf[Tasks[i]]]]>>]
    /\ UNCHANGED <<src_vars, sp, man, wk, toR, toS, up, stray, rp, mem_vars, disk_vars, faults>>

\* The queue is empty: WorkerDone, and wait for the terminal frame.
SndWorkerDone(w) ==
    /\ sp = "sending" /\ wk[w] = "run" /\ todo = {}
    /\ wk' = [wk EXCEPT ![w] = "wait"]
    /\ pipe' = [pipe EXCEPT ![w] = Append(@, [k |-> "done"])]
    /\ UNCHANGED <<src_vars, sp, man, todo, toR, toS, up, stray, rp, mem_vars, disk_vars, faults>>

\* WorkerComplete; when the last one is in, TransferSummary (of the manifest).
SndWorkerComplete(w) ==
    /\ sp = "sending" /\ wk[w] = "wait" /\ rw[w] = "ended" /\ up
    /\ wk' = [wk EXCEPT ![w] = "ok"]
    /\ IF \A x \in Workers : wk'[x] = "ok"
       THEN sp' = "summed" /\ toR' = SummaryTo(toR)
       ELSE UNCHANGED <<sp, toR>>
    /\ UNCHANGED <<src_vars, man, todo, toS, up, pipe, stray, rp, mem_vars, disk_vars, faults>>

\* Completed with the hash of the summary.
SndCompleted ==
    /\ sp = "summed" /\ toS # <<>> /\ Head(toS).k = "completed" /\ Head(toS).man = man
    /\ toS' = Tail(toS) /\ SndEnd("ok")
    /\ UNCHANGED <<src_vars, man, toR, pipe, rp, mem_vars, disk_vars>>

\* An Error frame, another frame than the one awaited, the end of the control
\* connection or of a data stream, or no WorkerComplete for a stream in whose
\* place the listener took another.
SndFails ==
    /\ Active
    /\ \/ toS # <<>> /\ ~(sp = "offered" /\ Head(toS).k = "accepted")
                     /\ ~(sp = "summed" /\ Head(toS).k = "completed" /\ Head(toS).man = man)
       \/ toS = <<>> /\ ~up
       \/ \E w \in Workers : wk[w] = "wait" /\ rw[w] = "spent"      \* the stall timeout
    /\ toS' = <<>> /\ SndEnd("failed")
    /\ UNCHANGED <<src_vars, man, toR, pipe, rp, mem_vars, disk_vars>>

-----------------------------------------------------------------------------
(* The listener: run_listener, receive_transfer, receive_manifest.         *)

\* What receive_transfer keeps in memory goes with it.
Forget ==
    /\ rman' = Unchanged /\ final' = "root"
    /\ had' = {} /\ done' = {} /\ fresh' = NoCount /\ pend' = 0 /\ flush' = NoFlush
    /\ rw' = AllOff /\ hand' = NoHands /\ busy' = {}

\* Streams that were taken close.
Untaken == [w \in Workers |-> IF rw[w] = "off" THEN pipe[w] ELSE <<>>]

\* receive_transfer returns: the control connection closes after a last frame,
\* the persistent listener drains its queue and waits for the next sender.
RcvReturn(last) ==
    /\ rp' = "listen" /\ Forget
    /\ toS' = IF up THEN Append(toS, last) ELSE toS
    /\ up' = FALSE /\ toR' = <<>> /\ pipe' = Untaken /\ stray' = <<>>

Error == [k |-> "error"]

\* A data stream of an earlier sender comes first: StrayWorkerConnection.
RcvStray ==
    /\ rp = "listen" /\ stray # <<>>
    /\ stray' = Tail(stray)
    /\ UNCHANGED <<src_vars, snd_vars, toR, toS, up, pipe, rp, mem_vars, disk_vars, faults>>

\* destination_satisfies_manifest: by content, under the names asked for.
Satisfied(m) ==
    IF multi THEN \A c \in Chunks : dest[FileOf[c]][c].is = m[FileOf[c]]
             ELSE \A c \in Chunks : dest["root"][c].is = m[FileOf[c]]

\* resolve_final_name_local: the free names to commit to.
FinalNames ==
    IF multi \/ ~Exists("root") \/ policy = "overwrite" THEN {"root"}
    ELSE IF policy = "rename" /\ ~Exists("root (1)") THEN {"root (1)"}
    ELSE {}

\* prepare_stage_entries: files that are not there are created as holes.
Prepared == [c \in Chunks |-> IF stage[c].is = None THEN Bytes(Zero) ELSE stage[c]]

\* The writes of earlier sessions that are still under way.
Late == {c \in Chunks : stage[c].due # {} \/ \E n \in Names : dest[n][c].due # {}}

Manifest == Head(toR).man
HasManifest == rp = "listen" /\ toR # <<>> /\ Head(toR).k = "manifest"

\* The destination already holds the manifest's content and no transfer is in
\* progress: accept with nothing to send.
RcvAlreadyComplete ==
    /\ HasManifest /\ ~state.present /\ Satisfied(Manifest)
    /\ rp' = "recheck" /\ rman' = Manifest /\ toR' = Tail(toR)
    /\ toS' = Append(toS, [k |-> "accepted", done |-> Chunks]) /\ astray' = Late
    /\ UNCHANGED <<src_vars, snd_vars, up, pipe, stray, final, res_vars, flush, rw, hand, busy,
                   stage, state, dest, backup, faults>>

\* No resume state: choose the name, write a fresh one, prepare the stage.
RcvFresh ==
    /\ HasManifest /\ ~state.present /\ ~Satisfied(Manifest)
    /\ \E n \in FinalNames :
          /\ state' = [present |-> TRUE, man |-> Manifest, done |-> {}, final |-> n]
          /\ final' = n
    /\ rp' = "confirm" /\ rman' = Manifest /\ toR' = Tail(toR)
    /\ had' = {} /\ done' = {} /\ stage' = Prepared /\ astray' = Late
    /\ UNCHANGED <<src_vars, snd_vars, toS, up, pipe, stray, fresh, pend, flush, rw, hand, busy,
                   dest, backup, faults>>

\* Mutant: a resume state without a complete chunk is not taken for one.
BugEmptyState ==
    /\ HasManifest /\ state.present /\ state.man = Manifest /\ state.done # {}
    /\ rp' = "confirm" /\ rman' = Manifest /\ toR' = Tail(toR)
    /\ had' = state.done /\ done' = state.done /\ final' = state.final
    /\ stage' = Prepared /\ astray' = Late
    /\ UNCHANGED <<src_vars, snd_vars, toS, up, pipe, stray, fresh, pend, flush, rw, hand, busy,
                   state, dest, backup, faults>>

\* A resume state of this manifest: go on from what it says is complete.
RcvResume ==
    /\ HasManifest /\ state.present /\ state.man = Manifest
    /\ rp' = "confirm" /\ rman' = Manifest /\ toR' = Tail(toR)
    /\ had' = state.done /\ done' = state.done /\ final' = state.final
    /\ stage' = Prepared /\ astray' = Late
    /\ UNCHANGED <<src_vars, snd_vars, toS, up, pipe, stray, fresh, pend, flush, rw, hand, busy,
                   state, dest, backup, faults>>

\* A collision under the policy, or a resume state of another manifest.
RcvRefuse ==
    /\ HasManifest
    /\ \/ ~state.present /\ ~Satisfied(Manifest) /\ FinalNames = {}
       \/ state.present /\ state.man # Manifest
    /\ RcvReturn(Error)
    /\ UNCHANGED <<src_vars, snd_vars, disk_vars, faults>>

\* The operator says yes: ManifestAccepted with the resume plan.
RcvAccept ==
    /\ rp = "confirm"
    /\ rp' = "stream"
    /\ toS' = IF up THEN Append(toS, [k |-> "accepted", done |-> done]) ELSE toS
    /\ UNCHANGED <<src_vars, snd_vars, toR, up, pipe, stray, mem_vars, disk_vars, faults>>

\* The operator says no, or does not answer in time: the whole state directory
\* goes, whatever is in it.
RcvReject ==
    /\ rp = "confirm" /\ faults < MaxFaults
    /\ RcvReturn(Error)
    /\ stage' = Absent /\ state' = NoState
    /\ backup' = [n \in Names |-> Absent]
    /\ faults' = faults + 1
    /\ UNCHANGED <<src_vars, snd_vars, dest, astray>>

\* expected_worker_connections: none when nothing is missing.
Expected == IF had = Chunks THEN {} ELSE Workers
\* Before the last stream is accepted nothing is joined.
Accepting == \E w \in Workers : rw[w] = "off"
NextStream == Cardinality({w \in Workers : rw[w] # "off"}) + 1

\* accept_worker_stream: the next stream is this sender's.
RcvWorker(w) ==
    /\ rp = "stream" /\ w \in Expected /\ w = NextStream /\ wk[w] # "off"
    /\ rw' = [rw EXCEPT ![w] = "run"]
    /\ UNCHANGED <<src_vars, snd_vars, net_vars, rp, rman, final, res_vars, flush, hand, busy,
                   disk_vars, faults>>

\* A chunk has come in whole and is_chunk_complete is asked: one that is not
\* complete is in hand, to be written.  Then the handler goes on with next.
Check(w, frame, next) ==
    IF frame.c \in done
    THEN /\ rw' = [rw EXCEPT ![w] = next] /\ UNCHANGED hand
    ELSE /\ rw' = [rw EXCEPT ![w] = "write"]
         /\ hand' = [hand EXCEPT ![w] = [c |-> frame.c, v |-> frame.v, next |-> next]]

\* ... or one that was left over; its transfer id is the same.  What is in it is
\* taken, then it ends: with WorkerDone, or before it.
RcvLeftover(w) ==
    /\ rp = "stream" /\ w \in Expected /\ w = NextStream /\ stray # <<>>
    /\ stray' = Tail(stray)
    /\ LET s == Head(stray)
           next == IF s # <<>> /\ s[Len(s)].k = "done" THEN "lastOld" ELSE "lastErr"
       IN  IF s # <<>> /\ Head(s).k = "chunk" THEN Check(w, Head(s), next)
           ELSE rw' = [rw EXCEPT ![w] = next] /\ UNCHANGED hand
    /\ UNCHANGED <<src_vars, snd_vars, toR, toS, up, pipe, rp, rman, final, res_vars, flush, busy,
                   disk_vars, faults>>

\* handle_worker_connection: ChunkStart.
RcvChunk(w) ==
    /\ rp = "stream" /\ rw[w] = "run" /\ pipe[w] # <<>> /\ Head(pipe[w]).k = "chunk"
    /\ Check(w, Head(pipe[w]), "run")
    /\ pipe' = [pipe EXCEPT ![w] = Tail(@)]
    /\ UNCHANGED <<src_vars, snd_vars, toR, toS, up, stray, rp, rman, final, res_vars, flush, busy,
                   disk_vars, faults>>

\* The handler's own writes under way to the file of chunk c.
Unfinished(w, c) == {b \in busy : b.w = w /\ FileOf[b.c] = FileOf[c]}

\* seek waits for the handle's last write; write_all returns with the new one
\* under way.
RcvWrite(w) ==
    /\ rp = "stream" /\ rw[w] = "write" /\ Unfinished(w, hand[w].c) = {}
    /\ Cardinality({c \in Chunks : UnderWay(c) # {}}) < MaxWrites
    /\ stage' = [stage EXCEPT ![hand[w].c].due = @ \cup {hand[w].v}]
    /\ busy' = busy \cup {[w |-> w, c |-> hand[w].c, v |-> hand[w].v]}
    /\ rw' = [rw EXCEPT ![w] = "mark"]
    /\ UNCHANGED <<src_vars, snd_vars, net_vars, rp, rman, final, res_vars, flush, hand,
                   state, dest, backup, astray, faults>>

\* Mutant: one count for all files.
BugOneCount(w) ==
    /\ rp = "stream" /\ rw[w] = "mark"
    /\ done' = done \cup {hand[w].c} /\ pend' = pend + 1
    /\ fresh' = [f \in Files |-> fresh[f] + 1]
    /\ rw' = [rw EXCEPT ![w] = IF hand[w].next = "run" /\ pend' >= FlushEvery THEN "flush"
                               ELSE hand[w].next]
    /\ hand' = [hand EXCEPT ![w] = NoHand]
    /\ UNCHANGED <<src_vars, snd_vars, net_vars, rp, rman, final, had, flush, busy, disk_vars, faults>>

\* mark_chunk_complete, whether or not it was before, and a flush when FlushEvery
\* marks are pending.
RcvMark(w) ==
    /\ rp = "stream" /\ rw[w] = "mark"
    /\ done' = done \cup {hand[w].c} /\ pend' = pend + 1
    /\ fresh' = [fresh EXCEPT ![FileOf[hand[w].c]] = @ + 1]
    /\ rw' = [rw EXCEPT ![w] = IF hand[w].next = "run" /\ pend' >= FlushEvery THEN "flush"
                               ELSE hand[w].next]
    /\ hand' = [hand EXCEPT ![w] = NoHand]
    /\ UNCHANGED <<src_vars, snd_vars, net_vars, rp, rman, final, had, flush, busy, disk_vars, faults>>

\* WorkerDone: flush, then WorkerComplete.
RcvWorkerDone(w) ==
    /\ rp = "stream" /\ rw[w] = "run" /\ pipe[w] # <<>> /\ Head(pipe[w]).k = "done"
    /\ rw' = [rw EXCEPT ![w] = "last"]
    /\ pipe' = [pipe EXCEPT ![w] = Tail(@)]
    /\ UNCHANGED <<src_vars, snd_vars, toR, toS, up, stray, rp, rman, final, res_vars, flush, hand,
                   busy, disk_vars, faults>>

\* The stream ends before WorkerDone: flush what there is, then fail.
RcvWorkerEof(w) ==
    /\ rp = "stream" /\ rw[w] = "run" /\ pipe[w] = <<>> /\ ~up
    /\ rw' = [rw EXCEPT ![w] = "lastErr"]
    /\ UNCHANGED <<src_vars, snd_vars, net_vars, rp, rman, final, res_vars, flush, hand, busy,
                   disk_vars, faults>>

\* Nothing comes for stall_timeout seconds from a sender that is still there.
RcvStall(w) ==
    /\ rp = "stream" /\ rw[w] = "run" /\ pipe[w] = <<>> /\ up /\ faults < MaxFaults
    /\ rw' = [rw EXCEPT ![w] = "lastErr"] /\ faults' = faults + 1
    /\ UNCHANGED <<src_vars, snd_vars, net_vars, rp, rman, final, res_vars, flush, hand, busy,
                   disk_vars>>

-----------------------------------------------------------------------------
(* The writes under way: tokio::fs::File hands them to another thread.      *)

\* What a write of v leaves of these bytes; one that does not land may have
\* changed some of them.
After(x, v, lands) ==
    {[is |-> r, due |-> x.due \ {v}] : r \in IF lands \/ x.is = v THEN {v} ELSE {x.is, Zero}}

\* The write of v to chunk c comes to its end, wherever the file has been moved.
Settle(c, v, lands) ==
    /\ \/ /\ v \in stage[c].due /\ UNCHANGED <<dest, backup>>
          /\ \E x \in After(stage[c], v, lands) : stage' = [stage EXCEPT ![c] = x]
       \/ \E n \in Names :
             \/ /\ v \in dest[n][c].due /\ UNCHANGED <<stage, backup>>
                /\ \E x \in After(dest[n][c], v, lands) : dest' = [dest EXCEPT ![n][c] = x]
             \/ /\ v \in backup[n][c].due /\ UNCHANGED <<stage, dest>>
                /\ \E x \in After(backup[n][c], v, lands) : backup' = [backup EXCEPT ![n][c] = x]
    /\ busy' = {b \in busy : ~(b.c = c /\ b.v = v)}

Land(c, v) ==
    /\ Settle(c, v, TRUE)
    /\ UNCHANGED <<src_vars, snd_vars, net_vars, rp, rman, final, res_vars, flush, rw, hand, state,
                   astray, faults>>

\* The handlers that will learn of the failure of a write: they have not written
\* their last chunk of the file.
Told(c, v) == {w \in Workers : [w |-> w, c |-> c, v |-> v] \in busy
                               /\ (rw[w] \in {"run", "flush"} \/ hand[w].next = "run")}

\* A write fails (a full disk).  A handler learns of it from its next write to
\* the file, and from nothing else.
WriteFails(c, v) ==
    /\ faults < MaxFaults /\ faults' = faults + 1
    /\ Settle(c, v, FALSE) /\ astray' = astray \cup {c}
    /\ \/ Told(c, v) = {} /\ UNCHANGED <<rw, hand>>
       \/ \E w \in Told(c, v) :
             /\ rw[w] = "write" /\ FileOf[hand[w].c] = FileOf[c]
             /\ rw' = [rw EXCEPT ![w] = "lastErr"] /\ hand' = [hand EXCEPT ![w] = NoHand]
    /\ UNCHANGED <<src_vars, snd_vars, net_vars, rp, rman, final, res_vars, flush, state>>

-----------------------------------------------------------------------------
(* flush_pending and write_json_atomic, under persist_lock.                *)

\* Where a handler goes on once its flush is over.
Flushed == [w \in Workers |-> CASE rw[w] = "flush"   -> "run"
                                [] rw[w] = "last"    -> "ended"
                                [] rw[w] = "lastOld" -> "spent"
                                [] rw[w] = "lastErr" -> "err"
                                [] OTHER             -> rw[w]]
Flushing(w) == rw[w] \in {"flush", "last", "lastOld", "lastErr"}

\* Take the lock and the completed chunks, sync the staged files and write the
\* new state to a temporary file.  With nothing pending there is nothing to do.
FlushBegin(w) ==
    /\ rp = "stream" /\ Flushing(w) /\ flush.step = "idle"
    /\ IF pend = 0
       THEN /\ rw' = [rw EXCEPT ![w] = Flushed[w]] /\ UNCHANGED <<pend, flush>>
       ELSE /\ flush' = [step |-> "remove", done |-> done, by |-> w]
            /\ pend' = 0 /\ UNCHANGED rw
    /\ UNCHANGED <<src_vars, snd_vars, net_vars, rp, rman, final, had, done, fresh, hand, busy,
                   disk_vars, faults>>

\* The old state is removed first, ...
FlushRemove ==
    /\ flush.step = "remove"
    /\ state' = NoState
    /\ flush' = [flush EXCEPT !.step = "rename"]
    /\ UNCHANGED <<src_vars, snd_vars, net_vars, rp, rman, final, res_vars, rw, hand, busy,
                   stage, dest, backup, astray, faults>>

\* ... and then the temporary file is renamed to it.  reset_file returns to
\* verify_summary, which fails the transfer.
FlushRename ==
    /\ flush.step = "rename"
    /\ state' = [present |-> TRUE, man |-> rman, done |-> flush.done, final |-> final]
    /\ flush' = NoFlush
    /\ IF rp = "reset"
       THEN rw' = rw /\ rp' = "fail"
       ELSE rw' = [rw EXCEPT ![flush.by] = Flushed[flush.by]] /\ rp' = rp
    /\ UNCHANGED <<src_vars, snd_vars, net_vars, rman, final, res_vars, hand, busy,
                   stage, dest, backup, astray, faults>>

\* The sync, the temporary file or the rename fails: so does the handler, after
\* another flush, or reset_file.
FlushFails ==
    /\ flush.step # "idle" /\ faults < MaxFaults /\ faults' = faults + 1
    /\ flush' = NoFlush
    /\ IF rp = "reset"
       THEN rw' = rw /\ rp' = "fail"
       ELSE /\ rw' = [rw EXCEPT ![flush.by] = IF @ = "lastErr" THEN "err" ELSE "lastErr"]
            /\ rp' = rp
    /\ UNCHANGED <<src_vars, snd_vars, net_vars, rman, final, res_vars, hand, busy, disk_vars>>

-----------------------------------------------------------------------------
(* The end of a transfer: verify_summary, commit_stage, Completed.         *)

Joined == \A w \in Expected : rw[w] \in {"ended", "spent"}
HasSummary == toR # <<>> /\ Head(toR).k = "summary"

\* verify_summary: every chunk complete; a file with a chunk that did not come
\* in this run is hashed again and must be the manifest's.
AllFresh(f) == fresh[f] >= Cardinality(ChunksOf(f))
\* Mutant: no file is hashed again.
BugNoRehash == {}
Mismatched == {f \in Files : ~AllFresh(f) /\ \E c \in ChunksOf(f) : stage[c].is # rman[f]}

\* Mutant: Completed is sent before commit_stage.
BugCompletedEarly ==
    /\ rp = "stream" /\ Joined /\ HasSummary /\ done = Chunks
    /\ Mismatched = {} /\ Head(toR).man = rman
    /\ rp' = "commit" /\ toR' = Tail(toR)
    /\ toS' = Append(toS, [k |-> "completed", man |-> rman])
    /\ UNCHANGED <<src_vars, snd_vars, up, pipe, stray, mem_vars, disk_vars, faults>>

RcvVerify ==
    /\ rp = "stream" /\ Joined /\ HasSummary /\ done = Chunks
    /\ Mismatched = {} /\ Head(toR).man = rman
    /\ rp' = "commit" /\ toR' = Tail(toR)
    /\ UNCHANGED <<src_vars, snd_vars, toS, up, pipe, stray, mem_vars, disk_vars, faults>>

\* reset_file: the file's chunks are to be sent again.
RcvResetFile(f) ==
    /\ rp = "stream" /\ Joined /\ HasSummary /\ done = Chunks /\ f \in Mismatched
    /\ done' = done \ ChunksOf(f) /\ pend' = 0
    /\ flush' = [step |-> "remove", done |-> done', by |-> 0]
    /\ rp' = "reset"
    /\ UNCHANGED <<src_vars, snd_vars, net_vars, rman, final, had, fresh, rw, hand, busy,
                   disk_vars, faults>>

\* The transfer fails: a handler's error is seen once every stream has been
\* accepted, the end of the control connection also before that.  Handlers
\* still running are aborted where they are.
RcvFails ==
    /\ \/ rp = "stream" /\ Expected # {} /\ ~Accepting /\ \E w \in Workers : rw[w] = "err"
       \/ rp = "stream" /\ Expected # {} /\ Accepting /\ (~up \/ toR # <<>>)
       \/ rp = "stream" /\ Joined /\ ~HasSummary /\ ~up
       \/ rp = "stream" /\ Joined /\ \E w \in Workers : rw[w] = "spent"   \* with_stall
       \/ rp = "stream" /\ Joined /\ HasSummary /\ done # Chunks
       \/ rp = "recheck" /\ toR = <<>> /\ ~up
       \/ rp = "fail"
    /\ RcvReturn(Error)
    /\ UNCHANGED <<src_vars, snd_vars, disk_vars, faults>>

\* Re-completion: the summary is that of the content found.
RcvRecheck ==
    /\ rp = "recheck" /\ HasSummary
    /\ RcvReturn(IF Head(toR).man = rman THEN [k |-> "completed", man |-> rman] ELSE Error)
    /\ UNCHANGED <<src_vars, snd_vars, disk_vars, faults>>

\* What of the stage is still to be moved, and where to.
ToMove == IF multi THEN {n \in Files : \E c \in Within(n) : stage[c].is # None}
          ELSE IF stage # Absent THEN {final} ELSE {}
Staged(n) == [c \in Chunks |-> IF c \in Within(n) THEN stage[c] ELSE Bytes(None)]
Moved(n)  == [c \in Chunks |-> IF c \in Within(n) THEN Bytes(None) ELSE stage[c]]

\* Nothing there: one rename from the stage.
CommitPlace(n) ==
    /\ rp = "commit" /\ n \in ToMove /\ ~Exists(n)
    /\ dest' = [dest EXCEPT ![n] = Staged(n)]
    /\ stage' = Moved(n)
    /\ UNCHANGED <<src_vars, snd_vars, net_vars, rp, mem_vars, state, backup, astray, faults>>

\* A directory is not renamed onto a directory that has something in it.
BackupTaken(n) == n \notin Files /\ backup[n] # Absent

\* Mutant: Overwrite removes what is there before it moves the new content in.
BugRemoveFirst(n) ==
    /\ rp = "commit" /\ n \in ToMove /\ Exists(n) /\ policy = "overwrite"
    /\ dest' = [dest EXCEPT ![n] = Absent]
    /\ rp' = "swap" /\ final' = n
    /\ UNCHANGED <<src_vars, snd_vars, net_vars, rman, res_vars, flush, rw, hand, busy,
                   stage, state, backup, astray, faults>>

\* Overwrite: what is there moves into the state directory, ...
CommitBackup(n) ==
    /\ rp = "commit" /\ n \in ToMove /\ Exists(n) /\ policy = "overwrite" /\ ~BackupTaken(n)
    /\ backup' = [backup EXCEPT ![n] = dest[n]]
    /\ dest' = [dest EXCEPT ![n] = Absent]
    /\ rp' = "swap" /\ final' = n
    /\ UNCHANGED <<src_vars, snd_vars, net_vars, rman, res_vars, flush, rw, hand, busy,
                   stage, state, astray, faults>>

\* ... what is staged takes its place, ...
CommitSwap ==
    /\ rp = "swap"
    /\ dest' = [dest EXCEPT ![final] = Staged(final)]
    /\ stage' = Moved(final)
    /\ rp' = "backup"
    /\ UNCHANGED <<src_vars, snd_vars, net_vars, mem_vars, state, backup, astray, faults>>

\* ... or, when that rename fails, it moves back.
CommitRollback ==
    /\ rp = "swap" /\ faults < MaxFaults
    /\ dest' = [dest EXCEPT ![final] = backup[final]]
    /\ backup' = [backup EXCEPT ![final] = Absent]
    /\ RcvReturn(Error) /\ faults' = faults + 1
    /\ UNCHANGED <<src_vars, snd_vars, stage, state, astray>>

\* remove_any(backup).
CommitRemoveBackup ==
    /\ rp = "backup"
    /\ backup' = [backup EXCEPT ![final] = Absent]
    /\ rp' = "commit"
    /\ UNCHANGED <<src_vars, snd_vars, net_vars, mem_vars, stage, state, dest, astray, faults>>

\* The other policies refuse a destination that exists; a backup that a killed
\* listener left behind stops the overwrite of a directory.
CommitRefuse(n) ==
    /\ rp = "commit" /\ n \in ToMove /\ Exists(n)
    /\ policy # "overwrite" \/ BackupTaken(n)
    /\ RcvReturn(Error)
    /\ UNCHANGED <<src_vars, snd_vars, disk_vars, faults>>

\* remove_dir_all of the state directory, then Completed.
CommitClean ==
    /\ rp = "commit" /\ ToMove = {}
    /\ rp' = "ack" /\ stage' = Absent /\ state' = NoState
    /\ backup' = [n \in Names |-> Absent]
    /\ UNCHANGED <<src_vars, snd_vars, net_vars, mem_vars, dest, astray, faults>>

RcvCompleted ==
    /\ rp = "ack"
    /\ RcvReturn([k |-> "completed", man |-> rman])
    /\ UNCHANGED <<src_vars, snd_vars, disk_vars, faults>>

-----------------------------------------------------------------------------
(* The listener is killed, and with it the writes under way: each may have  *)
(* changed some of its bytes.  It is started again in the same directory.   *)

Cut(x, hit) ==
    [c \in Chunks |-> Bytes(IF c \in hit /\ ~(x[c].due \subseteq {x[c].is}) THEN Zero ELSE x[c].is)]

RcvCrash ==
    /\ rp # "down" /\ faults < MaxFaults
    /\ \E hit \in SUBSET {c \in Chunks : UnderWay(c) # {}} :
          /\ stage' = Cut(stage, hit)
          /\ dest' = [n \in Names |-> Cut(dest[n], hit)]
          /\ backup' = [n \in Names |-> Cut(backup[n], hit)]
    /\ astray' = astray \cup {c \in Chunks : UnderWay(c) # {}}
    /\ rp' = "down" /\ Forget /\ faults' = faults + 1
    /\ toR' = <<>> /\ up' = FALSE /\ pipe' = Untaken /\ stray' = <<>>
    /\ UNCHANGED <<src_vars, snd_vars, toS, state>>

RcvRestart ==
    /\ rp = "down" /\ rp' = "listen"
    /\ UNCHANGED <<src_vars, snd_vars, net_vars, mem_vars, disk_vars, faults>>

-----------------------------------------------------------------------------
SenderNext ==
    \/ SndStart \/ SndAccepted \/ SndCompleted \/ SndFails
    \/ \E w \in Workers : SndChunk(w) \/ SndWorkerDone(w) \/ SndWorkerComplete(w)

ManifestNext == RcvAlreadyComplete \/ RcvFresh \/ RcvResume \/ RcvRefuse \/ RcvAccept

StreamNext ==
    \E w \in Workers :
        RcvWorker(w) \/ RcvLeftover(w) \/ RcvChunk(w) \/ RcvWrite(w) \/ RcvMark(w)
        \/ RcvWorkerDone(w) \/ RcvWorkerEof(w) \/ FlushBegin(w)

CommitNext ==
    \E n \in Targets :
        CommitPlace(n) \/ CommitBackup(n) \/ CommitRefuse(n)

ReceiverNext ==
    \/ RcvStray \/ ManifestNext \/ StreamNext
    \/ FlushRemove \/ FlushRename
    \/ RcvVerify \/ (\E f \in Files : RcvResetFile(f)) \/ RcvFails \/ RcvRecheck
    \/ CommitNext \/ CommitSwap \/ CommitRemoveBackup \/ CommitClean \/ RcvCompleted \/ RcvRestart

DiskNext == \E c \in Chunks : \E v \in UnderWay(c) : Land(c, v)

Next ==
    \/ SenderNext \/ ReceiverNext \/ DiskNext
    \/ (\E f \in Files : Edit(f)) \/ SndDie
    \/ (\E w \in Workers : RcvStall(w)) \/ RcvReject \/ CommitRollback \/ RcvCrash
    \/ (\E c \in Chunks : \E v \in UnderWay(c) : WriteFails(c, v)) \/ FlushFails

Spec == Init /\ [][Next]_vars

\* The sender is run again after a failure (its message says so), the listener is
\* started again, and a write comes to its end.  As long as one of these can go on,
\* one of them does; more is not needed.
Fairness == WF_vars(SenderNext \/ ReceiverNext \/ DiskNext)
FairSpec == Spec /\ Fairness

-----------------------------------------------------------------------------
(* Properties.                                                             *)

Whole(x, n) == \A c \in Within(n) : x[c].is # None

\* A version of the chunk that this sender's run can have read: the one its scan
\* hashed, or one of a file that was edited while it was being sent.
IsOwn(c, v) ==
    \/ v = man[FileOf[c]]
    \/ FileOf[c] \in torn /\ v >= man[FileOf[c]] /\ v <= src[FileOf[c]]

\* These bytes are the sender's, or will be when a write under way lands; one of
\* a chunk that went astray may have failed.
Arrived(c, x) == c \in astray \/ (\E v \in {x.is} \cup x.due : IsOwn(c, v))

\* What a step moves from the stage to a name.
PutsWhole(n) ==
    dest'[n] # dest[n] /\ (\E c \in Within(n) : stage[c].is # None /\ stage'[c].is = None) =>
        Whole(dest'[n], n) /\ \A c \in Within(n) : Arrived(c, dest'[n][c])

\* Whatever commit_stage moves into the destination is complete and is what the
\* sender read in this run - of a file that nobody edited meanwhile, the content
\* its scan hashed - after any number of interrupted runs, kills, late streams and
\* resumes, but for the chunks of which a write failed unseen or is late.
CommitsWhole == [][\A n \in Names : PutsWhole(n)]_vars

\* A sender that returned Ok (Completed, with its own hash) finds what it sent at
\* the destination, whatever happened to the listener since, but for such chunks.
OkMeansDelivered ==
    LET here(n) == \A c \in Within(n) : Arrived(c, dest[n][c])
    IN  sp = "ok" => IF multi THEN \A f \in Files : here(f)
                     ELSE here("root") \/ here("root (1)")

\* Per-chunk blake3 verification already proves file content: once no write is
\* under way, what the sender was told Ok for is at the destination.
OkMeansThere ==
    LET here(n) == \A c \in Within(n) : dest[n][c].due # {} \/ IsOwn(c, dest[n][c].is)
    IN  sp = "ok" => IF multi THEN \A f \in Files : here(f)
                     ELSE here("root") \/ here("root (1)")

\* verify_summary leaves out the hashing of a file only when none of its chunks
\* is of an earlier run, however often a chunk was written and counted.
FreshIsFresh ==
    rp = "stream" /\ Joined /\ HasSummary =>
        \A f \in Files : AllFresh(f) => ChunksOf(f) \cap had = {}

Kept(n) == Whole(dest[n], n) \/ Whole(backup[n], n)

KeepsContent(n) == Kept(n) => Kept(n)' \/ (rp = "confirm" /\ rp' = "listen")

\* A name that has content keeps content, the old or the new in full, in place or
\* in the state directory, through every step and crash of an overwrite - except
\* when the operator's no to the next offer removes that directory.
OldOrNew == [][\A n \in Names : KeepsContent(n)]_vars

\* What the operator has to settle: a resume state of another manifest, a
\* collision the policy refuses, a backup in the way.
Blocked ==
    \/ state.present /\ state.man # src
    \/ policy # "overwrite" /\ IF multi THEN \E n \in Files : Exists(n)
                               ELSE IF state.present THEN Exists(state.final) ELSE FinalNames = {}
    \/ \E n \in Targets : Exists(n) /\ BackupTaken(n)

\* A transfer that is run again after every failure succeeds, over and over,
\* unless the operator has something to settle.
Recovers == []<>(sp = "ok" \/ Blocked)
=============================================================================
