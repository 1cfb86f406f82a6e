---------------------------- MODULE TransferPlan ----------------------------
(***************************************************************************)
(* What a sender of vendored-from-bore/transfer.rs does before its first    *)
(* chunk: gather the sources, show them, scan them into a manifest while    *)
(* other programs go on using the files, send the manifest, and, from the   *)
(* receiver's answer, work out which chunks are still to be sent.          *)
(*                                                                         *)
(* A path is the sequence of its names, and its encoding for the wire is    *)
(* one to one.  A file's content is a size and a version.  Symbolic links   *)
(* lead to nothing that can be read.                                       *)
(***************************************************************************)
EXTENDS Chunks, Sequences, FiniteSets, FiniteSetsExt, SequencesExt

CONSTANTS
    Commands,       \* command lines: SenderOptions
    Trees,          \* what a sender may find on its disk
    NameOrder,      \* every file name, in the order of OsString
    EditSizes,      \* the sizes other programs leave files with
    U64,            \* 2^64, the number of values of a u64
    MaxParallel,    \* MAX_PARALLEL
    Cores,          \* available_parallelism
    ManifestChunk,  \* MANIFEST_CHUNK
    MaxEdits        \* bound: changes other programs make to the tree

Names == {NameOrder[i] : i \in DOMAIN NameOrder}
Paths == Seq(Names \cup {"stdin", ".."})       \* what a command line may name
Kinds == {"dir", "file", "link", "dev"}
Node  == [kind : Kinds \cup {"special"}, size : Nat, ver : Nat]  \* what a disk may have at a path

ASSUME PlanAssumption ==
    /\ U64 \in Nat /\ MaxParallel \in Nat \ {0} /\ Cores \in Nat \ {0}
    /\ ManifestChunk \in Nat \ {0} /\ MaxEdits \in Nat /\ EditSizes \subseteq Nat

ASSUME DiskAssumption ==
    /\ NameOrder \in Seq(STRING)
    /\ \A t \in Trees :
         /\ IsFiniteSet(DOMAIN t)
         /\ \A p \in DOMAIN t : p \in Seq(Names) /\ t[p] \in Node
         /\ \A p \in DOMAIN t : \A n \in 1 .. Len(p) - 1 :      \* a path is below directories
              SubSeq(p, 1, n) \in DOMAIN t /\ t[SubSeq(p, 1, n)].kind = "dir"

VARIABLES
    fs, edits,                 \* the disk; changes made during the scan
    cmd, srcs, stage,          \* options, all_sources, how far the sender is
    stack, cur,                \* scan_entry: still to visit; the entry in hand
    plan, nextId, total,       \* PlannedTransfer.entries, next_id, total_bytes
    got,                       \* the manifest as the receiver has it
    resume, tasks,             \* ManifestAccepted.resume; build_chunk_tasks
    expect, workers            \* worker streams awaited and started

scan_vars == <<stack, cur, plan, nextId, total>>
task_vars == <<resume, tasks, expect, workers>>
plan_vars == <<fs, edits, cmd, srcs, stage, scan_vars, got, task_vars>>

NoCur   == [path |-> <<>>, rel |-> <<>>, id |-> 0, kind |-> "none", size |-> 0]
Stdin   == <<"stdin">>      \* parse_sender_source

\* Path::file_name: a path that ends in ".." has none.
HasName(p) == p # <<>> /\ Last(p) # ".."

Entry(id, rel, kind, size, hash, chunks) ==
    [id |-> id, rel |-> rel, kind |-> kind, size |-> size, hash |-> hash, chunks |-> chunks]
Plain(id, rel, kind) == Entry(id, rel, kind, -1, <<>>, 0)     \* no size, no hash

Regular(es) == {i \in DOMAIN es : es[i].kind = "file"}

\* resolve_parallel; 0 asks for a worker per core, at least 4.
Clamp(n, lo, hi) == IF n < lo THEN lo ELSE IF n > hi THEN hi ELSE n
ResolveParallel(n) == IF n = 0 THEN Clamp(Cores, 4, MaxParallel) ELSE Clamp(n, 1, MaxParallel)

PlanInit ==
    /\ cmd \in Commands /\ fs \in Trees
    /\ edits = 0 /\ srcs = <<>> /\ stage = "gather"
    /\ stack = <<>> /\ cur = NoCur /\ plan = <<>> /\ nextId = 0 /\ total = 0
    /\ got = <<>> /\ resume = <<>> /\ tasks = {} /\ expect = 0 /\ workers = 0

-----------------------------------------------------------------------------
(* Other programs. *)

InScan == stage \in {"confirm", "plan", "scan"}

\* A file is written to, a path without children goes away, a file appears.
Edit ==
    /\ InScan /\ edits < MaxEdits
    /\ \/ \E p \in DOMAIN fs, s \in EditSizes :
            /\ fs[p].kind = "file"
            /\ fs' = [fs EXCEPT ![p].size = s, ![p].ver = @ + 1]
       \/ \E p \in DOMAIN fs :
            /\ \A q \in DOMAIN fs : Len(q) > Len(p) => SubSeq(q, 1, Len(p)) # p
            /\ fs' = [q \in DOMAIN fs \ {p} |-> fs[q]]
       \/ \E p \in DOMAIN fs, n \in Names, s \in EditSizes :
            LET q == Append(p, n)
            IN /\ fs[p].kind = "dir" /\ q \notin DOMAIN fs /\ n \notin {"stdin", ".."}
               /\ fs' = [r \in DOMAIN fs \cup {q} |->
                            IF r = q THEN [kind |-> "file", size |-> s, ver |-> 0] ELSE fs[r]]
    /\ edits' = edits + 1
    /\ UNCHANGED <<cmd, srcs, stage, scan_vars, got, task_vars>>

-----------------------------------------------------------------------------
(* run_sender: the sources. *)

ASSUME CommandAssumption ==
    \A c \in Commands : c.sources \in Seq(Paths) /\ c.lines \in Seq([path : Paths, hash : BOOLEAN])

\* A line with a '#' anywhere in it is a comment; blank lines are skipped.
ReadSourceFiles(lines) ==
    LET kept[n \in 0 .. Len(lines)] ==
          IF n = 0 THEN <<>>
          ELSE IF lines[n].hash \/ lines[n].path = <<>> THEN kept[n - 1]
          ELSE Append(kept[n - 1], lines[n].path)
    IN kept[Len(lines)]

Gather ==
    /\ stage = "gather"
    /\ srcs' = cmd.sources \o ReadSourceFiles(cmd.lines)
    /\ stage' = IF \/ srcs' = <<>>
                   \/ Len(srcs') > 1 /\ Stdin \in Range(srcs')
                THEN "failed" ELSE "confirm"
    /\ UNCHANGED <<fs, edits, cmd, scan_vars, got, task_vars>>

\* read_source_files: a list that cannot be read ends the sender.
GatherFails ==
    /\ stage = "gather" /\ cmd.lines # <<>>
    /\ stage' = "failed"
    /\ UNCHANGED <<fs, edits, cmd, srcs, scan_vars, got, task_vars>>

Exists(p) == p \in DOMAIN fs \/ ~HasName(p)

\* confirm_sources_sync: every source is looked at; with ask_confirm the user may say no.
Confirm ==
    /\ stage = "confirm"
    /\ \E yes \in (IF cmd.ask THEN BOOLEAN ELSE {TRUE}) :
         stage' = IF yes /\ \A i \in DOMAIN srcs : srcs[i] = Stdin \/ Exists(srcs[i])
                  THEN "plan" ELSE "failed"
    /\ UNCHANGED <<fs, edits, cmd, srcs, scan_vars, got, task_vars>>

-----------------------------------------------------------------------------
(* plan_transfer and scan_entry. *)

Multi == Len(srcs) > 1
Parallel == IF srcs = <<Stdin>> THEN 1 ELSE ResolveParallel(cmd.parallel)

PlanStdin ==
    /\ stage = "plan" /\ srcs = <<Stdin>>
    /\ IF cmd.output
       THEN plan' = <<Plain(0, <<>>, "file")>> /\ stage' = "planned"
       ELSE stage' = "failed" /\ UNCHANGED plan
    /\ UNCHANGED <<fs, edits, cmd, srcs, stack, cur, nextId, total, got, task_vars>>

\* The root's id is given out again (mutant).
BugFirstId == 0

\* next_id: the root that several sources hang below has id 0.
FirstId == IF Multi THEN 1 ELSE 0

\* One source is the root of the manifest; several hang below a root of their own,
\* each under its file name.
PlanScan ==
    /\ stage = "plan" /\ srcs # <<Stdin>>
    /\ IF \A i \in DOMAIN srcs : HasName(srcs[i])
       THEN /\ stage' = "scan"
            /\ stack' = [i \in DOMAIN srcs |->
                           [path |-> srcs[i], rel |-> IF Multi THEN <<Last(srcs[i])>> ELSE <<>>]]
            /\ plan' = IF Multi THEN <<Plain(0, <<>>, "dir")>> ELSE <<>>
            /\ nextId' = FirstId
       ELSE stage' = "failed" /\ UNCHANGED <<stack, plan, nextId>>
    /\ UNCHANGED <<fs, edits, cmd, srcs, cur, total, got, task_vars>>

Excluded(kind) == (kind = "link" /\ ~cmd.links) \/ (kind = "dev" /\ ~cmd.devices)

ScanFailed == stage' = "failed" /\ UNCHANGED scan_vars

\* symlink_metadata, the entry's id and, except for a file's, the entry itself.  The id
\* of an entry that is left out is used up.
ScanStat ==
    /\ stage = "scan" /\ cur = NoCur /\ stack # <<>>
    /\ LET at   == Head(stack)
           node == fs[at.path]
           out  == Excluded(node.kind)
       IN IF \/ at.path \notin DOMAIN fs
             \/ nextId + 1 >= U32
             \/ node.kind \notin Kinds
             \/ out /\ at.rel = <<>>
          THEN ScanFailed
          ELSE /\ nextId' = nextId + 1
               /\ stack' = Tail(stack)
               /\ cur' = IF node.kind \in {"dir", "file"}
                         THEN [path |-> at.path, rel |-> at.rel, id |-> nextId,
                               kind |-> node.kind, size |-> node.size]
                         ELSE NoCur
               /\ plan' = IF node.kind = "file" \/ out THEN plan
                          ELSE Append(plan, Plain(nextId, at.rel, node.kind))
               /\ UNCHANGED <<stage, total>>
    /\ UNCHANGED <<fs, edits, cmd, srcs, got, task_vars>>

Position(n) == CHOOSE i \in DOMAIN NameOrder : NameOrder[i] = n
ChildrenOf(p) == {q \in DOMAIN fs : Len(q) = Len(p) + 1 /\ SubSeq(q, 1, Len(p)) = p}

\* sort_by: the directory's children in the order of their names.
Children(p) ==
    {kids \in [1 .. Cardinality(ChildrenOf(p)) -> ChildrenOf(p)] :
        \A i, j \in DOMAIN kids :
            i < j => Position(Last(kids[i])) < Position(Last(kids[j]))}

\* The entry's children replace what was left of its parent's (mutant).
BugDescend(kids, rest) == kids

\* Depth first: the children, then what was left before them.
Descend(kids, rest) == kids \o rest

\* read_dir, after the directory's own entry; its children come next, sorted.
ScanDir ==
    /\ stage = "scan" /\ cur.kind = "dir"
    /\ IF cur.path \in DOMAIN fs
       THEN \E kids \in Children(cur.path) :
               /\ stack' = Descend([i \in DOMAIN kids |->
                                      [path |-> kids[i], rel |-> Append(cur.rel, Last(kids[i]))]],
                                   stack)
               /\ cur' = NoCur
               /\ UNCHANGED <<stage, plan, nextId, total>>
       ELSE ScanFailed
    /\ UNCHANGED <<fs, edits, cmd, srcs, got, task_vars>>

\* total_bytes.checked_add(size)
AddsUp(size) == total + size < U64

\* hash_file_sync reads the content there is now; the size is the one of the metadata.
ScanFile ==
    /\ stage = "scan" /\ cur.kind = "file"
    /\ IF cur.path \in DOMAIN fs /\ AddsUp(cur.size)
       THEN /\ plan' = Append(plan, Entry(cur.id, cur.rel, "file", cur.size,
                                          <<fs[cur.path].size, fs[cur.path].ver>>,
                                          ChunkCountFor(cur.size)))
            /\ total' = total + cur.size
            /\ cur' = NoCur
            /\ UNCHANGED <<stage, stack, nextId>>
       ELSE ScanFailed
    /\ UNCHANGED <<fs, edits, cmd, srcs, got, task_vars>>

\* scan_filesystem_transfer, scan_multi_filesystem_transfer: nothing to send is an error.
ScanDone ==
    /\ stage = "scan" /\ cur = NoCur /\ stack = <<>>
    /\ stage' = IF Len(plan) <= (IF Multi THEN 1 ELSE 0) THEN "failed" ELSE "planned"
    /\ UNCHANGED <<fs, edits, cmd, srcs, scan_vars, got, task_vars>>

-----------------------------------------------------------------------------
(* The manifest. *)

\* send_transfer: Begin, then the entries, at most MANIFEST_CHUNK to a frame.  The
\* connection keeps their order.
SendBegin ==
    /\ stage = "planned"
    /\ stage' = "sending"
    /\ UNCHANGED <<fs, edits, cmd, srcs, scan_vars, got, task_vars>>

NextPiece ==
    SubSeq(plan, Len(got) + 1,
           IF Len(got) + ManifestChunk < Len(plan) THEN Len(got) + ManifestChunk ELSE Len(plan))

SendPiece ==
    /\ stage = "sending" /\ Len(got) < Len(plan)
    /\ got' = got \o NextPiece
    /\ UNCHANGED <<fs, edits, cmd, srcs, stage, scan_vars, task_vars>>

\* validate_manifest.  A path's ancestors are looked up among the entries before it.
ValidFile(e) ==
    IF srcs = <<Stdin>> THEN e.rel = <<>> /\ e.size = -1
    ELSE e.size # -1 /\ e.hash # <<>> /\ e.chunks = ChunkCountFor(e.size)

ValidManifest(es) ==
    /\ es # <<>> /\ es[1].rel = <<>>
    /\ \A i \in DOMAIN es :
         /\ \A j \in 1 .. i - 1 :
              /\ es[j].id # es[i].id
              /\ es[j].rel # es[i].rel
              /\ IsStrictPrefix(es[j].rel, es[i].rel) => es[j].kind = "dir"
         /\ es[i].kind = "file" => ValidFile(es[i])

\* receive_manifest, up to the collision checks (those are Transfer's).
RcvManifest ==
    /\ stage = "sending" /\ Len(got) = Len(plan)
    /\ stage' = IF ValidManifest(got) THEN "valid" ELSE "refused"
    /\ UNCHANGED <<fs, edits, cmd, srcs, scan_vars, got, task_vars>>

-----------------------------------------------------------------------------
(* What is still to be sent. *)

Indices(e) == 0 .. e.chunks - 1

\* pending_chunks == 0: no term of the sum, chunk_count.saturating_sub(done), is positive.
NonePending(es, done) ==
    \A i \in Regular(es) : es[i].chunks <= Cardinality(done[es[i].id])

\* expected_worker_connections
ExpectedWorkers(es, done) == IF NonePending(es, done) THEN 0 ELSE Clamp(Parallel, 1, MaxParallel)

\* build_resume_plan from the state an earlier session of this manifest left, or
\* all_chunks_complete_plan when the destination already has the content.
RcvAccept ==
    /\ stage = "valid"
    /\ stage' = "accepted"
    /\ \E have \in SUBSET UNION {{got[i].id} \X Indices(got[i]) : i \in Regular(got)} :
         /\ resume' = [f \in {got[i].id : i \in Regular(got)} |->
                         {n \in 0 .. U32 - 1 : <<f, n>> \in have}]
         /\ expect' = IF srcs = <<Stdin>> THEN 0 ELSE ExpectedWorkers(got, resume')
    /\ UNCHANGED <<fs, edits, cmd, srcs, scan_vars, got, tasks, workers>>

\* build_chunk_tasks
ChunkTasks(es, done) ==
    UNION {{[id |-> es[i].id, index |-> n, offset |-> Offset(n), len |-> ChunkLen(es[i].size, n)] :
                n \in Indices(es[i]) \ done[es[i].id]} : i \in Regular(es)}

\* send_transfer after ManifestAccepted; send_chunked_files is called if there is a task.
SndTasks ==
    /\ stage = "accepted"
    /\ stage' = "ready"
    /\ tasks' = ChunkTasks(plan, resume)
    /\ workers' = IF srcs = <<Stdin>> \/ tasks' = {} THEN 0 ELSE Clamp(Parallel, 1, MaxParallel)
    /\ UNCHANGED <<fs, edits, cmd, srcs, scan_vars, got, resume, expect>>

\* validate_chunk_geometry
GeometryOk(e, t) ==
    t.index < e.chunks /\ t.offset = Offset(t.index) /\ t.len = ChunkLen(e.size, t.index)

-----------------------------------------------------------------------------
(* Properties. *)

\* A scan that succeeds, whatever other programs did to the tree meanwhile, gives a
\* manifest that the receiver's validate_manifest takes, unless two sources have the
\* same file name.
ManifestAccepted ==
    stage = "refused" => \E i, j \in DOMAIN srcs : i # j /\ Last(srcs[i]) = Last(srcs[j])

\* Where a path of the disk belongs in the manifest, as something below source i.
Placed(i, p) ==
    (IF Multi THEN <<Last(srcs[i])>> ELSE <<>>) \o SubSeq(p, Len(srcs[i]) + 1, Len(p))

\* What there is to record: each path of the disk, once for every source that it is below,
\* except what --symlinks and --devices leave out.
Found ==
    {x \in (DOMAIN srcs) \X (DOMAIN fs) : IsPrefix(srcs[x[1]], x[2]) /\ ~Excluded(fs[x[2]].kind)}

\* Entry e says of the path x what the disk says of it.
Records(e, x) ==
    LET node == fs[x[2]]
    IN /\ e.rel = Placed(x[1], x[2]) /\ e.kind = node.kind
       /\ e.kind = "file" => e.size = node.size /\ e.hash = <<node.size, node.ver>>

\* The bytes of the files of a manifest.
Bytes(es) == UNION {{i} \X (0 .. es[i].size - 1) : i \in Regular(es)}

\* A directory among the first n entries is where rel hangs.
ParentIn(es, rel, n) ==
    rel # <<>> => \E j \in 1 .. n : es[j].kind = "dir" /\ es[j].rel = Front(rel)

\* On a tree that nobody changed, scan_entry records every path below every source once,
\* except what --symlinks and --devices leave out, each file with its own size and
\* content, each directory before what is in it, and total_bytes counts the bytes.
ScanComplete ==
    (stage = "planned" /\ edits = 0 /\ srcs # <<Stdin>>) =>
        /\ Len(plan) = Cardinality(Found) + (IF Multi THEN 1 ELSE 0)
        /\ \A x \in Found : \E i \in DOMAIN plan : Records(plan[i], x)
        /\ \A i \in DOMAIN plan : ParentIn(plan, plan[i].rel, i - 1)
        /\ total = Cardinality(Bytes(plan))

\* The two sides agree on what is left to do.  Every byte of a file, as the manifest
\* measures it, is in exactly one of the chunks the receiver says it has and the chunks the
\* sender is about to send; the receiver's validate_chunk_geometry takes each of those; and
\* the receiver waits for as many worker streams as the sender opens.  For sizes that need
\* 2^32 chunks the bytes are left out, because the cast of chunk_count_for wraps.
Tiled ==
    /\ stage = "ready" => expect = workers
    /\ (stage = "ready" /\ srcs # <<Stdin>>) =>
        \A i \in Regular(plan) :
            LET e    == plan[i]
                mine == {t \in tasks : t.id = e.id}
            IN /\ \A t \in mine : GeometryOk(e, t)
               /\ Countable(e.size) =>
                    \A b \in 0 .. e.size - 1 :
                      Cardinality({n \in resume[e.id] : InChunk(b, e.size, n)})
                        + Cardinality({t \in mine : t.offset <= b /\ b < t.offset + t.len}) = 1

-----------------------------------------------------------------------------
Planning == \/ Gather \/ GatherFails \/ Confirm \/ PlanStdin \/ PlanScan
            \/ ScanStat \/ ScanDir \/ ScanFile \/ ScanDone
Sending  == SendBegin \/ SendPiece \/ RcvManifest \/ RcvAccept \/ SndTasks
=============================================================================
