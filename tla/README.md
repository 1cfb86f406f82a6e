# rust-backup in TLA+

A TLA+ model of rust-backup: the backup session between a source and a
destination, the coordination server that pairs and relays them, the driver that
multiplexes substreams over a connection, the reconnection back-off, and the
program in `vendored-from-bore/` that rust-backup takes its transport from, with
its resumable file transfer, public tunnels and direct paths. TLC checks small
instances of each module; TLAPS proves every invariant and action property of the
runs, the refinement included, for every value of the constants that meets the
assumptions.

## The system

A **source** process registers a channel id with a **coordination server**; a
**destination** process connects to the same id and opens a substream, which the
server relays to the source. Over that one substream the source sends a plan,
waits for the destination's answer, streams the payload and a completion frame;
it takes a fingerprint of its backend before and after.

| Part | State | Operations | Interacts with |
|------|-------|------------|----------------|
| Session runner (`rb-core/src/session.rs`) | position in each loop, first fingerprint, plan, decision | `run_source`, `run_destination` | module traits, chunk channel |
| Chunk channel (`rb-core/src/channel.rs`) | the substream, byte counters | `send_chunk`, `finish_item`, `finish`, `next`, `send_plan`, `recv_plan`, `send_ack`, `recv_ack` | wire framing |
| Wire framing (`rb-core/src/wire.rs`) | none beyond the stream | `send_frame`, `recv_frame`, idle timeouts | the transport |
| Plan, preflight, progress (`plan.rs`, `progress.rs`) | plan, `Preflight.ok`, counters | built by one side, read by the other | session |
| Coordination server (`rb-transport/src/server.rs`) | registry of providers, `max_conns` semaphore, one task per client and per relay | `handle_conn`, `serve_provider`, `serve_consumer`, `relay`, `DropGuard` | clients, over control and data substreams |
| Transport clients (`client.rs`, `channel.rs`, `auth.rs`, `proto.rs`) | control substream, unread messages | `connect_source`, `connect_destination`, `open_stream`, `accept_stream`, handshake | server |
| Carrier pool (`pool.rs`) | one carrier | `pick` | relay |
| Reconnect (`reconnect.rs`) | next delay | `next_delay`, `reset`, `run` | any connect/serve pair; the binary does not call it yet |
| Mux driver (`mux.rs`) | pending open, two queues of 32 | `drive`, `open`, `accept` | yamux |
| CLI (`rust-backup/src/main.rs`, `config.rs`) | position in the target list | `run_session`, `execute` | all of the above |
| Backend modules | none: stubs that return `NotImplemented` | | |
| TLS, endpoint parsing, direct QUIC | none, or a stub | | |

`vendored-from-bore/` is the reference the transport was written from. It is not
built with the workspace, and it is the part with the most state:

| Part | State | Operations | Interacts with |
|------|-------|------------|----------------|
| File transfer (`transfer.rs`) | manifest, chunk queue, `ReceiveState`, staging directory, `state.json`, destination | `run_sender`, `send_transfer`, `run_listener`, `receive_transfer`, `flush_pending`, `verify_summary`, `commit_stage` | a secret tunnel with one control connection and several data streams |
| Public tunnels (`server.rs`, `client.rs`, `pool.rs`) | bound port, pending tokens, carrier pools, registries of direct paths | `serve_tunnel`, `serve_carrier`, `Client::listen`, `maybe_redial_carriers`, `spawn_direct`, `vhost_server_handshake` | visitors, over relayed or direct streams |
| Secret tunnels (`secret.rs`, `client.rs`) | two registries by id, a channel of offers per provider, the proxy's data path | `serve_provider`, `serve_consumer`, `broker_udp`, `Proxy::listen`, `upgrade_task`, `provider_direct` | the server as broker, then each other |
| Address discovery (`holepunch.rs`) | STUN targets, attempts, candidates | `live_stun_target_specs_with_hint`, `discover_reflexive`, `prepare_candidates`, `diagnose` | STUN servers, a UPnP router |

What is hard in it: two loops that must agree on a protocol over a link that may
end anywhere; edits of the source backend between the source's reads; results
that are given before the other side has confirmed anything; a registry shared
by tasks that check and insert in two steps and clean up by id; permits that
must come back on every way out of a relay; control messages nobody reads; a
resume state on disk that is saved while writes of the data are still under way;
a write that fails after its chunk was counted; streams, answers and datagrams of an attempt that was given up,
which arrive during the next one.
`PROJECT.json` lists these hazards at their lines, each with the properties
that would catch it.

What makes each part correct:

- session: nothing but the plan is sent before the destination agreed; the
  destination backend is only ever given an undamaged initial part of the
  payload, in order; a Done frame confirms a whole; Ok from the source means one
  content was read; both loops end.
- server: an answer for every client; an entry belongs to a live task; a
  source told Ok can be reached; permits and entries come back; a destination
  is not left behind when its source goes.
- mux driver: every open is answered, once; substreams are handed out in the
  order they arrive and none is lost; dropping one kind of handle does not stop
  the other.
- back-off: doubling, capped, started over by a connection.
- file transfer: Ok means delivered; what is committed is whole and is what this
  sender read; a file is left unhashed only when all its chunks are of this run; an
  overwrite loses neither the old nor the new content; a retry finishes.
- tunnels: one tunnel to a port, and what is registered under the port is its
  own; a broken carrier is replaced, and not by more and more of them; a port comes free.
- direct paths: an answer belongs to the offer, a token to the provider, and a
  candidate to the server it is put down to; an attempt ends; a closed path is
  left.

## Modules

| Module | Models |
|--------|--------|
| `BackupSession` | session runner, chunk channel, framing: both loops, their substream, and the environment |
| `TransferContract` | what a destination backend may see of any run; `BackupSession` is checked to implement it |
| `CoordServer` | server, relay, clients, control protocol, any number of clients and channels |
| `Mux` | one end of a multiplexed connection: `drive`, `Opener`, `Acceptor` |
| `Reconnect` | `Backoff` and the loop around it |
| `Transfer` | the file transfer from the manifest to the commit: sender, listener, data streams, disk |
| `Chunks` | the arithmetic of chunk counts, offsets and lengths |
| `TransferPlan` | what a sender does before its first chunk: sources, scan, manifest, resume plan, chunk tasks |
| `Discovery` | STUN chain, probes, candidates, diagnosis |
| `Startup` | `TransferPlan` and `Discovery` in the order of `run_sender` |
| `Tunnel` | a public port: tunnel, extra carriers, direct carriers, visitors |
| `SecretPath` | the direct path of a secret tunnel: providers, broker, consumers |
| `MC*` | instances for TLC |
| `BackupSession_proofs`, `CoordServer_proofs`, `Mux_proofs`, `Reconnect_proofs`, `Tunnel_proofs`, `SecretPath_proofs`, `Transfer_proofs`, `Startup_proofs` | theorems |

`BackupSession` takes the substream of a paired source and destination as given;
`CoordServer` says how the two get it, and takes substreams as opened at once;
`Mux` says when that is so.

### BackupSession

`srcPc` and `dstPc` name the next `await` of the two functions; each action is
one step of a loop up to the next one, with its early returns (`SrcRecvNack`,
`SrcChunkTooLarge`, `DstSendNack`, `DstBadChunk`; every other `?` is in
`SrcFail`, `DstFail` when the stream has ended and `SrcFault`, `DstFault` when a
module call or a timeout fails). The direction towards the destination is a log `sent`
of frames with a read position `rd`; the other direction carries a single
PlanAck, `ack`. `link` goes down once and for all; `arrives` and `cut` say how
much of the log is still delivered and whether the read after it sees EOF or an
error. A break between two frames, or inside the four length bytes, is EOF to
`recv_frame`; a break inside a body is an error.

The backend is a version number that `Edit` moves; every frame carries the
version it was read from. `Reverts` says whether an earlier content may come
back. What `stream_out` calls on its sink is a constant choice, `Payloads`;
`stream_in` applies every event it pulls and returns on End, as the module trait
asks. `Faults` names what the environment may do: break the link, crash a
process, corrupt raw bytes, fail a module call, stall for the idle timeout,
reject a plan, lose what the transport held when a process exits.

Abstractions: a fingerprint is the exact content, read in one step; BLAKE3 does
not collide; only raw chunk bytes are corrupted (a damaged header is a
deserialization error, which `DstFail` at a cut stands for); `Window` counts
frames where the transport counts bytes; the per-item digests, which only the
backend modules look at, are not there. No code sends `Abort`.

### CoordServer

State per client process (`cl`, `inbox`) and per server task
(`srv`); `registry` and `permits` are shared; `rel` is the relay task of a
destination's substream. `contains_key` and `insert` are separate actions because
the map is shared with tasks on other threads, and so are the lookup of a
provider and the opening of its substream.

Three facts of the code shape the model. `ServerMsg` is internally tagged, and
serde refuses to serialize such a variant around a bare string: `Challenge` and
`Error` are never delivered, their sender fails instead (`Serializable`). Clients
do not read the control substream once connected, so heartbeats pile up until
the task blocks in `send_server` (`hb_blocked`); it then reacts only to the end
of the connection. `open_stream` returns without an answer from the relay, so a
destination learns only from EOF that there was no provider or no permit.

Timing assumption: a control window holds hours of heartbeats and a destination
opens its substream right after Ok, so its task does not block before it has
accepted that substream. One substream per destination, as `execute` uses it.

### Mux

The task `drive` alone polls the yamux connection. `driver` is "poll" inside its
`poll_fn`, "deliver" inside `inbound_tx.send`, "closing" after the loop and
"gone" when it has dropped its ends of the queues. One poll takes a request only
when none is `pending`, tries the outbound substream before it looks for an
inbound one, and can leave a request pending while it delivers. A call of `open`
waits for room in `requests`, then for its oneshot; it fails when nobody owns the
sending half any more (`ReplyOwed`), which the model derives from where the
request is and does not assign. Substreams of the peer are numbered in the order
it opened them. yamux is external: it may refuse a substream, is not ready while
`AckBacklog` are unacknowledged, reads acknowledgements only while it is polled,
and may lose what it has not read when the connection ends.

`drive` polls nothing while it waits for room in the inbound queue. `OpenReturns`
therefore says `Inbound <= Accepts + QueueCap`, and TLC refutes it with one
substream more. In the program this is the source: it accepts one substream, its
queue holds 32, and one more is in `drive`'s hand, so with 34 destinations on a
channel the connection of the backup that is running stands still.

### Reconnect

`MaxU64` stands for the largest u64 and is small in the instances so that the
saturation is reached. `MaxFails` bounds consecutive failures; it is above the
number of doublings from any initial delay to its cap.

### Transfer

A run of the sender is offer, chunks, summary, and `Completed` or a failure, after
which it may be run again; the listener is persistent and may be killed at every
step. A file is its chunks; a chunk's content is the version of the file that was
read, `None`, or `Zero` for the hole that `set_len` makes and for bytes of a write
that was cut off. Data streams are `pipe`, numbered as the listener takes them;
`stray` holds streams of an earlier sender that arrive late, which the listener may
take for this one's because both have the same transfer id (`RcvLeftover`).

`handle_worker_connection` takes a chunk in three steps with other tasks between
them: `is_chunk_complete` (`Check`, which puts the chunk into `hand`), seek and
`write_all` (`RcvWrite`), `mark_chunk_complete` (`RcvMark`). A `tokio::fs::File`
hands the bytes to a blocking thread and returns, and nothing flushes it. The model
keeps such a write in `due`, beside the bytes it will change, until it lands or
fails (`Land`, `WriteFails`); it goes where its file is moved, and it outlives an aborted
session. `busy` says which handler it belongs to: the next seek on the same handle waits
for it, and the next write reports its error. The error of a handle's last write is
reported to nobody. So a chunk can be complete, counted, saved in `state.json` and
committed while its bytes are not there. `astray` is a history variable: the chunks of
which a write failed, was cut off or was left over from an earlier session; what the code
promises, it promises for the others. `fresh` is the counter of the code, which a chunk
that two streams carry raises twice, and `AllFresh` compares it as the code does.

On the disk are the stage, `state.json`, the destination, and the backup that an
overwrite makes. A flush is the steps of `flush_pending` and `write_json_atomic` (take
and sync, remove the old file, rename the new one; each may fail), and a commit the
renames of `commit_stage`, so that a kill falls between any two of them. `RcvCrash` is
the end of the process and not of the machine: what was written or renamed stays, and each
write under way may have changed some of its bytes. Power loss is not modelled, because
the code does not guard against it: neither `state.json` nor a directory is ever
synced, so a restart of the machine may find any of them as it was, or an empty
`state.json` that fails every retry. The sync of staged files therefore changes nothing in the
model but that it can fail. `dirty_paths` is not a variable: it is empty exactly when nothing
is pending. A file operation under way when its task is aborted counts as done or as not begun.

`torn` are the files edited while they are being sent. A file all of whose chunks came
in this run is not hashed again, so the listener commits what was sent, a mixture of two
versions included; `CommitsWhole` says of such a file that each chunk is a version this run can
have read.

### TransferPlan, Discovery and Startup

A path is a sequence of names and the disk a function from paths; `Edit` writes,
removes or creates while `scan_entry` walks the tree. `ScanStat`, `ScanDir` and
`ScanFile` are the reads it makes, one at a time, so a file can change between
its size and its hash. What the receiver answers is any set of chunks it may have.
`U32` and `U64` stand for the numbers of values of the two types, and
`ChunkCountFor` wraps as the cast in the code does. `Discovery` keeps every
datagram that was answered in `net`, to arrive late, twice or never. `Startup`
runs the discovery after the plan and before the manifest, unless `--relay-only`.

### Tunnel

Every client asks for the same port. `cli` and `srv` are the two ends of a tunnel,
`con` the extra connections with the client's pump and the server's task of
each, `quic` the direct ones. Guards that run on drop are steps in the order in
which Rust drops them: registry and token, then the listener that frees the
port. `reg` and `nonce` are looked up by port, once to check the token and again to
install the connection; `late` marks a connection whose tunnel was deregistered
between the two, and `DirectOwner` excepts it: such a connection is installed in
the entry of the next tunnel on the port. The monitor that takes a closed connection out of
its pool looks the entry up by port too (`DirRemove`) and may take the same id out of the
pool of the next tunnel; that connection is then open and in no pool (`sv` is "out"). Ids are
given by `DirectPool`, which is not in the repository, so any member may have the id.

A pump ends with its connection (`PumpEnds`), or when a visitor's substream comes in on
it after `listen`, which would take the substream, has returned (`PumpUnheard`). The pool
counts dead members until a visitor prunes them, so `push` may refuse a carrier that was dialed
again; `serve_carrier` goes on holding its connection, and the client counts it as live.
`Redialed` counts what the server has, in the pool and beside it.

### SecretPath

One id, two providers that follow each other, consumers with a first negotiation
(`Proxy::new`) and upgrades (`upgrade_task`). An offer is known by its attempt, a nonce
by its provider. `register_provider_udp_offer` reads channel and nonce of the
entry it finds and inserts, in three steps; `Deregister` removes in two. `overlap`
is a history variable: the providers that registered between these two removals.
`Brokered` excepts them: such a provider keeps the closed channel of the one
before, and its consumers stay on the relay. `late` marks a consumer whose first
negotiation gave up after its offer: `UdpPunch` does not say which offer it answers,
so the next attempt takes the late answer for its own, and `AnswersOwnOffer`
excepts it.

## Runs

Distinct states in parentheses. `transfer` and `clients` take about three minutes each with
two workers, `tunnel` and `secretpath` two, the others less than one.

| Run | Checks | Shows |
|-----|--------|-------|
| `faults` (204k) | `TypeOK`, `NothingBeforeApproval`, `AppliedInOrder`, `AuditSound`, `DoneMeansWhole`, `KeepsContract`, `BothReturn` | all faults at once, two edits, five payloads: what the destination is given, what the results mean, that both sides return |
| `clean` (118) | `RunSucceeds` | without faults, every legal payload arrives and both return Ok |
| `clients` (157k) | `TypeOK`, `NoDanglingEntry`, `PermitsConserved`, `Answered`, `EntryFreed`, `RelayReleased` | any three of two sources, one with a secret the server does not have, and two destinations on one channel; one permit; a client may be killed at any time |
| `mux` (63k) | `TypeOK`, `DisconnectedMeansGone`, `InboundInOrder`, `OpenReturns`, `StreamsArrive` | three callers, queues of one, inbound substreams up to the bound; handles dropped and the connection ended at any point |
| `backoff` (168) | `DelayDoubles` | six settings, saturation included |
| `transfer` (535k) | `OkMeansDelivered`, `FreshIsFresh`, `CommitsWhole`, `OldOrNew`, `Recovers` | two files in three chunks over two streams, a write under way at any time; one source on a name that is taken, under `fail`, `overwrite` and `rename`, or several of which one is taken, under `overwrite`; any one of: an edit, a killed sender (with a stream that comes late) or listener, a failed write, flush or rename, a stall, a no of the operator |
| `tunnel` (223k) | `OwnEntry`, `DirectBounded`, `DirectOwner`, `DialsBounded`, `Redialed`, `PortFreed` | two clients that want one port, in all three kinds of tunnel; two faults |
| `secretpath` (298k) | `AnswersOwnOffer`, `Brokered`, `TokenIsOwn`, `AttemptEnds`, `LeavesClosed` | two providers, a consumer with two upgrades; two faults |
| `startup` (2.1M) | `ManifestAccepted`, `ScanComplete`, `Tiled`, `ReflexiveIsOwn` | sixteen command lines on two trees with two edits, four NATs |

Runs that end in a violation state what a document or comment says and the code
does not do; the findings in `PROJECT.json` quote the line.

| Run | Property | What happens |
|-----|----------|--------------|
| `truncated` | `DestinationOkMeansWhole` | the link ends between frames: partial restore, Ok |
| `race` | `OkMeansReachable` | two sources told Ok, one reachable |
| `lostwrite` | `OkMeansThere` | the last write of a file fails after its chunk was marked complete; no hash is taken again, Ok |

Seen while modelling, and not a run of its own:

- The source returns Ok while its last frames may still be with the transport, and
  nothing acknowledges them.
- A destination that is started before its source is turned away
  (`RelayNoProvider`); the quick start of `README.md` starts it first.
- With a shared secret nobody gets in: `Challenge` cannot be serialized.
- A failing target ends a session of several; the ones after it are not run.
- A transfer that was committed and then interrupted before `remove_dir_all` leaves a
  `state.json`; under `fail` or `rename` the retry is refused as a collision, although
  the message at `transfer.rs:864` says that it will confirm. A backup that a killed
  listener left behind stops every later overwrite of a directory. `Recovers` leaves out
  what the operator has to settle (`Blocked`).
- The handlers of a session that failed are aborted, but not the writes they had under way:
  one may land in the stage of the retry, or in what the retry has already moved to the destination.
- Two streams that carry one chunk count it twice. No commit comes of it: a
  handler that has taken a stream left over never answers the sender's own stream, and
  without that the sender sends no summary. This is `FreshIsFresh`.
- Several sources are committed one by one: after a collision some names are new
  and others old.
- A file of 2^32 chunks or more is planned with the wrapped number of them, on both
  sides alike; `Tiled` and `ChunksTile` leave such sizes out.
- `CarrierPool::push` counts dead carriers: a carrier dialed again before a visitor has
  pruned the pool is turned away, stays connected beside the pool and is never offered to it
  again, and the client, for which it is live, does not dial another. The pool is then
  short until the tunnel ends, although `client.rs:114` and `client.rs:726` speak of keeping it
  full: with `Usable(c)` alone in place of `Usable(c) \cup Refused(c)`, `Redialed` is false. A token whose offer could not be sent is never
  removed from `pending_carriers`. A direct carrier that comes up drains the renewals
  of the others, which are then not retried.
- Each datagram that is no answer uses up one of three attempts, so a STUN server that
  does answer may be missed. `probe_one` takes the first address of a name, the
  live path the first IPv4 address.
- Every early return of `run_source`, a rejected plan included, leaves out the
  second fingerprint, although the documentation says "before/after every run".
- Done is sent before the audit, so a destination may have confirmed a restore
  that the source then reports as `SourceMutated`.
- Equal fingerprints do not exclude an edit that was undone in between: with
  `Reverts = TRUE`, `AuditSound` is false.
- `format_version` is never compared with `PLAN_FORMAT_VERSION`, although
  `plan.rs` says the destination rejects what it does not understand.
- `Error` cannot be serialized any more than `Challenge`: a refused source sees
  the connection close and not the reason.
- `Backoff::reset` restores an initial delay that `new_with` had capped, so
  `DelayDoubles` needs `initial <= max`; `Backoff::new()` has it.

**Bounds.** `ChunkSize` 2 with chunks of 0, 1, 2 and 3 bytes has both sides of the
limit and the empty chunk. The payloads are: two interleaved items, one item in
two chunks, one empty item, none, and one with an illegal second chunk. A window
of two frames makes the source wait. Two edits give a third content. Two
sources and two destinations are what the races need: one to overtake, one to be
overtaken; of the four any three connect (`MaxClients`), and all four in `race`; one permit makes the limit bind; a control window of one message
lets heartbeats block at once. Queues of one and one unacknowledged substream
make three callers and three inbound substreams meet every full queue of `Mux`. One
file of two chunks and one of one, with a flush after two, are what a crash between
chunks, between files and between flushes needs. One fault and one chunk with a write under way
(`MaxFaults`, `MaxWrites`; two of either pass the time limit) reach a write that is lost, one that is late,
a stream that is late and a kill at every step, with the retry after it; of two faults in one
history, such as a kill during the recovery from another, the proofs speak, for every
property but `Recovers`. `SecretPath` has one consumer (two pass the time limit); a
channel of one is full with its first offer. The trees of `startup` have links,
devices, nested and empty directories and a file of `U32` chunks, of
which two overflow `total_bytes`. Sources on the disk go with `--relay-only`, since plan
and addresses share nothing: the addresses are explored with the plan of a stdin
source, and the product would only multiply. One channel is enough: channels share nothing but
the permits, and the proofs are for any number of them. Deadlock is not checked: every model ends when
its processes have returned.

**Fairness.** `BackupSession!FairSpec` is weak fairness of each side's steps: a
task is polled until it returns, and module calls and the operator's answer come
back. `SrcFault` and `DstFault` are not among these steps, so no module failure or
timeout helps a side to return. `CoordServer!FairSpec` is weak fairness per client, per server task and per
relay; `SrvLeave` and `RelayEof` are among these steps because a dead connection
is noticed (TCP keepalive in `shared.rs`). `Mux!FairSpec` is weak fairness of each
step of `drive`, of each call and of `accept`: the executor polls a task that was
woken, and every queue wakes its reader; acknowledgements come as long as the
peer's own `drive` is not blocked, which is the property this end shows of itself. `Transfer!FairSpec` is weak
fairness of sender, listener and writes taken together: the sender is run again after every
failure as its messages ask, the listener is started again, and as long as one of them
can go on, one does; `Tunnel!FairSpec` of every server task,
client loop, re-dial and pump whose connection is gone (a visitor, who would end others, is not promised), where a tick of an interval is not put off for ever
by the other branches of its `select!`; `SecretPath!FairSpec` of the server's loops, the
providers, the proxies and their tasks, and of the branch that watches the direct
path. No fault, kill, edit or heartbeat is ever forced.

## Proofs

| Theorem | States | Rests on |
|---------|--------|----------|
| `BackupSession_proofs!TypeCorrect` | `Spec => []TypeOK` | inductive as it stands |
| `ApprovalFirst` | `Spec => []NothingBeforeApproval` | where each loop stands, tied to `decision`, `ack` and the length of the log |
| `RestoresInOrder` | `Spec => []AppliedInOrder` | `LogShape`, `ReadShape` |
| `AuditIsSound` | `Spec => []AuditSound`, if not `Reverts` | `ReadBetween` |
| `DoneIsWhole` | `Spec => []DoneMeansWhole` | `LogEnd`, `Counted`, `ReadEnd` |
| `ContractKept` | `Spec => KeepsContract`, the refinement of `TransferContract` | the same, and `Approval` |
| `CoordServer_proofs!TypeCorrect` | `Spec => []TypeOK` | `Sound` |
| `PermitsAreConserved` | `Spec => []PermitsConserved` | `Sound` |
| `NoEntryDangles` | `Spec => []NoDanglingEntry` | `Registered` |
| `OkIsReachable` | `Spec => []OkMeansReachable`, if no two sources name one channel | `Reach` |
| `Mux_proofs!TypeCorrect` | `Spec => []TypeOK` | inductive as it stands |
| `NoRequestForgotten` | `Spec => []DisconnectedMeansGone` | `WaitersOwed` |
| `AcceptsInOrder` | `Spec => []InboundInOrder` | `Numbered` |
| `Reconnect_proofs!DelaysDouble` | `Spec => []DelayDoubles`, if no initial delay exceeds its maximum | `Doubling` |
| `Tunnel_proofs!EntryIsOwn` | `Spec => []OwnEntry` | `Owner`, `TokenWithoutDirect` |
| `CarriersBounded` | `Spec => []DirectBounded` | `Counted` |
| `VisitorsReachOwner` | `Spec => []DirectOwner` | `Entered`, `Installed`, `Visits` |
| `DialsAreBounded` | `Spec => []DialsBounded` | `Dialed` |
| `SecretPath_proofs!TokensAreOwn` | `Spec => []TokenIsOwn` | `OneServes`, `Entries`, `Messages` |
| `ProvidersAreBrokered` | `Spec => []Brokered` | the same, `Fresh`, `EntryHasCause`, `Alone` |
| `AnswersAreOwn` | `Spec => []AnswersOwnOffer` | `Attempt`: `Shape`, `InStep`, `OneUnderWay` |
| `Transfer_proofs!TypeCorrect` | `Spec => []Typed` | `Inv` |
| `FreshIsCounted` | `Spec => []FreshIsFresh` | `Count` |
| `OkIsDelivered` | `Spec => []OkMeansDelivered` | `Taking`, `Commit`, `Deliver` |
| `CommitsAreWhole` | `Spec => CommitsWhole` | `Own`, `Taking`, `Commit` |
| `ContentIsKept` | `Spec => OldOrNew` | `Shelf`, `FinalIsFree`, `Commit` |
| `Startup_proofs!ChunksTile` | every byte of a file is in exactly one of the chunks it is planned with | `Division`, `CountExact`, `Apart` |
| `ReflexiveOwn` | `Spec => []ReflexiveIsOwn` | `OwnId`, `SelOwn`, `ObsOwn`, `Judged` |
| `ManifestsAccepted` | `Spec => []ManifestAccepted` | `Scan` (`Ids`, `Measured`, `Rooted`, `Forest`), `Manifest` |
| `PlansTile` | `Spec => []Tiled` | the same, `Resumed`, `Tasked`, and `ChunksTile` |
| `ScansComplete` | `Spec => []ScanComplete` | `Scan`, `Book`, `Parented`, `Summed`, `Untouched` |

They hold for every value of the constants that meets the named assumptions: any
payloads, window, faults and number of edits; any finite set of destinations, any
set of sources and channels; any callers, queue capacities and load; any chunk size
and any size of file that needs fewer than `U32` chunks; any clients, carriers and
visitors of a tunnel; any providers and consumers of an id, any capacity of the
broker's channel, any number of attempts and faults; any files, chunks, streams and
policy of a transfer, any number of kills, edits, writes under way and other faults; any disks,
command lines and number of edits of a sender's start, any STUN servers and NATs; any
delays, number of failures and largest integer of a back-off.

**Assumptions.** Each is an `ASSUME` that TLC evaluates for the instance of the run. Most say
that a constant is a number, or a set of what its comment says. `DiskAssumption`
says that a disk is a tree: it has finitely many paths, made of the names there are, and
what a path is below is a directory. Hypotheses of a theorem,
and not of the module, are that contents do not come back (`AuditIsSound`), that no two
sources name one channel (`OkIsReachable`; the run `race` shows that it is needed), and that
an initial delay is at most its maximum (`DelaysDouble`; `Backoff::new` has it, and the
remark on `reset` above says what happens without).

**Induction.** The provers cannot instantiate an induction theorem that takes a
predicate as a parameter. Where an argument needs one, it is made in one of three ways. A running total is
carried by the invariant itself (`Counted` in `BackupSession_proofs`). A loop
over a list is a recursive function; `RoundsExist` shows that there is one and `RoundsKeep` that
it stays in the set its step stays in, by the least round where it would not (`FirstRound`), which exists
because the order of the numbers is well founded. A power of two is the number of subsets of a
set, which the library knows (`PowerCounts`).

`RestoresInOrder`: what is applied says nothing about the log behind it, so the
invariant first fixes the log (`LogShape`: the plan, then one data frame per
completed call, then StreamEnd and Done, with only `intact` free) and then the
reader (`ReadShape`: what has been applied is the frames of the log between the
plan and the read position). `AuditIsSound`: every frame was read between the
first fingerprint and now (`ReadBetween`: `fpBefore <= ver <= version`), so if the
two ends are equal there was only one content between them; this is where contents that never come
back are needed. `Sound` joins
the types with `PermitsConserved`, since `permits <= MaxConns` after a relay ends
follows only from counting relays. `Registered` adds to `NoDanglingEntry` that a
client that has not connected has no server task, so connecting cannot move a
task away from its entry. `WaitersOwed`: until `drive` is gone, the request of a
waiting call is pending or in the queue, so its oneshot cannot fail earlier.
`Numbered` takes the concatenation in `InboundInOrder` apart into accepted, queued
and in hand, so that a step moves one substream between two of them.

`EntryIsOwn`: entries are keyed by the port, so an entry stays right only if no two
server tasks have the port at once. `Owner` says so: a task between
`create_listener` and the drop of its listener is the one the port is bound to.
`TokenWithoutDirect` keeps the state of a carrier pool apart from that of a direct
path, whose entry is written later. `TokensAreOwn`: a provider's token is made from
the nonce in a `UdpPunch`, which comes from a copy of an entry whose nonce and
channel were read at two moments, perhaps from the entry of a provider that has
left. The invariant follows a nonce all the way: an entry, a copy the broker holds
and a finished registration that lead to a provider still registered carry its
nonce (`Matched`, in `Entries`); in a registration that has read the channel and
not yet the nonce, a channel of its own means that no entry of another provider can
be there to read the nonce from (`Registering`); every offer queued for a provider
carries its nonce (`Messages`); and only one provider is registered at a time
(`OneServes`), so an entry that still leads to one that left cannot be written to.

`DoneIsWhole`: `LogEnd` gives StreamEnd and Done their places in the log, and
`ReadEnd` puts a destination that waits for Done behind StreamEnd, so a Done it reads
comes after all of the payload. The totals of both sides are sums over the calls, and an
induction over data is out of the provers' reach. `Counted` does without one: it says
that there is some running total of the calls so far of which `srcBytes` and `dstBytes`
are two values, and a step only has to continue it by one call. `ContractKept` takes each
action to the contract's step: the destination's answer, a part restored, the verdict, or none.

`OkIsReachable`: `Reach` follows the Ok from the task that inserted the entry, through
the inbox of the client, to the client that has read it, and says at each place that the
entry is there; a task ends only after its client is gone.

`CarriersBounded`: `Counted` says that `dlive` is the number of slots in use. A batch
takes the free slots up to the number missing, and counting those is the only place where
finite sets are needed (`ShortfallBound`). `VisitorsReachOwner`: the entry under the port is that
of the tunnel that serves (`Entered`), so a connection past its token check belongs to the
entry's client or has seen a deregistration (`Installed`), and so does a visitor that took it.
`DialsAreBounded`: a tick reads the counter before it takes `inflight`, and a batch may end in between, so
what it read can be a whole batch behind. `Dialed` keeps that in numbers: `live` is the number of pumps; pumps
and what the batch has still to dial are at most twice `Extra`, and at most `Extra` more than what a tick has read.

`ProvidersAreBrokered`: of a provider that registered while nobody was being removed,
`Alone` says that whatever entry there is, or is half made, is its own; `EntryHasCause`,
that there is none when it comes. `AnswersAreOwn`: nothing in `UdpPunch` names its offer, so
the only reason that an answer is the right one is that there is one at a time. `OneUnderWay`
says so over the request queue, the broker's hand and the answers under way together,
and `InStep` says at which steps of a consumer there may be one at all.

`Transfer_proofs`: one invariant, `Inv`, for all of them. `Session` ties the streams, the
flush and the listener's state together. `Count` is about the counter. It is right as long as
every handler serves a stream of this sender and none has failed (no `Excuse`): then a chunk is in one
place, the queue, a stream, a hand or the complete ones (`OnePlace`), so that no two handlers can mark
it and `fresh` is the number of chunks taken in this run (`Counted`); and with an excuse no
summary is there to be verified (`Ended`). `Own` says of chunks on streams and in hands,
and `Taking` of those written, that they are what this sender read. A write is
spoken for as soon as it is under way: the bytes are the sender's or one of the writes due to them
is (`Arrived`), and all that are due are (`DueOwn`), so it does not matter when it lands nor
whether its file has been moved by then; a chunk of which a write failed or is late is in `astray`.
`Staging` and `Shelf` say what may be in the stage, at a name and in its backup, `Commit` what is moved and what
is still staged in the middle of a commit, `FinalIsFree` which name it goes to, and `Deliver` that
Completed is sent, and believed, only for what is at the destination.

`ReflexiveOwn`: `OwnId` says that answers with the id of the probe under way are its
server's, whatever else is still under way. `ManifestsAccepted`: the disk changes under
the scan, so nothing can be said about the disk. `Forest` is about the scan's own state:
entries made, the entry in hand and the ones that wait are paths of which none is below
another, except below a directory that was entered already. `ScanDir` keeps it because a listing has no name
twice, the start because no two sources have the same name; where two have, the
property lets the receiver refuse. `Manifest` then carries the scan's result to the receiver,
piece by piece. `PlansTile`: `Resumed` says that the receiver claims only chunks of the entry an id names,
so the sender's tasks are the complement; `ChunksTile` gives the one chunk that has a
byte, and it is on one side or the other (`OneSide`). The receiver counts and the sender
lists what is missing: both find nothing at the same time (`CountTells`).

`ScansComplete`: the disk stands still, so the scan's state can be compared with it. A *spot*
is a path together with a source that it is below; those on the disk that the options keep
are the entries to make (`Found`). `Book` gives the scan's state a meaning in spots: some are recorded, one may be
in hand, some wait on the stack, all of them different, and no two that wait or are in hand
are one below the other (`Frontier`). Everything else is still below one of those (`Covered`), so when the
stack is empty all of `Found` has been recorded. `ScanDir` is the step where it can go wrong: a directory is
replaced by its children, and a spot below it is below exactly one child (`WayDown`, where
the disk must be a tree). `Parented` says that what waits hangs from a directory that was recorded, and
`Summed` that `total` is the number of bytes of the files recorded so far. `DelaysDouble`: `Doubling` ties the delay that is
next to the attempts made since the last success; past the maximum doubling changes
nothing (`CappedDoubling`), which also disposes of the saturating multiplication.

Only model-checked: the liveness properties (`BothReturn`, `RunSucceeds`, `Answered`,
`EntryFreed`, `RelayReleased`, `OpenReturns`, `StreamsArrive`, `Recovers`, `Redialed`,
`PortFreed`, `AttemptEnds`, `LeavesClosed`), which are beyond this prover.

## Not modelled

The backend modules are stubs. Argument, YAML and endpoint parsing, TLS, socket
options, plan rendering and log output carry no state. `direct.rs` is a stub. The
HMAC of `auth.rs` is never reached, because no challenge can be sent. `run_session` is
a loop over targets that share nothing.

Of `vendored-from-bore/`: its `mux.rs`, `reconnect.rs` and `auth.rs` are the originals of the
crates' files, which are modelled. The stream from stdin to stdout has no resume and
no commit. Power loss during a transfer is left out (see Transfer). Modes, links and devices at the destination, the codec of paths, progress
bars, HTTP and admin pages, socket tuning, the paired UDP test and the QUIC
set-up are data or input/output. The server side of a vhost tunnel is not in the
repository; `Tunnel` takes it to answer a renewal with an offer, as the client expects.
A consumer's extra carriers, and the remapping of the provider's port with its
release check, are left out of `SecretPath`.

## Plan

In this order:

1. `ControlCodec`: `Delimited` byte by byte with `select!` cancelling a read.
2. `RelayedBackup`: `BackupSession` over `CoordServer`.
