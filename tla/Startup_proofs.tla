--------------------------- MODULE Startup_proofs ---------------------------
(***************************************************************************)
(* Proofs about Startup: the chunks of a file (Chunks), the addresses        *)
(* (Discovery), and the plan (TransferPlan).  Neither of the last two touches *)
(* the variables of the other.                                             *)
(***************************************************************************)
EXTENDS Startup, FiniteSetTheorems, WellFoundedInduction, TLAPS

-----------------------------------------------------------------------------
(* Loops.  A loop of the code over a list is a recursive function of the number *)
(* of rounds; what holds of every round is shown for the least round without it. *)

\* f starts with x0 and goes on by step.
IsRun(f, m, x0, step) == f[0] = x0 /\ \A n \in 1 .. m : f[n] = step[<<n, f[n - 1]>>]

\* A set of rounds that is not empty has a first one.
LEMMA FirstRound ==
    ASSUME NEW T \in SUBSET Nat, T # {}
    PROVE  \E x \in T : \A y \in T : x <= y
  <1> DEFINE R == OpToRel(<, Nat)
  <1>1. IsWellFoundedOn(R, Nat)
    BY NatLessThanWellFounded
  <1>2. \A x, y \in Nat : x < y => <<x, y>> \in R
    BY DEF OpToRel
  <1> HIDE DEF R
  <1>3. PICK x \in T : \A y \in T : ~(<<y, x>> \in R)
    BY <1>1, WFMin
  <1>4. \A y \in T : ~(y < x)
    BY <1>2, <1>3, Zenon
  <1>5. \A y \in T : x \in Nat /\ y \in Nat
    OBVIOUS
  <1> QED BY <1>4, <1>5

\* What the first round has and every round keeps, all rounds have.
LEMMA RoundsKeep ==
    ASSUME NEW m \in Nat, NEW S, NEW f, f[0] \in S, \A n \in 1 .. m : f[n - 1] \in S => f[n] \in S
    PROVE  \A n \in 0 .. m : f[n] \in S
  <1> DEFINE T == {n \in 0 .. m : f[n] \notin S}
  <1> SUFFICES ASSUME T # {} PROVE FALSE
    OBVIOUS
  <1>1. PICK x \in T : \A y \in T : x <= y
    <2>1. T \in SUBSET Nat
      OBVIOUS
    <2> HIDE DEF T
    <2> QED BY <2>1, FirstRound
  <1>2. x \in 0 .. m /\ f[x] \notin S
    OBVIOUS
  <1>3. x # 0
    BY <1>2
  <1>4. x \in 1 .. m /\ x - 1 \in 0 .. m /\ ~(x <= x - 1)
    BY <1>2, <1>3
  <1>5. x - 1 \notin T
    BY <1>1, <1>4
  <1>6. f[x - 1] \in S
    BY <1>4, <1>5
  <1> QED BY <1>2, <1>4, <1>6

\* A loop whose rounds are given by a function has its values.
LEMMA RoundsExist ==
    ASSUME NEW m \in Nat, NEW S, NEW x0 \in S, NEW step \in [(1 .. m) \X S -> S]
    PROVE  \E f \in [0 .. m -> S] : IsRun(f, m, x0, step)
  <1> USE DEF IsRun
  <1> DEFINE Runs(k) == {f \in [0 .. k -> S] :
                           f[0] = x0 /\ \A n \in 1 .. k : f[n] = step[<<n, f[n - 1]>>]}
             T == {k \in 0 .. m : Runs(k) = {}}
  <1> SUFFICES ASSUME T # {} PROVE FALSE
    <2>1. m \in 0 .. m
      OBVIOUS
    <2>2. ASSUME Runs(m) # {}
          PROVE  \E f \in [0 .. m -> S] : IsRun(f, m, x0, step)
      BY <2>2
    <2> HIDE DEF Runs
    <2> QED BY <2>1, <2>2
  <1>1. PICK x \in T : \A y \in T : x <= y
    <2>1. T \in SUBSET Nat
      OBVIOUS
    <2> HIDE DEF T
    <2> QED BY <2>1, FirstRound
  <1>2. x \in 0 .. m /\ Runs(x) = {}
    OBVIOUS
  <1>3. x # 0
    <2> SUFFICES ASSUME x = 0 PROVE FALSE
      OBVIOUS
    <2> DEFINE f0 == [n \in 0 .. 0 |-> x0]
    <2>1. f0 \in [0 .. 0 -> S] /\ f0[0] = x0 /\ 1 .. 0 = {}
      OBVIOUS
    <2>2. f0 \in Runs(0)
      BY <2>1
    <2> QED BY <1>2, <2>2
  <1>4. x \in 1 .. m /\ x - 1 \in 0 .. m /\ ~(x <= x - 1) /\ x \in Nat /\ x - 1 \in Nat
    BY <1>2, <1>3
  <1>5. Runs(x - 1) # {}
    <2>1. x - 1 \notin T
      BY <1>1, <1>4
    <2> HIDE DEF Runs
    <2> QED BY <1>4, <2>1
  <1>6. PICK f \in [0 .. x - 1 -> S] :
          f[0] = x0 /\ \A n \in 1 .. x - 1 : f[n] = step[<<n, f[n - 1]>>]
    BY <1>5
  <1> DEFINE last == step[<<x, f[x - 1]>>]
             g == [n \in 0 .. x |-> IF n = x THEN last ELSE f[n]]
  <1>7. f[x - 1] \in S /\ last \in S
    <2>1. x - 1 \in 0 .. x - 1
      BY <1>4
    <2>2. f[x - 1] \in S
      BY <1>6, <2>1
    <2> QED BY <1>4, <2>2
  <1>8. \A n \in 0 .. x : n # x => n \in 0 .. x - 1
    BY <1>4
  <1> HIDE DEF last
  <1>9. g \in [0 .. x -> S]
    BY <1>6, <1>7, <1>8
  <1>10. g[0] = x0
    BY <1>3, <1>4, <1>6
  <1>11. ASSUME NEW n \in 1 .. x PROVE g[n] = step[<<n, g[n - 1]>>]
    <2>1. n \in 0 .. x /\ n - 1 \in 0 .. x /\ n - 1 # x
      BY <1>4
    <2>2. g[n - 1] = f[n - 1]
      BY <2>1
    <2>3. CASE n = x
      <3>1. g[n] = last
        BY <2>1, <2>3
      <3> QED BY <2>2, <2>3, <3>1 DEF last
    <2>4. CASE n # x
      <3>1. n \in 1 .. x - 1 /\ g[n] = f[n]
        BY <1>4, <2>1, <2>4
      <3>2. f[n] = step[<<n, f[n - 1]>>]
        BY <1>6, <3>1
      <3> HIDE DEF g
      <3> QED BY <2>2, <3>1, <3>2
    <2> QED BY <2>3, <2>4
  <1> HIDE DEF g
  <1>12. g \in Runs(x)
    BY <1>9, <1>10, <1>11
  <1> QED BY <1>2, <1>12

-----------------------------------------------------------------------------
(* The chunks of a file tile it, for every chunk size and every size whose    *)
(* chunks a u32 can number (Chunks).                                          *)

\* What integer division gives, for chunk_count_for's div_ceil.
LEMMA Division ==
    ASSUME NEW a \in Nat, NEW d \in Nat \ {0}
    PROVE  /\ a \div d \in Nat
           /\ d * (a \div d) <= a
           /\ a < d * (a \div d) + d
  OBVIOUS

\* Chunks start at least a chunk apart (the offsets of build_chunk_tasks).
LEMMA Apart ==
    ASSUME NEW c \in Nat \ {0}, NEW i \in Nat, NEW j \in Nat, i < j
    PROVE  i * c + c <= j * c
<1>1. PICK k \in Nat : j = i + 1 + k
  <2>1. j - i - 1 \in Nat /\ j = i + 1 + (j - i - 1)
    OBVIOUS
  <2> QED BY <2>1
<1>2. j * c = i * c + c + k * c
  BY <1>1
<1>3. k * c \in Nat
  BY <1>1
<1> QED BY <1>2, <1>3

\* Within the range of a u32 the cast of chunk_count_for changes nothing.
LEMMA CountExact ==
    ASSUME NEW size \in Nat, Countable(size)
    PROVE  /\ ChunkCountFor(size) \in Nat
           /\ ChunkCountFor(size) < U32
           /\ ChunkCountFor(size) = (size + ChunkSize - 1) \div ChunkSize
<1> DEFINE n == (size + ChunkSize - 1) \div ChunkSize
<1>1. ChunkSize \in Nat \ {0} /\ U32 \in Nat \ {0}
  BY ChunkAssumption
<1>2. size + ChunkSize - 1 \in Nat
  BY <1>1
<1>3. n \in Nat /\ ChunkSize * n <= size + ChunkSize - 1
  BY <1>1, <1>2, Division
<1>4. n <= U32 - 1
  <2> SUFFICES ASSUME U32 - 1 < n PROVE FALSE
    BY <1>1, <1>3
  <2>1. (U32 - 1) * ChunkSize + ChunkSize <= n * ChunkSize
    BY <1>1, <1>3, Apart
  <2>2. size <= (U32 - 1) * ChunkSize
    BY DEF Countable
  <2>3. n * ChunkSize = ChunkSize * n
    BY <1>1, <1>3
  <2>4. (U32 - 1) * ChunkSize \in Int /\ ChunkSize * n \in Int
    BY <1>1, <1>3
  <2> HIDE DEF n
  <2> QED BY <1>1, <1>3, <2>1, <2>2, <2>3, <2>4
<1>5. n % U32 = n
  BY <1>1, <1>3, <1>4
<1> QED BY <1>1, <1>3, <1>4, <1>5 DEF ChunkCountFor

\* Every byte of a file lies in exactly one of the chunks that chunk_count_for counts and
\* chunk_len measures, so that the chunks a receiver has and the chunks a sender still
\* sends make up the file, none of it twice.
THEOREM ChunksTile ==
    ASSUME NEW size \in Nat, Countable(size), NEW b \in 0 .. size - 1
    PROVE  \E n \in 0 .. ChunkCountFor(size) - 1 :
              /\ InChunk(b, size, n)
              /\ \A m \in 0 .. ChunkCountFor(size) - 1 : InChunk(b, size, m) => m = n
<1> DEFINE c == ChunkSize
           n == b \div c
           count == (size + c - 1) \div c
<1>1. c \in Nat \ {0} /\ b \in Nat /\ size + c - 1 \in Nat
  BY ChunkAssumption
<1>2. n \in Nat /\ c * n <= b /\ b < c * n + c
  BY <1>1, Division
<1>3. count \in Nat /\ c * count <= size + c - 1 /\ size + c - 1 < c * count + c
  BY <1>1, Division
<1>4. ChunkCountFor(size) = count
  BY CountExact
<1> HIDE DEF n, count
<1>5. n < count
  <2> SUFFICES ASSUME count <= n PROVE FALSE
    BY <1>2, <1>3
  <2>1. c * count <= c * n
    <3>1. CASE count = n
      BY <3>1, <1>1, <1>2
    <3>2. CASE count < n
      <4>1. count * c + c <= n * c
        BY <3>2, <1>1, <1>2, <1>3, Apart
      <4> QED BY <4>1, <1>1, <1>2, <1>3
    <3> QED BY <3>1, <3>2, <1>2, <1>3
  <2>2. size <= c * count
    BY <1>1, <1>3
  <2> QED BY <2>1, <2>2, <1>1, <1>2, <1>3
<1>6. InChunk(b, size, n)
  <2>1. n * c = c * n /\ n * c \in Nat
    BY <1>1, <1>2
  <2> QED BY <2>1, <1>1, <1>2 DEF InChunk, Offset, ChunkLen
<1>7. ASSUME NEW m \in 0 .. count - 1, InChunk(b, size, m) PROVE m = n
  <2>1. m \in Nat /\ m * c \in Nat /\ n * c = c * n
    BY <1>1, <1>2, <1>3
  <2>2. m * c <= b /\ b < m * c + c
    BY <1>1, <1>7, <2>1 DEF InChunk, Offset, ChunkLen
  <2>3. CASE m < n
    <3>1. m * c + c <= n * c
      BY <2>3, <1>1, <1>2, <2>1, Apart
    <3> QED BY <3>1, <2>1, <2>2, <1>1, <1>2
  <2>4. CASE n < m
    <3>1. n * c + c <= m * c
      BY <2>4, <1>1, <1>2, <2>1, Apart
    <3> QED BY <3>1, <2>1, <2>2, <1>1, <1>2
  <2> QED BY <2>3, <2>4, <2>1, <1>2
<1> QED BY <1>2, <1>3, <1>4, <1>5, <1>6, <1>7

-----------------------------------------------------------------------------
(* The reflexive address is the server's own.  An answer counts only with the *)
(* transaction id of the probe under way, and an id is drawn for one server.  *)

Target == [spec : StunSpec, addr : {Resolved(s) : s \in StunSpec}]
OfferKinds == {"reflexive", "predicted", "router", "local"}
Seen   == [name : Servers, addr : Address]
Offer  == [kind : OfferKinds, addr : [ip : STRING, port : Int]]

StunTyped ==
    /\ smode \in {"live", "diagnose"}
    /\ specs \in Seq(StunSpec) /\ targets \in Seq(Target)
    /\ att \in Nat /\ tx \in Nat /\ waiting \in BOOLEAN
    /\ sphase # "idle" => nat \in [Servers -> Address]
    /\ \A m \in net : m.name \in Servers /\ m.tx \in Nat
    /\ cands \in Seq(Offer) /\ obs \in Seq(Seen)

\* Nothing has happened yet.
StunIdle ==
    sphase = "idle" => /\ net = {} /\ targets = <<>> /\ specs = <<>> /\ att = 0 /\ ~waiting
                       /\ sel = NoSel /\ obs = <<>> /\ verdict = "none"

\* While a probe is under way, only its own server can answer with its id.
OwnId ==
    /\ \A m \in net : m.tx <= tx
    /\ waiting \/ att > 0 =>
         /\ targets # <<>>
         /\ \A m \in net : m.tx = tx => m.name = Head(targets).spec.name

\* The first candidate is the address of the server that was selected.
SelOwn ==
    sel # NoSel => /\ sel.name \in Servers /\ sel.addr = nat[sel.name]
                   /\ cands # <<>> /\ cands[1].addr = sel.addr

ObsOwn == \A i \in DOMAIN obs : obs[i].addr = nat[obs[i].name]

\* The verdict is about the observations there are.
Judged ==
    verdict # "none" =>
        /\ sphase = "judged" /\ targets = <<>>
        /\ verdict = ClassifyNat(obs)

StunInv == StunTyped /\ StunIdle /\ OwnId /\ SelOwn /\ ObsOwn /\ Judged

\* No server has been asked at the start.
LEMMA StunInvInit == StunInit => StunInv
  <1> SUFFICES ASSUME StunInit PROVE StunInv
    OBVIOUS
  <1>1. StunTyped
    <2>1. waiting \in BOOLEAN
      BY Zenon DEF StunInit
    <2> QED BY <2>1 DEF StunInit, StunTyped
  <1>2. StunIdle /\ OwnId /\ SelOwn /\ ObsOwn /\ Judged
    BY DEF StunInit, StunIdle, OwnId, SelOwn, ObsOwn, Judged
  <1> QED BY <1>1, <1>2 DEF StunInv

\* The addresses a live discovery may predict are candidates.
LEMMA PredictedTyped ==
    ASSUME NEW a \in Address
    PROVE  Predicted(a) \in Seq(Offer)
  <1> DEFINE room == IF a.port + PredictRange <= MaxPort THEN PredictRange ELSE MaxPort - a.port
  <1>1. PredictRange \in Nat /\ MaxPort \in Nat
    BY StunAssumption
  <1>2. a.port \in 0 .. MaxPort /\ a.ip \in STRING
    BY DEF Address
  <1>3. room \in Nat
    BY <1>1, <1>2
  <1>4. ASSUME NEW d \in 1 .. room
        PROVE  [kind |-> "predicted", addr |-> [a EXCEPT !.port = @ + d]] \in Offer
    <2>1. [a EXCEPT !.port = @ + d] \in [ip : STRING, port : Int]
      BY <1>1, <1>2, <1>3 DEF Address
    <2> QED BY <2>1 DEF Offer, OfferKinds
  <1> HIDE DEF room
  <1>5. [d \in 1 .. room |-> [kind |-> "predicted", addr |-> [a EXCEPT !.port = @ + d]]] \in Seq(Offer)
    BY <1>3, <1>4
  <1> QED BY <1>5 DEF Predicted, room

\* An address that is not there yet goes to the end; the first one stays first.
LEMMA WithKeeps ==
    ASSUME NEW cs \in Seq(Offer), NEW k \in OfferKinds, NEW a \in Address
    PROVE  /\ With(cs, k, a) \in Seq(Offer)
           /\ cs # <<>> => With(cs, k, a) # <<>> /\ With(cs, k, a)[1] = cs[1]
  <1>1. [kind |-> k, addr |-> a] \in Offer
    BY DEF Offer, Address
  <1> QED BY <1>1 DEF With

\* PushUnique adds a server that is not there.
LEMMA PushTyped ==
    ASSUME NEW s \in Seq(StunSpec), NEW t \in StunSpec
    PROVE  PushUnique(s, t) \in Seq(StunSpec)
  BY DEF PushUnique

\* The rounds of live_stun_target_specs_with_hint over a list of servers give servers.
LEMMA ChainTyped ==
    ASSUME NEW all \in Seq(StunSpec), NEW chain,
           chain = CHOOSE c : c = [n \in 0 .. Len(all) |->
                                     IF n = 0 THEN <<>> ELSE PushUnique(c[n - 1], all[n])]
    PROVE  chain[Len(all)] \in Seq(StunSpec)
  <1> DEFINE m == Len(all)
             S == Seq(StunSpec)
             step == [p \in (1 .. m) \X S |-> PushUnique(p[2], all[p[1]])]
  <1>1. m \in Nat /\ <<>> \in S /\ \A n \in 1 .. m : all[n] \in StunSpec
    OBVIOUS
  <1>2. \A n \in 1 .. m, s \in S : PushUnique(s, all[n]) \in S
    BY <1>1, PushTyped
  <1> HIDE DEF m, S
  <1>3. step \in [(1 .. m) \X S -> S] /\ \A n \in 1 .. m, s \in S : step[<<n, s>>] = PushUnique(s, all[n])
    BY <1>2
  <1> HIDE DEF step
  <1>4. PICK f \in [0 .. m -> S] : f[0] = <<>> /\ \A n \in 1 .. m : f[n] = step[<<n, f[n - 1]>>]
    <2>1. m \in Nat
      BY <1>1
    <2>2. <<>> \in S
      BY <1>1
    <2>3. step \in [(1 .. m) \X S -> S]
      BY <1>3
    <2>4. \E f \in [0 .. m -> S] : IsRun(f, m, <<>>, step)
      BY <2>1, <2>2, <2>3, RoundsExist, Zenon
    <2> QED BY <2>4, Zenon DEF IsRun
  <1>5. \A n \in 0 .. m : n # 0 => n \in 1 .. m /\ n - 1 \in 0 .. m
    BY <1>1
  <1>6. \A n \in 0 .. m : f[n] = IF n = 0 THEN <<>> ELSE PushUnique(f[n - 1], all[n])
    <2>1. \A n \in 1 .. m : f[n - 1] \in S
      BY <1>1, <1>4
    <2> QED BY <1>3, <1>4, <1>5, <2>1
  <1>7. f = [n \in 0 .. m |-> IF n = 0 THEN <<>> ELSE PushUnique(f[n - 1], all[n])]
    BY <1>4, <1>6
  <1>8. chain = [n \in 0 .. m |-> IF n = 0 THEN <<>> ELSE PushUnique(chain[n - 1], all[n])]
    BY <1>7 DEF m
  <1>9. chain[0] = <<>> /\ \A n \in 1 .. m : chain[n] = PushUnique(chain[n - 1], all[n])
    <2>1. 0 \in 0 .. m /\ \A n \in 1 .. m : n \in 0 .. m /\ n # 0
      BY <1>1
    <2> QED BY <1>8, <2>1
  <1>10. \A n \in 0 .. m : chain[n] \in S
    <2>1. \A n \in 1 .. m : chain[n - 1] \in S => chain[n] \in S
      BY <1>2, <1>9
    <2>2. chain[0] \in S
      BY <1>1, <1>9
    <2> QED BY <1>1, <2>1, <2>2, RoundsKeep
  <1>11. m \in 0 .. m
    BY <1>1
  <1> QED BY <1>10, <1>11 DEF m, S

\* The chain is one of servers.
LEMMA SpecsTyped ==
    ASSUME NEW over \in Overrides, NEW hint \in Hints, NEW to \in {"none", OwnStun}
    PROVE  LiveSpecs(over, hint) \in Seq(StunSpec) /\ DiagnoseSpecs(over, to) \in Seq(StunSpec)
  <1>2. ASSUME NEW n \in Servers \cup {"none"}, NEW src \in {"override", "hint", "own"} PROVE Given(n, src) \in Seq(StunSpec)
    <2>1. CASE n = "none"
      BY <2>1 DEF Given
    <2>2. CASE n # "none"
      <3>1. [name |-> n, src |-> src] \in StunSpec
        BY <2>2 DEF StunSpec
      <3> QED BY <2>2, <3>1 DEF Given
    <2> QED BY <2>1, <2>2
  <1>3. PublicSpecs \in Seq(StunSpec)
    <2>1. PublicStun \in Seq(Servers)
      BY StunAssumption, Zenon
    <2>2. \A i \in 1 .. Len(PublicStun) : [name |-> PublicStun[i], src |-> "public"] \in StunSpec
      BY <2>1 DEF StunSpec
    <2>3. DOMAIN PublicStun = 1 .. Len(PublicStun) /\ Len(PublicStun) \in Nat
      BY <2>1
    <2> QED BY <2>2, <2>3 DEF PublicSpecs
  <1>4. over \in Servers \cup {"none"} /\ to \in Servers \cup {"none"}
    BY StunAssumption, Zenon
  <1>5. Given(over, "override") \in Seq(StunSpec) /\ Given(to, "own") \in Seq(StunSpec)
    BY <1>2, <1>4
  <1>6. LiveSpecs(over, hint) \in Seq(StunSpec)
    <2> DEFINE all == Given(hint, "hint") \o PublicSpecs \o Given(OwnStun, "own")
               chain == CHOOSE c : c = [n \in 0 .. Len(all) |->
                                          IF n = 0 THEN <<>> ELSE PushUnique(c[n - 1], all[n])]
    <2>1. hint \in Servers \cup {"none"} /\ OwnStun \in Servers \cup {"none"}
      BY StunAssumption, Zenon
    <2>2. Given(hint, "hint") \in Seq(StunSpec) /\ Given(OwnStun, "own") \in Seq(StunSpec)
      BY <1>2, <2>1
    <2>3. all \in Seq(StunSpec)
      BY <1>3, <2>2
    <2>4. LiveSpecs(over, hint) = IF over # "none" THEN Given(over, "override") ELSE chain[Len(all)]
      BY DEF LiveSpecs
    <2> HIDE DEF all
    <2>5. chain[Len(all)] \in Seq(StunSpec)
      BY <2>3, ChainTyped
    <2> HIDE DEF chain
    <2> QED BY <1>5, <2>4, <2>5
  <1> QED BY <1>3, <1>5, <1>6 DEF DiagnoseSpecs

\* What a target is does not change once the mode is set.
LEMMA SameTargets ==
    ASSUME smode' = smode
    PROVE  Target' = Target
  BY DEF Target, Resolved

\* Names are chosen before anything has been asked.
LEMMA BeginKeeps ==
    ASSUME StunInv, NEW mode \in {"live", "diagnose"}, StunBegin(mode)
    PROVE  StunInv'
  <1>1. /\ sphase = "idle" /\ sphase' = "resolve" /\ smode' = mode /\ nat' \in Nats
        /\ UNCHANGED <<targets, att, tx, waiting, net, sel, cands, obs, verdict>>
    BY DEF StunBegin
  <1>2. specs' \in Seq(StunSpec)
    <2>1. PICK over \in Overrides, hint \in Hints, to \in {"none", OwnStun} :
               specs' = IF mode = "live" THEN LiveSpecs(over, hint) ELSE DiagnoseSpecs(over, to)
      BY DEF StunBegin
    <2> QED BY <2>1, SpecsTyped
  <1>3. /\ net = {} /\ targets = <<>> /\ att = 0 /\ ~waiting /\ sel = NoSel /\ obs = <<>>
        /\ verdict = "none"
    BY <1>1 DEF StunInv, StunIdle
  <1>4. nat' \in [Servers -> Address]
    BY <1>1, StunAssumption
  <1>5. StunTyped'
    BY <1>1, <1>2, <1>3, <1>4 DEF StunInv, StunTyped
  <1>6. StunIdle' /\ OwnId'
    BY <1>1, <1>3 DEF StunIdle, OwnId
  <1>7. NoSel' = NoSel
    BY DEF NoSel
  <1>8. SelOwn' /\ ObsOwn' /\ Judged'
    BY <1>1, <1>3, <1>7 DEF SelOwn, ObsOwn, Judged
  <1> QED BY <1>5, <1>6, <1>8 DEF StunInv

\* A name is resolved, or passed over.
LEMMA ResolveKeeps ==
    ASSUME StunInv, StunResolve
    PROVE  StunInv'
  <1>1. /\ sphase = "resolve" /\ specs # <<>> /\ specs' = Tail(specs)
        /\ sphase' \in {"probe", "resolve"}
        /\ UNCHANGED <<smode, att, tx, waiting, nat, net, sel, cands, obs, verdict>>
    BY DEF StunResolve
  <1>2. specs \in Seq(StunSpec) /\ targets \in Seq(Target)
    BY DEF StunInv, StunTyped
  <1>3. Head(specs) \in StunSpec /\ specs' \in Seq(StunSpec)
    BY <1>1, <1>2
  <1> DEFINE t == [spec |-> Head(specs), addr |-> Resolved(Head(specs))]
  <1>4. t \in Target
    BY <1>3 DEF Target
  <1>5. targets' \in {targets, Append(targets, t)}
    BY DEF StunResolve
  <1> HIDE DEF t
  <1>6. /\ targets' \in Seq(Target)
        /\ targets # <<>> => targets' # <<>> /\ Head(targets') = Head(targets)
    BY <1>2, <1>4, <1>5
  <1>7. Target' = Target
    BY <1>1, SameTargets
  <1>8. StunTyped'
    BY <1>1, <1>3, <1>6, <1>7 DEF StunInv, StunTyped
  <1>9. StunIdle' /\ OwnId'
    BY <1>1, <1>6 DEF StunInv, StunIdle, OwnId
  <1>10. SelOwn' /\ ObsOwn' /\ Judged'
    BY <1>1 DEF StunInv, SelOwn, ObsOwn, Judged, NoSel
  <1> QED BY <1>8, <1>9, <1>10 DEF StunInv

\* The next target begins without an id of its own.
LEMMA NextKeeps ==
    ASSUME StunInv, NextTarget, targets # <<>>,
           UNCHANGED <<smode, specs, tx, nat, net, sel, cands, verdict>>,
           obs' \in Seq(Seen), ObsOwn'
    PROVE  StunInv'
  <1>1. /\ targets' = Tail(targets) /\ att' = 0 /\ waiting' = FALSE
        /\ sphase' \in {"resolve", sphase}
    BY DEF NextTarget
  <1>2. sphase # "idle" /\ verdict = "none"
    BY DEF StunInv, StunIdle, Judged
  <1>3. targets' \in Seq(Target) /\ Target' = Target
    BY <1>1, SameTargets DEF StunInv, StunTyped
  <1>4. waiting' \in BOOLEAN
    BY <1>1, Zenon
  <1>5. StunTyped'
    BY <1>1, <1>2, <1>3, <1>4 DEF StunInv, StunTyped
  <1>6. StunIdle' /\ OwnId' /\ Judged'
    BY <1>1, <1>2 DEF StunInv, StunIdle, OwnId, Judged
  <1>7. SelOwn'
    BY DEF StunInv, SelOwn, NoSel
  <1> QED BY <1>5, <1>6, <1>7 DEF StunInv

\* A probe's first request draws a new id; the later ones keep it, and the target.
LEMMA SendKeeps ==
    ASSUME StunInv, StunSend
    PROVE  StunInv'
  <1>1. /\ sphase = "probe" /\ targets # <<>> /\ ~waiting
        /\ UNCHANGED <<smode, specs, nat, sel, cands, obs, verdict>>
    BY DEF StunSend
  <1>a. ObsOwn' /\ obs' \in Seq(Seen)
    BY <1>1 DEF StunInv, ObsOwn, StunTyped
  <1>2. CASE Head(targets).addr.v6
    BY <1>1, <1>2, <1>a, NextKeeps DEF StunSend
  <1>3. CASE ~Head(targets).addr.v6
    <2> DEFINE m0 == Response(tx', Head(targets))
    <2>1. /\ tx' = (IF att = 0 THEN tx + 1 ELSE tx)
          /\ net' = net \cup {m0} /\ waiting' = TRUE
          /\ UNCHANGED <<sphase, targets, att>>
      BY <1>3 DEF StunSend
    <2>2. Head(targets) \in Target /\ att \in Nat /\ tx \in Nat /\ tx' \in Nat
      BY <1>1, <2>1 DEF StunInv, StunTyped
    <2>3. m0.tx = tx' /\ m0.name = Head(targets).spec.name /\ m0.name \in Servers
      BY <2>2 DEF Response, Target, StunSpec
    <2> HIDE DEF m0
    <2>4. Target' = Target /\ waiting' \in BOOLEAN
      BY <1>1, <2>1, SameTargets, Zenon
    <2>5. StunTyped'
      BY <1>1, <2>1, <2>2, <2>3, <2>4 DEF StunInv, StunTyped
    <2>6. \A m \in net : m.tx \in Nat /\ m.tx <= tx /\ (att > 0 /\ m.tx = tx => m.name = Head(targets).spec.name)
      BY DEF StunInv, StunTyped, OwnId
    <2>7. OwnId'
      BY <1>1, <2>1, <2>2, <2>3, <2>6 DEF OwnId
    <2>8. StunIdle' /\ SelOwn' /\ Judged'
      BY <1>1, <2>1 DEF StunInv, StunIdle, SelOwn, Judged, NoSel
    <2> QED BY <1>a, <2>5, <2>7, <2>8 DEF StunInv
  <1> QED BY <1>2, <1>3

\* An attempt that brought nothing keeps the probe, or gives the target up.
LEMMA MissKeeps ==
    ASSUME StunInv, waiting, Missed, UNCHANGED <<smode, specs, tx, nat, net, sel, cands, obs, verdict>>
    PROVE  StunInv'
  <1>1. targets # <<>> /\ \A m \in net : m.tx = tx => m.name = Head(targets).spec.name
    BY DEF StunInv, OwnId
  <1>2. ObsOwn' /\ obs' \in Seq(Seen)
    BY DEF StunInv, ObsOwn, StunTyped
  <1>3. CASE NextTarget
    BY <1>1, <1>2, <1>3, NextKeeps
  <1>4. CASE att' = att + 1 /\ waiting' = FALSE /\ UNCHANGED <<sphase, targets>>
    <2>1. Target' = Target /\ waiting' \in BOOLEAN
      BY <1>4, SameTargets, Zenon
    <2>2. StunTyped'
      BY <1>2, <1>4, <2>1 DEF StunInv, StunTyped
    <2>3. OwnId'
      BY <1>1, <1>4 DEF StunInv, OwnId
    <2>4. StunIdle'
      BY <1>1, <1>4 DEF StunInv, StunIdle
    <2>5. SelOwn' /\ Judged'
      BY <1>4 DEF StunInv, SelOwn, Judged, NoSel
    <2> QED BY <1>2, <2>2, <2>3, <2>4, <2>5 DEF StunInv
  <1> QED BY <1>3, <1>4 DEF Missed

\* The answer that counts is the selected server's own.
LEMMA RecvKeeps ==
    ASSUME StunInv, NEW m \in net, NEW predict, StunRecv(m, predict)
    PROVE  StunInv'
  <1> DEFINE refl == nat[m.name]
             spec == Head(targets).spec
  <1>1. waiting /\ UNCHANGED <<smode, specs, tx, nat, net, verdict>>
    BY DEF StunRecv
  <1>2. /\ targets # <<>> /\ targets \in Seq(Target)
        /\ \A n \in net : n.tx = tx => n.name = Head(targets).spec.name
    BY <1>1 DEF StunInv, OwnId, StunTyped
  <1>3. CASE ~Answers(m)
    BY <1>1, <1>3, MissKeeps DEF StunRecv
  <1>4. CASE Answers(m)
    <2>1. m.name = spec.name /\ spec.name \in Servers
      <3>1. m.tx = tx
        BY <1>4 DEF Answers
      <3>2. Head(targets) \in Target
        BY <1>2
      <3> QED BY <1>2, <3>1, <3>2 DEF Target, StunSpec
    <2>2. sphase # "idle" /\ verdict = "none"
      BY <1>1, <1>2 DEF StunInv, StunIdle, Judged
    <2>3. refl \in Address /\ refl = nat[spec.name]
      BY <2>1, <2>2 DEF StunInv, StunTyped
    <2>4. CASE smode = "live"
      <3> DEFINE first == [kind |-> "reflexive", addr |-> refl]
                 rest == IF predict THEN Predicted(refl) ELSE <<>>
      <3>1. /\ sel' = [name |-> spec.name, addr |-> refl]
            /\ cands' = <<first>> \o rest
            /\ targets' = <<>> /\ att' = 0 /\ waiting' = FALSE
            /\ UNCHANGED <<sphase, obs>>
        BY <1>4, <2>4 DEF StunRecv
      <3>2. first \in Offer /\ first.addr = refl
        BY <2>3 DEF Offer, OfferKinds, Address
      <3>3. rest \in Seq(Offer)
        BY <2>3, PredictedTyped
      <3>a. sel'.name = spec.name /\ sel'.addr = refl
        BY <3>1
      <3> HIDE DEF first, rest, refl, spec
      <3>4. cands' \in Seq(Offer) /\ cands' # <<>> /\ cands'[1] = first
        BY <3>1, <3>2, <3>3
      <3>5. waiting' \in BOOLEAN
        BY <3>1, Zenon
      <3>6. StunTyped'
        BY <1>1, <3>1, <3>4, <3>5 DEF StunInv, StunTyped
      <3>7. StunIdle' /\ OwnId' /\ Judged'
        BY <1>1, <2>2, <3>1 DEF StunInv, StunIdle, OwnId, Judged
      <3>8. SelOwn'
        BY <1>1, <2>1, <2>3, <3>2, <3>4, <3>a DEF SelOwn
      <3>9. ObsOwn'
        BY <1>1, <3>1 DEF StunInv, ObsOwn
      <3> QED BY <3>6, <3>7, <3>8, <3>9 DEF StunInv
    <2>5. CASE smode # "live"
      <3> DEFINE o == [name |-> spec.name, addr |-> refl]
      <3>1. /\ NextTarget /\ UNCHANGED <<sel, cands>>
            /\ obs' \in {obs, Append(obs, o)}
        BY <1>4, <2>5 DEF StunRecv
      <3>2. o \in Seen /\ o.addr = nat[o.name]
        BY <2>1, <2>3 DEF Seen
      <3>3. obs \in Seq(Seen) /\ ObsOwn
        BY DEF StunInv, StunTyped
      <3> HIDE DEF o
      <3>4. obs' \in Seq(Seen) /\ ObsOwn'
        BY <1>1, <3>1, <3>2, <3>3 DEF ObsOwn
      <3> QED BY <1>1, <1>2, <3>1, <3>4, NextKeeps
    <2> QED BY <2>4, <2>5
  <1> QED BY <1>3, <1>4

\* The candidates that follow leave the first one where it is.
LEMMA OfferKeeps ==
    ASSUME StunInv, NEW upnp, StunOffer(upnp)
    PROVE  StunInv'
  <1>1. /\ smode = "live" /\ sphase = "probe" /\ targets = <<>> /\ sphase' \in {"none", "offered"}
        /\ UNCHANGED <<smode, specs, targets, att, tx, waiting, nat, net, sel, obs, verdict>>
    BY DEF StunOffer
  <1>2. PICK local \in BOOLEAN, router \in RouterMappings(upnp) :
          LET routed == IF router # <<>> /\ local THEN With(cands, "router", router[1]) ELSE cands
          IN cands' = IF local THEN With(routed, "local", Local) ELSE routed
    BY DEF StunOffer
  <1> DEFINE routed == IF router # <<>> /\ local THEN With(cands, "router", router[1]) ELSE cands
  <1>3. router # <<>> => router[1] \in Address
    BY StunAssumption DEF RouterMappings
  <1>4. cands \in Seq(Offer) /\ Local \in Address
    BY StunAssumption DEF StunInv, StunTyped
  <1>5. /\ routed \in Seq(Offer)
        /\ cands # <<>> => routed # <<>> /\ routed[1] = cands[1]
    BY <1>3, <1>4, WithKeeps DEF OfferKinds
  <1>6. cands' = IF local THEN With(routed, "local", Local) ELSE routed
    BY <1>2
  <1> HIDE DEF routed
  <1>7. /\ cands' \in Seq(Offer)
        /\ cands # <<>> => cands' # <<>> /\ cands'[1] = cands[1]
    BY <1>4, <1>5, <1>6, WithKeeps DEF OfferKinds
  <1>8. Target' = Target
    BY <1>1, SameTargets
  <1>9. StunTyped'
    BY <1>1, <1>7, <1>8 DEF StunInv, StunTyped
  <1>10. StunIdle' /\ OwnId' /\ Judged'
    BY <1>1 DEF StunInv, StunIdle, OwnId, Judged
  <1>11. SelOwn' /\ ObsOwn'
    BY <1>1, <1>7 DEF StunInv, SelOwn, ObsOwn, NoSel
  <1> QED BY <1>9, <1>10, <1>11 DEF StunInv

\* The verdict is taken once every answer has been.
LEMMA VerdictKeeps ==
    ASSUME StunInv, StunVerdict
    PROVE  StunInv'
  <1>1. /\ sphase = "probe" /\ targets = <<>> /\ sphase' = "judged" /\ verdict' = ClassifyNat(obs)
        /\ UNCHANGED <<smode, specs, targets, att, tx, waiting, nat, net, sel, cands, obs>>
    BY DEF StunVerdict
  <1>2. Target' = Target
    BY <1>1, SameTargets
  <1>3. StunTyped'
    BY <1>1, <1>2 DEF StunInv, StunTyped
  <1>4. StunIdle' /\ OwnId'
    BY <1>1 DEF StunInv, StunIdle, OwnId
  <1>5. Judged'
    BY <1>1 DEF Judged
  <1>6. SelOwn' /\ ObsOwn'
    BY <1>1 DEF StunInv, SelOwn, ObsOwn, NoSel
  <1> QED BY <1>3, <1>4, <1>5, <1>6 DEF StunInv

\* Each step of a discovery, and every other step, keeps what is known about the answers.
LEMMA StunInvStep == StunInv /\ [Next]_vars => StunInv'
  <1> SUFFICES ASSUME StunInv, [Next]_vars PROVE StunInv'
    OBVIOUS
  <1>1. CASE UNCHANGED stun_vars
    BY <1>1 DEF stun_vars, StunInv, StunTyped, StunIdle, OwnId, SelOwn, ObsOwn, Judged, NoSel,
                Target, Resolved
  <1>2. CASE Plans \/ Edits \/ Sends
    BY <1>1, <1>2 DEF Plans, Edits, Sends
  <1>3. CASE Connects \/ Diagnoses
    BY <1>3, BeginKeeps DEF Connects, Diagnoses
  <1>4. CASE Discovers
    <2>1. CASE StunMiss
      BY <2>1, MissKeeps DEF StunMiss
    <2>2. CASE StunRecvFails
      <3>1. targets # <<>> /\ ObsOwn' /\ obs' \in Seq(Seen)
        BY <2>2 DEF StunRecvFails, StunInv, OwnId, ObsOwn, StunTyped
      <3> QED BY <2>2, <3>1, NextKeeps DEF StunRecvFails
    <2>3. CASE \E m \in net : StunRecv(m, cmd.predict)
      BY <2>3, RecvKeeps
    <2> QED BY <1>4, <2>1, <2>2, <2>3, ResolveKeeps, SendKeeps, OfferKeeps, VerdictKeeps
            DEF Discovers, StunNext
  <1>5. CASE UNCHANGED vars
    BY <1>1, <1>5 DEF vars
  <1> QED BY <1>2, <1>3, <1>4, <1>5 DEF Next

\* How many different addresses the observations show.
LEMMA Distinct ==
    ASSUME NEW S, IsFiniteSet(S), S # {}
    PROVE  /\ (\A a, b \in S : a = b) => Cardinality(S) = 1
           /\ ~(\A a, b \in S : a = b) => Cardinality(S) > 1
  <1>1. ASSUME \A a, b \in S : a = b PROVE Cardinality(S) = 1
    <2>1. PICK a \in S : S = {a}
      BY <1>1
    <2> QED BY <2>1, FS_Singleton
  <1>2. ASSUME NEW a \in S, NEW b \in S, a # b PROVE Cardinality(S) > 1
    <2>1. Cardinality({a}) = 1
      BY FS_Singleton
    <2>2. IsFiniteSet({a}) /\ {a} \subseteq S /\ {a} # S
      BY <1>2, FS_Singleton
    <2>3. Cardinality({a}) < Cardinality(S)
      BY <2>2, FS_Subset, FS_CardinalityType
    <2> QED BY <2>1, <2>3
  <1> QED BY <1>1, <1>2

\* For any servers, NATs, overrides and hints, and whatever answers come late: the
\* reflexive address is the one the selected server saw, every observation is its server's
\* own, and the verdict is true of the NATs for the servers that answered.
THEOREM ReflexiveOwn == Spec => []ReflexiveIsOwn
  <1>1. StunInv => ReflexiveIsOwn
    <2> SUFFICES ASSUME StunInv PROVE ReflexiveIsOwn
      OBVIOUS
    <2> DEFINE seen == {nat[obs[i].name] : i \in DOMAIN obs}
               addrs == {obs[i].addr : i \in DOMAIN obs}
    <2>1. obs \in Seq(Seen) /\ DOMAIN obs = 1 .. Len(obs) /\ Len(obs) \in Nat
      BY DEF StunInv, StunTyped
    <2>2. seen = addrs
      BY DEF StunInv, ObsOwn
    <2>3. IsFiniteSet(addrs)
      <3>1. IsFiniteSet(1 .. Len(obs))
        BY <2>1, FS_Interval
      <3> DEFINE f == [i \in 1 .. Len(obs) |-> obs[i].addr]
      <3>2. f \in Surjection(1 .. Len(obs), addrs)
        BY <2>1 DEF Surjection
      <3> HIDE DEF f, addrs
      <3> QED BY <3>1, <3>2, FS_Surjection
    <2>4. obs # <<>> => addrs # {}
      BY <2>1
    <2>5. ASSUME verdict = "cone" PROVE Cardinality(addrs) = 1 /\ Len(obs) > 1
      <3>1. ClassifyNat(obs) = "cone"
        BY <2>5 DEF StunInv, Judged
      <3>2. obs # <<>> /\ Len(obs) # 1 /\ SameMapping(addrs)
        <4>1. obs # <<>> /\ Len(obs) # 1
          BY <3>1 DEF ClassifyNat
        <4>2. SameMapping(addrs)
          BY <3>1 DEF ClassifyNat
        <4> QED BY <4>1, <4>2
      <3>3. Len(obs) > 1
        BY <2>1, <3>2
      <3> HIDE DEF addrs
      <3> QED BY <2>3, <2>4, <3>2, <3>3, Distinct DEF SameMapping
    <2>6. ASSUME verdict = "symmetric" PROVE Cardinality(addrs) > 1
      <3>1. ClassifyNat(obs) = "symmetric"
        BY <2>6 DEF StunInv, Judged
      <3>2. obs # <<>> /\ ~SameMapping(addrs)
        BY <3>1 DEF ClassifyNat
      <3> HIDE DEF addrs
      <3> QED BY <2>3, <2>4, <3>2, Distinct DEF SameMapping
    <2>7. sel # NoSel => sel.addr = nat[sel.name] /\ cands[1].addr = sel.addr
      BY DEF StunInv, SelOwn
    <2>8. \A i \in DOMAIN obs : obs[i].addr = nat[obs[i].name]
      BY DEF StunInv, ObsOwn
    <2> HIDE DEF addrs
    <2> QED BY <2>2, <2>5, <2>6, <2>7, <2>8 DEF ReflexiveIsOwn
  <1>2. Init => StunInv
    BY StunInvInit DEF Init
  <1> QED BY <1>1, <1>2, StunInvStep, PTL DEF Spec

-----------------------------------------------------------------------------
(* The plan: types. *)

PlanEntry == [id : Nat, rel : Paths, kind : Kinds, size : Nat \cup {-1}, hash : Seq(Nat), chunks : Nat]
Visit     == [path : Paths, rel : Paths]
InHand    == [path : Paths, rel : Paths, id : Nat, kind : {"none", "dir", "file"}, size : Nat]

PlanTyped ==
    /\ cmd \in Commands /\ srcs \in Seq(Paths)
    /\ IsFiniteSet(DOMAIN fs)
    /\ \A p \in DOMAIN fs : p \in Seq(Names) /\ fs[p] \in Node
    /\ stack \in Seq(Visit) /\ cur \in InHand /\ nextId \in Nat
    /\ plan \in Seq(PlanEntry) /\ got \in Seq(PlanEntry)

\* The paths of a disk are paths a command line could name.
LEMMA DiskPaths == Seq(Names) \subseteq Paths
  BY DEF Paths

\* The rounds of read_source_files over the lines of a list give paths.
LEMMA KeptTyped ==
    ASSUME NEW lines \in Seq([path : Paths, hash : BOOLEAN]), NEW kept,
           kept = CHOOSE k : k = [n \in 0 .. Len(lines) |->
                                    IF n = 0 THEN <<>>
                                    ELSE IF lines[n].hash \/ lines[n].path = <<>> THEN k[n - 1]
                                    ELSE Append(k[n - 1], lines[n].path)]
    PROVE  kept[Len(lines)] \in Seq(Paths)
  <1> DEFINE m == Len(lines)
             S == Seq(Paths)
             skip(n) == lines[n].hash \/ lines[n].path = <<>>
             next(s, n) == IF skip(n) THEN s ELSE Append(s, lines[n].path)
             step == [p \in (1 .. m) \X S |-> next(p[2], p[1])]
  <1>1. m \in Nat /\ <<>> \in S /\ \A n \in 1 .. m : lines[n].path \in Paths
    <2>1. \A n \in 1 .. m : lines[n] \in [path : Paths, hash : BOOLEAN]
      <3> DEFINE L == [path : Paths, hash : BOOLEAN]
      <3>1. lines \in Seq(L)
        OBVIOUS
      <3> HIDE DEF L
      <3>2. \A n \in 1 .. m : lines[n] \in L
        BY <3>1
      <3> QED BY <3>2 DEF L
    <2> QED BY <2>1
  <1> HIDE DEF skip
  <1>2. \A n \in 1 .. m, s \in S : next(s, n) \in S
    <2> SUFFICES ASSUME NEW n \in 1 .. m, NEW s \in S PROVE next(s, n) \in S
      OBVIOUS
    <2>1. Append(s, lines[n].path) \in S
      BY <1>1
    <2> QED BY <2>1
  <1>3. kept = CHOOSE k : k = [n \in 0 .. m |-> IF n = 0 THEN <<>> ELSE next(k[n - 1], n)]
    BY Zenon DEF skip
  <1> HIDE DEF m, S, next
  <1>4. step \in [(1 .. m) \X S -> S] /\ \A n \in 1 .. m, s \in S : step[<<n, s>>] = next(s, n)
    BY <1>2
  <1> HIDE DEF step
  <1>5. PICK f \in [0 .. m -> S] : f[0] = <<>> /\ \A n \in 1 .. m : f[n] = step[<<n, f[n - 1]>>]
    <2>1. m \in Nat
      BY <1>1
    <2>2. <<>> \in S
      BY <1>1
    <2>3. step \in [(1 .. m) \X S -> S]
      BY <1>4
    <2>4. \E f \in [0 .. m -> S] : IsRun(f, m, <<>>, step)
      BY <2>1, <2>2, <2>3, RoundsExist, Zenon
    <2> QED BY <2>4, Zenon DEF IsRun
  <1>6. \A n \in 0 .. m : n # 0 => n \in 1 .. m /\ n - 1 \in 0 .. m
    BY <1>1
  <1>7. \A n \in 0 .. m : f[n] = IF n = 0 THEN <<>> ELSE next(f[n - 1], n)
    <2>1. \A n \in 1 .. m : f[n - 1] \in S
      BY <1>1, <1>5
    <2> QED BY <1>4, <1>5, <1>6, <2>1
  <1>8. f = [n \in 0 .. m |-> IF n = 0 THEN <<>> ELSE next(f[n - 1], n)]
    BY <1>5, <1>7
  <1>9. kept = [n \in 0 .. m |-> IF n = 0 THEN <<>> ELSE next(kept[n - 1], n)]
    BY <1>3, <1>8
  <1>10. kept[0] = <<>> /\ \A n \in 1 .. m : kept[n] = next(kept[n - 1], n)
    <2>1. 0 \in 0 .. m /\ \A n \in 1 .. m : n \in 0 .. m /\ n # 0
      BY <1>1
    <2> QED BY <1>9, <2>1
  <1>11. \A n \in 0 .. m : kept[n] \in S
    <2>1. \A n \in 1 .. m : kept[n - 1] \in S => kept[n] \in S
      BY <1>2, <1>10
    <2>2. kept[0] \in S
      BY <1>1, <1>10
    <2> QED BY <1>1, <2>1, <2>2, RoundsKeep
  <1>12. m \in 0 .. m
    BY <1>1
  <1> QED BY <1>11, <1>12 DEF m, S

\* read_source_files gives the paths of the lines it keeps.
LEMMA ReadTyped ==
    ASSUME NEW lines \in Seq([path : Paths, hash : BOOLEAN])
    PROVE  ReadSourceFiles(lines) \in Seq(Paths)
  <1> DEFINE kept == CHOOSE k : k = [n \in 0 .. Len(lines) |->
                                       IF n = 0 THEN <<>>
                                       ELSE IF lines[n].hash \/ lines[n].path = <<>> THEN k[n - 1]
                                       ELSE Append(k[n - 1], lines[n].path)]
  <1>1. ReadSourceFiles(lines) = kept[Len(lines)]
    BY DEF ReadSourceFiles
  <1>2. kept[Len(lines)] \in Seq(Paths)
    BY KeptTyped
  <1> QED BY <1>1, <1>2

\* chunk_count_for gives a u32.
LEMMA CountTyped ==
    ASSUME NEW size \in Nat
    PROVE  ChunkCountFor(size) \in Nat
  <1>1. ChunkSize \in Nat \ {0} /\ U32 \in Nat \ {0} /\ size + ChunkSize - 1 \in Nat
    BY ChunkAssumption
  <1>2. (size + ChunkSize - 1) \div ChunkSize \in Nat
    BY <1>1, Division
  <1> DEFINE n == (size + ChunkSize - 1) \div ChunkSize
  <1> HIDE DEF n
  <1>3. n % U32 \in Nat
    BY <1>1, <1>2 DEF n
  <1> QED BY <1>3 DEF ChunkCountFor, n

\* Entries without a size or a hash are entries.
LEMMA PlainTyped ==
    ASSUME NEW id \in Nat, NEW rel \in Paths, NEW kind \in Kinds
    PROVE  /\ Plain(id, rel, kind) \in PlanEntry
           /\ Plain(id, rel, kind).id = id /\ Plain(id, rel, kind).rel = rel
           /\ Plain(id, rel, kind).kind = kind /\ Plain(id, rel, kind).size = -1
  <1>1. <<>> \in Seq(Nat)
    OBVIOUS
  <1> QED BY <1>1 DEF Plain, Entry, PlanEntry

\* The entry in hand while there is none, and the start of a name.
LEMMA NoCurTyped == NoCur \in InHand /\ NoCur.kind = "none"
  <1>1. <<>> \in Paths
    BY DEF Paths
  <1> QED BY <1>1 DEF NoCur, InHand

\* The plan starts empty, with a disk and a command line.
LEMMA PlanTypedInit == Init => PlanTyped
  <1> SUFFICES ASSUME PlanInit PROVE PlanTyped
    BY DEF Init
  <1>1. cmd \in Commands /\ fs \in Trees /\ srcs = <<>> /\ stack = <<>> /\ cur = NoCur
        /\ nextId = 0 /\ plan = <<>> /\ got = <<>>
    BY DEF PlanInit
  <1>2. srcs \in Seq(Paths) /\ stack \in Seq(Visit) /\ plan \in Seq(PlanEntry) /\ got \in Seq(PlanEntry)
    BY <1>1
  <1> QED BY <1>1, <1>2, DiskAssumption, NoCurTyped DEF PlanTyped

\* Other programs leave a disk.
LEMMA EditTyped ==
    ASSUME PlanTyped, Edit
    PROVE  /\ IsFiniteSet(DOMAIN fs')
           /\ \A p \in DOMAIN fs' : p \in Seq(Names) /\ fs'[p] \in Node
  <1>0. /\ IsFiniteSet(DOMAIN fs) /\ EditSizes \subseteq Nat
        /\ \A p \in DOMAIN fs : p \in Seq(Names) /\ fs[p] \in Node
    BY PlanAssumption DEF PlanTyped
  <1>1. ASSUME NEW p \in DOMAIN fs, NEW s \in EditSizes,
               fs' = [fs EXCEPT ![p].size = s, ![p].ver = @ + 1]
        PROVE  /\ IsFiniteSet(DOMAIN fs')
               /\ \A q \in DOMAIN fs' : q \in Seq(Names) /\ fs'[q] \in Node
    <2>1. DOMAIN fs' = DOMAIN fs
      BY <1>1
    <2>2. ASSUME NEW q \in DOMAIN fs PROVE fs'[q] \in Node
      <3>1. fs[q] \in Node /\ s \in Nat
        BY <1>0
      <3>2. CASE q = p
        BY <1>1, <3>1, <3>2 DEF Node
      <3>3. CASE q # p
        BY <1>1, <3>1, <3>3
      <3> QED BY <3>2, <3>3
    <2> QED BY <1>0, <2>1, <2>2
  <1>2. ASSUME NEW p \in DOMAIN fs, fs' = [q \in DOMAIN fs \ {p} |-> fs[q]]
        PROVE  /\ IsFiniteSet(DOMAIN fs')
               /\ \A q \in DOMAIN fs' : q \in Seq(Names) /\ fs'[q] \in Node
    <2>1. DOMAIN fs' = DOMAIN fs \ {p}
      BY <1>2
    <2>2. IsFiniteSet(DOMAIN fs \ {p})
      BY <1>0, FS_RemoveElement
    <2> QED BY <1>0, <1>2, <2>1, <2>2
  <1>3. ASSUME NEW p \in DOMAIN fs, NEW n \in Names, NEW s \in EditSizes, NEW q, q = Append(p, n),
               fs' = [r \in DOMAIN fs \cup {q} |->
                        IF r = q THEN [kind |-> "file", size |-> s, ver |-> 0] ELSE fs[r]]
        PROVE  /\ IsFiniteSet(DOMAIN fs')
               /\ \A r \in DOMAIN fs' : r \in Seq(Names) /\ fs'[r] \in Node
    <2>1. DOMAIN fs' = DOMAIN fs \cup {q}
      BY <1>3
    <2>2. IsFiniteSet(DOMAIN fs \cup {q})
      BY <1>0, FS_AddElement
    <2>3. q \in Seq(Names)
      BY <1>0, <1>3
    <2>4. [kind |-> "file", size |-> s, ver |-> 0] \in Node
      BY <1>0 DEF Node, Kinds
    <2>5. \A r \in DOMAIN fs \cup {q} : fs'[r] \in Node
      BY <1>0, <1>3, <2>4
    <2> QED BY <1>0, <2>1, <2>2, <2>3, <2>5
  <1>4. \/ \E p \in DOMAIN fs, s \in EditSizes : fs' = [fs EXCEPT ![p].size = s, ![p].ver = @ + 1]
        \/ \E p \in DOMAIN fs : fs' = [q \in DOMAIN fs \ {p} |-> fs[q]]
        \/ \E p \in DOMAIN fs, n \in Names, s \in EditSizes :
             fs' = [r \in DOMAIN fs \cup {Append(p, n)} |->
                      IF r = Append(p, n) THEN [kind |-> "file", size |-> s, ver |-> 0] ELSE fs[r]]
    BY Zenon DEF Edit
  <1>5. CASE \E p \in DOMAIN fs, s \in EditSizes : fs' = [fs EXCEPT ![p].size = s, ![p].ver = @ + 1]
    BY <1>1, <1>5
  <1>6. CASE \E p \in DOMAIN fs : fs' = [q \in DOMAIN fs \ {p} |-> fs[q]]
    BY <1>2, <1>6
  <1>7. CASE \E p \in DOMAIN fs, n \in Names, s \in EditSizes :
               fs' = [r \in DOMAIN fs \cup {Append(p, n)} |->
                        IF r = Append(p, n) THEN [kind |-> "file", size |-> s, ver |-> 0] ELSE fs[r]]
    BY <1>3, <1>7, Zenon
  <1> QED BY <1>4, <1>5, <1>6, <1>7

\* The children of a directory, in their order, hang below it by their names.
LEMMA KidsTyped ==
    ASSUME PlanTyped, cur.kind = "dir", cur.path \in DOMAIN fs, NEW kids \in Children(cur.path)
    PROVE  /\ DOMAIN kids = 1 .. Len(kids) /\ Len(kids) \in Nat
           /\ \A i \in 1 .. Len(kids) : kids[i] \in Paths /\ Last(kids[i]) \in Names
           /\ \A i, j \in 1 .. Len(kids) : i # j => Last(kids[i]) # Last(kids[j])
  <1> DEFINE S == ChildrenOf(cur.path)
             n == Cardinality(S)
  <1>1. S \subseteq DOMAIN fs /\ \A q \in S : Len(q) = Len(cur.path) + 1
    BY DEF ChildrenOf
  <1>2. n \in Nat
    BY <1>1, FS_Subset, FS_CardinalityType DEF PlanTyped
  <1>3. /\ kids \in [1 .. n -> S]
        /\ \A i, j \in DOMAIN kids : i < j => Position(Last(kids[i])) < Position(Last(kids[j]))
    BY DEF Children
  <1>4. cur.path \in Paths
    BY DEF PlanTyped, InHand
  <1> HIDE DEF n, S
  <1>5. /\ DOMAIN kids = 1 .. n /\ Len(kids) = n
        /\ \A i \in 1 .. n : kids[i] \in S
    BY <1>2, <1>3
  <1>6. ASSUME NEW i \in 1 .. n
        PROVE  /\ kids[i] \in Paths /\ Last(kids[i]) \in Names
               /\ Position(Last(kids[i])) \in Nat
    <2>1. kids[i] \in Seq(Names) /\ Len(kids[i]) = Len(cur.path) + 1
      BY <1>1, <1>5 DEF PlanTyped
    <2>2. kids[i] \in Paths
      BY <2>1, DiskPaths
    <2>3. Len(cur.path) \in Nat
      BY <1>4 DEF Paths
    <2>4. Last(kids[i]) \in Names
      BY <2>1, <2>3 DEF Last
    <2>5. PICK k \in DOMAIN NameOrder : NameOrder[k] = Last(kids[i])
      BY <2>4 DEF Names
    <2>6. Position(Last(kids[i])) \in DOMAIN NameOrder
      BY <2>5 DEF Position
    <2>7. DOMAIN NameOrder \subseteq Nat
      <3>1. NameOrder \in Seq(STRING)
        BY DiskAssumption, Zenon
      <3> QED BY <3>1
    <2> QED BY <2>2, <2>4, <2>6, <2>7
  <1>7. ASSUME NEW i \in 1 .. n, NEW j \in 1 .. n, i < j PROVE Last(kids[i]) # Last(kids[j])
    <2>1. Position(Last(kids[i])) < Position(Last(kids[j]))
      BY <1>3, <1>5, <1>7
    <2> QED BY <1>6, <2>1
  <1>8. ASSUME NEW i \in 1 .. n, NEW j \in 1 .. n, i # j PROVE Last(kids[i]) # Last(kids[j])
    <2>1. i < j \/ j < i
      BY <1>2, <1>8
    <2> QED BY <1>7, <2>1
  <1> QED BY <1>2, <1>5, <1>6, <1>8

\* A file is appended as it was measured.
LEMMA MeasuredTyped ==
    ASSUME PlanTyped, cur.kind = "file", cur.path \in DOMAIN fs
    PROVE  LET e == Entry(cur.id, cur.rel, "file", cur.size,
                          <<fs[cur.path].size, fs[cur.path].ver>>, ChunkCountFor(cur.size))
           IN /\ e \in PlanEntry /\ e.id = cur.id /\ e.rel = cur.rel /\ e.kind = "file"
              /\ e.size = cur.size /\ e.hash # <<>> /\ e.chunks = ChunkCountFor(cur.size)
  <1>1. cur \in InHand /\ fs[cur.path] \in Node
    BY DEF PlanTyped
  <1>2. cur.id \in Nat /\ cur.rel \in Paths /\ cur.size \in Nat
    BY <1>1 DEF InHand
  <1>3. <<fs[cur.path].size, fs[cur.path].ver>> \in Seq(Nat) /\ <<fs[cur.path].size, fs[cur.path].ver>> # <<>>
    BY <1>1 DEF Node
  <1>4. ChunkCountFor(cur.size) \in Nat
    BY <1>2, CountTyped
  <1> QED BY <1>2, <1>3, <1>4 DEF Entry, PlanEntry, Kinds

\* What ScanStat takes up, when it does not fail.
LEMMA StatSplit ==
    ASSUME PlanTyped, ScanStat, stage' # "failed"
    PROVE  LET at == Head(stack)
               node == fs[at.path]
           IN /\ stage = "scan" /\ cur = NoCur /\ stack # <<>> /\ at.path \in DOMAIN fs
              /\ node \in Node /\ node.kind \in Kinds /\ at \in Visit
              /\ nextId' = nextId + 1 /\ stack' = Tail(stack)
              /\ stage' = stage /\ UNCHANGED <<fs, cmd, srcs, got>>
              /\ \/ /\ node.kind \in {"dir", "file"}
                    /\ cur' = [path |-> at.path, rel |-> at.rel, id |-> nextId, kind |-> node.kind,
                               size |-> node.size]
                 \/ node.kind \notin {"dir", "file"} /\ cur' = NoCur
              /\ \/ plan' = plan /\ node.kind # "dir" /\ (at.rel # <<>> \/ node.kind = "file")
                 \/ plan' = Append(plan, Plain(nextId, at.rel, node.kind)) /\ node.kind # "file"
  <1> DEFINE at == Head(stack)
             node == fs[at.path]
             out == Excluded(node.kind)
  <1>1. stage = "scan" /\ cur = NoCur /\ stack # <<>> /\ UNCHANGED <<fs, cmd, srcs, got>>
    BY DEF ScanStat
  <1>2. ~(\/ at.path \notin DOMAIN fs \/ nextId + 1 >= U32 \/ node.kind \notin Kinds
          \/ out /\ at.rel = <<>>)
    BY DEF ScanStat, ScanFailed
  <1>3. /\ nextId' = nextId + 1 /\ stack' = Tail(stack)
        /\ cur' = IF node.kind \in {"dir", "file"}
                  THEN [path |-> at.path, rel |-> at.rel, id |-> nextId, kind |-> node.kind,
                        size |-> node.size]
                  ELSE NoCur
        /\ plan' = IF node.kind = "file" \/ out THEN plan
                   ELSE Append(plan, Plain(nextId, at.rel, node.kind))
        /\ UNCHANGED <<stage, total>>
    BY <1>2 DEF ScanStat
  <1>4. at \in Visit /\ node \in Node
    BY <1>1, <1>2 DEF PlanTyped
  <1>5. out => node.kind \in {"link", "dev"}
    BY DEF Excluded
  <1> HIDE DEF out
  <1> QED BY <1>1, <1>2, <1>3, <1>4, <1>5

\* Every step keeps the plan, the scan and the disk well typed.
LEMMA PlanTypedStep == PlanTyped /\ [Next]_vars => PlanTyped'
  <1> SUFFICES ASSUME PlanTyped, [Next]_vars PROVE PlanTyped'
    OBVIOUS
  <1> USE DEF scan_vars, task_vars
  <1>0. /\ cmd \in Commands /\ srcs \in Seq(Paths) /\ stack \in Seq(Visit) /\ cur \in InHand
        /\ nextId \in Nat /\ plan \in Seq(PlanEntry) /\ got \in Seq(PlanEntry)
    BY DEF PlanTyped
  <1>1. CASE UNCHANGED <<fs, cmd, srcs, stack, cur, nextId, plan, got>>
    BY <1>1 DEF PlanTyped
  <1>2. CASE Edit
    BY <1>2, EditTyped DEF Edit, PlanTyped
  <1>3. CASE Gather
    <2>1. srcs' \in Seq(Paths)
      <3>1. cmd.sources \in Seq(Paths) /\ ReadSourceFiles(cmd.lines) \in Seq(Paths)
        <4>1. cmd.sources \in Seq(Paths) /\ cmd.lines \in Seq([path : Paths, hash : BOOLEAN])
          BY <1>0, CommandAssumption, Zenon
        <4> QED BY <4>1, ReadTyped
      <3>2. srcs' = cmd.sources \o ReadSourceFiles(cmd.lines)
        BY <1>3 DEF Gather
      <3> QED BY <3>1, <3>2
    <2> QED BY <1>3, <2>1 DEF Gather, PlanTyped
  <1>4. CASE GatherFails \/ Confirm \/ ScanDone \/ SendBegin \/ RcvManifest
    BY <1>1, <1>4 DEF GatherFails, Confirm, ScanDone, SendBegin, RcvManifest
  <1>5. CASE RcvAccept \/ SndTasks
    BY <1>1, <1>5 DEF RcvAccept, SndTasks
  <1>6. CASE PlanStdin
    <2>1. Plain(0, <<>>, "file") \in PlanEntry
      <3>1. <<>> \in Paths
        BY DEF Paths
      <3> QED BY <3>1, PlainTyped DEF Kinds
    <2>2. plan' \in {plan, <<Plain(0, <<>>, "file")>>}
      BY <1>6 DEF PlanStdin
    <2> DEFINE e == Plain(0, <<>>, "file")
    <2> HIDE DEF e
    <2>3. e \in PlanEntry /\ plan' \in {plan, <<e>>}
      BY <2>1, <2>2 DEF e
    <2>4. plan' \in Seq(PlanEntry)
      <3>1. plan \in Seq(PlanEntry) /\ <<e>> \in Seq(PlanEntry)
        BY <1>0, <2>3
      <3> QED BY <2>3, <3>1, Zenon
    <2> QED BY <1>6, <2>4 DEF PlanStdin, PlanTyped
  <1>7. CASE PlanScan
    <2>1. UNCHANGED <<fs, cmd, srcs, cur, got>>
      BY <1>7 DEF PlanScan
    <2>2. CASE \A i \in DOMAIN srcs : HasName(srcs[i])
      <3> DEFINE v(i) == [path |-> srcs[i], rel |-> IF Multi THEN <<Last(srcs[i])>> ELSE <<>>]
      <3>1. /\ stack' = [i \in DOMAIN srcs |-> v(i)]
            /\ plan' = IF Multi THEN <<Plain(0, <<>>, "dir")>> ELSE <<>>
            /\ nextId' = FirstId
        BY <1>7, <2>2 DEF PlanScan
      <3>2. DOMAIN srcs = 1 .. Len(srcs) /\ Len(srcs) \in Nat
        BY <1>0
      <3>3. ASSUME NEW i \in DOMAIN srcs PROVE v(i) \in Visit
        <4>1. srcs[i] \in Paths /\ srcs[i] # <<>>
          BY <1>0, <2>2 DEF HasName
        <4>2. <<Last(srcs[i])>> \in Paths /\ <<>> \in Paths
          BY <4>1 DEF Last, Paths
        <4> QED BY <4>1, <4>2 DEF Visit
      <3> HIDE DEF v
      <3>4. stack' \in Seq(Visit)
        BY <3>1, <3>2, <3>3
      <3>5. <<>> \in Paths
        BY DEF Paths
      <3>6. Plain(0, <<>>, "dir") \in PlanEntry
        BY <3>5, PlainTyped DEF Kinds
      <3>7. plan' \in Seq(PlanEntry) /\ nextId' \in Nat
        BY <3>1, <3>6 DEF FirstId
      <3> QED BY <2>1, <3>4, <3>7 DEF PlanTyped
    <2>3. CASE ~\A i \in DOMAIN srcs : HasName(srcs[i])
      BY <1>1, <1>7, <2>1, <2>3 DEF PlanScan
    <2> QED BY <2>2, <2>3
  <1>8. CASE ScanStat
    <2>1. CASE stage' = "failed"
      <3>1. UNCHANGED scan_vars
        BY <1>8, <2>1 DEF ScanStat, ScanFailed
      <3> QED BY <1>1, <1>8, <3>1 DEF ScanStat
    <2>2. CASE stage' # "failed"
      <3> DEFINE at == Head(stack)
                 node == fs[at.path]
      <3>1. /\ stack # <<>> /\ node \in Node /\ node.kind \in Kinds /\ at \in Visit
            /\ nextId' = nextId + 1 /\ stack' = Tail(stack) /\ UNCHANGED <<fs, cmd, srcs, got>>
            /\ \/ node.kind \in {"dir", "file"}
                  /\ cur' = [path |-> at.path, rel |-> at.rel, id |-> nextId, kind |-> node.kind,
                             size |-> node.size]
               \/ cur' = NoCur
            /\ plan' \in {plan, Append(plan, Plain(nextId, at.rel, node.kind))}
        BY <1>8, <2>2, StatSplit
      <3>2. cur' \in InHand
        BY <1>0, <3>1, NoCurTyped DEF InHand, Visit, Node
      <3>3. Plain(nextId, at.rel, node.kind) \in PlanEntry
        BY <1>0, <3>1, PlainTyped DEF Visit
      <3>4. stack' \in Seq(Visit)
        BY <1>0, <3>1
      <3> DEFINE e == Plain(nextId, at.rel, node.kind)
      <3> HIDE DEF e
      <3>5. e \in PlanEntry /\ plan' \in {plan, Append(plan, e)}
        BY <3>1, <3>3 DEF e
      <3>6. plan' \in Seq(PlanEntry)
        <4>1. plan \in Seq(PlanEntry) /\ Append(plan, e) \in Seq(PlanEntry)
          BY <1>0, <3>5
        <4> QED BY <3>5, <4>1, Zenon
      <3> QED BY <1>0, <3>1, <3>2, <3>4, <3>6 DEF PlanTyped
    <2> QED BY <2>1, <2>2
  <1>9. CASE ScanDir
    <2>1. cur.kind = "dir" /\ UNCHANGED <<fs, cmd, srcs, got>>
      BY <1>9 DEF ScanDir
    <2>2. CASE cur.path \in DOMAIN fs
      <3>1. PICK kids \in Children(cur.path) :
              /\ stack' = Descend([i \in DOMAIN kids |->
                                     [path |-> kids[i], rel |-> Append(cur.rel, Last(kids[i]))]], stack)
              /\ cur' = NoCur /\ UNCHANGED <<stage, plan, nextId, total>>
        BY <1>9, <2>2 DEF ScanDir
      <3> DEFINE new == [i \in DOMAIN kids |->
                           [path |-> kids[i], rel |-> Append(cur.rel, Last(kids[i]))]]
      <3>2. /\ DOMAIN kids = 1 .. Len(kids) /\ Len(kids) \in Nat
            /\ \A i \in 1 .. Len(kids) : kids[i] \in Paths /\ Last(kids[i]) \in Names
        BY <2>1, <2>2, KidsTyped
      <3>3. ASSUME NEW i \in 1 .. Len(kids)
            PROVE  [path |-> kids[i], rel |-> Append(cur.rel, Last(kids[i]))] \in Visit
        <4>1. cur.rel \in Paths
          BY <1>0 DEF InHand
        <4>2. Append(cur.rel, Last(kids[i])) \in Paths
          BY <3>2, <4>1 DEF Paths
        <4> QED BY <3>2, <4>2 DEF Visit
      <3>4. new \in Seq(Visit)
        BY <3>2, <3>3
      <3> HIDE DEF new
      <3>5. stack' \in Seq(Visit)
        BY <1>0, <3>1, <3>4 DEF Descend, new
      <3> QED BY <2>1, <3>1, <3>5, NoCurTyped DEF PlanTyped
    <2>3. CASE cur.path \notin DOMAIN fs
      BY <1>1, <1>9, <2>1, <2>3 DEF ScanDir, ScanFailed
    <2> QED BY <2>2, <2>3
  <1>10. CASE ScanFile
    <2>1. cur.kind = "file" /\ UNCHANGED <<fs, cmd, srcs, got>>
      BY <1>10 DEF ScanFile
    <2> DEFINE e == Entry(cur.id, cur.rel, "file", cur.size,
                          <<fs[cur.path].size, fs[cur.path].ver>>, ChunkCountFor(cur.size))
    <2>2. CASE cur.path \in DOMAIN fs /\ AddsUp(cur.size)
      <3>1. plan' = Append(plan, e) /\ cur' = NoCur /\ UNCHANGED <<stack, nextId>>
        BY <1>10, <2>2 DEF ScanFile
      <3>2. e \in PlanEntry
        BY <2>1, <2>2, MeasuredTyped
      <3> HIDE DEF e
      <3>3. plan' \in Seq(PlanEntry)
        BY <1>0, <3>1, <3>2
      <3> QED BY <2>1, <3>1, <3>3, NoCurTyped DEF PlanTyped
    <2>3. CASE ~(cur.path \in DOMAIN fs /\ AddsUp(cur.size))
      BY <1>1, <1>10, <2>1, <2>3 DEF ScanFile, ScanFailed
    <2> QED BY <2>2, <2>3
  <1>11. CASE SendPiece
    <2>1. got' = got \o NextPiece /\ UNCHANGED <<fs, cmd, srcs, stack, cur, nextId, plan>>
          /\ Len(got) < Len(plan)
      BY <1>11 DEF SendPiece
    <2>2. NextPiece \in Seq(PlanEntry)
      BY <1>0, <2>1, PlanAssumption DEF NextPiece
    <2>3. got' \in Seq(PlanEntry)
      BY <1>0, <2>1, <2>2
    <2> QED BY <2>1, <2>3 DEF PlanTyped
  <1>12. CASE Connects \/ Diagnoses \/ Discovers \/ UNCHANGED vars
    BY <1>1, <1>12 DEF Connects, Diagnoses, Discovers, vars, plan_vars
  <1> QED
    BY <1>2, <1>3, <1>4, <1>5, <1>6, <1>7, <1>8, <1>9, <1>10, <1>11, <1>12
    DEF Next, Plans, Edits, Sends, Planning, Sending

-----------------------------------------------------------------------------
(* The plan: the scan.  What is still to be visited has nothing below it in the *)
(* manifest or among the rest, whatever other programs do to the disk meanwhile, *)
(* because the scan goes into each directory once.                              *)

\* s is r, or below r.
Under(r, s) == Len(r) <= Len(s) /\ \A i \in 1 .. Len(r) : s[i] = r[i]

\* No two sources have the same file name.
NamesApart == \A i, j \in DOMAIN srcs : i # j => Last(srcs[i]) # Last(srcs[j])

Ids ==
    /\ \A i \in DOMAIN plan : plan[i].id < nextId
    /\ \A i, j \in DOMAIN plan : i # j => plan[i].id # plan[j].id
    /\ cur.kind = "file" => cur.id < nextId /\ \A i \in DOMAIN plan : plan[i].id # cur.id

Measured ==
    \A i \in DOMAIN plan : plan[i].kind = "file" =>
        plan[i].size # -1 /\ plan[i].hash # <<>> /\ plan[i].chunks = ChunkCountFor(plan[i].size)

Rooted ==
    /\ plan = <<>> => /\ \A k \in DOMAIN stack : stack[k].rel = <<>>
                      /\ cur.kind # "none" => cur.kind = "file" /\ cur.rel = <<>>
    /\ plan # <<>> => plan[1].rel = <<>>

\* Among the entries: no path twice, and only directories have something below them.
TreeOf(es) ==
    \A i, j \in DOMAIN es : i # j /\ Under(es[i].rel, es[j].rel) =>
        es[i].rel # es[j].rel /\ es[i].kind = "dir"

\* r may join the entries: nothing is there yet, and only directories are above.
FreeIn(r, es) ==
    \A i \in DOMAIN es : ~Under(r, es[i].rel) /\ (Under(es[i].rel, r) => es[i].kind = "dir")

\* The entry in hand.  A directory is in the manifest already.
HandIn(c, es) ==
    /\ c.kind = "file" => FreeIn(c.rel, es)
    /\ c.kind = "dir" =>
         \A i \in DOMAIN es : /\ Under(c.rel, es[i].rel) => es[i].rel = c.rel
                              /\ Under(es[i].rel, c.rel) => es[i].kind = "dir"

Beside(r, s) == ~Under(r, s) /\ ~Under(s, r)

WaitIn(st, c, es) ==
    /\ \A k \in DOMAIN st : FreeIn(st[k].rel, es)
    /\ \A k, l \in DOMAIN st : k # l => Beside(st[k].rel, st[l].rel)
    /\ c.kind # "none" => \A k \in DOMAIN st : Beside(st[k].rel, c.rel)

Forest == TreeOf(plan) /\ HandIn(cur, plan) /\ WaitIn(stack, cur, plan)

Scan ==
    stage = "scan" =>
        /\ srcs # <<Stdin>>
        /\ Ids /\ Measured /\ Rooted
        /\ NamesApart => Forest

\* A path is under itself.
LEMMA UnderSelf == ASSUME NEW r \in Paths PROVE Under(r, r)
  BY DEF Under, Paths

\* What is below a child is below its parent; what is above a child is above the parent,
\* or the child itself.
LEMMA UnderChild ==
    ASSUME NEW r \in Paths, NEW s \in Paths, NEW n \in Names
    PROVE  /\ Under(Append(r, n), s) => Under(r, s) /\ s # r
           /\ Under(s, Append(r, n)) => Under(s, r) \/ s = Append(r, n)
           /\ Under(r, Append(r, n))
  <1> DEFINE q == Append(r, n)
             A == Names \cup {"stdin", ".."}
  <1>1. r \in Seq(A) /\ s \in Seq(A) /\ n \in A
    BY DEF Paths
  <1>2. /\ q \in Seq(A) /\ Len(q) = Len(r) + 1 /\ Len(r) \in Nat /\ Len(s) \in Nat
        /\ q[Len(r) + 1] = n /\ \A i \in 1 .. Len(r) : q[i] = r[i]
    BY <1>1
  <1> HIDE DEF q, A
  <1>3. ASSUME Under(q, s) PROVE Under(r, s) /\ s # r
    BY <1>1, <1>2, <1>3 DEF Under
  <1>4. ASSUME Under(s, q) PROVE Under(s, r) \/ s = q
    <2>1. CASE Len(s) <= Len(r)
      BY <1>2, <1>4, <2>1 DEF Under
    <2>2. CASE ~(Len(s) <= Len(r))
      <3>1. Len(s) = Len(q)
        BY <1>2, <1>4, <2>2 DEF Under
      <3>2. \A i \in 1 .. Len(q) : s[i] = q[i]
        BY <1>4, <3>1 DEF Under
      <3>3. s = q
        BY <1>1, <1>2, <3>1, <3>2
      <3> QED BY <3>3
    <2> QED BY <2>1, <2>2
  <1>5. Under(r, q)
    BY <1>2 DEF Under
  <1> QED BY <1>3, <1>4, <1>5 DEF q

\* The receiver's IsStrictPrefix is the same relation.
LEMMA PrefixIsUnder ==
    ASSUME NEW r \in Paths, NEW s \in Paths, IsStrictPrefix(r, s)
    PROVE  Under(r, s) /\ r # s
  <1> DEFINE A == Names \cup {"stdin", ".."}
  <1>1. r \in Seq(A) /\ s \in Seq(A) /\ Len(r) \in Nat /\ Len(s) \in Nat
    BY DEF Paths
  <1> HIDE DEF A
  <1>2. Len(r) <= Len(s) /\ SubSeq(r, 1, Len(r)) = SubSeq(s, 1, Len(r)) /\ r # s
    BY DEF IsStrictPrefix, IsPrefix
  <1>3. ASSUME NEW i \in 1 .. Len(r) PROVE s[i] = r[i]
    <2>1. SubSeq(r, 1, Len(r))[i] = r[i] /\ SubSeq(s, 1, Len(r))[i] = s[i]
      BY <1>1, <1>2
    <2> QED BY <1>2, <2>1
  <1> QED BY <1>2, <1>3 DEF Under

\* An entry joins where there is room for it.
LEMMA EntryJoins ==
    ASSUME NEW es \in Seq(PlanEntry), NEW e \in PlanEntry, TreeOf(es), FreeIn(e.rel, es)
    PROVE  TreeOf(Append(es, e))
  <1> DEFINE fs1 == Append(es, e)
             n == Len(es) + 1
  <1>1. /\ DOMAIN fs1 = 1 .. n /\ DOMAIN es = 1 .. Len(es) /\ Len(es) \in Nat
        /\ fs1[n] = e /\ \A i \in 1 .. Len(es) : fs1[i] = es[i]
    OBVIOUS
  <1>2. Under(e.rel, e.rel)
    BY UnderSelf DEF PlanEntry
  <1> HIDE DEF fs1
  <1>3. ASSUME NEW i \in 1 .. n, NEW j \in 1 .. n, i # j, Under(fs1[i].rel, fs1[j].rel)
        PROVE  fs1[i].rel # fs1[j].rel /\ fs1[i].kind = "dir"
    <2>1. CASE i = n
      <3>1. j \in DOMAIN es
        BY <1>1, <1>3, <2>1
      <3> QED BY <1>1, <1>3, <2>1, <3>1 DEF FreeIn
    <2>2. CASE j = n
      <3>1. i \in DOMAIN es
        BY <1>1, <1>3, <2>2
      <3> QED BY <1>1, <1>2, <1>3, <2>2, <3>1 DEF FreeIn
    <2>3. CASE i # n /\ j # n
      <3>1. i \in DOMAIN es /\ j \in DOMAIN es
        BY <1>1, <2>3
      <3> QED BY <1>1, <1>3, <3>1 DEF TreeOf
    <2> QED BY <2>1, <2>2, <2>3
  <1> QED BY <1>1, <1>3 DEF TreeOf, fs1

\* It leaves room for the paths beside it.
LEMMA RoomLeft ==
    ASSUME NEW es \in Seq(PlanEntry), NEW e \in PlanEntry, NEW r, FreeIn(r, es), Beside(r, e.rel)
    PROVE  FreeIn(r, Append(es, e))
  <1>1. /\ DOMAIN Append(es, e) = 1 .. Len(es) + 1 /\ DOMAIN es = 1 .. Len(es) /\ Len(es) \in Nat
        /\ Append(es, e)[Len(es) + 1] = e /\ \A i \in 1 .. Len(es) : Append(es, e)[i] = es[i]
    OBVIOUS
  <1> QED BY <1>1 DEF FreeIn, Beside

\* The first of what is waiting is taken up.
LEMMA TakenUp ==
    ASSUME NEW st \in Seq(Visit), st # <<>>, NEW c, NEW es, WaitIn(st, c, es)
    PROVE  /\ FreeIn(Head(st).rel, es)
           /\ \A k \in DOMAIN Tail(st) : /\ FreeIn(Tail(st)[k].rel, es)
                                         /\ Beside(Tail(st)[k].rel, Head(st).rel)
           /\ \A k, l \in DOMAIN Tail(st) : k # l => Beside(Tail(st)[k].rel, Tail(st)[l].rel)
  <1> DEFINE n == Len(st)
  <1>1. /\ n \in Nat \ {0} /\ DOMAIN st = 1 .. n /\ DOMAIN Tail(st) = 1 .. n - 1
        /\ Head(st) = st[1] /\ \A k \in 1 .. n - 1 : Tail(st)[k] = st[k + 1]
    OBVIOUS
  <1> HIDE DEF n
  <1>2. \A k \in 1 .. n - 1 : k + 1 \in 1 .. n /\ k + 1 # 1
    BY <1>1
  <1>3. 1 \in 1 .. n
    BY <1>1
  <1>4. \A k, l \in 1 .. n - 1 : k # l => k + 1 # l + 1
    BY <1>1
  <1> QED BY <1>1, <1>2, <1>3, <1>4 DEF WaitIn

\* Children of the directory in hand have room.
LEMMA ChildFree ==
    ASSUME NEW es \in Seq(PlanEntry), NEW c \in InHand, c.kind = "dir", HandIn(c, es), NEW n \in Names
    PROVE  FreeIn(Append(c.rel, n), es)
  <1> DEFINE q == Append(c.rel, n)
  <1>1. c.rel \in Paths
    BY DEF InHand
  <1>2. q \in Paths
    BY <1>1 DEF Paths
  <1> HIDE DEF q
  <1>3. ASSUME NEW i \in DOMAIN es PROVE ~Under(q, es[i].rel) /\ (Under(es[i].rel, q) => es[i].kind = "dir")
    <2>1. es[i].rel \in Paths
      <3>1. es[i] \in PlanEntry
        OBVIOUS
      <3> QED BY <3>1 DEF PlanEntry
    <2>2. ~Under(q, es[i].rel)
      BY <1>1, <2>1, UnderChild DEF HandIn, q
    <2>3. ASSUME Under(es[i].rel, q) PROVE es[i].kind = "dir"
      <3>1. es[i].rel # q
        BY <1>2, <2>2, UnderSelf
      <3>2. Under(es[i].rel, c.rel)
        BY <1>1, <2>1, <2>3, <3>1, UnderChild DEF q
      <3> QED BY <3>2 DEF HandIn
    <2> QED BY <2>2, <2>3
  <1> QED BY <1>3 DEF FreeIn, q

\* A child of r is beside what is beside r, and beside the other children.
LEMMA ChildBeside ==
    ASSUME NEW r \in Paths, NEW n \in Names
    PROVE  /\ \A s \in Paths : Beside(s, r) => Beside(s, Append(r, n)) /\ Beside(Append(r, n), s)
           /\ \A m \in Names : m # n => Beside(Append(r, m), Append(r, n))
  <1>0. \A m \in Names : Append(r, m) \in Paths
    BY DEF Paths
  <1>1. ASSUME NEW s \in Paths, Beside(s, r) PROVE ~Under(s, Append(r, n)) /\ ~Under(Append(r, n), s)
    <2> DEFINE q == Append(r, n)
    <2>1. /\ Under(q, s) => Under(r, s)
          /\ Under(s, q) => Under(s, r) \/ s = q
          /\ Under(r, q)
      BY UnderChild
    <2>2. ~Under(s, r) /\ ~Under(r, s)
      BY <1>1 DEF Beside
    <2> HIDE DEF q
    <2>3. ~Under(s, q) /\ ~Under(q, s)
      BY <2>1, <2>2
    <2> QED BY <2>3 DEF q
  <1>2. ASSUME NEW m \in Names, NEW k \in Names, m # k PROVE ~Under(Append(r, m), Append(r, k))
    <2>1. ~Under(Append(r, m), r)
      BY UnderChild
    <2>2. Append(r, m) # Append(r, k)
      <3>1. Append(r, m)[Len(r) + 1] = m /\ Append(r, k)[Len(r) + 1] = k
        BY DEF Paths
      <3> QED BY <1>2, <3>1
    <2> QED BY <1>0, <2>1, <2>2, UnderChild
  <1>3. \A m \in Names : m # n => Beside(Append(r, m), Append(r, n))
    BY <1>2 DEF Beside
  <1> QED BY <1>1, <1>3 DEF Beside

\* Appending keeps the entries that were there.
LEMMA Appended ==
    ASSUME NEW es \in Seq(PlanEntry), NEW e \in PlanEntry
    PROVE  /\ Len(es) \in Nat /\ DOMAIN es = 1 .. Len(es)
           /\ DOMAIN Append(es, e) = 1 .. Len(es) + 1 /\ Append(es, e) # <<>>
           /\ Append(es, e)[Len(es) + 1] = e
           /\ \A i \in 1 .. Len(es) : Append(es, e)[i] = es[i] /\ es[i] \in PlanEntry
  OBVIOUS

\* The scan starts with the sources, each under its own name.
LEMMA ScanStarts ==
    ASSUME PlanTyped, cur = NoCur, PlanScan PROVE Scan'
  <1>1. CASE ~\A i \in DOMAIN srcs : HasName(srcs[i])
    BY <1>1 DEF PlanScan, Scan
  <1>2. CASE \A i \in DOMAIN srcs : HasName(srcs[i])
    <2> DEFINE v(i) == [path |-> srcs[i], rel |-> IF Multi THEN <<Last(srcs[i])>> ELSE <<>>]
               r0 == Plain(0, <<>>, "dir")
    <2>1. /\ srcs # <<Stdin>> /\ srcs' = srcs /\ cur' = NoCur
          /\ stack' = [i \in DOMAIN srcs |-> v(i)]
          /\ plan' = IF Multi THEN <<r0>> ELSE <<>>
          /\ nextId' = FirstId
      BY <1>2 DEF PlanScan
    <2>2. DOMAIN srcs = 1 .. Len(srcs) /\ Len(srcs) \in Nat
      BY DEF PlanTyped
    <2>3. r0 \in PlanEntry /\ r0.id = 0 /\ r0.rel = <<>> /\ r0.kind = "dir"
      <3>1. <<>> \in Paths
        BY DEF Paths
      <3> QED BY <3>1, PlainTyped DEF Kinds
    <2>4. \A i \in DOMAIN srcs : v(i).rel = IF Multi THEN <<Last(srcs[i])>> ELSE <<>>
      OBVIOUS
    <2> HIDE DEF v, r0
    <2>5. cur'.kind = "none"
      BY <2>1, NoCurTyped
    <2>6. DOMAIN stack' = DOMAIN srcs /\ \A i \in DOMAIN srcs : stack'[i] = v(i)
      BY <2>1
    <2>7. CASE Multi
      <3>1. plan' = <<r0>> /\ nextId' = 1
        BY <2>1, <2>7 DEF FirstId
      <3>2. DOMAIN plan' = {1} /\ plan'[1] = r0 /\ plan' # <<>>
        BY <3>1
      <3>3. Ids' /\ Measured' /\ Rooted'
        BY <2>3, <2>5, <3>1, <3>2 DEF Ids, Measured, Rooted
      <3>4. TreeOf(plan') /\ HandIn(cur', plan')
        BY <2>5, <3>2 DEF TreeOf, HandIn
      <3>5. ASSUME NEW i \in DOMAIN srcs PROVE FreeIn(stack'[i].rel, plan')
        <4>1. stack'[i].rel = <<Last(srcs[i])>>
          BY <2>4, <2>6, <2>7
        <4>2. ~Under(<<Last(srcs[i])>>, <<>>)
          BY DEF Under
        <4> QED BY <2>3, <3>2, <4>1, <4>2 DEF FreeIn
      <3>6. ASSUME NamesApart, NEW i \in DOMAIN srcs, NEW j \in DOMAIN srcs, i # j
            PROVE  Beside(stack'[i].rel, stack'[j].rel)
        <4>1. stack'[i].rel = <<Last(srcs[i])>> /\ stack'[j].rel = <<Last(srcs[j])>>
          BY <2>4, <2>6, <2>7
        <4>2. Last(srcs[i]) # Last(srcs[j])
          BY <3>6 DEF NamesApart
        <4>3. ASSUME NEW a, NEW b, a # b PROVE ~Under(<<a>>, <<b>>)
          BY <4>3 DEF Under
        <4> QED BY <4>1, <4>2, <4>3 DEF Beside
      <3>7. ASSUME NamesApart PROVE WaitIn(stack', cur', plan')
        BY <2>5, <2>6, <3>5, <3>6, <3>7 DEF WaitIn
      <3>8. NamesApart' => NamesApart
        BY <2>1 DEF NamesApart
      <3> QED BY <2>1, <3>3, <3>4, <3>7, <3>8 DEF Scan, Forest
    <2>8. CASE ~Multi
      <3>1. plan' = <<>> /\ DOMAIN plan' = {}
        BY <2>1, <2>8
      <3>2. \A i \in DOMAIN srcs : stack'[i].rel = <<>>
        BY <2>4, <2>6, <2>8
      <3>3. \A i, j \in DOMAIN srcs : i = j
        BY <2>2, <2>8 DEF Multi
      <3>4. Ids' /\ Measured' /\ Rooted'
        BY <2>5, <2>6, <3>1, <3>2 DEF Ids, Measured, Rooted
      <3>5. Forest'
        BY <2>5, <2>6, <3>1, <3>3 DEF Forest, TreeOf, HandIn, WaitIn, FreeIn
      <3> QED BY <2>1, <3>4, <3>5 DEF Scan
    <2> QED BY <2>7, <2>8
  <1> QED BY <1>1, <1>2

\* ScanStat puts a directory, a link or a device where the entry was waiting, or takes a
\* file in hand.
LEMMA StatScans ==
    ASSUME PlanTyped, Scan, ScanStat PROVE Scan'
  <1>1. CASE stage' = "failed"
    BY <1>1 DEF Scan
  <1>2. CASE stage' # "failed"
    <2> DEFINE at == Head(stack)
               kind == fs[at.path].kind
               e == Plain(nextId, at.rel, kind)
    <2>1. /\ stage = "scan" /\ stack # <<>> /\ kind \in Kinds /\ at \in Visit
          /\ nextId' = nextId + 1 /\ stack' = Tail(stack) /\ srcs' = srcs
          /\ \/ kind \in {"dir", "file"} /\ cur'.kind = kind /\ cur'.rel = at.rel /\ cur'.id = nextId
             \/ kind \notin {"dir", "file"} /\ cur'.kind = "none"
          /\ \/ plan' = plan /\ kind # "dir" /\ (at.rel # <<>> \/ kind = "file")
             \/ plan' = Append(plan, e) /\ kind # "file"
      BY <1>2, StatSplit, NoCurTyped
    <2>2. /\ nextId \in Nat /\ plan \in Seq(PlanEntry) /\ stack \in Seq(Visit)
          /\ at.rel \in Paths
      BY <2>1 DEF PlanTyped, Visit
    <2>3. e \in PlanEntry /\ e.id = nextId /\ e.rel = at.rel /\ e.kind = kind
      BY <2>1, <2>2, PlainTyped
    <2>4. Ids /\ Measured /\ Rooted /\ srcs # <<Stdin>> /\ (NamesApart => Forest)
      BY <2>1 DEF Scan
    <2>5. at = stack[1] /\ 1 \in DOMAIN stack
      BY <2>1, <2>2
    <2>6. DOMAIN Tail(stack) \subseteq DOMAIN stack \cup Nat
          /\ \A k \in DOMAIN Tail(stack) : k + 1 \in DOMAIN stack /\ Tail(stack)[k] = stack[k + 1]
      BY <2>1, <2>2
    <2> HIDE DEF e, at, kind
    <2>7. \A i \in DOMAIN plan : plan[i].id \in Nat
      <3>1. \A i \in DOMAIN plan : plan[i] \in PlanEntry
        BY <2>2
      <3> QED BY <3>1 DEF PlanEntry
    <2>8. Ids'
      <3>1. CASE plan' = plan
        BY <2>1, <2>2, <2>4, <2>7, <3>1 DEF Ids
      <3>2. CASE plan' = Append(plan, e) /\ kind # "file"
        BY <2>1, <2>2, <2>3, <2>4, <2>7, <3>2, Appended DEF Ids
      <3> QED BY <2>1, <3>1, <3>2
    <2>9. Measured'
      <3>1. CASE plan' = plan
        BY <2>4, <3>1 DEF Measured
      <3>2. CASE plan' = Append(plan, e) /\ kind # "file"
        BY <2>2, <2>3, <2>4, <3>2, Appended DEF Measured
      <3> QED BY <2>1, <3>1, <3>2
    <2>10. Rooted'
      <3>1. plan = <<>> => at.rel = <<>>
        BY <2>4, <2>5 DEF Rooted
      <3>2. CASE plan' = plan /\ kind # "dir" /\ (at.rel # <<>> \/ kind = "file")
        BY <2>1, <2>4, <2>6, <3>1, <3>2 DEF Rooted
      <3>3. CASE plan' = Append(plan, e)
        <4>1. plan' # <<>>
          BY <2>2, <2>3, <3>3, Appended
        <4>2. plan'[1].rel = <<>>
          <5>1. CASE plan = <<>>
            BY <2>3, <3>1, <3>3, <5>1
          <5>2. CASE plan # <<>>
            <6>1. 1 \in 1 .. Len(plan)
              BY <2>2, <5>2
            <6> QED BY <2>2, <2>3, <2>4, <3>3, <5>2, <6>1, Appended DEF Rooted
          <5> QED BY <5>1, <5>2
        <4> QED BY <4>1, <4>2 DEF Rooted
      <3> QED BY <2>1, <3>2, <3>3
    <2>11. ASSUME Forest PROVE Forest'
      <3>1. TreeOf(plan) /\ WaitIn(stack, cur, plan)
        BY <2>11 DEF Forest
      <3>2. /\ FreeIn(at.rel, plan)
            /\ \A k \in DOMAIN stack' : FreeIn(stack'[k].rel, plan) /\ Beside(stack'[k].rel, at.rel)
            /\ \A k, l \in DOMAIN stack' : k # l => Beside(stack'[k].rel, stack'[l].rel)
        BY <2>1, <2>2, <3>1, TakenUp DEF at
      <3>3. TreeOf(plan') /\ \A k \in DOMAIN stack' : FreeIn(stack'[k].rel, plan')
        <4>1. CASE plan' = plan
          BY <3>1, <3>2, <4>1
        <4>2. CASE plan' = Append(plan, e)
          BY <2>2, <2>3, <3>1, <3>2, <4>2, EntryJoins, RoomLeft
        <4> QED BY <2>1, <4>1, <4>2
      <3>4. HandIn(cur', plan')
        <4>1. CASE plan' = plan
          BY <2>1, <3>2, <4>1 DEF HandIn
        <4>2. CASE plan' = Append(plan, e)
          BY <2>1, <2>2, <2>3, <3>2, <4>2, Appended DEF HandIn, FreeIn
        <4> QED BY <2>1, <4>1, <4>2
      <3>5. WaitIn(stack', cur', plan')
        BY <2>1, <3>2, <3>3 DEF WaitIn
      <3> QED BY <3>3, <3>4, <3>5 DEF Forest
    <2>12. NamesApart' => NamesApart
      BY <2>1 DEF NamesApart
    <2> QED BY <2>1, <2>4, <2>8, <2>9, <2>10, <2>11, <2>12 DEF Scan
  <1> QED BY <1>1, <1>2

\* The children come before what was waiting.
LEMMA Joined ==
    ASSUME NEW st \in Seq(Visit), NEW new \in Seq(Visit)
    PROVE  /\ DOMAIN (new \o st) = 1 .. Len(new) + Len(st)
           /\ \A k \in 1 .. Len(new) : (new \o st)[k] = new[k]
           /\ \A k \in Len(new) + 1 .. Len(new) + Len(st) : (new \o st)[k] = st[k - Len(new)]
  OBVIOUS

\* ScanDir makes the children wait: they have room, beside each other and beside the
\* rest.
LEMMA DirScans ==
    ASSUME PlanTyped, Scan, ScanDir PROVE Scan'
  <1>1. CASE cur.path \notin DOMAIN fs
    BY <1>1 DEF ScanDir, ScanFailed, Scan
  <1>2. CASE cur.path \in DOMAIN fs
    <2>1. PICK kids \in Children(cur.path) :
            /\ stack' = Descend([i \in DOMAIN kids |->
                                   [path |-> kids[i], rel |-> Append(cur.rel, Last(kids[i]))]], stack)
            /\ cur' = NoCur /\ UNCHANGED <<stage, plan, nextId, total>>
      BY <1>2 DEF ScanDir
    <2> DEFINE new == [i \in DOMAIN kids |->
                         [path |-> kids[i], rel |-> Append(cur.rel, Last(kids[i]))]]
               n == Len(kids)
               child(i) == Append(cur.rel, Last(kids[i]))
    <2>2. stage = "scan" /\ cur.kind = "dir" /\ srcs' = srcs
      BY DEF ScanDir
    <2>3. Ids /\ Measured /\ Rooted /\ srcs # <<Stdin>> /\ (NamesApart => Forest)
      BY <2>2 DEF Scan
    <2>4. /\ DOMAIN kids = 1 .. n /\ n \in Nat
          /\ \A i \in 1 .. n : kids[i] \in Paths /\ Last(kids[i]) \in Names
          /\ \A i, j \in 1 .. n : i # j => Last(kids[i]) # Last(kids[j])
      BY <1>2, <2>2, KidsTyped
    <2>5. cur \in InHand /\ cur.rel \in Paths /\ plan \in Seq(PlanEntry) /\ stack \in Seq(Visit)
      BY DEF PlanTyped, InHand
    <2>6. cur'.kind = "none" /\ plan' = plan /\ nextId' = nextId
      BY <2>1, NoCurTyped
    <2>7. Ids' /\ Measured'
      BY <2>3, <2>6 DEF Ids, Measured
    <2>8. Rooted'
      BY <2>2, <2>3, <2>6 DEF Rooted
    <2>9. ASSUME Forest PROVE Forest'
      <3>1. TreeOf(plan) /\ HandIn(cur, plan) /\ WaitIn(stack, cur, plan)
        BY <2>9 DEF Forest
      <3>2. new \in Seq(Visit) /\ Len(new) = n
        <4>1. ASSUME NEW i \in 1 .. n PROVE [path |-> kids[i], rel |-> child(i)] \in Visit
          <5>1. child(i) \in Paths
            BY <2>4, <2>5 DEF Paths
          <5> QED BY <2>4, <5>1 DEF Visit
        <4> QED BY <2>4, <4>1
      <3>3. \A i \in 1 .. n : new[i].rel = child(i)
        BY <2>4
      <3> DEFINE m == Len(stack)
      <3>4. m \in Nat /\ DOMAIN stack = 1 .. m
        BY <2>5
      <3> HIDE DEF new, n, m, child
      <3>5. stack' = new \o stack
        BY <2>1 DEF Descend, new
      <3>6. /\ DOMAIN stack' = 1 .. n + m
            /\ \A k \in 1 .. n : stack'[k] = new[k]
            /\ \A k \in n + 1 .. n + m : stack'[k] = stack[k - n]
        BY <2>5, <3>2, <3>5, Joined DEF m
      <3>7. \A k \in 1 .. n : stack'[k].rel = child(k)
        BY <3>3, <3>6
      <3>8. \A k \in 1 .. n + m : k \in 1 .. n \/ (k \in n + 1 .. n + m /\ k - n \in 1 .. m)
        BY <2>4, <3>4
      <3>9. \A i \in 1 .. n : FreeIn(child(i), plan)
        BY <2>2, <2>4, <2>5, <3>1, ChildFree DEF child
      <3>10. \A k \in 1 .. m : /\ FreeIn(stack[k].rel, plan) /\ Beside(stack[k].rel, cur.rel)
                               /\ stack[k].rel \in Paths
        <4>1. \A k \in 1 .. m : stack[k] \in Visit
          BY <2>5, <3>4
        <4> QED BY <2>2, <3>1, <3>4, <4>1 DEF WaitIn, Visit
      <3>11. \A i \in 1 .. n, k \in 1 .. m : /\ Beside(child(i), stack[k].rel)
                                             /\ Beside(stack[k].rel, child(i))
        BY <2>4, <2>5, <3>10, ChildBeside DEF child
      <3>12. \A i, j \in 1 .. n : i # j => Beside(child(i), child(j))
        BY <2>4, <2>5, ChildBeside DEF child
      <3>13. ASSUME NEW k \in 1 .. n + m PROVE FreeIn(stack'[k].rel, plan)
        BY <3>6, <3>7, <3>8, <3>9, <3>10
      <3>14. ASSUME NEW k \in 1 .. n + m, NEW l \in 1 .. n + m, k # l
             PROVE  Beside(stack'[k].rel, stack'[l].rel)
        <4>1. CASE k \in 1 .. n /\ l \in 1 .. n
          BY <3>7, <3>12, <3>14, <4>1
        <4>2. CASE k \in 1 .. n /\ l \notin 1 .. n
          BY <3>6, <3>7, <3>8, <3>11, <4>2
        <4>3. CASE k \notin 1 .. n /\ l \in 1 .. n
          BY <3>6, <3>7, <3>8, <3>11, <4>3
        <4>4. CASE k \notin 1 .. n /\ l \notin 1 .. n
          <5>1. /\ k - n \in 1 .. m /\ l - n \in 1 .. m /\ k - n # l - n
                /\ stack'[k] = stack[k - n] /\ stack'[l] = stack[l - n]
            BY <2>4, <3>4, <3>6, <3>8, <3>14, <4>4
          <5> QED BY <3>1, <3>4, <5>1 DEF WaitIn
        <4> QED BY <4>1, <4>2, <4>3, <4>4
      <3>15. WaitIn(stack', cur', plan')
        BY <2>6, <3>6, <3>13, <3>14 DEF WaitIn
      <3>16. HandIn(cur', plan')
        BY <2>6 DEF HandIn
      <3> QED BY <2>6, <3>1, <3>15, <3>16 DEF Forest
    <2>10. NamesApart' => NamesApart
      BY <2>2 DEF NamesApart
    <2> QED BY <2>2, <2>3, <2>7, <2>8, <2>9, <2>10 DEF Scan
  <1> QED BY <1>1, <1>2

\* ScanFile puts the file in hand into the manifest, as it was measured.
LEMMA FileScans ==
    ASSUME PlanTyped, Scan, ScanFile PROVE Scan'
  <1>1. CASE ~(cur.path \in DOMAIN fs /\ AddsUp(cur.size))
    BY <1>1 DEF ScanFile, ScanFailed, Scan
  <1>2. CASE cur.path \in DOMAIN fs /\ AddsUp(cur.size)
    <2> DEFINE e == Entry(cur.id, cur.rel, "file", cur.size,
                          <<fs[cur.path].size, fs[cur.path].ver>>, ChunkCountFor(cur.size))
    <2>1. /\ stage = "scan" /\ cur.kind = "file" /\ plan' = Append(plan, e) /\ cur' = NoCur
          /\ UNCHANGED <<stack, nextId, srcs>>
      BY <1>2 DEF ScanFile
    <2>2. /\ e \in PlanEntry /\ e.id = cur.id /\ e.rel = cur.rel /\ e.kind = "file"
          /\ e.size = cur.size /\ e.hash # <<>> /\ e.chunks = ChunkCountFor(cur.size)
      BY <1>2, <2>1, MeasuredTyped
    <2>3. /\ plan \in Seq(PlanEntry) /\ cur.size \in Nat /\ cur.id \in Nat /\ nextId \in Nat
          /\ stack \in Seq(Visit)
      BY DEF PlanTyped, InHand
    <2> HIDE DEF e
    <2>4. Ids /\ Measured /\ Rooted /\ srcs # <<Stdin>> /\ (NamesApart => Forest)
      BY <2>1 DEF Scan
    <2>5. cur'.kind = "none"
      BY <2>1, NoCurTyped
    <2>6. \A i \in DOMAIN plan : plan[i].id \in Nat
      <3>1. \A i \in DOMAIN plan : plan[i] \in PlanEntry
        BY <2>3
      <3> QED BY <3>1 DEF PlanEntry
    <2>7. Ids'
      BY <2>1, <2>2, <2>3, <2>4, <2>5, <2>6, Appended DEF Ids
    <2>8. Measured'
      BY <2>1, <2>2, <2>3, <2>4, Appended DEF Measured
    <2>9. Rooted'
      <3>1. plan' # <<>>
        BY <2>1, <2>2, <2>3, Appended
      <3>2. plan'[1].rel = <<>>
        <4>1. CASE plan = <<>>
          BY <2>1, <2>2, <2>4, <4>1 DEF Rooted
        <4>2. CASE plan # <<>>
          <5>1. 1 \in 1 .. Len(plan)
            BY <2>3, <4>2
          <5> QED BY <2>1, <2>2, <2>3, <2>4, <4>2, <5>1, Appended DEF Rooted
        <4> QED BY <4>1, <4>2
      <3> QED BY <3>1, <3>2 DEF Rooted
    <2>10. ASSUME Forest PROVE Forest'
      <3>1. TreeOf(plan) /\ FreeIn(cur.rel, plan) /\ WaitIn(stack, cur, plan)
        BY <2>1, <2>10 DEF Forest, HandIn
      <3>2. TreeOf(plan')
        BY <2>1, <2>2, <2>3, <3>1, EntryJoins
      <3>3. ASSUME NEW k \in DOMAIN stack PROVE FreeIn(stack[k].rel, plan')
        <4>1. FreeIn(stack[k].rel, plan) /\ Beside(stack[k].rel, cur.rel)
          BY <2>1, <3>1 DEF WaitIn
        <4> QED BY <2>1, <2>2, <2>3, <4>1, RoomLeft
      <3>4. HandIn(cur', plan') /\ WaitIn(stack', cur', plan')
        BY <2>1, <2>5, <3>1, <3>3 DEF HandIn, WaitIn
      <3> QED BY <3>2, <3>4 DEF Forest
    <2>11. NamesApart' => NamesApart
      BY <2>1 DEF NamesApart
    <2> QED BY <2>1, <2>4, <2>7, <2>8, <2>9, <2>10, <2>11 DEF Scan
  <1> QED BY <1>1, <1>2

-----------------------------------------------------------------------------
(* The manifest: what the receiver checks is what the scan made. *)

\* The receiver has the first entries of the manifest.
Sent == Len(got) <= Len(plan) /\ \A i \in 1 .. Len(got) : got[i] = plan[i]

Manifest ==
    /\ stage \in {"gather", "confirm", "plan"} => cur = NoCur
    /\ stage \in {"gather", "confirm", "plan", "scan", "planned"} => got = <<>>
    /\ stage \in {"planned", "sending"} => (NamesApart => ValidManifest(plan))
    /\ stage = "sending" => Sent
    /\ stage = "refused" => ~NamesApart
    /\ stage \in {"valid", "accepted", "ready"} => got = plan /\ ValidManifest(plan)

\* A manifest stays valid while it and the sources stay.
LEMMA SameManifest ==
    ASSUME srcs' = srcs, plan' = plan
    PROVE  ValidManifest(plan)' <=> ValidManifest(plan)
  BY DEF ValidManifest, ValidFile

\* What a scan that has come to its end leaves is a valid manifest.
LEMMA ScanIsValid ==
    ASSUME PlanTyped, Scan, stage = "scan", plan # <<>>, NamesApart
    PROVE  ValidManifest(plan)
  <1>1. srcs # <<Stdin>> /\ Ids /\ Measured /\ Rooted /\ TreeOf(plan)
    BY DEF Scan, Forest
  <1>2. plan \in Seq(PlanEntry) /\ DOMAIN plan = 1 .. Len(plan) /\ Len(plan) \in Nat
    BY DEF PlanTyped
  <1>3. plan[1].rel = <<>>
    BY <1>1 DEF Rooted
  <1>4. ASSUME NEW i \in DOMAIN plan, NEW j \in 1 .. i - 1
        PROVE  /\ plan[j].id # plan[i].id /\ plan[j].rel # plan[i].rel
               /\ IsStrictPrefix(plan[j].rel, plan[i].rel) => plan[j].kind = "dir"
    <2>1. j \in DOMAIN plan /\ j # i
      BY <1>2, <1>4
    <2>2. plan[i] \in PlanEntry /\ plan[j] \in PlanEntry
      BY <1>2, <2>1
    <2>3. plan[i].rel \in Paths /\ plan[j].rel \in Paths
      BY <2>2 DEF PlanEntry
    <2>4. plan[j].id # plan[i].id
      BY <1>1, <2>1 DEF Ids
    <2>5. Under(plan[j].rel, plan[i].rel) => plan[j].rel # plan[i].rel /\ plan[j].kind = "dir"
      BY <1>1, <2>1 DEF TreeOf
    <2>6. plan[j].rel # plan[i].rel
      BY <2>3, <2>5, UnderSelf
    <2>7. IsStrictPrefix(plan[j].rel, plan[i].rel) => Under(plan[j].rel, plan[i].rel)
      BY <2>3, PrefixIsUnder
    <2> QED BY <2>4, <2>5, <2>6, <2>7
  <1>5. ASSUME NEW i \in DOMAIN plan, plan[i].kind = "file" PROVE ValidFile(plan[i])
    BY <1>1, <1>5 DEF Measured, ValidFile
  <1> QED BY <1>3, <1>4, <1>5 DEF ValidManifest

\* Every piece is the next entries, in their order.
LEMMA PieceSent ==
    ASSUME PlanTyped, Sent, SendPiece PROVE Sent'
  <1> DEFINE a == Len(got)
             b == IF Len(got) + ManifestChunk < Len(plan) THEN Len(got) + ManifestChunk ELSE Len(plan)
  <1>1. got' = got \o NextPiece /\ plan' = plan /\ a < Len(plan)
    BY DEF SendPiece, scan_vars
  <1>2. a \in Nat /\ got \in Seq(PlanEntry) /\ plan \in Seq(PlanEntry) /\ ManifestChunk \in Nat \ {0}
        /\ Len(plan) \in Nat
    BY PlanAssumption DEF PlanTyped
  <1>3. b \in Nat /\ a < b /\ b <= Len(plan) /\ NextPiece = SubSeq(plan, a + 1, b)
    BY <1>1, <1>2 DEF NextPiece
  <1> HIDE DEF b
  <1>4. /\ NextPiece \in Seq(PlanEntry) /\ Len(NextPiece) = b - a
        /\ \A i \in 1 .. b - a : NextPiece[i] = plan[a + i]
    BY <1>2, <1>3
  <1>5. Len(got') = b
    BY <1>1, <1>2, <1>3, <1>4
  <1>6. ASSUME NEW i \in 1 .. b PROVE got'[i] = plan[i]
    <2>1. CASE i <= a
      <3>1. got'[i] = got[i]
        BY <1>1, <1>2, <1>4, <2>1
      <3> QED BY <1>2, <2>1, <3>1 DEF Sent
    <2>2. CASE ~(i <= a)
      <3>1. i - a \in 1 .. b - a /\ a + (i - a) = i
        BY <1>2, <1>3, <2>2
      <3>2. got'[i] = NextPiece[i - a]
        BY <1>1, <1>2, <1>3, <1>4, <2>2
      <3>3. NextPiece[i - a] = plan[a + (i - a)]
        BY <1>4, <3>1
      <3> QED BY <3>1, <3>2, <3>3
    <2> QED BY <2>1, <2>2
  <1> QED BY <1>1, <1>3, <1>5, <1>6 DEF Sent

\* At the start there is neither scan nor manifest.
LEMMA PlanInvInit == Init => Scan /\ Manifest
  BY DEF Init, PlanInit, Scan, Manifest

\* Every step keeps the invariant of the scan, edits of the disk included.
LEMMA ScanStep == PlanTyped /\ Scan /\ Manifest /\ [Next]_vars => Scan'
  <1> SUFFICES ASSUME PlanTyped, Scan, Manifest, [Next]_vars PROVE Scan'
    OBVIOUS
  <1> USE DEF scan_vars, task_vars
  <1>1. CASE UNCHANGED <<srcs, stage, scan_vars>>
    BY <1>1 DEF Scan, Ids, Measured, Rooted, NamesApart, Forest
  <1>2. CASE Edit \/ SendPiece
    BY <1>1, <1>2 DEF Edit, SendPiece
  <1>3. CASE Gather \/ GatherFails \/ Confirm \/ PlanStdin \/ ScanDone
    BY <1>3 DEF Gather, GatherFails, Confirm, PlanStdin, ScanDone, Scan
  <1>4. CASE SendBegin \/ RcvManifest \/ RcvAccept \/ SndTasks
    BY <1>4 DEF SendBegin, RcvManifest, RcvAccept, SndTasks, Scan
  <1>5. CASE PlanScan
    <2>1. cur = NoCur
      BY <1>5 DEF PlanScan, Manifest
    <2> QED BY <1>5, <2>1, ScanStarts
  <1>6. CASE ScanStat
    BY <1>6, StatScans
  <1>7. CASE ScanDir
    BY <1>7, DirScans
  <1>8. CASE ScanFile
    BY <1>8, FileScans
  <1>9. CASE Connects \/ Diagnoses \/ Discovers \/ UNCHANGED vars
    BY <1>1, <1>9 DEF Connects, Diagnoses, Discovers, vars, plan_vars
  <1> QED
    BY <1>2, <1>3, <1>4, <1>5, <1>6, <1>7, <1>8, <1>9
    DEF Next, Plans, Edits, Sends, Planning, Sending

\* Every step keeps what is known about the manifest: once planned it does not change.
LEMMA ManifestStep == PlanTyped /\ Scan /\ Manifest /\ [Next]_vars => Manifest'
  <1> SUFFICES ASSUME PlanTyped, Scan, Manifest, [Next]_vars PROVE Manifest'
    OBVIOUS
  <1> USE DEF scan_vars, task_vars
  <1>1. CASE UNCHANGED <<srcs, stage, scan_vars, got>>
    BY <1>1, SameManifest DEF Manifest, NamesApart, Sent
  <1>2. CASE Edit
    BY <1>1, <1>2 DEF Edit
  <1>3. CASE Gather \/ GatherFails \/ Confirm
    BY <1>3 DEF Gather, GatherFails, Confirm, Manifest
  <1>4. CASE PlanStdin
    <2>1. CASE cmd.output
      <3> DEFINE e == Plain(0, <<>>, "file")
      <3>1. plan' = <<e>> /\ stage' = "planned" /\ srcs' = <<Stdin>> /\ got' = got /\ stage = "plan"
        BY <1>4, <2>1 DEF PlanStdin
      <3>2. e.rel = <<>> /\ e.size = -1
        <4>1. <<>> \in Paths
          BY DEF Paths
        <4> QED BY <4>1, PlainTyped DEF Kinds
      <3> HIDE DEF e
      <3>3. ValidFile(e)'
        BY <3>1, <3>2 DEF ValidFile
      <3>4. DOMAIN plan' = {1} /\ plan'[1] = e /\ plan' # <<>>
        BY <3>1
      <3>5. ValidManifest(plan)'
        BY <3>1, <3>2, <3>4 DEF ValidManifest, ValidFile
      <3> QED BY <3>1, <3>5 DEF Manifest
    <2>2. CASE ~cmd.output
      BY <1>4, <2>2 DEF PlanStdin, Manifest
    <2> QED BY <2>1, <2>2
  <1>5. CASE PlanScan
    BY <1>5 DEF PlanScan, Manifest
  <1>6. CASE ScanStat \/ ScanDir \/ ScanFile
    <2>1. stage = "scan" /\ stage' \in {"scan", "failed"} /\ got' = got
      BY <1>6 DEF ScanStat, ScanDir, ScanFile, ScanFailed
    <2> QED BY <2>1 DEF Manifest
  <1>7. CASE ScanDone
    <2>1. /\ stage = "scan" /\ UNCHANGED <<srcs, plan, got>>
          /\ stage' = IF Len(plan) <= (IF Multi THEN 1 ELSE 0) THEN "failed" ELSE "planned"
      BY <1>7 DEF ScanDone
    <2>2. CASE stage' = "failed"
      BY <2>2 DEF Manifest
    <2>3. CASE stage' # "failed"
      <3>1. plan # <<>> /\ stage' = "planned"
        BY <2>1, <2>3 DEF PlanTyped
      <3>2. NamesApart' => NamesApart
        BY <2>1 DEF NamesApart
      <3>3. NamesApart' => ValidManifest(plan)'
        BY <2>1, <3>1, <3>2, ScanIsValid, SameManifest
      <3> QED BY <2>1, <3>1, <3>3 DEF Manifest
    <2> QED BY <2>2, <2>3
  <1>8. CASE SendBegin
    <2>1. stage = "planned" /\ stage' = "sending" /\ UNCHANGED <<srcs, plan, got>>
      BY <1>8 DEF SendBegin
    <2>2. got = <<>> /\ (NamesApart => ValidManifest(plan))
      BY <2>1 DEF Manifest
    <2>3. Sent'
      BY <2>1, <2>2 DEF Sent, PlanTyped
    <2>4. NamesApart' => ValidManifest(plan)'
      BY <2>1, <2>2, SameManifest DEF NamesApart
    <2> QED BY <2>1, <2>3, <2>4 DEF Manifest
  <1>9. CASE SendPiece
    <2>1. stage = "sending" /\ stage' = stage /\ UNCHANGED <<srcs, plan>>
      BY <1>9 DEF SendPiece
    <2>2. Sent'
      BY <1>9, <2>1, PieceSent DEF Manifest
    <2>3. NamesApart' => ValidManifest(plan)'
      BY <2>1, SameManifest DEF NamesApart, Manifest
    <2> QED BY <2>1, <2>2, <2>3 DEF Manifest
  <1>10. CASE RcvManifest
    <2>1. /\ stage = "sending" /\ Len(got) = Len(plan) /\ UNCHANGED <<srcs, plan, got>>
          /\ stage' = IF ValidManifest(got) THEN "valid" ELSE "refused"
      BY <1>10 DEF RcvManifest
    <2>2. got = plan
      <3>1. got \in Seq(PlanEntry) /\ plan \in Seq(PlanEntry) /\ \A i \in 1 .. Len(got) : got[i] = plan[i]
        BY <2>1 DEF PlanTyped, Manifest, Sent
      <3> QED BY <2>1, <3>1
    <2>3. NamesApart => ValidManifest(plan)
      BY <2>1 DEF Manifest
    <2>4. ValidManifest(plan)' <=> ValidManifest(plan)
      BY <2>1, SameManifest
    <2>5. NamesApart' <=> NamesApart
      BY <2>1 DEF NamesApart
    <2>6. CASE ValidManifest(got)
      BY <2>1, <2>2, <2>4, <2>6 DEF Manifest
    <2>7. CASE ~ValidManifest(got)
      BY <2>1, <2>2, <2>3, <2>5, <2>7 DEF Manifest
    <2> QED BY <2>6, <2>7
  <1>11. CASE RcvAccept \/ SndTasks
    <2>1. /\ stage \in {"valid", "accepted"} /\ stage' \in {"accepted", "ready"}
          /\ UNCHANGED <<srcs, plan, got>>
      BY <1>11 DEF RcvAccept, SndTasks
    <2>2. ValidManifest(plan)'
      BY <2>1, SameManifest DEF Manifest
    <2> QED BY <2>1, <2>2 DEF Manifest
  <1>12. CASE Connects \/ Diagnoses \/ Discovers \/ UNCHANGED vars
    BY <1>1, <1>12 DEF Connects, Diagnoses, Discovers, vars, plan_vars
  <1> QED
    BY <1>2, <1>3, <1>4, <1>5, <1>6, <1>7, <1>8, <1>9, <1>10, <1>11, <1>12
    DEF Next, Plans, Edits, Sends, Planning, Sending

\* A scan that succeeds gives a manifest that validate_manifest takes, unless two sources
\* have the same file name, whatever other programs do to the disk during the scan and
\* however often they do it.
THEOREM ManifestsAccepted == Spec => []ManifestAccepted
  <1>1. Init => PlanTyped /\ Scan /\ Manifest
    BY PlanTypedInit, PlanInvInit
  <1>2. PlanTyped /\ Scan /\ Manifest /\ [Next]_vars => (PlanTyped /\ Scan /\ Manifest)'
    BY PlanTypedStep, ScanStep, ManifestStep
  <1>3. PlanTyped /\ Scan /\ Manifest => ManifestAccepted
    BY DEF Manifest, NamesApart, ManifestAccepted
  <1> QED BY <1>1, <1>2, <1>3, PTL DEF Spec

-----------------------------------------------------------------------------
(* The chunks: the receiver's answer and the sender's tasks share out each file. *)

\* The receiver has chunks of the files there are, and waits for the workers it computed.
Resumed ==
    stage \in {"accepted", "ready"} =>
        /\ \A i \in Regular(plan) : resume[plan[i].id] \subseteq Indices(plan[i])
        /\ expect = IF srcs = <<Stdin>> THEN 0 ELSE ExpectedWorkers(plan, resume)

Tasked ==
    stage = "ready" =>
        /\ tasks = ChunkTasks(plan, resume)
        /\ workers = IF srcs = <<Stdin>> \/ tasks = {} THEN 0 ELSE Clamp(Parallel, 1, MaxParallel)

\* In a valid manifest an id names one entry.
LEMMA IdsNameEntries ==
    ASSUME NEW es \in Seq(PlanEntry), ValidManifest(es),
           NEW i \in DOMAIN es, NEW j \in DOMAIN es, es[i].id = es[j].id
    PROVE  i = j
  <1>1. i \in Nat /\ j \in Nat /\ i >= 1 /\ j >= 1
    OBVIOUS
  <1>2. CASE i < j
    BY <1>1, <1>2 DEF ValidManifest
  <1>3. CASE j < i
    BY <1>1, <1>3 DEF ValidManifest
  <1> QED BY <1>1, <1>2, <1>3

\* The receiver's answer is about the chunks of the manifest, and stays as it is.
LEMMA ResumedStep == PlanTyped /\ Manifest /\ Resumed /\ [Next]_vars => Resumed'
  <1> SUFFICES ASSUME PlanTyped, Manifest, Resumed, [Next]_vars PROVE Resumed'
    OBVIOUS
  <1> USE DEF scan_vars, task_vars
  <1>0. ASSUME UNCHANGED <<srcs, cmd, plan, resume, expect>>,
               stage' \in {"accepted", "ready"} => stage \in {"accepted", "ready"}
        PROVE  Resumed'
    <2>1. ExpectedWorkers(plan, resume)' = ExpectedWorkers(plan, resume)
      BY <1>0 DEF ExpectedWorkers, NonePending, Regular, Parallel
    <2> QED BY <1>0, <2>1 DEF Resumed, Regular, Indices
  <1>1. CASE stage' \notin {"accepted", "ready"}
    BY <1>1 DEF Resumed
  <1>2. CASE RcvAccept
    <2>1. /\ stage = "valid" /\ UNCHANGED <<srcs, cmd, plan, got>>
      BY <1>2 DEF RcvAccept
    <2>2. got = plan /\ ValidManifest(plan) /\ plan \in Seq(PlanEntry)
      BY <2>1 DEF Manifest, PlanTyped
    <2>3. PICK have \in SUBSET UNION {{got[i].id} \X Indices(got[i]) : i \in Regular(got)} :
            /\ resume' = [f \in {got[i].id : i \in Regular(got)} |->
                            {n \in 0 .. U32 - 1 : <<f, n>> \in have}]
            /\ expect' = IF srcs = <<Stdin>> THEN 0 ELSE ExpectedWorkers(got, resume')
      BY <1>2, Zenon DEF RcvAccept
    <2>4. ASSUME NEW i \in Regular(plan), NEW n \in resume'[plan[i].id] PROVE n \in Indices(plan[i])
      <3>1. <<got[i].id, n>> \in have
        BY <2>2, <2>3, <2>4
      <3>2. PICK j \in Regular(plan) : <<plan[i].id, n>> \in {plan[j].id} \X Indices(plan[j])
        BY <2>2, <2>3, <3>1
      <3>3. i = j
        BY <2>2, <2>4, <3>2, IdsNameEntries DEF Regular
      <3> QED BY <3>2, <3>3
    <2>5. ExpectedWorkers(plan, resume') = ExpectedWorkers(plan, resume)'
      BY <2>1 DEF ExpectedWorkers, NonePending, Regular, Parallel
    <2>6. expect' = IF srcs = <<Stdin>> THEN 0 ELSE ExpectedWorkers(plan, resume')
      BY <2>2, <2>3
    <2> QED BY <2>1, <2>4, <2>5, <2>6 DEF Resumed, Regular, Indices
  <1>3. CASE SndTasks
    BY <1>0, <1>3 DEF SndTasks
  <1>4. CASE Edit \/ SendPiece
    BY <1>0, <1>4 DEF Edit, SendPiece
  <1>5. CASE Gather \/ GatherFails \/ Confirm \/ PlanStdin \/ PlanScan \/ ScanDone
    BY <1>1, <1>5 DEF Gather, GatherFails, Confirm, PlanStdin, PlanScan, ScanDone
  <1>6. CASE ScanStat \/ ScanDir \/ ScanFile \/ SendBegin \/ RcvManifest
    BY <1>1, <1>6 DEF ScanStat, ScanDir, ScanFile, ScanFailed, SendBegin, RcvManifest
  <1>7. CASE Connects \/ Diagnoses \/ Discovers \/ UNCHANGED vars
    BY <1>0, <1>7 DEF Connects, Diagnoses, Discovers, vars, plan_vars
  <1> QED
    BY <1>2, <1>3, <1>4, <1>5, <1>6, <1>7
    DEF Next, Plans, Edits, Sends, Planning, Sending

\* The tasks are made once, from the answer.
LEMMA TaskedStep == Tasked /\ [Next]_vars => Tasked'
  <1> SUFFICES ASSUME Tasked, [Next]_vars PROVE Tasked'
    OBVIOUS
  <1> USE DEF scan_vars, task_vars
  <1>0. ASSUME UNCHANGED <<srcs, cmd, plan, resume, tasks, workers>>, stage' = stage
        PROVE  Tasked'
    BY <1>0 DEF Tasked, ChunkTasks, Regular, Indices, Parallel
  <1>1. CASE stage' # "ready"
    BY <1>1 DEF Tasked
  <1>2. CASE SndTasks
    <2>1. /\ UNCHANGED <<srcs, cmd, plan, resume>>
          /\ tasks' = ChunkTasks(plan, resume)
          /\ workers' = IF srcs = <<Stdin>> \/ tasks' = {} THEN 0 ELSE Clamp(Parallel, 1, MaxParallel)
      BY <1>2 DEF SndTasks
    <2>2. ChunkTasks(plan, resume)' = ChunkTasks(plan, resume)
      BY <2>1 DEF ChunkTasks, Regular, Indices
    <2>3. Parallel' = Parallel
      BY <2>1 DEF Parallel
    <2> QED BY <2>1, <2>2, <2>3 DEF Tasked
  <1>3. CASE Edit \/ SendPiece
    BY <1>0, <1>3 DEF Edit, SendPiece
  <1>4. CASE Gather \/ GatherFails \/ Confirm \/ PlanStdin \/ PlanScan \/ ScanDone
    BY <1>1, <1>4 DEF Gather, GatherFails, Confirm, PlanStdin, PlanScan, ScanDone
  <1>5. CASE ScanStat \/ ScanDir \/ ScanFile \/ SendBegin \/ RcvManifest \/ RcvAccept
    BY <1>1, <1>5 DEF ScanStat, ScanDir, ScanFile, ScanFailed, SendBegin, RcvManifest, RcvAccept
  <1>6. CASE Connects \/ Diagnoses \/ Discovers \/ UNCHANGED vars
    BY <1>0, <1>6 DEF Connects, Diagnoses, Discovers, vars, plan_vars
  <1> QED
    BY <1>2, <1>3, <1>4, <1>5, <1>6
    DEF Next, Plans, Edits, Sends, Planning, Sending

\* Counting the chunks that are there finds out whether one is missing.
LEMMA CountTells ==
    ASSUME NEW n \in Nat, NEW done, done \subseteq 0 .. n - 1
    PROVE  n <= Cardinality(done) <=> (0 .. n - 1) \ done = {}
  <1>1. IsFiniteSet(0 .. n - 1) /\ Cardinality(0 .. n - 1) = n
    BY FS_Interval
  <1>2. /\ IsFiniteSet(done) /\ Cardinality(done) <= n
        /\ Cardinality(done) = n => done = 0 .. n - 1
    BY <1>1, FS_Subset
  <1>3. Cardinality(done) \in Nat
    BY <1>2, FS_CardinalityType
  <1>4. ASSUME n <= Cardinality(done) PROVE (0 .. n - 1) \ done = {}
    <2>1. done = 0 .. n - 1
      BY <1>2, <1>3, <1>4
    <2> QED BY <2>1
  <1>5. ASSUME (0 .. n - 1) \ done = {} PROVE n <= Cardinality(done)
    <2>1. done = 0 .. n - 1
      BY <1>5
    <2> QED BY <1>1, <2>1
  <1> QED BY <1>4, <1>5

\* The tasks of one entry.
LEMMA TasksOf ==
    ASSUME NEW es \in Seq(PlanEntry), ValidManifest(es), NEW i \in Regular(es), NEW done
    PROVE  {t \in ChunkTasks(es, done) : t.id = es[i].id} =
             {[id |-> es[i].id, index |-> n, offset |-> Offset(n), len |-> ChunkLen(es[i].size, n)] :
                n \in Indices(es[i]) \ done[es[i].id]}
  <1> DEFINE T(j) == {[id |-> es[j].id, index |-> n, offset |-> Offset(n),
                       len |-> ChunkLen(es[j].size, n)] : n \in Indices(es[j]) \ done[es[j].id]}
  <1>1. ChunkTasks(es, done) = UNION {T(j) : j \in Regular(es)}
    BY DEF ChunkTasks
  <1>2. \A j \in Regular(es) : \A t \in T(j) : t.id = es[j].id
    OBVIOUS
  <1> HIDE DEF T
  <1>3. ASSUME NEW t \in ChunkTasks(es, done), t.id = es[i].id PROVE t \in T(i)
    <2>1. PICK j \in Regular(es) : t \in T(j)
      BY <1>1, <1>3
    <2>2. es[j].id = es[i].id
      BY <1>2, <1>3, <2>1
    <2>3. j = i
      BY <2>2, IdsNameEntries DEF Regular
    <2> QED BY <2>1, <2>3
  <1>4. ASSUME NEW t \in T(i) PROVE t \in ChunkTasks(es, done) /\ t.id = es[i].id
    BY <1>1, <1>2, <1>4
  <1>5. {t \in ChunkTasks(es, done) : t.id = es[i].id} = T(i)
    BY <1>3, <1>4
  <1> QED BY <1>5 DEF T

\* The receiver's count of what is missing and the sender's tasks are empty together.
LEMMA SameWorkers ==
    ASSUME PlanTyped, Manifest, Resumed, Tasked, stage = "ready"
    PROVE  expect = workers
  <1>1. /\ \A i \in Regular(plan) : resume[plan[i].id] \subseteq Indices(plan[i])
        /\ expect = IF srcs = <<Stdin>> THEN 0 ELSE ExpectedWorkers(plan, resume)
        /\ tasks = ChunkTasks(plan, resume)
        /\ workers = IF srcs = <<Stdin>> \/ tasks = {} THEN 0 ELSE Clamp(Parallel, 1, MaxParallel)
    BY DEF Resumed, Tasked
  <1>2. \A i \in Regular(plan) : plan[i].chunks \in Nat
    <2>1. \A i \in Regular(plan) : plan[i] \in PlanEntry
      BY DEF PlanTyped, Regular
    <2> QED BY <2>1 DEF PlanEntry
  <1>3. \A i \in Regular(plan) : plan[i].chunks <= Cardinality(resume[plan[i].id])
                                   <=> Indices(plan[i]) \ resume[plan[i].id] = {}
    BY <1>1, <1>2, CountTells DEF Indices
  <1>4. tasks = {} <=> \A i \in Regular(plan) : Indices(plan[i]) \ resume[plan[i].id] = {}
    <2> DEFINE T(i) == {[id |-> plan[i].id, index |-> n, offset |-> Offset(n),
                         len |-> ChunkLen(plan[i].size, n)] : n \in Indices(plan[i]) \ resume[plan[i].id]}
    <2>1. tasks = UNION {T(i) : i \in Regular(plan)}
      BY <1>1 DEF ChunkTasks
    <2>2. \A i \in Regular(plan) : T(i) = {} <=> Indices(plan[i]) \ resume[plan[i].id] = {}
      OBVIOUS
    <2> HIDE DEF T
    <2> QED BY <2>1, <2>2
  <1>5. NonePending(plan, resume) <=> tasks = {}
    BY <1>3, <1>4 DEF NonePending
  <1> QED BY <1>1, <1>5 DEF ExpectedWorkers

\* Of the chunks of a file, the one that has the byte is at one side or the other.
LEMMA OneSide ==
    ASSUME NEW size \in Nat, Countable(size), NEW id, NEW b \in 0 .. size - 1, NEW done,
           done \subseteq 0 .. ChunkCountFor(size) - 1
    PROVE  LET left == {[id |-> id, index |-> n, offset |-> Offset(n), len |-> ChunkLen(size, n)] :
                          n \in (0 .. ChunkCountFor(size) - 1) \ done}
           IN Cardinality({n \in done : InChunk(b, size, n)})
                + Cardinality({t \in left : t.offset <= b /\ b < t.offset + t.len}) = 1
  <1> DEFINE N == 0 .. ChunkCountFor(size) - 1
             task(n) == [id |-> id, index |-> n, offset |-> Offset(n), len |-> ChunkLen(size, n)]
             left == {task(n) : n \in N \ done}
             A == {n \in done : InChunk(b, size, n)}
             B == {t \in left : t.offset <= b /\ b < t.offset + t.len}
  <1>1. PICK n \in N : InChunk(b, size, n) /\ \A m \in N : InChunk(b, size, m) => m = n
    BY ChunksTile
  <1>2. \A m : task(m).offset = Offset(m) /\ task(m).len = ChunkLen(size, m)
    OBVIOUS
  <1> HIDE DEF task, N
  <1>3. \A m : (task(m).offset <= b /\ b < task(m).offset + task(m).len) <=> InChunk(b, size, m)
    BY <1>2 DEF InChunk
  <1>4. done \subseteq N
    BY DEF N
  <1>5. CASE n \in done
    <2>1. A = {n}
      BY <1>1, <1>4, <1>5
    <2>2. B = {}
      BY <1>1, <1>3, <1>5
    <2>3. Cardinality(A) = 1 /\ Cardinality(B) = 0
      BY <2>1, <2>2, FS_Singleton, FS_EmptySet
    <2> QED BY <2>3 DEF task, N
  <1>6. CASE n \notin done
    <2>1. A = {}
      BY <1>1, <1>4, <1>6
    <2>2. B = {task(n)}
      <3>1. task(n) \in B
        BY <1>1, <1>3, <1>6
      <3>2. ASSUME NEW t \in B PROVE t = task(n)
        <4>1. PICK m \in N \ done : t = task(m)
          BY <3>2
        <4>2. InChunk(b, size, m)
          BY <1>3, <3>2, <4>1
        <4> QED BY <1>1, <4>1, <4>2
      <3> QED BY <3>1, <3>2
    <2>3. Cardinality(A) = 0 /\ Cardinality(B) = 1
      BY <2>1, <2>2, FS_Singleton, FS_EmptySet
    <2> QED BY <2>3 DEF task, N
  <1> QED BY <1>5, <1>6

\* What the sender has left to send completes what the receiver has.
LEMMA ReadyTiles ==
    ASSUME PlanTyped, Manifest, Resumed, Tasked
    PROVE  Tiled
  <1>1. stage = "ready" => expect = workers
    BY SameWorkers
  <1>2. ASSUME stage = "ready", srcs # <<Stdin>>, NEW i \in Regular(plan)
        PROVE  LET e    == plan[i]
                   mine == {t \in tasks : t.id = e.id}
               IN /\ \A t \in mine : GeometryOk(e, t)
                  /\ Countable(e.size) =>
                       \A b \in 0 .. e.size - 1 :
                         Cardinality({n \in resume[e.id] : InChunk(b, e.size, n)})
                           + Cardinality({t \in mine : t.offset <= b /\ b < t.offset + t.len}) = 1
    <2> DEFINE e == plan[i]
               done == resume[e.id]
               mine == {t \in tasks : t.id = e.id}
               task(n) == [id |-> e.id, index |-> n, offset |-> Offset(n), len |-> ChunkLen(e.size, n)]
    <2>1. /\ ValidManifest(plan) /\ plan \in Seq(PlanEntry) /\ i \in DOMAIN plan /\ e.kind = "file"
          /\ done \subseteq Indices(e) /\ tasks = ChunkTasks(plan, resume)
      BY <1>2 DEF Manifest, PlanTyped, Resumed, Tasked, Regular
    <2>2. e \in PlanEntry /\ ValidFile(e)
      BY <2>1 DEF ValidManifest
    <2>3. e.size \in Nat /\ e.chunks \in Nat /\ e.chunks = ChunkCountFor(e.size)
      BY <1>2, <2>2 DEF PlanEntry, ValidFile
    <2>4. mine = {task(n) : n \in Indices(e) \ done}
      BY <1>2, <2>1, TasksOf
    <2>5. ASSUME NEW t \in mine PROVE GeometryOk(e, t)
      <3>1. PICK n \in Indices(e) : t = task(n)
        BY <2>4, <2>5
      <3>2. t.index = n /\ t.offset = Offset(n) /\ t.len = ChunkLen(e.size, n)
        BY <3>1
      <3>3. n < e.chunks
        BY <2>3 DEF Indices
      <3> QED BY <3>2, <3>3 DEF GeometryOk
    <2>6. ASSUME Countable(e.size), NEW b \in 0 .. e.size - 1
          PROVE  Cardinality({n \in done : InChunk(b, e.size, n)})
                   + Cardinality({t \in mine : t.offset <= b /\ b < t.offset + t.len}) = 1
      <3>1. done \subseteq 0 .. ChunkCountFor(e.size) - 1
            /\ mine = {task(n) : n \in (0 .. ChunkCountFor(e.size) - 1) \ done}
        BY <2>1, <2>3, <2>4 DEF Indices
      <3> DEFINE left == {task(n) : n \in (0 .. ChunkCountFor(e.size) - 1) \ done}
      <3>2. Cardinality({n \in done : InChunk(b, e.size, n)})
              + Cardinality({t \in left : t.offset <= b /\ b < t.offset + t.len}) = 1
        <4> HIDE DEF e, done, mine
        <4>1. e.size \in Nat /\ Countable(e.size) /\ b \in 0 .. e.size - 1
          BY <2>3, <2>6
        <4>2. done \subseteq 0 .. ChunkCountFor(e.size) - 1
          BY <3>1
        <4> QED BY ONLY <4>1, <4>2, OneSide, Zenon
      <3>3. mine = left
        BY <3>1
      <3> HIDE DEF e, done, mine, left
      <3> QED BY <3>2, <3>3
    <2> QED BY <2>5, <2>6
  <1> QED BY <1>1, <1>2 DEF Tiled

\* Once the tasks are made, every byte of every file is in exactly one of the chunks the
\* receiver said it has and the chunks the sender is about to send, each of those passes
\* validate_chunk_geometry, and the receiver waits for as many workers as there are: for
\* every chunk size, every manifest and every state an earlier session may have left.
THEOREM PlansTile == Spec => []Tiled
  <1> DEFINE I == PlanTyped /\ Scan /\ Manifest /\ Resumed /\ Tasked
  <1>1. Init => I
    <2>1. Init => Resumed /\ Tasked
      BY DEF Init, PlanInit, Resumed, Tasked
    <2> QED BY <2>1, PlanTypedInit, PlanInvInit
  <1>2. I /\ [Next]_vars => I'
    BY PlanTypedStep, ScanStep, ManifestStep, ResumedStep, TaskedStep
  <1>3. I => Tiled
    BY ReadyTiles
  <1> QED BY <1>1, <1>2, <1>3, PTL DEF Spec

-----------------------------------------------------------------------------
(* The plan: what the scan records.  A spot is a path of the disk as something *)
(* below a source; the same path is a spot of each source it is below.  While   *)
(* nobody changes the disk, what is recorded, what is in hand and what waits    *)
(* make up all there is, none of it twice.                                     *)

Spots == {x \in (DOMAIN srcs) \X Paths : Under(srcs[x[1]], x[2])}

Below(x, y) == x[1] = y[1] /\ Under(x[2], y[2])
Off(x, y)   == ~Below(x, y) /\ ~Below(y, x)

\* How a spot waits in the scan's stack.
VisitOf(x) == [path |-> x[2], rel |-> Placed(x[1], x[2])]

\* w waits, c is in hand, R is recorded: what waits has nothing below it among the others.
Frontier(w, c, R) ==
    /\ \A k, l \in DOMAIN w : k # l => Off(w[k], w[l])
    /\ \A k \in DOMAIN w : \A x \in c : Off(w[k], x)
    /\ \A k \in DOMAIN w : \A y \in R : ~Below(w[k], y)
    /\ \A x \in c : \A y \in R : Below(x, y) => y = x

Covered(w, c, R) ==
    \A x \in Found : \/ x \in R
                     \/ \E k \in DOMAIN w : Below(w[k], x)
                     \/ \E y \in c : Below(y, x)

\* What is in hand was on the disk, and is recorded already if it is a directory.
HandSpot(c, R) ==
    /\ cur.kind = "none" => c = {}
    /\ cur.kind # "none" =>
         \E x \in Spots : /\ c = {x} /\ cur.path = x[2] /\ cur.rel = Placed(x[1], x[2])
                          /\ x[2] \in DOMAIN fs
                          /\ fs[x[2]].kind = cur.kind /\ fs[x[2]].size = cur.size
                          /\ x \in R <=> cur.kind = "dir"

WaitSpots(w) ==
    /\ w \in Seq(Spots) /\ Len(w) = Len(stack)
    /\ \A k \in DOMAIN w : stack[k] = VisitOf(w[k])

\* The manifest is the root, if there is one, and an entry for each recorded spot.
RecordedIn(R) ==
    /\ R \subseteq Found /\ IsFiniteSet(R)
    /\ Len(plan) = Cardinality(R) + (IF Multi THEN 1 ELSE 0)
    /\ \A x \in R : \E i \in DOMAIN plan : Records(plan[i], x)

Tracks(w, c, R) ==
    WaitSpots(w) /\ HandSpot(c, R) /\ RecordedIn(R) /\ Frontier(w, c, R) /\ Covered(w, c, R)

Book ==
    (stage = "scan" /\ edits = 0) =>
        /\ \A i \in DOMAIN srcs : srcs[i] # <<>>
        /\ \E w, c, R : Tracks(w, c, R)

Untouched == edits \in Nat /\ (edits = 0 => fs \in Trees)

\* The order of IsPrefix is the order of the tree.
LEMMA PrefixUnder ==
    ASSUME NEW r \in Paths, NEW s \in Paths
    PROVE  /\ IsPrefix(r, s) <=> Under(r, s)
           /\ Under(r, s) => r = SubSeq(s, 1, Len(r)) /\ Len(r) <= Len(s)
           /\ Under(r, s) /\ r # s => Len(r) < Len(s)
  <1> DEFINE A == Names \cup {"stdin", ".."}
  <1>1. r \in Seq(A) /\ s \in Seq(A) /\ Len(r) \in Nat /\ Len(s) \in Nat
    BY DEF Paths
  <1> HIDE DEF A
  <1>2. ASSUME Len(r) <= Len(s)
        PROVE  /\ SubSeq(s, 1, Len(r)) \in Seq(A) /\ Len(SubSeq(s, 1, Len(r))) = Len(r)
               /\ SubSeq(r, 1, Len(r)) = r
               /\ \A i \in 1 .. Len(r) : SubSeq(s, 1, Len(r))[i] = s[i]
    BY <1>1, <1>2
  <1>3. ASSUME Len(r) <= Len(s), r = SubSeq(s, 1, Len(r)) PROVE Under(r, s)
    <2>1. ASSUME NEW i \in 1 .. Len(r) PROVE s[i] = r[i]
      BY <1>2, <1>3
    <2> QED BY <1>3, <2>1 DEF Under
  <1>4. ASSUME Under(r, s) PROVE Len(r) <= Len(s) /\ r = SubSeq(s, 1, Len(r))
    <2>1. Len(r) <= Len(s)
      BY <1>4 DEF Under
    <2> DEFINE t == SubSeq(s, 1, Len(r))
    <2>2. t \in Seq(A) /\ Len(t) = Len(r) /\ \A i \in 1 .. Len(r) : t[i] = r[i]
      BY <1>2, <1>4, <2>1 DEF Under
    <2> HIDE DEF t
    <2>3. r = t
      BY <1>1, <2>2
    <2> QED BY <2>1, <2>3 DEF t
  <1>5. IsPrefix(r, s) <=> Len(r) <= Len(s) /\ r = SubSeq(s, 1, Len(r))
    BY <1>2 DEF IsPrefix
  <1>6. ASSUME Under(r, s), Len(r) = Len(s) PROVE r = s
    <2>1. \A i \in 1 .. Len(r) : s[i] = r[i]
      BY <1>6 DEF Under
    <2> QED BY <1>1, <1>6, <2>1
  <1>7. Under(r, s) /\ r # s => Len(r) < Len(s)
    BY <1>1, <1>4, <1>6
  <1> QED BY <1>3, <1>4, <1>5, <1>7

\* On a disk, only a directory has something below it, and the way down leads through
\* one of its children.
LEMMA WayDown ==
    ASSUME PlanTyped, fs \in Trees, NEW p \in DOMAIN fs, NEW r \in Paths, r # <<>>,
           Under(r, p), r # p
    PROVE  fs[r].kind = "dir" /\ \E q \in ChildrenOf(r) : Under(q, p)
  <1> DEFINE A == Names
             n == Len(r)
             q == SubSeq(p, 1, n + 1)
  <1>1. p \in Seq(A) /\ p \in Paths /\ Len(p) \in Nat
    BY DiskPaths DEF PlanTyped
  <1>2. n \in Nat /\ n # 0
    BY DEF Paths
  <1>3. n < Len(p) /\ r = SubSeq(p, 1, n)
    BY <1>1, PrefixUnder
  <1>4. \A m \in 1 .. Len(p) - 1 : SubSeq(p, 1, m) \in DOMAIN fs /\ fs[SubSeq(p, 1, m)].kind = "dir"
    BY DiskAssumption
  <1>5. fs[r].kind = "dir"
    <2>1. n \in 1 .. Len(p) - 1
      BY <1>1, <1>2, <1>3
    <2> QED BY <1>3, <1>4, <2>1
  <1>6. q \in DOMAIN fs
    <2>1. CASE n + 1 = Len(p)
      <3>1. SubSeq(p, 1, Len(p)) = p
        BY <1>1
      <3> QED BY <2>1, <3>1
    <2>2. CASE n + 1 # Len(p)
      <3>1. n + 1 \in 1 .. Len(p) - 1
        BY <1>1, <1>2, <1>3, <2>2
      <3> QED BY <1>4, <3>1
    <2> QED BY <2>1, <2>2
  <1>7. /\ q \in Seq(A) /\ Len(q) = n + 1 /\ n + 1 <= Len(p)
        /\ \A i \in 1 .. n + 1 : q[i] = p[i]
    BY <1>1, <1>2, <1>3
  <1>8. SubSeq(q, 1, n) = r
    <2> DEFINE t == SubSeq(q, 1, n)
               u == SubSeq(p, 1, n)
    <2>1. t \in Seq(A) /\ Len(t) = n /\ \A i \in 1 .. n : t[i] = q[i]
      <3> HIDE DEF q
      <3> QED BY <1>2, <1>7
    <2>2. u \in Seq(A) /\ Len(u) = n /\ \A i \in 1 .. n : u[i] = p[i]
      BY <1>1, <1>2, <1>3
    <2>3. \A i \in 1 .. n : i \in 1 .. n + 1
      BY <1>2
    <2> HIDE DEF t, u, q
    <2>4. t = u
      BY <1>7, <2>1, <2>2, <2>3
    <2> QED BY <1>3, <2>4 DEF t, u
  <1>9. q \in ChildrenOf(r)
    BY <1>6, <1>7, <1>8 DEF ChildrenOf
  <1>10. Under(q, p)
    <2> HIDE DEF q
    <2> QED BY <1>7 DEF Under
  <1> QED BY <1>5, <1>9, <1>10

\* ScanDir lists every child of the directory.
LEMMA KidsAll ==
    ASSUME PlanTyped, cur.kind = "dir", cur.path \in DOMAIN fs, NEW kids \in Children(cur.path)
    PROVE  /\ \A q \in ChildrenOf(cur.path) : \E i \in DOMAIN kids : kids[i] = q
           /\ \A i \in DOMAIN kids : kids[i] \in DOMAIN fs /\ kids[i] = Append(cur.path, Last(kids[i]))
  <1> DEFINE S == ChildrenOf(cur.path)
             n == Cardinality(S)
             I == {kids[i] : i \in 1 .. n}
  <1>1. S \subseteq DOMAIN fs /\ IsFiniteSet(S) /\ n \in Nat
    <2>1. S \subseteq DOMAIN fs
      BY DEF ChildrenOf
    <2> QED BY <2>1, FS_Subset, FS_CardinalityType DEF PlanTyped
  <1>2. kids \in [1 .. n -> S] /\ DOMAIN kids = 1 .. n
    BY DEF Children
  <1>3. \A i, j \in DOMAIN kids : i # j => kids[i] # kids[j]
    <2>1. DOMAIN kids = 1 .. Len(kids)
      BY KidsTyped
    <2>2. \A i, j \in 1 .. Len(kids) : i # j => Last(kids[i]) # Last(kids[j])
      BY KidsTyped
    <2> QED BY <2>1, <2>2
  <1>4. kids \in Bijection(1 .. n, I)
    <2> HIDE DEF n
    <2>1. kids \in [1 .. n -> I]
      BY <1>2
    <2>2. \A i, j \in 1 .. n : kids[i] = kids[j] => i = j
      BY <1>2, <1>3
    <2>3. \A q \in I : \E i \in 1 .. n : kids[i] = q
      OBVIOUS
    <2> HIDE DEF I
    <2> QED BY <2>1, <2>2, <2>3 DEF Bijection, Injection, IsInjective, Surjection
  <1>5. Cardinality(I) = n
    <2>1. IsFiniteSet(1 .. n) /\ Cardinality(1 .. n) = n
      <3> HIDE DEF n
      <3> QED BY <1>1, FS_Interval
    <2>2. ExistsBijection(1 .. n, I)
      BY <1>4 DEF ExistsBijection
    <2> HIDE DEF n, I
    <2> QED BY <2>1, <2>2, FS_Bijection
  <1>6. I \subseteq S
    BY <1>2
  <1>7. I = S
    <2> HIDE DEF I
    <2>1. Cardinality(S) = Cardinality(I)
      BY <1>5
    <2> HIDE DEF S
    <2> QED BY <1>1, <1>6, <2>1, FS_Subset
  <1>8. \A q \in S : \E i \in DOMAIN kids : kids[i] = q
    BY <1>2, <1>7
  <1>9. ASSUME NEW i \in DOMAIN kids
        PROVE  kids[i] \in DOMAIN fs /\ kids[i] = Append(cur.path, Last(kids[i]))
    <2> DEFINE q == kids[i]
               p == cur.path
    <2>1. q \in DOMAIN fs /\ Len(q) = Len(p) + 1 /\ SubSeq(q, 1, Len(p)) = p
      BY <1>2 DEF ChildrenOf
    <2>2. q \in Seq(Names) /\ p \in Seq(Names) /\ Len(p) \in Nat
      BY <2>1 DEF PlanTyped
    <2>3. Last(q) = q[Len(p) + 1] /\ Last(q) \in Names
      BY <2>1, <2>2 DEF Last
    <2>4. \A j \in 1 .. Len(p) : SubSeq(q, 1, Len(p))[j] = q[j]
      BY <2>1, <2>2
    <2> DEFINE t == Append(p, Last(q))
    <2>5. t \in Seq(Names) /\ Len(t) = Len(p) + 1 /\ t[Len(p) + 1] = Last(q)
          /\ \A j \in 1 .. Len(p) : t[j] = p[j]
      <3> HIDE DEF q, p
      <3> QED BY <2>2, <2>3
    <2> HIDE DEF q, p, t
    <2>6. \A j \in 1 .. Len(p) + 1 : t[j] = q[j]
      <3>1. \A j \in 1 .. Len(p) + 1 : j \in 1 .. Len(p) \/ j = Len(p) + 1
        BY <2>2
      <3> QED BY <2>1, <2>3, <2>4, <2>5, <3>1
    <2>7. t = q
      BY <2>1, <2>2, <2>5, <2>6
    <2> QED BY <2>1, <2>7 DEF q, p, t
  <1> QED BY <1>8, <1>9

\* A source is placed by its name, or at the root; what is in a directory is placed in it.
LEMMA PlacedChild ==
    ASSUME PlanTyped, NEW i \in DOMAIN srcs, srcs[i] # <<>>, NEW p \in Paths, NEW n \in Names
    PROVE  /\ Placed(i, srcs[i]) = IF Multi THEN <<Last(srcs[i])>> ELSE <<>>
           /\ Placed(i, p) \in Paths
           /\ Under(srcs[i], p) => /\ Placed(i, Append(p, n)) = Append(Placed(i, p), n)
                                   /\ Under(srcs[i], Append(p, n))
  <1> DEFINE A == Names \cup {"stdin", ".."}
             s == srcs[i]
             m == Len(s)
             pre == IF Multi THEN <<Last(s)>> ELSE <<>>
  <1>1. s \in Seq(A) /\ s # <<>> /\ p \in Seq(A) /\ n \in A /\ m \in Nat /\ m # 0 /\ Len(p) \in Nat
    BY DEF PlanTyped, Paths
  <1>2. Last(s) \in A
    BY <1>1 DEF Last
  <1> HIDE DEF A, s
  <1>3. pre \in Seq(A)
    <2>1. <<Last(s)>> \in Seq(A) /\ <<>> \in Seq(A)
      BY <1>2
    <2> QED BY <2>1, Zenon
  <1> HIDE DEF pre
  <1>4. SubSeq(s, m + 1, m) = <<>>
    BY <1>1
  <1>5. Placed(i, s) = pre
    <2>1. Placed(i, s) = pre \o SubSeq(s, m + 1, m)
      BY Zenon DEF Placed, pre, s
    <2>2. pre \o <<>> = pre
      BY <1>3
    <2> QED BY <1>4, <2>1, <2>2
  <1>6. SubSeq(p, m + 1, Len(p)) \in Seq(A)
    BY <1>1
  <1>7. Placed(i, p) \in Seq(A)
    BY <1>3, <1>6 DEF Placed, pre, s
  <1>8. ASSUME Under(s, p) PROVE Placed(i, Append(p, n)) = Append(Placed(i, p), n)
    <2>1. m <= Len(p)
      BY <1>8 DEF Under
    <2> DEFINE a == SubSeq(p, m + 1, Len(p))
               b == SubSeq(Append(p, n), m + 1, Len(p) + 1)
    <2>2. a \in Seq(A) /\ Len(a) = Len(p) - m /\ \A j \in 1 .. Len(p) - m : a[j] = p[j + m]
      BY <1>1, <2>1
    <2>3. /\ b \in Seq(A) /\ Len(b) = Len(p) + 1 - m
          /\ \A j \in 1 .. Len(p) + 1 - m : b[j] = Append(p, n)[j + m]
      <3>1. Append(p, n) \in Seq(A) /\ Len(Append(p, n)) = Len(p) + 1
        BY <1>1
      <3> DEFINE z == Append(p, n)
      <3> HIDE DEF z
      <3>2. z \in Seq(A) /\ Len(z) = Len(p) + 1
        BY <3>1 DEF z
      <3>3. /\ SubSeq(z, m + 1, Len(p) + 1) \in Seq(A) /\ Len(SubSeq(z, m + 1, Len(p) + 1)) = Len(p) + 1 - m
            /\ \A j \in 1 .. Len(p) + 1 - m : SubSeq(z, m + 1, Len(p) + 1)[j] = z[j + m]
        BY <1>1, <2>1, <3>2
      <3> QED BY <3>3 DEF z
    <2>4. b = Append(a, n)
      <3>1. Append(a, n) \in Seq(A) /\ Len(Append(a, n)) = Len(p) + 1 - m
        BY <1>1, <2>1, <2>2
      <3>2. ASSUME NEW j \in 1 .. Len(p) + 1 - m PROVE b[j] = Append(a, n)[j]
        <4>1. CASE j = Len(p) + 1 - m
          <5>1. Append(p, n)[j + m] = n
            BY <1>1, <2>1, <4>1
          <5>2. Append(a, n)[j] = n
            BY <1>1, <2>1, <2>2, <4>1
          <5> QED BY <2>3, <5>1, <5>2
        <4>2. CASE j # Len(p) + 1 - m
          <5>1. j \in 1 .. Len(p) - m /\ j + m \in 1 .. Len(p)
            BY <1>1, <2>1, <4>2
          <5>2. Append(p, n)[j + m] = p[j + m]
            BY <1>1, <5>1
          <5>3. Append(a, n)[j] = a[j]
            BY <1>1, <2>2, <5>1
          <5> QED BY <2>2, <2>3, <5>1, <5>2, <5>3
        <4> QED BY <4>1, <4>2
      <3> DEFINE z == Append(a, n)
                 l == Len(p) + 1 - m
      <3>3. l \in Nat
        BY <1>1, <2>1
      <3> HIDE DEF a, b, z, l
      <3>4. /\ b \in Seq(A) /\ Len(b) = l /\ z \in Seq(A) /\ Len(z) = l
            /\ \A j \in 1 .. l : b[j] = z[j]
        BY <2>3, <3>1, <3>2 DEF z, l
      <3>5. b = z
        BY <3>3, <3>4
      <3> QED BY <3>5 DEF z
    <2>5. Placed(i, Append(p, n)) = pre \o b
      <3>1. Len(Append(p, n)) = Len(p) + 1
        BY <1>1
      <3> QED BY <3>1 DEF Placed, pre, s
    <2>6. Placed(i, p) = pre \o a
      BY DEF Placed, pre, s
    <2> HIDE DEF a, b
    <2>7. pre \o Append(a, n) = Append(pre \o a, n)
      BY <1>1, <1>3, <2>2
    <2> QED BY <2>4, <2>5, <2>6, <2>7
  <1>9. ASSUME Under(s, p) PROVE Under(s, Append(p, n))
    <2>1. Len(Append(p, n)) = Len(p) + 1 /\ \A j \in 1 .. Len(p) : Append(p, n)[j] = p[j]
      BY <1>1
    <2> QED BY <1>1, <1>9, <2>1 DEF Under
  <1>10. Placed(i, p) \in Paths
    BY <1>7 DEF Paths, A
  <1> QED BY <1>5, <1>8, <1>9, <1>10 DEF s, pre

\* A spot has a source and a path, and is below itself.
LEMMA SpotTyped ==
    ASSUME NEW x \in Spots
    PROVE  x = <<x[1], x[2]>> /\ x[1] \in DOMAIN srcs /\ x[2] \in Paths /\ Below(x, x)
  <1>1. x = <<x[1], x[2]>> /\ x[1] \in DOMAIN srcs /\ x[2] \in Paths
    BY DEF Spots
  <1> QED BY <1>1, UnderSelf DEF Below

\* What there is to record are spots of the disk.
LEMMA FoundSpots ==
    ASSUME PlanTyped, NEW x
    PROVE  x \in Found <=> x \in Spots /\ x[2] \in DOMAIN fs /\ ~Excluded(fs[x[2]].kind)
  <1>1. \A p \in DOMAIN fs : p \in Paths
    BY DiskPaths DEF PlanTyped
  <1>2. \A i \in DOMAIN srcs : srcs[i] \in Paths
    BY DEF PlanTyped
  <1>3. \A i \in DOMAIN srcs : \A p \in DOMAIN fs : IsPrefix(srcs[i], p) <=> Under(srcs[i], p)
    BY <1>1, <1>2, PrefixUnder
  <1>4. ASSUME x \in Found PROVE x \in Spots /\ x[2] \in DOMAIN fs /\ ~Excluded(fs[x[2]].kind)
    <2>1. /\ x \in (DOMAIN srcs) \X (DOMAIN fs) /\ IsPrefix(srcs[x[1]], x[2])
          /\ ~Excluded(fs[x[2]].kind)
      BY <1>4 DEF Found
    <2>2. x = <<x[1], x[2]>> /\ x[1] \in DOMAIN srcs /\ x[2] \in DOMAIN fs
      BY <2>1
    <2> QED BY <1>1, <1>3, <2>1, <2>2 DEF Spots
  <1>5. ASSUME x \in Spots, x[2] \in DOMAIN fs, ~Excluded(fs[x[2]].kind) PROVE x \in Found
    <2>1. x = <<x[1], x[2]>> /\ x[1] \in DOMAIN srcs /\ Under(srcs[x[1]], x[2])
      BY <1>5 DEF Spots
    <2>2. x \in (DOMAIN srcs) \X (DOMAIN fs)
      BY <1>5, <2>1
    <2> QED BY <1>3, <1>5, <2>1, <2>2 DEF Found
  <1> QED BY <1>4, <1>5

\* The order of a sequence's tail.
LEMMA Tails ==
    ASSUME NEW S, NEW w \in Seq(S), w # <<>>
    PROVE  /\ Tail(w) \in Seq(S) /\ Len(Tail(w)) = Len(w) - 1 /\ Len(w) \in Nat \ {0}
           /\ DOMAIN w = 1 .. Len(w) /\ DOMAIN Tail(w) = 1 .. Len(w) - 1
           /\ 1 \in DOMAIN w /\ Head(w) = w[1] /\ w[1] \in S
           /\ \A k \in DOMAIN Tail(w) : /\ k \in Nat /\ k + 1 \in DOMAIN w /\ k + 1 # 1
                                        /\ Tail(w)[k] = w[k + 1]
  OBVIOUS

\* What waited first is taken in hand, and may be recorded.
LEMMA FrontTake ==
    ASSUME NEW w \in Seq(Spots), w # <<>>, NEW R, Frontier(w, {}, R)
    PROVE  Frontier(Tail(w), {w[1]}, R \cup {w[1]}) /\ w[1] \notin R
  <1> DEFINE t == Tail(w)
  <1>1. /\ 1 \in DOMAIN w /\ w[1] \in Spots
        /\ \A k \in DOMAIN t : k \in Nat /\ k + 1 \in DOMAIN w /\ k + 1 # 1 /\ t[k] = w[k + 1]
    BY Tails
  <1> HIDE DEF t
  <1>2. \A k, l \in DOMAIN w : k # l => Off(w[k], w[l])
    BY DEF Frontier
  <1>3. \A k \in DOMAIN w : \A y \in R : ~Below(w[k], y)
    BY DEF Frontier
  <1>4. \A k, l \in DOMAIN t : k # l => Off(t[k], t[l])
    <2>1. \A k, l \in DOMAIN t : k # l => k + 1 # l + 1
      BY <1>1
    <2> QED BY <1>1, <1>2, <2>1
  <1>5. \A k \in DOMAIN t : Off(t[k], w[1])
    BY <1>1, <1>2
  <1>6. \A k \in DOMAIN t : \A y \in R \cup {w[1]} : ~Below(t[k], y)
    BY <1>1, <1>3, <1>5 DEF Off
  <1>7. \A y \in R \cup {w[1]} : Below(w[1], y) => y = w[1]
    BY <1>1, <1>3
  <1>8. w[1] \notin R
    BY <1>1, <1>3, SpotTyped
  <1>9. Frontier(t, {w[1]}, R \cup {w[1]})
    BY <1>4, <1>5, <1>6, <1>7 DEF Frontier
  <1> QED BY <1>8, <1>9 DEF t

\* Less in hand, or less recorded, is no harder.
LEMMA FrontLess ==
    ASSUME NEW w, NEW c, NEW R, NEW c1 \in SUBSET c, NEW R1 \in SUBSET R, Frontier(w, c, R)
    PROVE  Frontier(w, c1, R1)
  BY DEF Frontier

\* What is in hand may be recorded.
LEMMA FrontRecord ==
    ASSUME NEW w, NEW x, NEW R, Frontier(w, {x}, R)
    PROVE  Frontier(w, {}, R \cup {x})
  BY DEF Frontier, Off

\* The children of the directory in hand may wait.
LEMMA FrontChildren ==
    ASSUME NEW w \in Seq(Spots), NEW x \in Spots, NEW R \in SUBSET Spots, Frontier(w, {x}, R),
           NEW new \in Seq(Spots),
           \A i \in DOMAIN new : new[i][1] = x[1] /\ \E n \in Names : new[i][2] = Append(x[2], n),
           \A i, j \in DOMAIN new : i # j => new[i][2] # new[j][2]
    PROVE  Frontier(new \o w, {}, R)
  <1> DEFINE v == new \o w
             n == Len(new)
             m == Len(w)
  <1>1. /\ n \in Nat /\ m \in Nat /\ DOMAIN new = 1 .. n /\ DOMAIN w = 1 .. m
        /\ DOMAIN v = 1 .. n + m
        /\ \A k \in 1 .. n : v[k] = new[k]
        /\ \A k \in n + 1 .. n + m : v[k] = w[k - n]
    OBVIOUS
  <1> HIDE DEF v, n, m
  <1>2. /\ \A k \in 1 .. m : w[k] \in Spots
        /\ \A k \in 1 .. n : new[k] \in Spots
    BY <1>1
  <1>3. x[2] \in Paths /\ \A y \in Spots : y[2] \in Paths
    BY SpotTyped
  <1>4. ASSUME NEW i \in 1 .. n, NEW k \in 1 .. m PROVE Off(new[i], w[k]) /\ Off(w[k], new[i])
    <2>1. Off(w[k], x)
      BY <1>1 DEF Frontier
    <2>2. CASE w[k][1] # x[1]
      BY <1>1, <2>2 DEF Off, Below
    <2>3. CASE w[k][1] = x[1]
      <3>1. Beside(w[k][2], x[2])
        BY <2>1, <2>3 DEF Off, Below, Beside
      <3>2. PICK a \in Names : new[i][2] = Append(x[2], a)
        BY <1>1
      <3>3. w[k][2] \in Paths
        BY <1>2, <1>3
      <3>4. Beside(w[k][2], Append(x[2], a))
        BY <1>3, <3>1, <3>3, ChildBeside
      <3> QED BY <3>2, <3>4 DEF Beside, Off, Below
    <2> QED BY <2>2, <2>3
  <1>5. ASSUME NEW i \in 1 .. n, NEW j \in 1 .. n, i # j PROVE Off(new[i], new[j])
    <2>1. PICK a \in Names : new[i][2] = Append(x[2], a)
      BY <1>1
    <2>2. PICK b \in Names : new[j][2] = Append(x[2], b)
      BY <1>1
    <2>3. a # b
      <3>1. new[i][2] # new[j][2]
        BY <1>1, <1>5
      <3> QED BY <2>1, <2>2, <3>1
    <2>4. Beside(Append(x[2], a), Append(x[2], b))
      BY <1>3, <2>3, ChildBeside
    <2> QED BY <2>1, <2>2, <2>4 DEF Beside, Off, Below
  <1>6. ASSUME NEW i \in 1 .. n, NEW y \in R PROVE ~Below(new[i], y)
    <2> SUFFICES ASSUME Below(new[i], y) PROVE FALSE
      OBVIOUS
    <2>1. PICK a \in Names : new[i][2] = Append(x[2], a)
      BY <1>1
    <2>2. y[2] \in Paths /\ y[1] = x[1] /\ Under(Append(x[2], a), y[2])
      BY <1>1, <1>3, <2>1 DEF Below
    <2>3. Under(x[2], y[2]) /\ y[2] # x[2]
      BY <1>3, <2>2, UnderChild
    <2>4. Below(x, y) /\ y # x
      BY <2>2, <2>3 DEF Below
    <2> QED BY <2>4 DEF Frontier
  <1>7. \A k \in 1 .. n + m : k \in 1 .. n \/ (k \in n + 1 .. n + m /\ k - n \in 1 .. m)
    BY <1>1
  <1>8. ASSUME NEW k \in 1 .. n + m, NEW l \in 1 .. n + m, k # l PROVE Off(v[k], v[l])
    <2>1. CASE k \in 1 .. n /\ l \in 1 .. n
      BY <1>1, <1>5, <1>8, <2>1
    <2>2. CASE k \in 1 .. n /\ l \notin 1 .. n
      BY <1>1, <1>4, <1>7, <2>2
    <2>3. CASE k \notin 1 .. n /\ l \in 1 .. n
      BY <1>1, <1>4, <1>7, <2>3
    <2>4. CASE k \notin 1 .. n /\ l \notin 1 .. n
      <3>1. k - n \in 1 .. m /\ l - n \in 1 .. m /\ v[k] = w[k - n] /\ v[l] = w[l - n]
        BY <1>1, <1>7, <2>4
      <3>2. k - n # l - n
        BY <1>1, <1>8
      <3> QED BY <1>1, <3>1, <3>2 DEF Frontier
    <2> QED BY <2>1, <2>2, <2>3, <2>4
  <1>9. ASSUME NEW k \in 1 .. n + m, NEW y \in R PROVE ~Below(v[k], y)
    <2>1. CASE k \in 1 .. n
      BY <1>1, <1>6, <2>1
    <2>2. CASE k \notin 1 .. n
      <3>1. k - n \in DOMAIN w /\ v[k] = w[k - n]
        BY <1>1, <1>7, <2>2
      <3>2. \A l \in DOMAIN w : ~Below(w[l], y)
        BY DEF Frontier
      <3> QED BY <3>1, <3>2
    <2> QED BY <2>1, <2>2
  <1>10. Frontier(v, {}, R)
    BY <1>1, <1>8, <1>9 DEF Frontier
  <1> QED BY <1>10 DEF v

\* The disk, the sources and the options stay the same during a scan.
LEMMA SameSpots ==
    ASSUME fs' = fs, cmd' = cmd, srcs' = srcs
    PROVE  Found' = Found /\ Spots' = Spots /\ Multi' = Multi
  BY DEF Found, Spots, Multi, Excluded

\* An entry is recorded, for a spot that was not.
LEMMA RecordOne ==
    ASSUME PlanTyped, fs' = fs, cmd' = cmd, srcs' = srcs, NEW R, RecordedIn(R),
           NEW x \in Found, x \notin R, NEW e \in PlanEntry, Records(e, x), plan' = Append(plan, e)
    PROVE  RecordedIn(R \cup {x})'
  <1>1. plan \in Seq(PlanEntry) /\ Len(plan) \in Nat /\ Len(Append(plan, e)) = Len(plan) + 1
    BY DEF PlanTyped
  <1>2. /\ R \subseteq Found /\ IsFiniteSet(R)
        /\ Len(plan) = Cardinality(R) + (IF Multi THEN 1 ELSE 0)
        /\ \A y \in R : \E i \in DOMAIN plan : Records(plan[i], y)
    BY DEF RecordedIn
  <1>3. /\ IsFiniteSet(R \cup {x}) /\ Cardinality(R \cup {x}) = Cardinality(R) + 1
        /\ Cardinality(R) \in Nat
    BY <1>2, FS_AddElement, FS_CardinalityType
  <1>4. (R \cup {x} \subseteq Found)'
    BY <1>2, SameSpots
  <1>5. (Len(plan) = Cardinality(R \cup {x}) + (IF Multi THEN 1 ELSE 0))'
    BY <1>1, <1>2, <1>3, SameSpots
  <1>6. ASSUME NEW y \in R \cup {x} PROVE \E i \in DOMAIN plan' : Records(plan'[i], y)
    <2>1. CASE y \in R
      <3>1. PICK i \in DOMAIN plan : Records(plan[i], y)
        BY <1>2, <2>1
      <3>2. i \in DOMAIN plan' /\ plan'[i] = plan[i]
        BY <1>1, Appended
      <3> QED BY <3>1, <3>2
    <2>2. CASE y = x
      <3>1. Len(plan) + 1 \in DOMAIN plan' /\ plan'[Len(plan) + 1] = e
        BY <1>1, Appended
      <3> QED BY <2>2, <3>1
    <2> QED BY <2>1, <2>2
  <1>7. (\A y \in R \cup {x} : \E i \in DOMAIN plan : Records(plan[i], y))'
    BY <1>6 DEF Records, Placed, Multi
  <1>8. IsFiniteSet(R \cup {x})'
    BY <1>3
  <1> QED BY <1>4, <1>5, <1>7, <1>8 DEF RecordedIn

\* Nothing is recorded.
LEMMA RecordNone ==
    ASSUME fs' = fs, cmd' = cmd, srcs' = srcs, plan' = plan, NEW R, RecordedIn(R)
    PROVE  RecordedIn(R)'
  BY SameSpots DEF RecordedIn, Records, Placed, Multi

\* The scan starts with the sources waiting, each at its own spot.
LEMMA BookStarts ==
    ASSUME PlanTyped, cur = NoCur, PlanScan PROVE Book'
  <1>1. CASE ~\A i \in DOMAIN srcs : HasName(srcs[i])
    BY <1>1 DEF PlanScan, Book
  <1>2. CASE \A i \in DOMAIN srcs : HasName(srcs[i])
    <2>1. /\ fs' = fs /\ cmd' = cmd /\ srcs' = srcs /\ cur' = NoCur
          /\ stack' = [i \in DOMAIN srcs |->
                         [path |-> srcs[i], rel |-> IF Multi THEN <<Last(srcs[i])>> ELSE <<>>]]
          /\ plan' = IF Multi THEN <<Plain(0, <<>>, "dir")>> ELSE <<>>
      BY <1>2 DEF PlanScan
    <2>2. \A i \in DOMAIN srcs : srcs[i] # <<>> /\ srcs[i] \in Paths
      BY <1>2 DEF HasName, PlanTyped
    <2>3. DOMAIN srcs = 1 .. Len(srcs) /\ Len(srcs) \in Nat
      BY DEF PlanTyped
    <2>4. PICK w : w = [i \in DOMAIN srcs |-> <<i, srcs[i]>>]
      OBVIOUS
    <2>5. Found' = Found /\ Spots' = Spots /\ Multi' = Multi
      BY <2>1, SameSpots
    <2>6. \A i \in DOMAIN srcs : <<i, srcs[i]>> \in Spots
      BY <2>2, UnderSelf DEF Spots
    <2>7. w \in Seq(Spots) /\ Len(w) = Len(srcs) /\ DOMAIN w = DOMAIN srcs
      BY <2>3, <2>4, <2>6
    <2>8. ASSUME NEW i \in DOMAIN srcs PROVE Placed(i, srcs[i]) = IF Multi THEN <<Last(srcs[i])>> ELSE <<>>
      <3>1. Len(srcs[i]) \in Nat /\ SubSeq(srcs[i], Len(srcs[i]) + 1, Len(srcs[i])) = <<>>
        BY <2>2 DEF Paths
      <3>2. <<Last(srcs[i])>> \o <<>> = <<Last(srcs[i])>> /\ <<>> \o <<>> = <<>>
        OBVIOUS
      <3> QED BY <3>1, <3>2 DEF Placed
    <2>9. WaitSpots(w)'
      <3>1. Len(stack') = Len(w) /\ DOMAIN stack' = DOMAIN w
        BY <2>1, <2>3, <2>7
      <3>2. ASSUME NEW k \in DOMAIN w PROVE stack'[k] = VisitOf(w[k])
        <4>1. w[k] = <<k, srcs[k]>> /\ k \in DOMAIN srcs
          BY <2>4, <2>7
        <4> QED BY <2>1, <2>8, <4>1 DEF VisitOf
      <3>3. ASSUME NEW k \in DOMAIN w PROVE stack'[k] = VisitOf(w[k])'
        BY <2>1, <3>2 DEF VisitOf, Placed, Multi
      <3> QED BY <2>5, <2>7, <3>1, <3>3 DEF WaitSpots
    <2>10. HandSpot({}, {})'
      BY <2>1, NoCurTyped DEF HandSpot
    <2>11. RecordedIn({})'
      <3>1. IsFiniteSet({}) /\ Cardinality({}) = 0
        BY FS_EmptySet
      <3>2. Len(plan') = IF Multi THEN 1 ELSE 0
        BY <2>1
      <3> QED BY <2>5, <3>1, <3>2 DEF RecordedIn
    <2>12. Frontier(w, {}, {})
      BY <2>4 DEF Frontier, Off, Below
    <2>13. Covered(w, {}, {})'
      <3>1. ASSUME NEW x \in Found PROVE \E k \in DOMAIN w : Below(w[k], x)
        <4>1. x \in Spots
          BY FoundSpots
        <4>2. x[1] \in DOMAIN srcs /\ Under(srcs[x[1]], x[2])
          BY <4>1 DEF Spots
        <4>3. x[1] \in DOMAIN w /\ w[x[1]] = <<x[1], srcs[x[1]]>>
          BY <2>4, <4>2
        <4>4. Below(w[x[1]], x)
          BY <4>2, <4>3 DEF Below
        <4> QED BY <4>3, <4>4
      <3> QED BY <2>5, <3>1 DEF Covered
    <2>14. Tracks(w, {}, {})'
      BY <2>9, <2>10, <2>11, <2>12, <2>13 DEF Tracks
    <2>15. (\A i \in DOMAIN srcs : srcs[i] # <<>>)'
      BY <2>1, <2>2
    <2> QED BY <2>14, <2>15 DEF Book
  <1> QED BY <1>1, <1>2

\* What waits next has a node that is recorded, in hand or left out.
LEMMA StatTakes ==
    ASSUME PlanTyped, ScanStat, stage' # "failed"
    PROVE  LET at == Head(stack)
               node == fs[at.path]
           IN /\ cur = NoCur /\ stack # <<>> /\ at.path \in DOMAIN fs /\ stack' = Tail(stack)
              /\ fs' = fs /\ cmd' = cmd /\ srcs' = srcs /\ edits' = edits /\ total' = total
              /\ cur' = IF node.kind \in {"dir", "file"}
                        THEN [path |-> at.path, rel |-> at.rel, id |-> nextId, kind |-> node.kind,
                              size |-> node.size]
                        ELSE NoCur
              /\ plan' = IF node.kind = "file" \/ Excluded(node.kind) THEN plan
                         ELSE Append(plan, Plain(nextId, at.rel, node.kind))
  <1> DEFINE at == Head(stack)
             node == fs[at.path]
             out == Excluded(node.kind)
  <1>1. cur = NoCur /\ stack # <<>> /\ UNCHANGED <<fs, edits, cmd, srcs>>
    BY DEF ScanStat
  <1>2. ~(\/ at.path \notin DOMAIN fs \/ nextId + 1 >= U32 \/ node.kind \notin Kinds
          \/ out /\ at.rel = <<>>)
    BY DEF ScanStat, ScanFailed
  <1>3. /\ stack' = Tail(stack)
        /\ cur' = IF node.kind \in {"dir", "file"}
                  THEN [path |-> at.path, rel |-> at.rel, id |-> nextId, kind |-> node.kind,
                        size |-> node.size]
                  ELSE NoCur
        /\ plan' = IF node.kind = "file" \/ out THEN plan
                   ELSE Append(plan, Plain(nextId, at.rel, node.kind))
        /\ UNCHANGED <<stage, total>>
    BY <1>2 DEF ScanStat
  <1> HIDE DEF out
  <1>4. at.path \in DOMAIN fs
    BY <1>2
  <1> QED BY <1>1, <1>3, <1>4 DEF out

\* ScanStat records the spot that waited first, takes it in hand, or leaves it out with
\* nothing below it.
LEMMA StatBooks ==
    ASSUME PlanTyped, Untouched, Book, ScanStat PROVE Book'
  <1>1. CASE stage' = "failed" \/ edits' # 0
    BY <1>1 DEF Book
  <1>2. CASE stage' # "failed" /\ edits' = 0
    <2> DEFINE at == Head(stack)
               node == fs[at.path]
               kind == node.kind
               out == Excluded(kind)
               e == Plain(nextId, at.rel, kind)
    <2>1. /\ cur = NoCur /\ stack # <<>> /\ at.path \in DOMAIN fs /\ stack' = Tail(stack)
          /\ fs' = fs /\ cmd' = cmd /\ srcs' = srcs /\ edits' = edits
          /\ cur' = IF kind \in {"dir", "file"}
                    THEN [path |-> at.path, rel |-> at.rel, id |-> nextId, kind |-> kind,
                          size |-> node.size]
                    ELSE NoCur
          /\ plan' = IF kind = "file" \/ out THEN plan ELSE Append(plan, e)
      BY <1>2, StatTakes
    <2>2. /\ stage = "scan" /\ kind \in Kinds /\ at \in Visit
      BY <1>2, StatSplit
    <2>3. \A i \in DOMAIN srcs : srcs[i] # <<>>
      BY <1>2, <2>1, <2>2 DEF Book
    <2>4. PICK w, c, R : Tracks(w, c, R)
      BY <1>2, <2>1, <2>2 DEF Book
    <2>5. c = {}
      BY <2>1, <2>4, NoCurTyped DEF Tracks, HandSpot
    <2>6. /\ w \in Seq(Spots) /\ Len(w) = Len(stack) /\ stack \in Seq(Visit)
          /\ \A k \in DOMAIN w : stack[k] = VisitOf(w[k])
          /\ RecordedIn(R) /\ Frontier(w, {}, R) /\ Covered(w, {}, R)
      BY <2>4, <2>5 DEF Tracks, WaitSpots, PlanTyped
    <2>7. w # <<>>
      BY <2>1, <2>6
    <2>8. PICK x : x = w[1]
      OBVIOUS
    <2>9. /\ x \in Spots /\ 1 \in DOMAIN w /\ Head(stack) = stack[1]
      BY <2>1, <2>6, <2>7, <2>8, Tails
    <2>10. at.path = x[2] /\ at.rel = Placed(x[1], x[2])
      <3>1. at = VisitOf(x)
        BY <2>6, <2>8, <2>9
      <3> HIDE DEF at
      <3> QED BY <3>1 DEF VisitOf
    <2>11. x[2] \in Paths /\ x[2] # <<>> /\ x = <<x[1], x[2]>>
      <3>1. x[1] \in DOMAIN srcs /\ Under(srcs[x[1]], x[2]) /\ x = <<x[1], x[2]>> /\ x[2] \in Paths
        BY <2>9 DEF Spots
      <3>2. Len(srcs[x[1]]) # 0 /\ Len(srcs[x[1]]) \in Nat /\ Len(srcs[x[1]]) <= Len(x[2])
        BY <2>3, <3>1 DEF Under, PlanTyped, Paths
      <3> QED BY <3>1, <3>2
    <2> HIDE DEF kind, at
    <2>12. x[2] \in DOMAIN fs /\ fs[x[2]] = node /\ node.kind = kind
      BY <2>1, <2>10 DEF kind
    <2>13. e \in PlanEntry /\ e.rel = at.rel /\ e.kind = kind
      BY <2>2, PlainTyped DEF PlanTyped, Visit
    <2> HIDE DEF e, node, out
    <2>14. Found' = Found /\ Spots' = Spots /\ Multi' = Multi
      BY <2>1, SameSpots
    <2>15. Frontier(Tail(w), {x}, R \cup {x}) /\ x \notin R
      BY <2>6, <2>7, <2>8, FrontTake
    <2>16. WaitSpots(Tail(w))'
      <3>1. Len(Tail(w)) = Len(stack') /\ Tail(w) \in Seq(Spots)
        BY <2>1, <2>6, <2>7
      <3>2. ASSUME NEW k \in DOMAIN Tail(w) PROVE stack'[k] = VisitOf(Tail(w)[k])
        BY <2>1, <2>6, <2>7, Tails
      <3>3. \A k \in DOMAIN Tail(w) : stack'[k] = VisitOf(Tail(w)[k])'
        BY <2>1, <3>2 DEF VisitOf, Placed, Multi
      <3> QED BY <2>14, <3>1, <3>3 DEF WaitSpots
    <2>17. \A y \in Found : \/ y \in R \cup {x}
                            \/ \E k \in DOMAIN Tail(w) : Below(Tail(w)[k], y)
                            \/ kind = "dir" /\ Below(x, y)
      <3> SUFFICES ASSUME NEW y \in Found, y \notin R \cup {x},
                          ~\E k \in DOMAIN Tail(w) : Below(Tail(w)[k], y)
                   PROVE  kind = "dir" /\ Below(x, y)
        OBVIOUS
      <3>1. PICK k \in DOMAIN w : Below(w[k], y)
        BY <2>6 DEF Covered
      <3>2. k = 1
        <4> SUFFICES ASSUME k # 1 PROVE FALSE
          OBVIOUS
        <4>1. k - 1 \in DOMAIN Tail(w) /\ Tail(w)[k - 1] = w[k]
          BY <2>6, <2>7, Tails
        <4> QED BY <3>1, <4>1
      <3>3. Below(x, y)
        BY <2>8, <3>1, <3>2
      <3>4. y \in Spots /\ y[2] \in DOMAIN fs
        BY FoundSpots
      <3>5. y = <<y[1], y[2]>> /\ y[1] = x[1] /\ Under(x[2], y[2])
        BY <3>3, <3>4, SpotTyped DEF Below
      <3>6. x[2] # y[2]
        BY <2>11, <3>5
      <3>7. fs \in Trees
        BY <1>2, <2>1 DEF Untouched
      <3>8. fs[x[2]].kind = "dir"
        BY <2>11, <3>4, <3>5, <3>6, <3>7, WayDown
      <3> QED BY <2>12, <3>3, <3>8
    <2>18. out => kind \in {"link", "dev"}
      BY DEF out, Excluded
    <2>19. x \in Found <=> ~out
      BY <2>9, <2>12, FoundSpots DEF out
    <2>20. CASE kind = "file"
      <3>1. plan' = plan /\ cur'.kind = "file" /\ cur'.path = x[2] /\ cur'.rel = Placed(x[1], x[2])
            /\ cur'.size = node.size
        BY <2>1, <2>10, <2>20
      <3>2. HandSpot({x}, R)'
        <4>1. x \in Spots' /\ x[2] \in DOMAIN fs' /\ fs'[x[2]].kind = cur'.kind
              /\ fs'[x[2]].size = cur'.size
          BY <2>1, <2>9, <2>12, <2>14, <2>20, <3>1
        <4>2. cur'.rel = Placed(x[1], x[2])'
          BY <2>1, <3>1 DEF Placed, Multi
        <4>3. x \notin R
          BY <2>15
        <4> QED BY <3>1, <4>1, <4>2, <4>3 DEF HandSpot
      <3>3. RecordedIn(R)'
        BY <2>1, <2>6, <3>1, RecordNone
      <3>4. Frontier(Tail(w), {x}, R)
        BY <2>15, FrontLess
      <3>5. Covered(Tail(w), {x}, R)'
        <4>1. Below(x, x)
          BY <2>9, SpotTyped
        <4> QED BY <2>14, <2>17, <4>1 DEF Covered
      <3> QED BY <2>16, <3>2, <3>3, <3>4, <3>5, <2>1, <2>3 DEF Tracks, Book
    <2>21. CASE kind # "file" /\ out
      <3>1. plan' = plan /\ cur'.kind = "none" /\ kind # "dir"
        BY <2>1, <2>18, <2>21, NoCurTyped
      <3>2. HandSpot({}, R)'
        BY <3>1 DEF HandSpot
      <3>3. RecordedIn(R)'
        BY <2>1, <2>6, <3>1, RecordNone
      <3>4. Frontier(Tail(w), {}, R)
        BY <2>15, FrontLess
      <3>5. Covered(Tail(w), {}, R)'
        BY <2>14, <2>17, <2>19, <2>21, <3>1 DEF Covered
      <3> QED BY <2>16, <3>2, <3>3, <3>4, <3>5, <2>1, <2>3 DEF Tracks, Book
    <2>22. CASE kind # "file" /\ ~out
      <3>1. plan' = Append(plan, e)
        BY <2>1, <2>22
      <3>2. Records(e, x)
        BY <2>10, <2>12, <2>13, <2>22 DEF Records
      <3>3. RecordedIn(R \cup {x})'
        BY <2>1, <2>6, <2>13, <2>15, <2>19, <2>22, <3>1, <3>2, RecordOne
      <3>4. CASE kind = "dir"
        <4>1. cur'.kind = "dir" /\ cur'.path = x[2] /\ cur'.rel = Placed(x[1], x[2])
              /\ cur'.size = node.size
          BY <2>1, <2>10, <3>4
        <4>2. HandSpot({x}, R \cup {x})'
          <5>1. x \in Spots' /\ x[2] \in DOMAIN fs' /\ fs'[x[2]].kind = cur'.kind
                /\ fs'[x[2]].size = cur'.size
            BY <2>1, <2>9, <2>12, <2>14, <3>4, <4>1
          <5>2. cur'.rel = Placed(x[1], x[2])'
            BY <2>1, <4>1 DEF Placed, Multi
          <5> QED BY <4>1, <5>1, <5>2 DEF HandSpot
        <4>3. Covered(Tail(w), {x}, R \cup {x})'
          BY <2>14, <2>17 DEF Covered
        <4> QED BY <2>15, <2>16, <3>3, <4>2, <4>3, <2>1, <2>3 DEF Tracks, Book
      <3>5. CASE kind # "dir"
        <4>1. cur'.kind = "none"
          BY <2>1, <2>22, <3>5, NoCurTyped
        <4>2. HandSpot({}, R \cup {x})'
          BY <4>1 DEF HandSpot
        <4>3. Covered(Tail(w), {}, R \cup {x})'
          BY <2>14, <2>17, <3>5 DEF Covered
        <4>4. Frontier(Tail(w), {}, R \cup {x})
          BY <2>15, FrontLess
        <4> QED BY <2>16, <3>3, <4>2, <4>3, <4>4, <2>1, <2>3 DEF Tracks, Book
      <3> QED BY <3>4, <3>5
    <2> QED BY <2>20, <2>21, <2>22
  <1> QED BY <1>1, <1>2

\* ScanDir makes every child of the directory in hand wait; what is below the directory
\* is the directory itself, which is recorded, or below one of the children.
LEMMA DirBooks ==
    ASSUME PlanTyped, Untouched, Book, ScanDir PROVE Book'
  <1>1. CASE cur.path \notin DOMAIN fs \/ edits # 0
    BY <1>1 DEF ScanDir, ScanFailed, Book
  <1>2. CASE cur.path \in DOMAIN fs /\ edits = 0
    <2>1. PICK kids \in Children(cur.path) :
            /\ stack' = Descend([i \in DOMAIN kids |->
                                   [path |-> kids[i], rel |-> Append(cur.rel, Last(kids[i]))]], stack)
            /\ cur' = NoCur /\ UNCHANGED <<stage, plan, nextId, total>>
      BY <1>2 DEF ScanDir
    <2>2. /\ stage = "scan" /\ cur.kind = "dir" /\ srcs' = srcs /\ fs' = fs /\ cmd' = cmd
          /\ fs \in Trees
      BY <1>2 DEF ScanDir, Untouched
    <2>3. \A i \in DOMAIN srcs : srcs[i] # <<>>
      BY <1>2, <2>2 DEF Book
    <2>4. PICK w, c, R : Tracks(w, c, R)
      BY <1>2, <2>2 DEF Book
    <2>5. PICK x \in Spots :
            c = {x} /\ cur.path = x[2] /\ cur.rel = Placed(x[1], x[2]) /\ x \in R
      BY <2>2, <2>4 DEF Tracks, HandSpot
    <2>6. /\ w \in Seq(Spots) /\ Len(w) = Len(stack) /\ stack \in Seq(Visit)
          /\ \A k \in DOMAIN w : stack[k] = VisitOf(w[k])
          /\ RecordedIn(R) /\ Frontier(w, {x}, R) /\ Covered(w, {x}, R)
      BY <2>4, <2>5 DEF Tracks, WaitSpots, PlanTyped
    <2>7. /\ x[1] \in DOMAIN srcs /\ x[2] \in Paths /\ x = <<x[1], x[2]>>
          /\ Under(srcs[x[1]], x[2]) /\ srcs[x[1]] # <<>> /\ x[2] # <<>>
      <3>1. /\ x[1] \in DOMAIN srcs /\ x[2] \in Paths /\ x = <<x[1], x[2]>>
            /\ Under(srcs[x[1]], x[2])
        BY DEF Spots
      <3>2. Len(srcs[x[1]]) # 0 /\ Len(srcs[x[1]]) \in Nat /\ Len(srcs[x[1]]) <= Len(x[2])
        BY <2>3, <3>1 DEF Under, PlanTyped, Paths
      <3> QED BY <2>3, <3>1, <3>2
    <2> DEFINE n == Len(kids)
               new == [i \in DOMAIN kids |->
                         [path |-> kids[i], rel |-> Append(cur.rel, Last(kids[i]))]]
    <2>8. /\ DOMAIN kids = 1 .. n /\ n \in Nat
          /\ \A i \in 1 .. n : kids[i] \in Paths /\ Last(kids[i]) \in Names
          /\ \A i, j \in 1 .. n : i # j => Last(kids[i]) # Last(kids[j])
      BY <1>2, <2>2, KidsTyped
    <2>9. /\ \A q \in ChildrenOf(cur.path) : \E i \in DOMAIN kids : kids[i] = q
          /\ \A i \in DOMAIN kids : kids[i] = Append(cur.path, Last(kids[i]))
      BY <1>2, <2>2, KidsAll
    <2> HIDE DEF n
    <2>10. PICK v : v = [i \in 1 .. n |-> <<x[1], kids[i]>>]
      OBVIOUS
    <2>11. ASSUME NEW i \in 1 .. n
           PROVE  /\ kids[i] = Append(x[2], Last(kids[i])) /\ Under(srcs[x[1]], kids[i])
                  /\ Append(cur.rel, Last(kids[i])) = Placed(x[1], kids[i])
      <3>1. kids[i] = Append(x[2], Last(kids[i])) /\ Last(kids[i]) \in Names
        BY <2>5, <2>8, <2>9
      <3>2. /\ Placed(x[1], Append(x[2], Last(kids[i]))) = Append(Placed(x[1], x[2]), Last(kids[i]))
            /\ Under(srcs[x[1]], Append(x[2], Last(kids[i])))
        BY <2>7, <3>1, PlacedChild
      <3> QED BY <2>5, <3>1, <3>2
    <2>12. v \in Seq(Spots) /\ Len(v) = n /\ DOMAIN v = 1 .. n
      <3>1. \A i \in 1 .. n : <<x[1], kids[i]>> \in Spots
        BY <2>7, <2>8, <2>11 DEF Spots
      <3> QED BY <2>8, <2>10, <3>1
    <2>13. Frontier(v \o w, {}, R)
      <3>1. \A i \in DOMAIN v : v[i][1] = x[1] /\ \E a \in Names : v[i][2] = Append(x[2], a)
        BY <2>8, <2>10, <2>11, <2>12
      <3>2. \A i, j \in DOMAIN v : i # j => v[i][2] # v[j][2]
        BY <2>8, <2>10, <2>12
      <3>3. R \in SUBSET Spots
        BY <2>6, FoundSpots DEF RecordedIn
      <3> QED BY <2>6, <2>12, <3>1, <3>2, <3>3, FrontChildren
    <2>14. Found' = Found /\ Spots' = Spots /\ Multi' = Multi
      BY <2>2, SameSpots
    <2>15. WaitSpots(v \o w)'
      <3>1. new \in Seq(Visit) /\ Len(new) = n
        <4>1. cur.rel \in Paths
          BY DEF PlanTyped, InHand
        <4>2. ASSUME NEW i \in 1 .. n
              PROVE  [path |-> kids[i], rel |-> Append(cur.rel, Last(kids[i]))] \in Visit
          <5>1. Append(cur.rel, Last(kids[i])) \in Paths
            BY <2>8, <4>1 DEF Paths
          <5> QED BY <2>8, <5>1 DEF Visit
        <4> QED BY <2>8, <4>2
      <3>2. ASSUME NEW i \in 1 .. n PROVE new[i] = VisitOf(v[i])
        <4>1. new[i] = [path |-> kids[i], rel |-> Append(cur.rel, Last(kids[i]))]
          BY <2>8
        <4>2. v[i] = <<x[1], kids[i]>>
          BY <2>10
        <4>3. VisitOf(v[i]) = [path |-> kids[i], rel |-> Placed(x[1], kids[i])]
          BY <4>2 DEF VisitOf
        <4> QED BY <2>11, <4>1, <4>3
      <3> HIDE DEF new
      <3>3. stack' = new \o stack
        BY <2>1 DEF Descend, new
      <3> DEFINE m == Len(w)
      <3>4. /\ v \o w \in Seq(Spots) /\ m \in Nat /\ DOMAIN w = 1 .. m
            /\ DOMAIN (v \o w) = 1 .. n + m /\ Len(v \o w) = n + m
            /\ \A k \in 1 .. n : (v \o w)[k] = v[k]
            /\ \A k \in n + 1 .. n + m : (v \o w)[k] = w[k - n]
        BY <2>6, <2>8, <2>12
      <3>5. /\ Len(stack') = n + m
            /\ \A k \in 1 .. n : stack'[k] = new[k]
            /\ \A k \in n + 1 .. n + m : stack'[k] = stack[k - n]
        <4>1. Len(stack) = m /\ Len(new \o stack) = n + m
          BY <2>6, <3>1
        <4> HIDE DEF m
        <4> QED BY <2>6, <3>1, <3>3, <4>1, Joined
      <3> DEFINE z == v \o w
      <3> HIDE DEF z, m
      <3>6. ASSUME NEW k \in 1 .. n + m PROVE stack'[k] = VisitOf(z[k])
        <4>1. CASE k \in 1 .. n
          BY <3>2, <3>4, <3>5, <4>1 DEF z
        <4>2. CASE k \notin 1 .. n
          <5>1. k \in n + 1 .. n + m /\ k - n \in 1 .. m
            BY <2>8, <3>4, <4>2
          <5> QED BY <2>6, <3>4, <3>5, <5>1 DEF z
        <4> QED BY <4>1, <4>2
      <3>7. \A k \in 1 .. n + m : stack'[k] = VisitOf(z[k])'
        BY <2>2, <3>6 DEF VisitOf, Placed, Multi
      <3>8. WaitSpots(z)'
        BY <2>14, <3>4, <3>5, <3>7 DEF WaitSpots, z
      <3> QED BY <3>8 DEF z
    <2>16. HandSpot({}, R)'
      BY <2>1, NoCurTyped DEF HandSpot
    <2>17. RecordedIn(R)'
      BY <2>1, <2>2, <2>6, RecordNone
    <2>18. Covered(v \o w, {}, R)'
      <3> DEFINE z == v \o w
                 m == Len(w)
      <3>1. /\ m \in Nat /\ DOMAIN w = 1 .. m /\ DOMAIN z = 1 .. n + m
            /\ \A k \in 1 .. n : z[k] = v[k]
            /\ \A k \in n + 1 .. n + m : z[k] = w[k - n]
        BY <2>6, <2>8, <2>12
      <3> HIDE DEF z, m
      <3>2. ASSUME NEW y \in Found, y \notin R PROVE \E k \in DOMAIN z : Below(z[k], y)
        <4>1. CASE \E k \in DOMAIN w : Below(w[k], y)
          <5>1. PICK k \in DOMAIN w : Below(w[k], y)
            BY <4>1
          <5>2. k + n \in n + 1 .. n + m /\ k + n \in 1 .. n + m /\ (k + n) - n = k
            BY <2>8, <3>1
          <5>3. z[k + n] = w[k]
            BY <3>1, <5>2
          <5> QED BY <3>1, <5>1, <5>2, <5>3
        <4>2. CASE Below(x, y)
          <5>1. y \in Spots /\ y[2] \in DOMAIN fs
            BY FoundSpots
          <5>2. y = <<y[1], y[2]>> /\ y[1] = x[1] /\ Under(x[2], y[2])
            BY <4>2, <5>1, SpotTyped DEF Below
          <5>3. x[2] # y[2]
            BY <2>5, <2>7, <3>2, <5>2
          <5>4. PICK q \in ChildrenOf(x[2]) : Under(q, y[2])
            BY <2>2, <2>7, <5>1, <5>2, <5>3, WayDown
          <5>5. PICK i \in 1 .. n : kids[i] = q
            BY <2>5, <2>8, <2>9
          <5>6. z[i] = <<x[1], q>> /\ i \in 1 .. n + m
            BY <2>8, <2>10, <3>1, <5>5
          <5>7. Below(z[i], y)
            BY <5>2, <5>4, <5>6 DEF Below
          <5> QED BY <3>1, <5>6, <5>7
        <4> QED BY <2>6, <3>2, <4>1, <4>2 DEF Covered
      <3>3. Covered(z, {}, R)'
        BY <2>14, <3>2 DEF Covered
      <3> QED BY <3>3 DEF z
    <2>19. Tracks(v \o w, {}, R)'
      BY <2>13, <2>15, <2>16, <2>17, <2>18 DEF Tracks
    <2> QED BY <2>2, <2>3, <2>19 DEF Book
  <1> QED BY <1>1, <1>2

\* ScanFile records the file in hand; nothing is below a file.
LEMMA FileBooks ==
    ASSUME PlanTyped, Untouched, Book, ScanFile PROVE Book'
  <1>1. CASE ~(cur.path \in DOMAIN fs /\ AddsUp(cur.size)) \/ edits # 0
    BY <1>1 DEF ScanFile, ScanFailed, Book
  <1>2. CASE cur.path \in DOMAIN fs /\ AddsUp(cur.size) /\ edits = 0
    <2> DEFINE e == Entry(cur.id, cur.rel, "file", cur.size,
                          <<fs[cur.path].size, fs[cur.path].ver>>, ChunkCountFor(cur.size))
    <2>1. /\ stage = "scan" /\ cur.kind = "file" /\ plan' = Append(plan, e) /\ cur' = NoCur
          /\ stack' = stack /\ fs' = fs /\ cmd' = cmd /\ srcs' = srcs /\ fs \in Trees
      BY <1>2 DEF ScanFile, Untouched
    <2>2. /\ e \in PlanEntry /\ e.rel = cur.rel /\ e.kind = "file" /\ e.size = cur.size
      BY <1>2, <2>1, MeasuredTyped
    <2>3. e.hash = <<fs[cur.path].size, fs[cur.path].ver>>
      BY DEF Entry
    <2> HIDE DEF e
    <2>4. \A i \in DOMAIN srcs : srcs[i] # <<>>
      BY <1>2, <2>1 DEF Book
    <2>5. PICK w, c, R : Tracks(w, c, R)
      BY <1>2, <2>1 DEF Book
    <2>6. PICK x \in Spots :
            /\ c = {x} /\ cur.path = x[2] /\ cur.rel = Placed(x[1], x[2]) /\ x \notin R
            /\ x[2] \in DOMAIN fs /\ fs[x[2]].kind = "file" /\ fs[x[2]].size = cur.size
      BY <2>1, <2>5 DEF Tracks, HandSpot
    <2>7. WaitSpots(w) /\ RecordedIn(R) /\ Frontier(w, {x}, R) /\ Covered(w, {x}, R)
      BY <2>5, <2>6 DEF Tracks
    <2>8. x[2] \in Paths /\ x = <<x[1], x[2]>> /\ x[2] # <<>>
      <3>1. x[1] \in DOMAIN srcs /\ Under(srcs[x[1]], x[2]) /\ x = <<x[1], x[2]>> /\ x[2] \in Paths
        BY DEF Spots
      <3>2. Len(srcs[x[1]]) # 0 /\ Len(srcs[x[1]]) \in Nat /\ Len(srcs[x[1]]) <= Len(x[2])
        BY <2>4, <3>1 DEF Under, PlanTyped, Paths
      <3> QED BY <3>1, <3>2
    <2>9. x \in Found
      <3>1. ~Excluded("file")
        BY DEF Excluded
      <3> QED BY <2>6, <3>1, FoundSpots
    <2>10. Records(e, x)
      BY <2>2, <2>3, <2>6 DEF Records
    <2>11. RecordedIn(R \cup {x})'
      BY <2>1, <2>2, <2>6, <2>7, <2>9, <2>10, RecordOne
    <2>12. Frontier(w, {}, R \cup {x})
      BY <2>7, FrontRecord
    <2>13. Found' = Found /\ Spots' = Spots /\ Multi' = Multi
      BY <2>1, SameSpots
    <2>14. WaitSpots(w)'
      BY <2>1, <2>7, <2>13 DEF WaitSpots, VisitOf, Placed, Multi
    <2>15. HandSpot({}, R \cup {x})'
      BY <2>1, NoCurTyped DEF HandSpot
    <2>16. ASSUME NEW y \in Found, Below(x, y) PROVE y = x
      <3>1. y \in Spots /\ y[2] \in DOMAIN fs
        BY FoundSpots
      <3>2. y = <<y[1], y[2]>> /\ y[1] = x[1] /\ Under(x[2], y[2])
        BY <2>16, <3>1, SpotTyped DEF Below
      <3>3. x[2] = y[2]
        <4> SUFFICES ASSUME x[2] # y[2] PROVE FALSE
          OBVIOUS
        <4>1. fs[x[2]].kind = "dir"
          BY <2>1, <2>8, <3>1, <3>2, WayDown
        <4> QED BY <2>6, <4>1
      <3> QED BY <2>8, <3>2, <3>3
    <2>17. Covered(w, {}, R \cup {x})'
      BY <2>7, <2>13, <2>16 DEF Covered
    <2>18. Tracks(w, {}, R \cup {x})'
      BY <2>11, <2>12, <2>14, <2>15, <2>17 DEF Tracks
    <2> QED BY <2>1, <2>4, <2>18 DEF Book
  <1> QED BY <1>1, <1>2

\* Every step keeps the book of what is recorded, while nobody changes the disk.
LEMMA BookStep == PlanTyped /\ Manifest /\ Untouched /\ Book /\ [Next]_vars => Book'
  <1> SUFFICES ASSUME PlanTyped, Manifest, Untouched, Book, [Next]_vars PROVE Book'
    OBVIOUS
  <1> USE DEF scan_vars, task_vars
  <1>1. CASE UNCHANGED <<fs, edits, cmd, srcs, stage, scan_vars>>
    <2>1. Found' = Found /\ Spots' = Spots /\ Multi' = Multi
      BY <1>1, SameSpots
    <2>2. ASSUME NEW w, NEW c, NEW R, Tracks(w, c, R) PROVE Tracks(w, c, R)'
      <3>1. WaitSpots(w) /\ HandSpot(c, R) /\ RecordedIn(R) /\ Frontier(w, c, R) /\ Covered(w, c, R)
        BY <2>2 DEF Tracks
      <3>2. WaitSpots(w)'
        BY <1>1, <2>1, <3>1 DEF WaitSpots, VisitOf, Placed, Multi
      <3>3. HandSpot(c, R)'
        BY <1>1, <2>1, <3>1 DEF HandSpot, Placed, Multi
      <3>4. RecordedIn(R)'
        BY <1>1, <3>1, RecordNone
      <3>5. Covered(w, c, R)'
        BY <2>1, <3>1 DEF Covered
      <3> QED BY <3>1, <3>2, <3>3, <3>4, <3>5 DEF Tracks
    <2> QED BY <1>1, <2>2 DEF Book
  <1>2. CASE Edit
    <2>1. edits' = edits + 1 /\ edits \in Nat
      BY <1>2 DEF Edit, Untouched
    <2>2. edits' # 0
      BY <2>1
    <2> QED BY <2>2 DEF Book
  <1>3. CASE Gather \/ GatherFails \/ Confirm \/ PlanStdin \/ ScanDone
    BY <1>3 DEF Gather, GatherFails, Confirm, PlanStdin, ScanDone, Book
  <1>4. CASE SendBegin \/ SendPiece \/ RcvManifest \/ RcvAccept \/ SndTasks
    BY <1>4 DEF SendBegin, SendPiece, RcvManifest, RcvAccept, SndTasks, Book
  <1>5. CASE PlanScan
    <2>1. cur = NoCur
      BY <1>5 DEF PlanScan, Manifest
    <2> QED BY <1>5, <2>1, BookStarts
  <1>6. CASE ScanStat
    BY <1>6, StatBooks
  <1>7. CASE ScanDir
    BY <1>7, DirBooks
  <1>8. CASE ScanFile
    BY <1>8, FileBooks
  <1>9. CASE Connects \/ Diagnoses \/ Discovers \/ UNCHANGED vars
    BY <1>1, <1>9 DEF Connects, Diagnoses, Discovers, vars, plan_vars
  <1> QED
    BY <1>2, <1>3, <1>4, <1>5, <1>6, <1>7, <1>8, <1>9
    DEF Next, Plans, Edits, Sends, Planning, Sending

-----------------------------------------------------------------------------
(* The plan: the order of the entries, and the sum of their sizes.  These hold *)
(* whatever other programs do to the disk.                                    *)

Parented ==
    stage = "scan" =>
        /\ \A i \in DOMAIN plan : ParentIn(plan, plan[i].rel, i - 1)
        /\ \A k \in DOMAIN stack : ParentIn(plan, stack[k].rel, Len(plan))
        /\ cur.kind = "file" => ParentIn(plan, cur.rel, Len(plan))
        /\ cur.kind = "dir" => \E j \in DOMAIN plan : plan[j].kind = "dir" /\ plan[j].rel = cur.rel

Summed ==
    /\ stage \in {"gather", "confirm", "plan"} => total = 0
    /\ stage = "scan" => IsFiniteSet(Bytes(plan)) /\ total = Cardinality(Bytes(plan))

\* A parent stays where it is when an entry is appended.
LEMMA ParentStays ==
    ASSUME NEW es \in Seq(PlanEntry), NEW e \in PlanEntry, NEW r, NEW n \in 0 .. Len(es), NEW m \in Nat,
           n <= m, ParentIn(es, r, n)
    PROVE  ParentIn(Append(es, e), r, m)
  <1>1. \A j \in 1 .. n : j \in 1 .. m /\ Append(es, e)[j] = es[j]
    <2>1. Len(es) \in Nat
      OBVIOUS
    <2>2. \A j \in 1 .. n : j \in 1 .. m /\ j \in 1 .. Len(es)
      BY <2>1
    <2> QED BY <2>2, Appended
  <1> QED BY <1>1 DEF ParentIn

\* An entry with a parent among the others may join them.
LEMMA ParentJoins ==
    ASSUME NEW es \in Seq(PlanEntry), NEW e \in PlanEntry,
           \A i \in DOMAIN es : ParentIn(es, es[i].rel, i - 1), ParentIn(es, e.rel, Len(es))
    PROVE  \A i \in DOMAIN Append(es, e) : ParentIn(Append(es, e), Append(es, e)[i].rel, i - 1)
  <1> DEFINE n == Len(es)
             z == Append(es, e)
  <1>1. /\ n \in Nat /\ DOMAIN es = 1 .. n /\ DOMAIN z = 1 .. n + 1
        /\ z[n + 1] = e /\ \A i \in 1 .. n : z[i] = es[i]
    BY Appended
  <1>2. ASSUME NEW i \in 1 .. n PROVE ParentIn(z, z[i].rel, i - 1)
    <2>1. i - 1 \in 0 .. n /\ i - 1 \in Nat /\ i - 1 <= i - 1
      BY <1>1
    <2>2. ParentIn(es, es[i].rel, i - 1)
      BY <1>1
    <2>3. ParentIn(z, es[i].rel, i - 1)
      BY <2>1, <2>2, ParentStays
    <2> QED BY <1>1, <2>3
  <1>3. ParentIn(z, z[n + 1].rel, (n + 1) - 1)
    <2>1. n \in 0 .. n /\ n <= n /\ (n + 1) - 1 = n
      BY <1>1
    <2>2. ParentIn(z, e.rel, n)
      BY <1>1, <2>1, ParentStays
    <2> QED BY <1>1, <2>1, <2>2
  <1>4. \A i \in 1 .. n + 1 : i \in 1 .. n \/ i = n + 1
    BY <1>1
  <1> HIDE DEF n, z
  <1>5. \A i \in 1 .. n + 1 : ParentIn(z, z[i].rel, i - 1)
    BY <1>2, <1>3, <1>4
  <1> QED BY <1>1, <1>5 DEF z

\* The sources hang below the root, or are the root.
LEMMA ParentStarts ==
    ASSUME PlanTyped, cur = NoCur, PlanScan PROVE Parented'
  <1>1. CASE ~\A i \in DOMAIN srcs : HasName(srcs[i])
    BY <1>1 DEF PlanScan, Parented
  <1>2. CASE \A i \in DOMAIN srcs : HasName(srcs[i])
    <2> DEFINE r0 == Plain(0, <<>>, "dir")
    <2>1. /\ cur' = NoCur
          /\ stack' = [i \in DOMAIN srcs |->
                         [path |-> srcs[i], rel |-> IF Multi THEN <<Last(srcs[i])>> ELSE <<>>]]
          /\ plan' = IF Multi THEN <<r0>> ELSE <<>>
      BY <1>2 DEF PlanScan
    <2>2. r0.rel = <<>> /\ r0.kind = "dir"
      <3>1. <<>> \in Paths
        BY DEF Paths
      <3> QED BY <3>1, PlainTyped DEF Kinds
    <2> HIDE DEF r0
    <2>3. cur'.kind = "none"
      BY <2>1, NoCurTyped
    <2>4. \A k \in DOMAIN stack' :
            k \in DOMAIN srcs /\ stack'[k].rel = IF Multi THEN <<Last(srcs[k])>> ELSE <<>>
      BY <2>1
    <2>5. CASE Multi
      <3>1. plan' = <<r0>> /\ Len(plan') = 1 /\ DOMAIN plan' = {1} /\ plan'[1] = r0
        BY <2>1, <2>5
      <3>2. \A i \in DOMAIN plan' : ParentIn(plan', plan'[i].rel, i - 1)
        BY <2>2, <3>1 DEF ParentIn
      <3>3. ASSUME NEW k \in DOMAIN stack' PROVE ParentIn(plan', stack'[k].rel, Len(plan'))
        <4>1. stack'[k].rel = <<Last(srcs[k])>>
          BY <2>4, <2>5
        <4>2. ASSUME NEW a PROVE Front(<<a>>) = <<>>
          BY DEF Front
        <4>3. 1 \in 1 .. Len(plan') /\ plan'[1].kind = "dir" /\ plan'[1].rel = Front(stack'[k].rel)
          BY <2>2, <3>1, <4>1, <4>2
        <4> QED BY <4>3 DEF ParentIn
      <3> QED BY <2>3, <3>2, <3>3 DEF Parented
    <2>6. CASE ~Multi
      <3>1. plan' = <<>> /\ DOMAIN plan' = {}
        BY <2>1, <2>6
      <3>2. \A k \in DOMAIN stack' : ParentIn(plan', stack'[k].rel, Len(plan'))
        BY <2>4, <2>6 DEF ParentIn
      <3> QED BY <2>3, <3>1, <3>2 DEF Parented
    <2> QED BY <2>5, <2>6
  <1> QED BY <1>1, <1>2

\* ScanStat appends an entry whose parent is there.
LEMMA StatParents ==
    ASSUME PlanTyped, Parented, ScanStat PROVE Parented'
  <1>1. CASE stage' = "failed"
    BY <1>1 DEF Parented
  <1>2. CASE stage' # "failed"
    <2> DEFINE at == Head(stack)
               kind == fs[at.path].kind
               e == Plain(nextId, at.rel, kind)
    <2>1. /\ stage = "scan" /\ stack # <<>> /\ kind \in Kinds /\ at \in Visit /\ stack' = Tail(stack)
          /\ \/ kind \in {"dir", "file"} /\ cur'.kind = kind /\ cur'.rel = at.rel
             \/ kind \notin {"dir", "file"} /\ cur'.kind = "none"
          /\ \/ plan' = plan /\ kind # "dir"
             \/ plan' = Append(plan, e) /\ kind # "file"
      BY <1>2, StatSplit, NoCurTyped
    <2>2. plan \in Seq(PlanEntry) /\ stack \in Seq(Visit) /\ Len(plan) \in Nat
      BY DEF PlanTyped
    <2>3. e \in PlanEntry /\ e.rel = at.rel /\ e.kind = kind
      BY <2>1, PlainTyped DEF PlanTyped, Visit
    <2>4. /\ 1 \in DOMAIN stack /\ at = stack[1]
          /\ \A k \in DOMAIN Tail(stack) : k + 1 \in DOMAIN stack /\ Tail(stack)[k] = stack[k + 1]
      BY <2>1, <2>2, Tails
    <2> HIDE DEF e, at, kind
    <2>5. /\ \A i \in DOMAIN plan : ParentIn(plan, plan[i].rel, i - 1)
          /\ \A k \in DOMAIN stack : ParentIn(plan, stack[k].rel, Len(plan))
      BY <2>1 DEF Parented
    <2>6. /\ ParentIn(plan, at.rel, Len(plan))
          /\ \A k \in DOMAIN stack' : ParentIn(plan, stack'[k].rel, Len(plan))
      BY <2>1, <2>4, <2>5
    <2>7. CASE plan' = plan /\ kind # "dir"
      BY <2>1, <2>5, <2>6, <2>7 DEF Parented
    <2>8. CASE plan' = Append(plan, e) /\ kind # "file"
      <3>1. \A i \in DOMAIN plan' : ParentIn(plan', plan'[i].rel, i - 1)
        BY <2>2, <2>3, <2>5, <2>6, <2>8, ParentJoins
      <3>2. Len(plan') = Len(plan) + 1 /\ Len(plan) \in 0 .. Len(plan) /\ Len(plan) + 1 \in Nat
            /\ Len(plan) <= Len(plan) + 1
        BY <2>2, <2>3, <2>8
      <3>3. \A k \in DOMAIN stack' : ParentIn(plan', stack'[k].rel, Len(plan'))
        BY <2>2, <2>3, <2>6, <2>8, <3>2, ParentStays
      <3>4. cur'.kind # "file"
        BY <2>1, <2>8
      <3>5. Len(plan) + 1 \in DOMAIN plan' /\ plan'[Len(plan) + 1] = e
        BY <2>2, <2>3, <2>8, Appended
      <3>6. cur'.kind = "dir" => \E j \in DOMAIN plan' : plan'[j].kind = "dir" /\ plan'[j].rel = cur'.rel
        BY <2>1, <2>3, <3>5
      <3> QED BY <3>1, <3>3, <3>4, <3>6 DEF Parented
    <2> QED BY <2>1, <2>7, <2>8
  <1> QED BY <1>1, <1>2

\* ScanDir makes children wait whose parent is the directory in hand.
LEMMA DirParents ==
    ASSUME PlanTyped, Parented, ScanDir PROVE Parented'
  <1>1. CASE cur.path \notin DOMAIN fs
    BY <1>1 DEF ScanDir, ScanFailed, Parented
  <1>2. CASE cur.path \in DOMAIN fs
    <2>1. PICK kids \in Children(cur.path) :
            /\ stack' = Descend([i \in DOMAIN kids |->
                                   [path |-> kids[i], rel |-> Append(cur.rel, Last(kids[i]))]], stack)
            /\ cur' = NoCur /\ UNCHANGED <<stage, plan, nextId, total>>
      BY <1>2 DEF ScanDir
    <2>2. stage = "scan" /\ cur.kind = "dir" /\ plan' = plan /\ cur'.kind = "none"
      BY <2>1, NoCurTyped DEF ScanDir
    <2> DEFINE n == Len(kids)
               m == Len(stack)
               new == [i \in DOMAIN kids |->
                         [path |-> kids[i], rel |-> Append(cur.rel, Last(kids[i]))]]
    <2>3. DOMAIN kids = 1 .. n /\ n \in Nat /\ \A i \in 1 .. n : kids[i] \in Paths /\ Last(kids[i]) \in Names
      BY <1>2, <2>2, KidsTyped
    <2>4. cur.rel \in Paths /\ stack \in Seq(Visit) /\ m \in Nat /\ DOMAIN stack = 1 .. m
          /\ plan \in Seq(PlanEntry)
      BY DEF PlanTyped, InHand
    <2>5. /\ \A i \in DOMAIN plan : ParentIn(plan, plan[i].rel, i - 1)
          /\ \A k \in DOMAIN stack : ParentIn(plan, stack[k].rel, Len(plan))
          /\ \E j \in DOMAIN plan : plan[j].kind = "dir" /\ plan[j].rel = cur.rel
      BY <2>2 DEF Parented
    <2>6. ASSUME NEW i \in 1 .. n PROVE ParentIn(plan, Append(cur.rel, Last(kids[i])), Len(plan))
      <3>1. Front(Append(cur.rel, Last(kids[i]))) = cur.rel
        BY <2>3, <2>4 DEF Paths, Front
      <3>2. DOMAIN plan = 1 .. Len(plan)
        BY <2>4
      <3> QED BY <2>5, <3>1, <3>2 DEF ParentIn
    <2>7. new \in Seq(Visit) /\ Len(new) = n /\ \A i \in 1 .. n : new[i].rel = Append(cur.rel, Last(kids[i]))
      <3>1. ASSUME NEW i \in 1 .. n
            PROVE  [path |-> kids[i], rel |-> Append(cur.rel, Last(kids[i]))] \in Visit
        <4>1. Append(cur.rel, Last(kids[i])) \in Paths
          BY <2>3, <2>4 DEF Paths
        <4> QED BY <2>3, <4>1 DEF Visit
      <3> QED BY <2>3, <3>1
    <2> HIDE DEF new, n, m
    <2>8. stack' = new \o stack
      BY <2>1 DEF Descend, new
    <2>9. /\ DOMAIN stack' = 1 .. n + m
          /\ \A k \in 1 .. n : stack'[k] = new[k]
          /\ \A k \in n + 1 .. n + m : stack'[k] = stack[k - n]
      BY <2>4, <2>7, <2>8, Joined DEF m
    <2>10. ASSUME NEW k \in 1 .. n + m PROVE ParentIn(plan, stack'[k].rel, Len(plan))
      <3>1. CASE k \in 1 .. n
        BY <2>6, <2>7, <2>9, <3>1
      <3>2. CASE k \notin 1 .. n
        <4>1. k \in n + 1 .. n + m /\ k - n \in 1 .. m
          BY <2>3, <2>4, <3>2
        <4> QED BY <2>4, <2>5, <2>9, <4>1
      <3> QED BY <3>1, <3>2
    <2> QED BY <2>2, <2>5, <2>9, <2>10 DEF Parented
  <1> QED BY <1>1, <1>2

\* ScanFile appends a file whose parent is there.
LEMMA FileParents ==
    ASSUME PlanTyped, Parented, ScanFile PROVE Parented'
  <1>1. CASE ~(cur.path \in DOMAIN fs /\ AddsUp(cur.size))
    BY <1>1 DEF ScanFile, ScanFailed, Parented
  <1>2. CASE cur.path \in DOMAIN fs /\ AddsUp(cur.size)
    <2> DEFINE e == Entry(cur.id, cur.rel, "file", cur.size,
                          <<fs[cur.path].size, fs[cur.path].ver>>, ChunkCountFor(cur.size))
    <2>1. stage = "scan" /\ cur.kind = "file" /\ plan' = Append(plan, e) /\ cur' = NoCur /\ stack' = stack
      BY <1>2 DEF ScanFile
    <2>2. e \in PlanEntry /\ e.rel = cur.rel
      BY <1>2, <2>1, MeasuredTyped
    <2>3. plan \in Seq(PlanEntry) /\ Len(plan) \in Nat
      BY DEF PlanTyped
    <2> HIDE DEF e
    <2>4. /\ \A i \in DOMAIN plan : ParentIn(plan, plan[i].rel, i - 1)
          /\ \A k \in DOMAIN stack : ParentIn(plan, stack[k].rel, Len(plan))
          /\ ParentIn(plan, cur.rel, Len(plan))
      BY <2>1 DEF Parented
    <2>5. \A i \in DOMAIN plan' : ParentIn(plan', plan'[i].rel, i - 1)
      BY <2>1, <2>2, <2>3, <2>4, ParentJoins
    <2>6. Len(plan') = Len(plan) + 1 /\ Len(plan) \in 0 .. Len(plan) /\ Len(plan) + 1 \in Nat
          /\ Len(plan) <= Len(plan) + 1
      BY <2>1, <2>2, <2>3
    <2>7. \A k \in DOMAIN stack' : ParentIn(plan', stack'[k].rel, Len(plan'))
      BY <2>1, <2>2, <2>3, <2>4, <2>6, ParentStays
    <2>8. cur'.kind = "none"
      BY <2>1, NoCurTyped
    <2> QED BY <2>5, <2>7, <2>8 DEF Parented
  <1> QED BY <1>1, <1>2

\* Every step keeps parents before their children.
LEMMA ParentedStep == PlanTyped /\ Manifest /\ Parented /\ [Next]_vars => Parented'
  <1> SUFFICES ASSUME PlanTyped, Manifest, Parented, [Next]_vars PROVE Parented'
    OBVIOUS
  <1> USE DEF scan_vars, task_vars
  <1>1. CASE UNCHANGED <<stage, scan_vars>>
    BY <1>1 DEF Parented
  <1>2. CASE Edit \/ SendPiece
    BY <1>1, <1>2 DEF Edit, SendPiece
  <1>3. CASE Gather \/ GatherFails \/ Confirm \/ PlanStdin \/ ScanDone
    BY <1>3 DEF Gather, GatherFails, Confirm, PlanStdin, ScanDone, Parented
  <1>4. CASE SendBegin \/ RcvManifest \/ RcvAccept \/ SndTasks
    BY <1>4 DEF SendBegin, RcvManifest, RcvAccept, SndTasks, Parented
  <1>5. CASE PlanScan
    <2>1. cur = NoCur
      BY <1>5 DEF PlanScan, Manifest
    <2> QED BY <1>5, <2>1, ParentStarts
  <1>6. CASE ScanStat \/ ScanDir \/ ScanFile
    BY <1>6, StatParents, DirParents, FileParents
  <1>7. CASE Connects \/ Diagnoses \/ Discovers \/ UNCHANGED vars
    BY <1>1, <1>7 DEF Connects, Diagnoses, Discovers, vars, plan_vars
  <1> QED
    BY <1>2, <1>3, <1>4, <1>5, <1>6, <1>7
    DEF Next, Plans, Edits, Sends, Planning, Sending

\* An entry without content adds no bytes, a file adds its size.
LEMMA BytesAppend ==
    ASSUME NEW es \in Seq(PlanEntry), NEW e \in PlanEntry, IsFiniteSet(Bytes(es))
    PROVE  /\ e.kind # "file" => Bytes(Append(es, e)) = Bytes(es)
           /\ e.kind = "file" /\ e.size \in Nat =>
                /\ IsFiniteSet(Bytes(Append(es, e)))
                /\ Cardinality(Bytes(Append(es, e))) = Cardinality(Bytes(es)) + e.size
  <1> DEFINE n == Len(es) + 1
             z == Append(es, e)
             more == {n} \X (0 .. e.size - 1)
  <1>1. /\ Len(es) \in Nat /\ DOMAIN es = 1 .. Len(es) /\ DOMAIN z = 1 .. n /\ n \in Nat
        /\ z[n] = e /\ \A i \in 1 .. Len(es) : z[i] = es[i]
    BY Appended
  <1> HIDE DEF z
  <1>2. \A i \in 1 .. n : i \in 1 .. Len(es) \/ i = n
    BY <1>1
  <1>3. n \notin 1 .. Len(es) /\ n \in 1 .. n /\ \A i \in 1 .. Len(es) : i \in 1 .. n
    BY <1>1
  <1> HIDE DEF n
  <1>4. Regular(z) = IF e.kind = "file" THEN Regular(es) \cup {n} ELSE Regular(es)
    BY <1>1, <1>2, <1>3 DEF Regular
  <1>5. Regular(es) \subseteq 1 .. Len(es)
    BY <1>1 DEF Regular
  <1>6. ASSUME e.kind # "file" PROVE Bytes(z) = Bytes(es)
    <2>1. Regular(z) = Regular(es)
      BY <1>4, <1>6
    <2>2. \A i \in Regular(es) : z[i] = es[i]
      BY <1>1, <1>5
    <2> QED BY <2>1, <2>2 DEF Bytes
  <1>7. ASSUME e.kind = "file", e.size \in Nat
        PROVE  /\ IsFiniteSet(Bytes(z))
               /\ Cardinality(Bytes(z)) = Cardinality(Bytes(es)) + e.size
    <2>1. Regular(z) = Regular(es) \cup {n}
      BY <1>4, <1>7
    <2>2. \A i \in Regular(es) : z[i] = es[i]
      BY <1>1, <1>5
    <2>3. Bytes(z) = Bytes(es) \cup more
      <3>1. ASSUME NEW y \in Bytes(z) PROVE y \in Bytes(es) \cup more
        <4>1. PICK i \in Regular(z) : y \in {i} \X (0 .. z[i].size - 1)
          BY DEF Bytes
        <4>2. CASE i \in Regular(es)
          BY <2>2, <4>1, <4>2 DEF Bytes
        <4>3. CASE i = n
          BY <1>1, <4>1, <4>3
        <4> QED BY <2>1, <4>2, <4>3
      <3>2. ASSUME NEW y \in Bytes(es) PROVE y \in Bytes(z)
        <4>1. PICK i \in Regular(es) : y \in {i} \X (0 .. es[i].size - 1)
          BY DEF Bytes
        <4>2. i \in Regular(z) /\ z[i] = es[i]
          BY <2>1, <2>2
        <4> QED BY <4>1, <4>2 DEF Bytes
      <3>3. ASSUME NEW y \in more PROVE y \in Bytes(z)
        <4>1. n \in Regular(z) /\ z[n] = e
          BY <1>1, <2>1
        <4>2. y \in {n} \X (0 .. z[n].size - 1)
          BY <4>1
        <4> QED BY <4>1, <4>2 DEF Bytes
      <3> HIDE DEF more
      <3> QED BY <3>1, <3>2, <3>3
    <2>4. Bytes(es) \cap more = {}
      <3> SUFFICES ASSUME NEW y \in Bytes(es), y \in more PROVE FALSE
        OBVIOUS
      <3>1. PICK i \in Regular(es) : y \in {i} \X (0 .. es[i].size - 1)
        BY DEF Bytes
      <3>2. y[1] = i /\ y[1] = n
        BY <3>1
      <3> QED BY <1>3, <1>5, <3>2
    <2>5. IsFiniteSet(more) /\ Cardinality(more) = e.size
      <3>1. IsFiniteSet({n}) /\ Cardinality({n}) = 1
        BY FS_Singleton
      <3>2. IsFiniteSet(0 .. e.size - 1) /\ Cardinality(0 .. e.size - 1) = e.size
        <4>1. e.size - 1 \in Int /\ 0 \in Int
          BY <1>7
        <4>2. /\ IsFiniteSet(0 .. e.size - 1)
              /\ Cardinality(0 .. e.size - 1) = IF 0 > e.size - 1 THEN 0 ELSE (e.size - 1) - 0 + 1
          BY <4>1, FS_Interval
        <4> QED BY <1>7, <4>2
      <3>3. /\ IsFiniteSet({n} \X (0 .. e.size - 1))
            /\ Cardinality({n} \X (0 .. e.size - 1)) = Cardinality({n}) * Cardinality(0 .. e.size - 1)
        BY <3>1, <3>2, FS_Product
      <3>4. 1 * e.size = e.size
        BY <1>7
      <3> QED BY <3>1, <3>2, <3>3, <3>4
    <2> HIDE DEF more
    <2>6. /\ IsFiniteSet(Bytes(es) \cup more)
          /\ Cardinality(Bytes(es) \cup more)
               = Cardinality(Bytes(es)) + Cardinality(more) - Cardinality(Bytes(es) \cap more)
      BY <2>5, FS_Union
    <2>7. Cardinality({}) = 0 /\ Cardinality(Bytes(es)) \in Nat
      BY FS_EmptySet, FS_CardinalityType
    <2>8. PICK a \in Nat : a = Cardinality(Bytes(es))
      BY <2>7
    <2>9. Cardinality(Bytes(es) \cup more) = a + e.size - 0
      BY <2>4, <2>5, <2>6, <2>7, <2>8
    <2>10. a + e.size - 0 = a + e.size
      BY <1>7, <2>8
    <2> QED BY <2>3, <2>6, <2>8, <2>9, <2>10
  <1> QED BY <1>6, <1>7 DEF z

\* An empty manifest, and one that has its root only, have no bytes.
LEMMA SumStarts ==
    ASSUME Summed, PlanScan PROVE Summed'
  <1>1. CASE ~\A i \in DOMAIN srcs : HasName(srcs[i])
    BY <1>1 DEF PlanScan, Summed
  <1>2. CASE \A i \in DOMAIN srcs : HasName(srcs[i])
    <2> DEFINE r0 == Plain(0, <<>>, "dir")
    <2>1. stage = "plan" /\ stage' = "scan" /\ total' = total /\ plan' = IF Multi THEN <<r0>> ELSE <<>>
      BY <1>2 DEF PlanScan
    <2>2. r0.kind = "dir"
      <3>1. <<>> \in Paths
        BY DEF Paths
      <3> QED BY <3>1, PlainTyped DEF Kinds
    <2> HIDE DEF r0
    <2>3. Regular(<<r0>>) = {} /\ Regular(<<>>) = {}
      BY <2>2 DEF Regular
    <2>4. Bytes(plan') = {}
      BY <2>1, <2>3 DEF Bytes
    <2>5. IsFiniteSet({}) /\ Cardinality({}) = 0
      BY FS_EmptySet
    <2> QED BY <2>1, <2>4, <2>5 DEF Summed
  <1> QED BY <1>1, <1>2

\* Every step keeps total_bytes the number of the planned bytes: checked_add adds the size
\* of each file that is appended, once.
LEMMA SummedStep == PlanTyped /\ Summed /\ [Next]_vars => Summed'
  <1> SUFFICES ASSUME PlanTyped, Summed, [Next]_vars PROVE Summed'
    OBVIOUS
  <1> USE DEF scan_vars, task_vars
  <1>1. CASE UNCHANGED <<stage, scan_vars>>
    BY <1>1 DEF Summed
  <1>2. CASE Edit \/ SendPiece
    BY <1>1, <1>2 DEF Edit, SendPiece
  <1>3. CASE Gather \/ GatherFails \/ Confirm \/ PlanStdin \/ ScanDone
    BY <1>3 DEF Gather, GatherFails, Confirm, PlanStdin, ScanDone, Summed
  <1>4. CASE SendBegin \/ RcvManifest \/ RcvAccept \/ SndTasks
    BY <1>4 DEF SendBegin, RcvManifest, RcvAccept, SndTasks, Summed
  <1>5. CASE PlanScan
    BY <1>5, SumStarts
  <1>6. CASE ScanStat
    <2>1. CASE stage' = "failed"
      BY <2>1 DEF Summed
    <2>2. CASE stage' # "failed"
      <3> DEFINE at == Head(stack)
                 kind == fs[at.path].kind
                 e == Plain(nextId, at.rel, kind)
      <3>1. /\ stage = "scan" /\ stage' = stage /\ kind \in Kinds /\ at \in Visit
            /\ plan' = plan \/ (plan' = Append(plan, e) /\ kind # "file")
        BY <1>6, <2>2, StatSplit
      <3>2. total' = total
        BY <1>6, <2>2, StatTakes
      <3>3. e \in PlanEntry /\ e.kind = kind /\ plan \in Seq(PlanEntry)
        BY <3>1, PlainTyped DEF PlanTyped, Visit
      <3>4. IsFiniteSet(Bytes(plan)) /\ total = Cardinality(Bytes(plan))
        BY <3>1 DEF Summed
      <3> HIDE DEF e, kind, at
      <3>5. Bytes(plan') = Bytes(plan)
        BY <3>1, <3>3, <3>4, BytesAppend
      <3> QED BY <3>1, <3>2, <3>4, <3>5 DEF Summed
    <2> QED BY <2>1, <2>2
  <1>7. CASE ScanDir
    BY <1>7 DEF ScanDir, ScanFailed, Summed
  <1>8. CASE ScanFile
    <2>1. CASE ~(cur.path \in DOMAIN fs /\ AddsUp(cur.size))
      BY <1>8, <2>1 DEF ScanFile, ScanFailed, Summed
    <2>2. CASE cur.path \in DOMAIN fs /\ AddsUp(cur.size)
      <3> DEFINE e == Entry(cur.id, cur.rel, "file", cur.size,
                            <<fs[cur.path].size, fs[cur.path].ver>>, ChunkCountFor(cur.size))
      <3>1. /\ stage = "scan" /\ stage' = stage /\ cur.kind = "file" /\ plan' = Append(plan, e)
            /\ total' = total + cur.size
        BY <1>8, <2>2 DEF ScanFile
      <3>2. e \in PlanEntry /\ e.kind = "file" /\ e.size = cur.size
        BY <2>2, <3>1, MeasuredTyped
      <3>3. plan \in Seq(PlanEntry) /\ cur.size \in Nat
        BY DEF PlanTyped, InHand
      <3>4. IsFiniteSet(Bytes(plan)) /\ total = Cardinality(Bytes(plan))
        BY <3>1 DEF Summed
      <3> HIDE DEF e
      <3>5. IsFiniteSet(Bytes(plan')) /\ Cardinality(Bytes(plan')) = Cardinality(Bytes(plan)) + cur.size
        BY <3>1, <3>2, <3>3, <3>4, BytesAppend
      <3> QED BY <3>1, <3>4, <3>5 DEF Summed
    <2> QED BY <2>1, <2>2
  <1>9. CASE Connects \/ Diagnoses \/ Discovers \/ UNCHANGED vars
    BY <1>1, <1>9 DEF Connects, Diagnoses, Discovers, vars, plan_vars
  <1> QED
    BY <1>2, <1>3, <1>4, <1>5, <1>6, <1>7, <1>8, <1>9
    DEF Next, Plans, Edits, Sends, Planning, Sending

\* Only other programs change the disk, and each change is counted.
LEMMA UntouchedStep == Untouched /\ [Next]_vars => Untouched'
  <1> SUFFICES ASSUME Untouched, [Next]_vars PROVE Untouched'
    OBVIOUS
  <1>1. CASE UNCHANGED <<fs, edits>>
    BY <1>1 DEF Untouched
  <1>2. CASE Edit
    <2>1. edits' = edits + 1 /\ edits \in Nat
      BY <1>2 DEF Edit, Untouched
    <2>2. edits' \in Nat /\ edits' # 0
      BY <2>1
    <2> QED BY <2>2 DEF Untouched
  <1>3. CASE Planning
    BY <1>1, <1>3 DEF Planning, Gather, GatherFails, Confirm, PlanStdin, PlanScan, ScanStat,
                      ScanDir, ScanFile, ScanDone
  <1>4. CASE Sending
    BY <1>1, <1>4 DEF Sending, SendBegin, SendPiece, RcvManifest, RcvAccept, SndTasks
  <1>5. CASE Connects \/ Diagnoses \/ Discovers \/ UNCHANGED vars
    BY <1>1, <1>5 DEF Connects, Diagnoses, Discovers, vars, plan_vars
  <1> QED BY <1>2, <1>3, <1>4, <1>5 DEF Next, Plans, Edits, Sends

\* When nothing waits and nothing is in hand, all there is has been recorded.
LEMMA DoneCompletes ==
    ASSUME PlanTyped, Book, Parented, Summed, ScanDone PROVE ScanComplete'
  <1> SUFFICES ASSUME stage' = "planned", edits' = 0 PROVE ScanComplete'
    BY DEF ScanComplete
  <1>1. /\ stage = "scan" /\ cur = NoCur /\ stack = <<>> /\ plan' = plan /\ total' = total
        /\ fs' = fs /\ cmd' = cmd /\ srcs' = srcs /\ edits' = edits
    BY DEF ScanDone, scan_vars
  <1>2. PICK w, c, R : Tracks(w, c, R)
    BY <1>1 DEF Book
  <1>3. c = {} /\ w = <<>> /\ RecordedIn(R) /\ Covered(w, c, R)
    BY <1>1, <1>2, NoCurTyped DEF Tracks, HandSpot, WaitSpots
  <1>4. R = Found
    <2>1. \A x \in Found : x \in R
      BY <1>3 DEF Covered
    <2> QED BY <1>3, <2>1 DEF RecordedIn
  <1>5. Found' = Found /\ Multi' = Multi
    BY <1>1, SameSpots
  <1>6. (Len(plan) = Cardinality(Found) + (IF Multi THEN 1 ELSE 0))'
    BY <1>1, <1>3, <1>4, <1>5 DEF RecordedIn
  <1>7. (\A x \in Found : \E i \in DOMAIN plan : Records(plan[i], x))'
    BY <1>1, <1>3, <1>4, <1>5 DEF RecordedIn, Records, Placed, Multi
  <1>8. (\A i \in DOMAIN plan : ParentIn(plan, plan[i].rel, i - 1))'
    BY <1>1 DEF Parented
  <1>9. (total = Cardinality(Bytes(plan)))'
    BY <1>1 DEF Summed
  <1> QED BY <1>6, <1>7, <1>8, <1>9 DEF ScanComplete

\* Every step keeps a complete manifest complete: once planned it does not change.
LEMMA CompleteStep ==
    PlanTyped /\ Book /\ Parented /\ Summed /\ ScanComplete /\ [Next]_vars => ScanComplete'
  <1> SUFFICES ASSUME PlanTyped, Book, Parented, Summed, ScanComplete, [Next]_vars
               PROVE  ScanComplete'
    OBVIOUS
  <1> USE DEF scan_vars, task_vars
  <1>1. CASE UNCHANGED <<fs, edits, cmd, srcs, stage, scan_vars>>
    <2>1. Found' = Found /\ Multi' = Multi
      BY <1>1, SameSpots
    <2> QED BY <1>1, <2>1 DEF ScanComplete, Records, Placed, Multi
  <1>2. CASE Edit
    BY <1>2 DEF Edit, InScan, ScanComplete
  <1>3. CASE Gather \/ GatherFails \/ Confirm \/ PlanStdin \/ PlanScan
    BY <1>3 DEF Gather, GatherFails, Confirm, PlanStdin, PlanScan, ScanComplete
  <1>4. CASE ScanStat \/ ScanDir \/ ScanFile
    <2>1. stage' # "planned"
      BY <1>4 DEF ScanStat, ScanDir, ScanFile, ScanFailed
    <2> QED BY <2>1 DEF ScanComplete
  <1>5. CASE ScanDone
    BY <1>5, DoneCompletes
  <1>6. CASE SendBegin \/ SendPiece \/ RcvManifest \/ RcvAccept \/ SndTasks
    BY <1>6 DEF SendBegin, SendPiece, RcvManifest, RcvAccept, SndTasks, ScanComplete
  <1>7. CASE Connects \/ Diagnoses \/ Discovers \/ UNCHANGED vars
    BY <1>1, <1>7 DEF Connects, Diagnoses, Discovers, vars, plan_vars
  <1> QED
    BY <1>2, <1>3, <1>4, <1>5, <1>6, <1>7
    DEF Next, Plans, Edits, Sends, Planning, Sending

\* On a tree that nobody changed, a scan that ends has recorded every path below every
\* source exactly once, except what --symlinks and --devices leave out, each file with its
\* own size and content, each directory before what is in it, and total_bytes is the sum:
\* for every tree, every command line and every number of sources.
THEOREM ScansComplete == Spec => []ScanComplete
  <1> DEFINE Inv == /\ PlanTyped /\ Scan /\ Manifest
                    /\ Untouched /\ Book /\ Parented /\ Summed /\ ScanComplete
  <1>1. Init => Inv
    <2> SUFFICES ASSUME Init PROVE Inv
      OBVIOUS
    <2>1. PlanTyped /\ Scan /\ Manifest
      BY PlanTypedInit, PlanInvInit
    <2>2. stage = "gather" /\ edits = 0 /\ total = 0 /\ fs \in Trees
      BY DEF Init, PlanInit
    <2> QED BY <2>1, <2>2 DEF Untouched, Book, Parented, Summed, ScanComplete
  <1>2. Inv /\ [Next]_vars => Inv'
    BY PlanTypedStep, ScanStep, ManifestStep, UntouchedStep, BookStep, ParentedStep, SummedStep,
       CompleteStep
  <1>3. Inv => ScanComplete
    OBVIOUS
  <1> QED BY <1>1, <1>2, <1>3, PTL DEF Spec
=============================================================================
