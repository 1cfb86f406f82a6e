---------------------------- MODULE Tunnel_proofs ----------------------------
(***************************************************************************)
(* For any number of clients, carriers and visitors: the entry under a port  *)
(* is that of the tunnel that serves it, and the carriers of a client, direct *)
(* ones and extra ones, are bounded.                                        *)
(***************************************************************************)
EXTENDS Tunnel, TLAPS, FiniteSetTheorems, WellFoundedInduction

\* Who has bound the port: the one client whose server task is between
\* create_listener and the drop of the listener.
Owner ==
    /\ srv \in [Clients -> {"new", "hello", "token", "serve", "left", "gone"}]
    /\ \A c \in Clients : srv[c] \in {"hello", "token", "serve", "left"} => bound = c

\* The token of a carrier pool and the entry of a direct path exclude each other.
TokenWithoutDirect == \A c \in Clients : srv[c] = "token" => ~Direct

OwnInv == Owner /\ TokenWithoutDirect /\ OwnEntry

\* Before any client connects the port is free and there is no entry.
LEMMA OwnInit == Init => OwnInv
BY DEF Init, OwnInv, Owner, TokenWithoutDirect, OwnEntry

\* The steps that leave the server's end, the port and the registries alone.
LEMMA OwnUntouched ==
    ASSUME OwnInv, UNCHANGED <<kind, srv, bound, reg, nonce>>
    PROVE  OwnInv'
BY DEF OwnInv, Owner, TokenWithoutDirect, OwnEntry, Direct

\* create_listener binds the port only while no task holds it; otherwise the task ends.
LEMMA OwnBind ==
    ASSUME OwnInv, NEW c \in Clients, SrvBind(c)
    PROVE  OwnInv'
<1>1. CASE PortFree /\ c \in main
  <2>1. /\ bound' = c /\ srv' = [srv EXCEPT ![c] = "hello"]
        /\ UNCHANGED <<kind, reg, nonce>>
    BY <1>1 DEF SrvBind, quic_vars
  <2>2. \A x \in Clients : srv[x] \notin {"hello", "token", "serve", "left"}
    BY <1>1, ClientAssumption DEF OwnInv, Owner, PortFree
  <2> QED BY <2>1, <2>2 DEF OwnInv, Owner, TokenWithoutDirect, OwnEntry, Direct
<1>2. CASE ~(PortFree /\ c \in main)
  <2>1. srv' = [srv EXCEPT ![c] = "gone"] /\ UNCHANGED <<kind, bound, reg, nonce>>
    BY <1>2 DEF SrvBind, quic_vars
  <2> QED BY <2>1 DEF OwnInv, Owner, TokenWithoutDirect, OwnEntry, Direct
<1> QED BY <1>1, <1>2

\* The end of a tunnel: its guards remove its own entry, then the listener is dropped.
LEMMA OwnLeave ==
    ASSUME OwnInv, NEW c \in Clients, SrvLeave(c)
    PROVE  OwnInv'
<1>1. /\ srv[c] = "serve" /\ srv' = [srv EXCEPT ![c] = "left"]
      /\ UNCHANGED <<kind, bound>> /\ (~Direct => UNCHANGED <<reg, nonce>>)
  BY DEF SrvLeave
<1>2. \A x \in Clients : srv[x] = "serve" => x = c
  BY <1>1 DEF OwnInv, Owner
<1> QED BY <1>1, <1>2 DEF OwnInv, Owner, TokenWithoutDirect, OwnEntry, Direct

\* Every step of server, clients, carriers and visitors keeps the invariant.
LEMMA OwnStep == OwnInv /\ [Next]_vars => OwnInv'
<1> SUFFICES ASSUME OwnInv, [Next]_vars PROVE OwnInv'
  OBVIOUS
<1>1. CASE UNCHANGED vars
  BY <1>1, OwnUntouched DEF vars, end_vars, quic_vars
<1>2. ASSUME NEW c \in Clients, SrvStep(c) PROVE OwnInv'
  <2>1. CASE SrvBind(c)
    BY <2>1, OwnBind
  <2>2. CASE SrvToken(c)
    BY <2>2 DEF SrvToken, OwnInv, Owner, TokenWithoutDirect, OwnEntry, Direct, quic_vars
  <2>3. CASE SrvOffer(c)
    BY <2>3 DEF SrvOffer, OwnInv, Owner, TokenWithoutDirect, OwnEntry, Direct, quic_vars
  <2>4. CASE SrvRegister(c)
    BY <2>4 DEF SrvRegister, OwnInv, Owner, TokenWithoutDirect, OwnEntry, Direct
  <2>5. CASE SrvPush(c)
    BY <2>5, OwnUntouched DEF SrvPush, end_vars, quic_vars
  <2>6. CASE SrvLeave(c)
    BY <2>6, OwnLeave
  <2>7. CASE SrvClosePort(c)
    BY <2>7 DEF SrvClosePort, OwnInv, Owner, TokenWithoutDirect, OwnEntry, Direct, quic_vars
  <2> QED BY <1>2, <2>1, <2>2, <2>3, <2>4, <2>5, <2>6, <2>7 DEF SrvStep
<1>3. ASSUME NEW c \in Clients, CliStep(c) \/ RedialTick(c) \/ RedialBatch(c) PROVE OwnInv'
  BY <1>3, OwnUntouched DEF CliStep, CliStart, CliOpen, CliListen, CliEnds, RedialTick, RedialLoad,
     RedialSwap, RedialBatch, RedialDial, RedialDone, end_vars, quic_vars
<1>4. ASSUME NEW c \in Clients, DirStep(c) PROVE OwnInv'
  BY <1>4, OwnUntouched DEF DirStep, DirOffer, DirCheck, DirFails, DirUp, DirInstall, DirEnds,
     DirRemove, Release, end_vars
<1>5. ASSUME NEW c \in Clients, LoopStep(c) \/ BreakMain(c) PROVE OwnInv'
  BY <1>5, OwnUntouched DEF LoopStep, LoopRenew, LoopUp, LoopSleep, BreakMain, end_vars, quic_vars
<1>6. ASSUME NEW k \in Conns, CarrierStep(k) \/ PumpUnheard(k) \/ BreakConn(k) PROVE OwnInv'
  BY <1>6, OwnUntouched DEF CarrierStep, SrvJoin, SrvCarrierEnds, PumpEnds, PumpUnheard, PumpStops, BreakConn,
     end_vars, quic_vars
<1>7. ASSUME NEW v \in Visitors, VisStep(v) PROVE OwnInv'
  BY <1>7, OwnUntouched DEF VisStep, VisAccept, VisDirect, VisRelay, VisEnds, end_vars, quic_vars
<1> QED BY <1>1, <1>2, <1>3, <1>4, <1>5, <1>6, <1>7 DEF Next

\* The entry and the nonce under the port of a tunnel that serves are its own, for any
\* number of clients that want the port and however their ends interleave.
THEOREM EntryIsOwn == Spec => []OwnEntry
<1>1. OwnInv => OwnEntry
  BY DEF OwnInv
<1> QED BY <1>1, OwnInit, OwnStep, PTL DEF Spec

-----------------------------------------------------------------------------
(* The direct carriers of a client are counted, and never more than asked for. *)

QuicStates == [cl : {"off", "dial", "up"}, sv : {"off", "checked", "in", "out"},
               at : Clients \cup {"none"}, late : BOOLEAN]
InDial(c) == {d \in Slots : quic[c][d].cl # "off"}

\* dlive counts the direct carriers that are established or being established.
Counted ==
    /\ quic \in [Clients -> [Slots -> QuicStates]]
    /\ dlive \in [Clients -> 0 .. Target]
    /\ \A c \in Clients : dlive[c] = Cardinality(InDial(c))

\* A nonempty set of naturals has a least element.
LEMMA Least ==
    ASSUME NEW T \in SUBSET Nat, T # {}
    PROVE  \E x \in T : \A y \in T : x <= y
<1> DEFINE R == OpToRel(<, Nat)
<1>1. IsWellFoundedOn(R, Nat)
  BY NatLessThanWellFounded
<1>2. \A x, y \in Nat : x < y => <<x, y>> \in R
  BY DEF OpToRel
<1> HIDE DEF R
<1>3. PICK x \in T : \A y \in T : ~(<<y, x>> \in R)
  BY <1>1, WFMin
<1>4. \A y \in T : ~(y < x)
  BY <1>2, <1>3, Zenon
<1>5. \A y \in T : x \in Nat /\ y \in Nat
  OBVIOUS
<1>6. \A y \in T : x <= y
  BY <1>4, <1>5
<1> QED BY <1>6

\* The slots are finitely many.
LEMMA SlotsFinite ==
    /\ IsFiniteSet(Slots)
    /\ \A S \in SUBSET Slots : IsFiniteSet(S) /\ Cardinality(S) \in Nat
<1>1. IsFiniteSet(Slots)
  BY FS_Interval, SizeAssumption DEF Slots
<1> QED BY <1>1, FS_Subset, FS_CardinalityType

\* spawn_direct reserves no more slots than are missing: the highest slot taken has
\* at most that many free slots up to it, and every slot taken is one of them.
LEMMA ShortfallBound ==
    ASSUME NEW c \in Clients, dlive[c] \in 0 .. Target
    PROVE  /\ Shortfall(c) \in SUBSET Slots
           /\ Cardinality(Shortfall(c)) <= Target - dlive[c]
<1> DEFINE D == Shortfall(c)
           k == Target - dlive[c]
           below(d) == {x \in 1 .. d : quic[c][x] = FreeQuic}
           bounds == {u \in Nat : \A d \in D : d <= u}
<1>0. k \in Nat /\ MaxSlots \in Nat
  BY SizeAssumption
<1>1. D \in SUBSET Slots /\ \A d \in D : quic[c][d] = FreeQuic /\ Cardinality(below(d)) <= k
  BY DEF Shortfall
<1>2. CASE D = {}
  BY <1>0, <1>2, FS_EmptySet
<1>3. CASE D # {}
  <2> HIDE DEF D, k
  <2>1. MaxSlots \in bounds
    BY <1>0, <1>1 DEF Slots
  <2>2. PICK m \in bounds : \A u \in bounds : m <= u
    BY <2>1, Least
  <2>3. m \in D
    <3> SUFFICES ASSUME m \notin D PROVE FALSE
      OBVIOUS
    <3>1. PICK d \in D : TRUE
      BY <1>3
    <3>2. d \in Nat /\ 1 <= d /\ d <= m
      BY <1>0, <1>1, <2>2 DEF Slots
    <3>3. \A x \in D : x \in Nat /\ x <= m /\ x # m
      BY <1>0, <1>1, <2>2 DEF Slots
    <3>4. m - 1 \in bounds
      BY <2>2, <3>2, <3>3
    <3> QED BY <2>2, <3>4
  <2>4. D \subseteq below(m)
    <3> SUFFICES ASSUME NEW d \in D PROVE d \in below(m)
      OBVIOUS
    <3>1. d \in 1 .. MaxSlots /\ quic[c][d] = FreeQuic /\ d <= m /\ m \in Nat
      BY <1>1, <2>2 DEF Slots
    <3> QED BY <1>0, <3>1
  <2>5. IsFiniteSet(below(m))
    <3>1. IsFiniteSet(1 .. m)
      BY <2>2, FS_Interval
    <3> QED BY <3>1, FS_Subset
  <2>6. Cardinality(D) <= Cardinality(below(m)) /\ Cardinality(below(m)) \in Nat
    BY <2>4, <2>5, FS_Subset, FS_CardinalityType
  <2>7. Cardinality(D) \in Nat
    BY <1>1, SlotsFinite
  <2> QED BY <1>0, <1>1, <2>3, <2>6, <2>7 DEF D, k
<1> QED BY <1>2, <1>3

\* No direct carrier counts at the start.
LEMMA CountInit == Init => Counted
<1> SUFFICES ASSUME Init PROVE Counted
  OBVIOUS
<1>1. quic = [c \in Clients |-> [d \in Slots |-> FreeQuic]] /\ dlive = [c \in Clients |-> 0]
  BY DEF Init
<1>2. FreeQuic \in QuicStates /\ FreeQuic.cl = "off"
  BY DEF FreeQuic, QuicStates
<1>3. \A c \in Clients : InDial(c) = {}
  BY <1>1, <1>2 DEF InDial
<1> QED BY <1>1, <1>2, <1>3, FS_EmptySet, SizeAssumption DEF Counted

\* What does not touch cl in any slot changes no count.
LEMMA CountSame ==
    ASSUME Counted, quic' \in [Clients -> [Slots -> QuicStates]], UNCHANGED dlive,
           \A c \in Clients, d \in Slots : quic'[c][d].cl = "off" <=> quic[c][d].cl = "off"
    PROVE  Counted'
<1>1. \A c \in Clients : InDial(c)' = InDial(c)
  BY DEF InDial
<1> QED BY <1>1 DEF Counted

\* One slot of one client gets another value.
Sets(c, d, r) == quic' = [quic EXCEPT ![c][d] = r]
LEMMA OneSlot ==
    ASSUME Counted, NEW c \in Clients, NEW d \in Slots, NEW r \in QuicStates, Sets(c, d, r)
    PROVE  /\ quic' \in [Clients -> [Slots -> QuicStates]]
           /\ quic'[c][d] = r
           /\ \A x \in Clients, e \in Slots : x # c \/ e # d => quic'[x][e] = quic[x][e]
<1>1. [quic[c] EXCEPT ![d] = r] \in [Slots -> QuicStates]
  BY DEF Counted
<1>2. quic' = [quic EXCEPT ![c] = [quic[c] EXCEPT ![d] = r]]
  BY DEF Counted, Sets
<1> HIDE DEF QuicStates
<1> QED BY <1>1, <1>2 DEF Counted

\* A batch of dials is as large as what is missing.
LEMMA CountOffer ==
    ASSUME Counted, NEW c \in Clients, DirOffer(c)
    PROVE  Counted'
<1>1. CASE UNCHANGED <<quic, dlive>>
  BY <1>1, CountSame DEF Counted
<1>2. CASE ~UNCHANGED <<quic, dlive>>
  <2> DEFINE D == Shortfall(c)
             new == [FreeQuic EXCEPT !.cl = "dial"]
  <2>1. /\ quic' = [quic EXCEPT ![c] = [d \in Slots |-> IF d \in D THEN new ELSE quic[c][d]]]
        /\ dlive' = [dlive EXCEPT ![c] = dlive[c] + Cardinality(D)]
    BY <1>2 DEF DirOffer, Counted
  <2>2. D \in SUBSET Slots /\ Cardinality(D) \in Nat /\ Cardinality(D) <= Target - dlive[c]
    BY ShortfallBound, SlotsFinite DEF Counted
  <2>3. new \in QuicStates /\ new.cl = "dial" /\ FreeQuic.cl = "off"
    BY DEF FreeQuic, QuicStates
  <2>4. \A d \in D : quic[c][d] = FreeQuic
    BY DEF Shortfall
  <2> HIDE DEF D, new
  <2>5. quic' \in [Clients -> [Slots -> QuicStates]]
    BY <2>1, <2>3 DEF Counted
  <2>6. InDial(c)' = InDial(c) \cup D /\ InDial(c) \cap D = {}
    BY <2>1, <2>2, <2>3, <2>4 DEF InDial, Counted
  <2>7. \A x \in Clients : x # c => InDial(x)' = InDial(x)
    BY <2>1 DEF InDial, Counted
  <2>8. Cardinality(InDial(c)') = Cardinality(InDial(c)) + Cardinality(D)
    <3>1. InDial(c) \in SUBSET Slots
      BY DEF InDial
    <3>2. IsFiniteSet(InDial(c)) /\ IsFiniteSet(D) /\ Cardinality(InDial(c)) \in Nat
      BY <2>2, <3>1, SlotsFinite
    <3>3. Cardinality(InDial(c) \cup D) = Cardinality(InDial(c)) + Cardinality(D) - Cardinality(InDial(c) \cap D)
      BY <3>2, FS_Union
    <3>4. Cardinality(InDial(c) \cap D) = 0
      BY <2>6, FS_EmptySet
    <3>5. Cardinality(InDial(c)') = Cardinality(InDial(c) \cup D)
      BY <2>6
    <3> QED BY <2>2, <3>2, <3>3, <3>4, <3>5
  <2> QED BY <2>1, <2>2, <2>5, <2>7, <2>8, SizeAssumption DEF Counted
<1> QED BY <1>1, <1>2

\* The end of a direct carrier gives its slot back.
LEMMA CountRelease ==
    ASSUME Counted, NEW c \in Clients, NEW d \in Slots, quic[c][d].cl # "off", Release(c, d)
    PROVE  Counted'
<1> DEFINE r == [quic[c][d] EXCEPT !.cl = "off"]
<1>0. quic[c][d] \in QuicStates
  BY DEF Counted
<1>1. r \in QuicStates /\ r.cl = "off"
  BY <1>0 DEF QuicStates
<1>2. quic' = [quic EXCEPT ![c][d] = r] /\ dlive' = [dlive EXCEPT ![c] = @ - 1]
  BY DEF Release, Counted
<1> HIDE DEF r
<1>3. /\ quic' \in [Clients -> [Slots -> QuicStates]]
      /\ quic'[c][d] = r
      /\ \A x \in Clients, e \in Slots : x # c \/ e # d => quic'[x][e] = quic[x][e]
  <2>1. Sets(c, d, r)
    BY <1>2 DEF Sets
  <2> QED BY <1>1, <2>1, OneSlot
<1>4. InDial(c)' = InDial(c) \ {d} /\ d \in InDial(c) /\ InDial(c) \in SUBSET Slots
  BY <1>1, <1>3 DEF InDial
<1>5. \A x \in Clients : x # c => InDial(x)' = InDial(x)
  BY <1>3 DEF InDial
<1>6. /\ Cardinality(InDial(c)') = Cardinality(InDial(c)) - 1
      /\ Cardinality(InDial(c)) \in Nat /\ Cardinality(InDial(c)') \in Nat
  BY <1>4, SlotsFinite, FS_RemoveElement
<1> QED BY <1>2, <1>3, <1>5, <1>6, SizeAssumption DEF Counted

\* A step in one slot that neither reserves nor releases it.
LEMMA CountSlot ==
    ASSUME Counted, reg \in Clients \cup {"none"}, NEW c \in Clients, NEW d \in Slots,
           DirCheck(c, d) \/ DirUp(c, d) \/ DirInstall(c, d)
    PROVE  Counted'
<1>0. quic[c][d] \in QuicStates
  BY DEF Counted
<1>1. SUFFICES ASSUME NEW r \in QuicStates, quic' = [quic EXCEPT ![c][d] = r],
                      r.cl = "off" <=> quic[c][d].cl = "off", UNCHANGED dlive
               PROVE  Counted'
  <2>1. CASE DirCheck(c, d)
    <3> DEFINE r == [quic[c][d] EXCEPT !.sv = "checked"]
    <3>1. r \in QuicStates /\ r.cl = quic[c][d].cl
      BY <1>0 DEF QuicStates
    <3> QED BY <1>1, <2>1, <3>1 DEF DirCheck, Counted, dir_vars
  <2>2. CASE DirUp(c, d)
    <3> DEFINE r == [quic[c][d] EXCEPT !.cl = "up"]
    <3>1. r \in QuicStates /\ r.cl = "up"
      BY <1>0 DEF QuicStates
    <3> QED BY <1>1, <2>2, <3>1 DEF DirUp, Counted
  <2>3. CASE DirInstall(c, d)
    <3> DEFINE fits == reg # "none" /\ Cardinality(InPool(reg)) < DirectCap
               r == IF fits THEN [quic[c][d] EXCEPT !.sv = "in", !.at = reg]
                    ELSE [quic[c][d] EXCEPT !.sv = "off", !.late = FALSE]
    <3>1. r \in QuicStates /\ r.cl = quic[c][d].cl
      BY <1>0 DEF QuicStates
    <3> QED BY <1>1, <2>3, <3>1 DEF DirInstall, Counted, dir_vars
  <2> QED BY <2>1, <2>2, <2>3
<1>2. /\ quic' \in [Clients -> [Slots -> QuicStates]]
      /\ quic'[c][d] = r
      /\ \A x \in Clients, e \in Slots : x # c \/ e # d => quic'[x][e] = quic[x][e]
  BY <1>1, OneSlot DEF Sets
<1> QED BY <1>1, <1>2, CountSame

\* The end of a connection empties its slot, and may take another one out of its pool.
LEMMA Removed ==
    ASSUME Counted, NEW c \in Clients, NEW d \in Slots, DirRemove(c, d)
    PROVE  /\ quic' \in [Clients -> [Slots -> QuicStates]] /\ UNCHANGED dlive
           /\ \A x \in Clients, e \in Slots :
                /\ quic'[x][e].cl = "off" <=> quic[x][e].cl = "off"
                /\ quic'[x][e] = quic[x][e] \/ quic'[x][e].sv \in {"off", "out"}
<1>0. /\ FreeQuic \in QuicStates /\ FreeQuic.cl = "off" /\ FreeQuic.sv = "off"
      /\ quic[c][d].cl = "off" /\ UNCHANGED dlive
  BY DEF FreeQuic, QuicStates, DirRemove, dir_vars
<1>1. CASE quic' = [quic EXCEPT ![c][d] = FreeQuic]
  <2>1. /\ quic' \in [Clients -> [Slots -> QuicStates]]
        /\ quic'[c][d] = FreeQuic
        /\ \A x \in Clients, e \in Slots : x # c \/ e # d => quic'[x][e] = quic[x][e]
    BY <1>0, <1>1, OneSlot DEF Sets
  <2> QED BY <1>0, <2>1
<1>2. CASE quic' # [quic EXCEPT ![c][d] = FreeQuic]
  <2>1. PICK y \in InPool(reg) : quic' = [quic EXCEPT ![c][d] = FreeQuic, ![y[1]][y[2]].sv = "out"]
    BY <1>2 DEF DirRemove
  <2>2. PICK a \in Clients, b \in Slots : y[1] = a /\ y[2] = b /\ quic[a][b].at = reg
    BY DEF InPool
  <2>3. a # c \/ b # d
    BY <1>2, <2>2 DEF DirRemove
  <2> DEFINE r == [quic[a][b] EXCEPT !.sv = "out"]
  <2>4. r \in QuicStates /\ r.cl = quic[a][b].cl /\ r.sv = "out"
    <3>1. quic[a][b] \in QuicStates
      BY DEF Counted
    <3> QED BY <3>1 DEF QuicStates
  <2>5. quic' = [x \in Clients |-> [e \in Slots |-> IF x = a /\ e = b THEN r
                                                   ELSE IF x = c /\ e = d THEN FreeQuic ELSE quic[x][e]]]
    BY <2>1, <2>2, <2>3 DEF Counted
  <2> HIDE DEF r
  <2>6. quic' \in [Clients -> [Slots -> QuicStates]]
    BY <1>0, <2>4, <2>5 DEF Counted
  <2> QED BY <1>0, <2>4, <2>5, <2>6
<1> QED BY <1>1, <1>2

\* Deregistration marks the handshakes under way, in every slot of one client.
LEMMA CountLeave ==
    ASSUME Counted, NEW c \in Clients, SrvLeave(c)
    PROVE  /\ Counted'
           /\ \A x \in Clients, d \in Slots :
                /\ quic'[x][d].sv = quic[x][d].sv /\ quic'[x][d].at = quic[x][d].at
                /\ quic[x][d].late \/ (x = c /\ quic[x][d].sv = "checked") => quic'[x][d].late
<1> DEFINE mark(d) == [quic[c][d] EXCEPT !.late = @ \/ quic[c][d].sv = "checked"]
<1>1. quic' = [quic EXCEPT ![c] = [d \in Slots |-> mark(d)]] /\ UNCHANGED dlive
  BY DEF SrvLeave, dir_vars
<1>2. ASSUME NEW d \in Slots
      PROVE  /\ mark(d) \in QuicStates
             /\ mark(d).cl = quic[c][d].cl /\ mark(d).sv = quic[c][d].sv
             /\ mark(d).at = quic[c][d].at
             /\ mark(d).late = (quic[c][d].late \/ quic[c][d].sv = "checked")
  <2>1. quic[c][d] \in QuicStates
    BY DEF Counted
  <2> QED BY <2>1 DEF QuicStates
<1> HIDE DEF mark
<1>3. quic' \in [Clients -> [Slots -> QuicStates]]
  BY <1>1, <1>2 DEF Counted
<1>4. \A x \in Clients, d \in Slots : quic'[x][d] = IF x = c THEN mark(d) ELSE quic[x][d]
  BY <1>1 DEF Counted
<1>5. \A x \in Clients, d \in Slots : quic[x][d].late \in BOOLEAN
  BY DEF Counted, QuicStates
<1> QED BY <1>1, <1>2, <1>3, <1>4, <1>5, CountSame

-----------------------------------------------------------------------------
(* Direct connections are installed where they belong.                     *)

\* The entry under the port is that of a tunnel that serves, with its nonce.
Entered ==
    /\ reg \in Clients \cup {"none"} /\ nonce = reg
    /\ reg # "none" => srv[reg] = "serve" /\ Direct

\* A handshake that has passed its check belongs to the entry there is, and a connection
\* in a pool to the client of that pool, unless a deregistration came between.
Installed ==
    \A c \in Clients, d \in Slots :
        /\ quic[c][d].sv = "checked" => reg = c \/ quic[c][d].late
        /\ quic[c][d].sv = "in" => quic[c][d].at = c \/ quic[c][d].late

VisitStates == [st : {"none", "edge", "direct"}, of : Clients \cup {"none"}, entry : Clients \cup {"none"},
                to : Clients \cup {"none"}, late : BOOLEAN]

\* A visitor holds the entry of the client whose port it came to.
Visits ==
    /\ vis \in [Visitors -> VisitStates]
    /\ \A v \in Visitors : vis[v].st = "edge" => vis[v].entry = vis[v].of
    /\ DirectOwner

DirInv == OwnInv /\ Counted /\ Entered /\ Installed /\ Visits

\* Nobody has a direct path at the start.
LEMMA DirInit == Init => DirInv
<1> SUFFICES ASSUME Init PROVE DirInv
  OBVIOUS
<1>1. OwnInv /\ Counted
  BY OwnInit, CountInit
<1>2. Entered
  BY DEF Init, Entered
<1>3. Installed
  BY DEF Init, Installed, FreeQuic
<1>4. Visits
  BY DEF Init, Visits, VisitStates, DirectOwner, NoVisit
<1> QED BY <1>1, <1>2, <1>3, <1>4 DEF DirInv

\* The steps that touch neither the registries nor the direct carriers nor the visitors:
\* serve stays serve.
LEMMA DirUntouched ==
    ASSUME DirInv, OwnInv', UNCHANGED <<kind, reg, nonce, quic, dlive, vis>>,
           \A c \in Clients : srv[c] = "serve" => srv'[c] = "serve"
    PROVE  DirInv'
<1>1. Counted'
  BY CountSame DEF DirInv, Counted
<1> QED BY <1>1 DEF DirInv, Entered, Installed, Visits, DirectOwner, Direct

\* SrvRegister: the port belongs to one client, so no other one's handshake is left.
LEMMA DirRegister ==
    ASSUME DirInv, OwnInv', NEW c \in Clients, SrvRegister(c)
    PROVE  DirInv'
<1>1. /\ srv[c] = "hello" /\ Direct /\ reg' = c /\ nonce' = c
      /\ srv' = [srv EXCEPT ![c] = "serve"] /\ UNCHANGED <<kind, quic, dlive, vis>>
  BY DEF SrvRegister
<1>2. reg = "none"
  BY <1>1, ClientAssumption DEF DirInv, Entered, OwnInv, Owner
<1>3. Counted'
  BY <1>1, CountSame DEF DirInv, Counted
<1>4. Entered'
  BY <1>1 DEF DirInv, Entered, OwnInv, Owner, Direct
<1>5. Installed'
  BY <1>1, <1>2, ClientAssumption DEF DirInv, Installed
<1>6. Visits'
  BY <1>1 DEF DirInv, Visits, DirectOwner
<1> QED BY <1>3, <1>4, <1>5, <1>6 DEF DirInv

\* SrvLeave: a handshake that is under way becomes a late one.
LEMMA DirLeave ==
    ASSUME DirInv, OwnInv', NEW c \in Clients, SrvLeave(c)
    PROVE  DirInv'
<1>1. /\ srv[c] = "serve" /\ srv' = [srv EXCEPT ![c] = "left"]
      /\ IF Direct THEN reg' = "none" /\ nonce' = "none" ELSE UNCHANGED <<reg, nonce>>
      /\ UNCHANGED <<kind, vis>>
  BY DEF SrvLeave
<1>2. /\ Counted'
      /\ \A x \in Clients, d \in Slots :
           /\ quic'[x][d].sv = quic[x][d].sv /\ quic'[x][d].at = quic[x][d].at
           /\ quic[x][d].late \/ (x = c /\ quic[x][d].sv = "checked") => quic'[x][d].late
  BY CountLeave DEF DirInv
<1>3. Direct => reg = c
  BY <1>1 DEF DirInv, OwnInv, OwnEntry
<1>4. ~Direct => reg = "none"
  BY DEF DirInv, Entered
<1>5. Entered'
  BY <1>1, <1>4 DEF DirInv, Entered
<1>6. ASSUME NEW x \in Clients, NEW d \in Slots
      PROVE  /\ quic'[x][d].sv = "checked" => reg' = x \/ quic'[x][d].late
             /\ quic'[x][d].sv = "in" => quic'[x][d].at = x \/ quic'[x][d].late
  <2>1. /\ quic'[x][d].sv = quic[x][d].sv /\ quic'[x][d].at = quic[x][d].at
        /\ quic[x][d].late \/ (x = c /\ quic[x][d].sv = "checked") => quic'[x][d].late
    BY <1>2
  <2>2. /\ quic[x][d].sv = "checked" => reg = x \/ quic[x][d].late
        /\ quic[x][d].sv = "in" => quic[x][d].at = x \/ quic[x][d].late
    BY DEF DirInv, Installed
  <2> QED BY <1>1, <1>3, <1>4, <2>1, <2>2, ClientAssumption
<1>7. Visits'
  BY <1>1 DEF DirInv, Visits, DirectOwner
<1> QED BY <1>2, <1>5, <1>6, <1>7 DEF DirInv, Installed

\* One slot of one client: what its new value has to meet.
LEMMA InstalledSlot ==
    ASSUME DirInv, OwnInv', Counted', NEW c \in Clients, NEW d \in Slots, NEW r \in QuicStates,
           quic' = [quic EXCEPT ![c][d] = r], UNCHANGED <<kind, srv, reg, nonce, vis>>,
           r.sv = "checked" => reg = c \/ r.late,
           r.sv = "in" => r.at = c \/ r.late
    PROVE  DirInv'
<1>1. /\ quic'[c][d] = r
      /\ \A x \in Clients, e \in Slots : x # c \/ e # d => quic'[x][e] = quic[x][e]
  BY OneSlot DEF DirInv, Sets
<1>2. Installed'
  <2> SUFFICES ASSUME NEW x \in Clients, NEW e \in Slots
               PROVE  /\ quic'[x][e].sv = "checked" => reg = x \/ quic'[x][e].late
                      /\ quic'[x][e].sv = "in" => quic'[x][e].at = x \/ quic'[x][e].late
    BY DEF Installed
  <2>1. CASE x = c /\ e = d
    BY <1>1, <2>1
  <2>2. CASE ~(x = c /\ e = d)
    BY <1>1, <2>2 DEF DirInv, Installed
  <2> QED BY <2>1, <2>2
<1>3. Entered' /\ Visits'
  BY DEF DirInv, Entered, Visits, DirectOwner, Direct
<1> QED BY <1>2, <1>3 DEF DirInv

\* spawn_direct: new slots have nothing at the server.
LEMMA DirOffers ==
    ASSUME DirInv, OwnInv', NEW c \in Clients, DirOffer(c)
    PROVE  DirInv'
<1>1. Counted'
  BY CountOffer DEF DirInv
<1>2. UNCHANGED <<kind, srv, reg, nonce, vis>>
  BY DEF DirOffer, end_vars
<1>3. ASSUME NEW x \in Clients, NEW d \in Slots
      PROVE  quic'[x][d] = quic[x][d] \/ quic'[x][d].sv = "off"
  <2>1. [FreeQuic EXCEPT !.cl = "dial"].sv = "off"
    BY DEF FreeQuic
  <2> DEFINE D == Shortfall(c)
             new == [FreeQuic EXCEPT !.cl = "dial"]
  <2>2. CASE UNCHANGED quic
    BY <2>2
  <2>3. CASE quic' = [quic EXCEPT ![c] = [e \in Slots |-> IF e \in D THEN new ELSE quic[c][e]]]
    <3> HIDE DEF D, new
    <3>1. quic'[x][d] = IF x = c /\ d \in D THEN new ELSE quic[x][d]
      BY <2>3 DEF DirInv, Counted
    <3> QED BY <2>1, <3>1 DEF new
  <2> QED BY <2>2, <2>3 DEF DirOffer, DirInv, Counted
<1>4. Installed'
  <2> SUFFICES ASSUME NEW x \in Clients, NEW d \in Slots
               PROVE  /\ quic'[x][d].sv = "checked" => reg = x \/ quic'[x][d].late
                      /\ quic'[x][d].sv = "in" => quic'[x][d].at = x \/ quic'[x][d].late
    BY <1>2 DEF Installed
  <2>1. CASE quic'[x][d] = quic[x][d]
    BY <2>1 DEF DirInv, Installed
  <2>2. CASE quic'[x][d].sv = "off"
    BY <2>2
  <2> QED BY <1>3, <2>1, <2>2
<1>5. Entered' /\ Visits'
  BY <1>2 DEF DirInv, Entered, Visits, DirectOwner, Direct
<1> QED BY <1>1, <1>4, <1>5 DEF DirInv

\* The dial, the check of its token, the installation and the end of a direct carrier.
LEMMA DirSlot ==
    ASSUME DirInv, OwnInv', NEW c \in Clients, NEW d \in Slots,
           DirCheck(c, d) \/ DirFails(c, d) \/ DirUp(c, d) \/ DirInstall(c, d) \/ DirEnds(c, d)
           \/ DirRemove(c, d)
    PROVE  DirInv'
<1>0. /\ quic[c][d] \in QuicStates /\ quic \in [Clients -> [Slots -> QuicStates]]
      /\ quic[c][d].sv = "checked" => reg = c \/ quic[c][d].late
      /\ quic[c][d].sv = "in" => quic[c][d].at = c \/ quic[c][d].late
  BY DEF DirInv, Counted, Installed
<1>1. UNCHANGED <<kind, srv, reg, nonce, vis>>
  BY DEF DirCheck, DirFails, DirUp, DirInstall, DirEnds, DirRemove, end_vars
<1>2. CASE DirCheck(c, d)
  <2> DEFINE r == [quic[c][d] EXCEPT !.sv = "checked"]
  <2>1. r \in QuicStates /\ r.sv = "checked"
    BY <1>0 DEF QuicStates
  <2>2. quic' = [quic EXCEPT ![c][d] = r] /\ reg = c
    BY <1>0, <1>2 DEF DirCheck, DirInv, Entered
  <2>3. Counted'
    BY <1>2, CountSlot DEF DirInv, Entered
  <2> HIDE DEF r
  <2> QED BY <1>1, <2>1, <2>2, <2>3, InstalledSlot
<1>3. CASE DirFails(c, d) \/ DirEnds(c, d)
  <2> DEFINE r == [quic[c][d] EXCEPT !.cl = "off"]
  <2>1. r \in QuicStates /\ r.sv = quic[c][d].sv /\ r.at = quic[c][d].at /\ r.late = quic[c][d].late
    BY <1>0 DEF QuicStates
  <2>2. quic' = [quic EXCEPT ![c][d] = r]
    BY <1>0, <1>3 DEF DirFails, DirEnds, Release
  <2>3. Counted'
    BY <1>3, CountRelease DEF DirInv, DirFails, DirEnds
  <2> HIDE DEF r
  <2> QED BY <1>0, <1>1, <2>1, <2>2, <2>3, InstalledSlot
<1>4. CASE DirUp(c, d)
  <2> DEFINE r == [quic[c][d] EXCEPT !.cl = "up"]
  <2>1. r \in QuicStates /\ r.sv = quic[c][d].sv /\ r.at = quic[c][d].at /\ r.late = quic[c][d].late
    BY <1>0 DEF QuicStates
  <2>2. quic' = [quic EXCEPT ![c][d] = r]
    BY <1>0, <1>4 DEF DirUp
  <2>3. Counted'
    BY <1>4, CountSlot DEF DirInv, Entered
  <2> HIDE DEF r
  <2> QED BY <1>0, <1>1, <2>1, <2>2, <2>3, InstalledSlot
<1>5. CASE DirInstall(c, d)
  <2> DEFINE fits == reg # "none" /\ Cardinality(InPool(reg)) < DirectCap
             r == IF fits THEN [quic[c][d] EXCEPT !.sv = "in", !.at = reg]
                  ELSE [quic[c][d] EXCEPT !.sv = "off", !.late = FALSE]
  <2>0. reg \in Clients \cup {"none"}
    BY DEF DirInv, Entered
  <2>1. /\ r \in QuicStates
        /\ (r.sv = "in" /\ r.at = reg /\ r.late = quic[c][d].late) \/ r.sv = "off"
    BY <1>0, <2>0 DEF QuicStates
  <2>2. quic' = [quic EXCEPT ![c][d] = r] /\ quic[c][d].sv = "checked"
    BY <1>0, <1>5 DEF DirInstall
  <2>3. Counted'
    BY <1>5, CountSlot DEF DirInv, Entered
  <2> HIDE DEF r
  <2> QED BY <1>0, <1>1, <2>1, <2>2, <2>3, InstalledSlot
<1>6. CASE DirRemove(c, d)
  <2>1. /\ quic' \in [Clients -> [Slots -> QuicStates]] /\ UNCHANGED dlive
        /\ \A x \in Clients, e \in Slots :
             /\ quic'[x][e].cl = "off" <=> quic[x][e].cl = "off"
             /\ quic'[x][e] = quic[x][e] \/ quic'[x][e].sv \in {"off", "out"}
    BY <1>6, Removed DEF DirInv
  <2>2. Counted'
    BY <2>1, CountSame DEF DirInv
  <2>3. Installed'
    BY <1>1, <2>1 DEF DirInv, Installed
  <2>4. Entered' /\ Visits'
    BY <1>1 DEF DirInv, Entered, Visits, DirectOwner, Direct
  <2> QED BY <2>2, <2>3, <2>4 DEF DirInv
<1> QED BY <1>2, <1>3, <1>4, <1>5, <1>6

\* A visitor.
LEMMA DirVisit ==
    ASSUME DirInv, OwnInv', NEW v \in Visitors, VisStep(v)
    PROVE  DirInv'
<1>1. UNCHANGED <<kind, srv, bound, reg, nonce, quic, dlive>>
  BY DEF VisStep, VisAccept, VisDirect, VisRelay, VisEnds, end_vars, quic_vars, dir_vars
<1>2. Counted' /\ Entered' /\ Installed'
  BY <1>1, CountSame DEF DirInv, Counted, Entered, Installed, Direct
<1>0. NoVisit \in VisitStates /\ NoVisit.st = "none"
  BY DEF NoVisit, VisitStates
<1>3. CASE VisAccept(v)
  <2>1. PICK c \in Clients :
           /\ srv[c] = "serve"
           /\ vis' = [vis EXCEPT ![v] = IF Direct THEN [NoVisit EXCEPT !.st = "edge", !.of = c, !.entry = reg]
                                        ELSE NoVisit]
    BY <1>3 DEF VisAccept
  <2> DEFINE r == [NoVisit EXCEPT !.st = "edge", !.of = c, !.entry = reg]
  <2>2. r.st = "edge" /\ r.of = c /\ r.entry = reg
    BY DEF NoVisit
  <2>3. r \in VisitStates
    BY DEF NoVisit, VisitStates, DirInv, Entered
  <2>4. Direct => reg = c
    BY <2>1 DEF DirInv, OwnInv, OwnEntry
  <2> HIDE DEF r
  <2>5. vis' = [vis EXCEPT ![v] = IF Direct THEN r ELSE NoVisit]
    BY <2>1 DEF r
  <2>6. Visits'
    BY <1>0, <2>2, <2>3, <2>4, <2>5 DEF DirInv, Visits, DirectOwner
  <2> QED BY <1>2, <2>6 DEF DirInv
<1>4. CASE VisDirect(v)
  <2>1. PICK x \in InPool(vis[v].entry) :
           vis' = [vis EXCEPT ![v].st = "direct", ![v].to = x[1], ![v].late = quic[x[1]][x[2]].late]
    BY <1>4 DEF VisDirect
  <2>2. PICK c \in Clients, d \in Slots :
           x[1] = c /\ x[2] = d /\ quic[c][d].sv = "in" /\ quic[c][d].at = vis[v].entry
    BY DEF InPool
  <2>3. /\ vis[v].st = "edge" /\ vis[v].entry = vis[v].of /\ vis[v] \in VisitStates
        /\ vis \in [Visitors -> VisitStates]
    BY <1>4 DEF VisDirect, DirInv, Visits
  <2>4. quic[c][d].at = c \/ quic[c][d].late
    BY <2>2 DEF DirInv, Installed
  <2>5. quic[c][d].late \in BOOLEAN
    BY DEF DirInv, Counted, QuicStates
  <2> DEFINE r == [vis[v] EXCEPT !.st = "direct", !.to = c, !.late = quic[c][d].late]
  <2>6. /\ r \in VisitStates /\ r.st = "direct" /\ r.to = c /\ r.of = vis[v].of
        /\ r.late = quic[c][d].late
    BY <2>3, <2>5 DEF VisitStates
  <2>7. vis' = [vis EXCEPT ![v] = r]
    BY <2>1, <2>2, <2>3
  <2> HIDE DEF r
  <2>8. r.to = r.of \/ r.late
    BY <2>2, <2>3, <2>4, <2>6
  <2>9. Visits'
    BY <2>3, <2>6, <2>7, <2>8 DEF DirInv, Visits, DirectOwner
  <2> QED BY <1>2, <2>9 DEF DirInv
<1>5. CASE VisRelay(v) \/ VisEnds(v)
  <2>1. vis' = [vis EXCEPT ![v] = NoVisit]
    BY <1>5 DEF VisRelay, VisEnds
  <2>2. Visits'
    BY <1>0, <2>1 DEF DirInv, Visits, DirectOwner
  <2> QED BY <1>2, <2>2 DEF DirInv
<1> QED BY <1>3, <1>4, <1>5 DEF VisStep

\* Every step of the specification.
LEMMA DirInvStep == DirInv /\ [Next]_vars => DirInv'
<1> SUFFICES ASSUME DirInv, [Next]_vars PROVE DirInv'
  OBVIOUS
<1>0. OwnInv'
  BY OwnStep DEF DirInv
<1>1. CASE UNCHANGED vars
  BY <1>0, <1>1, DirUntouched DEF vars, end_vars, quic_vars, dir_vars
<1>2. ASSUME NEW c \in Clients, SrvStep(c) PROVE DirInv'
  <2>0. srv \in [Clients -> {"new", "hello", "token", "serve", "left", "gone"}]
    BY DEF DirInv, OwnInv, Owner
  <2>1. CASE SrvRegister(c)
    BY <1>0, <2>1, DirRegister
  <2>2. CASE SrvLeave(c)
    BY <1>0, <2>2, DirLeave
  <2>3. CASE SrvBind(c) \/ SrvToken(c) \/ SrvOffer(c) \/ SrvPush(c) \/ SrvClosePort(c)
    <3>1. UNCHANGED <<kind, reg, nonce, quic, dlive, vis>>
      BY <2>3 DEF SrvBind, SrvToken, SrvOffer, SrvPush, SrvClosePort, quic_vars, dir_vars
    <3>2. \A x \in Clients : srv[x] = "serve" => srv'[x] = "serve"
      BY <2>0, <2>3 DEF SrvBind, SrvToken, SrvOffer, SrvPush, SrvClosePort, end_vars
    <3> QED BY <1>0, <3>1, <3>2, DirUntouched
  <2> QED BY <1>2, <2>1, <2>2, <2>3 DEF SrvStep
<1>3. ASSUME NEW c \in Clients, CliStep(c) \/ RedialTick(c) \/ RedialBatch(c) PROVE DirInv'
  BY <1>0, <1>3, DirUntouched DEF CliStep, CliStart, CliOpen, CliListen, CliEnds, RedialTick, RedialLoad,
     RedialSwap, RedialBatch, RedialDial, RedialDone, end_vars, quic_vars, dir_vars
<1>4. ASSUME NEW c \in Clients, DirStep(c) PROVE DirInv'
  BY <1>0, <1>4, DirOffers, DirSlot DEF DirStep
<1>5. ASSUME NEW c \in Clients, LoopStep(c) \/ BreakMain(c) PROVE DirInv'
  BY <1>0, <1>5, DirUntouched DEF LoopStep, LoopRenew, LoopUp, LoopSleep, BreakMain, end_vars, quic_vars,
     dir_vars
<1>6. ASSUME NEW k \in Conns, CarrierStep(k) \/ PumpUnheard(k) \/ BreakConn(k) PROVE DirInv'
  BY <1>0, <1>6, DirUntouched DEF CarrierStep, SrvJoin, SrvCarrierEnds, PumpEnds, PumpUnheard, PumpStops,
     BreakConn, end_vars, quic_vars, dir_vars
<1>7. ASSUME NEW v \in Visitors, VisStep(v) PROVE DirInv'
  BY <1>0, <1>7, DirVisit
<1> QED BY <1>1, <1>2, <1>3, <1>4, <1>5, <1>6, <1>7 DEF Next

\* A client never has more direct carriers established or being established than
\* direct_udp_carriers, for any target, any number of slots and any sequence of offers,
\* drops and renewals.
THEOREM CarriersBounded == Spec => []DirectBounded
<1>1. DirInv => DirectBounded
  BY SizeAssumption DEF DirInv, Counted, DirectBounded, InDial
<1> QED BY <1>1, DirInit, DirInvStep, PTL DEF Spec

\* A visitor on the direct path reaches the client whose port it came to, unless that
\* connection's tunnel was deregistered between its token check and its installation, for
\* any number of clients, visitors and connections.
THEOREM VisitorsReachOwner == Spec => []DirectOwner
<1>1. DirInv => DirectOwner
  BY DEF DirInv, Visits
<1> QED BY <1>1, DirInit, DirInvStep, PTL DEF Spec

-----------------------------------------------------------------------------
(* The extra carriers of a client are counted, and their dials are bounded. *)

ConnStates == [of : Clients \cup {"none"}, net : BOOLEAN, pump : {"off", "held", "run"},
               task : {"off", "asked", "held"}]
Held(c) == {k \in Conns : con[k].of = c /\ con[k].pump = "held"}
Batch(c) == IF inflight[c] THEN need[c] ELSE 0

DialTyped ==
    /\ con \in [Conns -> ConnStates] /\ \A k \in Conns : con[k].pump # "off" => con[k].of \in Clients
    /\ live \in [Clients -> Nat] /\ need \in [Clients -> Nat] /\ loaded \in [Clients -> Int]
    /\ inflight \in [Clients -> BOOLEAN] /\ cli \in [Clients -> {"new", "open", "listen", "gone"}]

\* live counts the pumps; what a tick has read is at most a whole batch behind it.
Dialed(c) ==
    /\ live[c] = Cardinality(Pumps(c)) /\ need[c] <= Extra
    /\ live[c] + Batch(c) <= 2 * Extra
    /\ loaded[c] >= 0 => loaded[c] < Extra /\ live[c] + Batch(c) <= loaded[c] + Extra
    /\ cli[c] \in {"new", "open"} => Pumps(c) = {} /\ ~inflight[c] /\ loaded[c] = -1
    /\ cli[c] = "new" => Held(c) = {}
    /\ cli[c] = "open" => Cardinality(Held(c)) + need[c] <= Extra

DialInv == DialTyped /\ \A c \in Clients : Dialed(c)

\* The connections are finitely many.
LEMMA ConnsFinite == \A S \in SUBSET Conns : IsFiniteSet(S) /\ Cardinality(S) \in Nat
<1>1. IsFiniteSet(Conns)
  BY FS_Interval, SizeAssumption DEF Conns
<1> QED BY <1>1, FS_Subset, FS_CardinalityType

\* Its numbers.
LEMMA Numbers ==
    ASSUME DialTyped, NEW c \in Clients
    PROVE  /\ live[c] \in Nat /\ need[c] \in Nat /\ loaded[c] \in Int /\ inflight[c] \in BOOLEAN
           /\ Extra \in Nat /\ Extra > 0 /\ Batch(c) \in Nat /\ Batch(c) <= need[c]
<1>1. live[c] \in Nat /\ need[c] \in Nat /\ loaded[c] \in Int /\ inflight[c] \in BOOLEAN
  BY DEF DialTyped
<1>2. Extra \in Nat /\ Extra > 0
  BY SizeAssumption
<1> QED BY <1>1, <1>2 DEF Batch

\* Nothing is dialed at the start.
LEMMA DialInit == Init => DialInv
<1> SUFFICES ASSUME Init PROVE DialInv
  OBVIOUS
<1>1. FreeConn \in ConnStates /\ FreeConn.pump = "off"
  BY DEF FreeConn, ConnStates
<1>2. DialTyped
  BY <1>1 DEF Init, DialTyped
<1>3. \A c \in Clients : Pumps(c) = {} /\ Held(c) = {}
  BY <1>1 DEF Init, Pumps, Held
<1>4. Cardinality({}) = 0
  BY FS_EmptySet
<1>5. ASSUME NEW c \in Clients PROVE Dialed(c)
  <2>1. live[c] = 0 /\ need[c] = 0 /\ loaded[c] = -1 /\ ~inflight[c] /\ cli[c] = "new"
    BY DEF Init
  <2>2. Batch(c) = 0
    BY <2>1 DEF Batch
  <2>3. Extra \in Nat
    BY SizeAssumption
  <2> QED BY <1>3, <1>4, <2>1, <2>2, <2>3 DEF Dialed
<1> QED BY <1>2, <1>5 DEF DialInv

\* A client whose counters and pumps are left alone; it may end.
Same(x) ==
    /\ live'[x] = live[x] /\ need'[x] = need[x] /\ loaded'[x] = loaded[x] /\ inflight'[x] = inflight[x]
    /\ cli'[x] = cli[x] \/ cli'[x] = "gone"
    /\ Pumps(x)' = Pumps(x) /\ Held(x)' = Held(x)

LEMMA DialSame ==
    ASSUME NEW x \in Clients, Dialed(x), Same(x)
    PROVE  Dialed(x)'
<1>1. Batch(x)' = Batch(x)
  BY DEF Batch, Same
<1> QED BY <1>1 DEF Dialed, Same

\* One client moves.
LEMMA DialOne ==
    ASSUME DialInv, NEW c \in Clients, DialTyped', Dialed(c)', \A x \in Clients \ {c} : Same(x)
    PROVE  DialInv'
<1>1. \A x \in Clients : Dialed(x)
  BY DEF DialInv
<1>2. ASSUME NEW x \in Clients PROVE Dialed(x)'
  <2>1. CASE x = c
    BY <2>1
  <2>2. CASE x # c
    <3>1. Same(x)
      BY <2>2
    <3> QED BY <1>1, <3>1, DialSame
  <2> QED BY <2>1, <2>2
<1> QED BY <1>2 DEF DialInv

\* One connection gets another value.
Puts(k, r) == con' = [con EXCEPT ![k] = r]
Moves(k, r) ==
    /\ con' \in [Conns -> ConnStates]
    /\ \A j \in Conns : con'[j] = IF j = k THEN r ELSE con[j]
    /\ \A x : /\ Pumps(x)' = (IF r.of = x /\ r.pump = "run" THEN Pumps(x) \cup {k} ELSE Pumps(x) \ {k})
              /\ Held(x)' = (IF r.of = x /\ r.pump = "held" THEN Held(x) \cup {k} ELSE Held(x) \ {k})

LEMMA OneConn ==
    ASSUME DialTyped, NEW k \in Conns, NEW r \in ConnStates, Puts(k, r)
    PROVE  Moves(k, r)
<1>1. con' \in [Conns -> ConnStates] /\ \A j \in Conns : con'[j] = IF j = k THEN r ELSE con[j]
  BY DEF DialTyped, Puts
<1>2. \A x : /\ Pumps(x)' = (IF r.of = x /\ r.pump = "run" THEN Pumps(x) \cup {k} ELSE Pumps(x) \ {k})
             /\ Held(x)' = (IF r.of = x /\ r.pump = "held" THEN Held(x) \cup {k} ELSE Held(x) \ {k})
  BY <1>1 DEF Pumps, Held
<1> QED BY <1>1, <1>2 DEF Moves

\* A connection breaks, joins or ends at the server: its pump is as it was.
LEMMA DialServer ==
    ASSUME DialInv, NEW k \in Conns, NEW r \in ConnStates, Puts(k, r),
           \/ r.of = con[k].of /\ r.pump = con[k].pump
           \/ r.pump = "off" /\ con[k].pump = "off",
           UNCHANGED <<cli, dial_vars>>
    PROVE  DialInv'
<1>0. DialTyped
  BY DEF DialInv
<1>1. Moves(k, r)
  BY <1>0, OneConn
<1>2. \A x : Pumps(x)' = Pumps(x) /\ Held(x)' = Held(x)
  BY <1>1 DEF Pumps, Held, Moves
<1>3. DialTyped'
  BY <1>0, <1>1 DEF DialTyped, dial_vars, Moves
<1>4. \A x \in Clients : Same(x)
  BY <1>2 DEF Same, dial_vars
<1>5. \A x \in Clients : Dialed(x)'
  BY <1>4, DialSame DEF DialInv
<1> QED BY <1>3, <1>5 DEF DialInv

\* What a connection is when its other end has ended.
LEMMA ReapedIs ==
    ASSUME NEW r \in ConnStates
    PROVE  Reaped(r) \in ConnStates /\ (Reaped(r) = r \/ (Reaped(r).pump = "off" /\ r.pump = "off"))
BY DEF Reaped, FreeConn, ConnStates

\* serve_carrier, and the network.
LEMMA DialCarrier ==
    ASSUME DialInv, NEW k \in Conns, SrvJoin(k) \/ SrvCarrierEnds(k) \/ BreakConn(k)
    PROVE  DialInv'
<1>0. con[k] \in ConnStates /\ con \in [Conns -> ConnStates]
  BY DEF DialInv, DialTyped
<1>1. UNCHANGED <<cli, dial_vars>>
  BY DEF SrvJoin, SrvCarrierEnds, BreakConn, end_vars
<1> DEFINE a == [con[k] EXCEPT !.task = "held"]
           b == [con[k] EXCEPT !.task = "off", !.net = FALSE]
           d == [con[k] EXCEPT !.task = "off"]
           e == [con[k] EXCEPT !.net = FALSE]
<1>2. /\ a \in ConnStates /\ a.of = con[k].of /\ a.pump = con[k].pump
      /\ b \in ConnStates /\ b.of = con[k].of /\ b.pump = con[k].pump
      /\ d \in ConnStates /\ d.of = con[k].of /\ d.pump = con[k].pump
      /\ e \in ConnStates /\ e.of = con[k].of /\ e.pump = con[k].pump
  BY <1>0 DEF ConnStates
<1>3. Puts(k, a) \/ Puts(k, Reaped(b)) \/ Puts(k, Reaped(d)) \/ Puts(k, e)
  BY <1>0 DEF SrvJoin, SrvCarrierEnds, BreakConn, Puts
<1> HIDE DEF a, b, d, e
<1>4. /\ Reaped(b) \in ConnStates /\ (Reaped(b) = b \/ (Reaped(b).pump = "off" /\ b.pump = "off"))
      /\ Reaped(d) \in ConnStates /\ (Reaped(d) = d \/ (Reaped(d).pump = "off" /\ d.pump = "off"))
  BY <1>2, ReapedIs
<1>5. PICK r \in ConnStates : /\ Puts(k, r)
                              /\ \/ r.of = con[k].of /\ r.pump = con[k].pump
                                 \/ r.pump = "off" /\ con[k].pump = "off"
  BY <1>2, <1>3, <1>4
<1> QED BY <1>1, <1>5, DialServer

\* The end of a pump is counted.
LEMMA DialPump ==
    ASSUME DialInv, NEW k \in Conns, PumpEnds(k) \/ PumpUnheard(k)
    PROVE  DialInv'
<1>0. con[k] \in ConnStates /\ con \in [Conns -> ConnStates] /\ DialTyped /\ con[k].pump = "run"
  BY DEF DialInv, DialTyped, PumpEnds, PumpUnheard
<1>1. con[k].of \in Clients
  BY <1>0 DEF DialTyped
<1>2. PICK c \in Clients : con[k].of = c
  BY <1>1
<1>3. PICK r : r = Reaped([con[k] EXCEPT !.pump = "off"])
  OBVIOUS
<1>4. [con[k] EXCEPT !.pump = "off"] \in ConnStates /\ [con[k] EXCEPT !.pump = "off"].pump = "off"
  BY <1>0 DEF ConnStates
<1>5. r \in ConnStates /\ r.pump = "off"
  BY <1>3, <1>4, ReapedIs
<1>6. /\ Puts(k, r) /\ live' = [live EXCEPT ![c] = live[c] - 1]
      /\ UNCHANGED <<cli, loaded, need, inflight>>
  BY <1>0, <1>2, <1>3 DEF PumpEnds, PumpUnheard, PumpStops, end_vars, Puts
<1>7. Moves(k, r)
  BY <1>0, <1>5, <1>6, OneConn
<1>8. \A x : Pumps(x)' = Pumps(x) \ {k} /\ Held(x)' = Held(x)
  BY <1>0, <1>5, <1>7 DEF Held, Moves
<1>9. k \in Pumps(c) /\ (\A x \in Clients : x # c => k \notin Pumps(x)) /\ Pumps(c) \in SUBSET Conns
  BY <1>0, <1>2 DEF Pumps
<1>10. /\ Cardinality(Pumps(c)') = Cardinality(Pumps(c)) - 1
       /\ Cardinality(Pumps(c)) \in Nat /\ Cardinality(Pumps(c)') \in Nat
  BY <1>8, <1>9, ConnsFinite, FS_RemoveElement
<1>11. Dialed(c) /\ live[c] = Cardinality(Pumps(c)) /\ live[c] \in Nat
  BY <1>0 DEF DialInv, Dialed, DialTyped
<1>12. live'[c] = live[c] - 1 /\ live' \in [Clients -> Nat] /\ \A x \in Clients : x # c => live'[x] = live[x]
  BY <1>0, <1>6, <1>10, <1>11 DEF DialTyped
<1>13. DialTyped'
  BY <1>0, <1>5, <1>6, <1>7, <1>12 DEF DialTyped, Moves
<1>14. \A x \in Clients \ {c} : Same(x)
  BY <1>6, <1>8, <1>9, <1>12 DEF Same
<1>15. Dialed(c)'
  <2>1. /\ live[c] \in Nat /\ need[c] \in Nat /\ loaded[c] \in Int /\ inflight[c] \in BOOLEAN
        /\ Extra \in Nat /\ Extra > 0 /\ Batch(c) \in Nat /\ Batch(c) <= need[c]
    BY <1>0, Numbers
  <2>2. Batch(c)' = Batch(c)
    BY <1>6 DEF Batch
  <2>3. cli[c] \notin {"new", "open"}
    BY <1>9, <1>11 DEF Dialed
  <2>4. cli'[c] = cli[c] /\ loaded'[c] = loaded[c] /\ need'[c] = need[c] /\ inflight'[c] = inflight[c]
    BY <1>6
  <2> QED BY <1>10, <1>11, <1>12, <2>1, <2>2, <2>3, <2>4 DEF Dialed
<1> QED BY <1>13, <1>14, <1>15, DialOne

\* A new connection of a client.
LEMMA DialedConn ==
    ASSUME DialTyped, NEW c \in Clients, NEW p \in {"held", "run"}, Dial(c, p)
    PROVE  /\ con' \in [Conns -> ConnStates] /\ \A j \in Conns : con'[j].pump # "off" => con'[j].of \in Clients
           /\ \A x \in Clients \ {c} : Pumps(x)' = Pumps(x) /\ Held(x)' = Held(x)
           /\ Cardinality(Pumps(c)') = Cardinality(Pumps(c)) + (IF p = "run" THEN 1 ELSE 0)
           /\ Cardinality(Held(c)') = Cardinality(Held(c)) + (IF p = "held" THEN 1 ELSE 0)
           /\ p = "held" => Pumps(c)' = Pumps(c)
<1>1. PICK r : r = [of |-> c, net |-> TRUE, pump |-> p, task |-> "asked"]
  OBVIOUS
<1>2. r \in ConnStates /\ r.of = c /\ r.pump = p
  BY <1>1 DEF ConnStates
<1>3. PICK k \in Conns : ~InUse(k) /\ Puts(k, r)
  BY <1>1 DEF Dial, Puts
<1>4. con[k].pump = "off"
  BY <1>3 DEF InUse, FreeConn
<1>5. Moves(k, r)
  BY <1>2, <1>3, OneConn
<1>6. \A x : k \notin Pumps(x) /\ k \notin Held(x)
  BY <1>4 DEF Pumps, Held
<1>7. con' \in [Conns -> ConnStates] /\ \A j \in Conns : con'[j].pump # "off" => con'[j].of \in Clients
  BY <1>2, <1>5 DEF Moves, DialTyped
<1>8. \A x \in Clients \ {c} : Pumps(x)' = Pumps(x) /\ Held(x)' = Held(x)
  BY <1>2, <1>5, <1>6 DEF Moves
<1>9. /\ Pumps(c)' = IF p = "run" THEN Pumps(c) \cup {k} ELSE Pumps(c)
      /\ Held(c)' = IF p = "held" THEN Held(c) \cup {k} ELSE Held(c)
  BY <1>2, <1>5, <1>6 DEF Moves
<1>10. /\ IsFiniteSet(Pumps(c)) /\ Cardinality(Pumps(c)) \in Nat
       /\ IsFiniteSet(Held(c)) /\ Cardinality(Held(c)) \in Nat
  BY ConnsFinite DEF Pumps, Held
<1>11. /\ Cardinality(Pumps(c) \cup {k}) = Cardinality(Pumps(c)) + 1
       /\ Cardinality(Held(c) \cup {k}) = Cardinality(Held(c)) + 1
  BY <1>6, <1>10, FS_AddElement
<1>12. CASE p = "run"
  BY <1>7, <1>8, <1>9, <1>10, <1>11, <1>12
<1>13. CASE p = "held"
  BY <1>7, <1>8, <1>9, <1>10, <1>11, <1>13
<1> QED BY <1>12, <1>13

\* Client::new and the end of a client.
LEMMA DialStart ==
    ASSUME DialInv, NEW c \in Clients, CliStart(c) \/ CliEnds(c) \/ SrvBind(c)
    PROVE  DialInv'
<1>0. DialTyped /\ Dialed(c)
  BY DEF DialInv
<1>1. con' = con /\ UNCHANGED <<live, inflight>>
  BY DEF CliStart, CliEnds, SrvBind, pool_vars, dial_vars
<1>2. \A x : Pumps(x)' = Pumps(x) /\ Held(x)' = Held(x)
  BY <1>1 DEF Pumps, Held
<1>3. /\ live[c] \in Nat /\ need[c] \in Nat /\ loaded[c] \in Int /\ inflight[c] \in BOOLEAN
      /\ Extra \in Nat /\ Extra > 0 /\ Batch(c) \in Nat /\ Batch(c) <= need[c]
  BY <1>0, Numbers
<1>4. DialTyped' /\ \A x \in Clients \ {c} : Same(x)
  <2>1. /\ need' \in [Clients -> Nat] /\ loaded' \in [Clients -> Int]
        /\ cli' \in [Clients -> {"new", "open", "listen", "gone"}]
        /\ \A x \in Clients \ {c} : need'[x] = need[x] /\ loaded'[x] = loaded[x] /\ cli'[x] = cli[x]
    BY <1>0, <1>3 DEF DialTyped, CliStart, CliEnds, SrvBind, dial_vars
  <2> QED BY <1>0, <1>1, <1>2, <2>1 DEF DialTyped, Same
<1>5. Dialed(c)'
  <2>1. CASE CliStart(c)
    <3>1. /\ cli[c] = "new" /\ need'[c] <= Extra /\ need'[c] \in Nat /\ loaded'[c] = loaded[c]
          /\ live'[c] = live[c] /\ inflight'[c] = inflight[c] /\ cli'[c] \in {"open", "listen"}
      BY <1>0, <1>3, <2>1 DEF CliStart, DialTyped
    <3>2. ~inflight[c] /\ Pumps(c) = {} /\ Held(c) = {} /\ loaded[c] = -1 /\ live[c] = Cardinality({})
      BY <1>0, <3>1 DEF Dialed
    <3>3. Cardinality({}) = 0
      BY FS_EmptySet
    <3>4. Batch(c)' = 0
      BY <3>1, <3>2 DEF Batch
    <3>5. Pumps(c)' = {} /\ Held(c)' = {} /\ Cardinality(Pumps(c)') = 0 /\ Cardinality(Held(c)') = 0
      BY <1>2, <3>2, <3>3
    <3>6. live'[c] = 0 /\ loaded'[c] = -1 /\ ~inflight'[c]
      BY <3>1, <3>2, <3>3
    <3> QED BY <1>3, <3>1, <3>4, <3>5, <3>6 DEF Dialed
  <2>2. CASE CliEnds(c)
    <3>1. /\ cli'[c] = "gone" /\ need'[c] = need[c] /\ loaded'[c] = -1
          /\ live'[c] = live[c] /\ inflight'[c] = inflight[c]
      BY <1>0, <2>2 DEF CliEnds, DialTyped
    <3>2. Batch(c)' = Batch(c)
      BY <3>1 DEF Batch
    <3> QED BY <1>0, <1>2, <1>3, <3>1, <3>2 DEF Dialed
  <2>3. CASE SrvBind(c)
    <3>1. Same(c)
      BY <1>0, <1>2, <2>3 DEF SrvBind, DialTyped, Same, dial_vars
    <3> QED BY <1>0, <3>1, DialSame
  <2> QED BY <2>1, <2>2, <2>3
<1> QED BY <1>4, <1>5, DialOne

\* The carriers Client::new opens.
LEMMA DialOpen ==
    ASSUME DialInv, NEW c \in Clients, CliOpen(c)
    PROVE  DialInv'
<1>0. DialTyped /\ Dialed(c) /\ cli[c] = "open" /\ need[c] > 0
  BY DEF DialInv, CliOpen
<1>1. /\ live[c] \in Nat /\ need[c] \in Nat /\ loaded[c] \in Int /\ inflight[c] \in BOOLEAN
      /\ Extra \in Nat /\ Extra > 0 /\ Batch(c) \in Nat /\ Batch(c) <= need[c]
  BY <1>0, Numbers
<1>2. need' = [need EXCEPT ![c] = need[c] - 1] /\ UNCHANGED <<cli, live, loaded, inflight>>
  BY DEF CliOpen, end_vars
<1>3. /\ con' \in [Conns -> ConnStates] /\ \A j \in Conns : con'[j].pump # "off" => con'[j].of \in Clients
      /\ \A x \in Clients \ {c} : Pumps(x)' = Pumps(x) /\ Held(x)' = Held(x)
      /\ Pumps(c)' = Pumps(c) /\ Cardinality(Held(c)') <= Cardinality(Held(c)) + 1
      /\ Cardinality(Held(c)) \in Nat /\ Cardinality(Held(c)') \in Nat
  <2>0. Cardinality(Held(c)) \in Nat
    BY ConnsFinite DEF Held
  <2>1. CASE Dial(c, "held")
    <3>1. "held" \in {"held", "run"}
      OBVIOUS
    <3>2. /\ con' \in [Conns -> ConnStates] /\ \A j \in Conns : con'[j].pump # "off" => con'[j].of \in Clients
          /\ \A x \in Clients \ {c} : Pumps(x)' = Pumps(x) /\ Held(x)' = Held(x)
          /\ Cardinality(Pumps(c)') = Cardinality(Pumps(c)) + (IF "held" = "run" THEN 1 ELSE 0)
          /\ Cardinality(Held(c)') = Cardinality(Held(c)) + (IF "held" = "held" THEN 1 ELSE 0)
          /\ "held" = "held" => Pumps(c)' = Pumps(c)
      BY <1>0, <2>1, <3>1, DialedConn, Zenon
    <3> QED BY <2>0, <3>2
  <2>2. CASE con' = con
    <3>1. \A x : Pumps(x)' = Pumps(x) /\ Held(x)' = Held(x)
      BY <2>2 DEF Pumps, Held
    <3> QED BY <1>0, <2>0, <2>2, <3>1 DEF DialTyped
  <2> QED BY <2>1, <2>2 DEF CliOpen
<1>4. need'[c] = need[c] - 1 /\ need' \in [Clients -> Nat] /\ \A x \in Clients \ {c} : need'[x] = need[x]
  BY <1>0, <1>1, <1>2 DEF DialTyped
<1>5. DialTyped'
  BY <1>0, <1>2, <1>3, <1>4 DEF DialTyped
<1>6. \A x \in Clients \ {c} : Same(x)
  BY <1>2, <1>3, <1>4 DEF Same
<1>7. Dialed(c)'
  <2>1. ~inflight[c] /\ loaded[c] = -1 /\ Cardinality(Held(c)) + need[c] <= Extra
    BY <1>0 DEF Dialed
  <2>2. Batch(c)' = 0 /\ Batch(c) = 0
    BY <1>2, <2>1 DEF Batch
  <2>3. cli'[c] = cli[c] /\ loaded'[c] = loaded[c] /\ live'[c] = live[c] /\ inflight'[c] = inflight[c]
    BY <1>2
  <2> QED BY <1>0, <1>1, <1>3, <1>4, <2>1, <2>2, <2>3 DEF Dialed
<1> QED BY <1>5, <1>6, <1>7, DialOne

\* listen counts what is open.
LEMMA DialListen ==
    ASSUME DialInv, NEW c \in Clients, CliListen(c)
    PROVE  DialInv'
<1>0. DialTyped /\ Dialed(c) /\ cli[c] = "open" /\ need[c] = 0
  BY DEF DialInv, CliListen
<1>1. /\ live[c] \in Nat /\ need[c] \in Nat /\ loaded[c] \in Int /\ inflight[c] \in BOOLEAN
      /\ Extra \in Nat /\ Extra > 0 /\ Batch(c) \in Nat /\ Batch(c) <= need[c]
  BY <1>0, Numbers
<1>2. /\ live' = [live EXCEPT ![c] = Cardinality(Held(c))]
      /\ con' = [k \in Conns |-> IF k \in Held(c) THEN [con[k] EXCEPT !.pump = "run"] ELSE con[k]]
      /\ cli' = [cli EXCEPT ![c] = "listen"] /\ UNCHANGED <<need, loaded, inflight>>
  BY DEF CliListen, Held
<1>3. Cardinality(Held(c)) \in Nat /\ Cardinality(Held(c)) <= Extra
  BY <1>0, <1>1, ConnsFinite DEF Held, Dialed
<1>4. ~inflight[c] /\ Pumps(c) = {} /\ loaded[c] = -1
  BY <1>0 DEF Dialed
<1>5. \A k \in Conns : /\ con[k] \in ConnStates
                       /\ con'[k] = IF k \in Held(c) THEN [con[k] EXCEPT !.pump = "run"] ELSE con[k]
  BY <1>0, <1>2 DEF DialTyped
<1>6. \A k \in Conns : /\ con'[k] \in ConnStates /\ con'[k].of = con[k].of
                       /\ con'[k].pump = IF k \in Held(c) THEN "run" ELSE con[k].pump
  BY <1>5 DEF ConnStates
<1>7. \A x \in Clients \ {c} : Pumps(x)' = Pumps(x) /\ Held(x)' = Held(x)
  BY <1>6 DEF Pumps, Held
<1>8. Pumps(c)' = Held(c)
  BY <1>4, <1>6 DEF Pumps, Held
<1>9. con' \in [Conns -> ConnStates]
  BY <1>2, <1>6
<1>10. \A k \in Conns : con'[k].pump # "off" => con'[k].of \in Clients
  BY <1>0, <1>6 DEF DialTyped, Held
<1>11. /\ live' \in [Clients -> Nat] /\ live'[c] = Cardinality(Held(c)) /\ cli'[c] = "listen"
       /\ cli' \in [Clients -> {"new", "open", "listen", "gone"}]
       /\ \A x \in Clients \ {c} : live'[x] = live[x] /\ cli'[x] = cli[x]
  BY <1>0, <1>2, <1>3 DEF DialTyped
<1>12. DialTyped'
  BY <1>0, <1>2, <1>9, <1>10, <1>11 DEF DialTyped
<1>13. \A x \in Clients \ {c} : Same(x)
  BY <1>2, <1>7, <1>11 DEF Same
<1>14. Dialed(c)'
  <2>1. Batch(c)' = 0
    BY <1>2, <1>4 DEF Batch
  <2>2. need'[c] = 0 /\ loaded'[c] = -1
    BY <1>0, <1>2, <1>4
  <2> QED BY <1>1, <1>3, <1>8, <1>11, <2>1, <2>2 DEF Dialed
<1> QED BY <1>12, <1>13, <1>14, DialOne

\* maybe_redial_carriers.
LEMMA DialAgain ==
    ASSUME DialInv, NEW c \in Clients, RedialLoad(c) \/ RedialSwap(c) \/ RedialDone(c)
    PROVE  DialInv'
<1>0. DialTyped /\ Dialed(c)
  BY DEF DialInv
<1>1. con' = con /\ UNCHANGED <<live, cli>>
  BY DEF RedialLoad, RedialSwap, RedialDone, pool_vars, end_vars
<1>2. \A x : Pumps(x)' = Pumps(x) /\ Held(x)' = Held(x)
  BY <1>1 DEF Pumps, Held
<1>3. /\ live[c] \in Nat /\ need[c] \in Nat /\ loaded[c] \in Int /\ inflight[c] \in BOOLEAN
      /\ Extra \in Nat /\ Extra > 0 /\ Batch(c) \in Nat /\ Batch(c) <= need[c]
  BY <1>0, Numbers
<1>4. loaded[c] >= 0 => Extra - loaded[c] \in Nat
  BY <1>0, <1>3 DEF Dialed
<1>5. DialTyped' /\ \A x \in Clients \ {c} : Same(x)
  <2>1. /\ need' \in [Clients -> Nat] /\ loaded' \in [Clients -> Int] /\ inflight' \in [Clients -> BOOLEAN]
        /\ \A x \in Clients \ {c} : need'[x] = need[x] /\ loaded'[x] = loaded[x] /\ inflight'[x] = inflight[x]
    <3>1. CASE RedialLoad(c)
      BY <1>0, <1>3, <3>1 DEF DialTyped, RedialLoad
    <3>2. CASE RedialSwap(c)
      BY <1>0, <1>3, <1>4, <3>2 DEF DialTyped, RedialSwap
    <3>3. CASE RedialDone(c)
      BY <1>0, <1>3, <3>3 DEF DialTyped, RedialDone
    <3> QED BY <3>1, <3>2, <3>3
  <2> QED BY <1>0, <1>1, <1>2, <2>1 DEF DialTyped, Same
<1>6. live'[c] = live[c] /\ cli'[c] = cli[c]
  BY <1>1
<1>7. Dialed(c)'
  <2>1. CASE RedialLoad(c)
    <3>1. /\ cli[c] = "listen" /\ live[c] < Extra /\ loaded'[c] = live[c] /\ need'[c] = need[c]
          /\ inflight'[c] = inflight[c]
      BY <1>0, <2>1 DEF RedialLoad, DialTyped
    <3>2. Batch(c)' = Batch(c)
      BY <3>1 DEF Batch
    <3> QED BY <1>0, <1>2, <1>3, <1>6, <3>1, <3>2 DEF Dialed
  <2>2. CASE RedialSwap(c)
    <3>1. /\ loaded[c] >= 0 /\ loaded'[c] = -1 /\ inflight'[c]
          /\ need'[c] = IF inflight[c] THEN need[c] ELSE Extra - loaded[c]
      BY <1>0, <2>2 DEF RedialSwap, DialTyped
    <3>2. cli[c] \notin {"new", "open"}
      BY <1>0, <1>3, <3>1 DEF Dialed
    <3>3. Batch(c)' = need'[c] /\ Batch(c) = IF inflight[c] THEN need[c] ELSE 0
      BY <3>1 DEF Batch
    <3>4. need'[c] <= Extra /\ live[c] + need'[c] <= 2 * Extra
      BY <1>0, <1>3, <3>1, <3>3 DEF Dialed
    <3> QED BY <1>0, <1>2, <1>3, <1>6, <3>1, <3>2, <3>3, <3>4 DEF Dialed
  <2>3. CASE RedialDone(c)
    <3>1. inflight[c] /\ need[c] = 0 /\ ~inflight'[c] /\ need'[c] = need[c] /\ loaded'[c] = loaded[c]
      BY <1>0, <2>3 DEF RedialDone, DialTyped
    <3>2. Batch(c)' = 0 /\ Batch(c) = 0 /\ cli[c] \notin {"new", "open"}
      BY <1>0, <3>1 DEF Batch, Dialed
    <3> QED BY <1>0, <1>2, <1>3, <1>6, <3>1, <3>2 DEF Dialed
  <2> QED BY <2>1, <2>2, <2>3
<1> QED BY <1>5, <1>7, DialOne

LEMMA DialBatch ==
    ASSUME DialInv, NEW c \in Clients, RedialDial(c)
    PROVE  DialInv'
<1>0. DialTyped /\ Dialed(c) /\ inflight[c] /\ need[c] > 0
  BY DEF DialInv, RedialDial
<1>1. /\ live[c] \in Nat /\ need[c] \in Nat /\ loaded[c] \in Int /\ inflight[c] \in BOOLEAN
      /\ Extra \in Nat /\ Extra > 0 /\ Batch(c) \in Nat /\ Batch(c) <= need[c]
  BY <1>0, Numbers
<1>2. UNCHANGED <<cli, loaded, inflight>> /\ Batch(c) = need[c] /\ cli[c] \notin {"new", "open"}
  BY <1>0 DEF RedialDial, end_vars, Batch, Dialed
<1>3. Batch(c)' = need'[c]
  BY <1>0, <1>2 DEF Batch
<1>4. loaded'[c] = loaded[c] /\ cli'[c] = cli[c] /\ inflight'[c] = inflight[c]
  BY <1>2
<1>5. Cardinality(Pumps(c)) \in Nat /\ live[c] = Cardinality(Pumps(c))
  BY <1>0, ConnsFinite DEF Pumps, Dialed
<1>6. CASE Dial(c, "run") /\ live' = [live EXCEPT ![c] = live[c] + 1] /\ need' = [need EXCEPT ![c] = need[c] - 1]
  <2>1. "run" \in {"held", "run"}
    OBVIOUS
  <2>2. /\ con' \in [Conns -> ConnStates] /\ \A j \in Conns : con'[j].pump # "off" => con'[j].of \in Clients
        /\ \A x \in Clients \ {c} : Pumps(x)' = Pumps(x) /\ Held(x)' = Held(x)
        /\ Cardinality(Pumps(c)') = Cardinality(Pumps(c)) + (IF "run" = "run" THEN 1 ELSE 0)
        /\ Cardinality(Held(c)') = Cardinality(Held(c)) + (IF "run" = "held" THEN 1 ELSE 0)
        /\ "run" = "held" => Pumps(c)' = Pumps(c)
    BY <1>0, <1>6, <2>1, DialedConn, Zenon
  <2>3. Cardinality(Pumps(c)') = live[c] + 1
    BY <1>5, <2>2
  <2>4. /\ live'[c] = live[c] + 1 /\ need'[c] = need[c] - 1
        /\ live' \in [Clients -> Nat] /\ need' \in [Clients -> Nat]
        /\ \A x \in Clients \ {c} : live'[x] = live[x] /\ need'[x] = need[x]
    BY <1>0, <1>1, <1>6 DEF DialTyped
  <2>5. DialTyped'
    BY <1>0, <1>2, <2>2, <2>4 DEF DialTyped
  <2>6. \A x \in Clients \ {c} : Same(x)
    BY <1>2, <2>2, <2>4 DEF Same
  <2>7. Dialed(c)'
    BY <1>0, <1>1, <1>2, <1>3, <1>4, <2>3, <2>4 DEF Dialed
  <2> QED BY <2>5, <2>6, <2>7, DialOne
<1>7. CASE need' = [need EXCEPT ![c] = 0] /\ UNCHANGED <<con, live>>
  <2>1. \A x : Pumps(x)' = Pumps(x) /\ Held(x)' = Held(x)
    BY <1>7 DEF Pumps, Held
  <2>2. /\ live'[c] = live[c] /\ need'[c] = 0 /\ need' \in [Clients -> Nat]
        /\ \A x \in Clients \ {c} : need'[x] = need[x]
    BY <1>0, <1>7 DEF DialTyped
  <2>3. DialTyped'
    BY <1>0, <1>2, <1>7, <2>2 DEF DialTyped
  <2>4. \A x \in Clients \ {c} : Same(x)
    BY <1>2, <1>7, <2>1, <2>2 DEF Same
  <2>5. Dialed(c)'
    BY <1>0, <1>1, <1>2, <1>3, <1>4, <2>1, <2>2 DEF Dialed
  <2> QED BY <2>3, <2>4, <2>5, DialOne
<1> QED BY <1>6, <1>7 DEF RedialDial

\* Every step.
LEMMA DialStep == DialInv /\ [Next]_vars => DialInv'
<1> SUFFICES ASSUME DialInv, [Next]_vars PROVE DialInv'
  OBVIOUS
<1>1. CASE UNCHANGED <<cli, con, dial_vars>>
  <2>1. \A x \in Clients : Same(x)
    BY <1>1 DEF Same, Pumps, Held, dial_vars
  <2>2. \A x \in Clients : Dialed(x)'
    BY <2>1, DialSame DEF DialInv
  <2>3. DialTyped'
    BY <1>1 DEF DialInv, DialTyped, dial_vars
  <2> QED BY <2>2, <2>3 DEF DialInv
<1>2. ASSUME NEW c \in Clients, SrvStep(c) PROVE DialInv'
  <2>1. CASE SrvBind(c)
    BY <2>1, DialStart
  <2>2. CASE ~SrvBind(c)
    BY <1>1, <1>2, <2>2 DEF SrvStep, SrvToken, SrvOffer, SrvRegister, SrvPush, SrvLeave, SrvClosePort,
                            end_vars, pool_vars
  <2> QED BY <2>1, <2>2
<1>3. ASSUME NEW c \in Clients, CliStep(c) PROVE DialInv'
  BY <1>3, DialStart, DialOpen, DialListen DEF CliStep
<1>4. ASSUME NEW c \in Clients, RedialTick(c) \/ RedialBatch(c) PROVE DialInv'
  BY <1>4, DialAgain, DialBatch DEF RedialTick, RedialBatch
<1>5. ASSUME NEW c \in Clients, DirStep(c) PROVE DialInv'
  BY <1>1, <1>5 DEF DirStep, DirOffer, DirCheck, DirFails, DirUp, DirInstall, DirEnds, DirRemove,
                    end_vars, pool_vars
<1>6. ASSUME NEW c \in Clients, LoopStep(c) \/ BreakMain(c) PROVE DialInv'
  BY <1>1, <1>6 DEF LoopStep, LoopRenew, LoopUp, LoopSleep, BreakMain, end_vars, pool_vars
<1>7. ASSUME NEW k \in Conns, CarrierStep(k) \/ PumpUnheard(k) \/ BreakConn(k) PROVE DialInv'
  BY <1>7, DialCarrier, DialPump DEF CarrierStep
<1>8. ASSUME NEW v \in Visitors, VisStep(v) PROVE DialInv'
  BY <1>1, <1>8 DEF VisStep, VisAccept, VisDirect, VisRelay, VisEnds, end_vars, pool_vars
<1>9. CASE UNCHANGED vars
  BY <1>1, <1>9 DEF vars, end_vars, pool_vars
<1> QED BY <1>2, <1>3, <1>4, <1>5, <1>6, <1>7, <1>8, <1>9 DEF Next

\* However the counter, the ticks, the batch and the ends of pumps interleave, a
\* client never has more than twice the extra carriers it asked for.
THEOREM DialsAreBounded == Spec => []DialsBounded
<1>1. DialInv => DialsBounded
  <2> SUFFICES ASSUME DialInv, NEW c \in Clients PROVE Cardinality(Pumps(c)) <= 2 * Extra
    BY DEF DialsBounded
  <2>1. Dialed(c) /\ DialTyped
    BY DEF DialInv
  <2>2. /\ live[c] \in Nat /\ need[c] \in Nat /\ loaded[c] \in Int /\ inflight[c] \in BOOLEAN
        /\ Extra \in Nat /\ Extra > 0 /\ Batch(c) \in Nat /\ Batch(c) <= need[c]
    BY <2>1, Numbers
  <2> QED BY <2>1, <2>2 DEF Dialed
<1> QED BY <1>1, DialInit, DialStep, PTL DEF Spec
=============================================================================
