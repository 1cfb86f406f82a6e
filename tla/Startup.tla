------------------------------ MODULE Startup -------------------------------
(***************************************************************************)
(* A sender from its command line to its first chunk (run_sender of          *)
(* vendored-from-bore/transfer.rs): the plan, then the addresses for a       *)
(* direct path unless --relay-only, then the manifest; and a `bore test-udp` *)
(* on the same host.                                                        *)
(***************************************************************************)
EXTENDS TransferPlan, Discovery

vars == <<plan_vars, stun_vars>>

Init == PlanInit /\ StunInit

Sender == cmd.run = "send"

\* Until the plan is made.
Plans == Sender /\ Planning /\ UNCHANGED stun_vars

\* Other programs use the disk.
Edits == Sender /\ Edit /\ UNCHANGED stun_vars

\* Proxy::new negotiates a direct path after the plan, unless --relay-only.
Connects ==
    /\ Sender /\ stage = "planned" /\ ~cmd.relay
    /\ StunBegin("live") /\ UNCHANGED plan_vars

Diagnoses == ~Sender /\ StunBegin("diagnose") /\ UNCHANGED plan_vars

Discovers == StunNext(cmd.upnp, cmd.predict) /\ UNCHANGED plan_vars

\* A discovery that found nothing leaves the relay.
Sends ==
    /\ Sender
    /\ cmd.relay \/ sphase \in {"offered", "none"}
    /\ Sending /\ UNCHANGED stun_vars

Next == Plans \/ Edits \/ Connects \/ Diagnoses \/ Discovers \/ Sends

Spec == Init /\ [][Next]_vars
=============================================================================
