-------------------------- MODULE TransferContract --------------------------
(***************************************************************************)
(* What the destination backend may see of a backup run, and nothing about *)
(* how: the offer is answered once; after a yes its parts are restored one *)
(* by one in their order; the run ends confirmed only when every part has  *)
(* been restored. A run may end at any time without confirmation.          *)
(***************************************************************************)
EXTENDS Naturals, Sequences

CONSTANT Offers   \* the part sequences a source may offer

VARIABLES offer, answer, restored, verdict

vars == <<offer, answer, restored, verdict>>

Init ==
    /\ offer \in Offers
    /\ answer = "none"
    /\ restored = <<>>
    /\ verdict = "none"

Answer ==
    /\ verdict = "none" /\ answer = "none"
    /\ answer' \in {"accepted", "rejected"}
    /\ UNCHANGED <<offer, restored, verdict>>

Restore ==
    /\ verdict = "none" /\ answer = "accepted"
    /\ restored # offer
    /\ restored' = Append(restored, offer[Len(restored) + 1])
    /\ UNCHANGED <<offer, answer, verdict>>

Confirm ==
    /\ verdict = "none" /\ answer = "accepted"
    /\ restored = offer
    /\ verdict' = "confirmed"
    /\ UNCHANGED <<offer, answer, restored>>

GiveUp ==
    /\ verdict = "none"
    /\ verdict' = "unconfirmed"
    /\ UNCHANGED <<offer, answer, restored>>

Next == Answer \/ Restore \/ Confirm \/ GiveUp

Spec == Init /\ [][Next]_vars
=============================================================================
