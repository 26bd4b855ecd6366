---------------------------- MODULE OneShotGrant ----------------------------
(***************************************************************************)
(* What the escalate -> decide -> re-enter cycle promises, without stores, *)
(* locks or calls: a requester raises an escalation, the Owner rules on it *)
(* once, and a permit is redeemed at most once.                            *)
(***************************************************************************)
EXTENDS Naturals

CONSTANTS Escalations

VARIABLES ruling,    \* unraised, open, permit or deny, by escalation
          redeemed   \* how many times each was redeemed

Init ==
  /\ ruling = [e \in Escalations |-> "unraised"]
  /\ redeemed = [e \in Escalations |-> 0]

Raise(e) ==
  /\ ruling[e] = "unraised"
  /\ ruling' = [ruling EXCEPT ![e] = "open"]
  /\ UNCHANGED redeemed

Rule(e, d) ==
  /\ ruling[e] = "open"
  /\ ruling' = [ruling EXCEPT ![e] = d]
  /\ UNCHANGED redeemed

Redeem(e) ==
  /\ ruling[e] = "permit"
  /\ redeemed[e] = 0
  /\ redeemed' = [redeemed EXCEPT ![e] = 1]
  /\ UNCHANGED ruling

Next ==
  \E e \in Escalations :
    Raise(e) \/ Rule(e, "permit") \/ Rule(e, "deny") \/ Redeem(e)

Spec == Init /\ [][Next]_<<ruling, redeemed>>

=============================================================================
