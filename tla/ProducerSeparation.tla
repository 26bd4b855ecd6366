------------------------- MODULE ProducerSeparation -------------------------
(***************************************************************************)
(* What the evidence lifecycle promises, without records, events or roles: *)
(* evidence is produced, then verified by somebody else, then authorized   *)
(* by the Owner unless he produced it; nothing is ever taken back.         *)
(***************************************************************************)

CONSTANTS Evidence, Principals, Owner, None

VARIABLES producer,   \* who produced it, or None
          verifier,   \* who verified it, or None
          authorizer  \* who authorized it, or None

parties == <<producer, verifier, authorizer>>

Init ==
  /\ producer = [e \in Evidence |-> None]
  /\ verifier = [e \in Evidence |-> None]
  /\ authorizer = [e \in Evidence |-> None]

Produce(e, p) ==
  /\ producer[e] = None
  /\ producer' = [producer EXCEPT ![e] = p]
  /\ UNCHANGED <<verifier, authorizer>>

Verify(e, p) ==
  /\ producer[e] \notin {None, p}
  /\ verifier[e] = None
  /\ verifier' = [verifier EXCEPT ![e] = p]
  /\ UNCHANGED <<producer, authorizer>>

Authorize(e) ==
  /\ verifier[e] # None
  /\ producer[e] # Owner
  /\ authorizer[e] = None
  /\ authorizer' = [authorizer EXCEPT ![e] = Owner]
  /\ UNCHANGED <<producer, verifier>>

Next ==
  \E e \in Evidence :
    \/ \E p \in Principals : Produce(e, p) \/ Verify(e, p)
    \/ Authorize(e)

Spec == Init /\ [][Next]_parties

=============================================================================
