----------------------------- MODULE MCMediator -----------------------------
(* Instances of Mediator for TLC: payloads an agent needs the Owner for and *)
(* one it does not, and a capability re-issued under another id.            *)
EXTENDS Mediator, TLC

CONSTANTS owner, agent, commit, high, low, held, reissued, rdec

MCActionOf == [x \in Payloads |-> IF x = commit THEN "COMMIT" ELSE "EXECUTE"]
MCRiskOf == [x \in Payloads |-> IF x = high THEN "HIGH" ELSE "LOW"]
MCHolder == [k \in Capabilities |-> IF k = rdec THEN owner ELSE agent]
MCScope == [k \in Capabilities |->
              IF k = held THEN {commit, low} \cap Payloads
              ELSE IF k = reissued THEN Payloads ELSE {}]

\* Nothing but equality is asked of these values.
Interchangeable ==
  Permutations(Threads) \cup Permutations(Escalations)
    \cup Permutations(Policies) \cup Permutations(Identities)

=============================================================================
