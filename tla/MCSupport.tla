----------------------------- MODULE MCSupport -----------------------------
(***************************************************************************)
(* The four components around the decision: Persistence, Delegation,       *)
(* Provisioning and Observations.  They share no variable, so what each    *)
(* can do does not depend on the others, and one run checks all of them:   *)
(* active, chosen at the start, is the one that moves; the rest stay in    *)
(* one of their initial states.                                            *)
(***************************************************************************)
EXTENDS Persistence, MCDelegation, MCProvisioning, MCObservations

VARIABLE active

supportVars == <<active, storeVars, delegationVars, provisioningVars,
                 observationVars>>

SupportInit ==
  /\ active \in {"stores", "delegation", "provisioning", "observations"}
  /\ StoresInit
  /\ DelegationInit
  /\ ProvisioningInit
  /\ ObservationsInit
  /\ active # "stores" => tableOf = [s \in Stores |-> "capabilities"]
  /\ active # "delegation" => ~required
  /\ active # "observations" => ~observing

SupportNext ==
  /\ UNCHANGED active
  /\ \/ /\ active = "stores"
        /\ StoresNext
        /\ UNCHANGED <<delegationVars, provisioningVars, observationVars>>
     \/ /\ active = "delegation"
        /\ DelegationNext
        /\ UNCHANGED <<storeVars, provisioningVars, observationVars>>
     \/ /\ active = "provisioning"
        /\ ProvisioningNext
        /\ UNCHANGED <<storeVars, delegationVars, observationVars>>
     \/ /\ active = "observations"
        /\ ObservationsNext
        /\ UNCHANGED <<storeVars, delegationVars, provisioningVars>>

\* The fairness is that of ObservationsSpec.
SupportSpec ==
  /\ SupportInit
  /\ [][SupportNext]_supportVars
  /\ \A t \in Servers : WF_observationVars(Serve(t))

\* The type invariants of the four.
SupportTypesOK ==
  /\ StoresTypeOK
  /\ DelegationTypeOK
  /\ ProvisioningTypeOK
  /\ ObservationsTypeOK

-----------------------------------------------------------------------------

CONSTANTS s1, s2, x, y, t1, t2

\* One row per table.
MCKeys == [t \in Tables |-> {<<t>>}]

=============================================================================
