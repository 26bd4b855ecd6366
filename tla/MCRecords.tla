----------------------------- MODULE MCRecords -----------------------------
(***************************************************************************)
(* Three records of what was done: AuditLog, ApprovalVerifier and          *)
(* EvidenceJournal.  As in MCSupport they share no variable, and one run   *)
(* checks all of them: active, chosen at the start, is the one that moves, *)
(* and the rest stay in one of their initial states.                       *)
(***************************************************************************)
EXTENDS AuditLog, ApprovalVerifier, EvidenceJournal, TLC

VARIABLE active

recordVars == <<active, vars, approvalVars, evidenceVars>>

NoRoles == [p \in Principals |-> {}]

RecordsInit ==
  /\ active \in {"audit", "approvals", "evidence"}
  /\ Init
  /\ ApprovalInit
  /\ EvidenceInit
  /\ active # "evidence" => roles = NoRoles

RecordsNext ==
  /\ UNCHANGED active
  /\ \/ /\ active = "audit"
        /\ Next
        /\ UNCHANGED <<approvalVars, evidenceVars>>
     \/ /\ active = "approvals"
        /\ ApprovalNext
        /\ UNCHANGED <<vars, evidenceVars>>
     \/ /\ active = "evidence"
        /\ EvidenceNext
        /\ UNCHANGED <<vars, approvalVars>>

RecordsSpec == RecordsInit /\ [][RecordsNext]_recordVars

-----------------------------------------------------------------------------

CONSTANTS owner

\* Nothing but equality is asked of these values.
Interchangeable ==
  Permutations(Consumers) \cup Permutations(Threads)
    \cup Permutations(Principals \ {owner})

=============================================================================
