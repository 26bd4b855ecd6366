---------------------------- MODULE MCDelegation ----------------------------
(***************************************************************************)
(* Values for the constants of Delegation.                                 *)
(***************************************************************************)
EXTENDS Delegation

\* A capability that outlives the other but reaches less far.
MCHeld ==
  << [holder |-> "agent", actions |-> {"INSPECT", "EXECUTE"}, domains |-> {"d"},
      ceiling |-> "LOW", expires |-> 2],
     [holder |-> "agent", actions |-> {"EXECUTE", "COMMIT"}, domains |-> {"d"},
      ceiling |-> "HIGH", expires |-> 1] >>

MCOffered ==
  { [scope |-> "full", expires |-> Never], [scope |-> "inspect", expires |-> 0],
    NoMandate, Unreadable }

MCRequests ==
  { [principal |-> "agent", action |-> "EXECUTE", domain |-> "d", risk |-> "MEDIUM"],
    [principal |-> "agent", action |-> "COMMIT", domain |-> "d", risk |-> "LOW"] }

=============================================================================
