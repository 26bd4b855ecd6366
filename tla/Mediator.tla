------------------------------ MODULE Mediator ------------------------------
(***************************************************************************)
(* The escalate -> decide -> re-enter cycle of Mediator (mediator.py) over *)
(* the two stores it drives: EscalationStore (escalation.py) and           *)
(* ReservedGrantStore with its ExecutionLog (grant.py, execution.py).      *)
(*                                                                         *)
(* Every store has a lock of its own and the mediator has none, so a call  *)
(* is a sequence of steps, one per access to shared state, and the steps   *)
(* of the calls in flight interleave freely.  The identifiers of the       *)
(* modules are those of the code; a step is named for the code it runs.    *)
(***************************************************************************)
EXTENDS Naturals, Sequences, FiniteSets

CONSTANTS
  Threads,        \* the threads that call the mediator
  Escalations,    \* escalation ids (esc-<uuid>)
  Principals,     \* authenticated principals
  Owner,          \* OWNER_PRINCIPAL_ID
  Payloads,       \* what full_payload_hash covers: action, risk, ids, body
  ActionOf,       \* the action type of a payload
  RiskOf,         \* the risk level of a payload
  Capabilities,   \* capability ids
  Holder,         \* the principal a capability is bound to
  Scope,          \* the payloads within a capability's actions, domains, ceiling
  Deciding,       \* the capabilities of role R-DEC
  Policies,       \* hashes of policies that do not block PERMIT
  Identities,     \* identities of provenance results of kind MATCH
  None,           \* no value
  AuditOutcomes,  \* what AuditLog.append may do in this instance
  MaxCalls        \* bound on the calls started in a behaviour

ReasonClass == {"owner_mandatory_action", "owner_mandatory_risk",
                "policy", "provenance"}

Decisions == {"permit", "deny"}

ASSUME ConstantsAssumption ==
  /\ Owner \in Principals
  /\ ActionOf \in [Payloads -> {"COMMIT", "EXECUTE"}]
  /\ RiskOf \in [Payloads -> {"LOW", "HIGH"}]
  /\ Holder \in [Capabilities -> Principals]
  /\ Scope \in [Capabilities -> SUBSET Payloads]
  /\ Deciding \subseteq Capabilities
  /\ None \notin Escalations \cup Principals \cup Payloads
                   \cup Capabilities \cup Policies \cup Identities
                   \cup ReasonClass \cup Decisions
  /\ AuditOutcomes \subseteq {"written", "failed", "no_hash"}
  /\ MaxCalls \in Nat

VARIABLES
  policy,       \* Mediator._policy: a hash, or None when it blocks PERMIT
  caps,         \* CapabilityRegistry._caps: absent, active, or lapsed
  escalations,  \* EscalationStore._items
  grants,       \* ReservedGrantStore._items, by escalation
  execSeq,      \* ReservedGrantStore._exec_seq; 0 when there is no entry
  executions,   \* ExecutionLog._entries
  calls,        \* the call each thread is in
  started,      \* how many calls have begun (for the bound MaxCalls)
  permits       \* history: the PERMITs audited, in order

stores == <<escalations, grants, execSeq, executions>>
environment == <<policy, caps>>
vars == <<policy, caps, escalations, grants, execSeq, executions, calls,
          started, permits>>

-----------------------------------------------------------------------------
(* The values of the state.                                                *)

EscalationRecord ==
  [status: {"absent", "pending", "decided", "resolved"},
   principal: Principals \cup {None},
   decision: Decisions \cup {None}]

NoEscalation == [status |-> "absent", principal |-> None, decision |-> None]

\* The bindings of a grant.  The payload stands for agent_id, request_id,
\* action, domain, risk_level and payload_hash: the hash covers the others.
ReservedGrant ==
  [reserved: BOOLEAN,
   principal: Principals \cup {None},
   payload: Payloads \cup {None},
   capability: Capabilities \cup {None},
   policy: Policies \cup {None},
   identity: Identities \cup {None},
   reason: ReasonClass \cup {None},
   decision: Decisions \cup {None},
   consumed: BOOLEAN,
   expired: BOOLEAN]

NoGrant ==
  [reserved |-> FALSE, principal |-> None, payload |-> None,
   capability |-> None, policy |-> None, identity |-> None, reason |-> None,
   decision |-> None, consumed |-> FALSE, expired |-> FALSE]

ExecutionRecord == [escalation: Escalations, rolled_back: BOOLEAN]

Permit == [escalation: Escalations \cup {None}, principal: Principals,
           payload: Payloads, capability: Capabilities \cup {None},
           policy: Policies \cup {None}, identity: Identities \cup {None}]

Steps == {"idle", "eval_gate", "eval_check", "eval_provenance", "create",
          "reserve", "get", "gate", "lookup", "check", "provenance", "hash",
          "consume", "authorize", "decide", "attach", "update_policy", "finish",
          "rollback", "resolve"}

\* The locals of one call.  reason is the class of the escalation a call
\* raises, decision the Owner's ruling it carries, skip the flag of the
\* grant it looked up, policy and identity the bindings it will present.
Call ==
  [step: Steps,
   principal: Principals \cup {None},
   payload: Payloads \cup {None},
   escalation: Escalations \cup {None},
   verdict: {"PERMIT", "DENY", "ESCALATE"},
   reason: ReasonClass \cup {None},
   decision: Decisions \cup {None},
   capability: Capabilities \cup {None},
   skip: BOOLEAN,
   policy: Policies \cup {None},
   identity: Identities \cup {None}]

Idle ==
  [step |-> "idle", principal |-> None, payload |-> None, escalation |-> None,
   verdict |-> "DENY", reason |-> None, decision |-> None,
   capability |-> None, skip |-> FALSE, policy |-> None, identity |-> None]

TypeOK ==
  /\ policy \in Policies \cup {None}
  /\ caps \in [Capabilities -> {"absent", "active", "lapsed"}]
  /\ escalations \in [Escalations -> EscalationRecord]
  /\ grants \in [Escalations -> ReservedGrant]
  /\ execSeq \in [Escalations -> Nat]
  /\ executions \in Seq(ExecutionRecord)
  /\ calls \in [Threads -> Call]
  /\ started \in 0..MaxCalls
  /\ permits \in Seq(Permit)

Init ==
  /\ policy \in Policies \cup {None}
  /\ caps \in [Capabilities -> {"absent", "active"}]
  /\ escalations = [e \in Escalations |-> NoEscalation]
  /\ grants = [e \in Escalations |-> NoGrant]
  /\ execSeq = [e \in Escalations |-> 0]
  /\ executions = <<>>
  /\ calls = [t \in Threads |-> Idle]
  /\ started = 0
  /\ permits = <<>>

-----------------------------------------------------------------------------
(* check_capability, as far as the cycle tells its outcomes apart.         *)

\* The reservation that needs the Owner: none for the Owner himself.
OwnerMandatory(p, x) ==
  IF p = Owner THEN None
  ELSE IF ActionOf[x] = "COMMIT" THEN "owner_mandatory_action"
  ELSE IF RiskOf[x] = "HIGH" THEN "owner_mandatory_risk"
  ELSE None

\* Defect: only the risk is reserved, COMMIT is an action like the others.
ReservedByRisk(p, x, skip) ==
  OwnerMandatory(p, x) = "owner_mandatory_risk" /\ ~skip

Reserved(p, x, skip) == OwnerMandatory(p, x) # None /\ ~skip

\* A reservation comes before the scope is looked at.
CheckCapability(p, c, x, skip) ==
  IF c = None \/ (c \in Capabilities /\ (Holder[c] # p \/ caps[c] # "active"))
    THEN "DENY"
  ELSE IF Reserved(p, x, skip) THEN "OWNER_MANDATORY"
  ELSE IF x \notin Scope[c] THEN "DENY"
  ELSE "ALLOW"

\* active_for, else for_principal, else [None].
Candidates(p) ==
  LET Bound == {c \in Capabilities : Holder[c] = p /\ caps[c] # "absent"}
      Active == {c \in Bound : caps[c] = "active"}
  IN IF Active # {} THEN Active ELSE IF Bound # {} THEN Bound ELSE {None}

\* The capabilities the selection loop may end on: the best outcome wins.
BestCandidates(p, x) ==
  LET With(d) == {c \in Candidates(p) : CheckCapability(p, c, x, FALSE) = d}
  IN IF With("ALLOW") # {} THEN With("ALLOW")
     ELSE IF With("OWNER_MANDATORY") # {} THEN With("OWNER_MANDATORY")
     ELSE With("DENY")

\* An id is handed out by the answer of the call that made it; until then
\* that call holds it together with the reason it escalates for.
Published(e) ==
  /\ escalations[e].status # "absent"
  /\ \A t \in Threads : calls[t].escalation = e => calls[t].reason = None

\* The call of thread t goes on as c.
Continue(t, c) == calls' = [calls EXCEPT ![t] = c]

\* _finish(verdict, ..., escalation_id=e): the answer is still to be audited.
Finishing(verdict, e) ==
  [Idle EXCEPT !.step = "finish", !.verdict = verdict, !.escalation = e]

-----------------------------------------------------------------------------
(* A call begins: _gated has authenticated the request, or refused it.  An *)
(* id the store does not know, or none, is None.                           *)

Begin(t, c) ==
  /\ calls[t].step = "idle"
  /\ started < MaxCalls
  /\ started' = started + 1
  /\ Continue(t, c)
  /\ UNCHANGED <<environment, stores, permits>>

Evaluate(t, p, x) ==
  Begin(t, [Idle EXCEPT !.step = "eval_gate", !.principal = p, !.payload = x])

Reenter(t, p, x, e) ==
  /\ e # None => Published(e)
  /\ Begin(t, [Idle EXCEPT !.step = "get", !.principal = p, !.payload = x,
                           !.escalation = e])

DecideEscalation(t, p, e, d) ==
  /\ e # None => Published(e)
  /\ Begin(t, [Idle EXCEPT !.step = "authorize", !.principal = p,
                           !.escalation = e, !.decision = d])

UpdatePolicy(t, p, h) ==
  Begin(t, [Idle EXCEPT !.step = "authorize", !.principal = p, !.policy = h])

\* Unavailable, not canonical, or not authenticated: a DENY without an id.
Refuse(t) == Begin(t, Finishing("DENY", None))

-----------------------------------------------------------------------------
(* evaluate: policy gate, capability, provenance, and the two stores an    *)
(* escalation is written to, one after the other.                          *)

EvaluateGate(t) ==
  /\ calls[t].step = "eval_gate"
  /\ Continue(t, IF policy = None
                   THEN [calls[t] EXCEPT !.step = "create", !.reason = "policy"]
                   ELSE [calls[t] EXCEPT !.step = "eval_check"])
  /\ UNCHANGED <<environment, stores, started, permits>>

EvaluateCheck(t) ==
  LET c == calls[t] IN
  /\ c.step = "eval_check"
  /\ \E k \in BestCandidates(c.principal, c.payload) :
       LET check == CheckCapability(c.principal, k, c.payload, FALSE) IN
       \/ /\ check = "DENY"
          /\ Continue(t, Finishing("DENY", None))
       \/ /\ check = "OWNER_MANDATORY"
          /\ Continue(t, [c EXCEPT !.step = "create", !.capability = k,
                            !.reason = OwnerMandatory(c.principal, c.payload)])
       \/ /\ check = "ALLOW"
          /\ Continue(t, [c EXCEPT !.step = "eval_provenance",
                                   !.capability = k])
  /\ UNCHANGED <<environment, stores, started, permits>>

\* The checker is injected: each call may find a match, a mismatch, or nothing.
EvaluateProvenance(t) ==
  LET c == calls[t] IN
  /\ c.step = "eval_provenance"
  /\ \/ \E i \in Identities :
          Continue(t, [c EXCEPT !.step = "finish", !.verdict = "PERMIT",
                                !.identity = i])
     \/ Continue(t, Finishing("DENY", None))
     \/ Continue(t, [c EXCEPT !.step = "create", !.reason = "provenance"])
  /\ UNCHANGED <<environment, stores, started, permits>>

\* EscalationStore.create under an id no record has.
CreateEscalation(t) ==
  LET c == calls[t] IN
  /\ c.step = "create"
  /\ \E e \in Escalations :
       /\ escalations[e].status = "absent"
       /\ escalations' = [escalations EXCEPT
            ![e] = [status |-> "pending", principal |-> c.principal,
                    decision |-> None]]
       /\ Continue(t, [c EXCEPT !.step = "reserve", !.escalation = e])
  /\ UNCHANGED <<environment, grants, execSeq, executions, started, permits>>

\* Defect: the context starts with a ruling that is neither permit nor deny.
UndecidedContext(c, h, i) ==
  [NoGrant EXCEPT !.reserved = TRUE, !.principal = c.principal,
     !.payload = c.payload, !.capability = c.capability, !.policy = h,
     !.identity = i, !.reason = c.reason, !.decision = "pending"]

\* The grant of call c, escalated under policy h and provenance identity i.
PendingContext(c, h, i) ==
  [NoGrant EXCEPT !.reserved = TRUE, !.principal = c.principal,
     !.payload = c.payload, !.capability = c.capability, !.policy = h,
     !.identity = i, !.reason = c.reason]

\* create_pending_context, with the policy and provenance of the moment.
CreatePendingContext(t) ==
  LET c == calls[t] IN
  /\ c.step = "reserve"
  /\ \E i \in Identities \cup {None} :
       grants' = [grants EXCEPT ![c.escalation] =
                                  PendingContext(c, policy, i)]
  /\ Continue(t, [Finishing("ESCALATE", c.escalation) EXCEPT
                    !.reason = c.reason])
  /\ UNCHANGED <<environment, escalations, execSeq, executions, started,
                 permits>>

-----------------------------------------------------------------------------
(* decide_escalation and update_policy, both for the Owner's R-DEC only.   *)

Authorize(t) ==
  LET c == calls[t]
      active == \E k \in Deciding :
                  Holder[k] = c.principal /\ caps[k] = "active"
  IN
  /\ c.step = "authorize"
  /\ Continue(t, IF c.principal = Owner /\ active
                   THEN [c EXCEPT !.step = IF c.decision = None
                                             THEN "update_policy" ELSE "decide"]
                   ELSE Finishing("DENY", None))
  /\ UNCHANGED <<environment, stores, started, permits>>

\* Defect: a record that was decided can be decided again.
DecidableAgain(e) == escalations[e].status \in {"pending", "decided"}

Decidable(e) == escalations[e].status = "pending"

\* mediator_decide: only a pending record is decided.
MediatorDecide(t) ==
  LET c == calls[t] IN
  /\ c.step = "decide"
  /\ IF c.escalation # None /\ Decidable(c.escalation)
       THEN /\ escalations' = [escalations EXCEPT
                 ![c.escalation] = [@ EXCEPT !.status = "decided",
                                             !.decision = c.decision]]
            /\ Continue(t, [c EXCEPT !.step = "attach"])
       ELSE /\ Continue(t, Finishing("DENY", None))
            /\ UNCHANGED escalations
  /\ UNCHANGED <<environment, grants, execSeq, executions, started, permits>>

\* attach_owner_decision: the second store learns of the ruling on its own.
AttachOwnerDecision(t) ==
  LET c == calls[t] IN
  /\ c.step = "attach"
  /\ grants' = [grants EXCEPT ![c.escalation].decision =
                  IF grants[c.escalation].reserved THEN c.decision ELSE @]
  /\ Continue(t, Finishing("DENY", c.escalation))
  /\ UNCHANGED <<environment, escalations, execSeq, executions, started,
                 permits>>

AssignPolicy(t) ==
  /\ calls[t].step = "update_policy"
  /\ policy' = calls[t].policy
  /\ Continue(t, Finishing("DENY", None))
  /\ UNCHANGED <<caps, stores, started, permits>>

-----------------------------------------------------------------------------
(* reenter: the record is read once, and each later step reads its own     *)
(* piece of state; nothing holds the others still.                         *)

\* Defect: an escalation that was resolved can be re-entered.
MayReenterResolved(p, e) ==
  /\ escalations[e].status \in {"decided", "resolved"}
  /\ escalations[e].decision = "permit"
  /\ escalations[e].principal = p

MayReenter(p, e) ==
  /\ escalations[e].status = "decided"
  /\ escalations[e].decision = "permit"
  /\ escalations[e].principal = p

GetEscalation(t) ==
  LET c == calls[t] IN
  /\ c.step = "get"
  /\ Continue(t,
       IF c.escalation = None THEN Finishing("DENY", None)
       ELSE IF MayReenter(c.principal, c.escalation)
         THEN [c EXCEPT !.step = "gate"]
       ELSE Finishing("DENY", c.escalation))
  /\ UNCHANGED <<environment, stores, started, permits>>

\* A blocking policy escalates under the id there is: no new record.
ReenterGate(t) ==
  /\ calls[t].step = "gate"
  /\ Continue(t, IF policy = None
                   THEN Finishing("ESCALATE", calls[t].escalation)
                   ELSE [calls[t] EXCEPT !.step = "lookup"])
  /\ UNCHANGED <<environment, stores, started, permits>>

\* get_by_escalation: which capability to check, and whether the grant
\* stands in for the Owner's reservation.
LookupGrant(t) ==
  LET c == calls[t]
      grant == grants[c.escalation]
      SameAction == ActionOf[grant.payload] = ActionOf[c.payload]
      SameRisk == RiskOf[grant.payload] = RiskOf[c.payload]
  IN
  /\ c.step = "lookup"
  /\ Continue(t, [c EXCEPT
       !.step = "check",
       !.capability = grant.capability,
       !.skip = /\ grant.reserved
                /\ grant.decision = "permit"
                /\ ~grant.consumed
                /\ \/ grant.reason = "owner_mandatory_action" /\ SameAction
                   \/ grant.reason = "owner_mandatory_risk" /\ SameRisk])
  /\ UNCHANGED <<environment, stores, started, permits>>

ReenterCheck(t) ==
  LET c == calls[t]
      Chosen == IF c.capability # None THEN {c.capability}
                ELSE BestCandidates(c.principal, c.payload)
  IN
  /\ c.step = "check"
  /\ \E k \in Chosen :
       Continue(t,
         IF CheckCapability(c.principal, k, c.payload, c.skip) = "ALLOW"
           THEN [c EXCEPT !.step = "provenance", !.capability = k]
           ELSE Finishing("DENY", c.escalation))
  /\ UNCHANGED <<environment, stores, started, permits>>

ReenterProvenance(t) ==
  LET c == calls[t] IN
  /\ c.step = "provenance"
  /\ \/ \E i \in Identities :
          Continue(t, [c EXCEPT !.step = "hash", !.identity = i])
     \/ \E v \in {"DENY", "ESCALATE"} :
          Continue(t, Finishing(v, c.escalation))
  /\ UNCHANGED <<environment, stores, started, permits>>

ReadPolicyHash(t) ==
  /\ calls[t].step = "hash"
  /\ Continue(t, [calls[t] EXCEPT !.step = "consume", !.policy = policy])
  /\ UNCHANGED <<environment, stores, started, permits>>

\* The eleven bindings of a grant: all for an Owner's reservation, all but
\* its own dimension and the capability for a policy or provenance ruling.
BindingsMatch(g, c) ==
  /\ g.principal = c.principal
  /\ g.payload = c.payload
  /\ g.reason # "policy" => g.policy = c.policy
  /\ g.reason # "provenance" => g.identity = c.identity
  /\ g.reason \notin {"policy", "provenance"} => g.capability = c.capability

\* Defect: the consumed flag is not looked at.
RedeemableAgain(g, c) ==
  g.reserved /\ g.decision = "permit" /\ ~g.expired /\ BindingsMatch(g, c)

\* Defect: the bindings are not compared.
RedeemableUnbound(g, c) ==
  g.reserved /\ ~g.consumed /\ g.decision = "permit" /\ ~g.expired

Redeemable(g, c) ==
  /\ g.reserved
  /\ ~g.consumed
  /\ g.decision = "permit"
  /\ ~g.expired
  /\ BindingsMatch(g, c)

\* consume_if_valid, all of it under the store's lock.
ConsumeIfValid(t) ==
  LET c == calls[t]
      e == c.escalation
  IN
  /\ c.step = "consume"
  /\ IF Redeemable(grants[e], c)
       THEN /\ grants' = [grants EXCEPT ![e].consumed = TRUE]
            /\ executions' = Append(executions,
                               [escalation |-> e, rolled_back |-> FALSE])
            /\ execSeq' = [execSeq EXCEPT ![e] = Len(executions) + 1]
            /\ Continue(t, [c EXCEPT !.step = "finish", !.verdict = "PERMIT"])
       ELSE /\ Continue(t, Finishing("DENY", e))
            /\ UNCHANGED <<grants, executions, execSeq>>
  /\ UNCHANGED <<environment, escalations, started, permits>>

-----------------------------------------------------------------------------
(* _finish: the answer is given once it is in the audit chain.             *)

\* Defect: a redemption whose audit fails is not taken back.
AbandonFailed(c) == Idle

\* What is left to do when the audit write failed, or when the record of the
\* answer could not even be built: roll back under the answer's id, if any.
RollbackFailed(c) ==
  IF c.escalation = None THEN Idle
  ELSE [Idle EXCEPT !.step = "rollback", !.escalation = c.escalation,
                    !.reason = c.reason]

Finish(t) ==
  LET c == calls[t]
      Answered == Continue(t, Idle)
  IN
  /\ c.step = "finish"
  /\ \/ /\ "written" \in AuditOutcomes
        /\ IF c.verdict = "PERMIT"
             THEN /\ permits' = Append(permits,
                       [escalation |-> c.escalation,
                        principal |-> c.principal, payload |-> c.payload,
                        capability |-> c.capability, policy |-> c.policy,
                        identity |-> c.identity])
                  /\ IF c.escalation = None THEN Answered
                     ELSE Continue(t, [Idle EXCEPT !.step = "resolve",
                                         !.escalation = c.escalation])
             ELSE Answered /\ UNCHANGED permits
     \/ /\ "failed" \in AuditOutcomes
        /\ Continue(t, RollbackFailed(c))
        /\ UNCHANGED permits
     \/ /\ "no_hash" \in AuditOutcomes
        /\ Answered
        /\ UNCHANGED permits
  /\ UNCHANGED <<environment, stores, started>>

\* Defect: a rollback leaves the record of the redemption standing.
LeaveStanding(seq) == executions

MarkRolledBack(seq) == [executions EXCEPT ![seq].rolled_back = TRUE]

\* unconsume: whoever consumed it, a consumed grant becomes available again.
Unconsume(t) ==
  LET e == calls[t].escalation
      seq == execSeq[e]
  IN
  /\ calls[t].step = "rollback"
  /\ IF grants[e].consumed
       THEN /\ grants' = [grants EXCEPT ![e].consumed = FALSE]
            /\ execSeq' = [execSeq EXCEPT ![e] = 0]
            /\ executions' = MarkRolledBack(seq)
       ELSE UNCHANGED <<grants, execSeq, executions>>
  /\ Continue(t, Idle)
  /\ UNCHANGED <<environment, escalations, started, permits>>

\* mediator_resolve: an error is swallowed, the PERMIT stands.
MediatorResolve(t) ==
  LET e == calls[t].escalation IN
  /\ calls[t].step = "resolve"
  /\ escalations' = [escalations EXCEPT ![e].status =
                       IF @ = "decided" THEN "resolved" ELSE @]
  /\ Continue(t, Idle)
  /\ UNCHANGED <<environment, grants, execSeq, executions, started, permits>>

-----------------------------------------------------------------------------
(* What happens outside the calls.                                         *)

\* set_policy, before the provisioning path is sealed.
SetPolicy(h) ==
  /\ policy' = h
  /\ UNCHANGED <<caps, stores, calls, started, permits>>

\* register, and revoke or expiry: an inactive capability stays on record
\* until it is registered again under its id.
Register(k) ==
  /\ caps[k] # "active"
  /\ caps' = [caps EXCEPT ![k] = "active"]
  /\ UNCHANGED <<policy, stores, calls, started, permits>>

Lapse(k) ==
  /\ caps[k] = "active"
  /\ caps' = [caps EXCEPT ![k] = "lapsed"]
  /\ UNCHANGED <<policy, stores, calls, started, permits>>

\* The clock reaches expires_at.
Expire(e) ==
  /\ grants[e].reserved /\ ~grants[e].expired
  /\ grants' = [grants EXCEPT ![e].expired = TRUE]
  /\ UNCHANGED <<environment, escalations, execSeq, executions, calls,
                 started, permits>>

-----------------------------------------------------------------------------

Request(t) ==
  \/ \E p \in Principals, x \in Payloads :
       \/ Evaluate(t, p, x)
       \/ \E e \in Escalations \cup {None} : Reenter(t, p, x, e)
  \/ \E p \in Principals, e \in Escalations \cup {None}, d \in Decisions :
       DecideEscalation(t, p, e, d)
  \/ \E p \in Principals, h \in Policies : UpdatePolicy(t, p, h)
  \/ Refuse(t)

Step(t) ==
  \/ EvaluateGate(t) \/ EvaluateCheck(t) \/ EvaluateProvenance(t)
  \/ CreateEscalation(t) \/ CreatePendingContext(t)
  \/ Authorize(t) \/ MediatorDecide(t) \/ AttachOwnerDecision(t)
  \/ AssignPolicy(t)
  \/ GetEscalation(t) \/ ReenterGate(t) \/ LookupGrant(t) \/ ReenterCheck(t)
  \/ ReenterProvenance(t) \/ ReadPolicyHash(t) \/ ConsumeIfValid(t)
  \/ Finish(t) \/ Unconsume(t) \/ MediatorResolve(t)

Environment ==
  \/ \E h \in Policies \cup {None} : SetPolicy(h)
  \/ \E k \in Capabilities : Register(k) \/ Lapse(k)
  \/ \E e \in Escalations : Expire(e)

Next == (\E t \in Threads : Request(t) \/ Step(t)) \/ Environment

Spec == Init /\ [][Next]_vars

-----------------------------------------------------------------------------
(* Correctness.                                                            *)

\* The two stores never disagree about the Owner's ruling, although decide
\* writes them under two locks: what a grant carries is what its record says.
StoresAgree ==
  \A e \in Escalations :
    grants[e].decision # None =>
      /\ escalations[e].status \in {"decided", "resolved"}
      /\ grants[e].decision = escalations[e].decision

\* The execution log tells redemptions from rollbacks: the records of an
\* escalation that stand are the one execSeq points at while its grant is
\* consumed, and none once it has been given back.
Standing(e) ==
  {i \in DOMAIN executions :
     executions[i].escalation = e /\ ~executions[i].rolled_back}

LogMatchesGrants ==
  \A e \in Escalations :
    Standing(e) = IF grants[e].consumed THEN {execSeq[e]} ELSE {}

\* A PERMIT on re-entry is the Owner's permit of that very request: the
\* principal and the payload that were escalated, the policy unless it was
\* what the Owner ruled on, the provenance unless that was, the capability
\* unless either.  It is in that capability's scope, and an action or a risk
\* reserved to the Owner is permitted in no other way.
Approved(m) ==
  LET g == grants[m.escalation]
      ruledOn == {"policy", "provenance"} \cap {g.reason}
  IN
  /\ m.capability \in Capabilities /\ Holder[m.capability] = m.principal
  /\ m.payload \in Scope[m.capability]
  /\ m.escalation = None => OwnerMandatory(m.principal, m.payload) = None
  /\ m.escalation # None =>
       /\ escalations[m.escalation].decision = "permit"
       /\ escalations[m.escalation].principal = m.principal
       /\ <<m.principal, m.payload>> = <<g.principal, g.payload>>
       /\ m.policy = g.policy \/ ruledOn = {"policy"}
       /\ m.identity = g.identity \/ ruledOn = {"provenance"}
       /\ m.capability = g.capability \/ ruledOn # {}

\* Every PERMIT in the audit chain was approved in that sense.
PermitWasApproved == \A n \in DOMAIN permits : Approved(permits[n])

\* An escalation is redeemed exactly once: no two PERMITs carry its id.
RedeemedAtMostOnce ==
  \A m, n \in DOMAIN permits :
    permits[m].escalation # None /\ permits[m].escalation = permits[n].escalation
      => m = n

\* An approval is not used up by a call that did not end in a PERMIT: while
\* the record is still decided and nobody is in the middle of redeeming or
\* rolling it back, the grant is there to be redeemed.
InFlight(e) ==
  \E t \in Threads :
    /\ calls[t].escalation = e
    /\ \/ calls[t].step \in {"rollback", "resolve"}
       \/ calls[t].step = "finish" /\ calls[t].verdict = "PERMIT"

ApprovalNotLost ==
  \A e \in Escalations :
    escalations[e].status = "decided" /\ ~InFlight(e) => ~grants[e].consumed

\* The cycle as its clients see it: the ruling is the record's, redemptions
\* are the PERMITs audited under the escalation's id.
Ruling ==
  [e \in Escalations |->
     CASE escalations[e].status = "absent" -> "unraised"
       [] escalations[e].status = "pending" -> "open"
       [] OTHER -> escalations[e].decision]

Redeemed ==
  [e \in Escalations |->
     Cardinality({n \in DOMAIN permits : permits[n].escalation = e})]

Promise == INSTANCE OneShotGrant WITH ruling <- Ruling, redeemed <- Redeemed

\* While the audit chain can be written, the two stores and their locks
\* implement the one-shot grant: raised, ruled on once, redeemed at most once.
ImplementsOneShotGrant == Promise!Spec

=============================================================================
