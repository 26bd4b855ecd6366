----------------------------- MODULE Delegation -----------------------------
(***************************************************************************)
(* How a call is bounded by the way it arose: the contexts and mandates of *)
(* principal_context.py, and check_capability (authorization.py) over the  *)
(* capabilities that Mediator._evaluate_authenticated reads (mediator.py). *)
(* A thread reads detached copies of its principal's capabilities, checks  *)
(* them, and later writes the audit record; in between contexts are made,  *)
(* the clock moves and capabilities are revoked.  What the ContextVar of a *)
(* thread holds is its caller's affair: at every reading it may be any     *)
(* context there is, or none.                                              *)
(***************************************************************************)
EXTENDS Naturals, Sequences, FiniteSets

CONSTANTS
  Callers,        \* the threads that evaluate requests
  OwnerId,        \* OWNER_PRINCIPAL_ID
  Held,           \* the capabilities registered, in order: their holder,
                  \* actions, domains, ceiling and expiry
  Offered,        \* the mandates that contexts are created with
  Requests,       \* the requests evaluated: principal, action, domain, risk
  Never,          \* the expiry of a mandate without one
  NoMandate,      \* None or the empty string
  Unreadable,     \* a string that parse_mandate refuses
  MaxRoots,       \* bound on the contexts created with no parent
  MaxContexts,    \* bound on the contexts created
  MaxTime         \* bound on the clock

ActionType == {"INSPECT", "PROPOSE", "VERIFY", "EXECUTE", "COMMIT"}
RiskLevel == {"LOW", "MEDIUM", "HIGH"}

Rank(risk) == CASE risk = "LOW" -> 0 [] risk = "MEDIUM" -> 1 [] OTHER -> 2

\* MANDATE_SCOPES and MANDATE_RISK_CEILING: COMMIT is in no scope.
ScopeName == {"read-only", "inspect", "propose", "verify", "execute", "full"}

ActionTypes(scope) ==
  CASE scope \in {"read-only", "inspect"} -> {"INSPECT"}
    [] scope = "propose" -> {"INSPECT", "PROPOSE"}
    [] scope = "verify" -> {"INSPECT", "PROPOSE", "VERIFY"}
    [] OTHER -> {"INSPECT", "PROPOSE", "VERIFY", "EXECUTE"}

RiskCeiling(scope) ==
  CASE scope \in {"read-only", "inspect", "propose"} -> "LOW"
    [] scope = "full" -> "HIGH"
    [] OTHER -> "MEDIUM"

Provenances == {"direct", "delegated", "cron"}

Mandate == [scope: ScopeName, expires: Nat \cup {Never}]

ASSUME DelegationAssumption ==
  /\ Never \notin Nat
  /\ NoMandate # Unreadable
  /\ {NoMandate, Unreadable} \cap Mandate = {}
  /\ Offered \subseteq Mandate \cup {NoMandate, Unreadable}
  /\ DOMAIN Held \subseteq Nat
  /\ \A i \in DOMAIN Held :
       /\ Held[i].actions \subseteq ActionType
       /\ Held[i].ceiling \in RiskLevel
       /\ Held[i].expires \in Nat
  /\ \A r \in Requests : r.action \in ActionType /\ r.risk \in RiskLevel
  /\ MaxRoots \in Nat
  /\ MaxContexts \in Nat
  /\ MaxTime \in Nat

VARIABLES
  time,       \* datetime.now
  required,   \* Mediator.require_principal_context
  contexts,   \* the PrincipalContexts created, a parent before its children
  revoked,    \* the capabilities of the registry with a revoked_at
  evaluation  \* the evaluation each thread is in

delegationVars == <<time, required, contexts, revoked, evaluation>>

DelegationInit ==
  /\ time = 0
  /\ required \in BOOLEAN
  /\ contexts = <<>>
  /\ revoked = {}
  /\ evaluation = [t \in Callers |-> <<>>]

-----------------------------------------------------------------------------
\* Mandates

\* parse_mandate answers with a Mandate.
Readable(m) == m \notin {NoMandate, Unreadable}

\* Mandate.is_valid: a mandate is still good at the instant it expires.
IsValid(m) == m.expires = Never \/ m.expires >= time

\* Mandate.is_subset_of: the expiry of the child is not compared.
IsSubsetOf(m, other) ==
  /\ IsValid(other)
  /\ ActionTypes(m.scope) \subseteq ActionTypes(other.scope)
  /\ Rank(RiskCeiling(m.scope)) <= Rank(RiskCeiling(other.scope))

\* Defect: the offered mandate is not compared.
AsOffered(parent, offered) == IF offered = NoMandate THEN parent ELSE offered

\* The mandate a subagent ends up with, when it is offered one.
Inherited(parent, offered) ==
  LET own == IF offered = NoMandate THEN parent ELSE offered
  IN  IF /\ Readable(own) /\ Readable(parent)
         /\ ~IsSubsetOf(own, parent)
      THEN parent
      ELSE own

Contexts == 1..Len(contexts)

\* What get_principal_context may answer, 0 for none: any context is set by
\* set_principal_context and principal_context_scope, and none is left by
\* clear_principal_context and by the end of the outermost scope.
Bindable == Contexts \cup {0}

\* above is history: the contexts that p was delegated from, and p.
Above(p) == IF p = 0 THEN {} ELSE contexts[p].above \cup {p}

Create(p, m, provenance) ==
  /\ Len(contexts) < MaxContexts
  /\ p = 0 => Cardinality({c \in Contexts : contexts[c].parent = 0}) < MaxRoots
  /\ contexts' = Append(contexts, [parent |-> p, above |-> Above(p),
                                  mandate |-> m, provenance |-> provenance])
  /\ UNCHANGED <<time, required, revoked, evaluation>>

\* The host makes a context of its own for a session.
Begin(m) == Create(0, m, "direct")

\* propagate_for_cron: the mandate registered for the job.
PropagateForCron(m) == m # NoMandate /\ Create(0, m, "cron")

\* propagate_for_subagent, of a parent that has a context or has none.
PropagateForSubagent(p, m) ==
  Create(p, IF p = 0 THEN m ELSE Inherited(contexts[p].mandate, m), "delegated")

Elapse ==
  /\ time < MaxTime
  /\ time' = time + 1
  /\ UNCHANGED <<required, contexts, revoked, evaluation>>

\* CapabilityRegistry.revoke.
RevokeHeld(i) ==
  /\ revoked' = revoked \cup {i}
  /\ UNCHANGED <<time, required, contexts, evaluation>>

-----------------------------------------------------------------------------
\* check_capability

\* Capability.is_expired: from the instant it expires.
Expired(i) == time >= Held[i].expires

\* What _evaluate_authenticated has read: the active capabilities of the
\* principal, all of his when none is active, in the order of the registry.
HeldBy(p) == {i \in DOMAIN Held : Held[i].holder = p}

Active(p) == {i \in HeldBy(p) : i \notin revoked /\ ~Expired(i)}

Copies(p) ==
  LET read == IF Active(p) # {} THEN Active(p) ELSE HeldBy(p)
  IN  [i \in read |-> i \in revoked]

\* COMMIT and HIGH are reserved to the Owner, whatever the scope.
OwnerMandatory(r) ==
  r.principal # OwnerId /\ (r.action = "COMMIT" \/ r.risk = "HIGH")

Lower(a, b) == IF Rank(a) <= Rank(b) THEN a ELSE b

EffectiveCeiling(i, m) == Lower(Held[i].ceiling, RiskCeiling(m.scope))

MandateAllows(i, r, m) ==
  /\ Readable(m)
  /\ IsValid(m)
  /\ r.action \in ActionTypes(m.scope)
  /\ Rank(r.risk) <= Rank(EffectiveCeiling(i, m))

\* The mandate of the context c that the check reads.
MandateOf(c) == IF c = 0 THEN NoMandate ELSE contexts[c].mandate

InScope(i, r) ==
  /\ r.action \in Held[i].actions
  /\ r.domain \in Held[i].domains
  /\ Rank(r.risk) <= Rank(Held[i].ceiling)

\* What the check has computed of the frame when it gives its answer: a
\* mandate that cannot be read is not named, and the effective ceiling is
\* known once the mandate holds and covers the action.
NoFrame == <<>>

Frame(i, r, c) ==
  LET m == MandateOf(c)
      held == Readable(m)
      covers == held /\ IsValid(m) /\ r.action \in ActionTypes(m.scope)
  IN  [provenance |-> contexts[c].provenance,
       mandate |-> IF held THEN m ELSE NoMandate,
       ceiling |-> IF covers THEN EffectiveCeiling(i, m) ELSE "none"]

\* Defect: a revocation is not looked at.
Unexpired(i, gone) == ~Expired(i)

\* Neither revoked, in the copy that was read, nor expired by now.
Live(i, gone) == ~gone /\ ~Expired(i)

\* check_capability of one copy; skip is that of a granted re-entry.
CheckCapability(i, gone, r, skip, c) ==
  LET live == ~(required /\ c = 0) /\ Live(i, gone)
      reserved == OwnerMandatory(r) /\ ~skip
      covered == live /\ ~reserved /\ InScope(i, r)
      allowed == covered /\ (required => MandateAllows(i, r, MandateOf(c)))
  IN  [decision |-> CASE allowed -> "ALLOW"
                      [] live /\ reserved -> "OWNER_MANDATORY"
                      [] OTHER -> "DENY",
       frame |-> IF required /\ covered THEN Frame(i, r, c) ELSE NoFrame]

First(S) == CHOOSE i \in S : \A j \in S : i <= j

\* Defect: the answer for the first copy decides.
FirstAnswer(answers) == First(DOMAIN answers)

\* The loop over the copies: the first stands until an ALLOW ends the loop
\* or, if it is a DENY, an OWNER_MANDATORY takes its place.
Best(answers) ==
  LET read == DOMAIN answers
      later == read \ {First(read)}
      Saying(d) == {i \in later : answers[i].decision = d}
  IN  IF Saying("ALLOW") # {} THEN First(Saying("ALLOW"))
      ELSE IF /\ answers[First(read)].decision = "DENY"
              /\ Saying("OWNER_MANDATORY") # {}
           THEN First(Saying("OWNER_MANDATORY"))
           ELSE First(read)

Evaluate(t, r, skip, copies) ==
  /\ evaluation[t] = <<>>
  /\ evaluation' = [evaluation EXCEPT ![t] =
       [step |-> "read", request |-> r, skip |-> skip, copies |-> copies]]
  /\ UNCHANGED <<time, required, contexts, revoked>>

\* evaluate: the capabilities of the principal, who has some.
ReadCapabilities(t, r) ==
  HeldBy(r.principal) # {} /\ Evaluate(t, r, FALSE, Copies(r.principal))

\* reenter: the capability i the grant was reserved with, live or not; skip
\* is for a grant that was reserved for the action or the risk of r.
ReadGranted(t, r, i, skip) ==
  /\ i \in HeldBy(r.principal)
  /\ skip => OwnerMandatory(r)
  /\ Evaluate(t, r, skip, [j \in {i} |-> j \in revoked])

\* The check reads the context c that is bound, and the clock.
Check(t, c) ==
  /\ evaluation[t] # <<>> /\ evaluation[t].step = "read"
  /\ LET e == evaluation[t]
         answers == [i \in DOMAIN e.copies |->
                       CheckCapability(i, e.copies[i], e.request, e.skip, c)]
     IN  evaluation' = [evaluation EXCEPT ![t] =
           [step |-> "checked", request |-> e.request, skip |-> e.skip,
            copies |-> e.copies, answers |-> answers, by |-> Best(answers),
            under |-> c, at |-> time]]
  /\ UNCHANGED <<time, required, contexts, revoked>>

\* Defect: the context bound by then is read again.
FrameReread(e, c) ==
  IF required /\ c # 0 THEN Frame(e.by, e.request, c) ELSE NoFrame

\* _audit_record writes the frame of the check that decided, not that of the
\* context c bound by then.
FrameWritten(e, c) == e.answers[e.by].frame

Record(t, c) ==
  /\ evaluation[t] # <<>> /\ evaluation[t].step = "checked"
  /\ LET e == evaluation[t]
     IN  evaluation' = [evaluation EXCEPT ![t] =
           [step |-> "recorded", request |-> e.request, under |-> e.under,
            decision |-> e.answers[e.by].decision, frame |-> FrameWritten(e, c)]]
  /\ UNCHANGED <<time, required, contexts, revoked>>

Return(t) ==
  /\ evaluation[t] # <<>> /\ evaluation[t].step = "recorded"
  /\ evaluation' = [evaluation EXCEPT ![t] = <<>>]
  /\ UNCHANGED <<time, required, contexts, revoked>>

DelegationNext ==
  \/ \E m \in Offered : Begin(m) \/ PropagateForCron(m)
  \/ \E p \in 0..Len(contexts), m \in Offered : PropagateForSubagent(p, m)
  \/ Elapse
  \/ \E i \in DOMAIN Held : RevokeHeld(i)
  \/ \E t \in Callers :
       \/ \E r \in Requests :
            \/ ReadCapabilities(t, r)
            \/ \E i \in DOMAIN Held, skip \in BOOLEAN : ReadGranted(t, r, i, skip)
       \/ \E c \in Bindable : Check(t, c) \/ Record(t, c)
       \/ Return(t)

DelegationSpec == DelegationInit /\ [][DelegationNext]_delegationVars

-----------------------------------------------------------------------------

Frames ==
  {NoFrame} \cup [provenance: Provenances, mandate: Offered \cup {NoMandate},
                 ceiling: RiskLevel \cup {"none"}]

Decisions == {"ALLOW", "DENY", "OWNER_MANDATORY"}

\* A function on some of the capabilities.
PerCopy(f, T) == DOMAIN f \subseteq DOMAIN Held /\ \A i \in DOMAIN f : f[i] \in T

IsEvaluation(e) ==
  /\ e.step \in {"read", "checked", "recorded"}
  /\ e.request \in Requests
  /\ e.step # "recorded" => e.skip \in BOOLEAN /\ PerCopy(e.copies, BOOLEAN)
  /\ e.step = "checked" =>
       /\ PerCopy(e.answers, [decision: Decisions, frame: Frames])
       /\ e.by \in DOMAIN e.answers
       /\ e.at \in 0..MaxTime
  /\ e.step # "read" => e.under \in Bindable
  /\ e.step = "recorded" => e.decision \in Decisions /\ e.frame \in Frames

DelegationTypeOK ==
  /\ time \in 0..MaxTime
  /\ required \in BOOLEAN
  /\ contexts \in Seq([parent: 0..MaxContexts, above: SUBSET (1..MaxContexts),
                       mandate: Offered, provenance: Provenances])
  /\ Len(contexts) <= MaxContexts
  /\ revoked \in SUBSET DOMAIN Held
  /\ DOMAIN evaluation = Callers
  /\ \A t \in Callers : evaluation[t] # <<>> => IsEvaluation(evaluation[t])

Within(m, other) ==
  /\ ActionTypes(m.scope) \subseteq ActionTypes(other.scope)
  /\ Rank(RiskCeiling(m.scope)) <= Rank(RiskCeiling(other.scope))

\* Every mandate from c up to the root of its delegation can be read.
ReadableLineage(c) ==
  \A a \in contexts[c].above \cup {c} : Readable(contexts[a].mandate)

\* Where every mandate can be read, no context reaches further, by scope or
\* by ceiling, than any context it was delegated from, at any remove.
NarrowsDownTheLineage ==
  \A c \in Contexts : ReadableLineage(c) =>
    \A a \in contexts[c].above : Within(contexts[c].mandate, contexts[a].mandate)

Decided(t) == evaluation[t] # <<>> /\ evaluation[t].step = "checked"
Decision(e) == e.answers[e.by].decision

\* With contexts required, a request that is allowed is within the mandate
\* of every context above the one it ran under, and within the ceiling of
\* the capability: none is allowed a COMMIT, even the Owner.
AllowedByTheLineage ==
  \A t \in Callers :
    LET e == evaluation[t]
    IN  Decided(t) /\ Decision(e) = "ALLOW" /\ required =>
          /\ e.under # 0
          /\ Rank(e.request.risk) <= Rank(Held[e.by].ceiling)
          /\ ReadableLineage(e.under) =>
               \A a \in contexts[e.under].above \cup {e.under} :
                 /\ e.request.action \in ActionTypes(contexts[a].mandate.scope)
                 /\ Rank(e.request.risk) <= Rank(RiskCeiling(contexts[a].mandate.scope))

\* The capability that allows a request was live: bound to the principal, not
\* revoked when it was read, not expired when it was checked, though the
\* clock and the registry have moved in between; and what is the Owner's to
\* decide was allowed to another only as a granted re-entry.
AllowedByALiveCapability ==
  \A t \in Callers :
    LET e == evaluation[t]
    IN  Decided(t) /\ Decision(e) = "ALLOW" =>
          /\ Held[e.by].holder = e.request.principal
          /\ ~e.copies[e.by]
          /\ e.at < Held[e.by].expires
          /\ OwnerMandatory(e.request) => e.skip

\* The loop over the copies loses no answer: a request is denied when every
\* capability denies it, and escalated when one reserves and none allows it.
DecidesByTheBest ==
  \A t \in Callers : Decided(t) =>
    LET e == evaluation[t]
        given == {e.answers[i].decision : i \in DOMAIN e.answers}
    IN  /\ Decision(e) = "DENY" => given = {"DENY"}
        /\ Decision(e) = "OWNER_MANDATORY" => "ALLOW" \notin given

\* The frame in the audit record is that of the context the check decided
\* under, whatever the thread has been given since, and it accounts for an
\* ALLOW: the mandate it names covers the action, the ceiling the risk.
RecordNamesTheCheck ==
  \A t \in Callers :
    LET e == evaluation[t]
    IN  e # <<>> /\ e.step = "recorded" =>
          /\ e.frame # NoFrame =>
               /\ e.under # 0
               /\ e.frame.provenance = contexts[e.under].provenance
               /\ e.frame.mandate \in {NoMandate, contexts[e.under].mandate}
          /\ e.decision = "ALLOW" /\ required =>
               /\ e.frame # NoFrame
               /\ Readable(e.frame.mandate)
               /\ e.frame.ceiling # "none"
               /\ e.request.action \in ActionTypes(e.frame.mandate.scope)
               /\ Rank(e.request.risk) <= Rank(e.frame.ceiling)

\* What a mandate allows at this time, as Mandate.allows_action.
Authority(m) ==
  {x \in ActionType \X RiskLevel :
     /\ Readable(m)
     /\ IsValid(m)
     /\ x[1] \in ActionTypes(m.scope)
     /\ Rank(x[2]) <= Rank(RiskCeiling(m.scope))}

\* "The child's mandate MUST be a subset of the parent's mandate": what a
\* subagent's mandate allows, its parent's allows.
ChildWithinParent ==
  \A c \in Contexts : LET p == contexts[c].parent IN
    p # 0 => Authority(contexts[c].mandate) \subseteq Authority(contexts[p].mandate)

=============================================================================
