--------------------------- MODULE MediatorProofs ---------------------------
(***************************************************************************)
(* Theorems about Mediator for every set of threads, escalations,          *)
(* principals, payloads, capabilities, policies and identities.  The       *)
(* invariants of Mediator speak of the stores; what makes them inductive   *)
(* is what a call in flight already knows when it takes its next step.     *)
(***************************************************************************)
EXTENDS Mediator, TLAPS, FiniteSetTheorems, SequenceTheorems

-----------------------------------------------------------------------------
(* The parts of the inductive invariant.                                   *)

\* The steps of a re-entry after its record was read.
Reentering == {"gate", "lookup", "check", "provenance", "hash", "consume"}

\* Which locals of a call hold a value, step by step: the part of its type
\* the actions rely on.
LocalsDefined(c) ==
  /\ c.step \in {"eval_gate", "eval_check", "eval_provenance", "create",
                 "reserve", "get"} \cup Reentering
       => c.principal \in Principals /\ c.payload \in Payloads
  /\ c.step \in {"attach", "reserve", "rollback", "resolve"} \cup Reentering
       => c.escalation \in Escalations
  /\ c.step \in {"decide", "attach"} => c.decision \in Decisions
  /\ c.step \in {"create", "reserve"} => c.reason \in ReasonClass
  /\ c.step \in {"authorize"} => c.principal \in Principals
  /\ c.step = "finish" /\ c.verdict = "PERMIT"
       => c.principal \in Principals /\ c.payload \in Payloads

TypeInv == TypeOK /\ \A t \in Threads : LocalsDefined(calls[t])

\* A record has a ruling exactly once it is decided.
RulingsRecorded ==
  \A e \in Escalations :
    escalations[e].decision # None
      <=> escalations[e].status \in {"decided", "resolved"}

\* A grant with a ruling or a redemption is a reserved one, under a record.
GrantsAreReserved ==
  \A e \in Escalations :
    /\ grants[e].consumed \/ grants[e].decision # None => grants[e].reserved
    /\ grants[e].reserved => escalations[e].status # "absent"

\* Calls work on records there are; one that is being created belongs to its
\* creator alone, is undecided and has no grant yet.
CreationIsPrivate ==
  \A t \in Threads :
    /\ calls[t].escalation # None
         => escalations[calls[t].escalation].status # "absent"
    /\ calls[t].step = "reserve" =>
         /\ escalations[calls[t].escalation].status = "pending"
         /\ ~grants[calls[t].escalation].reserved
         /\ \A u \in Threads :
              calls[u].escalation = calls[t].escalation => u = t

\* A call past MediatorDecide carries the ruling of the record; a call past
\* GetEscalation was approved by the Owner for its principal.
RulingsKnown ==
  \A t \in Threads :
    LET c == calls[t] IN
    /\ c.step = "attach" =>
         /\ escalations[c.escalation].status \in {"decided", "resolved"}
         /\ escalations[c.escalation].decision = c.decision
    /\ c.step \in Reentering =>
         /\ escalations[c.escalation].decision = "permit"
         /\ escalations[c.escalation].principal = c.principal

\* What a call past the capability check may claim, and what it claims once
\* it is about to answer PERMIT; permits only ever rest on reserved grants.
Cleared(c) ==
  /\ c.capability \in Capabilities
  /\ Holder[c.capability] = c.principal
  /\ c.payload \in Scope[c.capability]

Warranted(m) ==
  /\ Approved(m)
  /\ m.escalation # None => grants[m.escalation].reserved

LocalClaims(c) ==
  /\ c.step \in {"eval_gate", "eval_check", "eval_provenance"}
       => c.escalation = None
  /\ c.step \in {"eval_provenance", "provenance", "hash", "consume"}
       => Cleared(c)
  /\ c.step = "eval_provenance"
       => OwnerMandatory(c.principal, c.payload) = None

Permitting(c) == c.step = "finish" /\ c.verdict = "PERMIT"

ClaimsHold ==
  /\ \A t \in Threads : /\ LocalClaims(calls[t])
                        /\ Permitting(calls[t]) => Warranted(calls[t])
  /\ \A n \in DOMAIN permits : Warranted(permits[n])

RulingInv ==
  /\ RulingsRecorded
  /\ GrantsAreReserved
  /\ CreationIsPrivate
  /\ RulingsKnown
  /\ StoresAgree

\* While no audit write raises nothing is rolled back: a redeemed grant stays
\* consumed, by one call, for one PERMIT at most.
Redeeming(t) ==
  calls[t].step = "finish" /\ calls[t].verdict = "PERMIT"
    /\ calls[t].escalation # None

OneRedemption ==
  /\ \A t \in Threads :
       /\ calls[t].step # "rollback"
       /\ Redeeming(t) =>
            /\ grants[calls[t].escalation].consumed
            /\ \A u \in Threads :
                 Redeeming(u) /\ calls[u].escalation = calls[t].escalation
                   => u = t
            /\ \A n \in DOMAIN permits :
                 permits[n].escalation # calls[t].escalation
  /\ \A n \in DOMAIN permits :
       permits[n].escalation # None => grants[permits[n].escalation].consumed
  /\ RedeemedAtMostOnce

-----------------------------------------------------------------------------
(* Types.                                                                  *)

\* The selection loop ends on a capability there is, or on none.
LEMMA BestCandidatesType ==
  ASSUME NEW p, NEW x, NEW k \in BestCandidates(p, x)
  PROVE  k \in Capabilities \cup {None}
BY DEF BestCandidates, Candidates

LEMMA TypeInit == Init => TypeInv
BY ConstantsAssumption
   DEF Init, TypeInv, TypeOK, LocalsDefined, Reentering, EscalationRecord,
       NoEscalation, ReservedGrant, NoGrant, Call, Idle, Steps

\* What every step does to the call of its thread: a well-typed call whose
\* locals are defined goes on as another.
LEMMA ContinueType ==
  ASSUME TypeInv, NEW t \in Threads, NEW c \in Call, Continue(t, c),
         LocalsDefined(c)
  PROVE  calls' \in [Threads -> Call] /\ \A u \in Threads : LocalsDefined(calls'[u])
BY DEF TypeInv, TypeOK, Continue

LEMMA IdleType == Idle \in Call /\ LocalsDefined(Idle)
BY DEF Idle, Call, Steps, LocalsDefined, Reentering

LEMMA FinishingType ==
  ASSUME NEW v \in {"DENY", "ESCALATE"}, NEW e \in Escalations \cup {None}
  PROVE  Finishing(v, e) \in Call /\ LocalsDefined(Finishing(v, e))
BY DEF Finishing, Idle, Call, Steps, LocalsDefined, Reentering

LEMMA RequestType ==
  ASSUME TypeInv, NEW t \in Threads, Request(t)
  PROVE  TypeInv'
<1>1. ASSUME NEW c \in Call, LocalsDefined(c), Begin(t, c)
      PROVE  TypeInv'
  BY <1>1, ContinueType, ConstantsAssumption
     DEF TypeInv, TypeOK, Begin, environment, stores
<1>2. ASSUME NEW p \in Principals, NEW x \in Payloads, Evaluate(t, p, x)
      PROVE  TypeInv'
  BY <1>1, <1>2 DEF Evaluate, Idle, Call, Steps, LocalsDefined, Reentering
<1>3. ASSUME NEW p \in Principals, NEW x \in Payloads,
             NEW e \in Escalations \cup {None}, Reenter(t, p, x, e)
      PROVE  TypeInv'
  BY <1>1, <1>3 DEF Reenter, Idle, Call, Steps, LocalsDefined, Reentering
<1>4. ASSUME NEW p \in Principals, NEW e \in Escalations \cup {None},
             NEW d \in Decisions, DecideEscalation(t, p, e, d)
      PROVE  TypeInv'
  BY <1>1, <1>4
     DEF DecideEscalation, Idle, Call, Steps, LocalsDefined, Reentering
<1>5. ASSUME NEW p \in Principals, NEW h \in Policies, UpdatePolicy(t, p, h)
      PROVE  TypeInv'
  BY <1>1, <1>5 DEF UpdatePolicy, Idle, Call, Steps, LocalsDefined, Reentering
<1>6. CASE Refuse(t)
  BY <1>1, <1>6, FinishingType DEF Refuse
<1> QED
  BY <1>2, <1>3, <1>4, <1>5, <1>6 DEF Request

\* A step that only moves its call on keeps the types.
LEMMA ReadStepType ==
  ASSUME TypeInv, NEW t \in Threads, NEW c \in Call, LocalsDefined(c),
         Continue(t, c), UNCHANGED <<environment, stores, started, permits>>
  PROVE  TypeInv'
BY ContinueType DEF TypeInv, TypeOK, environment, stores

\* A call that runs is a well-typed record; c abbreviates it below.
LEMMA CallType ==
  ASSUME TypeInv, NEW t \in Threads
  PROVE  \E c \in Call : c = calls[t] /\ LocalsDefined(c)
BY DEF TypeInv, TypeOK

LEMMA EvaluateType ==
  ASSUME TypeInv, NEW t \in Threads,
         EvaluateGate(t) \/ EvaluateCheck(t) \/ EvaluateProvenance(t)
  PROVE  TypeInv'
<1>1. PICK c \in Call : c = calls[t] /\ LocalsDefined(c)
  BY CallType
<1>2. CASE EvaluateGate(t)
  <2>1. c.step = "eval_gate"
    BY <1>1, <1>2 DEF EvaluateGate
  <2>2. LET d == [c EXCEPT !.step = "create", !.reason = "policy"]
        IN d \in Call /\ LocalsDefined(d)
    <3> DEFINE e == [c EXCEPT !.step = "create", !.reason = "policy"]
    <3>1. e \in Call
      <4>1. "create" \in Steps /\ "policy" \in ReasonClass
        BY DEF Steps, ReasonClass
      <4> QED
        BY <4>1 DEF Call
    <3>2. LocalsDefined(e)
      BY <1>1, <2>1 DEF Call, LocalsDefined, Reentering, ReasonClass
    <3> QED
      BY <3>1, <3>2
  <2>3. LET d == [c EXCEPT !.step = "eval_check"]
        IN d \in Call /\ LocalsDefined(d)
    <3> DEFINE e == [c EXCEPT !.step = "eval_check"]
    <3>1. e \in Call
      <4>1. "eval_check" \in Steps
        BY DEF Steps
      <4> QED
        BY <4>1 DEF Call
    <3>2. LocalsDefined(e)
      BY <1>1, <2>1 DEF Call, LocalsDefined, Reentering
    <3> QED
      BY <3>1, <3>2
  <2> QED
    BY <1>1, <1>2, <2>2, <2>3, ReadStepType DEF EvaluateGate
<1>3. CASE EvaluateCheck(t)
  <2>1. c.step = "eval_check"
    BY <1>1, <1>3 DEF EvaluateCheck
  <2>2. PICK k \in BestCandidates(c.principal, c.payload) :
          \/ Continue(t, Finishing("DENY", None))
          \/ /\ CheckCapability(c.principal, k, c.payload, FALSE)
                  = "OWNER_MANDATORY"
             /\ Continue(t, [c EXCEPT !.step = "create", !.capability = k,
                              !.reason = OwnerMandatory(c.principal, c.payload)])
          \/ Continue(t, [c EXCEPT !.step = "eval_provenance",
                                   !.capability = k])
    BY <1>1, <1>3 DEF EvaluateCheck
  <2>3. k \in Capabilities \cup {None}
    BY BestCandidatesType
  <2>4. UNCHANGED <<environment, stores, started, permits>>
    BY <1>3 DEF EvaluateCheck
  <2>5. CASE Continue(t, Finishing("DENY", None))
    BY <2>4, <2>5, FinishingType, ReadStepType
  <2>6. CASE /\ CheckCapability(c.principal, k, c.payload, FALSE)
                  = "OWNER_MANDATORY"
             /\ Continue(t, [c EXCEPT !.step = "create", !.capability = k,
                              !.reason = OwnerMandatory(c.principal, c.payload)])
    <3>1. OwnerMandatory(c.principal, c.payload) \in ReasonClass
      BY <2>6 DEF CheckCapability, Reserved, OwnerMandatory, ReasonClass
    <3>2. LET d == [c EXCEPT !.step = "create", !.capability = k,
                      !.reason = OwnerMandatory(c.principal, c.payload)]
          IN d \in Call /\ LocalsDefined(d)
      <4> DEFINE e == [c EXCEPT !.step = "create", !.capability = k,
                         !.reason = OwnerMandatory(c.principal, c.payload)]
      <4>1. e \in Call
        <5>1. "create" \in Steps
          BY DEF Steps
        <5> QED
          BY <2>3, <3>1, <5>1 DEF Call
      <4>2. LocalsDefined(e)
        BY <1>1, <2>1, <2>3, <3>1 DEF Call, LocalsDefined, Reentering
      <4> QED
        BY <4>1, <4>2
    <3> QED
      BY <2>4, <2>6, <3>2, ReadStepType
  <2>7. CASE Continue(t, [c EXCEPT !.step = "eval_provenance", !.capability = k])
    <3>1. LET d == [c EXCEPT !.step = "eval_provenance", !.capability = k]
          IN d \in Call /\ LocalsDefined(d)
      <4> DEFINE e == [c EXCEPT !.step = "eval_provenance", !.capability = k]
      <4>1. e \in Call
        <5>1. "eval_provenance" \in Steps
          BY DEF Steps
        <5> QED
          BY <2>3, <5>1 DEF Call
      <4>2. LocalsDefined(e)
        BY <1>1, <2>1, <2>3 DEF Call, LocalsDefined, Reentering
      <4> QED
        BY <4>1, <4>2
    <3> QED
      BY <2>4, <2>7, <3>1, ReadStepType
  <2> QED
    BY <2>2, <2>5, <2>6, <2>7
<1>4. CASE EvaluateProvenance(t)
  <2>1. c.step = "eval_provenance"
    BY <1>1, <1>4 DEF EvaluateProvenance
  <2>2. ASSUME NEW i \in Identities
        PROVE  LET d == [c EXCEPT !.step = "finish", !.verdict = "PERMIT",
                                  !.identity = i]
               IN d \in Call /\ LocalsDefined(d)
    <3> DEFINE e == [c EXCEPT !.step = "finish", !.verdict = "PERMIT",
                              !.identity = i]
    <3>1. e \in Call
      <4>1. "finish" \in Steps
        BY DEF Steps
      <4> QED
        BY <4>1 DEF Call
    <3>2. LocalsDefined(e)
      BY <1>1, <2>1 DEF Call, LocalsDefined, Reentering
    <3> QED
      BY <3>1, <3>2
  <2>3. LET d == [c EXCEPT !.step = "create", !.reason = "provenance"]
        IN d \in Call /\ LocalsDefined(d)
    <3> DEFINE e == [c EXCEPT !.step = "create", !.reason = "provenance"]
    <3>1. e \in Call
      <4>1. "create" \in Steps /\ "provenance" \in ReasonClass
        BY DEF Steps, ReasonClass
      <4> QED
        BY <4>1 DEF Call
    <3>2. LocalsDefined(e)
      BY <1>1, <2>1 DEF Call, LocalsDefined, Reentering, ReasonClass
    <3> QED
      BY <3>1, <3>2
  <2> QED
    BY <1>1, <1>4, <2>2, <2>3, FinishingType, ReadStepType
       DEF EvaluateProvenance
<1> QED
  BY <1>2, <1>3, <1>4

LEMMA EscalateType ==
  ASSUME TypeInv, NEW t \in Threads,
         CreateEscalation(t) \/ CreatePendingContext(t)
  PROVE  TypeInv'
<1>1. PICK c \in Call : c = calls[t] /\ LocalsDefined(c)
  BY CallType
<1>2. CASE CreateEscalation(t)
  <2>1. PICK e \in Escalations :
          /\ escalations' = [escalations EXCEPT
               ![e] = [status |-> "pending", principal |-> c.principal,
                       decision |-> None]]
          /\ Continue(t, [c EXCEPT !.step = "reserve", !.escalation = e])
    BY <1>1, <1>2 DEF CreateEscalation
  <2>2. c.step = "create"
    BY <1>1, <1>2 DEF CreateEscalation
  <2>3. LET d == [c EXCEPT !.step = "reserve", !.escalation = e]
        IN d \in Call /\ LocalsDefined(d)
    <3> DEFINE d == [c EXCEPT !.step = "reserve", !.escalation = e]
    <3>1. d \in Call
      <4>1. "reserve" \in Steps
        BY DEF Steps
      <4> QED
        BY <4>1 DEF Call
    <3>2. LocalsDefined(d)
      BY <1>1, <2>2 DEF Call, LocalsDefined, Reentering
    <3> QED
      BY <3>1, <3>2
  <2>4. escalations' \in [Escalations -> EscalationRecord]
    BY <1>1, <2>1, <2>2
       DEF TypeInv, TypeOK, LocalsDefined, EscalationRecord
  <2> QED
    BY <1>2, <2>1, <2>3, <2>4, ContinueType
       DEF CreateEscalation, TypeInv, TypeOK, environment
<1>3. CASE CreatePendingContext(t)
  <2>1. c.step = "reserve"
    BY <1>1, <1>3 DEF CreatePendingContext
  <2>2. ASSUME NEW h \in Policies \cup {None}, NEW i \in Identities \cup {None}
        PROVE  PendingContext(c, h, i) \in ReservedGrant
    <3>1. /\ c.principal \in Principals \cup {None}
          /\ c.payload \in Payloads \cup {None}
          /\ c.capability \in Capabilities \cup {None}
          /\ c.reason \in ReasonClass \cup {None}
      BY DEF Call
    <3>2. NoGrant \in ReservedGrant
      BY DEF NoGrant, ReservedGrant
    <3> DEFINE g == [NoGrant EXCEPT !.reserved = TRUE,
                       !.principal = c.principal, !.payload = c.payload]
    <3>3. g \in ReservedGrant
      BY <3>1, <3>2 DEF ReservedGrant
    <3>4. PendingContext(c, h, i)
            = [g EXCEPT !.capability = c.capability, !.policy = h,
                        !.identity = i, !.reason = c.reason]
      BY <3>2 DEF PendingContext, ReservedGrant
    <3> HIDE DEF g
    <3> QED
      BY <3>1, <3>3, <3>4 DEF ReservedGrant
  <2>3. PICK i \in Identities \cup {None} :
          grants' = [grants EXCEPT ![c.escalation] =
                                     PendingContext(c, policy, i)]
    BY <1>1, <1>3 DEF CreatePendingContext
  <2>4. grants' \in [Escalations -> ReservedGrant]
    BY <2>2, <2>3 DEF TypeInv, TypeOK
  <2>5. LET d == [Finishing("ESCALATE", c.escalation) EXCEPT
                    !.reason = c.reason]
        IN d \in Call /\ LocalsDefined(d)
    <3>1. [Finishing("ESCALATE", c.escalation) EXCEPT !.reason = c.reason]
            \in Call
      BY DEF Finishing, Idle, Call, Steps
    <3>2. LocalsDefined([Finishing("ESCALATE", c.escalation) EXCEPT
                           !.reason = c.reason])
      BY DEF Finishing, Idle, LocalsDefined, Reentering
    <3> QED
      BY <3>1, <3>2
  <2> QED
    BY <1>1, <1>3, <2>4, <2>5, ContinueType
       DEF CreatePendingContext, TypeInv, TypeOK, environment
<1> QED
  BY <1>2, <1>3

LEMMA OwnerType ==
  ASSUME TypeInv, NEW t \in Threads,
         \/ Authorize(t) \/ MediatorDecide(t) \/ AttachOwnerDecision(t)
         \/ AssignPolicy(t)
  PROVE  TypeInv'
<1>1. PICK c \in Call : c = calls[t] /\ LocalsDefined(c)
  BY CallType
<1>2. CASE Authorize(t)
  <2>1. LET d == [c EXCEPT !.step = IF c.decision = None
                                      THEN "update_policy" ELSE "decide"]
        IN d \in Call /\ LocalsDefined(d)
    <3> DEFINE e == [c EXCEPT !.step = IF c.decision = None
                                         THEN "update_policy" ELSE "decide"]
    <3>1. e \in Call
      <4>1. "update_policy" \in Steps /\ "decide" \in Steps
        BY DEF Steps
      <4> QED
        BY <4>1 DEF Call
    <3>2. LocalsDefined(e)
      BY <1>1 DEF Call, LocalsDefined, Reentering
    <3> QED
      BY <3>1, <3>2
  <2> QED
    BY <1>1, <1>2, <2>1, FinishingType, ReadStepType DEF Authorize
<1>3. CASE MediatorDecide(t)
  <2>1. CASE c.escalation # None /\ Decidable(c.escalation)
    <3>1. c.step = "decide"
      BY <1>1, <1>3 DEF MediatorDecide
    <3>2. LET d == [c EXCEPT !.step = "attach"] IN d \in Call /\ LocalsDefined(d)
      <4> DEFINE e == [c EXCEPT !.step = "attach"]
      <4>1. e \in Call
        <5>1. "attach" \in Steps
          BY DEF Steps
        <5> QED
          BY <3>1, <5>1 DEF Call
      <4>2. LocalsDefined(e)
        BY <1>1, <2>1, <3>1 DEF Call, LocalsDefined, Reentering
      <4> QED
        BY <4>1, <4>2
    <3>3. escalations' \in [Escalations -> EscalationRecord]
      <4>1. c.decision \in Decisions /\ c.escalation \in Escalations
        BY <1>1, <2>1, <3>1 DEF LocalsDefined, Call
      <4>2. ASSUME NEW r \in EscalationRecord
            PROVE  [r EXCEPT !.status = "decided", !.decision = c.decision]
                     \in EscalationRecord
        BY <4>1 DEF EscalationRecord
      <4>3. escalations' = [escalations EXCEPT ![c.escalation] =
              [@ EXCEPT !.status = "decided", !.decision = c.decision]]
        BY <1>1, <1>3, <2>1 DEF MediatorDecide
      <4> QED
        BY <4>1, <4>2, <4>3 DEF TypeInv, TypeOK
    <3> QED
      BY <1>1, <1>3, <2>1, <3>2, <3>3, ContinueType
         DEF MediatorDecide, TypeInv, TypeOK, environment
  <2>2. CASE ~(c.escalation # None /\ Decidable(c.escalation))
    BY <1>1, <1>3, <2>2, FinishingType, ContinueType
       DEF MediatorDecide, TypeInv, TypeOK, environment
  <2> QED
    BY <2>1, <2>2
<1>4. CASE AttachOwnerDecision(t)
  <2>1. c.decision \in Decisions /\ c.escalation \in Escalations
    BY <1>1, <1>4 DEF AttachOwnerDecision, LocalsDefined
  <2>2. grants' \in [Escalations -> ReservedGrant]
    <3>1. ASSUME NEW g \in ReservedGrant
          PROVE  [g EXCEPT !.decision = IF g.reserved THEN c.decision ELSE @]
                   \in ReservedGrant
      BY <2>1 DEF ReservedGrant
    <3> QED
      BY <1>1, <1>4, <2>1, <3>1 DEF AttachOwnerDecision, TypeInv, TypeOK
  <2>3. c.escalation \in Escalations \cup {None}
    BY DEF Call
  <2> QED
    BY <1>1, <1>4, <2>2, <2>3, FinishingType, ContinueType
       DEF AttachOwnerDecision, TypeInv, TypeOK, environment
<1>5. CASE AssignPolicy(t)
  BY <1>1, <1>5, FinishingType, ContinueType
     DEF AssignPolicy, TypeInv, TypeOK, Call, stores
<1> QED
  BY <1>2, <1>3, <1>4, <1>5

LEMMA ReenterType ==
  ASSUME TypeInv, NEW t \in Threads,
         \/ GetEscalation(t) \/ ReenterGate(t) \/ LookupGrant(t)
         \/ ReenterCheck(t) \/ ReenterProvenance(t) \/ ReadPolicyHash(t)
  PROVE  TypeInv'
<1>1. PICK c \in Call : c = calls[t] /\ LocalsDefined(c)
  BY CallType
<1>2. c.escalation \in Escalations \cup {None}
  BY DEF Call
<1>3. CASE GetEscalation(t)
  <2>1. c.step = "get"
    BY <1>1, <1>3 DEF GetEscalation
  <2>2. c.escalation # None
          => LET d == [c EXCEPT !.step = "gate"]
             IN d \in Call /\ LocalsDefined(d)
    BY <1>1, <1>2, <2>1 DEF Call, Steps, LocalsDefined, Reentering
  <2> QED
    BY <1>1, <1>2, <1>3, <2>2, FinishingType, ReadStepType DEF GetEscalation
<1>4. CASE ReenterGate(t)
  <2>1. c.step = "gate"
    BY <1>1, <1>4 DEF ReenterGate
  <2>2. LET d == [c EXCEPT !.step = "lookup"] IN d \in Call /\ LocalsDefined(d)
    <3> DEFINE e == [c EXCEPT !.step = "lookup"]
    <3>1. e \in Call
      <4>1. "lookup" \in Steps
        BY DEF Steps
      <4> QED
        BY <4>1 DEF Call
    <3>2. LocalsDefined(e)
      BY <1>1, <2>1 DEF Call, LocalsDefined, Reentering
    <3> QED
      BY <3>1, <3>2
  <2> QED
    BY <1>1, <1>2, <1>4, <2>2, FinishingType, ReadStepType DEF ReenterGate
<1>5. CASE LookupGrant(t)
  <2>1. c.step = "lookup"
    BY <1>1, <1>5 DEF LookupGrant
  <2>2. grants[c.escalation].capability \in Capabilities \cup {None}
    BY <1>1, <2>1 DEF TypeInv, TypeOK, LocalsDefined, Reentering, ReservedGrant
  <2>3. ASSUME NEW k \in Capabilities \cup {None}, NEW s \in BOOLEAN
        PROVE  LET d == [c EXCEPT !.step = "check", !.capability = k, !.skip = s]
               IN d \in Call /\ LocalsDefined(d)
    <3> DEFINE e == [c EXCEPT !.step = "check", !.capability = k, !.skip = s]
    <3>1. e \in Call
      <4>1. "check" \in Steps
        BY DEF Steps
      <4> QED
        BY <4>1 DEF Call
    <3>2. LocalsDefined(e)
      BY <1>1, <2>1 DEF Call, LocalsDefined, Reentering
    <3> QED
      BY <3>1, <3>2
  <2>4. \E s \in BOOLEAN :
          Continue(t, [c EXCEPT !.step = "check",
                         !.capability = grants[c.escalation].capability,
                         !.skip = s])
    BY <1>1, <1>5, Zenon DEF LookupGrant
  <2> QED
    BY <1>5, <2>2, <2>3, <2>4, ReadStepType DEF LookupGrant
<1>6. CASE ReenterCheck(t)
  <2>1. c.step = "check"
    BY <1>1, <1>6 DEF ReenterCheck
  <2>2. ASSUME NEW k \in Capabilities \cup {None}
        PROVE  LET d == [c EXCEPT !.step = "provenance", !.capability = k]
               IN d \in Call /\ LocalsDefined(d)
    <3> DEFINE e == [c EXCEPT !.step = "provenance", !.capability = k]
    <3>1. e \in Call
      <4>1. "provenance" \in Steps
        BY DEF Steps
      <4> QED
        BY <4>1 DEF Call
    <3>2. LocalsDefined(e)
      BY <1>1, <2>1 DEF Call, LocalsDefined, Reentering
    <3> QED
      BY <3>1, <3>2
  <2>3. \E k \in Capabilities \cup {None} :
          \/ Continue(t, [c EXCEPT !.step = "provenance", !.capability = k])
          \/ Continue(t, Finishing("DENY", c.escalation))
    <3>1. c.capability \in Capabilities \cup {None}
      BY DEF Call
    <3> QED
      BY <1>1, <1>6, <3>1, BestCandidatesType DEF ReenterCheck
  <2> QED
    BY <1>2, <1>6, <2>2, <2>3, FinishingType, ReadStepType DEF ReenterCheck
<1>7. CASE ReenterProvenance(t)
  <2>1. c.step = "provenance"
    BY <1>1, <1>7 DEF ReenterProvenance
  <2>2. ASSUME NEW i \in Identities
        PROVE  LET d == [c EXCEPT !.step = "hash", !.identity = i]
               IN d \in Call /\ LocalsDefined(d)
    <3> DEFINE e == [c EXCEPT !.step = "hash", !.identity = i]
    <3>1. e \in Call
      <4>1. "hash" \in Steps
        BY DEF Steps
      <4> QED
        BY <4>1 DEF Call
    <3>2. LocalsDefined(e)
      BY <1>1, <2>1 DEF Call, LocalsDefined, Reentering
    <3> QED
      BY <3>1, <3>2
  <2> QED
    BY <1>1, <1>2, <1>7, <2>2, FinishingType, ReadStepType
       DEF ReenterProvenance
<1>8. CASE ReadPolicyHash(t)
  <2>1. c.step = "hash" /\ policy \in Policies \cup {None}
    BY <1>1, <1>8 DEF ReadPolicyHash, TypeInv, TypeOK
  <2>2. LET d == [c EXCEPT !.step = "consume", !.policy = policy]
        IN d \in Call /\ LocalsDefined(d)
    <3> DEFINE e == [c EXCEPT !.step = "consume", !.policy = policy]
    <3>1. e \in Call
      <4>1. "consume" \in Steps
        BY DEF Steps
      <4> QED
        BY <2>1, <4>1 DEF Call
    <3>2. LocalsDefined(e)
      BY <1>1, <2>1 DEF Call, LocalsDefined, Reentering
    <3> QED
      BY <3>1, <3>2
  <2> QED
    BY <1>1, <1>8, <2>2, ReadStepType DEF ReadPolicyHash
<1> QED
  BY <1>3, <1>4, <1>5, <1>6, <1>7, <1>8

LEMMA RedeemType ==
  ASSUME TypeInv, NEW t \in Threads,
         \/ ConsumeIfValid(t) \/ Finish(t) \/ Unconsume(t) \/ MediatorResolve(t)
  PROVE  TypeInv'
<1>1. PICK c \in Call : c = calls[t] /\ LocalsDefined(c)
  BY CallType
<1>2. c.escalation \in Escalations \cup {None}
  BY DEF Call
<1>3. CASE ConsumeIfValid(t)
  <2>1. c.step = "consume" /\ c.escalation \in Escalations
    BY <1>1, <1>3 DEF ConsumeIfValid, LocalsDefined, Reentering
  <2>2. CASE Redeemable(grants[c.escalation], c)
    <3>1. LET d == [c EXCEPT !.step = "finish", !.verdict = "PERMIT"]
          IN d \in Call /\ LocalsDefined(d)
      <4> DEFINE e == [c EXCEPT !.step = "finish", !.verdict = "PERMIT"]
      <4>1. e \in Call
        <5>1. "finish" \in Steps
          BY DEF Steps
        <5> QED
          BY <5>1 DEF Call
      <4>2. LocalsDefined(e)
        BY <1>1, <2>1 DEF Call, LocalsDefined, Reentering
      <4> QED
        BY <4>1, <4>2
    <3>2. grants' \in [Escalations -> ReservedGrant]
      <4>1. ASSUME NEW g \in ReservedGrant
            PROVE  [g EXCEPT !.consumed = TRUE] \in ReservedGrant
        BY DEF ReservedGrant
      <4>2. grants' = [grants EXCEPT ![c.escalation].consumed = TRUE]
        BY <1>1, <1>3, <2>2 DEF ConsumeIfValid
      <4> QED
        BY <2>1, <4>1, <4>2 DEF TypeInv, TypeOK
    <3>3. executions' \in Seq(ExecutionRecord) /\ execSeq' \in [Escalations -> Nat]
      <4>1. /\ executions' = Append(executions, [escalation |-> c.escalation,
                                                 rolled_back |-> FALSE])
            /\ execSeq' = [execSeq EXCEPT ![c.escalation] = Len(executions) + 1]
        BY <1>1, <1>3, <2>2 DEF ConsumeIfValid
      <4>2. [escalation |-> c.escalation, rolled_back |-> FALSE]
              \in ExecutionRecord
        BY <2>1 DEF ExecutionRecord
      <4>3. executions \in Seq(ExecutionRecord) /\ execSeq \in [Escalations -> Nat]
        BY DEF TypeInv, TypeOK
      <4>4. executions' \in Seq(ExecutionRecord)
        BY <4>1, <4>2, <4>3, AppendProperties
      <4>5. Len(executions) + 1 \in Nat
        BY <4>3, LenProperties
      <4> QED
        BY <4>1, <4>3, <4>4, <4>5
    <3> QED
      BY <1>1, <1>3, <2>2, <3>1, <3>2, <3>3, ContinueType
         DEF ConsumeIfValid, TypeInv, TypeOK, environment
  <2>3. CASE ~Redeemable(grants[c.escalation], c)
    BY <1>1, <1>2, <1>3, <2>3, FinishingType, ReadStepType
       DEF ConsumeIfValid, stores
  <2> QED
    BY <2>2, <2>3
<1>4. CASE Finish(t)
  <2>1. RollbackFailed(c) \in Call /\ LocalsDefined(RollbackFailed(c))
    <3>1. c.escalation # None
            => LET d == [Idle EXCEPT !.step = "rollback",
                           !.escalation = c.escalation, !.reason = c.reason]
               IN d \in Call /\ LocalsDefined(d)
      BY <1>2 DEF Idle, Call, Steps, LocalsDefined, Reentering
    <3> QED
      BY <3>1, IdleType DEF RollbackFailed
  <2>2. c.escalation # None
          => LET d == [Idle EXCEPT !.step = "resolve", !.escalation = c.escalation]
             IN d \in Call /\ LocalsDefined(d)
    BY <1>2 DEF Idle, Call, Steps, LocalsDefined, Reentering
  <2>3. permits' \in Seq(Permit)
    <3>1. c.step = "finish"
      BY <1>1, <1>4 DEF Finish
    <3>2. c.verdict = "PERMIT" =>
            [escalation |-> c.escalation, principal |-> c.principal,
             payload |-> c.payload, capability |-> c.capability,
             policy |-> c.policy, identity |-> c.identity] \in Permit
      BY <1>1, <3>1 DEF LocalsDefined, Call, Permit
    <3>3. \/ permits' = permits
          \/ /\ c.verdict = "PERMIT"
             /\ permits' = Append(permits,
                  [escalation |-> c.escalation, principal |-> c.principal,
                   payload |-> c.payload, capability |-> c.capability,
                   policy |-> c.policy, identity |-> c.identity])
      BY <1>1, <1>4 DEF Finish
    <3>4. permits \in Seq(Permit)
      BY DEF TypeInv, TypeOK
    <3> QED
      BY <3>2, <3>3, <3>4, AppendProperties
  <2>4. \E d \in Call : Continue(t, d) /\ LocalsDefined(d)
    BY <1>1, <1>4, <2>1, <2>2, IdleType DEF Finish
  <2> QED
    BY <1>4, <2>3, <2>4, ContinueType
       DEF Finish, TypeInv, TypeOK, environment, stores
<1>5. CASE Unconsume(t)
  <2>1. c.escalation \in Escalations
    BY <1>1, <1>5 DEF Unconsume, LocalsDefined
  <2>2. CASE grants[c.escalation].consumed
    <3>1. grants' \in [Escalations -> ReservedGrant]
      <4>1. ASSUME NEW g \in ReservedGrant
            PROVE  [g EXCEPT !.consumed = FALSE] \in ReservedGrant
        BY DEF ReservedGrant
      <4>2. grants' = [grants EXCEPT ![c.escalation].consumed = FALSE]
        BY <1>1, <1>5, <2>2 DEF Unconsume
      <4> QED
        BY <2>1, <4>1, <4>2 DEF TypeInv, TypeOK
    <3>2. execSeq' \in [Escalations -> Nat]
      BY <1>1, <1>5, <2>2 DEF Unconsume, TypeInv, TypeOK
    <3>3. executions' \in Seq(ExecutionRecord)
      <4>1. ASSUME NEW x \in ExecutionRecord
            PROVE  [x EXCEPT !.rolled_back = TRUE] \in ExecutionRecord
        BY DEF ExecutionRecord
      <4>2. PICK i : executions' = [executions EXCEPT ![i].rolled_back = TRUE]
        BY <1>1, <1>5, <2>2 DEF Unconsume, MarkRolledBack
      <4>3. executions' \in [1..Len(executions) -> ExecutionRecord]
        <5>1. executions \in [1..Len(executions) -> ExecutionRecord]
          BY LenProperties DEF TypeInv, TypeOK
        <5> QED
          BY <4>1, <4>2, <5>1
      <4>4. Len(executions) \in Nat
        BY LenProperties DEF TypeInv, TypeOK
      <4> QED
        BY <4>3, <4>4, SeqDef
    <3> QED
      BY <1>1, <1>5, <2>2, <3>1, <3>2, <3>3, IdleType, ContinueType
         DEF Unconsume, TypeInv, TypeOK, environment
  <2>3. CASE ~grants[c.escalation].consumed
    BY <1>1, <1>5, <2>3, IdleType, ReadStepType DEF Unconsume, stores
  <2> QED
    BY <2>2, <2>3
<1>6. CASE MediatorResolve(t)
  <2>1. escalations' \in [Escalations -> EscalationRecord]
    <3>1. ASSUME NEW r \in EscalationRecord
          PROVE  [r EXCEPT !.status = IF @ = "decided" THEN "resolved" ELSE @]
                   \in EscalationRecord
      BY DEF EscalationRecord
    <3> QED
      BY <1>1, <1>6, <3>1 DEF MediatorResolve, TypeInv, TypeOK, LocalsDefined
  <2> QED
    BY <1>6, <2>1, IdleType, ContinueType
       DEF MediatorResolve, TypeInv, TypeOK, environment
<1> QED
  BY <1>3, <1>4, <1>5, <1>6

LEMMA EnvironmentType ==
  ASSUME TypeInv, Environment
  PROVE  TypeInv'
<1>1. ASSUME NEW h \in Policies \cup {None}, SetPolicy(h)
      PROVE  TypeInv'
  BY <1>1 DEF SetPolicy, TypeInv, TypeOK, stores
<1>2. ASSUME NEW k \in Capabilities, Register(k) \/ Lapse(k)
      PROVE  TypeInv'
  BY <1>2 DEF Register, Lapse, TypeInv, TypeOK, stores
<1>3. ASSUME NEW e \in Escalations, Expire(e)
      PROVE  TypeInv'
  <2>1. ASSUME NEW g \in ReservedGrant
        PROVE  [g EXCEPT !.expired = TRUE] \in ReservedGrant
    BY DEF ReservedGrant
  <2>2. grants' \in [Escalations -> ReservedGrant]
    BY <1>3, <2>1 DEF Expire, TypeInv, TypeOK
  <2> QED
    BY <1>3, <2>2 DEF Expire, TypeInv, TypeOK, environment
<1> QED
  BY <1>1, <1>2, <1>3 DEF Environment

LEMMA TypeNext == TypeInv /\ [Next]_vars => TypeInv'
<1> SUFFICES ASSUME TypeInv, [Next]_vars PROVE TypeInv'
  OBVIOUS
<1>1. ASSUME NEW t \in Threads, Request(t) PROVE TypeInv'
  BY <1>1, RequestType
<1>2. ASSUME NEW t \in Threads, Step(t) PROVE TypeInv'
  BY <1>2, EvaluateType, EscalateType, OwnerType, ReenterType, RedeemType
     DEF Step
<1>3. CASE Environment
  BY <1>3, EnvironmentType
<1>4. CASE UNCHANGED vars
  BY <1>4 DEF vars, TypeInv, TypeOK
<1> QED
  BY <1>1, <1>2, <1>3, <1>4 DEF Next

\* The state of the stores, of the calls and of the PERMIT history keeps the
\* types of Mediator whatever the interleaving.
THEOREM Typing == Spec => []TypeOK
<1>1. Spec => []TypeInv
  BY TypeInit, TypeNext, PTL DEF Spec
<1>2. TypeInv => TypeOK
  BY DEF TypeInv
<1> QED
  BY <1>1, <1>2, PTL


-----------------------------------------------------------------------------
(* The stores agree.                                                       *)

\* A call goes on, or ends, with no claim on a record it did not have.
Onward(c, d) ==
  /\ d.step \notin {"reserve", "attach"}
  /\ d.escalation \in {c.escalation, None}
  /\ d.step \in Reentering => /\ c.step \in Reentering
                              /\ d.escalation = c.escalation
                              /\ d.principal = c.principal

LEMMA OnwardIdle ==
  ASSUME NEW c
  PROVE  /\ Onward(c, Idle)
         /\ \A v : Onward(c, Finishing(v, None))
                   /\ Onward(c, Finishing(v, c.escalation))
BY DEF Onward, Finishing, Idle, Reentering

\* The steps that read the stores and write none, but for the one that
\* takes the approval from the record.
LEMMA ReadingIsOnward ==
  ASSUME TypeInv, NEW t \in Threads,
         \/ EvaluateGate(t) \/ EvaluateCheck(t) \/ EvaluateProvenance(t)
         \/ Authorize(t) \/ AssignPolicy(t)
         \/ ReenterGate(t) \/ LookupGrant(t) \/ ReenterCheck(t)
         \/ ReenterProvenance(t) \/ ReadPolicyHash(t) \/ Finish(t)
  PROVE  /\ UNCHANGED stores
         /\ calls' = [calls EXCEPT ![t] = calls'[t]]
         /\ Onward(calls[t], calls'[t])
<1>1. PICK c \in Call : c = calls[t]
  BY CallType
<1> DEFINE GoesOn == /\ calls' = [calls EXCEPT ![t] = calls'[t]]
                     /\ Onward(c, calls'[t])
<1> HIDE DEF GoesOn
<1>2. ASSUME NEW d, Continue(t, d), Onward(c, d)
      PROVE  GoesOn
  BY <1>2 DEF Continue, TypeInv, TypeOK, GoesOn
<1>3. CASE EvaluateGate(t)
  <2>1. c.step = "eval_gate" /\ UNCHANGED stores
    BY <1>1, <1>3 DEF EvaluateGate
  <2>2. /\ Onward(c, [c EXCEPT !.step = "create", !.reason = "policy"])
        /\ Onward(c, [c EXCEPT !.step = "eval_check"])
    BY <2>1 DEF Onward, Call, Reentering
  <2>3. GoesOn
    BY <1>1, <1>2, <1>3, <2>2 DEF EvaluateGate
  <2> QED
    BY <1>1, <2>1, <2>3 DEF GoesOn
<1>4. CASE EvaluateCheck(t)
  <2>1. c.step = "eval_check" /\ UNCHANGED stores
    BY <1>1, <1>4 DEF EvaluateCheck
  <2>2. PICK k, r :
          \/ Continue(t, Finishing("DENY", None))
          \/ Continue(t, [c EXCEPT !.step = "create", !.capability = k,
                                   !.reason = r])
          \/ Continue(t, [c EXCEPT !.step = "eval_provenance",
                                   !.capability = k])
    BY <1>1, <1>4 DEF EvaluateCheck
  <2>3. /\ Onward(c, [c EXCEPT !.step = "create", !.capability = k, !.reason = r])
        /\ Onward(c, [c EXCEPT !.step = "eval_provenance", !.capability = k])
    BY <2>1 DEF Onward, Call, Reentering
  <2>4. GoesOn
    BY <1>2, <2>2, <2>3, OnwardIdle
  <2> QED
    BY <1>1, <2>1, <2>4 DEF GoesOn
<1>5. CASE EvaluateProvenance(t)
  <2>1. c.step = "eval_provenance" /\ UNCHANGED stores
    BY <1>1, <1>5 DEF EvaluateProvenance
  <2>2. /\ Onward(c, [c EXCEPT !.step = "create", !.reason = "provenance"])
        /\ \A i : Onward(c, [c EXCEPT !.step = "finish", !.verdict = "PERMIT",
                                      !.identity = i])
    BY <2>1 DEF Onward, Call, Reentering
  <2>3. GoesOn
    BY <1>1, <1>2, <1>5, <2>2, OnwardIdle DEF EvaluateProvenance
  <2> QED
    BY <1>1, <2>1, <2>3 DEF GoesOn
<1>6. CASE Authorize(t) \/ AssignPolicy(t)
  <2>1. /\ Onward(c, [c EXCEPT !.step = "update_policy"])
        /\ Onward(c, [c EXCEPT !.step = "decide"])
    BY DEF Onward, Call, Reentering
  <2>2. GoesOn
    BY <1>1, <1>2, <1>6, <2>1, OnwardIdle DEF Authorize, AssignPolicy
  <2> QED
    BY <1>1, <1>6, <2>2 DEF Authorize, AssignPolicy, GoesOn
<1>7. CASE ReenterGate(t) \/ ReadPolicyHash(t)
  <2>1. c.step \in {"gate", "hash"} /\ UNCHANGED stores
    BY <1>1, <1>7 DEF ReenterGate, ReadPolicyHash
  <2>2. /\ Onward(c, [c EXCEPT !.step = "lookup"])
        /\ Onward(c, [c EXCEPT !.step = "consume", !.policy = policy])
    BY <2>1 DEF Onward, Call, Reentering
  <2>3. GoesOn
    BY <1>1, <1>2, <1>7, <2>2, OnwardIdle DEF ReenterGate, ReadPolicyHash
  <2> QED
    BY <1>1, <2>1, <2>3 DEF GoesOn
<1>8. CASE LookupGrant(t)
  <2>1. c.step = "lookup" /\ UNCHANGED stores
    BY <1>1, <1>8 DEF LookupGrant
  <2>2. PICK k, s :
          Continue(t, [c EXCEPT !.step = "check", !.capability = k, !.skip = s])
    BY <1>1, <1>8, Zenon DEF LookupGrant
  <2>3. Onward(c, [c EXCEPT !.step = "check", !.capability = k, !.skip = s])
    BY <2>1 DEF Onward, Call, Reentering
  <2>4. GoesOn
    BY <1>2, <2>2, <2>3
  <2> QED
    BY <1>1, <2>1, <2>4 DEF GoesOn
<1>9. CASE ReenterCheck(t)
  <2>1. c.step = "check" /\ UNCHANGED stores
    BY <1>1, <1>9 DEF ReenterCheck
  <2>2. PICK k :
          \/ Continue(t, [c EXCEPT !.step = "provenance", !.capability = k])
          \/ Continue(t, Finishing("DENY", c.escalation))
    BY <1>1, <1>9 DEF ReenterCheck
  <2>3. Onward(c, [c EXCEPT !.step = "provenance", !.capability = k])
    BY <2>1 DEF Onward, Call, Reentering
  <2>4. GoesOn
    BY <1>2, <2>2, <2>3, OnwardIdle
  <2> QED
    BY <1>1, <2>1, <2>4 DEF GoesOn
<1>10. CASE ReenterProvenance(t)
  <2>1. c.step = "provenance" /\ UNCHANGED stores
    BY <1>1, <1>10 DEF ReenterProvenance
  <2>2. \A i : Onward(c, [c EXCEPT !.step = "hash", !.identity = i])
    BY <2>1 DEF Onward, Call, Reentering
  <2>3. GoesOn
    BY <1>1, <1>2, <1>10, <2>2, OnwardIdle DEF ReenterProvenance
  <2> QED
    BY <1>1, <2>1, <2>3 DEF GoesOn
<1>11. CASE Finish(t)
  <2>1. /\ Onward(c, RollbackFailed(c))
        /\ Onward(c, [Idle EXCEPT !.step = "resolve",
                                  !.escalation = c.escalation])
    BY DEF RollbackFailed, Onward, Idle, Reentering
  <2>2. GoesOn
    BY <1>1, <1>2, <1>11, <2>1, OnwardIdle DEF Finish
  <2> QED
    BY <1>1, <1>11, <2>2 DEF Finish, GoesOn
<1> QED
  BY <1>3, <1>4, <1>5, <1>6, <1>7, <1>8, <1>9, <1>10, <1>11

\* Such a step leaves what is known of the records and the grants as it is.
LEMMA OnwardKeepsRulings ==
  ASSUME TypeInv, RulingInv, NEW t \in Threads,
         calls' = [calls EXCEPT ![t] = calls'[t]],
         Onward(calls[t], calls'[t]), calls[t].step # "reserve",
         UNCHANGED <<escalations, grants>>
  PROVE  RulingInv'
<1>1. RulingsRecorded' /\ GrantsAreReserved' /\ StoresAgree'
  BY DEF RulingInv, RulingsRecorded, GrantsAreReserved, StoresAgree
<1>2. calls \in [Threads -> Call]
  BY DEF TypeInv, TypeOK
<1>3. \A u \in Threads : calls[u].step = "reserve" => calls[u].escalation # None
  BY ConstantsAssumption DEF TypeInv, LocalsDefined
<1>4. CreationIsPrivate'
  BY <1>2, <1>3 DEF RulingInv, CreationIsPrivate, Onward
<1>5. RulingsKnown'
  BY <1>2 DEF RulingInv, RulingsKnown, Onward
<1> QED
  BY <1>1, <1>4, <1>5 DEF RulingInv

\* A new call speaks of a published record, which nobody is creating.
LEMMA RequestRulings ==
  ASSUME TypeInv, RulingInv, NEW t \in Threads, Request(t)
  PROVE  RulingInv'
<1> DEFINE d == calls'[t]
           Begun == /\ calls' = [calls EXCEPT ![t] = d]
                    /\ calls[t].step = "idle"
                    /\ UNCHANGED <<escalations, grants>>
                    /\ d.step \in {"eval_gate", "get", "authorize", "finish"}
                    /\ d.escalation # None =>
                         d.escalation \in Escalations /\ Published(d.escalation)
<1>1. Begun
  <2> HIDE DEF Begun
  <2>1. ASSUME NEW b, Begin(t, b),
               b.step \in {"eval_gate", "get", "authorize", "finish"},
               b.escalation # None =>
                 b.escalation \in Escalations /\ Published(b.escalation)
        PROVE  Begun
    BY <2>1 DEF Begin, Continue, stores, TypeInv, TypeOK, Begun
  <2>2. ASSUME NEW p, NEW x, Evaluate(t, p, x)
        PROVE  Begun
    BY <2>1, <2>2 DEF Evaluate, Idle
  <2>3. ASSUME NEW p, NEW x, NEW e \in Escalations \cup {None},
               Reenter(t, p, x, e)
        PROVE  Begun
    BY <2>1, <2>3 DEF Reenter, Idle
  <2>4. ASSUME NEW p, NEW e \in Escalations \cup {None}, NEW r,
               DecideEscalation(t, p, e, r)
        PROVE  Begun
    BY <2>1, <2>4 DEF DecideEscalation, Idle
  <2>5. ASSUME NEW p, NEW h, UpdatePolicy(t, p, h)
        PROVE  Begun
    BY <2>1, <2>5 DEF UpdatePolicy, Idle
  <2>6. ASSUME Refuse(t)
        PROVE  Begun
    BY <2>1, <2>6 DEF Refuse, Finishing, Idle
  <2> QED
    BY <2>2, <2>3, <2>4, <2>5, <2>6 DEF Request
<1>2. RulingsRecorded' /\ GrantsAreReserved' /\ StoresAgree'
  BY <1>1 DEF RulingInv, RulingsRecorded, GrantsAreReserved, StoresAgree
<1>3. calls \in [Threads -> Call]
  BY DEF TypeInv, TypeOK
<1>4. \A u \in Threads : calls[u].step = "reserve" =>
        calls[u].escalation \in Escalations /\ calls[u].reason # None
  BY ConstantsAssumption DEF TypeInv, LocalsDefined
<1>5. CreationIsPrivate'
  BY <1>1, <1>3, <1>4, ConstantsAssumption
     DEF RulingInv, CreationIsPrivate, Published
<1>6. RulingsKnown'
  BY <1>1, <1>3 DEF RulingInv, RulingsKnown, Reentering
<1> QED
  BY <1>2, <1>5, <1>6 DEF RulingInv


LEMMA ReadingRulings ==
  ASSUME TypeInv, RulingInv, NEW t \in Threads,
         \/ EvaluateGate(t) \/ EvaluateCheck(t) \/ EvaluateProvenance(t)
         \/ Authorize(t) \/ AssignPolicy(t)
         \/ ReenterGate(t) \/ LookupGrant(t) \/ ReenterCheck(t)
         \/ ReenterProvenance(t) \/ ReadPolicyHash(t) \/ Finish(t)
  PROVE  RulingInv'
<1>1. calls[t].step # "reserve"
  BY DEF EvaluateGate, EvaluateCheck, EvaluateProvenance, Authorize,
         AssignPolicy, ReenterGate, LookupGrant, ReenterCheck,
         ReenterProvenance, ReadPolicyHash, Finish
<1> QED
  BY <1>1, ReadingIsOnward, OnwardKeepsRulings DEF stores

LEMMA CreateEscalationRulings ==
  ASSUME TypeInv, RulingInv, NEW t \in Threads, CreateEscalation(t)
  PROVE  RulingInv'
<1>1. PICK c \in Call : c = calls[t] /\ LocalsDefined(c)
  BY CallType
<1>2. PICK e \in Escalations :
        /\ escalations[e].status = "absent"
        /\ escalations' = [escalations EXCEPT
             ![e] = [status |-> "pending", principal |-> c.principal,
                     decision |-> None]]
        /\ Continue(t, [c EXCEPT !.step = "reserve", !.escalation = e])
  BY <1>1 DEF CreateEscalation
<1>3. /\ calls' = [calls EXCEPT ![t] = calls'[t]]
      /\ calls'[t].step = "reserve" /\ calls'[t].escalation = e
      /\ grants' = grants
  BY <1>1, <1>2 DEF CreateEscalation, Continue, TypeInv, TypeOK, Call
<1>4. /\ escalations' = [escalations EXCEPT ![e] = escalations'[e]]
      /\ escalations'[e].status = "pending"
      /\ escalations'[e].decision = None
  BY <1>2 DEF TypeInv, TypeOK
<1>5. /\ calls \in [Threads -> Call]
      /\ escalations \in [Escalations -> EscalationRecord]
      /\ \A u \in Threads : calls[u].escalation \in Escalations \cup {None}
      /\ \A u \in Threads : calls[u].step = "attach" \/ calls[u].step \in Reentering
           => calls[u].escalation \in Escalations
      /\ None \notin Escalations
  BY ConstantsAssumption, CallType DEF TypeInv, TypeOK, LocalsDefined, Call
<1>6. RulingsRecorded' /\ GrantsAreReserved' /\ StoresAgree'
  BY <1>2, <1>3, <1>4, <1>5
     DEF RulingInv, RulingsRecorded, GrantsAreReserved, StoresAgree
<1>7. \A u \in Threads : calls[u].escalation # e
  BY <1>2, <1>5 DEF RulingInv, CreationIsPrivate
<1>8. CreationIsPrivate'
  <2>1. ASSUME NEW u \in Threads
        PROVE  calls'[u].escalation # None
                 => escalations'[calls'[u].escalation].status # "absent"
    BY <1>3, <1>4, <1>5, <1>7 DEF RulingInv, CreationIsPrivate
  <2>2. ASSUME NEW u \in Threads, calls'[u].step = "reserve"
        PROVE  /\ escalations'[calls'[u].escalation].status = "pending"
               /\ ~grants'[calls'[u].escalation].reserved
               /\ \A v \in Threads :
                    calls'[v].escalation = calls'[u].escalation => v = u
    BY <1>2, <1>3, <1>4, <1>5, <1>7, <2>2
       DEF RulingInv, CreationIsPrivate, GrantsAreReserved
  <2> QED
    BY <2>1, <2>2 DEF CreationIsPrivate
<1>9. RulingsKnown'
  BY <1>3, <1>4, <1>5, <1>7 DEF RulingInv, RulingsKnown, Reentering
<1> QED
  BY <1>6, <1>8, <1>9 DEF RulingInv

LEMMA CreatePendingContextRulings ==
  ASSUME TypeInv, RulingInv, NEW t \in Threads, CreatePendingContext(t)
  PROVE  RulingInv'
<1>1. PICK c \in Call : c = calls[t] /\ LocalsDefined(c)
  BY CallType
<1>2. PICK i : grants' = [grants EXCEPT ![c.escalation] =
                                          PendingContext(c, policy, i)]
  BY <1>1 DEF CreatePendingContext
<1>3. /\ c.step = "reserve" /\ c.escalation \in Escalations
      /\ UNCHANGED escalations
      /\ calls' = [calls EXCEPT ![t] = calls'[t]]
      /\ calls'[t].step = "finish" /\ calls'[t].escalation = c.escalation
  <2>1. c.step = "reserve" /\ UNCHANGED escalations
        /\ Continue(t, [Finishing("ESCALATE", c.escalation) EXCEPT
                          !.reason = c.reason])
    BY <1>1 DEF CreatePendingContext
  <2> QED
    BY <1>1, <2>1
       DEF Continue, TypeInv, TypeOK, LocalsDefined, Finishing, Idle
<1>4. /\ PendingContext(c, policy, i).reserved
      /\ ~PendingContext(c, policy, i).consumed
      /\ PendingContext(c, policy, i).decision = None
  BY DEF PendingContext, NoGrant
<1>5. /\ calls \in [Threads -> Call]
      /\ grants \in [Escalations -> ReservedGrant]
      /\ \A u \in Threads : calls[u].step = "reserve"
           => calls[u].escalation \in Escalations
  BY DEF TypeInv, TypeOK, LocalsDefined
<1>6. escalations[c.escalation].status = "pending"
  BY <1>1, <1>3 DEF RulingInv, CreationIsPrivate
<1>7. RulingsRecorded' /\ GrantsAreReserved' /\ StoresAgree'
  BY <1>2, <1>3, <1>4, <1>5, <1>6
     DEF RulingInv, RulingsRecorded, GrantsAreReserved, StoresAgree
<1>8. CreationIsPrivate'
  BY <1>1, <1>2, <1>3, <1>5 DEF RulingInv, CreationIsPrivate
<1>9. RulingsKnown'
  BY <1>3, <1>5 DEF RulingInv, RulingsKnown, Reentering
<1> QED
  BY <1>7, <1>8, <1>9 DEF RulingInv

LEMMA MediatorDecideRulings ==
  ASSUME TypeInv, RulingInv, NEW t \in Threads, MediatorDecide(t)
  PROVE  RulingInv'
<1>1. PICK c \in Call : c = calls[t] /\ LocalsDefined(c)
  BY CallType
<1>2. CASE ~(c.escalation # None /\ Decidable(c.escalation))
  <2>1. /\ Continue(t, Finishing("DENY", None))
        /\ UNCHANGED <<escalations, grants>> /\ c.step = "decide"
    BY <1>1, <1>2 DEF MediatorDecide
  <2>2. /\ calls' = [calls EXCEPT ![t] = calls'[t]]
        /\ calls'[t] = Finishing("DENY", None)
    BY <2>1 DEF Continue, TypeInv, TypeOK
  <2> QED
    BY <1>1, <2>1, <2>2, OnwardIdle, OnwardKeepsRulings
<1>3. CASE c.escalation # None /\ Decidable(c.escalation)
  <2>1. PICK e \in Escalations :
          /\ e = c.escalation /\ escalations[e].status = "pending"
          /\ c.decision \in Decisions /\ c.step = "decide"
          /\ UNCHANGED grants
    BY <1>1, <1>3 DEF MediatorDecide, Decidable, LocalsDefined, Call
  <2>2. /\ calls \in [Threads -> Call]
        /\ escalations \in [Escalations -> EscalationRecord]
        /\ \A u \in Threads : calls[u].escalation \in Escalations \cup {None}
        /\ \A u \in Threads : calls[u].step = "attach" \/ calls[u].step \in Reentering
             => calls[u].escalation \in Escalations
    BY CallType DEF TypeInv, TypeOK, LocalsDefined, Call
  <2>3. /\ escalations' = [escalations EXCEPT ![e] = escalations'[e]]
        /\ escalations'[e].status = "decided"
        /\ escalations'[e].decision = c.decision
        /\ c.decision # None
    <3>1. escalations' = [escalations EXCEPT
            ![e] = [@ EXCEPT !.status = "decided", !.decision = c.decision]]
      BY <1>1, <1>3, <2>1 DEF MediatorDecide
    <3>2. /\ [escalations[e] EXCEPT !.status = "decided",
                                    !.decision = c.decision].status = "decided"
          /\ [escalations[e] EXCEPT !.status = "decided",
                            !.decision = c.decision].decision = c.decision
      BY <2>2 DEF EscalationRecord
    <3> QED
      BY <2>1, <2>2, <3>1, <3>2, ConstantsAssumption
  <2>4. /\ calls' = [calls EXCEPT ![t] = calls'[t]]
        /\ calls'[t].step = "attach" /\ calls'[t].escalation = e
        /\ calls'[t].decision = c.decision
    BY <1>1, <1>3, <2>1 DEF MediatorDecide, Continue, TypeInv, TypeOK, Call
  <2>5. /\ grants[e].decision = None
        /\ escalations[e].decision = None
    BY <2>1 DEF RulingInv, StoresAgree, RulingsRecorded
  <2>6. RulingsRecorded' /\ GrantsAreReserved' /\ StoresAgree'
    BY <2>1, <2>2, <2>3, <2>5
       DEF RulingInv, RulingsRecorded, GrantsAreReserved, StoresAgree
  <2>7. \A u \in Threads : calls[u].step = "reserve" => calls[u].escalation # e
    <3>1. calls[t].step # "reserve" /\ calls[t].escalation = e
      BY <1>1, <2>1
    <3> QED
      BY <3>1 DEF RulingInv, CreationIsPrivate
  <2>8. CreationIsPrivate'
    <3>1. ASSUME NEW u \in Threads
          PROVE  calls'[u].escalation # None
                   => escalations'[calls'[u].escalation].status # "absent"
      BY <1>1, <2>1, <2>2, <2>3, <2>4 DEF RulingInv, CreationIsPrivate
    <3>2. ASSUME NEW u \in Threads, calls'[u].step = "reserve"
          PROVE  /\ escalations'[calls'[u].escalation].status = "pending"
                 /\ ~grants'[calls'[u].escalation].reserved
                 /\ \A v \in Threads :
                      calls'[v].escalation = calls'[u].escalation => v = u
      <4>1. u # t /\ calls'[u] = calls[u]
        BY <2>2, <2>4, <3>2
      <4>2. /\ escalations'[calls[u].escalation].status = "pending"
            /\ ~grants'[calls[u].escalation].reserved
        BY <2>1, <2>2, <2>3, <2>7, <3>2, <4>1
           DEF RulingInv, CreationIsPrivate, TypeInv, LocalsDefined
      <4> QED
        BY <2>1, <2>2, <2>4, <2>7, <3>2, <4>1, <4>2
           DEF RulingInv, CreationIsPrivate
    <3> QED
      BY <3>1, <3>2 DEF CreationIsPrivate
  <2>9. RulingsKnown'
    <3>1. ASSUME NEW u \in Threads, calls'[u].step \in Reentering
          PROVE  /\ escalations'[calls'[u].escalation].decision = "permit"
                 /\ escalations'[calls'[u].escalation].principal
                      = calls'[u].principal
      <4>1. u # t /\ calls'[u] = calls[u]
        BY <2>2, <2>4, <3>1 DEF Reentering
      <4>2. calls[u].escalation # e
        BY <2>5, <3>1, <4>1, ConstantsAssumption
           DEF RulingInv, RulingsKnown, Decisions
      <4> QED
        BY <2>2, <2>3, <3>1, <4>1, <4>2 DEF RulingInv, RulingsKnown
    <3>2. ASSUME NEW u \in Threads, calls'[u].step = "attach"
          PROVE  /\ escalations'[calls'[u].escalation].status
                      \in {"decided", "resolved"}
                 /\ escalations'[calls'[u].escalation].decision
                      = calls'[u].decision
      <4>1. CASE u = t
        BY <2>2, <2>3, <2>4, <4>1
      <4>2. CASE u # t
        <5>1. calls'[u] = calls[u] /\ calls[u].escalation # e
          BY <2>1, <2>2, <2>4, <3>2, <4>2 DEF RulingInv, RulingsKnown
        <5> QED
          BY <2>2, <2>3, <3>2, <5>1 DEF RulingInv, RulingsKnown
      <4> QED
        BY <4>1, <4>2
    <3> QED
      BY <3>1, <3>2 DEF RulingsKnown
  <2> QED
    BY <2>6, <2>8, <2>9 DEF RulingInv
<1> QED
  BY <1>2, <1>3


LEMMA GetEscalationRulings ==
  ASSUME TypeInv, RulingInv, NEW t \in Threads, GetEscalation(t)
  PROVE  RulingInv'
<1>1. PICK c \in Call : c = calls[t] /\ LocalsDefined(c)
  BY CallType
<1>2. c.step = "get" /\ UNCHANGED <<escalations, grants>>
  BY <1>1 DEF GetEscalation, stores
<1>3. /\ calls' = [calls EXCEPT ![t] = calls'[t]]
      /\ \/ Onward(c, calls'[t])
         \/ /\ MayReenter(c.principal, c.escalation)
            /\ calls'[t] = [c EXCEPT !.step = "gate"]
  BY <1>1, OnwardIdle DEF GetEscalation, Continue, TypeInv, TypeOK
<1>4. CASE Onward(c, calls'[t])
  BY <1>1, <1>2, <1>3, <1>4, OnwardKeepsRulings
<1>5. CASE /\ MayReenter(c.principal, c.escalation)
           /\ calls'[t] = [c EXCEPT !.step = "gate"]
  <2>1. /\ calls \in [Threads -> Call]
        /\ calls'[t].step = "gate" /\ calls'[t].escalation = c.escalation
        /\ calls'[t].principal = c.principal
    BY <1>5 DEF TypeInv, TypeOK, Call
  <2>2. RulingsRecorded' /\ GrantsAreReserved' /\ StoresAgree'
    BY <1>2 DEF RulingInv, RulingsRecorded, GrantsAreReserved, StoresAgree
  <2>3. CreationIsPrivate'
    BY <1>1, <1>2, <1>3, <2>1 DEF RulingInv, CreationIsPrivate
  <2>4. RulingsKnown'
    <3>1. ASSUME NEW u \in Threads, u # t
          PROVE  calls'[u] = calls[u]
      BY <1>3, <2>1, <3>1
    <3>2. /\ escalations'[calls'[t].escalation].decision = "permit"
          /\ escalations'[calls'[t].escalation].principal = calls'[t].principal
      BY <1>2, <1>5, <2>1 DEF MayReenter
    <3> QED
      BY <1>2, <2>1, <3>1, <3>2 DEF RulingInv, RulingsKnown
  <2> QED
    BY <2>2, <2>3, <2>4 DEF RulingInv
<1> QED
  BY <1>3, <1>4, <1>5

LEMMA AttachRulings ==
  ASSUME TypeInv, RulingInv, NEW t \in Threads, AttachOwnerDecision(t)
  PROVE  RulingInv'
<1>1. PICK c \in Call : c = calls[t] /\ LocalsDefined(c)
  BY CallType
<1>2. PICK e \in Escalations : e = c.escalation
  BY <1>1 DEF AttachOwnerDecision, LocalsDefined
<1>3. /\ c.step = "attach" /\ UNCHANGED escalations
      /\ grants' = [grants EXCEPT ![e].decision =
                      IF grants[e].reserved THEN c.decision ELSE @]
      /\ calls' = [calls EXCEPT ![t] = calls'[t]]
      /\ calls'[t].step = "finish" /\ calls'[t].escalation = e
  BY <1>1, <1>2
     DEF AttachOwnerDecision, Continue, TypeInv, TypeOK, Finishing, Idle
<1>4. /\ grants' = [grants EXCEPT ![e] = grants'[e]]
      /\ grants'[e].reserved = grants[e].reserved
      /\ grants'[e].consumed = grants[e].consumed
      /\ grants'[e].decision = IF grants[e].reserved THEN c.decision
                               ELSE grants[e].decision
  <2>1. grants[e] \in ReservedGrant
    BY DEF TypeInv, TypeOK
  <2>2. [grants[e] EXCEPT !.decision =
           IF grants[e].reserved THEN c.decision ELSE @] = grants'[e]
    BY <1>3 DEF TypeInv, TypeOK
  <2> QED
    BY <1>3, <2>1, <2>2 DEF ReservedGrant
<1>5. /\ calls \in [Threads -> Call]
      /\ grants \in [Escalations -> ReservedGrant]
  BY DEF TypeInv, TypeOK
<1>6. /\ escalations[e].status \in {"decided", "resolved"}
      /\ escalations[e].decision = c.decision
  BY <1>1, <1>2, <1>3 DEF RulingInv, RulingsKnown
<1>7. RulingsRecorded' /\ GrantsAreReserved' /\ StoresAgree'
  BY <1>3, <1>4, <1>5, <1>6
     DEF RulingInv, RulingsRecorded, GrantsAreReserved, StoresAgree
<1>8. CreationIsPrivate'
  <2>1. \A u \in Threads : calls'[u].escalation = calls[u].escalation
    BY <1>1, <1>2, <1>3, <1>5
  <2>2. \A u \in Threads :
          calls'[u].step = "reserve" => calls[u].step = "reserve"
    BY <1>3, <1>5
  <2>3. \A f \in Escalations : grants'[f].reserved <=> grants[f].reserved
    BY <1>4, <1>5
  <2> QED
    BY <1>3, <1>5, <2>1, <2>2, <2>3 DEF RulingInv, CreationIsPrivate, Call
<1>9. RulingsKnown'
  <2>1. "finish" \notin Reentering
    BY DEF Reentering
  <2>2. \A u \in Threads : u # t => calls'[u] = calls[u]
    BY <1>3, <1>5
  <2> QED
    BY <1>3, <2>1, <2>2 DEF RulingInv, RulingsKnown
<1> QED
  BY <1>7, <1>8, <1>9 DEF RulingInv

\* Consuming a grant, and giving it back, touches nothing else of it.
LEMMA ConsumptionRulings ==
  ASSUME TypeInv, RulingInv, NEW t \in Threads,
         ConsumeIfValid(t) \/ Unconsume(t)
  PROVE  RulingInv'
<1>1. PICK c \in Call : c = calls[t] /\ LocalsDefined(c)
  BY CallType
<1>2. PICK e \in Escalations : e = c.escalation
  BY <1>1 DEF ConsumeIfValid, Unconsume, LocalsDefined, Reentering
<1>3. c.step \in {"consume", "rollback"} /\ UNCHANGED escalations
  BY <1>1 DEF ConsumeIfValid, Unconsume
<1>4. /\ calls' = [calls EXCEPT ![t] = calls'[t]]
      /\ Onward(c, calls'[t])
  <2>1. Onward(c, [c EXCEPT !.step = "finish", !.verdict = "PERMIT"])
    BY DEF Onward, Call, Reentering
  <2>2. \E d : Onward(c, d) /\ calls' = [calls EXCEPT ![t] = d]
    BY <1>1, <2>1, OnwardIdle DEF ConsumeIfValid, Unconsume, Continue
  <2> QED
    BY <2>2 DEF TypeInv, TypeOK
<1>5. \A f \in Escalations :
        /\ grants'[f].reserved = grants[f].reserved
        /\ grants'[f].decision = grants[f].decision
        /\ grants'[f].consumed => grants[f].reserved
  <2>1. \/ grants' = grants
        \/ /\ grants[e].reserved
           /\ grants' = [grants EXCEPT ![e].consumed = TRUE]
        \/ grants' = [grants EXCEPT ![e].consumed = FALSE]
    BY <1>1, <1>2 DEF ConsumeIfValid, Unconsume, Redeemable
  <2>2. grants \in [Escalations -> ReservedGrant]
    BY DEF TypeInv, TypeOK
  <2>3. \A f \in Escalations : grants[f].consumed => grants[f].reserved
    BY DEF RulingInv, GrantsAreReserved
  <2>4. CASE grants' = grants
    BY <2>3, <2>4
  <2>5. CASE /\ grants[e].reserved
             /\ grants' = [grants EXCEPT ![e].consumed = TRUE]
    BY <2>2, <2>3, <2>5 DEF ReservedGrant
  <2>6. CASE grants' = [grants EXCEPT ![e].consumed = FALSE]
    BY <2>2, <2>3, <2>6 DEF ReservedGrant
  <2> QED
    BY <2>1, <2>4, <2>5, <2>6
<1>6. RulingsRecorded' /\ GrantsAreReserved' /\ StoresAgree'
  BY <1>3, <1>5
     DEF RulingInv, RulingsRecorded, GrantsAreReserved, StoresAgree
<1>7. calls \in [Threads -> Call]
      /\ \A u \in Threads : calls[u].step = "reserve"
           => calls[u].escalation \in Escalations
  BY DEF TypeInv, TypeOK, LocalsDefined
<1>8. CreationIsPrivate'
  BY <1>1, <1>2, <1>3, <1>4, <1>5, <1>7, ConstantsAssumption
     DEF RulingInv, CreationIsPrivate, Onward
<1>9. RulingsKnown'
  BY <1>1, <1>3, <1>4, <1>7 DEF RulingInv, RulingsKnown, Onward
<1> QED
  BY <1>6, <1>8, <1>9 DEF RulingInv

LEMMA MediatorResolveRulings ==
  ASSUME TypeInv, RulingInv, NEW t \in Threads, MediatorResolve(t)
  PROVE  RulingInv'
<1>1. PICK c \in Call : c = calls[t] /\ LocalsDefined(c)
  BY CallType
<1>2. PICK e \in Escalations : e = c.escalation
  BY <1>1 DEF MediatorResolve, LocalsDefined
<1>3. /\ c.step = "resolve" /\ UNCHANGED grants
      /\ calls' = [calls EXCEPT ![t] = calls'[t]]
      /\ Onward(c, calls'[t])
  BY <1>1, OnwardIdle DEF MediatorResolve, Continue, TypeInv, TypeOK
<1>4. \A f \in Escalations :
        /\ escalations'[f].decision = escalations[f].decision
        /\ escalations'[f].principal = escalations[f].principal
        /\ \/ escalations'[f].status = escalations[f].status
           \/ /\ escalations[f].status = "decided"
              /\ escalations'[f].status = "resolved"
  <2>1. escalations' = [escalations EXCEPT ![e].status =
                          IF @ = "decided" THEN "resolved" ELSE @]
    BY <1>1, <1>2 DEF MediatorResolve
  <2>2. escalations \in [Escalations -> EscalationRecord]
    BY DEF TypeInv, TypeOK
  <2> QED
    BY <2>1, <2>2 DEF EscalationRecord
<1>5. RulingsRecorded' /\ GrantsAreReserved' /\ StoresAgree'
  BY <1>3, <1>4
     DEF RulingInv, RulingsRecorded, GrantsAreReserved, StoresAgree
<1>6. /\ calls \in [Threads -> Call]
      /\ \A u \in Threads : calls[u].escalation \in Escalations \cup {None}
      /\ \A u \in Threads :
           calls[u].step \in {"reserve", "attach"} \cup Reentering
             => calls[u].escalation \in Escalations
  BY CallType DEF TypeInv, TypeOK, LocalsDefined, Call
<1>7. CreationIsPrivate'
  BY <1>1, <1>3, <1>4, <1>6, ConstantsAssumption
     DEF RulingInv, CreationIsPrivate, Onward
<1>8. RulingsKnown'
  BY <1>1, <1>3, <1>4, <1>6 DEF RulingInv, RulingsKnown, Onward
<1> QED
  BY <1>5, <1>7, <1>8 DEF RulingInv

LEMMA EnvironmentRulings ==
  ASSUME TypeInv, RulingInv, Environment \/ UNCHANGED vars
  PROVE  RulingInv'
<1>1. UNCHANGED <<calls, escalations>>
  BY DEF Environment, SetPolicy, Register, Lapse, Expire, stores, vars
<1>2. \A e \in Escalations :
        /\ grants'[e].reserved = grants[e].reserved
        /\ grants'[e].consumed = grants[e].consumed
        /\ grants'[e].decision = grants[e].decision
  <2>1. \/ grants' = grants
        \/ \E e \in Escalations : grants' = [grants EXCEPT ![e].expired = TRUE]
    BY DEF Environment, SetPolicy, Register, Lapse, Expire, stores, vars
  <2>2. grants \in [Escalations -> ReservedGrant]
    BY DEF TypeInv, TypeOK
  <2> QED
    BY <2>1, <2>2 DEF ReservedGrant
<1>3. \A u \in Threads : calls[u].step = "reserve"
        => calls[u].escalation \in Escalations
  BY DEF TypeInv, LocalsDefined
<1> QED
  BY <1>1, <1>2, <1>3
     DEF RulingInv, RulingsRecorded, GrantsAreReserved, CreationIsPrivate,
         RulingsKnown, StoresAgree

\* Whatever a thread may do.
LEMMA StepCases ==
  ASSUME NEW t \in Threads, Step(t)
  PROVE  \/ \/ EvaluateGate(t) \/ EvaluateCheck(t) \/ EvaluateProvenance(t)
            \/ Authorize(t) \/ AssignPolicy(t)
            \/ ReenterGate(t) \/ LookupGrant(t) \/ ReenterCheck(t)
            \/ ReenterProvenance(t) \/ ReadPolicyHash(t) \/ Finish(t)
         \/ CreateEscalation(t) \/ CreatePendingContext(t)
         \/ MediatorDecide(t) \/ AttachOwnerDecision(t) \/ GetEscalation(t)
         \/ ConsumeIfValid(t) \/ Unconsume(t) \/ MediatorResolve(t)
BY Zenon DEF Step

LEMMA RulingNext == TypeInv /\ RulingInv /\ [Next]_vars => RulingInv'
<1> SUFFICES ASSUME TypeInv, RulingInv, [Next]_vars PROVE RulingInv'
  OBVIOUS
<1>1. ASSUME NEW t \in Threads, Request(t) PROVE RulingInv'
  BY <1>1, RequestRulings
<1>2. ASSUME NEW t \in Threads, Step(t) PROVE RulingInv'
  BY <1>2, StepCases, ReadingRulings, CreateEscalationRulings,
     CreatePendingContextRulings, MediatorDecideRulings, AttachRulings,
     GetEscalationRulings, ConsumptionRulings, MediatorResolveRulings
<1>3. CASE Environment \/ UNCHANGED vars
  BY <1>3, EnvironmentRulings
<1> QED
  BY <1>1, <1>2, <1>3 DEF Next

LEMMA RulingInit == Init => RulingInv
BY ConstantsAssumption
   DEF Init, RulingInv, RulingsRecorded, GrantsAreReserved, CreationIsPrivate,
       RulingsKnown, StoresAgree, NoEscalation, NoGrant, Idle, Reentering

\* The ruling a grant carries is always the ruling of its record: whoever
\* interleaves with it, decide_escalation writes both stores alike.
THEOREM StoresAlwaysAgree == Spec => []StoresAgree
<1>1. Init => TypeInv /\ RulingInv
  BY TypeInit, RulingInit
<1>2. (TypeInv /\ RulingInv) /\ [Next]_vars => (TypeInv /\ RulingInv)'
  BY TypeNext, RulingNext
<1>3. TypeInv /\ RulingInv => StoresAgree
  BY DEF RulingInv
<1> QED
  BY <1>1, <1>2, <1>3, PTL DEF Spec


-----------------------------------------------------------------------------
(* The execution log.                                                      *)

\* Only redeeming and rolling back write the log or the consumed flags.
LEMMA LogUnchanged ==
  ASSUME TypeInv, RulingInv, [Next]_vars,
         ~ \E t \in Threads : ConsumeIfValid(t) \/ Unconsume(t)
  PROVE  /\ UNCHANGED <<executions, execSeq>>
         /\ \A e \in Escalations : grants'[e].consumed = grants[e].consumed
<1>1. grants \in [Escalations -> ReservedGrant]
  BY DEF TypeInv, TypeOK
<1>2. ASSUME NEW t \in Threads, Request(t)
      PROVE  UNCHANGED <<grants, executions, execSeq>>
  BY <1>2 DEF Request, Evaluate, Reenter, DecideEscalation, UpdatePolicy,
              Refuse, Begin, stores
<1>3. ASSUME NEW t \in Threads, Step(t),
             ~CreatePendingContext(t), ~AttachOwnerDecision(t)
      PROVE  UNCHANGED <<grants, executions, execSeq>>
  <2>1. GetEscalation(t) => UNCHANGED stores
    BY DEF GetEscalation
  <2>2. CreateEscalation(t) \/ MediatorDecide(t) \/ MediatorResolve(t)
          => UNCHANGED <<grants, executions, execSeq>>
    BY DEF CreateEscalation, MediatorDecide, MediatorResolve
  <2> QED
    BY <1>3, <2>1, <2>2, StepCases, ReadingIsOnward DEF stores
<1>4. ASSUME NEW t \in Threads, CreatePendingContext(t)
      PROVE  /\ UNCHANGED <<executions, execSeq>>
             /\ \A e \in Escalations :
                  grants'[e].consumed = grants[e].consumed
  <2>1. PICK c \in Call : c = calls[t] /\ LocalsDefined(c)
    BY CallType
  <2>2. PICK i : grants' = [grants EXCEPT ![c.escalation] =
                                            PendingContext(c, policy, i)]
    BY <1>4, <2>1 DEF CreatePendingContext
  <2>3. c.escalation \in Escalations /\ ~grants[c.escalation].reserved
    BY <1>4, <2>1
       DEF CreatePendingContext, RulingInv, CreationIsPrivate, LocalsDefined
  <2>4. ~grants[c.escalation].consumed
        /\ grants[c.escalation].consumed \in BOOLEAN
    BY <1>1, <2>3 DEF RulingInv, GrantsAreReserved, ReservedGrant
  <2>5. PendingContext(c, policy, i).consumed = FALSE
    BY DEF PendingContext, NoGrant
  <2>6. UNCHANGED <<executions, execSeq>>
    BY <1>4 DEF CreatePendingContext
  <2> QED
    BY <1>1, <2>2, <2>3, <2>4, <2>5, <2>6
<1>5. ASSUME NEW t \in Threads, AttachOwnerDecision(t)
      PROVE  /\ UNCHANGED <<executions, execSeq>>
             /\ \A e \in Escalations :
                  grants'[e].consumed = grants[e].consumed
  <2>1. PICK f, d : grants' = [grants EXCEPT ![f].decision = d]
    BY <1>5 DEF AttachOwnerDecision
  <2>2. UNCHANGED <<executions, execSeq>>
    BY <1>5 DEF AttachOwnerDecision
  <2> QED
    BY <1>1, <2>1, <2>2 DEF ReservedGrant
<1>6. CASE Environment \/ UNCHANGED vars
  <2>1. UNCHANGED <<executions, execSeq>>
    BY <1>6
       DEF Environment, SetPolicy, Register, Lapse, Expire, stores, vars
  <2>2. \/ grants' = grants
        \/ \E e \in Escalations : grants' = [grants EXCEPT ![e].expired = TRUE]
    BY <1>6
       DEF Environment, SetPolicy, Register, Lapse, Expire, stores, vars
  <2> QED
    BY <1>1, <2>1, <2>2 DEF ReservedGrant
<1> QED
  BY <1>2, <1>3, <1>4, <1>5, <1>6 DEF Next

LEMMA LogNext ==
  ASSUME TypeInv, RulingInv, LogMatchesGrants, [Next]_vars
  PROVE  LogMatchesGrants'
<1>1. /\ executions \in Seq(ExecutionRecord)
      /\ DOMAIN executions = 1..Len(executions) /\ Len(executions) \in Nat
      /\ grants \in [Escalations -> ReservedGrant]
      /\ execSeq \in [Escalations -> Nat]
  BY LenProperties DEF TypeInv, TypeOK
<1>2. ASSUME NEW t \in Threads, ConsumeIfValid(t)
      PROVE  LogMatchesGrants'
  <2>1. PICK e \in Escalations : e = calls[t].escalation
    BY <1>2 DEF ConsumeIfValid, TypeInv, LocalsDefined, Reentering
  <2>2. CASE ~Redeemable(grants[e], calls[t])
    BY <1>2, <2>1, <2>2 DEF ConsumeIfValid, LogMatchesGrants, Standing
  <2>3. CASE Redeemable(grants[e], calls[t])
    <3>1. /\ ~grants[e].consumed
          /\ grants' = [grants EXCEPT ![e].consumed = TRUE]
          /\ executions' = Append(executions,
                             [escalation |-> e, rolled_back |-> FALSE])
          /\ execSeq' = [execSeq EXCEPT ![e] = Len(executions) + 1]
      BY <1>2, <2>1, <2>3 DEF ConsumeIfValid, Redeemable
    <3>2. [escalation |-> e, rolled_back |-> FALSE] \in ExecutionRecord
      BY DEF ExecutionRecord
    <3>3. /\ DOMAIN executions' = 1..(Len(executions) + 1)
          /\ \A i \in 1..Len(executions) : executions'[i] = executions[i]
          /\ executions'[Len(executions) + 1].escalation = e
          /\ ~executions'[Len(executions) + 1].rolled_back
      BY <1>1, <3>1, <3>2, AppendProperties
    <3>4. ASSUME NEW f \in Escalations
          PROVE  Standing(f)' = IF grants'[f].consumed THEN {execSeq'[f]} ELSE {}
      <4>1. CASE f = e
        <5>1. grants'[e].consumed /\ execSeq'[e] = Len(executions) + 1
          BY <1>1, <3>1 DEF ReservedGrant
        <5>2. Standing(e) = {}
          BY <3>1 DEF LogMatchesGrants
        <5>3. Standing(e)' = {Len(executions) + 1}
          BY <1>1, <3>3, <5>2 DEF Standing
        <5> QED
          BY <4>1, <5>1, <5>3
      <4>2. CASE f # e
        <5>1. grants'[f] = grants[f] /\ execSeq'[f] = execSeq[f]
          BY <1>1, <3>1, <4>2
        <5>2. Standing(f)' = Standing(f)
          BY <1>1, <3>3, <4>2 DEF Standing
        <5> QED
          BY <5>1, <5>2 DEF LogMatchesGrants
      <4> QED
        BY <4>1, <4>2
    <3> QED
      BY <3>4 DEF LogMatchesGrants
  <2> QED
    BY <2>2, <2>3
<1>3. ASSUME NEW t \in Threads, Unconsume(t)
      PROVE  LogMatchesGrants'
  <2>1. PICK e \in Escalations : e = calls[t].escalation
    BY <1>3 DEF Unconsume, TypeInv, LocalsDefined
  <2>2. CASE ~grants[e].consumed
    BY <1>3, <2>1, <2>2 DEF Unconsume, LogMatchesGrants, Standing
  <2>3. CASE grants[e].consumed
    <3>1. /\ grants' = [grants EXCEPT ![e].consumed = FALSE]
          /\ execSeq' = [execSeq EXCEPT ![e] = 0]
          /\ executions' = [executions EXCEPT ![execSeq[e]].rolled_back = TRUE]
      BY <1>3, <2>1, <2>3 DEF Unconsume, MarkRolledBack
    <3>2. Standing(e) = {execSeq[e]}
      BY <2>3 DEF LogMatchesGrants
    <3>3. /\ execSeq[e] \in 1..Len(executions)
          /\ executions[execSeq[e]].escalation = e
      BY <1>1, <3>2 DEF Standing
    <3>4. /\ DOMAIN executions' = 1..Len(executions)
          /\ \A i \in 1..Len(executions) :
               i # execSeq[e] => executions'[i] = executions[i]
          /\ executions'[execSeq[e]].escalation = e
          /\ executions'[execSeq[e]].rolled_back
      <4>1. executions \in [1..Len(executions) -> ExecutionRecord]
        BY <1>1, LenProperties
      <4> QED
        BY <3>1, <3>3, <4>1 DEF ExecutionRecord
    <3>5. ASSUME NEW f \in Escalations
          PROVE  Standing(f)' = IF grants'[f].consumed THEN {execSeq'[f]} ELSE {}
      <4>1. CASE f = e
        <5>1. ~grants'[e].consumed
          BY <1>1, <3>1 DEF ReservedGrant
        <5>2. Standing(e)' = {}
          BY <1>1, <3>2, <3>4 DEF Standing
        <5> QED
          BY <4>1, <5>1, <5>2
      <4>2. CASE f # e
        <5>1. grants'[f] = grants[f] /\ execSeq'[f] = execSeq[f]
          BY <1>1, <3>1, <4>2
        <5>2. Standing(f)' = Standing(f)
          BY <1>1, <3>3, <3>4, <4>2 DEF Standing
        <5> QED
          BY <5>1, <5>2 DEF LogMatchesGrants
      <4> QED
        BY <4>1, <4>2
    <3> QED
      BY <3>5 DEF LogMatchesGrants
  <2> QED
    BY <2>2, <2>3
<1>4. CASE ~ \E t \in Threads : ConsumeIfValid(t) \/ Unconsume(t)
  BY <1>4, LogUnchanged DEF LogMatchesGrants, Standing
<1> QED
  BY <1>2, <1>3, <1>4

\* The execution log and the grants tell the same story however redemptions
\* and rollbacks interleave: one standing record per consumed grant, the one
\* a rollback would mark, and none for a grant that is available.
THEOREM LogAlwaysMatchesGrants == Spec => []LogMatchesGrants
<1>1. Init => TypeInv /\ RulingInv /\ LogMatchesGrants
  <2>1. Init => LogMatchesGrants
    BY DEF Init, LogMatchesGrants, Standing, NoGrant
  <2> QED
    BY <2>1, TypeInit, RulingInit
<1>2. (TypeInv /\ RulingInv /\ LogMatchesGrants) /\ [Next]_vars
        => (TypeInv /\ RulingInv /\ LogMatchesGrants)'
  BY TypeNext, RulingNext, LogNext
<1> QED
  BY <1>1, <1>2, PTL DEF Spec


-----------------------------------------------------------------------------
(* What is permitted was approved.                                         *)

\* A reserved grant keeps what it is bound to; a ruling is never revised.
KeepsBindings(e) ==
  /\ grants[e].reserved =>
       /\ grants'[e].reserved
       /\ grants'[e].principal = grants[e].principal
       /\ grants'[e].payload = grants[e].payload
       /\ grants'[e].capability = grants[e].capability
       /\ grants'[e].policy = grants[e].policy
       /\ grants'[e].identity = grants[e].identity
       /\ grants'[e].reason = grants[e].reason
  /\ escalations[e].decision # None =>
       /\ escalations'[e].decision = escalations[e].decision
       /\ escalations'[e].principal = escalations[e].principal

LEMMA BindingsAreKept ==
  ASSUME TypeInv, RulingInv, [Next]_vars, NEW e \in Escalations
  PROVE  KeepsBindings(e)
<1>1. /\ grants \in [Escalations -> ReservedGrant]
      /\ escalations \in [Escalations -> EscalationRecord]
  BY DEF TypeInv, TypeOK
<1>2. CASE UNCHANGED <<escalations, grants>>
  BY <1>2 DEF KeepsBindings
<1>3. CASE \E t \in Threads : CreateEscalation(t)
  <2>1. UNCHANGED grants
    BY <1>3 DEF CreateEscalation
  <2>2. PICK f \in Escalations : \E r :
          escalations[f].status = "absent" /\ escalations' = [escalations EXCEPT ![f] = r]
    BY <1>3 DEF CreateEscalation
  <2>3. escalations[f].decision = None
    BY <2>2 DEF RulingInv, RulingsRecorded
  <2> QED
    BY <1>1, <2>1, <2>2, <2>3 DEF KeepsBindings
<1>4. ASSUME NEW t \in Threads, CreatePendingContext(t)
      PROVE  KeepsBindings(e)
  <2>1. PICK f \in Escalations : f = calls[t].escalation /\ ~grants[f].reserved
    BY <1>4
       DEF CreatePendingContext, TypeInv, LocalsDefined, RulingInv,
           CreationIsPrivate
  <2>2. PICK g : grants' = [grants EXCEPT ![f] = g]
    BY <1>4, <2>1 DEF CreatePendingContext
  <2>3. UNCHANGED escalations
    BY <1>4 DEF CreatePendingContext
  <2> QED
    BY <1>1, <2>1, <2>2, <2>3 DEF KeepsBindings
<1>5. ASSUME NEW t \in Threads, MediatorDecide(t)
      PROVE  KeepsBindings(e)
  <2>1. UNCHANGED grants
    BY <1>5 DEF MediatorDecide
  <2>2. \/ UNCHANGED escalations
        \/ \E f, r : /\ escalations[f].status = "pending"
                     /\ escalations' = [escalations EXCEPT ![f] = r]
    BY <1>5 DEF MediatorDecide, Decidable
  <2> QED
    BY <1>1, <2>1, <2>2 DEF RulingInv, RulingsRecorded, KeepsBindings
<1>6. CASE \E t \in Threads : MediatorResolve(t)
  <2>1. UNCHANGED grants
    BY <1>6 DEF MediatorResolve
  <2>2. PICK f, x : escalations' = [escalations EXCEPT ![f].status = x]
    BY <1>6 DEF MediatorResolve
  <2> QED
    BY <1>1, <2>1, <2>2 DEF EscalationRecord, KeepsBindings
<1>7. CASE \/ \E t \in Threads : \/ AttachOwnerDecision(t)
                                 \/ ConsumeIfValid(t) \/ Unconsume(t)
           \/ Environment
  <2>1. UNCHANGED escalations
    BY <1>7 DEF AttachOwnerDecision, ConsumeIfValid, Unconsume, Environment,
                SetPolicy, Register, Lapse, Expire, stores
  <2>2. \/ UNCHANGED grants
        \/ \E f, x : \/ grants' = [grants EXCEPT ![f].decision = x]
                     \/ grants' = [grants EXCEPT ![f].consumed = x]
                     \/ grants' = [grants EXCEPT ![f].expired = x]
    BY <1>7 DEF AttachOwnerDecision, ConsumeIfValid, Unconsume, Environment,
                SetPolicy, Register, Lapse, Expire, stores
  <2> QED
    BY <1>1, <2>1, <2>2 DEF ReservedGrant, KeepsBindings
<1>8. ASSUME NEW t \in Threads, Request(t)
      PROVE  UNCHANGED <<escalations, grants>>
  BY <1>8 DEF Request, Evaluate, Reenter, DecideEscalation, UpdatePolicy,
              Refuse, Begin, stores
<1>9. ASSUME NEW t \in Threads, GetEscalation(t)
      PROVE  UNCHANGED <<escalations, grants>>
  BY <1>9 DEF GetEscalation, stores
<1>10. ASSUME UNCHANGED vars
       PROVE  UNCHANGED <<escalations, grants>>
  BY <1>10 DEF vars
<1> QED
  BY <1>2, <1>3, <1>4, <1>5, <1>6, <1>7, <1>8, <1>9, <1>10, StepCases,
     ReadingIsOnward DEF Next, stores

\* So a warrant lasts.
LEMMA WarrantsLast ==
  ASSUME TypeInv, RulingInv, [Next]_vars,
         NEW m, Warranted(m), m.escalation \in Escalations \cup {None}
  PROVE  Warranted(m)'
<1>1. CASE m.escalation = None
  BY <1>1 DEF Warranted, Approved
<1>2. CASE m.escalation # None
  <2>1. m.escalation \in Escalations
    BY <1>2
  <2>2. "permit" # None
    BY ConstantsAssumption DEF Decisions
  <2> QED
    BY <1>2, <2>1, <2>2, BindingsAreKept DEF KeepsBindings, Warranted, Approved
<1> QED
  BY <1>1, <1>2


\* Most steps leave a call without a claim, or with those it had.
Modest(c, d) ==
  /\ ~Permitting(d)
  /\ d.step = "rollback" => "failed" \in AuditOutcomes
  /\ \/ /\ d.step \notin {"eval_provenance", "provenance", "hash", "consume"}
        /\ d.step \in {"eval_gate", "eval_check"} => d.escalation = None
     \/ /\ d.step \in {"hash", "consume"} /\ c.step \in {"provenance", "hash"}
        /\ d.principal = c.principal /\ d.payload = c.payload
        /\ d.capability = c.capability

LEMMA ModestIdle ==
  ASSUME NEW c
  PROVE  /\ Modest(c, Idle)
         /\ \A e : Modest(c, Finishing("DENY", e))
                   /\ Modest(c, Finishing("ESCALATE", e))
BY DEF Modest, Permitting, Finishing, Idle

LEMMA ModestClaims ==
  ASSUME NEW c, NEW d, LocalClaims(c), Modest(c, d)
  PROVE  LocalClaims(d)
BY DEF Modest, LocalClaims, Cleared

\* What a call may claim after a step of its own.
ClaimsOf(t) ==
  /\ calls' = [calls EXCEPT ![t] = calls'[t]]
  /\ calls'[t].step = "rollback" => "failed" \in AuditOutcomes
  /\ LocalClaims(calls'[t])
  /\ Permitting(calls'[t]) =>
       /\ calls'[t].escalation \in Escalations \cup {None}
       /\ \E d : d = calls'[t] /\ Warranted(d)
       /\ calls'[t].escalation # None =>
            /\ ~grants[calls'[t].escalation].consumed
            /\ grants'[calls'[t].escalation].consumed

LEMMA RequestClaims ==
  ASSUME TypeInv, NEW t \in Threads, Request(t)
  PROVE  ClaimsOf(t)
<1>1. ASSUME NEW b, Begin(t, b), ~Permitting(b), LocalClaims(b),
             b.step # "rollback"
      PROVE  ClaimsOf(t)
  BY <1>1 DEF Begin, Continue, TypeInv, TypeOK, ClaimsOf
<1>2. ASSUME NEW p, NEW x, Evaluate(t, p, x) PROVE ClaimsOf(t)
  BY <1>1, <1>2 DEF Evaluate, Idle, LocalClaims, Permitting
<1>3. ASSUME NEW p, NEW x, NEW e, Reenter(t, p, x, e) PROVE ClaimsOf(t)
  BY <1>1, <1>3 DEF Reenter, Idle, LocalClaims, Permitting
<1>4. ASSUME NEW p, NEW e, NEW r, DecideEscalation(t, p, e, r)
      PROVE  ClaimsOf(t)
  BY <1>1, <1>4 DEF DecideEscalation, Idle, LocalClaims, Permitting
<1>5. ASSUME NEW p, NEW h, UpdatePolicy(t, p, h) PROVE ClaimsOf(t)
  BY <1>1, <1>5 DEF UpdatePolicy, Idle, LocalClaims, Permitting
<1>6. CASE Refuse(t)
  BY <1>1, <1>6 DEF Refuse, Finishing, Idle, LocalClaims, Permitting
<1> QED
  BY <1>2, <1>3, <1>4, <1>5, <1>6 DEF Request

LEMMA StepClaims ==
  ASSUME TypeInv, RulingInv, NEW t \in Threads, Step(t), LocalClaims(calls[t])
  PROVE  ClaimsOf(t)
<1>1. PICK c \in Call : c = calls[t] /\ LocalsDefined(c) /\ LocalClaims(c)
  BY CallType
<1>2. ASSUME NEW d, Continue(t, d), ~Permitting(d), LocalClaims(d),
             d.step = "rollback" => "failed" \in AuditOutcomes
      PROVE  ClaimsOf(t)
  BY <1>2 DEF Continue, TypeInv, TypeOK, ClaimsOf
<1>3. ASSUME NEW d, Continue(t, d), Modest(c, d)
      PROVE  ClaimsOf(t)
  BY <1>1, <1>2, <1>3, ModestClaims DEF Modest
<1>4. ASSUME NEW d, Continue(t, d), d.step = "finish", Warranted(d),
             d.escalation \in Escalations \cup {None},
             d.escalation # None => /\ ~grants[d.escalation].consumed
                                    /\ grants'[d.escalation].consumed
      PROVE  ClaimsOf(t)
  BY <1>4 DEF Continue, TypeInv, TypeOK, ClaimsOf, LocalClaims
<1>5. CASE EvaluateGate(t)
  <2>1. /\ Modest(c, [c EXCEPT !.step = "create", !.reason = "policy"])
        /\ Modest(c, [c EXCEPT !.step = "eval_check"])
    BY <1>1, <1>5 DEF EvaluateGate, LocalClaims, Modest, Permitting, Call
  <2> QED
    BY <1>1, <1>3, <1>5, <2>1 DEF EvaluateGate
<1>6. CASE EvaluateCheck(t)
  <2>1. c.step = "eval_check" /\ c.escalation = None
    BY <1>1, <1>6 DEF EvaluateCheck, LocalClaims
  <2>2. PICK k \in BestCandidates(c.principal, c.payload) : \E r :
          \/ Continue(t, Finishing("DENY", None))
          \/ Continue(t, [c EXCEPT !.step = "create", !.capability = k,
                                   !.reason = r])
          \/ /\ CheckCapability(c.principal, k, c.payload, FALSE) = "ALLOW"
             /\ Continue(t, [c EXCEPT !.step = "eval_provenance",
                                      !.capability = k])
    BY <1>1, <1>6 DEF EvaluateCheck
  <2>3. \A r :
          Modest(c, [c EXCEPT !.step = "create", !.capability = k,
                              !.reason = r])
    BY DEF Modest, Permitting, Call
  <2>4. CheckCapability(c.principal, k, c.payload, FALSE) = "ALLOW" =>
          LET d == [c EXCEPT !.step = "eval_provenance", !.capability = k]
          IN ~Permitting(d) /\ LocalClaims(d) /\ d.step # "rollback"
    <3>1. k \in Capabilities \cup {None}
      BY BestCandidatesType
    <3>2. CheckCapability(c.principal, k, c.payload, FALSE) = "ALLOW" =>
            /\ k \in Capabilities /\ Holder[k] = c.principal
            /\ c.payload \in Scope[k]
            /\ OwnerMandatory(c.principal, c.payload) = None
      BY <3>1, ConstantsAssumption DEF CheckCapability, Reserved
    <3>3. LET d == [c EXCEPT !.step = "eval_provenance", !.capability = k]
          IN /\ d.step = "eval_provenance" /\ d.escalation = None
             /\ d.principal = c.principal /\ d.payload = c.payload
             /\ d.capability = k
      BY <2>1 DEF Call
    <3> QED
      BY <3>2, <3>3 DEF LocalClaims, Cleared, Permitting
  <2> QED
    BY <1>2, <1>3, <2>2, <2>3, <2>4, ModestIdle
<1>7. CASE EvaluateProvenance(t)
  <2>1. /\ c.step = "eval_provenance" /\ c.escalation = None /\ Cleared(c)
        /\ OwnerMandatory(c.principal, c.payload) = None
    BY <1>1, <1>7 DEF EvaluateProvenance, LocalClaims
  <2>2. Modest(c, [c EXCEPT !.step = "create", !.reason = "provenance"])
    BY DEF Modest, Permitting, Call
  <2>3. CASE Continue(t, Finishing("DENY", None))
    BY <1>3, <2>3, ModestIdle
  <2>4. CASE Continue(t, [c EXCEPT !.step = "create", !.reason = "provenance"])
    BY <1>3, <2>2, <2>4
  <2>5. ASSUME NEW i,
               Continue(t, [c EXCEPT !.step = "finish", !.verdict = "PERMIT",
                                     !.identity = i])
        PROVE  ClaimsOf(t)
    <3>1. PICK d : d = [c EXCEPT !.step = "finish", !.verdict = "PERMIT",
                                 !.identity = i]
      OBVIOUS
    <3>2. /\ d.step = "finish" /\ d.escalation = None
          /\ d.principal = c.principal /\ d.payload = c.payload
          /\ d.capability = c.capability
      BY <2>1, <3>1 DEF Call
    <3>3. Warranted(d)
      BY <2>1, <3>2 DEF Cleared, Warranted, Approved
    <3> QED
      BY <1>4, <2>5, <3>1, <3>2, <3>3
  <2> QED
    BY <1>1, <1>7, <2>3, <2>4, <2>5 DEF EvaluateProvenance
<1>8. CASE CreateEscalation(t)
  <2>1. \A e : Modest(c, [c EXCEPT !.step = "reserve", !.escalation = e])
    BY DEF Modest, Permitting, Call
  <2> QED
    BY <1>1, <1>3, <1>8, <2>1 DEF CreateEscalation
<1>9. CASE CreatePendingContext(t)
  <2>1. Modest(c, [Finishing("ESCALATE", c.escalation) EXCEPT
                     !.reason = c.reason])
    BY DEF Modest, Permitting, Finishing, Idle
  <2> QED
    BY <1>1, <1>3, <1>9, <2>1 DEF CreatePendingContext
<1>10. CASE Authorize(t) \/ MediatorDecide(t) \/ AttachOwnerDecision(t)
            \/ AssignPolicy(t)
  <2>1. /\ Modest(c, [c EXCEPT !.step = "update_policy"])
        /\ Modest(c, [c EXCEPT !.step = "decide"])
        /\ Modest(c, [c EXCEPT !.step = "attach"])
    BY DEF Modest, Permitting, Call
  <2> QED
    BY <1>1, <1>3, <1>10, <2>1, ModestIdle
       DEF Authorize, MediatorDecide, AttachOwnerDecision, AssignPolicy
<1>11. CASE GetEscalation(t) \/ ReenterGate(t)
  <2>1. /\ Modest(c, [c EXCEPT !.step = "gate"])
        /\ Modest(c, [c EXCEPT !.step = "lookup"])
    BY DEF Modest, Permitting, Call
  <2> QED
    BY <1>1, <1>3, <1>11, <2>1, ModestIdle DEF GetEscalation, ReenterGate
<1>12. CASE LookupGrant(t)
  <2>1. PICK k, s :
          Continue(t, [c EXCEPT !.step = "check", !.capability = k, !.skip = s])
    BY <1>1, <1>12, Zenon DEF LookupGrant
  <2>2. Modest(c, [c EXCEPT !.step = "check", !.capability = k, !.skip = s])
    BY DEF Modest, Permitting, Call
  <2> QED
    BY <1>3, <2>1, <2>2
<1>13. CASE ReenterCheck(t)
  <2>1. PICK k \in Capabilities \cup {None} :
          \/ /\ CheckCapability(c.principal, k, c.payload, c.skip) = "ALLOW"
             /\ Continue(t, [c EXCEPT !.step = "provenance", !.capability = k])
          \/ Continue(t, Finishing("DENY", c.escalation))
    <3>1. c.capability \in Capabilities \cup {None}
      BY DEF Call
    <3> QED
      BY <1>1, <1>13, <3>1, BestCandidatesType DEF ReenterCheck
  <2>2. CheckCapability(c.principal, k, c.payload, c.skip) = "ALLOW" =>
          LET d == [c EXCEPT !.step = "provenance", !.capability = k]
          IN ~Permitting(d) /\ LocalClaims(d) /\ d.step # "rollback"
    <3>1. CheckCapability(c.principal, k, c.payload, c.skip) = "ALLOW" =>
            k \in Capabilities /\ Holder[k] = c.principal /\ c.payload \in Scope[k]
      BY ConstantsAssumption DEF CheckCapability, Reserved
    <3>2. LET d == [c EXCEPT !.step = "provenance", !.capability = k]
          IN /\ d.step = "provenance" /\ d.principal = c.principal
             /\ d.payload = c.payload /\ d.capability = k
      BY DEF Call
    <3> QED
      BY <3>1, <3>2 DEF LocalClaims, Cleared, Permitting
  <2> QED
    BY <1>2, <1>3, <2>1, <2>2, ModestIdle
<1>14. CASE ReenterProvenance(t)
  <2>1. \A i : Modest(c, [c EXCEPT !.step = "hash", !.identity = i])
    BY <1>1, <1>14 DEF ReenterProvenance, Modest, Permitting, Call
  <2> QED
    BY <1>1, <1>3, <1>14, <2>1, ModestIdle DEF ReenterProvenance
<1>15. CASE ReadPolicyHash(t)
  <2>1. Modest(c, [c EXCEPT !.step = "consume", !.policy = policy])
    BY <1>1, <1>15 DEF ReadPolicyHash, Modest, Permitting, Call
  <2> QED
    BY <1>1, <1>3, <1>15, <2>1 DEF ReadPolicyHash
<1>16. CASE ConsumeIfValid(t)
  <2>1. /\ c.step = "consume" /\ c.escalation \in Escalations /\ Cleared(c)
        /\ escalations[c.escalation].decision = "permit"
        /\ escalations[c.escalation].principal = c.principal
    BY <1>1, <1>16
       DEF ConsumeIfValid, LocalClaims, RulingInv, RulingsKnown, LocalsDefined,
           Reentering
  <2>2. CASE ~Redeemable(grants[c.escalation], c)
    BY <1>1, <1>3, <1>16, <2>2, ModestIdle DEF ConsumeIfValid
  <2>3. CASE Redeemable(grants[c.escalation], c)
    <3>1. PICK d : d = [c EXCEPT !.step = "finish", !.verdict = "PERMIT"]
      OBVIOUS
    <3>2. /\ d.step = "finish" /\ d.escalation = c.escalation
          /\ d.principal = c.principal /\ d.payload = c.payload
          /\ d.capability = c.capability /\ d.policy = c.policy
          /\ d.identity = c.identity
      BY <3>1 DEF Call
    <3>3. Warranted(d)
      <4>1. PICK g : g = grants[c.escalation]
        OBVIOUS
      <4>2. /\ g.reserved /\ g.principal = c.principal /\ g.payload = c.payload
            /\ g.reason # "policy" => g.policy = c.policy
            /\ g.reason # "provenance" => g.identity = c.identity
            /\ g.reason \notin {"policy", "provenance"}
                 => g.capability = c.capability
        BY <2>3, <4>1 DEF Redeemable, BindingsMatch
      <4>3. LET ruledOn == {"policy", "provenance"} \cap {g.reason} IN
            /\ c.policy = g.policy \/ ruledOn = {"policy"}
            /\ c.identity = g.identity \/ ruledOn = {"provenance"}
            /\ c.capability = g.capability \/ ruledOn # {}
        BY <4>2
      <4> QED
        BY <2>1, <3>2, <4>1, <4>2, <4>3, ConstantsAssumption
           DEF Cleared, Warranted, Approved
    <3>4. Continue(t, d)
      BY <1>1, <1>16, <2>3, <3>1 DEF ConsumeIfValid
    <3>5. /\ ~grants[c.escalation].consumed
          /\ grants'[c.escalation].consumed
      <4>1. ~grants[c.escalation].consumed
        BY <2>3 DEF Redeemable
      <4>2. grants' = [grants EXCEPT ![c.escalation].consumed = TRUE]
        BY <1>1, <1>16, <2>3 DEF ConsumeIfValid
      <4> QED
        BY <2>1, <4>1, <4>2 DEF TypeInv, TypeOK, ReservedGrant
    <3> QED
      BY <1>4, <2>1, <3>2, <3>3, <3>4, <3>5
  <2> QED
    BY <2>2, <2>3
<1>17. CASE Finish(t)
  <2>1. /\ "failed" \in AuditOutcomes => Modest(c, RollbackFailed(c))
        /\ Modest(c, [Idle EXCEPT !.step = "resolve",
                                  !.escalation = c.escalation])
    BY DEF RollbackFailed, Modest, Permitting, Idle
  <2> QED
    BY <1>1, <1>3, <1>17, <2>1, ModestIdle DEF Finish
<1>18. CASE Unconsume(t) \/ MediatorResolve(t)
  BY <1>1, <1>3, <1>18, ModestIdle DEF Unconsume, MediatorResolve
<1> QED
  BY <1>5, <1>6, <1>7, <1>8, <1>9, <1>10, <1>11, <1>12, <1>13, <1>14, <1>15,
     <1>16, <1>17, <1>18 DEF Step


\* Only an audited PERMIT enters the history.
LEMMA PermitsGrow ==
  ASSUME TypeInv, [Next]_vars
  PROVE  \/ permits' = permits
         \/ \E t \in Threads, m \in Permit :
              /\ Permitting(calls[t]) /\ ~Permitting(calls'[t])
              /\ UNCHANGED <<escalations, grants>>
              /\ permits' = Append(permits, m)
              /\ m.escalation = calls[t].escalation
              /\ m.principal = calls[t].principal
              /\ m.payload = calls[t].payload
              /\ m.capability = calls[t].capability
              /\ m.policy = calls[t].policy
              /\ m.identity = calls[t].identity
<1>1. ASSUME NEW t \in Threads, Finish(t), permits' # permits
      PROVE  \E m \in Permit :
               /\ Permitting(calls[t]) /\ ~Permitting(calls'[t])
               /\ UNCHANGED <<escalations, grants>>
               /\ permits' = Append(permits, m)
               /\ m.escalation = calls[t].escalation
               /\ m.principal = calls[t].principal
               /\ m.payload = calls[t].payload
               /\ m.capability = calls[t].capability
               /\ m.policy = calls[t].policy
               /\ m.identity = calls[t].identity
  <2>1. PICK c \in Call : c = calls[t] /\ LocalsDefined(c)
    BY CallType
  <2>2. PICK m : m = [escalation |-> c.escalation, principal |-> c.principal,
                      payload |-> c.payload, capability |-> c.capability,
                      policy |-> c.policy, identity |-> c.identity]
    OBVIOUS
  <2>3. Permitting(c) /\ permits' = Append(permits, m)
    BY <1>1, <2>1, <2>2 DEF Finish, Permitting
  <2>4. m \in Permit
    BY <2>1, <2>2, <2>3 DEF Permitting, LocalsDefined, Call, Permit
  <2>5. ~Permitting(calls'[t]) /\ UNCHANGED <<escalations, grants>>
    <3>1. \/ calls' = [calls EXCEPT ![t] = Idle]
          \/ calls' = [calls EXCEPT ![t] = [Idle EXCEPT !.step = "resolve",
                                              !.escalation = c.escalation]]
      BY <1>1, <2>1 DEF Finish, Continue
    <3>2. calls'[t].step \in {"idle", "resolve"}
      <4>1. calls \in [Threads -> Call]
        BY DEF TypeInv, TypeOK
      <4>2. /\ Idle.step = "idle"
            /\ [Idle EXCEPT !.step = "resolve",
                            !.escalation = c.escalation].step = "resolve"
        BY DEF Idle
      <4> QED
        BY <3>1, <4>1, <4>2
    <3>3. UNCHANGED <<escalations, grants>>
      BY <1>1 DEF Finish, stores
    <3> QED
      BY <3>2, <3>3 DEF Permitting
  <2> QED
    BY <2>1, <2>2, <2>3, <2>4, <2>5
<1>2. ASSUME NEW t \in Threads, Request(t)
      PROVE  permits' = permits
  BY <1>2 DEF Request, Evaluate, Reenter, DecideEscalation, UpdatePolicy,
              Refuse, Begin
<1>3. ASSUME NEW t \in Threads, Step(t), ~Finish(t)
      PROVE  permits' = permits
  <2>1. EvaluateGate(t) \/ EvaluateCheck(t) \/ EvaluateProvenance(t)
          \/ CreateEscalation(t) \/ CreatePendingContext(t) \/ Authorize(t)
          => permits' = permits
    BY DEF EvaluateGate, EvaluateCheck, EvaluateProvenance, CreateEscalation,
           CreatePendingContext, Authorize
  <2>2. MediatorDecide(t) \/ AttachOwnerDecision(t) \/ AssignPolicy(t)
          \/ GetEscalation(t) \/ ReenterGate(t) \/ LookupGrant(t)
          => permits' = permits
    BY DEF MediatorDecide, AttachOwnerDecision, AssignPolicy, GetEscalation,
           ReenterGate, LookupGrant
  <2>3. ReenterCheck(t) \/ ReenterProvenance(t) \/ ReadPolicyHash(t)
          \/ ConsumeIfValid(t) \/ Unconsume(t) \/ MediatorResolve(t)
          => permits' = permits
    BY DEF ReenterCheck, ReenterProvenance, ReadPolicyHash, ConsumeIfValid,
           Unconsume, MediatorResolve
  <2> QED
    BY <1>3, <2>1, <2>2, <2>3, Zenon DEF Step
<1>4. Environment \/ UNCHANGED vars => permits' = permits
  BY DEF Environment, SetPolicy, Register, Lapse, Expire, vars
<1> QED
  BY <1>1, <1>2, <1>3, <1>4 DEF Next

\* The calls of the other threads keep their claims; the PERMIT an answer
\* adds to the history is the one its call was about to give.
LEMMA ClaimsNext ==
  ASSUME TypeInv, RulingInv, ClaimsHold, [Next]_vars
  PROVE  ClaimsHold'
<1>1. /\ calls \in [Threads -> Call] /\ permits \in Seq(Permit)
      /\ \A t \in Threads : calls[t].escalation \in Escalations \cup {None}
      /\ \A n \in DOMAIN permits :
           permits[n] \in Permit /\ permits[n].escalation \in Escalations \cup {None}
  <2>1. calls \in [Threads -> Call] /\ permits \in Seq(Permit)
    BY DEF TypeInv, TypeOK
  <2>2. \A n \in DOMAIN permits : permits[n] \in Permit
    BY <2>1
  <2> QED
    BY <2>1, <2>2 DEF Call, Permit
<1>2. ASSUME NEW u \in Threads
      PROVE  /\ LocalClaims(calls'[u])
             /\ Permitting(calls'[u]) =>
                  /\ calls'[u].escalation \in Escalations \cup {None}
                  /\ \E d : d = calls'[u] /\ Warranted(d)
  <2>1. ASSUME NEW t \in Threads, ClaimsOf(t)
        PROVE  /\ LocalClaims(calls'[u])
               /\ Permitting(calls'[u]) =>
                    /\ calls'[u].escalation \in Escalations \cup {None}
                    /\ \E d : d = calls'[u] /\ Warranted(d)
    <3>1. CASE u = t
      BY <2>1, <3>1 DEF ClaimsOf
    <3>2. CASE u # t
      <4>1. calls'[u] = calls[u]
        BY <1>1, <2>1, <3>2 DEF ClaimsOf
      <4> QED
        BY <1>1, <4>1 DEF ClaimsHold
    <3> QED
      BY <3>1, <3>2
  <2>2. CASE calls' = calls
    BY <1>1, <2>2 DEF ClaimsHold
  <2>3. calls' = calls \/ \E t \in Threads : ClaimsOf(t)
    <3>1. Environment \/ UNCHANGED vars => calls' = calls
      BY DEF Environment, SetPolicy, Register, Lapse, Expire, vars
    <3> QED
      BY <3>1, RequestClaims, StepClaims DEF Next, ClaimsHold
  <2> QED
    BY <2>1, <2>2, <2>3
<1>3. ASSUME NEW u \in Threads
      PROVE  /\ LocalClaims(calls[u])'
             /\ Permitting(calls[u])' => Warranted(calls[u])'
  <2>1. ASSUME Permitting(calls'[u])
        PROVE  Warranted(calls[u])'
    <3>1. PICK d : d = calls'[u] /\ Warranted(d)
                   /\ d.escalation \in Escalations \cup {None}
      BY <1>2, <2>1
    <3>2. Warranted(d)'
      BY <3>1, WarrantsLast
    <3> QED
      BY <3>1, <3>2 DEF Warranted, Approved
  <2> QED
    BY <1>2, <2>1
<1>4. ASSUME NEW n \in DOMAIN permits'
      PROVE  Warranted(permits[n])'
  <2>1. CASE n \in DOMAIN permits /\ permits'[n] = permits[n]
    <3>1. PICK m : m = permits[n]
      OBVIOUS
    <3>2. Warranted(m)'
      BY <1>1, <2>1, <3>1, WarrantsLast DEF ClaimsHold
    <3> QED
      BY <2>1, <3>1, <3>2 DEF Warranted, Approved
  <2>2. ASSUME NEW t \in Threads, NEW m \in Permit,
               Permitting(calls[t]),
               m.escalation = calls[t].escalation,
               m.principal = calls[t].principal,
               m.payload = calls[t].payload,
               m.capability = calls[t].capability,
               m.policy = calls[t].policy,
               m.identity = calls[t].identity,
               permits'[n] = m
        PROVE  Warranted(permits[n])'
    <3>1. Warranted(calls[t])
      BY <2>2 DEF ClaimsHold
    <3>2. Warranted(m)
      BY <2>2, <3>1 DEF Warranted, Approved
    <3>3. Warranted(m)'
      BY <1>1, <2>2, <3>2, WarrantsLast
    <3> QED
      BY <2>2, <3>3 DEF Warranted, Approved
  <2>3. CASE permits' = permits
    BY <2>1, <2>3
  <2>4. ASSUME NEW m \in Permit, permits' = Append(permits, m)
        PROVE  \/ n \in DOMAIN permits /\ permits'[n] = permits[n]
               \/ permits'[n] = m
    <3>1. /\ DOMAIN permits = 1..Len(permits) /\ Len(permits) \in Nat
          /\ DOMAIN permits' = 1..(Len(permits) + 1)
          /\ \A i \in 1..Len(permits) : permits'[i] = permits[i]
          /\ permits'[Len(permits) + 1] = m
      BY <1>1, <2>4, AppendProperties, LenProperties
    <3> QED
      BY <3>1
  <2> QED
    BY <2>1, <2>2, <2>3, <2>4, PermitsGrow
<1> QED
  BY <1>3, <1>4 DEF ClaimsHold

LEMMA ClaimsInit == Init => ClaimsHold
BY DEF Init, ClaimsHold, LocalClaims, Permitting, Idle

\* Every PERMIT there will ever be is one the Owner's rules allow: within the
\* capability's scope, and on re-entry the very request he approved.
THEOREM PermitsAreApproved == Spec => []PermitWasApproved
<1>1. Init => TypeInv /\ RulingInv /\ ClaimsHold
  BY TypeInit, RulingInit, ClaimsInit
<1>2. (TypeInv /\ RulingInv /\ ClaimsHold) /\ [Next]_vars
        => (TypeInv /\ RulingInv /\ ClaimsHold)'
  BY TypeNext, RulingNext, ClaimsNext
<1>3. ClaimsHold => PermitWasApproved
  BY DEF ClaimsHold, Warranted, PermitWasApproved
<1> QED
  BY <1>1, <1>2, <1>3, PTL DEF Spec

-----------------------------------------------------------------------------
(* An approval is not lost: what is consumed was redeemed for good, or the *)
(* call that consumed it, or one that will give it back, is still at work. *)

ConsumptionIsHeld ==
  \A e \in Escalations :
    grants[e].consumed =>
      /\ escalations[e].decision # None
      /\ escalations[e].status = "resolved" \/ InFlight(e)

\* A call that is redeeming under e, or rolling back.
Flying(c, e) ==
  c.escalation = e /\ (c.step \in {"rollback", "resolve"} \/ Permitting(c))

LEMMA ResolvedForGood ==
  ASSUME TypeInv, [Next]_vars, NEW e \in Escalations,
         escalations[e].status = "resolved"
  PROVE  escalations'[e].status = "resolved"
<1>1. escalations \in [Escalations -> EscalationRecord]
  BY DEF TypeInv, TypeOK
<1>2. ASSUME NEW t \in Threads, Request(t)
      PROVE  UNCHANGED escalations
  BY <1>2 DEF Request, Evaluate, Reenter, DecideEscalation, UpdatePolicy,
              Refuse, Begin, stores
<1>3. Environment \/ UNCHANGED vars => UNCHANGED escalations
  BY DEF Environment, SetPolicy, Register, Lapse, Expire, stores, vars
<1>4. ASSUME NEW t \in Threads, CreateEscalation(t)
      PROVE  escalations'[e].status = "resolved"
  BY <1>1, <1>4 DEF CreateEscalation
<1>5. ASSUME NEW t \in Threads, MediatorDecide(t)
      PROVE  escalations'[e].status = "resolved"
  BY <1>1, <1>5 DEF MediatorDecide, Decidable
<1>6. ASSUME NEW t \in Threads, MediatorResolve(t)
      PROVE  escalations'[e].status = "resolved"
  <2>1. \E f : escalations' = [escalations EXCEPT ![f].status =
                                IF @ = "decided" THEN "resolved" ELSE @]
    BY <1>6 DEF MediatorResolve
  <2> QED
    BY <1>1, <2>1 DEF EscalationRecord
<1>7. ASSUME NEW t \in Threads,
             \/ CreatePendingContext(t) \/ AttachOwnerDecision(t)
             \/ GetEscalation(t) \/ ConsumeIfValid(t) \/ Unconsume(t)
      PROVE  UNCHANGED escalations
  BY <1>7 DEF CreatePendingContext, AttachOwnerDecision, GetEscalation,
              ConsumeIfValid, Unconsume, stores
<1>8. ASSUME NEW t \in Threads, Step(t)
      PROVE  escalations'[e].status = "resolved"
  BY <1>4, <1>5, <1>6, <1>7, <1>8, StepCases, ReadingIsOnward DEF stores
<1> QED
  BY <1>2, <1>3, <1>8 DEF Next

\* A call ends a redemption with the record resolved or the grant given back.
LEMMA FlightEnds ==
  ASSUME "no_hash" \notin AuditOutcomes, TypeInv, RulingInv,
         NEW t \in Threads, Step(t), NEW e \in Escalations,
         Flying(calls[t], e), grants'[e].consumed,
         escalations[e].decision # None
  PROVE  escalations'[e].status = "resolved" \/ Flying(calls'[t], e)
<1>1. PICK c \in Call : c = calls[t] /\ LocalsDefined(c)
  BY CallType
<1>2. /\ calls \in [Threads -> Call]
      /\ grants \in [Escalations -> ReservedGrant]
      /\ escalations \in [Escalations -> EscalationRecord]
      /\ e # None
  BY ConstantsAssumption DEF TypeInv, TypeOK
<1>3. c.escalation = e /\ c.step \in {"rollback", "resolve", "finish"}
      /\ (c.step = "finish" => c.verdict = "PERMIT")
  BY <1>1 DEF Flying, Permitting
<1>4. Finish(t) \/ Unconsume(t) \/ MediatorResolve(t)
  BY <1>1, <1>3 DEF Step, EvaluateGate, EvaluateCheck, EvaluateProvenance,
     CreateEscalation, CreatePendingContext, Authorize, MediatorDecide,
     AttachOwnerDecision, AssignPolicy, GetEscalation, ReenterGate,
     LookupGrant, ReenterCheck, ReenterProvenance, ReadPolicyHash,
     ConsumeIfValid
<1>5. CASE Finish(t)
  <2>1. \/ Continue(t, [Idle EXCEPT !.step = "resolve", !.escalation = e])
        \/ Continue(t, [Idle EXCEPT !.step = "rollback", !.escalation = e,
                                    !.reason = c.reason])
    <3>1. c.step = "finish" /\ c.verdict = "PERMIT"
      BY <1>1, <1>3, <1>5 DEF Finish
    <3> QED
      BY <1>1, <1>2, <1>3, <1>5, <3>1 DEF Finish, RollbackFailed
  <2>2. \E d : /\ Continue(t, d) /\ d.escalation = e
               /\ d.step \in {"rollback", "resolve"}
    <3> DEFINE d1 == [Idle EXCEPT !.step = "resolve", !.escalation = e]
               d2 == [Idle EXCEPT !.step = "rollback", !.escalation = e,
                                  !.reason = c.reason]
    <3>1. /\ d1.escalation = e /\ d1.step = "resolve"
          /\ d2.escalation = e /\ d2.step = "rollback"
      BY DEF Idle
    <3>2. Continue(t, d1) \/ Continue(t, d2)
      BY <2>1
    <3> HIDE DEF d1, d2
    <3> QED
      BY <3>1, <3>2
  <2>3. calls'[t].escalation = e /\ calls'[t].step \in {"rollback", "resolve"}
    BY <1>2, <2>2 DEF Continue
  <2> QED
    BY <2>3 DEF Flying
<1>6. CASE Unconsume(t)
  <2>1. IF grants[e].consumed
          THEN grants' = [grants EXCEPT ![e].consumed = FALSE]
          ELSE grants' = grants
    BY <1>1, <1>3, <1>6 DEF Unconsume
  <2> QED
    BY <1>2, <2>1 DEF ReservedGrant
<1>7. CASE MediatorResolve(t)
  <2>1. escalations' = [escalations EXCEPT ![e].status =
                          IF @ = "decided" THEN "resolved" ELSE @]
    BY <1>1, <1>3, <1>7 DEF MediatorResolve
  <2>2. escalations[e].status \in {"decided", "resolved"}
    BY DEF RulingInv, RulingsRecorded
  <2> QED
    BY <1>2, <2>1, <2>2 DEF EscalationRecord
<1> QED
  BY <1>4, <1>5, <1>6, <1>7

\* What is newly consumed was consumed by a call that answers PERMIT.
LEMMA ConsumerFlies ==
  ASSUME TypeInv, RulingInv, [Next]_vars, NEW e \in Escalations,
         ~grants[e].consumed, grants'[e].consumed
  PROVE  /\ escalations[e].decision # None
         /\ \E t \in Threads : Flying(calls'[t], e)
<1>1. /\ calls \in [Threads -> Call]
      /\ grants \in [Escalations -> ReservedGrant]
  BY DEF TypeInv, TypeOK
<1>2. ASSUME NEW t \in Threads, Unconsume(t)
      PROVE  FALSE
  <2>1. \/ grants' = grants
        \/ \E f : grants' = [grants EXCEPT ![f].consumed = FALSE]
    BY <1>2 DEF Unconsume
  <2> QED
    BY <1>1, <2>1 DEF ReservedGrant
<1>3. PICK t \in Threads : ConsumeIfValid(t)
  BY <1>1, <1>2, LogUnchanged
<1>4. PICK c \in Call : c = calls[t] /\ LocalsDefined(c)
  BY CallType
<1>5. /\ grants' = [grants EXCEPT ![c.escalation].consumed = TRUE]
      /\ Continue(t, [c EXCEPT !.step = "finish", !.verdict = "PERMIT"])
      /\ c.step = "consume"
  <2>1. grants' # grants
    OBVIOUS
  <2> QED
    BY <1>3, <1>4, <2>1 DEF ConsumeIfValid
<1>6. c.escalation = e
  BY <1>1, <1>5
<1>7. escalations[e].decision = "permit"
  BY <1>4, <1>5, <1>6 DEF RulingInv, RulingsKnown, Reentering
<1>8. "permit" # None
  BY ConstantsAssumption DEF Decisions
<1>9. /\ calls'[t].escalation = e /\ calls'[t].step = "finish"
      /\ calls'[t].verdict = "PERMIT"
  BY <1>1, <1>5, <1>6 DEF Continue, Call
<1> QED
  BY <1>7, <1>8, <1>9 DEF Flying, Permitting

LEMMA HeldNext ==
  ASSUME "no_hash" \notin AuditOutcomes,
         TypeInv, RulingInv, ClaimsHold, ConsumptionIsHeld, [Next]_vars
  PROVE  ConsumptionIsHeld'
<1>1. \A f \in Escalations : InFlight(f)
                               <=> \E t \in Threads : Flying(calls[t], f)
  BY DEF InFlight, Flying, Permitting
<1>2. \A f \in Escalations : InFlight(f)'
                               <=> \E t \in Threads : Flying(calls'[t], f)
  BY DEF InFlight, Flying, Permitting
<1>3. ASSUME NEW e \in Escalations, grants'[e].consumed
      PROVE  /\ escalations'[e].decision # None
             /\ \/ escalations'[e].status = "resolved"
                \/ \E t \in Threads : Flying(calls'[t], e)
  <2>1. CASE ~grants[e].consumed
    <3>1. /\ escalations[e].decision # None
          /\ \E t \in Threads : Flying(calls'[t], e)
      BY <1>3, <2>1, ConsumerFlies
    <3> QED
      BY <3>1, BindingsAreKept DEF KeepsBindings
  <2>2. CASE grants[e].consumed
    <3>1. escalations[e].decision # None
      BY <2>2 DEF ConsumptionIsHeld
    <3>2. escalations'[e].decision # None
      BY <3>1, BindingsAreKept DEF KeepsBindings
    <3>3. CASE escalations[e].status = "resolved"
      BY <3>2, <3>3, ResolvedForGood
    <3>4. ASSUME NEW u \in Threads, Flying(calls[u], e)
          PROVE  \/ escalations'[e].status = "resolved"
                 \/ Flying(calls'[u], e)
      <4>1. CASE calls'[u] = calls[u]
        BY <3>4, <4>1
      <4>2. ASSUME NEW t \in Threads, ClaimsOf(t), t # u
            PROVE  calls'[u] = calls[u]
        BY <4>2 DEF ClaimsOf, TypeInv, TypeOK
      <4>3. ASSUME NEW t \in Threads, Request(t)
            PROVE  calls'[u] = calls[u]
        <5>1. calls[t].step = "idle"
          BY <4>3 DEF Request, Evaluate, Reenter, DecideEscalation,
                      UpdatePolicy, Refuse, Begin
        <5>2. t # u
          BY <3>4, <5>1 DEF Flying, Permitting
        <5> QED
          BY <4>2, <4>3, <5>2, RequestClaims
      <4>4. ASSUME NEW t \in Threads, Step(t), t # u
            PROVE  calls'[u] = calls[u]
        BY <4>2, <4>4, StepClaims DEF ClaimsHold
      <4>5. CASE Step(u)
        BY <1>3, <3>1, <3>4, <4>5, FlightEnds
      <4>6. CASE Environment \/ UNCHANGED vars
        BY <4>6, <4>1
           DEF Environment, SetPolicy, Register, Lapse, Expire, vars
      <4> QED
        BY <4>1, <4>3, <4>4, <4>5, <4>6 DEF Next
    <3> QED
      BY <1>1, <2>2, <3>2, <3>3, <3>4 DEF ConsumptionIsHeld
  <2> QED
    BY <2>1, <2>2
<1> QED
  BY <1>2, <1>3 DEF ConsumptionIsHeld

\* An approval is not used up by a call that did not end in a PERMIT: unless
\* an audit record has no hash, a redemption whose audit fails is taken back,
\* whoever interleaves (mediator.py, _finish and its rollback).  When the
\* record has none the call is denied and the grant stays consumed, which is
\* why the theorem assumes there is none.
THEOREM ApprovalsAreNotLost ==
  ASSUME "no_hash" \notin AuditOutcomes
  PROVE  Spec => []ApprovalNotLost
<1>1. Init => TypeInv /\ RulingInv /\ ClaimsHold /\ ConsumptionIsHeld
  <2>1. Init => ConsumptionIsHeld
    BY DEF Init, ConsumptionIsHeld, NoGrant
  <2> QED
    BY <2>1, TypeInit, RulingInit, ClaimsInit
<1>2. (TypeInv /\ RulingInv /\ ClaimsHold /\ ConsumptionIsHeld) /\ [Next]_vars
        => (TypeInv /\ RulingInv /\ ClaimsHold /\ ConsumptionIsHeld)'
  BY TypeNext, RulingNext, ClaimsNext, HeldNext
<1>3. ConsumptionIsHeld => ApprovalNotLost
  BY DEF ConsumptionIsHeld, ApprovalNotLost
<1> QED
  BY <1>1, <1>2, <1>3, PTL DEF Spec

-----------------------------------------------------------------------------
(* One redemption, while no audit write raises.                            *)

LEMMA RedemptionNext ==
  ASSUME "failed" \notin AuditOutcomes,
         TypeInv, RulingInv, ClaimsHold, OneRedemption, [Next]_vars
  PROVE  OneRedemption'
<1>1. /\ calls \in [Threads -> Call] /\ permits \in Seq(Permit)
      /\ grants \in [Escalations -> ReservedGrant]
      /\ \A t \in Threads : calls[t].escalation \in Escalations \cup {None}
      /\ \A n \in DOMAIN permits : permits[n].escalation \in Escalations \cup {None}
  <2>1. /\ calls \in [Threads -> Call] /\ permits \in Seq(Permit)
        /\ grants \in [Escalations -> ReservedGrant]
    BY DEF TypeInv, TypeOK
  <2>2. \A n \in DOMAIN permits : permits[n] \in Permit
    BY <2>1
  <2> QED
    BY <2>1, <2>2 DEF Call, Permit
<1>2. ASSUME NEW e \in Escalations, grants[e].consumed
      PROVE  grants'[e].consumed
  <2>1. ASSUME NEW t \in Threads, ConsumeIfValid(t)
        PROVE  grants'[e].consumed
    <3>1. grants' = grants \/ \E f : grants' = [grants EXCEPT ![f].consumed = TRUE]
      BY <2>1 DEF ConsumeIfValid
    <3> QED
      BY <1>1, <1>2, <3>1 DEF ReservedGrant
  <2>2. \A t \in Threads : ~Unconsume(t)
    BY DEF OneRedemption, Unconsume
  <2> QED
    BY <1>2, <2>1, <2>2, LogUnchanged
<1>3. \/ calls' = calls
      \/ \E t \in Threads : ClaimsOf(t)
  <2>1. Environment \/ UNCHANGED vars => calls' = calls
    BY DEF Environment, SetPolicy, Register, Lapse, Expire, vars
  <2> QED
    BY <2>1, RequestClaims, StepClaims DEF Next, ClaimsHold
<1> DEFINE Fresh(u) == /\ ~grants[calls'[u].escalation].consumed
                       /\ grants'[calls'[u].escalation].consumed
                       /\ \A v \in Threads : v # u => calls'[v] = calls[v]
<1>4. ASSUME NEW u \in Threads, Redeeming(u)'
      PROVE  (Redeeming(u) /\ calls'[u] = calls[u]) \/ Fresh(u)
  <2>1. CASE calls' = calls
    BY <1>4, <2>1 DEF Redeeming
  <2>2. ASSUME NEW t \in Threads, ClaimsOf(t)
        PROVE  (Redeeming(u) /\ calls'[u] = calls[u]) \/ Fresh(u)
    <3>1. CASE u = t
      <4>1. \A v \in Threads : v # u => calls'[v] = calls[v]
        BY <1>1, <2>2, <3>1 DEF ClaimsOf
      <4> QED
        BY <1>4, <2>2, <3>1, <4>1 DEF ClaimsOf, Redeeming, Permitting
    <3>2. CASE u # t
      <4>1. calls'[u] = calls[u]
        BY <1>1, <2>2, <3>2 DEF ClaimsOf
      <4> QED
        BY <1>4, <4>1 DEF Redeeming
    <3> QED
      BY <3>1, <3>2
  <2> QED
    BY <1>3, <2>1, <2>2
<1>5. /\ calls' \in [Threads -> Call]
      /\ \A t \in Threads : calls'[t].escalation \in Escalations \cup {None}
  BY TypeNext DEF TypeInv, TypeOK, Call
<1>6. ASSUME NEW t \in Threads
      PROVE  calls'[t].step # "rollback"
  BY <1>1, <1>3 DEF ClaimsOf, OneRedemption
<1>7. ASSUME NEW u \in Threads, Redeeming(u)'
      PROVE  /\ grants'[calls'[u].escalation].consumed
             /\ \A v \in Threads :
                  Redeeming(v)' /\ calls'[v].escalation = calls'[u].escalation
                    => v = u
  <2>1. calls'[u].escalation \in Escalations
    BY <1>5, <1>7 DEF Redeeming
  <2>2. grants'[calls'[u].escalation].consumed
    BY <1>2, <1>4, <1>7, <2>1 DEF OneRedemption
  <2>3. ASSUME NEW v \in Threads, Redeeming(v)', v # u,
               calls'[v].escalation = calls'[u].escalation
        PROVE  FALSE
    BY <1>4, <1>7, <2>3 DEF OneRedemption, Redeeming
  <2> QED
    BY <2>2, <2>3
<1>8. CASE permits' = permits
  <2>1. ASSUME NEW u \in Threads, Redeeming(u)', NEW n \in DOMAIN permits
        PROVE  permits[n].escalation # calls'[u].escalation
    BY <1>1, <1>4, <2>1 DEF OneRedemption, Redeeming
  <2>2. ASSUME NEW n \in DOMAIN permits, permits[n].escalation # None
        PROVE  grants'[permits[n].escalation].consumed
    BY <1>1, <1>2, <2>2 DEF OneRedemption
  <2>3. RedeemedAtMostOnce'
    BY <1>8 DEF OneRedemption, RedeemedAtMostOnce
  <2> QED
    BY <1>6, <1>7, <1>8, <2>1, <2>2, <2>3 DEF OneRedemption
<1>9. ASSUME NEW t \in Threads, NEW m \in Permit,
             Permitting(calls[t]), ~Permitting(calls'[t]),
             permits' = Append(permits, m),
             m.escalation = calls[t].escalation
      PROVE  OneRedemption'
  <2>1. /\ DOMAIN permits = 1..Len(permits) /\ Len(permits) \in Nat
        /\ DOMAIN permits' = 1..(Len(permits) + 1)
        /\ \A i \in 1..Len(permits) : permits'[i] = permits[i]
        /\ permits'[Len(permits) + 1] = m
    BY <1>1, <1>9, AppendProperties, LenProperties
  <2>2. m.escalation # None =>
          /\ Redeeming(t)
          /\ grants[m.escalation].consumed
          /\ \A i \in DOMAIN permits : permits[i].escalation # m.escalation
    BY <1>9 DEF Redeeming, Permitting, OneRedemption
  <2>3. ASSUME NEW u \in Threads, Redeeming(u)'
        PROVE  m.escalation # calls'[u].escalation
    <3>1. u # t /\ calls'[u].escalation # None
      BY <1>9, <2>3 DEF Redeeming, Permitting
    <3>2. CASE Redeeming(u) /\ calls'[u] = calls[u]
      BY <1>9, <2>2, <3>1, <3>2 DEF OneRedemption
    <3>3. CASE Fresh(u)
      BY <2>2, <3>1, <3>3
    <3> QED
      BY <1>4, <2>3, <3>2, <3>3
  <2>4. ASSUME NEW u \in Threads, Redeeming(u)', NEW n \in DOMAIN permits'
        PROVE  permits'[n].escalation # calls'[u].escalation
    <3>1. CASE n \in DOMAIN permits
      <4>1. permits'[n] = permits[n]
        BY <2>1, <3>1
      <4> QED
        BY <1>4, <2>4, <3>1, <4>1 DEF OneRedemption, Redeeming
    <3>2. CASE n = Len(permits) + 1
      BY <2>1, <2>3, <2>4, <3>2
    <3> QED
      BY <2>1, <3>1, <3>2
  <2>5. ASSUME NEW n \in DOMAIN permits', permits'[n].escalation # None
        PROVE  grants'[permits'[n].escalation].consumed
    <3>1. permits'[n].escalation \in Escalations
          /\ grants[permits'[n].escalation].consumed
      BY <1>1, <1>9, <2>1, <2>2, <2>5 DEF OneRedemption
    <3> QED
      BY <1>2, <3>1
  <2>6. RedeemedAtMostOnce'
    BY <2>1, <2>2 DEF OneRedemption, RedeemedAtMostOnce
  <2> QED
    BY <1>6, <1>7, <2>4, <2>5, <2>6 DEF OneRedemption
<1> QED
  BY <1>8, <1>9, PermitsGrow


LEMMA RedemptionInit == Init => OneRedemption
BY DEF Init, OneRedemption, Redeeming, RedeemedAtMostOnce, Idle

\* While no audit write raises, an escalation is redeemed at most once,
\* whatever the calls in flight.  Without that assumption it is not so: the
\* run double_redemption shows how.
THEOREM OneRedemptionEach ==
  ASSUME "failed" \notin AuditOutcomes
  PROVE  Spec => []RedeemedAtMostOnce
<1>1. Init => TypeInv /\ RulingInv /\ ClaimsHold /\ OneRedemption
  BY TypeInit, RulingInit, ClaimsInit, RedemptionInit
<1>2. (TypeInv /\ RulingInv /\ ClaimsHold /\ OneRedemption) /\ [Next]_vars
        => (TypeInv /\ RulingInv /\ ClaimsHold /\ OneRedemption)'
  BY TypeNext, RulingNext, ClaimsNext, RedemptionNext
<1>3. OneRedemption => RedeemedAtMostOnce
  BY DEF OneRedemption
<1> QED
  BY <1>1, <1>2, <1>3, PTL DEF Spec

-----------------------------------------------------------------------------
(* One redemption, while no escalation is re-entered by two calls at once, *)
(* whatever becomes of the audit writes: the record of a redemption is     *)
(* resolved before it is looked at again.                                  *)

\* From reading the record to resolving it.
InReentry(t) ==
  /\ calls[t].escalation # None
  /\ calls[t].step \in Reentering \cup {"get", "resolve"} \/ Redeeming(t)

OneReentryEach ==
  \A t, u \in Threads :
    InReentry(t) /\ InReentry(u) /\ calls[t].escalation = calls[u].escalation
      => t = u

\* A call moves by its own steps only.
LEMMA OthersStay ==
  ASSUME TypeInv, RulingInv, ClaimsHold, NEW t \in Threads,
         Request(t) \/ Step(t), NEW u \in Threads, u # t
  PROVE  calls'[u] = calls[u]
<1>1. calls \in [Threads -> Call]
  BY DEF TypeInv, TypeOK
<1>2. ClaimsOf(t)
  BY RequestClaims, StepClaims DEF ClaimsHold
<1> QED
  BY <1>1, <1>2 DEF ClaimsOf

LEMMA EnvironmentStays ==
  ASSUME Environment \/ UNCHANGED vars
  PROVE  calls' = calls
BY DEF Environment, SetPolicy, Register, Lapse, Expire, vars

\* Whoever re-enters has found no earlier PERMIT of the escalation.
FirstToRedeem ==
  \A t \in Threads :
    calls[t].step \in Reentering \/ Redeeming(t) =>
      \A n \in DOMAIN permits : permits[n].escalation # calls[t].escalation

\* A PERMIT is followed by the resolution of its record.
ResolvedNext ==
  \A n \in DOMAIN permits :
    permits[n].escalation # None =>
      \/ escalations[permits[n].escalation].status = "resolved"
      \/ \E t \in Threads : /\ calls[t].step = "resolve"
                            /\ calls[t].escalation = permits[n].escalation

SoloInv == FirstToRedeem /\ ResolvedNext /\ RedeemedAtMostOnce

\* The PERMIT of a redemption is given by consume_if_valid.
LEMMA WhoRedeems ==
  ASSUME TypeInv, RulingInv, ClaimsHold, [Next]_vars,
         NEW t \in Threads, Step(t), Redeeming(t)'
  PROVE  calls[t].step = "consume" /\ calls'[t].escalation = calls[t].escalation
<1>1. ClaimsOf(t)
  BY StepClaims DEF ClaimsHold
<1>2. PICK e \in Escalations :
        e = calls'[t].escalation /\ ~grants[e].consumed /\ grants'[e].consumed
  BY <1>1 DEF ClaimsOf, Redeeming, Permitting
<1>4. calls \in [Threads -> Call]
  BY DEF TypeInv, TypeOK
<1>3. ConsumeIfValid(t) \/ Unconsume(t)
  <2>1. PICK u \in Threads : ConsumeIfValid(u) \/ Unconsume(u)
    BY <1>2, LogUnchanged
  <2>2. calls'[u] # calls[u]
    <3>1. PICK c \in Call : c = calls[u]
      BY CallType
    <3>2. /\ [c EXCEPT !.step = "finish", !.verdict = "PERMIT"].step = "finish"
          /\ Finishing("DENY", c.escalation).step = "finish"
          /\ Idle.step = "idle"
      BY <3>1 DEF Call, Finishing, Idle
    <3>3. c.step = "consume" \/ c.step = "rollback"
      BY <2>1, <3>1 DEF ConsumeIfValid, Unconsume
    <3>4. \/ calls'[u] = [c EXCEPT !.step = "finish", !.verdict = "PERMIT"]
          \/ calls'[u] = Finishing("DENY", c.escalation)
          \/ calls'[u] = Idle
      BY <1>4, <2>1, <3>1 DEF ConsumeIfValid, Unconsume, Continue
    <3> QED
      BY <3>1, <3>2, <3>3, <3>4
  <2> QED
    BY <2>1, <2>2, OthersStay
<1>5. CASE Unconsume(t)
  BY <1>4, <1>5 DEF Unconsume, Continue, Idle, Redeeming
<1>6. CASE ConsumeIfValid(t)
  <2>1. PICK c \in Call : c = calls[t]
    BY CallType
  <2>2. \/ Continue(t, [c EXCEPT !.step = "finish", !.verdict = "PERMIT"])
        \/ Continue(t, Finishing("DENY", c.escalation))
    BY <1>6, <2>1 DEF ConsumeIfValid
  <2>3. /\ [c EXCEPT !.step = "finish", !.verdict = "PERMIT"].escalation
              = c.escalation
        /\ Finishing("DENY", c.escalation).escalation = c.escalation
    BY <2>1 DEF Call, Finishing, Idle
  <2>4. calls'[t].escalation = c.escalation
    BY <1>4, <2>2, <2>3 DEF Continue
  <2> QED
    BY <1>6, <2>1, <2>4 DEF ConsumeIfValid
<1> QED
  BY <1>3, <1>5, <1>6

\* A call is in a re-entry because it was, or because it has just found its
\* record decided and not resolved.
LEMMA WhoReenters ==
  ASSUME TypeInv, NEW t \in Threads, Step(t), calls'[t].step \in Reentering
  PROVE  /\ calls'[t].escalation = calls[t].escalation
         /\ \/ calls[t].step \in Reentering
            \/ /\ calls[t].step = "get"
               /\ escalations[calls[t].escalation].status = "decided"
<1>1. PICK c \in Call : c = calls[t]
  BY CallType
<1>2. calls \in [Threads -> Call]
  BY DEF TypeInv, TypeOK
<1>3. CASE CreateEscalation(t)
  BY <1>1, <1>2, <1>3 DEF CreateEscalation, Continue, Call, Reentering
<1>4. CASE CreatePendingContext(t)
  BY <1>1, <1>2, <1>4
     DEF CreatePendingContext, Continue, Finishing, Idle, Reentering
<1>5. CASE MediatorDecide(t)
  <2>1. \/ Continue(t, [c EXCEPT !.step = "attach"])
        \/ Continue(t, Finishing("DENY", None))
    BY <1>1, <1>5 DEF MediatorDecide
  <2>2. /\ [c EXCEPT !.step = "attach"].step = "attach"
        /\ Finishing("DENY", None).step = "finish"
    BY <1>1 DEF Call, Finishing, Idle
  <2> QED
    BY <1>2, <2>1, <2>2 DEF Continue, Reentering
<1>6. CASE AttachOwnerDecision(t)
  BY <1>1, <1>2, <1>6
     DEF AttachOwnerDecision, Continue, Finishing, Idle, Reentering
<1>7. CASE GetEscalation(t)
  <2>1. /\ c.step = "get"
        /\ \/ Continue(t, Finishing("DENY", None))
           \/ Continue(t, Finishing("DENY", c.escalation))
           \/ /\ MayReenter(c.principal, c.escalation)
              /\ Continue(t, [c EXCEPT !.step = "gate"])
    BY <1>1, <1>7 DEF GetEscalation
  <2>2. Finishing("DENY", None).step = "finish"
        /\ Finishing("DENY", c.escalation).step = "finish"
    BY DEF Finishing, Idle
  <2>3. /\ MayReenter(c.principal, c.escalation)
        /\ Continue(t, [c EXCEPT !.step = "gate"])
    BY <1>2, <2>1, <2>2 DEF Continue, Reentering
  <2> QED
    BY <1>1, <1>2, <2>1, <2>3 DEF Continue, Call, MayReenter
<1>8. CASE ConsumeIfValid(t)
  <2>1. \/ Continue(t, [c EXCEPT !.step = "finish", !.verdict = "PERMIT"])
        \/ Continue(t, Finishing("DENY", c.escalation))
    BY <1>1, <1>8 DEF ConsumeIfValid
  <2>2. /\ [c EXCEPT !.step = "finish", !.verdict = "PERMIT"].step = "finish"
        /\ Finishing("DENY", c.escalation).step = "finish"
    BY <1>1 DEF Call, Finishing, Idle
  <2> QED
    BY <1>2, <2>1, <2>2 DEF Continue, Reentering
<1>9. CASE Unconsume(t) \/ MediatorResolve(t)
  BY <1>2, <1>9 DEF Unconsume, MediatorResolve, Continue, Idle, Reentering
<1> QED
  BY <1>3, <1>4, <1>5, <1>6, <1>7, <1>8, <1>9, StepCases, ReadingIsOnward
     DEF Onward

LEMMA BeginsOutside ==
  ASSUME TypeInv, NEW t \in Threads, Request(t)
  PROVE  /\ calls[t].step = "idle"
         /\ calls'[t].step \notin Reentering /\ ~Redeeming(t)'
<1>1. calls \in [Threads -> Call]
  BY DEF TypeInv, TypeOK
<1>2. ASSUME NEW b, Begin(t, b), b.step \notin Reentering,
             ~(b.step = "finish" /\ b.verdict = "PERMIT")
      PROVE  /\ calls[t].step = "idle"
             /\ calls'[t].step \notin Reentering /\ ~Redeeming(t)'
  BY <1>1, <1>2 DEF Begin, Continue, Redeeming
<1>3. ASSUME NEW p, NEW x, Evaluate(t, p, x)
      PROVE  /\ calls[t].step = "idle"
             /\ calls'[t].step \notin Reentering /\ ~Redeeming(t)'
  BY <1>2, <1>3 DEF Evaluate, Idle, Reentering
<1>4. ASSUME NEW p, NEW x, NEW e, Reenter(t, p, x, e)
      PROVE  /\ calls[t].step = "idle"
             /\ calls'[t].step \notin Reentering /\ ~Redeeming(t)'
  BY <1>2, <1>4 DEF Reenter, Idle, Reentering
<1>5. ASSUME NEW p, NEW e, NEW d, DecideEscalation(t, p, e, d)
      PROVE  /\ calls[t].step = "idle"
             /\ calls'[t].step \notin Reentering /\ ~Redeeming(t)'
  BY <1>2, <1>5 DEF DecideEscalation, Idle, Reentering
<1>6. ASSUME NEW p, NEW h, UpdatePolicy(t, p, h)
      PROVE  /\ calls[t].step = "idle"
             /\ calls'[t].step \notin Reentering /\ ~Redeeming(t)'
  BY <1>2, <1>6 DEF UpdatePolicy, Idle, Reentering
<1>7. CASE Refuse(t)
  BY <1>2, <1>7 DEF Refuse, Finishing, Idle, Reentering
<1> QED
  BY <1>2, <1>3, <1>4, <1>5, <1>6, <1>7 DEF Request

LEMMA SoloNext ==
  ASSUME OneReentryEach, TypeInv, RulingInv, ClaimsHold, SoloInv, [Next]_vars
  PROVE  SoloInv'
<1>1. /\ calls \in [Threads -> Call] /\ permits \in Seq(Permit)
      /\ DOMAIN permits = 1..Len(permits) /\ Len(permits) \in Nat
      /\ \A n \in DOMAIN permits : permits[n].escalation \in Escalations \cup {None}
  <2>1. calls \in [Threads -> Call] /\ permits \in Seq(Permit)
    BY DEF TypeInv, TypeOK
  <2>2. \A n \in DOMAIN permits : permits[n] \in Permit
    BY <2>1
  <2> QED
    BY <2>1, <2>2 DEF Permit
<1>2. \A n \in DOMAIN permits : permits[n].escalation # None =>
        escalations[permits[n].escalation].status \in {"decided", "resolved"}
  <2>1. \A n \in DOMAIN permits : permits[n].escalation # None =>
          escalations[permits[n].escalation].decision = "permit"
    BY DEF ClaimsHold, Warranted, Approved
  <2>2. "permit" # None
    BY ConstantsAssumption DEF Decisions
  <2> QED
    BY <1>1, <2>1, <2>2 DEF RulingInv, RulingsRecorded
<1>3. CASE permits' = permits
  <2>1. FirstToRedeem'
    <3> SUFFICES ASSUME NEW t \in Threads,
                        calls'[t].step \in Reentering \/ Redeeming(t)',
                        NEW n \in DOMAIN permits
                 PROVE  permits[n].escalation # calls'[t].escalation
      BY <1>3 DEF FirstToRedeem
    <3>1. CASE calls'[t] = calls[t]
      BY <3>1 DEF SoloInv, FirstToRedeem, Redeeming
    <3>2. CASE Step(t)
      <4>1. calls'[t].escalation = calls[t].escalation
            /\ \/ calls[t].step \in Reentering
               \/ /\ calls[t].step = "get"
                  /\ escalations[calls[t].escalation].status = "decided"
        BY <3>2, WhoRedeems, WhoReenters DEF Reentering
      <4>2. CASE calls[t].step \in Reentering
        BY <4>1, <4>2 DEF SoloInv, FirstToRedeem
      <4>3. CASE /\ calls[t].step = "get"
                 /\ escalations[calls[t].escalation].status = "decided"
        <5>1. calls[t].escalation # None
          <6>1. calls'[t].escalation # None
            <7>1. calls'[t].escalation \in Escalations \/ Redeeming(t)'
              BY TypeNext DEF TypeInv, LocalsDefined
            <7> QED
              BY <7>1, ConstantsAssumption DEF Redeeming
          <6> QED
            BY <4>1, <6>1
        <5>2. ASSUME permits[n].escalation = calls[t].escalation
              PROVE  FALSE
          <6>1. PICK u \in Threads :
                  calls[u].step = "resolve"
                    /\ calls[u].escalation = calls[t].escalation
            BY <4>3, <5>1, <5>2 DEF SoloInv, ResolvedNext
          <6> QED
            BY <4>3, <5>1, <6>1 DEF OneReentryEach, InReentry
        <5> QED
          BY <4>1, <5>2
      <4> QED
        BY <4>1, <4>2, <4>3
    <3>3. CASE Request(t)
      BY <3>3, BeginsOutside
    <3> QED
      BY <3>1, <3>2, <3>3, OthersStay, EnvironmentStays DEF Next
  <2>2. ResolvedNext'
    <3> SUFFICES ASSUME NEW n \in DOMAIN permits, permits[n].escalation # None
                 PROVE  \/ escalations'[permits[n].escalation].status = "resolved"
                        \/ \E t \in Threads :
                             /\ calls'[t].step = "resolve"
                             /\ calls'[t].escalation = permits[n].escalation
      BY <1>3 DEF ResolvedNext
    <3>1. PICK e \in Escalations : e = permits[n].escalation
      BY <1>1
    <3>2. CASE escalations[e].status = "resolved"
      BY <3>1, <3>2, ResolvedForGood
    <3>3. ASSUME NEW t \in Threads, calls[t].step = "resolve",
                 calls[t].escalation = e
          PROVE  escalations'[e].status = "resolved" \/ calls'[t] = calls[t]
      <4>1. CASE Step(t)
        <5>1. MediatorResolve(t)
          BY <3>3, <4>1
             DEF Step, EvaluateGate, EvaluateCheck, EvaluateProvenance,
                 CreateEscalation, CreatePendingContext, Authorize,
                 MediatorDecide, AttachOwnerDecision, AssignPolicy,
                 GetEscalation, ReenterGate, LookupGrant, ReenterCheck,
                 ReenterProvenance, ReadPolicyHash, ConsumeIfValid, Finish,
                 Unconsume
        <5>2. escalations' = [escalations EXCEPT ![e].status =
                                IF @ = "decided" THEN "resolved" ELSE @]
          BY <3>3, <5>1 DEF MediatorResolve
        <5>3. escalations[e].status \in {"decided", "resolved"}
          BY <1>2, <3>1
        <5>4. escalations \in [Escalations -> EscalationRecord]
          BY DEF TypeInv, TypeOK
        <5> QED
          BY <5>2, <5>3, <5>4 DEF EscalationRecord
      <4>2. CASE Request(t)
        BY <3>3, <4>2, BeginsOutside
      <4> QED
        BY <4>1, <4>2, OthersStay, EnvironmentStays DEF Next
    <3> QED
      BY <3>1, <3>2, <3>3 DEF SoloInv, ResolvedNext
  <2>3. RedeemedAtMostOnce'
    BY <1>3 DEF SoloInv, RedeemedAtMostOnce
  <2> QED
    BY <2>1, <2>2, <2>3 DEF SoloInv
<1>4. ASSUME NEW t \in Threads, NEW m \in Permit,
             Permitting(calls[t]), ~Permitting(calls'[t]),
             UNCHANGED <<escalations, grants>>,
             permits' = Append(permits, m),
             m.escalation = calls[t].escalation
      PROVE  SoloInv'
  <2>1. /\ DOMAIN permits' = 1..(Len(permits) + 1)
        /\ \A i \in 1..Len(permits) : permits'[i] = permits[i]
        /\ permits'[Len(permits) + 1] = m
    BY <1>1, <1>4, AppendProperties, LenProperties
  <2>0. Request(t) \/ Step(t)
    <3>1. ~Environment /\ ~UNCHANGED vars
      BY <1>4, EnvironmentStays
    <3>2. ASSUME NEW u \in Threads, Request(u) \/ Step(u), u # t
          PROVE  FALSE
      BY <1>4, <3>2, OthersStay
    <3> QED
      BY <3>1, <3>2 DEF Next
  <2>2. /\ calls'[t].step \in {"idle", "resolve"}
        /\ m.escalation # None => /\ calls'[t].step = "resolve"
                                  /\ calls'[t].escalation = m.escalation
    <3>1. PICK c \in Call : c = calls[t]
      BY CallType
    <3>2. permits' # permits
      BY <1>1, <2>1
    <3>3. Finish(t)
      <4>1. c.step = "finish"
        BY <1>4, <3>1 DEF Permitting
      <4>2. Step(t)
        BY <2>0, <3>1, <4>1, BeginsOutside
      <4> QED
        BY <3>1, <4>1, <4>2
           DEF Step, EvaluateGate, EvaluateCheck, EvaluateProvenance,
               CreateEscalation, CreatePendingContext, Authorize,
               MediatorDecide, AttachOwnerDecision, AssignPolicy,
               GetEscalation, ReenterGate, LookupGrant, ReenterCheck,
               ReenterProvenance, ReadPolicyHash, ConsumeIfValid, Unconsume,
               MediatorResolve
    <3>4. IF c.escalation = None THEN Continue(t, Idle)
          ELSE Continue(t, [Idle EXCEPT !.step = "resolve",
                                        !.escalation = c.escalation])
      BY <3>1, <3>2, <3>3 DEF Finish
    <3> DEFINE d == [Idle EXCEPT !.step = "resolve",
                                 !.escalation = c.escalation]
    <3>5. /\ d.step = "resolve" /\ d.escalation = c.escalation
          /\ Idle.step = "idle"
      BY DEF Idle
    <3>6. calls'[t] = IF c.escalation = None THEN Idle ELSE d
      BY <1>1, <3>4 DEF Continue
    <3> HIDE DEF d
    <3> QED
      BY <1>4, <3>1, <3>5, <3>6
  <2>3. m.escalation # None =>
          \A n \in DOMAIN permits : permits[n].escalation # m.escalation
    BY <1>4 DEF SoloInv, FirstToRedeem, Redeeming, Permitting
  <2>4. FirstToRedeem'
    <3> SUFFICES ASSUME NEW u \in Threads,
                        calls'[u].step \in Reentering \/ Redeeming(u)',
                        NEW n \in DOMAIN permits'
                 PROVE  permits'[n].escalation # calls'[u].escalation
      BY DEF FirstToRedeem
    <3>1. u # t
      BY <2>2 DEF Reentering, Redeeming
    <3>2. /\ calls'[u] = calls[u]
          /\ calls[u].step \in Reentering \/ Redeeming(u)
      BY <2>0, <3>1, OthersStay DEF Redeeming
    <3>3. CASE n \in DOMAIN permits
      BY <1>1, <2>1, <3>2, <3>3 DEF SoloInv, FirstToRedeem
    <3>4. CASE n = Len(permits) + 1
      <4>1. calls[u].escalation # None
        <5>1. calls[u].escalation \in Escalations \/ Redeeming(u)
          BY <3>2 DEF TypeInv, LocalsDefined, Reentering
        <5> QED
          BY <5>1, ConstantsAssumption DEF Redeeming
      <4>2. ASSUME calls[t].escalation = calls[u].escalation
            PROVE  FALSE
        BY <1>4, <3>1, <3>2, <4>1, <4>2
           DEF OneReentryEach, InReentry, Redeeming, Permitting
      <4> QED
        BY <1>4, <2>1, <3>2, <3>4, <4>2
    <3> QED
      BY <1>1, <2>1, <3>3, <3>4
  <2>5. RedeemedAtMostOnce'
    BY <1>1, <2>1, <2>3 DEF SoloInv, RedeemedAtMostOnce
  <2>6. ResolvedNext'
    <3> SUFFICES ASSUME NEW n \in DOMAIN permits',
                        permits'[n].escalation # None
                 PROVE  \/ escalations[permits'[n].escalation].status = "resolved"
                        \/ \E u \in Threads :
                             /\ calls'[u].step = "resolve"
                             /\ calls'[u].escalation = permits'[n].escalation
      BY <1>4 DEF ResolvedNext
    <3>1. CASE n = Len(permits) + 1
      BY <2>1, <2>2, <3>1
    <3>2. CASE n \in DOMAIN permits
      <4>1. permits'[n] = permits[n]
        BY <1>1, <2>1, <3>2
      <4>2. \A u \in Threads : calls[u].step = "resolve" => calls'[u] = calls[u]
        BY <1>4, <2>0, OthersStay DEF Permitting
      <4> QED
        BY <3>2, <4>1, <4>2 DEF SoloInv, ResolvedNext
    <3> QED
      BY <1>1, <2>1, <3>1, <3>2
  <2> QED
    BY <2>4, <2>5, <2>6 DEF SoloInv
<1> QED
  BY <1>3, <1>4, PermitsGrow

LEMMA SoloInit == Init => SoloInv
BY DEF Init, SoloInv, FirstToRedeem, ResolvedNext, RedeemedAtMostOnce

\* While no two re-entries of one escalation are in flight together, it is
\* redeemed at most once, even when audit writes fail and redemptions are
\* rolled back: a rollback that gives back what another call has redeemed
\* comes too late for everyone but a second re-entry already under way.
THEOREM LoneReentriesRedeemOnce ==
  Spec /\ []OneReentryEach => []RedeemedAtMostOnce
<1>1. Init => TypeInv /\ RulingInv /\ ClaimsHold /\ SoloInv
  BY TypeInit, RulingInit, ClaimsInit, SoloInit
<1>2. (TypeInv /\ RulingInv /\ ClaimsHold /\ SoloInv)
        /\ OneReentryEach /\ [Next]_vars
        => (TypeInv /\ RulingInv /\ ClaimsHold /\ SoloInv)'
  BY TypeNext, RulingNext, ClaimsNext, SoloNext
<1>3. SoloInv => RedeemedAtMostOnce
  BY DEF SoloInv
<1> QED
  BY <1>1, <1>2, <1>3, PTL DEF Spec

-----------------------------------------------------------------------------
(* The cycle implements the one-shot grant.                                *)

LEMMA PromiseInit == Init => Promise!Init
<1> SUFFICES ASSUME Init PROVE Promise!Init
  OBVIOUS
<1>1. Ruling = [e \in Escalations |-> "unraised"]
  BY DEF Init, Ruling, NoEscalation
<1>2. Redeemed = [e \in Escalations |-> 0]
  <2>1. \A e : {n \in DOMAIN permits : permits[n].escalation = e} = {}
    BY DEF Init
  <2> QED
    BY <2>1, FS_EmptySet DEF Redeemed
<1> QED
  BY <1>1, <1>2 DEF Promise!Init

\* A step that writes the records raises an escalation, rules on one, or
\* says nothing new to the clients.
LEMMA RulingSteps ==
  ASSUME TypeInv, RulingInv, [Next]_vars, UNCHANGED permits
  PROVE  Promise!Next \/ UNCHANGED <<Ruling, Redeemed>>
<1>1. Redeemed' = Redeemed
  BY DEF Redeemed
<1>2. escalations \in [Escalations -> EscalationRecord]
  BY DEF TypeInv, TypeOK
<1>3. ASSUME NEW t \in Threads, CreateEscalation(t)
      PROVE  Promise!Next
  <2>1. PICK e \in Escalations : \E r :
          /\ escalations[e].status = "absent" /\ r.status = "pending"
          /\ escalations' = [escalations EXCEPT ![e] = r]
    BY <1>3 DEF CreateEscalation
  <2>2. Ruling[e] = "unraised" /\ Ruling' = [Ruling EXCEPT ![e] = "open"]
    BY <1>2, <2>1 DEF Ruling
  <2>3. Promise!Raise(e)
    BY <1>1, <2>2 DEF Promise!Raise
  <2> QED
    BY <2>3 DEF Promise!Next
<1>4. ASSUME NEW t \in Threads, MediatorDecide(t)
      PROVE  Promise!Next \/ Ruling' = Ruling
  <2>1. PICK c \in Call : c = calls[t] /\ LocalsDefined(c)
    BY CallType
  <2>2. CASE ~(c.escalation # None /\ Decidable(c.escalation))
    BY <1>4, <2>1, <2>2 DEF MediatorDecide, Ruling
  <2>3. CASE c.escalation # None /\ Decidable(c.escalation)
    <3>1. PICK e \in Escalations :
            e = c.escalation /\ escalations[e].status = "pending"
            /\ c.decision \in Decisions
      BY <1>4, <2>1, <2>3 DEF MediatorDecide, Decidable, LocalsDefined, Call
    <3>2. PICK r : r = [escalations[e] EXCEPT !.status = "decided",
                                              !.decision = c.decision]
      OBVIOUS
    <3>3. /\ escalations' = [escalations EXCEPT ![e] = r]
          /\ r.status = "decided" /\ r.decision = c.decision
      BY <1>2, <1>4, <2>1, <2>3, <3>1, <3>2
         DEF MediatorDecide, EscalationRecord
    <3>4. Ruling[e] = "open" /\ Ruling' = [Ruling EXCEPT ![e] = c.decision]
      BY <1>2, <3>1, <3>3 DEF Ruling
    <3>5. Promise!Rule(e, c.decision)
      BY <1>1, <3>4 DEF Promise!Rule
    <3> QED
      BY <3>1, <3>5 DEF Promise!Next, Decisions
  <2> QED
    BY <2>2, <2>3
<1>5. ASSUME NEW t \in Threads, MediatorResolve(t)
      PROVE  Ruling' = Ruling
  <2>1. PICK f : escalations' = [escalations EXCEPT ![f].status =
                                   IF @ = "decided" THEN "resolved" ELSE @]
    BY <1>5 DEF MediatorResolve
  <2>2. ASSUME NEW e \in Escalations
        PROVE  /\ escalations'[e].decision = escalations[e].decision
               /\ \/ escalations'[e].status = escalations[e].status
                  \/ /\ escalations[e].status = "decided"
                     /\ escalations'[e].status = "resolved"
    BY <1>2, <2>1 DEF EscalationRecord
  <2> QED
    BY <2>2 DEF Ruling
<1>6. CASE UNCHANGED escalations
  BY <1>1, <1>6 DEF Ruling
<1>7. ASSUME NEW t \in Threads, Request(t)
      PROVE  UNCHANGED escalations
  BY <1>7 DEF Request, Evaluate, Reenter, DecideEscalation, UpdatePolicy,
              Refuse, Begin, stores
<1>8. ASSUME NEW t \in Threads, \/ CreatePendingContext(t)
                                \/ AttachOwnerDecision(t) \/ GetEscalation(t)
                                \/ ConsumeIfValid(t) \/ Unconsume(t)
      PROVE  UNCHANGED escalations
  BY <1>8 DEF CreatePendingContext, AttachOwnerDecision, GetEscalation,
              ConsumeIfValid, Unconsume, stores
<1>9. Environment \/ UNCHANGED vars => UNCHANGED escalations
  BY DEF Environment, SetPolicy, Register, Lapse, Expire, stores, vars
<1> QED
  BY <1>1, <1>3, <1>4, <1>5, <1>6, <1>7, <1>8, <1>9, StepCases,
     ReadingIsOnward DEF Next, stores

\* An audited PERMIT redeems its escalation, if it has one.
LEMMA RedeemSteps ==
  ASSUME TypeInv, RulingInv, ClaimsHold,
         UNCHANGED escalations, NEW t \in Threads, NEW m \in Permit,
         Permitting(calls[t]), permits' = Append(permits, m),
         m.escalation = calls[t].escalation,
         m.escalation # None =>
           \A n \in DOMAIN permits : permits[n].escalation # m.escalation
  PROVE  Promise!Next \/ UNCHANGED <<Ruling, Redeemed>>
<1>1. Ruling' = Ruling
  BY DEF Ruling
<1>2. /\ DOMAIN permits = 1..Len(permits) /\ Len(permits) \in Nat
      /\ DOMAIN permits' = 1..(Len(permits) + 1)
      /\ \A i \in 1..Len(permits) : permits'[i] = permits[i]
      /\ permits'[Len(permits) + 1] = m
  BY AppendProperties, LenProperties DEF TypeInv, TypeOK
<1> DEFINE With(e) == {n \in DOMAIN permits : permits[n].escalation = e}
           WithNext(e) == {n \in DOMAIN permits' : permits'[n].escalation = e}
<1>3. \A e : e # m.escalation => WithNext(e) = With(e)
  BY <1>2
<1>4. CASE m.escalation = None
  <2>1. Redeemed' = Redeemed
    BY <1>3, <1>4, ConstantsAssumption DEF Redeemed
  <2> QED
    BY <1>1, <2>1
<1>5. CASE m.escalation # None
  <2>1. PICK e \in Escalations : e = m.escalation
    BY <1>5 DEF Permit
  <2>2. With(e) = {}
    BY <1>5, <2>1
  <2>3. WithNext(e) = {Len(permits) + 1}
    BY <1>2, <2>1, <2>2
  <2>4. Redeemed[e] = 0
    BY <2>2, FS_EmptySet DEF Redeemed
  <2>5. Redeemed' = [Redeemed EXCEPT ![e] = 1]
    <3>1. Cardinality(WithNext(e)) = 1
      BY <2>3, FS_Singleton
    <3> QED
      BY <1>3, <2>1, <3>1 DEF Redeemed
  <2>6. Ruling[e] = "permit"
    <3>0. Warranted(calls[t])
      BY DEF ClaimsHold
    <3>1. escalations[e].decision = "permit"
      BY <3>0, <1>5, <2>1 DEF Warranted, Approved
    <3>2. escalations[e].status \in {"decided", "resolved"}
      BY <3>1, ConstantsAssumption DEF RulingInv, RulingsRecorded, Decisions
    <3> QED
      BY <3>1, <3>2 DEF Ruling
  <2>7. Promise!Redeem(e)
    BY <1>1, <2>4, <2>5, <2>6 DEF Promise!Redeem
  <2> QED
    BY <2>7 DEF Promise!Next
<1> QED
  BY <1>4, <1>5

\* The mediator, its two stores and their separate locks implement the
\* one-shot grant: an escalation is raised once, ruled on once, and redeemed
\* at most once, and only if the Owner said permit.  That is so while no audit
\* write raises, whatever calls are in flight.
THEOREM TheCycleIsOneShot ==
  ASSUME "failed" \notin AuditOutcomes
  PROVE  Spec => ImplementsOneShotGrant
<1> DEFINE Inv == TypeInv /\ RulingInv /\ ClaimsHold /\ OneRedemption
<1>1. Init => Inv
  BY TypeInit, RulingInit, ClaimsInit, RedemptionInit
<1>2. Inv /\ [Next]_vars => Inv'
  BY TypeNext, RulingNext, ClaimsNext, RedemptionNext
<1>3. Inv /\ [Next]_vars => [Promise!Next]_<<Ruling, Redeemed>>
  <2> SUFFICES ASSUME Inv, [Next]_vars
               PROVE  Promise!Next \/ UNCHANGED <<Ruling, Redeemed>>
    OBVIOUS
  <2>1. ASSUME NEW t \in Threads, Permitting(calls[t]),
               calls[t].escalation # None, NEW n \in DOMAIN permits
        PROVE  permits[n].escalation # calls[t].escalation
    BY <2>1 DEF OneRedemption, Redeeming, Permitting
  <2> QED
    BY <2>1, PermitsGrow, RulingSteps, RedeemSteps
<1> QED
  BY <1>1, <1>2, <1>3, PromiseInit, PTL
     DEF Spec, ImplementsOneShotGrant, Promise!Spec

\* It is so too while no two re-entries of one escalation are in flight
\* together, whatever becomes of the audit writes.
THEOREM LoneReentriesAreOneShot ==
  Spec /\ []OneReentryEach => ImplementsOneShotGrant
<1> DEFINE Inv == TypeInv /\ RulingInv /\ ClaimsHold /\ SoloInv
<1>1. Init => Inv
  BY TypeInit, RulingInit, ClaimsInit, SoloInit
<1>2. Inv /\ OneReentryEach /\ [Next]_vars => Inv'
  BY TypeNext, RulingNext, ClaimsNext, SoloNext
<1>3. Inv /\ [Next]_vars => [Promise!Next]_<<Ruling, Redeemed>>
  <2> SUFFICES ASSUME Inv, [Next]_vars
               PROVE  Promise!Next \/ UNCHANGED <<Ruling, Redeemed>>
    OBVIOUS
  <2>1. ASSUME NEW t \in Threads, Permitting(calls[t]),
               calls[t].escalation # None, NEW n \in DOMAIN permits
        PROVE  permits[n].escalation # calls[t].escalation
    BY <2>1 DEF SoloInv, FirstToRedeem, Redeeming, Permitting
  <2> QED
    BY <2>1, PermitsGrow, RulingSteps, RedeemSteps
<1> QED
  BY <1>1, <1>2, <1>3, PromiseInit, PTL
     DEF Spec, ImplementsOneShotGrant, Promise!Spec


=============================================================================
