--------------------------- MODULE EvidenceJournal ---------------------------
(***************************************************************************)
(* The EvidenceJournal (evidence.py) as the mediator drives it: a call     *)
(* looks the role up in the registry (_select_capability) and acts on the  *)
(* journal afterwards, so the role may lapse in between.  Every journal    *)
(* operation is one step under its lock, refusals included.                *)
(***************************************************************************)
EXTENDS Naturals, Sequences

CONSTANTS
  Threads,     \* the threads that call the mediator
  Evidence,    \* evidence ids
  Principals,  \* authenticated principals
  Owner,       \* OWNER_PRINCIPAL_ID
  Digests,     \* content digests
  None,        \* no value
  MaxCalls     \* bound on the calls and digest bindings in a behaviour

States == {"CANDIDATE", "VERIFIED", "AUTHORIZED"}
Roles == {"R-IV", "R-DEC"}
Operations == {"create", "verify", "authorize"}
Kinds == {"create_candidate", "digest_bound", "verified",
          "verification_failed", "authorized", "authorization_failed"}

ASSUME EvidenceAssumption ==
  /\ Owner \in Principals
  /\ None \notin Principals \cup Digests \cup Evidence \cup States
  /\ None \notin BOOLEAN
  /\ MaxCalls \in Nat

VARIABLES
  current,  \* EvidenceJournal._current
  events,   \* EvidenceJournal._events
  roles,    \* the roles of the active capabilities of each principal
  calls,    \* the call each thread is in
  started   \* how many calls began (for the bound MaxCalls)

evidenceVars == <<current, events, roles, calls, started>>

EvidenceRecord ==
  [producer_id: Principals \cup {None},
   state: States \cup {None},
   verification_result: BOOLEAN \cup {None},
   verifier_id: Principals \cup {None},
   authorization_result: BOOLEAN \cup {None},
   authorizer_id: Principals \cup {None},
   digest: Digests \cup {None}]

NoRecord ==
  [producer_id |-> None, state |-> None,
   verification_result |-> None, verifier_id |-> None,
   authorization_result |-> None, authorizer_id |-> None, digest |-> None]

EvidenceEvent ==
  [evidence_id: Evidence, event: Kinds, actor: Principals,
   digest: Digests \cup {None}]

Call ==
  [step: {"idle", "select", "journal"}, operation: Operations,
   actor: Principals, evidence: Evidence \cup {None}, result: BOOLEAN]

Idle ==
  [step |-> "idle", operation |-> "create", actor |-> Owner,
   evidence |-> None, result |-> FALSE]

EvidenceTypeOK ==
  /\ current \in [Evidence -> EvidenceRecord]
  /\ events \in Seq(EvidenceEvent)
  /\ roles \in [Principals -> SUBSET Roles]
  /\ calls \in [Threads -> Call]
  /\ started \in 0..MaxCalls

\* R-DEC is the Owner's alone: the registry registers it for nobody else.
MayHold(p) == IF p = Owner THEN Roles ELSE Roles \ {"R-DEC"}

EvidenceInit ==
  /\ current = [e \in Evidence |-> NoRecord]
  /\ events = <<>>
  /\ roles \in [Principals -> SUBSET Roles]
  /\ \A p \in Principals : roles[p] \subseteq MayHold(p)
  /\ calls = [t \in Threads |-> Idle]
  /\ started = 0

Exists(e) == current[e].state # None

\* The journal records an event of e by p and its new record.
Record(e, kind, p, digest, record) ==
  /\ current' = [current EXCEPT ![e] = record]
  /\ events' = Append(events, [evidence_id |-> e, event |-> kind,
                               actor |-> p, digest |-> digest])

Refused == UNCHANGED <<current, events>>

-----------------------------------------------------------------------------
(* A call: create goes to the journal at once, the others ask the registry *)
(* for an active capability of the role first.                             *)

Begin(t, op, p, e, r) ==
  /\ calls[t].step = "idle"
  /\ started < MaxCalls
  /\ started' = started + 1
  /\ calls' = [calls EXCEPT ![t] =
       [step |-> IF op = "create" THEN "journal" ELSE "select",
        operation |-> op, actor |-> p, evidence |-> e, result |-> r]]
  /\ UNCHANGED <<current, events, roles>>

RoleFor(op) == IF op = "verify" THEN "R-IV" ELSE "R-DEC"

SelectCapability(t) ==
  LET c == calls[t] IN
  /\ c.step = "select"
  /\ calls' = [calls EXCEPT ![t] =
       IF RoleFor(c.operation) \in roles[c.actor]
         THEN [c EXCEPT !.step = "journal"] ELSE Idle]
  /\ UNCHANGED <<current, events, roles, started>>

\* The thread is in the journal with this operation, and answers after it.
InJournal(t, op) ==
  /\ calls[t].step = "journal" /\ calls[t].operation = op
  /\ calls' = [calls EXCEPT ![t] = Idle]
  /\ UNCHANGED <<roles, started>>

\* Defect: a candidate of an id that is taken replaces it.
Creatable(e) == TRUE

Fresh(e) == ~Exists(e)

CreateCandidate(t) ==
  LET c == calls[t]
      e == c.evidence
  IN
  /\ InJournal(t, "create")
  /\ IF Fresh(e)
       THEN Record(e, "create_candidate", c.actor, None,
              [NoRecord EXCEPT !.producer_id = c.actor, !.state = "CANDIDATE"])
       ELSE Refused

\* Defect: the producer verifies his own evidence.
VerifiableByAnyone(e, p) == current[e].state = "CANDIDATE"

Verifiable(e, p) ==
  /\ current[e].state = "CANDIDATE"
  /\ current[e].producer_id # p

\* Defect: a record that was judged loses its digest.
WithoutDigest(e, p, ok) ==
  [current[e] EXCEPT
     !.state = IF ok THEN "VERIFIED" ELSE "CANDIDATE",
     !.verification_result = ok, !.verifier_id = p,
     !.authorization_result = None, !.authorizer_id = None, !.digest = None]

\* Defect: a failed verification ends in a state the lifecycle does not have.
JudgedForGood(e, p, ok) ==
  [current[e] EXCEPT
     !.state = IF ok THEN "VERIFIED" ELSE "REJECTED",
     !.verification_result = ok, !.verifier_id = p]

\* A failed verification leaves a candidate that can be verified again.
Judged(e, p, ok) ==
  [current[e] EXCEPT
     !.state = IF ok THEN "VERIFIED" ELSE "CANDIDATE",
     !.verification_result = ok, !.verifier_id = p,
     !.authorization_result = None, !.authorizer_id = None]

Verify(t) ==
  LET c == calls[t]
      e == c.evidence
  IN
  /\ InJournal(t, "verify")
  /\ IF Exists(e) /\ Verifiable(e, c.actor)
       THEN Record(e, IF c.result THEN "verified" ELSE "verification_failed",
                   c.actor, None, Judged(e, c.actor, c.result))
       ELSE Refused

Authorizable(e, p) ==
  /\ p = Owner
  /\ current[e].producer_id # p
  /\ current[e].state = "VERIFIED"
  /\ current[e].verification_result = TRUE

Authorize(t) ==
  LET c == calls[t]
      e == c.evidence
  IN
  /\ InJournal(t, "authorize")
  /\ IF Exists(e) /\ Authorizable(e, c.actor)
       THEN Record(e,
              IF c.result THEN "authorized" ELSE "authorization_failed",
              c.actor, None,
              [current[e] EXCEPT
                 !.state = IF c.result THEN "AUTHORIZED" ELSE "VERIFIED",
                 !.authorization_result = c.result,
                 !.authorizer_id = c.actor])
       ELSE Refused

-----------------------------------------------------------------------------
(* Past the mediator: bind_digest is the embedding program's, and roles    *)
(* come and go with capabilities.                                          *)

\* Defect: a digest is bound to evidence in any state.
BindableInAnyState(e) == Exists(e) /\ current[e].digest = None

Bindable(e) ==
  /\ Exists(e)
  /\ current[e].digest = None
  /\ current[e].state = "CANDIDATE"

BindDigest(e, d, p) ==
  /\ started < MaxCalls
  /\ started' = started + 1
  /\ IF Bindable(e)
       THEN Record(e, "digest_bound", p, d, [current[e] EXCEPT !.digest = d])
       ELSE Refused
  /\ UNCHANGED <<roles, calls>>

ChangeRoles(p, held) ==
  /\ held \subseteq MayHold(p)
  /\ roles' = [roles EXCEPT ![p] = held]
  /\ UNCHANGED <<current, events, calls, started>>

-----------------------------------------------------------------------------

Request(t) ==
  \E op \in Operations, p \in Principals, e \in Evidence, r \in BOOLEAN :
    Begin(t, op, p, e, r)

Step(t) ==
  SelectCapability(t) \/ CreateCandidate(t) \/ Verify(t) \/ Authorize(t)

EvidenceNext ==
  \/ \E t \in Threads : Request(t) \/ Step(t)
  \/ \E e \in Evidence, d \in Digests, p \in Principals : BindDigest(e, d, p)
  \/ \E p \in Principals, held \in SUBSET Roles : ChangeRoles(p, held)

EvidenceSpec == EvidenceInit /\ [][EvidenceNext]_evidenceVars

-----------------------------------------------------------------------------
(* Correctness.                                                            *)

\* The positions of the events of e of these kinds.
At(e, kinds) ==
  {i \in DOMAIN events :
     events[i].evidence_id = e /\ events[i].event \in kinds}

\* p's is the last of the events of e of these kinds, and it is of kind k.
LastIs(e, kinds, k, p) ==
  \E i \in At(e, kinds) :
    /\ \A j \in At(e, kinds) : j <= i
    /\ events[i].event = k
    /\ events[i].actor = p

Verdicts == {"verified", "verification_failed"}
Authorizations == {"authorized", "authorization_failed"}

\* The record of evidence is what its events tell, and nothing else: its
\* state, who produced it, who gave the last verdict and authorization, and
\* the digest that was bound to it.
Told(e, r) ==
  /\ IF r.state = None THEN At(e, Kinds) = {}
     ELSE LastIs(e, {"create_candidate"}, "create_candidate", r.producer_id)
  /\ r.state = "AUTHORIZED" <=> At(e, {"authorized"}) # {}
  /\ r.state \in {"VERIFIED", "AUTHORIZED"} <=> At(e, {"verified"}) # {}
  /\ IF r.verification_result = None THEN At(e, Verdicts) = {}
     ELSE LastIs(e, Verdicts, IF r.verification_result THEN "verified"
                              ELSE "verification_failed", r.verifier_id)
  /\ IF r.authorization_result = None THEN At(e, Authorizations) = {}
     ELSE LastIs(e, Authorizations,
                 IF r.authorization_result THEN "authorized"
                 ELSE "authorization_failed", r.authorizer_id)
  /\ IF r.digest = None THEN At(e, {"digest_bound"}) = {}
     ELSE \A i \in At(e, {"digest_bound"}) : events[i].digest = r.digest

\* The journal and its records never come apart.
JournalTellsRecords == \A e \in Evidence : Told(e, current[e])

\* The digest a verifier attested to is the one there is: it is bound once
\* and before the evidence was verified, never after.
DigestBeforeVerdict ==
  \A e \in Evidence :
    \A i \in At(e, {"digest_bound"}) :
      /\ At(e, {"digest_bound"}) = {i}
      /\ \A j \in At(e, {"verified"} \cup Authorizations) : i < j

\* Who produced, verified and authorized, as the records have it.
Party(e, states, id) == IF current[e].state \in states THEN id ELSE None

Promise == INSTANCE ProducerSeparation WITH
  producer <- [e \in Evidence |-> Party(e, States, current[e].producer_id)],
  verifier <- [e \in Evidence |->
                 Party(e, {"VERIFIED", "AUTHORIZED"}, current[e].verifier_id)],
  authorizer <- [e \in Evidence |->
                   Party(e, {"AUTHORIZED"}, current[e].authorizer_id)]

\* Whatever roles lapse under a call, the journal keeps the producer, the
\* verifier and the authority of a piece of evidence apart, in that order,
\* and takes nothing back.
SeparatesProducers == Promise!Spec

=============================================================================
