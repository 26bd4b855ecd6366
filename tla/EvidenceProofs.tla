--------------------------- MODULE EvidenceProofs ---------------------------
(***************************************************************************)
(* EvidenceJournal keeps its types, its records are what its events tell,  *)
(* and it implements ProducerSeparation, for any number of threads,        *)
(* principals and pieces of evidence.                                      *)
(***************************************************************************)
EXTENDS EvidenceJournal, TLAPS

\* A call that is not idle is about some evidence.
CallsKnown ==
  \A t \in Threads : calls[t].step # "idle" => calls[t].evidence \in Evidence

\* A record names who did what its state says was done, and nothing more.
Complete(r) ==
  /\ r.state = None => r = NoRecord
  /\ r.state # None => r.producer_id \in Principals
  /\ r.state \in {"VERIFIED", "AUTHORIZED"} =>
       r.verifier_id \in Principals /\ r.verification_result = TRUE
  /\ r.state = "CANDIDATE" => r.authorization_result = None
  /\ r.state = "AUTHORIZED" => r.authorizer_id = Owner
  /\ r.verification_result # None => r.verifier_id \in Principals

IInv == EvidenceTypeOK /\ CallsKnown /\ \A e \in Evidence : Complete(current[e])

-----------------------------------------------------------------------------
(* What a step does to the journal: one lemma says it for every action.    *)

Creates(e, p) ==
  /\ ~Exists(e)
  /\ Record(e, "create_candidate", p, None,
            [NoRecord EXCEPT !.producer_id = p, !.state = "CANDIDATE"])

Binds(e, d, p) ==
  /\ Bindable(e)
  /\ Record(e, "digest_bound", p, d, [current[e] EXCEPT !.digest = d])

Verifies(e, p, ok) ==
  /\ Exists(e) /\ Verifiable(e, p)
  /\ Record(e, IF ok THEN "verified" ELSE "verification_failed", p, None,
            Judged(e, p, ok))

AuthorizedRecord(e, p, ok) ==
  [current[e] EXCEPT !.state = IF ok THEN "AUTHORIZED" ELSE "VERIFIED",
                     !.authorization_result = ok, !.authorizer_id = p]

Authorizes(e, p, ok) ==
  /\ Exists(e) /\ Authorizable(e, p)
  /\ Record(e, IF ok THEN "authorized" ELSE "authorization_failed", p, None,
            AuthorizedRecord(e, p, ok))

JournalStep ==
  \/ UNCHANGED <<current, events>>
  \/ \E e \in Evidence, p \in Principals : Creates(e, p)
  \/ \E e \in Evidence, p \in Principals, d \in Digests : Binds(e, d, p)
  \/ \E e \in Evidence, p \in Principals, ok \in BOOLEAN :
       Verifies(e, p, ok) \/ Authorizes(e, p, ok)

LEMMA StepsOfNext ==
  ASSUME IInv, [EvidenceNext]_evidenceVars
  PROVE  JournalStep
<1>1. ASSUME NEW t \in Threads, Request(t) PROVE JournalStep
  BY <1>1 DEF Request, Begin, JournalStep
<1>2. ASSUME NEW t \in Threads, Step(t) PROVE JournalStep
  <2>1. calls[t] \in Call /\ (calls[t].step = "journal"
                                => calls[t].evidence \in Evidence)
    BY DEF IInv, EvidenceTypeOK, CallsKnown
  <2> DEFINE c == calls[t]
  <2>2. CASE SelectCapability(t)
    BY <2>2 DEF SelectCapability, JournalStep
  <2>3. CASE CreateCandidate(t)
    <3>1. c.evidence \in Evidence /\ c.actor \in Principals
      BY <2>1, <2>3 DEF CreateCandidate, InJournal, Call
    <3>2. UNCHANGED <<current, events>> \/ Creates(c.evidence, c.actor)
      BY <2>3 DEF CreateCandidate, Fresh, Creates, Refused
    <3> QED
      BY <3>1, <3>2 DEF JournalStep
  <2>4. CASE Verify(t)
    <3>1. /\ c.evidence \in Evidence /\ c.actor \in Principals
          /\ c.result \in BOOLEAN
      BY <2>1, <2>4 DEF Verify, InJournal, Call
    <3>2. \/ UNCHANGED <<current, events>>
          \/ Verifies(c.evidence, c.actor, c.result)
      BY <2>4 DEF Verify, Verifies, Refused
    <3> QED
      BY <3>1, <3>2 DEF JournalStep
  <2>5. CASE Authorize(t)
    <3>1. /\ c.evidence \in Evidence /\ c.actor \in Principals
          /\ c.result \in BOOLEAN
      BY <2>1, <2>5 DEF Authorize, InJournal, Call
    <3>2. \/ UNCHANGED <<current, events>>
          \/ Authorizes(c.evidence, c.actor, c.result)
      BY <2>5 DEF Authorize, Authorizes, AuthorizedRecord, Refused
    <3> QED
      BY <3>1, <3>2 DEF JournalStep
  <2> QED
    BY <1>2, <2>2, <2>3, <2>4, <2>5 DEF Step
<1>3. ASSUME NEW e \in Evidence, NEW d \in Digests, NEW p \in Principals,
             BindDigest(e, d, p)
      PROVE  JournalStep
  BY <1>3 DEF BindDigest, Binds, Refused, JournalStep
<1>4. ASSUME NEW p \in Principals, NEW held \in SUBSET Roles,
             ChangeRoles(p, held)
      PROVE  JournalStep
  BY <1>4 DEF ChangeRoles, JournalStep
<1>5. CASE UNCHANGED evidenceVars
  BY <1>5 DEF evidenceVars, JournalStep
<1> QED
  BY <1>1, <1>2, <1>3, <1>4, <1>5 DEF EvidenceNext

-----------------------------------------------------------------------------
(* Typing.                                                                 *)

\* The record and the event of each kind of journal entry.
LEMMA CreatesTyped ==
  ASSUME NEW p \in Principals
  PROVE  LET r == [NoRecord EXCEPT !.producer_id = p, !.state = "CANDIDATE"]
         IN  r \in EvidenceRecord /\ Complete(r)
BY EvidenceAssumption
   DEF EvidenceAssumption, NoRecord, EvidenceRecord, Complete, States

LEMMA BindsTyped ==
  ASSUME NEW r \in EvidenceRecord, Complete(r), NEW d \in Digests,
         r.state = "CANDIDATE"
  PROVE  LET s == [r EXCEPT !.digest = d]
         IN  s \in EvidenceRecord /\ Complete(s)
BY EvidenceAssumption
   DEF EvidenceAssumption, EvidenceRecord, Complete, States

LEMMA VerifiesTyped ==
  ASSUME IInv, NEW e \in Evidence, NEW p \in Principals, NEW ok \in BOOLEAN,
         Verifies(e, p, ok)
  PROVE  Judged(e, p, ok) \in EvidenceRecord /\ Complete(Judged(e, p, ok))
<1>1. current[e] \in EvidenceRecord /\ Complete(current[e])
      /\ current[e].state = "CANDIDATE"
  BY DEF IInv, EvidenceTypeOK, Verifies, Verifiable
<1>2. Judged(e, p, ok) \in EvidenceRecord
  BY <1>1 DEF Judged, EvidenceRecord, States
<1>3. /\ Judged(e, p, ok).state = (IF ok THEN "VERIFIED" ELSE "CANDIDATE")
      /\ Judged(e, p, ok).verifier_id = p
      /\ Judged(e, p, ok).verification_result = ok
      /\ Judged(e, p, ok).producer_id = current[e].producer_id
      /\ Judged(e, p, ok).authorization_result = None
  BY <1>1 DEF Judged, EvidenceRecord
<1>4. current[e].producer_id \in Principals /\ "VERIFIED" # None
      /\ "CANDIDATE" # None
  BY <1>1, EvidenceAssumption DEF Complete, EvidenceAssumption, States
<1> QED
  BY <1>2, <1>3, <1>4 DEF Complete

LEMMA AuthorizesTyped ==
  ASSUME IInv, NEW e \in Evidence, NEW p \in Principals, NEW ok \in BOOLEAN,
         Authorizes(e, p, ok)
  PROVE  /\ AuthorizedRecord(e, p, ok) \in EvidenceRecord
         /\ Complete(AuthorizedRecord(e, p, ok))
<1>1. current[e] \in EvidenceRecord /\ Complete(current[e])
      /\ current[e].state = "VERIFIED" /\ p = Owner
  BY DEF IInv, EvidenceTypeOK, Authorizes, Authorizable
<1> DEFINE r == AuthorizedRecord(e, p, ok)
<1>2. r \in EvidenceRecord
  <2>1. (IF ok THEN "AUTHORIZED" ELSE "VERIFIED") \in States
    BY DEF States
  <2> QED
    BY <1>1, <2>1 DEF AuthorizedRecord, EvidenceRecord
<1>3. /\ r.state = (IF ok THEN "AUTHORIZED" ELSE "VERIFIED")
      /\ r.verifier_id = current[e].verifier_id
      /\ r.verification_result = current[e].verification_result
      /\ r.producer_id = current[e].producer_id
      /\ r.authorizer_id = Owner
  BY <1>1 DEF AuthorizedRecord, EvidenceRecord
<1>4. /\ current[e].producer_id \in Principals
      /\ current[e].verifier_id \in Principals
      /\ current[e].verification_result = TRUE
      /\ "VERIFIED" # None /\ "AUTHORIZED" # None
  BY <1>1, EvidenceAssumption DEF Complete, EvidenceAssumption, States
<1> QED
  BY <1>2, <1>3, <1>4 DEF Complete

LEMMA JournalTyped ==
  ASSUME IInv, JournalStep
  PROVE  /\ current' \in [Evidence -> EvidenceRecord]
         /\ events' \in Seq(EvidenceEvent)
         /\ \A e \in Evidence : Complete(current'[e])
<1>0. /\ current \in [Evidence -> EvidenceRecord]
      /\ events \in Seq(EvidenceEvent)
      /\ \A e \in Evidence : Complete(current[e])
  BY DEF IInv, EvidenceTypeOK
<1>1. ASSUME NEW e \in Evidence, NEW r \in EvidenceRecord, Complete(r),
             NEW kind \in Kinds, NEW p \in Principals,
             NEW d \in Digests \cup {None}, Record(e, kind, p, d, r)
      PROVE  /\ current' \in [Evidence -> EvidenceRecord]
             /\ events' \in Seq(EvidenceEvent)
             /\ \A f \in Evidence : Complete(current'[f])
  <2>1. [evidence_id |-> e, event |-> kind, actor |-> p, digest |-> d]
          \in EvidenceEvent
    BY DEF EvidenceEvent
  <2> QED
    BY <1>0, <1>1, <2>1 DEF Record
<1>2. CASE UNCHANGED <<current, events>>
  BY <1>0, <1>2
<1>3. ASSUME NEW e \in Evidence, NEW p \in Principals, Creates(e, p)
      PROVE  /\ current' \in [Evidence -> EvidenceRecord]
             /\ events' \in Seq(EvidenceEvent)
             /\ \A f \in Evidence : Complete(current'[f])
  BY <1>1, <1>3, CreatesTyped DEF Creates, Kinds
<1>4. ASSUME NEW e \in Evidence, NEW p \in Principals, NEW d \in Digests,
             Binds(e, d, p)
      PROVE  /\ current' \in [Evidence -> EvidenceRecord]
             /\ events' \in Seq(EvidenceEvent)
             /\ \A f \in Evidence : Complete(current'[f])
  <2>1. LET s == [current[e] EXCEPT !.digest = d]
        IN  s \in EvidenceRecord /\ Complete(s)
    BY <1>0, <1>4, BindsTyped DEF Binds, Bindable
  <2> QED
    BY <1>1, <1>4, <2>1 DEF Binds, Kinds
<1>5. ASSUME NEW e \in Evidence, NEW p \in Principals, NEW ok \in BOOLEAN,
             Verifies(e, p, ok)
      PROVE  /\ current' \in [Evidence -> EvidenceRecord]
             /\ events' \in Seq(EvidenceEvent)
             /\ \A f \in Evidence : Complete(current'[f])
  BY <1>1, <1>5, VerifiesTyped DEF Verifies, Kinds
<1>6. ASSUME NEW e \in Evidence, NEW p \in Principals, NEW ok \in BOOLEAN,
             Authorizes(e, p, ok)
      PROVE  /\ current' \in [Evidence -> EvidenceRecord]
             /\ events' \in Seq(EvidenceEvent)
             /\ \A f \in Evidence : Complete(current'[f])
  BY <1>1, <1>6, AuthorizesTyped DEF Authorizes, Kinds
<1> QED
  BY <1>2, <1>3, <1>4, <1>5, <1>6 DEF JournalStep

LEMMA CallsTyped ==
  ASSUME IInv, [EvidenceNext]_evidenceVars
  PROVE  /\ calls' \in [Threads -> Call] /\ CallsKnown'
         /\ roles' \in [Principals -> SUBSET Roles]
         /\ started' \in 0..MaxCalls
<1>0. /\ calls \in [Threads -> Call] /\ CallsKnown
      /\ roles \in [Principals -> SUBSET Roles]
      /\ started \in 0..MaxCalls /\ MaxCalls \in Nat
  BY EvidenceAssumption DEF IInv, EvidenceTypeOK, EvidenceAssumption
<1>1. Idle \in Call /\ Idle.step = "idle"
  BY EvidenceAssumption DEF Idle, Call, Operations, EvidenceAssumption
<1>2. ASSUME NEW t \in Threads, NEW c \in Call,
             c.step # "idle" => c.evidence \in Evidence,
             calls' = [calls EXCEPT ![t] = c]
      PROVE  calls' \in [Threads -> Call] /\ CallsKnown'
  BY <1>0, <1>2 DEF CallsKnown
<1>3. ASSUME NEW t \in Threads, NEW op \in Operations,
             NEW p \in Principals, NEW e \in Evidence, NEW r \in BOOLEAN,
             Begin(t, op, p, e, r)
      PROVE  /\ calls' \in [Threads -> Call] /\ CallsKnown'
             /\ roles' = roles /\ started' \in 0..MaxCalls
  <2> DEFINE c == [step |-> IF op = "create" THEN "journal" ELSE "select",
                   operation |-> op, actor |-> p, evidence |-> e,
                   result |-> r]
  <2>1. c \in Call /\ c.evidence \in Evidence
    BY DEF Call
  <2>2. calls' = [calls EXCEPT ![t] = c]
    BY <1>3 DEF Begin
  <2> HIDE DEF c
  <2>3. calls' \in [Threads -> Call] /\ CallsKnown'
    BY <2>1, <2>2, <1>2
  <2> QED
    BY <2>3, <1>0, <1>3 DEF Begin
<1>4. ASSUME NEW t \in Threads, Step(t)
      PROVE  /\ calls' \in [Threads -> Call] /\ CallsKnown'
             /\ roles' = roles /\ started' = started
  <2>1. roles' = roles /\ started' = started
    BY <1>4 DEF Step, SelectCapability, CreateCandidate, Verify, Authorize,
                InJournal
  <2>2. CASE calls' = [calls EXCEPT ![t] = Idle]
    BY <2>1, <2>2, <1>1, <1>2
  <2>3. CASE calls[t].step = "select" /\
             calls' = [calls EXCEPT ![t] = [calls[t] EXCEPT !.step = "journal"]]
    <3> PICK c \in Call : c = calls[t] /\ c.evidence \in Evidence
      BY <1>0, <2>3 DEF CallsKnown
    <3> DEFINE d == [c EXCEPT !.step = "journal"]
    <3>1. d \in Call /\ d.evidence \in Evidence
      BY DEF Call
    <3>2. calls' = [calls EXCEPT ![t] = d]
      BY <2>3
    <3> HIDE DEF d
    <3> QED
      BY <3>1, <3>2, <1>2, <2>1
  <2> QED
    BY <1>4, <2>2, <2>3 DEF Step, SelectCapability, CreateCandidate, Verify,
                            Authorize, InJournal
<1>5. ASSUME NEW e \in Evidence, NEW d \in Digests, NEW p \in Principals,
             BindDigest(e, d, p)
      PROVE  UNCHANGED <<calls, roles>> /\ started' \in 0..MaxCalls
  BY <1>0, <1>5 DEF BindDigest
<1>6. ASSUME NEW p \in Principals, NEW held \in SUBSET Roles,
             ChangeRoles(p, held)
      PROVE  /\ UNCHANGED <<calls, started>>
             /\ roles' \in [Principals -> SUBSET Roles]
  BY <1>0, <1>6 DEF ChangeRoles
<1> QED
  BY <1>0, <1>3, <1>4, <1>5, <1>6 DEF EvidenceNext, Request, evidenceVars, CallsKnown

LEMMA InitIsTyped == EvidenceInit => IInv
<1> SUFFICES ASSUME EvidenceInit PROVE IInv
  OBVIOUS
<1>1. NoRecord \in EvidenceRecord /\ Complete(NoRecord)
  BY EvidenceAssumption
     DEF NoRecord, EvidenceRecord, Complete, EvidenceAssumption, States
<1>2. Idle \in Call /\ Idle.step = "idle"
  BY EvidenceAssumption DEF Idle, Call, Operations, EvidenceAssumption
<1>3. <<>> \in Seq(EvidenceEvent) /\ 0 \in 0..MaxCalls
  BY EvidenceAssumption DEF EvidenceAssumption
<1> QED
  BY <1>1, <1>2, <1>3 DEF EvidenceInit, IInv, EvidenceTypeOK, CallsKnown

LEMMA StepKeepsTypes == IInv /\ [EvidenceNext]_evidenceVars => IInv'
BY StepsOfNext, JournalTyped, CallsTyped DEF IInv, EvidenceTypeOK

LEMMA Invariance == EvidenceSpec => []IInv
BY InitIsTyped, StepKeepsTypes, PTL DEF EvidenceSpec

\* Every state of the journal and of its calls has the declared type.
THEOREM EvidenceTyping == EvidenceSpec => []EvidenceTypeOK
<1>1. IInv => EvidenceTypeOK
  BY DEF IInv
<1> QED
  BY <1>1, Invariance, PTL

-----------------------------------------------------------------------------
(* The journal tells its records: what is said of the events alone, so     *)
(* that it can be said of the events a step appends to.                    *)

Positions(evs, e, kinds) ==
  {i \in DOMAIN evs : evs[i].evidence_id = e /\ evs[i].event \in kinds}

Last(evs, e, kinds, k, p) ==
  \E i \in Positions(evs, e, kinds) :
    /\ \A j \in Positions(evs, e, kinds) : j <= i
    /\ evs[i].event = k
    /\ evs[i].actor = p

TellsBirth(evs, e, r) ==
  IF r.state = None THEN Positions(evs, e, Kinds) = {}
  ELSE Last(evs, e, {"create_candidate"}, "create_candidate", r.producer_id)

TellsState(evs, e, r) ==
  /\ r.state = "AUTHORIZED" <=> Positions(evs, e, {"authorized"}) # {}
  /\ r.state \in {"VERIFIED", "AUTHORIZED"}
       <=> Positions(evs, e, {"verified"}) # {}

TellsVerdict(evs, e, r) ==
  IF r.verification_result = None THEN Positions(evs, e, Verdicts) = {}
  ELSE Last(evs, e, Verdicts,
            IF r.verification_result THEN "verified"
            ELSE "verification_failed", r.verifier_id)

TellsAuthorization(evs, e, r) ==
  IF r.authorization_result = None
    THEN Positions(evs, e, Authorizations) = {}
    ELSE Last(evs, e, Authorizations,
              IF r.authorization_result THEN "authorized"
              ELSE "authorization_failed", r.authorizer_id)

TellsDigest(evs, e, r) ==
  IF r.digest = None THEN Positions(evs, e, {"digest_bound"}) = {}
  ELSE \A i \in Positions(evs, e, {"digest_bound"}) : evs[i].digest = r.digest

Sealing == {"verified"} \cup Authorizations

BoundFirst(evs, e) ==
  \A i \in Positions(evs, e, {"digest_bound"}) :
    /\ Positions(evs, e, {"digest_bound"}) = {i}
    /\ \A j \in Positions(evs, e, Sealing) : i < j

Tells(evs, e, r) ==
  /\ TellsBirth(evs, e, r)
  /\ TellsState(evs, e, r)
  /\ TellsVerdict(evs, e, r)
  /\ TellsAuthorization(evs, e, r)
  /\ TellsDigest(evs, e, r)
  /\ BoundFirst(evs, e)

TellsAll(evs, records) == \A e \in Evidence : Tells(evs, e, records[e])

\* An event of e and of one of the kinds is their last one, and where an
\* event is of another id or kind nothing changes.
LEMMA Appended ==
  ASSUME NEW evs \in Seq(EvidenceEvent), NEW x \in EvidenceEvent,
         NEW e, NEW kinds
  PROVE  /\ ~(x.evidence_id = e /\ x.event \in kinds) =>
              /\ Positions(Append(evs, x), e, kinds)
                   = Positions(evs, e, kinds)
              /\ \A k, p : Last(evs, e, kinds, k, p) =>
                             Last(Append(evs, x), e, kinds, k, p)
         /\ x.evidence_id = e /\ x.event \in kinds =>
              /\ Positions(Append(evs, x), e, kinds)
                   = Positions(evs, e, kinds) \cup {Len(evs) + 1}
              /\ Last(Append(evs, x), e, kinds, x.event, x.actor)
         /\ \A i \in Positions(evs, e, kinds) :
              i \in 1..Len(evs) /\ Append(evs, x)[i] = evs[i]
         /\ Append(evs, x)[Len(evs) + 1] = x
<1> DEFINE new == Append(evs, x)
           n == Len(evs) + 1
<1>1. /\ Len(evs) \in Nat /\ DOMAIN evs = 1..Len(evs)
      /\ DOMAIN new = 1..n /\ new[n] = x
      /\ \A i \in 1..Len(evs) : new[i] = evs[i]
  OBVIOUS
<1>2. 1..n = (1..Len(evs)) \cup {n} /\ n \notin 1..Len(evs)
  BY <1>1
<1> HIDE DEF new
<1> HIDE DEF n
<1>3. \A i \in Positions(evs, e, kinds) :
        i \in 1..Len(evs) /\ new[i] = evs[i]
  BY <1>1 DEF Positions
<1>4. CASE ~(x.evidence_id = e /\ x.event \in kinds)
  <2>1. Positions(new, e, kinds) = Positions(evs, e, kinds)
    BY <1>1, <1>2, <1>4 DEF Positions
  <2>2. ASSUME NEW k, NEW p, Last(evs, e, kinds, k, p)
        PROVE  Last(new, e, kinds, k, p)
    BY <2>1, <2>2, <1>3 DEF Last
  <2> QED
    BY <2>1, <2>2, <1>1, <1>3, <1>4 DEF new, n
<1>5. CASE x.evidence_id = e /\ x.event \in kinds
  <2>1. Positions(new, e, kinds) = Positions(evs, e, kinds) \cup {n}
    BY <1>1, <1>2, <1>5 DEF Positions
  <2>2. \A j \in Positions(new, e, kinds) : j <= n
    BY <2>1, <1>1, <1>3 DEF n
  <2>3. Last(new, e, kinds, x.event, x.actor)
    BY <2>1, <2>2, <1>1 DEF Last
  <2> QED
    BY <2>1, <2>3, <1>1, <1>3, <1>5 DEF new, n
<1> QED
  BY <1>4, <1>5

\* What an event says of one piece of evidence leaves the others as told.
LEMMA OthersAsTold ==
  ASSUME NEW evs \in Seq(EvidenceEvent), NEW x \in EvidenceEvent,
         NEW f \in Evidence, x.evidence_id # f,
         NEW r, Tells(evs, f, r)
  PROVE  Tells(Append(evs, x), f, r)
<1> DEFINE new == Append(evs, x)
<1>1. \A kinds :
        /\ Positions(new, f, kinds) = Positions(evs, f, kinds)
        /\ \A k, p : Last(evs, f, kinds, k, p) => Last(new, f, kinds, k, p)
        /\ \A i \in Positions(evs, f, kinds) : new[i] = evs[i]
  BY Appended
<1> HIDE DEF new
<1>2. TellsBirth(new, f, r)
  BY <1>1 DEF Tells, TellsBirth
<1>3. TellsState(new, f, r)
  BY <1>1 DEF Tells, TellsState
<1>4. TellsVerdict(new, f, r)
  BY <1>1 DEF Tells, TellsVerdict
<1>5. TellsAuthorization(new, f, r)
  BY <1>1 DEF Tells, TellsAuthorization
<1>6. TellsDigest(new, f, r)
  BY <1>1 DEF Tells, TellsDigest
<1>7. BoundFirst(new, f)
  BY <1>1 DEF Tells, BoundFirst
<1> QED
  BY <1>2, <1>3, <1>4, <1>5, <1>6, <1>7 DEF Tells, new

\* A new candidate: nothing was told of it, and now it is told to be one.
LEMMA CreationIsTold ==
  ASSUME NEW evs \in Seq(EvidenceEvent), NEW e \in Evidence,
         NEW p \in Principals, Positions(evs, e, Kinds) = {}
  PROVE  Tells(Append(evs, [evidence_id |-> e, event |-> "create_candidate",
                            actor |-> p, digest |-> None]), e,
               [NoRecord EXCEPT !.producer_id = p, !.state = "CANDIDATE"])
<1> DEFINE x == [evidence_id |-> e, event |-> "create_candidate",
                 actor |-> p, digest |-> None]
           new == Append(evs, x)
           r == [NoRecord EXCEPT !.producer_id = p, !.state = "CANDIDATE"]
<1>1. /\ x \in EvidenceEvent /\ x.evidence_id = e
      /\ x.event = "create_candidate" /\ x.actor = p
  BY DEF EvidenceEvent, Kinds
<1>2. /\ r.state = "CANDIDATE" /\ r.producer_id = p
      /\ r.verification_result = None /\ r.authorization_result = None
      /\ r.digest = None
  BY DEF NoRecord
<1>3. "CANDIDATE" # None
  BY EvidenceAssumption DEF EvidenceAssumption, States
<1> HIDE DEF x, new, r
<1>4. \A kinds \in SUBSET Kinds :
        "create_candidate" \notin kinds => Positions(new, e, kinds) = {}
  <2>1. \A kinds \in SUBSET Kinds : Positions(evs, e, kinds) = {}
    BY DEF Positions
  <2> QED
    BY <2>1, <1>1, Appended DEF new
<1>5. Last(new, e, {"create_candidate"}, "create_candidate", p)
  <2>1. Last(new, e, {"create_candidate"}, x.event, x.actor)
    BY <1>1, Appended DEF new
  <2> QED
    BY <2>1, <1>1
<1>6. /\ Positions(new, e, {"authorized"}) = {}
      /\ Positions(new, e, {"verified"}) = {}
      /\ Positions(new, e, Verdicts) = {}
      /\ Positions(new, e, Authorizations) = {}
      /\ Positions(new, e, {"digest_bound"}) = {}
  BY <1>4 DEF Kinds, Verdicts, Authorizations
<1> QED
  BY <1>2, <1>3, <1>5, <1>6
     DEF Tells, TellsBirth, TellsState, TellsVerdict, TellsAuthorization,
         TellsDigest, BoundFirst, x, new, r

\* A digest is bound where none was, before any verdict that lasts.
LEMMA BindingIsTold ==
  ASSUME NEW evs \in Seq(EvidenceEvent), NEW e \in Evidence,
         NEW p \in Principals, NEW d \in Digests,
         NEW q \in EvidenceRecord, Tells(evs, e, q), Complete(q),
         q.digest = None, q.state = "CANDIDATE"
  PROVE  Tells(Append(evs, [evidence_id |-> e, event |-> "digest_bound",
                            actor |-> p, digest |-> d]), e,
               [q EXCEPT !.digest = d])
<1> DEFINE x == [evidence_id |-> e, event |-> "digest_bound",
                 actor |-> p, digest |-> d]
           new == Append(evs, x)
           r == [q EXCEPT !.digest = d]
           n == Len(evs) + 1
<1>1. /\ x \in EvidenceEvent /\ x.evidence_id = e
      /\ x.event = "digest_bound" /\ x.digest = d
  BY DEF EvidenceEvent, Kinds
<1>2. /\ r.state = "CANDIDATE" /\ r.producer_id = q.producer_id
      /\ r.verification_result = q.verification_result
      /\ r.verifier_id = q.verifier_id
      /\ r.authorization_result = q.authorization_result
      /\ r.authorizer_id = q.authorizer_id /\ r.digest = d
  BY DEF EvidenceRecord
<1>3. d # None /\ "CANDIDATE" # None
  BY EvidenceAssumption DEF EvidenceAssumption, States
<1> HIDE DEF x, new, r, n
<1>4. \A kinds : "digest_bound" \notin kinds =>
        /\ Positions(new, e, kinds) = Positions(evs, e, kinds)
        /\ \A k, s : Last(evs, e, kinds, k, s) => Last(new, e, kinds, k, s)
  <2> TAKE kinds
  <2> HAVE "digest_bound" \notin kinds
  <2>1. ~(x.evidence_id = e /\ x.event \in kinds)
    BY <1>1
  <2>2. Positions(new, e, kinds) = Positions(evs, e, kinds)
    BY <2>1, <1>1, Appended DEF new
  <2>3. ASSUME NEW k, NEW s, Last(evs, e, kinds, k, s)
        PROVE  Last(new, e, kinds, k, s)
    BY <2>1, <2>3, <1>1, Appended DEF new
  <2> QED
    BY <2>2, <2>3
<1>5. /\ Positions(new, e, {"digest_bound"}) = {n} /\ new[n] = x
  <2>1. Positions(evs, e, {"digest_bound"}) = {}
    BY DEF Tells, TellsDigest
  <2> QED
    BY <2>1, <1>1, Appended DEF new, n
<1>6. Positions(new, e, Sealing) = {}
  <2>1. Positions(evs, e, {"verified"}) = {}
    BY DEF Tells, TellsState
  <2>2. Positions(evs, e, Authorizations) = {}
    BY DEF Tells, TellsAuthorization, Complete
  <2>3. Positions(evs, e, Sealing) = {}
    BY <2>1, <2>2 DEF Positions, Sealing
  <2> QED
    BY <2>3, <1>4 DEF Sealing, Authorizations
<1>7. TellsBirth(new, e, r)
  BY <1>2, <1>3, <1>4 DEF Tells, TellsBirth
<1>8. TellsState(new, e, r)
  BY <1>2, <1>4 DEF Tells, TellsState
<1>9. TellsVerdict(new, e, r)
  BY <1>2, <1>4 DEF Tells, TellsVerdict, Verdicts
<1>10. TellsAuthorization(new, e, r)
  BY <1>2, <1>4 DEF Tells, TellsAuthorization, Authorizations
<1>11. TellsDigest(new, e, r)
  BY <1>1, <1>2, <1>3, <1>5 DEF TellsDigest
<1>12. BoundFirst(new, e)
  BY <1>5, <1>6 DEF BoundFirst
<1> QED
  BY <1>7, <1>8, <1>9, <1>10, <1>11, <1>12 DEF Tells, x, new, r

\* The digest that was bound stays told by the events that follow it.
LEMMA DigestStaysTold ==
  ASSUME NEW evs \in Seq(EvidenceEvent), NEW x \in EvidenceEvent,
         NEW e, NEW q, NEW r, TellsDigest(evs, e, q), BoundFirst(evs, e),
         x.event # "digest_bound", r.digest = q.digest
  PROVE  TellsDigest(Append(evs, x), e, r) /\ BoundFirst(Append(evs, x), e)
<1> DEFINE new == Append(evs, x)
           n == Len(evs) + 1
<1>1. /\ Positions(new, e, {"digest_bound"})
           = Positions(evs, e, {"digest_bound"})
      /\ \A i \in Positions(evs, e, {"digest_bound"}) :
           i \in 1..Len(evs) /\ new[i] = evs[i]
  BY Appended
<1>2. Positions(new, e, Sealing) \subseteq Positions(evs, e, Sealing) \cup {n}
  BY Appended
<1>3. Len(evs) \in Nat /\ \A i \in 1..Len(evs) : i < n
  OBVIOUS
<1> HIDE DEF new, n
<1>4. TellsDigest(new, e, r)
  BY <1>1 DEF TellsDigest
<1>5. BoundFirst(new, e)
  BY <1>1, <1>2, <1>3 DEF BoundFirst
<1> QED
  BY <1>4, <1>5 DEF new

\* A verdict on a candidate is told, and a failed one leaves a candidate.
LEMMA VerdictIsTold ==
  ASSUME NEW evs \in Seq(EvidenceEvent), NEW e \in Evidence,
         NEW p \in Principals, NEW ok \in BOOLEAN,
         NEW q \in EvidenceRecord, Tells(evs, e, q), Complete(q),
         q.state = "CANDIDATE",
         NEW r \in EvidenceRecord,
         r = [q EXCEPT !.state = IF ok THEN "VERIFIED" ELSE "CANDIDATE",
                !.verification_result = ok, !.verifier_id = p,
                !.authorization_result = None, !.authorizer_id = None]
  PROVE  Tells(Append(evs, [evidence_id |-> e,
                            event |-> IF ok THEN "verified"
                                      ELSE "verification_failed",
                            actor |-> p, digest |-> None]), e, r)
<1> DEFINE kind == IF ok THEN "verified" ELSE "verification_failed"
           x == [evidence_id |-> e, event |-> kind, actor |-> p,
                 digest |-> None]
           new == Append(evs, x)
<1>0. kind \in Verdicts /\ kind \in Kinds
  BY DEF Verdicts, Kinds
<1>1. x \in EvidenceEvent /\ x.evidence_id = e /\ x.event = kind /\ x.actor = p
  BY <1>0 DEF EvidenceEvent
<1>2. /\ r.state = (IF ok THEN "VERIFIED" ELSE "CANDIDATE")
      /\ r.producer_id = q.producer_id /\ r.verification_result = ok
      /\ r.verifier_id = p /\ r.authorization_result = None
      /\ r.digest = q.digest
  BY DEF EvidenceRecord
<1>3. /\ ok # None /\ "CANDIDATE" # None /\ "VERIFIED" # None
  BY EvidenceAssumption DEF EvidenceAssumption, States
<1> HIDE DEF x, new
<1>4. \A kinds : kind \notin kinds =>
        /\ Positions(new, e, kinds) = Positions(evs, e, kinds)
        /\ \A k, s : Last(evs, e, kinds, k, s) => Last(new, e, kinds, k, s)
  <2> TAKE kinds
  <2> HAVE kind \notin kinds
  <2>1. ~(x.evidence_id = e /\ x.event \in kinds)
    BY <1>1
  <2>2. Positions(new, e, kinds) = Positions(evs, e, kinds)
    BY <2>1, <1>1, Appended DEF new
  <2>3. ASSUME NEW k, NEW s, Last(evs, e, kinds, k, s)
        PROVE  Last(new, e, kinds, k, s)
    BY <2>1, <2>3, <1>1, Appended DEF new
  <2> QED
    BY <2>2, <2>3
<1>5. \A kinds : kind \in kinds =>
        Positions(new, e, kinds) # {} /\ Last(new, e, kinds, kind, p)
  <2> TAKE kinds
  <2> HAVE kind \in kinds
  <2>1. x.evidence_id = e /\ x.event \in kinds
    BY <1>1
  <2>2. /\ Positions(new, e, kinds)
             = Positions(evs, e, kinds) \cup {Len(evs) + 1}
        /\ Last(new, e, kinds, x.event, x.actor)
    BY <2>1, <1>1, Appended DEF new
  <2> QED
    BY <2>2, <1>1
<1>6. TellsBirth(new, e, r)
  BY <1>2, <1>3, <1>4 DEF Tells, TellsBirth
<1>7. TellsState(new, e, r)
  <2>1. /\ Positions(evs, e, {"authorized"}) = {}
        /\ Positions(evs, e, {"verified"}) = {}
    BY DEF Tells, TellsState
  <2>2. Positions(new, e, {"authorized"}) = {}
    BY <2>1, <1>4
  <2>3. Positions(new, e, {"verified"}) # {} <=> ok
    BY <2>1, <1>4, <1>5
  <2> QED
    BY <2>2, <2>3, <1>2 DEF TellsState
<1>8. TellsVerdict(new, e, r)
  BY <1>0, <1>2, <1>3, <1>5 DEF TellsVerdict
<1>9. TellsAuthorization(new, e, r)
  <2>1. Positions(evs, e, Authorizations) = {}
    BY DEF Tells, TellsAuthorization, Complete
  <2> QED
    BY <2>1, <1>2, <1>4 DEF TellsAuthorization, Authorizations
<1>10. TellsDigest(new, e, r) /\ BoundFirst(new, e)
  BY <1>1, <1>2, DigestStaysTold DEF Tells, new
<1> QED
  BY <1>6, <1>7, <1>8, <1>9, <1>10 DEF Tells, x, new

\* An authorization of what was verified is told, and a failed one leaves
\* it verified.
LEMMA AuthorizationIsTold ==
  ASSUME NEW evs \in Seq(EvidenceEvent), NEW e \in Evidence,
         NEW p \in Principals, NEW ok \in BOOLEAN,
         NEW q \in EvidenceRecord, Tells(evs, e, q), Complete(q),
         q.state = "VERIFIED",
         NEW r \in EvidenceRecord,
         r = [q EXCEPT !.state = IF ok THEN "AUTHORIZED" ELSE "VERIFIED",
                       !.authorization_result = ok, !.authorizer_id = p]
  PROVE  Tells(Append(evs, [evidence_id |-> e,
                            event |-> IF ok THEN "authorized"
                                      ELSE "authorization_failed",
                            actor |-> p, digest |-> None]), e, r)
<1> DEFINE kind == IF ok THEN "authorized" ELSE "authorization_failed"
           x == [evidence_id |-> e, event |-> kind, actor |-> p,
                 digest |-> None]
           new == Append(evs, x)
<1>0. kind \in Authorizations /\ kind \in Kinds
  BY DEF Authorizations, Kinds
<1>1. x \in EvidenceEvent /\ x.evidence_id = e /\ x.event = kind /\ x.actor = p
  BY <1>0 DEF EvidenceEvent
<1>2. /\ r.state = (IF ok THEN "AUTHORIZED" ELSE "VERIFIED")
      /\ r.producer_id = q.producer_id
      /\ r.verification_result = q.verification_result
      /\ r.verifier_id = q.verifier_id /\ r.authorization_result = ok
      /\ r.authorizer_id = p /\ r.digest = q.digest
  BY DEF EvidenceRecord
<1>3. /\ ok # None /\ "AUTHORIZED" # None /\ "VERIFIED" # None
  BY EvidenceAssumption DEF EvidenceAssumption, States
<1> HIDE DEF x, new
<1>4. \A kinds : kind \notin kinds =>
        /\ Positions(new, e, kinds) = Positions(evs, e, kinds)
        /\ \A k, s : Last(evs, e, kinds, k, s) => Last(new, e, kinds, k, s)
  <2> TAKE kinds
  <2> HAVE kind \notin kinds
  <2>1. ~(x.evidence_id = e /\ x.event \in kinds)
    BY <1>1
  <2>2. Positions(new, e, kinds) = Positions(evs, e, kinds)
    BY <2>1, <1>1, Appended DEF new
  <2>3. ASSUME NEW k, NEW s, Last(evs, e, kinds, k, s)
        PROVE  Last(new, e, kinds, k, s)
    BY <2>1, <2>3, <1>1, Appended DEF new
  <2> QED
    BY <2>2, <2>3
<1>5. \A kinds : kind \in kinds =>
        Positions(new, e, kinds) # {} /\ Last(new, e, kinds, kind, p)
  <2> TAKE kinds
  <2> HAVE kind \in kinds
  <2>1. x.evidence_id = e /\ x.event \in kinds
    BY <1>1
  <2>2. /\ Positions(new, e, kinds)
             = Positions(evs, e, kinds) \cup {Len(evs) + 1}
        /\ Last(new, e, kinds, x.event, x.actor)
    BY <2>1, <1>1, Appended DEF new
  <2> QED
    BY <2>2, <1>1
<1>6. TellsBirth(new, e, r)
  BY <1>2, <1>3, <1>4 DEF Tells, TellsBirth
<1>7. TellsState(new, e, r)
  <2>1. /\ Positions(evs, e, {"authorized"}) = {}
        /\ Positions(evs, e, {"verified"}) # {}
    BY DEF Tells, TellsState
  <2>2. Positions(new, e, {"authorized"}) # {} <=> ok
    BY <2>1, <1>4, <1>5
  <2>3. Positions(new, e, {"verified"}) # {}
    BY <2>1, <1>4
  <2> QED
    BY <2>2, <2>3, <1>2 DEF TellsState
<1>8. TellsVerdict(new, e, r)
  BY <1>2, <1>4 DEF Tells, TellsVerdict, Verdicts
<1>9. TellsAuthorization(new, e, r)
  BY <1>0, <1>2, <1>3, <1>5 DEF TellsAuthorization
<1>10. TellsDigest(new, e, r) /\ BoundFirst(new, e)
  BY <1>1, <1>2, DigestStaysTold DEF Tells, new
<1> QED
  BY <1>6, <1>7, <1>8, <1>9, <1>10 DEF Tells, x, new

LEMMA StepIsTold ==
  ASSUME IInv, TellsAll(events, current), [EvidenceNext]_evidenceVars
  PROVE  TellsAll(events', current')
<1>0. /\ current \in [Evidence -> EvidenceRecord]
      /\ events \in Seq(EvidenceEvent)
      /\ \A e \in Evidence : Complete(current[e])
      /\ \A e \in Evidence : Tells(events, e, current[e])
      /\ JournalStep /\ None \in Digests \cup {None}
  BY StepsOfNext DEF IInv, EvidenceTypeOK, TellsAll
<1>1. ASSUME NEW e \in Evidence, NEW r, NEW kind \in Kinds,
             NEW p \in Principals, NEW d \in Digests \cup {None},
             Record(e, kind, p, d, r),
             Tells(Append(events, [evidence_id |-> e, event |-> kind,
                                   actor |-> p, digest |-> d]), e, r)
      PROVE  TellsAll(events', current')
  <2> DEFINE x == [evidence_id |-> e, event |-> kind, actor |-> p,
                   digest |-> d]
  <2>1. x \in EvidenceEvent /\ x.evidence_id = e
    BY DEF EvidenceEvent
  <2>2. events' = Append(events, x) /\ current' = [current EXCEPT ![e] = r]
    BY <1>1 DEF Record
  <2>3. Tells(Append(events, x), e, r)
    BY <1>1
  <2> HIDE DEF x
  <2>4. ASSUME NEW f \in Evidence
        PROVE  Tells(events', f, current'[f])
    <3>1. CASE f = e
      BY <3>1, <2>2, <2>3, <1>0
    <3>2. CASE f # e
      <4>1. Tells(Append(events, x), f, current[f])
        BY <3>2, <2>1, <1>0, OthersAsTold
      <4> QED
        BY <3>2, <4>1, <2>2, <1>0
    <3> QED
      BY <3>1, <3>2
  <2> QED
    BY <2>4 DEF TellsAll
<1>2. CASE UNCHANGED <<current, events>>
  BY <1>0, <1>2 DEF TellsAll
<1>3. ASSUME NEW e \in Evidence, NEW p \in Principals, Creates(e, p)
      PROVE  TellsAll(events', current')
  <2>1. Positions(events, e, Kinds) = {}
    BY <1>0, <1>3 DEF Creates, Exists, Tells, TellsBirth
  <2>2. Tells(Append(events, [evidence_id |-> e,
                              event |-> "create_candidate", actor |-> p,
                              digest |-> None]), e,
              [NoRecord EXCEPT !.producer_id = p, !.state = "CANDIDATE"])
    BY <1>0, <2>1, CreationIsTold
  <2>3. Record(e, "create_candidate", p, None,
               [NoRecord EXCEPT !.producer_id = p, !.state = "CANDIDATE"])
    BY <1>3 DEF Creates
  <2>4. "create_candidate" \in Kinds
    BY DEF Kinds
  <2> QED
    BY <1>0, <1>1, <2>2, <2>3, <2>4
<1>4. ASSUME NEW e \in Evidence, NEW p \in Principals, NEW d \in Digests,
             Binds(e, d, p)
      PROVE  TellsAll(events', current')
  <2>1. current[e].digest = None /\ current[e].state = "CANDIDATE"
    BY <1>4 DEF Binds, Bindable
  <2>2. Tells(Append(events, [evidence_id |-> e, event |-> "digest_bound",
                              actor |-> p, digest |-> d]), e,
              [current[e] EXCEPT !.digest = d])
    BY <1>0, <2>1, BindingIsTold
  <2>3. Record(e, "digest_bound", p, d, [current[e] EXCEPT !.digest = d])
    BY <1>4 DEF Binds
  <2>4. "digest_bound" \in Kinds
    BY DEF Kinds
  <2> QED
    BY <1>1, <2>2, <2>3, <2>4
<1>5. ASSUME NEW e \in Evidence, NEW p \in Principals, NEW ok \in BOOLEAN,
             Verifies(e, p, ok)
      PROVE  TellsAll(events', current')
  <2> DEFINE kind == IF ok THEN "verified" ELSE "verification_failed"
  <2>1. Judged(e, p, ok) \in EvidenceRecord
    BY <1>5, VerifiesTyped
  <2>2. current[e].state = "CANDIDATE"
    BY <1>5 DEF Verifies, Verifiable
  <2>3. Tells(Append(events, [evidence_id |-> e, event |-> kind, actor |-> p,
                              digest |-> None]), e, Judged(e, p, ok))
    BY <1>0, <2>1, <2>2, VerdictIsTold DEF Judged
  <2>4. Record(e, kind, p, None, Judged(e, p, ok))
    BY <1>5 DEF Verifies
  <2>5. kind \in Kinds
    BY DEF Kinds
  <2> HIDE DEF kind
  <2> QED
    BY <1>0, <1>1, <2>3, <2>4, <2>5
<1>6. ASSUME NEW e \in Evidence, NEW p \in Principals, NEW ok \in BOOLEAN,
             Authorizes(e, p, ok)
      PROVE  TellsAll(events', current')
  <2> DEFINE kind == IF ok THEN "authorized" ELSE "authorization_failed"
  <2>1. AuthorizedRecord(e, p, ok) \in EvidenceRecord
    BY <1>6, AuthorizesTyped
  <2>2. current[e].state = "VERIFIED"
    BY <1>6 DEF Authorizes, Authorizable
  <2>3. Tells(Append(events, [evidence_id |-> e, event |-> kind, actor |-> p,
                              digest |-> None]), e,
              AuthorizedRecord(e, p, ok))
    BY <1>0, <2>1, <2>2, AuthorizationIsTold DEF AuthorizedRecord
  <2>4. Record(e, kind, p, None, AuthorizedRecord(e, p, ok))
    BY <1>6 DEF Authorizes
  <2>5. kind \in Kinds
    BY DEF Kinds
  <2> HIDE DEF kind
  <2> QED
    BY <1>0, <1>1, <2>3, <2>4, <2>5
<1> QED
  BY <1>0, <1>2, <1>3, <1>4, <1>5, <1>6 DEF JournalStep

TIInv == IInv /\ TellsAll(events, current)

LEMMA TellsInvariance == EvidenceSpec => []TIInv
<1>1. EvidenceInit => TIInv
  <2> SUFFICES ASSUME EvidenceInit PROVE TellsAll(events, current)
    BY InitIsTyped DEF TIInv
  <2>1. \A e, kinds : Positions(events, e, kinds) = {}
    BY DEF EvidenceInit, Positions
  <2>2. ASSUME NEW e \in Evidence PROVE Tells(events, e, NoRecord)
    <3>1. /\ NoRecord.state = None /\ NoRecord.verification_result = None
          /\ NoRecord.authorization_result = None /\ NoRecord.digest = None
      BY DEF NoRecord
    <3>2. None \notin {"CANDIDATE", "VERIFIED", "AUTHORIZED"}
      BY EvidenceAssumption DEF EvidenceAssumption, States
    <3> QED
      BY <2>1, <3>1, <3>2
         DEF Tells, TellsBirth, TellsState, TellsVerdict, TellsAuthorization,
             TellsDigest, BoundFirst
  <2> QED
    BY <2>2 DEF EvidenceInit, TellsAll
<1>2. TIInv /\ [EvidenceNext]_evidenceVars => TIInv'
  BY StepKeepsTypes, StepIsTold DEF TIInv
<1> QED
  BY <1>1, <1>2, PTL DEF EvidenceSpec

\* The records are what the events of the journal tell, and nothing else.
THEOREM RecordsAreTold == EvidenceSpec => []JournalTellsRecords
<1>1. TIInv => JournalTellsRecords
  BY DEF TIInv, TellsAll, JournalTellsRecords, Told, Tells, TellsBirth,
         TellsState, TellsVerdict, TellsAuthorization, TellsDigest, LastIs,
         At, Last, Positions
<1> QED
  BY <1>1, TellsInvariance, PTL

\* A digest is bound once, and before the evidence it is of was verified.
THEOREM DigestIsBoundFirst == EvidenceSpec => []DigestBeforeVerdict
<1>1. TIInv => DigestBeforeVerdict
  BY DEF TIInv, TellsAll, DigestBeforeVerdict, Tells, BoundFirst, Sealing,
         At, Positions
<1> QED
  BY <1>1, TellsInvariance, PTL

-----------------------------------------------------------------------------
(* The refinement: every step is one of ProducerSeparation or changes none *)
(* of the parties.                                                         *)

Producer == [e \in Evidence |-> Party(e, States, current[e].producer_id)]
Verifier == [e \in Evidence |->
               Party(e, {"VERIFIED", "AUTHORIZED"}, current[e].verifier_id)]
Authorizer == [e \in Evidence |->
                 Party(e, {"AUTHORIZED"}, current[e].authorizer_id)]

\* A new record of e changes the parties of e at most.
LEMMA PartiesOf ==
  ASSUME IInv, NEW e \in Evidence, NEW r \in EvidenceRecord,
         current' = [current EXCEPT ![e] = r]
  PROVE  /\ Producer' = [Producer EXCEPT ![e] =
                           IF r.state \in States THEN r.producer_id ELSE None]
         /\ Verifier' = [Verifier EXCEPT ![e] =
                           IF r.state \in {"VERIFIED", "AUTHORIZED"}
                             THEN r.verifier_id ELSE None]
         /\ Authorizer' = [Authorizer EXCEPT ![e] =
                             IF r.state \in {"AUTHORIZED"}
                               THEN r.authorizer_id ELSE None]
<1>1. current \in [Evidence -> EvidenceRecord]
  BY DEF IInv, EvidenceTypeOK
<1>2. \A f \in Evidence : current'[f] = IF f = e THEN r ELSE current[f]
  BY <1>1
<1>3. Producer' = [Producer EXCEPT ![e] =
       IF r.state \in States THEN r.producer_id ELSE None]
  <2>1. /\ Producer = [f \in Evidence |-> Producer[f]]
        /\ Producer' = [f \in Evidence |-> Producer'[f]]
    BY DEF Producer
  <2>2. \A f \in Evidence :
          /\ Producer[f] = Party(f, States, current[f].producer_id)
          /\ Producer'[f] = Party(f, States, current[f].producer_id)'
    BY DEF Producer
  <2>3. \A f \in Evidence :
          Producer'[f] = IF f = e THEN IF r.state \in States THEN r.producer_id ELSE None
                    ELSE Producer[f]
    BY <1>2, <2>2 DEF Party
  <2> QED
    BY <2>1, <2>3
<1>4. Verifier' = [Verifier EXCEPT ![e] =
       IF r.state \in {"VERIFIED", "AUTHORIZED"} THEN r.verifier_id ELSE None]
  <2>1. /\ Verifier = [f \in Evidence |-> Verifier[f]]
        /\ Verifier' = [f \in Evidence |-> Verifier'[f]]
    BY DEF Verifier
  <2>2. \A f \in Evidence :
          /\ Verifier[f] = Party(f, {"VERIFIED", "AUTHORIZED"}, current[f].verifier_id)
          /\ Verifier'[f] = Party(f, {"VERIFIED", "AUTHORIZED"}, current[f].verifier_id)'
    BY DEF Verifier
  <2>3. \A f \in Evidence :
          Verifier'[f] = IF f = e THEN IF r.state \in {"VERIFIED", "AUTHORIZED"} THEN r.verifier_id ELSE None
                    ELSE Verifier[f]
    BY <1>2, <2>2 DEF Party
  <2> QED
    BY <2>1, <2>3
<1>5. Authorizer' = [Authorizer EXCEPT ![e] =
       IF r.state \in {"AUTHORIZED"} THEN r.authorizer_id ELSE None]
  <2>1. /\ Authorizer = [f \in Evidence |-> Authorizer[f]]
        /\ Authorizer' = [f \in Evidence |-> Authorizer'[f]]
    BY DEF Authorizer
  <2>2. \A f \in Evidence :
          /\ Authorizer[f] = Party(f, {"AUTHORIZED"}, current[f].authorizer_id)
          /\ Authorizer'[f] = Party(f, {"AUTHORIZED"}, current[f].authorizer_id)'
    BY DEF Authorizer
  <2>3. \A f \in Evidence :
          Authorizer'[f] = IF f = e THEN IF r.state \in {"AUTHORIZED"} THEN r.authorizer_id ELSE None
                    ELSE Authorizer[f]
    BY <1>2, <2>2 DEF Party
  <2> QED
    BY <2>1, <2>3
<1> QED
  BY <1>3, <1>4, <1>5

LEMMA StepSimulates ==
  ASSUME IInv, [EvidenceNext]_evidenceVars
  PROVE  [Promise!Next]_(Promise!parties)
<1>0. /\ current \in [Evidence -> EvidenceRecord]
      /\ \A e \in Evidence : Complete(current[e])
      /\ JournalStep /\ Owner \in Principals
      /\ None \notin Principals \cup States
  BY StepsOfNext, EvidenceAssumption DEF IInv, EvidenceTypeOK, EvidenceAssumption
<1> DEFINE Maps(e, p) ==
      \/ Promise!Produce(e, p) \/ Promise!Verify(e, p) \/ Promise!Authorize(e)
      \/ UNCHANGED <<Producer, Verifier, Authorizer>>
<1>1. CASE UNCHANGED <<current, events>>
  BY <1>1 DEF Promise!parties, Party
<1>2. ASSUME NEW e \in Evidence, NEW p \in Principals, Creates(e, p)
      PROVE  Maps(e, p)
  <2> DEFINE r == [NoRecord EXCEPT !.producer_id = p, !.state = "CANDIDATE"]
  <2>1. r \in EvidenceRecord /\ r.state = "CANDIDATE" /\ r.producer_id = p
    BY CreatesTyped DEF NoRecord
  <2>2. current' = [current EXCEPT ![e] = r] /\ current[e].state = None
    BY <1>2 DEF Creates, Record, Exists
  <2> HIDE DEF r
  <2>3. /\ Producer' = [Producer EXCEPT ![e] = p]
        /\ Verifier' = [Verifier EXCEPT ![e] = None]
        /\ Authorizer' = [Authorizer EXCEPT ![e] = None]
    BY <2>1, <2>2, PartiesOf DEF States
  <2>4. Producer[e] = None /\ Verifier[e] = None /\ Authorizer[e] = None
    BY <2>2, <1>0 DEF Producer, Verifier, Authorizer, Party, States
  <2>5. Verifier' = Verifier /\ Authorizer' = Authorizer
    BY <2>3, <2>4 DEF Verifier, Authorizer
  <2> QED
    BY <2>3, <2>4, <2>5 DEF Promise!Produce, Producer, Verifier, Authorizer
<1>3. ASSUME NEW e \in Evidence, NEW p \in Principals, NEW d \in Digests,
             Binds(e, d, p)
      PROVE  Maps(e, p)
  <2> PICK q \in EvidenceRecord : q = current[e]
    BY <1>0
  <2> DEFINE r == [q EXCEPT !.digest = d]
  <2>1. /\ r \in EvidenceRecord /\ r.state = q.state
        /\ r.producer_id = q.producer_id /\ r.verifier_id = q.verifier_id
        /\ r.authorizer_id = q.authorizer_id
    BY DEF EvidenceRecord
  <2>2. current' = [current EXCEPT ![e] = r]
    BY <1>3 DEF Binds, Record
  <2> HIDE DEF r
  <2>3. UNCHANGED <<Producer, Verifier, Authorizer>>
    BY <2>1, <2>2, PartiesOf DEF Producer, Verifier, Authorizer, Party
  <2> QED
    BY <2>3
<1>4. ASSUME NEW e \in Evidence, NEW p \in Principals, NEW ok \in BOOLEAN,
             Verifies(e, p, ok)
      PROVE  Maps(e, p)
  <2> PICK q \in EvidenceRecord : q = current[e]
    BY <1>0
  <2>1. /\ q.state = "CANDIDATE" /\ q.producer_id # p
        /\ q.producer_id \in Principals
    BY <1>0, <1>4 DEF Verifies, Verifiable, Complete, States
  <2> PICK r \in EvidenceRecord : r = Judged(e, p, ok)
    BY <1>4, VerifiesTyped
  <2>2. current' = [current EXCEPT ![e] = r]
    BY <1>4 DEF Verifies, Record
  <2>3. /\ r.state = (IF ok THEN "VERIFIED" ELSE "CANDIDATE")
        /\ r.producer_id = q.producer_id /\ r.verifier_id = p
    BY DEF Judged, EvidenceRecord
  <2>4. /\ Producer[e] = q.producer_id /\ Verifier[e] = None
        /\ Authorizer[e] = None
    BY <2>1 DEF Producer, Verifier, Authorizer, Party, States
  <2>5. /\ Producer' = [Producer EXCEPT ![e] = q.producer_id]
        /\ Verifier' = [Verifier EXCEPT ![e] = IF ok THEN p ELSE None]
        /\ Authorizer' = [Authorizer EXCEPT ![e] = None]
    BY <2>2, <2>3, PartiesOf DEF States
  <2>6. /\ Producer' = Producer /\ Authorizer' = Authorizer
        /\ ~ok => Verifier' = Verifier
    BY <2>4, <2>5 DEF Producer, Verifier, Authorizer
  <2> QED
    BY <2>1, <2>4, <2>5, <2>6, <1>0
       DEF Promise!Verify, Producer, Verifier, Authorizer
<1>5. ASSUME NEW e \in Evidence, NEW p \in Principals, NEW ok \in BOOLEAN,
             Authorizes(e, p, ok)
      PROVE  Maps(e, p)
  <2> PICK q \in EvidenceRecord : q = current[e]
    BY <1>0
  <2>1. /\ q.state = "VERIFIED" /\ p = Owner /\ q.producer_id # Owner
        /\ q.verifier_id \in Principals
    BY <1>0, <1>5 DEF Authorizes, Authorizable, Complete
  <2> PICK r \in EvidenceRecord : r = AuthorizedRecord(e, p, ok)
    BY <1>5, AuthorizesTyped
  <2>2. current' = [current EXCEPT ![e] = r]
    BY <1>5 DEF Authorizes, Record
  <2>3. /\ r.state = (IF ok THEN "AUTHORIZED" ELSE "VERIFIED")
        /\ r.producer_id = q.producer_id /\ r.verifier_id = q.verifier_id
        /\ r.authorizer_id = p
    BY DEF AuthorizedRecord, EvidenceRecord
  <2>4. /\ Producer[e] = q.producer_id /\ Verifier[e] = q.verifier_id
        /\ Authorizer[e] = None
    BY <2>1 DEF Producer, Verifier, Authorizer, Party, States
  <2>5. /\ Producer' = [Producer EXCEPT ![e] = q.producer_id]
        /\ Verifier' = [Verifier EXCEPT ![e] = q.verifier_id]
        /\ Authorizer' = [Authorizer EXCEPT ![e] = IF ok THEN p ELSE None]
    <3>1. /\ r.state \in States /\ r.state \in {"VERIFIED", "AUTHORIZED"}
          /\ r.state \in {"AUTHORIZED"} <=> ok
      BY <2>3 DEF States
    <3>2. /\ Producer' = [Producer EXCEPT ![e] = r.producer_id]
          /\ Verifier' = [Verifier EXCEPT ![e] = r.verifier_id]
      BY <2>2, <3>1, PartiesOf
    <3>3. Authorizer' = [Authorizer EXCEPT ![e] =
                           IF r.state \in {"AUTHORIZED"}
                             THEN r.authorizer_id ELSE None]
      BY <2>2, PartiesOf
    <3>4. (IF r.state \in {"AUTHORIZED"} THEN r.authorizer_id ELSE None)
            = IF ok THEN p ELSE None
      BY <2>3, <3>1
    <3> QED
      BY <2>3, <3>2, <3>3, <3>4
  <2>6. /\ Producer' = Producer /\ Verifier' = Verifier
        /\ ~ok => Authorizer' = Authorizer
    BY <2>4, <2>5 DEF Producer, Verifier, Authorizer
  <2> QED
    BY <2>1, <2>4, <2>5, <2>6, <1>0
       DEF Promise!Authorize, Producer, Verifier, Authorizer
<1>6. ASSUME NEW e \in Evidence, NEW p \in Principals, Maps(e, p)
      PROVE  [Promise!Next]_(Promise!parties)
  BY <1>6 DEF Promise!Next, Promise!parties, Producer, Verifier, Authorizer
<1> HIDE DEF Maps
<1> QED
  BY <1>0, <1>1, <1>2, <1>3, <1>4, <1>5, <1>6 DEF JournalStep

\* Producer, verifier and authority of a piece of evidence are kept apart.
THEOREM ProducersAreSeparated == EvidenceSpec => SeparatesProducers
<1>1. EvidenceInit => Promise!Init
  BY EvidenceAssumption
     DEF EvidenceInit, Promise!Init, Party, NoRecord, States, EvidenceAssumption
<1>2. IInv /\ [EvidenceNext]_evidenceVars => [Promise!Next]_(Promise!parties)
  BY StepSimulates
<1> QED
  BY <1>1, <1>2, Invariance, PTL DEF EvidenceSpec, SeparatesProducers, Promise!Spec

=============================================================================
