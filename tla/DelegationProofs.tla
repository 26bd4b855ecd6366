-------------------------- MODULE DelegationProofs --------------------------
(***************************************************************************)
(* Theorems about Delegation, for any number of threads, contexts and      *)
(* capabilities.  The invariant carries, with every answer that a check    *)
(* gave, what the check knew when it gave it: contexts are never changed,  *)
(* so it stays true while the clock, the registry and the bound context    *)
(* move on.                                                                *)
(***************************************************************************)
EXTENDS Delegation, WellFoundedInduction, TLAPS

LEMMA RankIsNat == \A risk : Rank(risk) \in 0..2
  BY DEF Rank

\* A nonempty set of naturals has a first member.
LEMMA FirstIsIn ==
  ASSUME NEW S \in SUBSET Nat, S # {}
  PROVE  First(S) \in S
<1> DEFINE R == {z \in Nat \X Nat : z[1] < z[2]}
<1>1. IsWellFoundedOn(R, Nat)
  BY NatLessThanWellFounded DEF OpToRel
<1>2. PICK i \in S : \A j \in S : ~(<<j, i>> \in R)
  <2> HIDE DEF R
  <2> QED
    BY <1>1, WFMin
<1>3. ASSUME NEW j \in S PROVE i <= j
  <2>1. j \in Nat /\ i \in Nat /\ ~(<<j, i>> \in R)
    BY <1>2
  <2>2. ~(j < i)
    BY <2>1
  <2> QED
    BY <2>1, <2>2
<1> QED
  BY <1>3 DEF First

\* The copy that decides is one of those that were read, and no answer that
\* is better than its own was given.
LEMMA BestIsIn ==
  ASSUME NEW answers, DOMAIN answers \in SUBSET Nat, DOMAIN answers # {},
         \A i \in DOMAIN answers : answers[i].decision \in Decisions
  PROVE  LET given == {answers[i].decision : i \in DOMAIN answers}
             d == answers[Best(answers)].decision
         IN  /\ Best(answers) \in DOMAIN answers
             /\ d = "DENY" => given = {"DENY"}
             /\ d = "OWNER_MANDATORY" => "ALLOW" \notin given
<1> DEFINE read == DOMAIN answers
           later == read \ {First(read)}
           Saying(d) == {i \in later : answers[i].decision = d}
<1>1. First(read) \in read
  BY FirstIsIn
<1>2. ASSUME NEW d, Saying(d) # {}
      PROVE  First(Saying(d)) \in Saying(d)
  BY <1>2, FirstIsIn
<1>3. CASE Saying("ALLOW") # {}
  <2>1. Best(answers) = First(Saying("ALLOW"))
    BY <1>3 DEF Best
  <2> QED
    BY <1>2, <1>3, <2>1
<1>4. CASE /\ Saying("ALLOW") = {}
           /\ answers[First(read)].decision = "DENY"
           /\ Saying("OWNER_MANDATORY") # {}
  <2>1. Best(answers) = First(Saying("OWNER_MANDATORY"))
    BY <1>4 DEF Best
  <2>2. Best(answers) \in Saying("OWNER_MANDATORY")
    BY <1>2, <1>4, <2>1
  <2>3. \A i \in read : answers[i].decision # "ALLOW"
    BY <1>4
  <2> QED
    BY <2>2, <2>3
<1>5. CASE /\ Saying("ALLOW") = {}
           /\ ~(/\ answers[First(read)].decision = "DENY"
                /\ Saying("OWNER_MANDATORY") # {})
  <2>1. Best(answers) = First(read)
    BY <1>5 DEF Best
  <2>2. ASSUME answers[First(read)].decision # "ALLOW"
        PROVE  \A i \in read : answers[i].decision # "ALLOW"
    BY <1>5, <2>2
  <2>3. ASSUME answers[First(read)].decision = "DENY"
        PROVE  \A i \in read : answers[i].decision = "DENY"
    BY <1>5, <2>2, <2>3 DEF Decisions
  <2> QED
    BY <1>1, <2>1, <2>2, <2>3
<1> QED
  BY <1>3, <1>4, <1>5

-----------------------------------------------------------------------------
\* The invariant

\* What the answer ALLOW for the copy i took.
Granted(e, i) ==
  /\ ~e.copies[i]
  /\ e.at < Held[i].expires
  /\ Rank(e.request.risk) <= Rank(Held[i].ceiling)
  /\ OwnerMandatory(e.request) => e.skip
  /\ required =>
       LET m == contexts[e.under].mandate
       IN  /\ e.under # 0
           /\ Readable(m)
           /\ e.request.action \in ActionTypes(m.scope)
           /\ Rank(e.request.risk) <= Rank(EffectiveCeiling(i, m))
           /\ e.answers[i].frame.mandate = m
           /\ e.answers[i].frame.ceiling = EffectiveCeiling(i, m)
           /\ e.answers[i].frame # NoFrame

\* A frame is that of the context c.
FrameOf(frame, c) ==
  frame # NoFrame =>
    /\ c # 0
    /\ frame.provenance = contexts[c].provenance
    /\ frame.mandate \in {NoMandate, contexts[c].mandate}

CopiesFit(e) ==
  /\ DOMAIN e.copies \subseteq HeldBy(e.request.principal)
  /\ DOMAIN e.copies # {}

AnswersFit(e) ==
  /\ DOMAIN e.answers = DOMAIN e.copies
  /\ \A i \in DOMAIN e.answers :
       /\ FrameOf(e.answers[i].frame, e.under)
       /\ e.answers[i].decision = "ALLOW" => Granted(e, i)
  /\ LET given == {e.answers[i].decision : i \in DOMAIN e.answers}
     IN  /\ Decision(e) = "DENY" => given = {"DENY"}
         /\ Decision(e) = "OWNER_MANDATORY" => "ALLOW" \notin given

RecordFits(e) ==
  /\ FrameOf(e.frame, e.under)
  /\ e.decision = "ALLOW" /\ required =>
       /\ e.frame # NoFrame
       /\ Readable(e.frame.mandate)
       /\ e.frame.ceiling # "none"
       /\ e.request.action \in ActionTypes(e.frame.mandate.scope)
       /\ Rank(e.request.risk) <= Rank(e.frame.ceiling)

EvaluationFits(e) ==
  /\ IsEvaluation(e)
  /\ e.step # "recorded" => CopiesFit(e)
  /\ e.step = "checked" => AnswersFit(e)
  /\ e.step = "recorded" => RecordFits(e)

AboveAreContexts == \A c \in Contexts : contexts[c].above \subseteq Contexts

LineageInv ==
  /\ DelegationTypeOK
  /\ AboveAreContexts
  /\ NarrowsDownTheLineage
  /\ \A t \in Callers : evaluation[t] # <<>> => EvaluationFits(evaluation[t])

LEMMA ContextsInitially == DelegationInit => LineageInv
  BY DelegationAssumption
     DEF DelegationInit, LineageInv, DelegationTypeOK, AboveAreContexts,
         NarrowsDownTheLineage, Contexts, DelegationAssumption

\* What holds of an evaluation holds when there are more contexts.
LEMMA ContextsGrow ==
  ASSUME LineageInv, required' = required,
         \A c \in Contexts : c \in Contexts' /\ contexts'[c] = contexts[c],
         NEW e, EvaluationFits(e)
  PROVE  EvaluationFits(e)'
<1>1. e.step # "read" => e.under \in Bindable /\ e.under \in Bindable'
  BY DEF EvaluationFits, IsEvaluation, Bindable
<1>2. e.step # "read" /\ e.under # 0 => contexts'[e.under] = contexts[e.under]
  BY <1>1 DEF Bindable
<1>3. IsEvaluation(e)'
  BY <1>1 DEF EvaluationFits, IsEvaluation
<1>4. e.step = "checked" => AnswersFit(e)'
  BY <1>2 DEF EvaluationFits, AnswersFit, FrameOf, Granted, Decision
<1>5. e.step = "recorded" => RecordFits(e)'
  BY <1>2 DEF EvaluationFits, RecordFits, FrameOf
<1> QED
  BY <1>3, <1>4, <1>5 DEF EvaluationFits, CopiesFit

-----------------------------------------------------------------------------
\* The contexts

LEMMA MandatesOffered ==
  ASSUME DelegationTypeOK, NEW c \in Contexts
  PROVE  /\ contexts[c].mandate \in Offered
         /\ contexts[c].provenance \in Provenances
<1> DEFINE C == [parent: 0..MaxContexts, above: SUBSET (1..MaxContexts),
                 mandate: Offered, provenance: Provenances]
<1>1. contexts \in Seq(C)
  BY DEF DelegationTypeOK
<1>2. contexts[c] \in C
  <2> HIDE DEF C
  <2> QED
    BY <1>1 DEF Contexts
<1> QED
  BY <1>2

\* The mandate of a subagent is one that was offered, and where it and the
\* parent's can be read, it is within the parent's.
LEMMA InheritedIsWithin ==
  ASSUME NEW parent \in Offered, NEW offered \in Offered
  PROVE  LET m == Inherited(parent, offered)
         IN  /\ m \in Offered
             /\ Readable(m) /\ Readable(parent) => Within(m, parent)
<1>1. Within(parent, parent)
  BY RankIsNat DEF Within
<1> QED
  BY <1>1 DEF Inherited, IsSubsetOf, Within

LEMMA CreateKeeps ==
  ASSUME LineageInv, NEW p \in 0..Len(contexts), NEW m \in Offered,
         NEW provenance \in Provenances, Create(p, m, provenance),
         p # 0 /\ Readable(m) /\ Readable(contexts[p].mandate) =>
           Within(m, contexts[p].mandate)
  PROVE  LineageInv'
<1> DEFINE made == [parent |-> p, above |-> Above(p),
                    mandate |-> m, provenance |-> provenance]
           n == Len(contexts) + 1
           C == [parent: 0..MaxContexts, above: SUBSET (1..MaxContexts),
                 mandate: Offered, provenance: Provenances]
<1>1. contexts \in Seq(C) /\ Len(contexts) \in Nat /\ n <= MaxContexts
      /\ MaxContexts \in Nat
  BY DelegationAssumption
     DEF LineageInv, DelegationTypeOK, Create, DelegationAssumption
<1>2. Above(p) \subseteq Contexts /\ Contexts \subseteq 1..MaxContexts
  BY <1>1 DEF LineageInv, AboveAreContexts, Above, Contexts
<1>3. made \in C
  <2>1. p \in 0..MaxContexts
    BY <1>1
  <2>2. Above(p) \in SUBSET (1..MaxContexts)
    BY <1>2
  <2> QED
    BY <2>1, <2>2
<1>4. /\ contexts' \in Seq(C) /\ Len(contexts') = n /\ contexts'[n] = made
      /\ Contexts' = Contexts \cup {n}
      /\ \A c \in Contexts : c \in Contexts' /\ contexts'[c] = contexts[c]
  BY <1>1, <1>3 DEF Create, Contexts
<1>5. ASSUME NEW t \in Callers, evaluation'[t] # <<>>
      PROVE  EvaluationFits(evaluation[t])'
  <2>1. EvaluationFits(evaluation[t])
    BY <1>5 DEF LineageInv, Create
  <2> QED
    BY <1>4, <2>1, ContextsGrow DEF Create
<1>6. DelegationTypeOK'
  BY <1>1, <1>4, <1>5
     DEF LineageInv, DelegationTypeOK, Create, EvaluationFits
<1>7. AboveAreContexts'
  <2>1. ASSUME NEW c \in Contexts
        PROVE  contexts'[c].above \subseteq Contexts'
    BY <1>4 DEF LineageInv, AboveAreContexts
  <2>2. contexts'[n].above \subseteq Contexts'
    BY <1>2, <1>4
  <2>3. Contexts' = Contexts \cup {n}
    BY <1>4
  <2> HIDE DEF made, n, C
  <2> QED
    BY <2>1, <2>2, <2>3 DEF AboveAreContexts
<1>8. NarrowsDownTheLineage'
  <2> SUFFICES ASSUME NEW c \in Contexts', ReadableLineage(c)',
                      NEW a \in contexts'[c].above
               PROVE  Within(contexts'[c].mandate, contexts'[a].mandate)
    BY DEF NarrowsDownTheLineage, Within
  <2>1. CASE c \in Contexts
    <3>1. contexts'[c] = contexts[c] /\ contexts[c].above \subseteq Contexts
      BY <1>4, <2>1 DEF LineageInv, AboveAreContexts
    <3>2. ReadableLineage(c)
      BY <1>4, <2>1, <3>1 DEF ReadableLineage, Readable
    <3> QED
      BY <1>4, <2>1, <3>1, <3>2 DEF LineageInv, NarrowsDownTheLineage
  <2>2. CASE c = n
    <3>1. contexts'[c] = made /\ a \in Above(p) /\ a \in Contexts
      BY <1>2, <1>4, <2>2
    <3>2. p # 0 /\ p \in Contexts /\ Above(p) = contexts[p].above \cup {p}
      BY <1>1, <3>1 DEF Above, Contexts
    <3>3. \A b \in contexts[p].above \cup {p} : Readable(contexts[b].mandate)
      <4>1. ASSUME NEW b \in contexts[p].above \cup {p}
            PROVE  Readable(contexts[b].mandate)
        <5>1. b \in Contexts /\ b \in contexts'[c].above
          BY <1>2, <3>1, <3>2
        <5> QED
          BY <1>4, <5>1 DEF ReadableLineage, Readable
      <4> QED
        BY <4>1
    <3>4. Readable(m)
      BY <3>1 DEF ReadableLineage, Readable
    <3>5. Within(m, contexts[p].mandate)
      BY <3>2, <3>3, <3>4
    <3>6. a # p => Within(contexts[p].mandate, contexts[a].mandate)
      BY <3>1, <3>2, <3>3 DEF LineageInv, NarrowsDownTheLineage, ReadableLineage
    <3>7. Within(m, contexts[a].mandate)
      BY <3>5, <3>6, RankIsNat DEF Within
    <3> QED
      BY <1>4, <3>1, <3>7
  <2> QED
    BY <1>4, <2>1, <2>2
<1> QED
  BY <1>5, <1>6, <1>7, <1>8 DEF LineageInv

LEMMA BeginKeeps ==
  ASSUME LineageInv, NEW m \in Offered, Begin(m) \/ PropagateForCron(m)
  PROVE  LineageInv'
<1>1. 0 \in 0..Len(contexts)
  BY DEF LineageInv, DelegationTypeOK
<1> QED
  BY <1>1, CreateKeeps DEF Begin, PropagateForCron, Provenances

LEMMA PropagateForSubagentKeeps ==
  ASSUME LineageInv, NEW p \in 0..Len(contexts), NEW m \in Offered,
         PropagateForSubagent(p, m)
  PROVE  LineageInv'
<1> DEFINE own == IF p = 0 THEN m ELSE Inherited(contexts[p].mandate, m)
<1>1. CASE p = 0
  BY <1>1, CreateKeeps DEF PropagateForSubagent, Provenances
<1>2. CASE p # 0
  <2>1. contexts[p].mandate \in Offered
    <3>1. p \in 1..Len(contexts) /\ Len(contexts) \in Nat
      BY <1>2 DEF LineageInv, DelegationTypeOK
    <3> QED
      BY <3>1, MandatesOffered DEF LineageInv, Contexts
  <2>2. own \in Offered
        /\ (Readable(own) /\ Readable(contexts[p].mandate) =>
              Within(own, contexts[p].mandate))
    BY <1>2, <2>1, InheritedIsWithin
  <2> QED
    BY <1>2, <2>2, CreateKeeps DEF PropagateForSubagent, Provenances
<1> QED
  BY <1>1, <1>2

\* The clock and the registry move; what the checks have seen does not.
LEMMA OutsideKeeps ==
  ASSUME LineageInv, Elapse \/ \E i \in DOMAIN Held : RevokeHeld(i)
  PROVE  LineageInv'
<1>1. UNCHANGED <<required, contexts, evaluation>>
  BY DEF Elapse, RevokeHeld
<1>2. ASSUME NEW t \in Callers, evaluation'[t] # <<>>
      PROVE  EvaluationFits(evaluation[t])'
  <2>1. EvaluationFits(evaluation[t])
    BY <1>1, <1>2 DEF LineageInv
  <2> QED
    BY <1>1, <2>1, ContextsGrow DEF Contexts
<1>3. time' \in 0..MaxTime /\ revoked' \in SUBSET DOMAIN Held
  BY DelegationAssumption
     DEF LineageInv, DelegationTypeOK, Elapse, RevokeHeld, DelegationAssumption
<1>4. DelegationTypeOK'
  BY <1>1, <1>2, <1>3 DEF LineageInv, DelegationTypeOK, EvaluationFits
<1> QED
  BY <1>1, <1>2, <1>4
     DEF LineageInv, AboveAreContexts, NarrowsDownTheLineage, ReadableLineage,
         Contexts, Within, Readable

-----------------------------------------------------------------------------
\* The evaluations

LEMMA EvaluationKeeps ==
  ASSUME LineageInv, UNCHANGED <<time, required, contexts, revoked>>,
         NEW t \in Callers, NEW e, e # <<>> => EvaluationFits(e),
         evaluation' = [evaluation EXCEPT ![t] = e]
  PROVE  LineageInv'
<1>1. DOMAIN evaluation = Callers /\ DOMAIN evaluation' = Callers
  BY DEF LineageInv, DelegationTypeOK
<1>2. ASSUME NEW u \in Callers, evaluation'[u] # <<>>
      PROVE  EvaluationFits(evaluation[u])'
  <2>1. EvaluationFits(evaluation'[u])
    BY <1>1, <1>2 DEF LineageInv
  <2> QED
    BY <2>1, ContextsGrow DEF Contexts
<1>3. DelegationTypeOK'
  BY <1>1, <1>2 DEF LineageInv, DelegationTypeOK, EvaluationFits
<1> QED
  BY <1>2, <1>3
     DEF LineageInv, AboveAreContexts, NarrowsDownTheLineage, ReadableLineage,
         Contexts, Within, Readable

LEMMA EvaluateKeeps ==
  ASSUME LineageInv, NEW t \in Callers, NEW r \in Requests, NEW skip \in BOOLEAN,
         NEW copies, DOMAIN copies \subseteq HeldBy(r.principal),
         DOMAIN copies # {}, \A i \in DOMAIN copies : copies[i] \in BOOLEAN,
         Evaluate(t, r, skip, copies)
  PROVE  LineageInv'
<1> DEFINE e == [step |-> "read", request |-> r, skip |-> skip, copies |-> copies]
<1>1. EvaluationFits(e)
  BY DEF EvaluationFits, IsEvaluation, PerCopy, CopiesFit, HeldBy
<1> QED
  BY <1>1, EvaluationKeeps DEF Evaluate

LEMMA ReadCapabilitiesKeeps ==
  ASSUME LineageInv, NEW t \in Callers, NEW r \in Requests, ReadCapabilities(t, r)
  PROVE  LineageInv'
<1> DEFINE copies == Copies(r.principal)
           read == IF Active(r.principal) # {}
                   THEN Active(r.principal) ELSE HeldBy(r.principal)
<1>1. /\ HeldBy(r.principal) # {}
      /\ DOMAIN copies = read
      /\ \A i \in DOMAIN copies : copies[i] \in BOOLEAN
  <2>1. copies = [i \in read |-> i \in revoked]
    BY DEF Copies
  <2> HIDE DEF copies, read
  <2> QED
    BY <2>1 DEF ReadCapabilities
<1>2. DOMAIN copies \subseteq HeldBy(r.principal) /\ DOMAIN copies # {}
  BY <1>1 DEF Active
<1>3. Evaluate(t, r, FALSE, copies)
  BY DEF ReadCapabilities
<1> HIDE DEF copies
<1> QED
  BY <1>1, <1>2, <1>3, EvaluateKeeps

LEMMA ReadGrantedKeeps ==
  ASSUME LineageInv, NEW t \in Callers, NEW r \in Requests, NEW i \in DOMAIN Held,
         NEW skip \in BOOLEAN, ReadGranted(t, r, i, skip)
  PROVE  LineageInv'
<1> DEFINE copies == [j \in {i} |-> j \in revoked]
<1>1. /\ DOMAIN copies \subseteq HeldBy(r.principal)
      /\ DOMAIN copies # {}
      /\ \A j \in DOMAIN copies : copies[j] \in BOOLEAN
  BY DEF ReadGranted
<1>2. Evaluate(t, r, skip, copies)
  BY DEF ReadGranted
<1> HIDE DEF copies
<1> QED
  BY <1>1, <1>2, EvaluateKeeps

LEMMA CeilingIsALevel ==
  ASSUME NEW i \in DOMAIN Held, NEW m
  PROVE  /\ EffectiveCeiling(i, m) \in RiskLevel
         /\ Rank(EffectiveCeiling(i, m)) <= Rank(RiskCeiling(m.scope))
<1>1. Held[i].ceiling \in RiskLevel /\ RiskCeiling(m.scope) \in RiskLevel
  BY DelegationAssumption DEF DelegationAssumption, RiskCeiling, RiskLevel
<1> QED
  BY <1>1, RankIsNat DEF EffectiveCeiling, Lower

\* What check_capability answers.
LEMMA CheckAnswers ==
  ASSUME DelegationTypeOK, NEW i \in DOMAIN Held, NEW gone \in BOOLEAN,
         NEW r \in Requests, NEW skip \in BOOLEAN, NEW c \in Bindable
  PROVE  LET answer == CheckCapability(i, gone, r, skip, c)
             m == contexts[c].mandate
         IN  /\ answer \in [decision: Decisions, frame: Frames]
             /\ FrameOf(answer.frame, c)
             /\ answer.decision = "ALLOW" =>
                  /\ ~gone
                  /\ time < Held[i].expires
                  /\ Rank(r.risk) <= Rank(Held[i].ceiling)
                  /\ OwnerMandatory(r) => skip
                  /\ required =>
                       /\ c # 0
                       /\ Readable(m)
                       /\ r.action \in ActionTypes(m.scope)
                       /\ Rank(r.risk) <= Rank(EffectiveCeiling(i, m))
                       /\ answer.frame.mandate = m
                       /\ answer.frame.ceiling = EffectiveCeiling(i, m)
                       /\ answer.frame # NoFrame
<1> DEFINE answer == CheckCapability(i, gone, r, skip, c)
           live == ~(required /\ c = 0) /\ Live(i, gone)
           reserved == OwnerMandatory(r) /\ ~skip
           covered == live /\ ~reserved /\ InScope(i, r)
           allowed == covered /\ (required => MandateAllows(i, r, MandateOf(c)))
<1>1. /\ answer.decision \in Decisions
      /\ answer.decision = "ALLOW" => allowed
      /\ answer.frame = IF required /\ covered THEN Frame(i, r, c) ELSE NoFrame
      /\ answer = [decision |-> answer.decision, frame |-> answer.frame]
  BY DEF CheckCapability, Decisions
<1>2. ASSUME required, covered
      PROVE  /\ c # 0 /\ c \in Contexts /\ MandateOf(c) = contexts[c].mandate
             /\ contexts[c].mandate \in Offered
             /\ contexts[c].provenance \in Provenances
  <2>1. c # 0 /\ c \in Contexts
    BY <1>2 DEF Bindable
  <2> QED
    BY <2>1, MandatesOffered DEF MandateOf
<1>3. ASSUME required, covered
      PROVE  /\ Frame(i, r, c) \in Frames
             /\ FrameOf(Frame(i, r, c), c)
  BY <1>2, <1>3, CeilingIsALevel DEF Frame, Frames, FrameOf
<1>4. answer.frame \in Frames /\ FrameOf(answer.frame, c)
  BY <1>1, <1>3 DEF Frames, FrameOf
<1>5. ASSUME allowed
      PROVE  /\ ~gone
             /\ time < Held[i].expires
             /\ Rank(r.risk) <= Rank(Held[i].ceiling)
             /\ OwnerMandatory(r) => skip
  <2>1. time \in Nat /\ Held[i].expires \in Nat
    BY DelegationAssumption DEF DelegationTypeOK, DelegationAssumption
  <2> QED
    BY <1>5, <2>1 DEF Live, Expired, InScope
<1>6. ASSUME allowed, required
      PROVE  LET m == contexts[c].mandate
             IN  /\ c # 0
                 /\ MandateAllows(i, r, m)
                 /\ Frame(i, r, c).mandate = m
                 /\ Frame(i, r, c).ceiling = EffectiveCeiling(i, m)
                 /\ Frame(i, r, c) # NoFrame
  BY <1>2, <1>6 DEF Frame, MandateAllows, NoFrame
<1> QED
  BY <1>1, <1>4, <1>5, <1>6 DEF MandateAllows

LEMMA CheckKeeps ==
  ASSUME LineageInv, NEW t \in Callers, NEW c \in Bindable, Check(t, c)
  PROVE  LineageInv'
<1> DEFINE e == evaluation[t]
           answers == [i \in DOMAIN e.copies |->
                         CheckCapability(i, e.copies[i], e.request, e.skip, c)]
           checked == [step |-> "checked", request |-> e.request, skip |-> e.skip,
                       copies |-> e.copies, answers |-> answers,
                       by |-> Best(answers), under |-> c, at |-> time]
<1>1. /\ e # <<>> /\ e.step = "read" /\ CopiesFit(e)
      /\ e.request \in Requests /\ e.skip \in BOOLEAN
      /\ PerCopy(e.copies, BOOLEAN)
  BY DEF LineageInv, Check, EvaluationFits, IsEvaluation
<1>2. \A i \in DOMAIN e.copies : i \in DOMAIN Held /\ e.copies[i] \in BOOLEAN
  BY <1>1 DEF PerCopy
<1>3. ASSUME NEW i \in DOMAIN answers
      PROVE  /\ answers[i] \in [decision: Decisions, frame: Frames]
             /\ FrameOf(answers[i].frame, c)
             /\ answers[i].decision = "ALLOW" => Granted(checked, i)
  <2>1. answers[i] = CheckCapability(i, e.copies[i], e.request, e.skip, c)
    OBVIOUS
  <2>2. DelegationTypeOK /\ i \in DOMAIN Held /\ e.copies[i] \in BOOLEAN
    BY <1>2 DEF LineageInv
  <2>3. /\ checked.copies = e.copies /\ checked.at = time
        /\ checked.request = e.request /\ checked.skip = e.skip
        /\ checked.under = c /\ checked.answers[i] = answers[i]
    OBVIOUS
  <2> HIDE DEF e, answers, checked
  <2> QED
    BY <1>1, <2>1, <2>2, <2>3, CheckAnswers DEF Granted
<1>4. DOMAIN answers = DOMAIN e.copies /\ DOMAIN answers # {}
      /\ DOMAIN answers \in SUBSET Nat
  BY <1>1, <1>2, DelegationAssumption DEF CopiesFit, DelegationAssumption
<1>5. LET given == {answers[i].decision : i \in DOMAIN answers}
          d == answers[Best(answers)].decision
      IN  /\ Best(answers) \in DOMAIN answers
          /\ d = "DENY" => given = {"DENY"}
          /\ d = "OWNER_MANDATORY" => "ALLOW" \notin given
  <2>1. \A i \in DOMAIN answers : answers[i].decision \in Decisions
    BY <1>3
  <2> HIDE DEF answers
  <2> QED
    BY <1>4, <2>1, BestIsIn
<1>6. AnswersFit(checked)
  <2>1. /\ checked.copies = e.copies /\ checked.answers = answers
        /\ checked.under = c /\ checked.by = Best(answers)
    OBVIOUS
  <2> HIDE DEF checked, answers
  <2> QED
    BY <1>3, <1>4, <1>5, <2>1 DEF AnswersFit, Decision
<1>7. IsEvaluation(checked)
  <2>1. PerCopy(answers, [decision: Decisions, frame: Frames])
    BY <1>2, <1>3, <1>4 DEF PerCopy
  <2>2. Best(answers) \in DOMAIN answers /\ time \in 0..MaxTime
    BY <1>5 DEF LineageInv, DelegationTypeOK
  <2> HIDE DEF e, answers
  <2> QED
    BY <1>1, <2>1, <2>2 DEF IsEvaluation
<1>8. EvaluationFits(checked)
  <2>1. checked.step = "checked" /\ checked.copies = e.copies
        /\ checked.request = e.request
    OBVIOUS
  <2> HIDE DEF checked
  <2> QED
    BY <1>1, <1>6, <1>7, <2>1 DEF EvaluationFits, CopiesFit
<1>9. evaluation' = [evaluation EXCEPT ![t] = checked]
      /\ UNCHANGED <<time, required, contexts, revoked>>
  BY DEF Check
<1> HIDE DEF checked
<1> QED
  BY <1>8, <1>9, EvaluationKeeps

LEMMA RecordKeeps ==
  ASSUME LineageInv, NEW t \in Callers, NEW c \in Bindable, Record(t, c)
  PROVE  LineageInv'
<1> DEFINE e == evaluation[t]
           answer == e.answers[e.by]
           recorded == [step |-> "recorded", request |-> e.request,
                        under |-> e.under, decision |-> answer.decision,
                        frame |-> answer.frame]
<1>1. /\ e # <<>> /\ e.step = "checked" /\ AnswersFit(e) /\ IsEvaluation(e)
  BY DEF LineageInv, Record, EvaluationFits
<1>2. /\ e.by \in DOMAIN e.answers /\ e.by \in DOMAIN Held
      /\ answer \in [decision: Decisions, frame: Frames]
      /\ e.request \in Requests /\ e.under \in Bindable
  BY <1>1 DEF IsEvaluation, PerCopy
<1>3. IsEvaluation(recorded)
  BY <1>2 DEF IsEvaluation
<1>4. FrameOf(answer.frame, e.under)
      /\ (answer.decision = "ALLOW" => Granted(e, e.by))
  BY <1>1, <1>2 DEF AnswersFit
<1>5. RecordFits(recorded)
  <2>1. EffectiveCeiling(e.by, contexts[e.under].mandate) # "none"
    BY <1>2, CeilingIsALevel DEF RiskLevel
  <2> QED
    BY <1>4, <2>1 DEF RecordFits, Granted
<1>6. EvaluationFits(recorded)
  BY <1>3, <1>5 DEF EvaluationFits
<1>7. evaluation' = [evaluation EXCEPT ![t] = recorded]
      /\ UNCHANGED <<time, required, contexts, revoked>>
  BY DEF Record, FrameWritten
<1> HIDE DEF recorded
<1> QED
  BY <1>6, <1>7, EvaluationKeeps

LEMMA ReturnKeeps ==
  ASSUME LineageInv, NEW t \in Callers, Return(t)
  PROVE  LineageInv'
  BY EvaluationKeeps DEF Return

LEMMA DelegationNextKeeps ==
  ASSUME LineageInv, [DelegationNext]_delegationVars
  PROVE  LineageInv'
<1>1. CASE UNCHANGED delegationVars
  <2>1. ASSUME NEW t \in Callers, evaluation'[t] # <<>>
        PROVE  EvaluationFits(evaluation[t])'
    <3>1. EvaluationFits(evaluation[t])
      BY <1>1, <2>1 DEF LineageInv, delegationVars
    <3> QED
      BY <1>1, <3>1, ContextsGrow DEF delegationVars, Contexts
  <2>2. DelegationTypeOK'
    BY <1>1, <2>1 DEF LineageInv, DelegationTypeOK, delegationVars,
                      EvaluationFits
  <2> QED
    BY <1>1, <2>1, <2>2
       DEF LineageInv, AboveAreContexts, NarrowsDownTheLineage, ReadableLineage,
           Contexts, Within, Readable, delegationVars
<1> QED
  BY <1>1, BeginKeeps, PropagateForSubagentKeeps, OutsideKeeps,
     ReadCapabilitiesKeeps, ReadGrantedKeeps, CheckKeeps, RecordKeeps,
     ReturnKeeps
     DEF DelegationNext

LEMMA DelegationInvariance == DelegationSpec => []LineageInv
<1>1. LineageInv /\ [DelegationNext]_delegationVars => LineageInv'
  BY DelegationNextKeeps
<1> QED
  BY ContextsInitially, <1>1, PTL DEF DelegationSpec

-----------------------------------------------------------------------------

\* The variables hold values of their types.
THEOREM DelegationTyping == DelegationSpec => []DelegationTypeOK
<1>1. LineageInv => DelegationTypeOK
  BY DEF LineageInv
<1> QED
  BY DelegationInvariance, <1>1, PTL

\* Where all mandates can be read, no subagent reaches further than any
\* context it was delegated from, at any remove.
THEOREM DelegationNarrows == DelegationSpec => []NarrowsDownTheLineage
<1>1. LineageInv => NarrowsDownTheLineage
  BY DEF LineageInv
<1> QED
  BY DelegationInvariance, <1>1, PTL

\* With contexts required, what is allowed is within every mandate above.
THEOREM AllowedWithinTheLineage == DelegationSpec => []AllowedByTheLineage
<1>1. ASSUME LineageInv, NEW t \in Callers, Decided(t),
             Decision(evaluation[t]) = "ALLOW", required
      PROVE  LET e == evaluation[t]
             IN  /\ e.under # 0
                 /\ Rank(e.request.risk) <= Rank(Held[e.by].ceiling)
                 /\ ReadableLineage(e.under) =>
                      \A a \in contexts[e.under].above \cup {e.under} :
                        /\ e.request.action \in ActionTypes(contexts[a].mandate.scope)
                        /\ Rank(e.request.risk)
                             <= Rank(RiskCeiling(contexts[a].mandate.scope))
  <2> DEFINE e == evaluation[t]
             m == contexts[e.under].mandate
  <2>1. AnswersFit(e) /\ IsEvaluation(e) /\ e.step = "checked"
    BY <1>1 DEF LineageInv, Decided, EvaluationFits
  <2>2. Granted(e, e.by) /\ e.by \in DOMAIN Held /\ e.under \in Bindable
    BY <1>1, <2>1 DEF AnswersFit, Decision, IsEvaluation, PerCopy
  <2>3. /\ e.under # 0 /\ e.under \in Contexts
        /\ Rank(e.request.risk) <= Rank(Held[e.by].ceiling)
        /\ e.request.action \in ActionTypes(m.scope)
        /\ Rank(e.request.risk) <= Rank(EffectiveCeiling(e.by, m))
    BY <1>1, <2>2 DEF Granted, Bindable
  <2>4. Rank(e.request.risk) <= Rank(RiskCeiling(m.scope))
    BY <2>2, <2>3, CeilingIsALevel, RankIsNat
  <2>5. ASSUME ReadableLineage(e.under), NEW a \in contexts[e.under].above
        PROVE  Within(m, contexts[a].mandate)
    BY <1>1, <2>3, <2>5 DEF LineageInv, NarrowsDownTheLineage
  <2> HIDE DEF e, m
  <2>6. ASSUME ReadableLineage(e.under), NEW a \in contexts[e.under].above
        PROVE  /\ e.request.action \in ActionTypes(contexts[a].mandate.scope)
               /\ Rank(e.request.risk)
                    <= Rank(RiskCeiling(contexts[a].mandate.scope))
    BY <2>3, <2>4, <2>5, <2>6, RankIsNat DEF Within
  <2> QED
    BY <2>3, <2>4, <2>6 DEF e, m
<1>2. LineageInv => AllowedByTheLineage
  BY <1>1 DEF AllowedByTheLineage
<1> QED
  BY DelegationInvariance, <1>2, PTL

\* The capability that allows was live when it was read and when it was
\* checked, and the Owner's matters are allowed only as granted.
THEOREM AllowsAreLive == DelegationSpec => []AllowedByALiveCapability
<1>1. ASSUME LineageInv, NEW t \in Callers, Decided(t),
             Decision(evaluation[t]) = "ALLOW"
      PROVE  LET e == evaluation[t]
             IN  /\ Held[e.by].holder = e.request.principal
                 /\ ~e.copies[e.by]
                 /\ e.at < Held[e.by].expires
                 /\ OwnerMandatory(e.request) => e.skip
  <2> DEFINE e == evaluation[t]
  <2>1. AnswersFit(e) /\ IsEvaluation(e) /\ CopiesFit(e) /\ e.step = "checked"
    BY <1>1 DEF LineageInv, Decided, EvaluationFits
  <2>2. Granted(e, e.by) /\ e.by \in HeldBy(e.request.principal)
    BY <1>1, <2>1 DEF AnswersFit, Decision, IsEvaluation, CopiesFit
  <2> QED
    BY <2>2 DEF Granted, HeldBy
<1>2. LineageInv => AllowedByALiveCapability
  BY <1>1 DEF AllowedByALiveCapability
<1> QED
  BY DelegationInvariance, <1>2, PTL

\* The loop over the copies loses no answer.
THEOREM TheBestDecides == DelegationSpec => []DecidesByTheBest
<1>1. LineageInv => DecidesByTheBest
  BY DEF LineageInv, DecidesByTheBest, Decided, EvaluationFits, AnswersFit
<1> QED
  BY DelegationInvariance, <1>1, PTL

\* The audit record names the frame that decided, and it accounts for it.
THEOREM RecordsNameTheCheck == DelegationSpec => []RecordNamesTheCheck
<1>1. LineageInv => RecordNamesTheCheck
  BY DEF LineageInv, RecordNamesTheCheck, EvaluationFits, RecordFits, FrameOf
<1> QED
  BY DelegationInvariance, <1>1, PTL

=============================================================================
