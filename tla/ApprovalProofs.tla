--------------------------- MODULE ApprovalProofs ---------------------------
(***************************************************************************)
(* Theorems about ApprovalVerifier, for any number of threads, escalations *)
(* and nonces, any clock and any number of restarts.  The single use of an *)
(* approval is not inductive by itself: what makes it so is that every use *)
(* in the present life of the process is still in _consumed_escalations.   *)
(***************************************************************************)
EXTENDS ApprovalVerifier, FiniteSetTheorems, TLAPS

UsesStayConsumed ==
  \A n \in DOMAIN approved :
    /\ approved[n].life <= restarts
    /\ approved[n].life = restarts =>
         approved[n].envelope.escalation \in consumed

IInv == ApprovalTypeOK /\ SingleUse /\ NothingBurned /\ UsesStayConsumed

\* Eviction only takes nonces away.
LEMMA EvictedAreOld ==
  ASSUME NEW s \in Seq(Consumed), NEW now \in Nat
  PROVE  /\ Evicted(s, now) \in Seq(Consumed)
         /\ \A i \in DOMAIN Evicted(s, now) :
              \E j \in DOMAIN s : Evicted(s, now)[i] = s[j]
<1> DEFINE Stale(n) == \A i \in 1..n : Expired(s[i].timestamp, now)
           k == Cardinality({n \in DOMAIN s : Stale(n)})
<1>1. k \in Nat /\ k <= Len(s)
  <2>1. DOMAIN s = 1..Len(s) /\ Len(s) \in Nat
    OBVIOUS
  <2>2. IsFiniteSet(1..Len(s)) /\ Cardinality(1..Len(s)) = Len(s)
    BY <2>1, FS_Interval
  <2>3. {n \in DOMAIN s : Stale(n)} \subseteq 1..Len(s)
    BY <2>1
  <2>4. Cardinality({n \in DOMAIN s : Stale(n)}) <= Cardinality(1..Len(s))
    BY <2>2, <2>3, FS_Subset
  <2>5. IsFiniteSet({n \in DOMAIN s : Stale(n)})
    BY <2>2, <2>3, FS_Subset
  <2>6. k \in Nat
    BY <2>5, FS_CardinalityType
  <2> QED
    BY <2>2, <2>4, <2>6
<1>2. Evicted(s, now) = SubSeq(s, k + 1, Len(s))
  BY DEF Evicted
<1> HIDE DEF k
<1>3. /\ SubSeq(s, k + 1, Len(s)) \in Seq(Consumed)
      /\ \A i \in DOMAIN SubSeq(s, k + 1, Len(s)) :
           i + k \in DOMAIN s /\ SubSeq(s, k + 1, Len(s))[i] = s[i + k]
  BY <1>1
<1> QED
  BY <1>2, <1>3

LEMMA Initially == ApprovalInit => IInv
  BY ApprovalAssumption
     DEF ApprovalInit, IInv, ApprovalTypeOK, SingleUse, NothingBurned, UsesStayConsumed,
         ApprovalAssumption

\* A step that consumes nothing: it changes at most the clock, the calls, the
\* chain, and which nonces have been forgotten.
LEMMA NothingUsed ==
  ASSUME IInv, UNCHANGED <<consumed, restarts, approved>>, ApprovalTypeOK',
         \A i \in DOMAIN nonces' : \E j \in DOMAIN nonces : nonces'[i] = nonces[j]
  PROVE  IInv'
<1>1. SingleUse' /\ UsesStayConsumed'
  BY DEF IInv, SingleUse, UsesStayConsumed
<1>2. NothingBurned'
  BY DEF IInv, NothingBurned
<1> QED
  BY <1>1, <1>2 DEF IInv

LEMMA QuietSteps ==
  ASSUME IInv, NEW t \in Consumers,
         \/ \E v \in Envelope : ReadClock(t, v)
         \/ RefuseSpent(t)
         \/ ConsumeUnaudited(t)
         \/ Tick
  PROVE  IInv'
<1>1. ASSUME NEW v \in Envelope, ReadClock(t, v)
      PROVE  IInv'
  <2>1. clock \in Nat
    BY ApprovalAssumption DEF IInv, ApprovalTypeOK, ApprovalAssumption
  <2>2. [envelope |-> v, now |-> clock] \in Waiting
    BY <2>1 DEF Waiting
  <2>3. ApprovalTypeOK'
    BY <1>1, <2>2 DEF IInv, ApprovalTypeOK, ReadClock, tables
  <2>4. UNCHANGED <<nonces, consumed, restarts, approved>>
    BY <1>1 DEF ReadClock, tables
  <2> QED
    BY <2>3, <2>4, NothingUsed
<1>2. CASE RefuseSpent(t)
  <2>1. UNCHANGED <<nonces, consumed, restarts, approved, clock, audited>>
    BY <1>2 DEF RefuseSpent, Answer, tables
  <2>2. ApprovalTypeOK'
    BY <1>2, <2>1 DEF IInv, ApprovalTypeOK, RefuseSpent, Answer
  <2> QED
    BY <2>1, <2>2, NothingUsed
<1>3. CASE ConsumeUnaudited(t)
  <2>1. consuming[t] \in Waiting
    BY <1>3 DEF IInv, ApprovalTypeOK, ConsumeUnaudited, Answer
  <2>2. consuming[t].now \in Nat /\ consuming[t].envelope.escalation \in Escalations
    BY <2>1 DEF Waiting, Envelope
  <2>3. /\ nonces' = Evicted(nonces, consuming[t].now)
        /\ UNCHANGED <<consumed, restarts, approved, clock>>
        /\ consuming' = [consuming EXCEPT ![t] = NotConsuming]
    BY <1>3 DEF ConsumeUnaudited, Answer, RollBack
  <2>4. /\ nonces' \in Seq(Consumed)
        /\ \A i \in DOMAIN nonces' :
             \E j \in DOMAIN nonces : nonces'[i] = nonces[j]
    BY <2>2, <2>3, EvictedAreOld DEF IInv, ApprovalTypeOK
  <2>5. audited' \in Seq(Escalations)
    <3>1. audited \in Seq(Escalations)
      BY DEF IInv, ApprovalTypeOK
    <3>2. \/ audited' = audited
          \/ audited' = Append(audited, consuming[t].envelope.escalation)
      BY <1>3 DEF ConsumeUnaudited, RecordEvent
    <3> QED
      BY <2>2, <3>1, <3>2
  <2>6. ApprovalTypeOK'
    BY <2>3, <2>4, <2>5 DEF IInv, ApprovalTypeOK
  <2> QED
    BY <2>3, <2>4, <2>6, NothingUsed
<1>4. CASE Tick
  <2>1. UNCHANGED <<nonces, consumed, restarts, approved, consuming, audited>>
    BY <1>4 DEF Tick, tables
  <2>2. clock' \in 0..MaxClock
    BY <1>4, ApprovalAssumption DEF Tick, IInv, ApprovalTypeOK, ApprovalAssumption
  <2>3. ApprovalTypeOK'
    BY <2>1, <2>2 DEF IInv, ApprovalTypeOK
  <2> QED
    BY <2>1, <2>3, NothingUsed
<1> QED
  BY <1>1, <1>2, <1>3, <1>4

LEMMA ConsumeKeeps ==
  ASSUME IInv, NEW t \in Consumers, Consume(t)
  PROVE  IInv'
<1> DEFINE v == consuming[t].envelope
           e == v.escalation
           use == [envelope |-> v, at |-> clock, life |-> restarts]
           new == [nonce |-> v.nonce, timestamp |-> v.timestamp]
           kept == Evicted(nonces, consuming[t].now)
<1>1. consuming[t] \in Waiting
  BY DEF IInv, ApprovalTypeOK, Consume, Answer
<1>2. /\ v \in Envelope /\ consuming[t].now \in Nat /\ e \in Escalations
      /\ v.nonce \in Nonces /\ v.timestamp \in Timestamps
  BY <1>1 DEF Waiting, Envelope
<1>3. /\ clock \in Nat /\ restarts \in Nat
      /\ approved \in Seq(Approval) /\ nonces \in Seq(Consumed)
      /\ consumed \subseteq Escalations /\ audited \in Seq(Escalations)
  BY ApprovalAssumption DEF IInv, ApprovalTypeOK, ApprovalAssumption
<1>4. /\ e \notin consumed
      /\ nonces' = Append(kept, new)
      /\ consumed' = consumed \cup {e}
      /\ audited' = Append(audited, e)
      /\ approved' = Append(approved, use)
      /\ consuming' = [consuming EXCEPT ![t] = NotConsuming]
      /\ UNCHANGED <<clock, restarts>>
  BY DEF Consume, Answer, Spent, Burn, RecordEvent
<1>5. /\ kept \in Seq(Consumed)
      /\ \A i \in DOMAIN kept : \E j \in DOMAIN nonces : kept[i] = nonces[j]
  BY <1>2, <1>3, EvictedAreOld
<1>6. use \in Approval /\ new \in Consumed
  BY <1>2, <1>3 DEF Approval, Consumed
<1>7. use.life = restarts /\ use.envelope = v
  OBVIOUS
<1> HIDE DEF kept, new, use
<1>8. ApprovalTypeOK'
  <2>1. /\ nonces' \in Seq(Consumed) /\ approved' \in Seq(Approval)
        /\ audited' \in Seq(Escalations)
    BY <1>2, <1>3, <1>4, <1>5, <1>6
  <2>2. consuming' \in [Consumers -> Waiting \cup {NotConsuming}]
    BY <1>4 DEF IInv, ApprovalTypeOK
  <2>3. consumed' \in SUBSET Escalations
    BY <1>2, <1>3, <1>4
  <2>4. clock' \in 0..MaxClock /\ restarts' \in 0..MaxRestarts
    BY <1>4 DEF IInv, ApprovalTypeOK
  <2> QED
    BY <2>1, <2>2, <2>3, <2>4 DEF ApprovalTypeOK
<1>9. \A n \in DOMAIN approved' :
        \/ n = Len(approved) + 1 /\ approved'[n] = use
        \/ n \in DOMAIN approved /\ approved'[n] = approved[n]
  BY <1>3, <1>4, <1>6
<1>10. /\ \A n \in DOMAIN approved :
            n \in DOMAIN approved' /\ approved'[n] = approved[n]
       /\ \E n \in DOMAIN approved' : approved'[n] = use
  <2>1. Len(approved) + 1 \in DOMAIN approved'
    BY <1>3, <1>4, <1>6
  <2>2. approved'[Len(approved) + 1] = use
    BY <1>3, <1>4, <1>6
  <2>3. \A n \in DOMAIN approved :
            n \in DOMAIN approved' /\ approved'[n] = approved[n]
    BY <1>3, <1>4, <1>6
  <2> QED
    BY <2>1, <2>2, <2>3
<1>11. UsesStayConsumed'
  BY <1>3, <1>4, <1>7, <1>9 DEF IInv, UsesStayConsumed
<1>12. SingleUse'
  <2> SUFFICES ASSUME NEW m \in DOMAIN approved', NEW n \in DOMAIN approved',
                      m < n,
                      approved'[m].envelope.escalation
                        = approved'[n].envelope.escalation
               PROVE  approved'[m].life < approved'[n].life
    BY DEF SingleUse
  <2>1. CASE n \in DOMAIN approved /\ approved'[n] = approved[n]
    <3>1. m \in DOMAIN approved /\ approved'[m] = approved[m]
      BY <1>3, <1>9, <2>1
    <3> QED
      BY <2>1, <3>1 DEF IInv, SingleUse
  <2>2. CASE n = Len(approved) + 1 /\ approved'[n] = use
    <3>1. m \in DOMAIN approved /\ approved'[m] = approved[m]
      BY <1>3, <1>9, <2>2
    <3>2. approved[m].envelope.escalation = e
      BY <1>7, <2>2, <3>1
    <3>3. approved[m].life <= restarts /\ approved[m].life # restarts
      BY <1>4, <3>1, <3>2 DEF IInv, UsesStayConsumed
    <3>4. approved[m].life \in Nat
      <4>1. approved[m] \in Approval
        BY <1>3, <3>1
      <4> QED
        BY <4>1 DEF Approval
    <3>5. approved[m].life < restarts
      BY <1>3, <3>3, <3>4
    <3> QED
      BY <1>7, <2>2, <3>1, <3>5
  <2> QED
    BY <1>9, <2>1, <2>2
<1>13. NothingBurned'
  <2>1. ASSUME NEW x \in consumed'
        PROVE  \E n \in DOMAIN approved' :
                 approved'[n].life = restarts /\ approved'[n].envelope.escalation = x
    <3>1. CASE x = e
      BY <1>7, <1>10, <3>1
    <3>2. CASE x \in consumed
      BY <1>10, <3>2 DEF IInv, NothingBurned
    <3> QED
      BY <1>4, <2>1, <3>1, <3>2
  <2>2. ASSUME NEW i \in DOMAIN nonces'
        PROVE  \E n \in DOMAIN approved' :
                 /\ approved'[n].life = restarts
                 /\ approved'[n].envelope.nonce = nonces'[i].nonce
    <3>1. \/ nonces'[i] = new
          \/ \E j \in DOMAIN nonces : nonces'[i] = nonces[j]
      <4>1. \/ nonces'[i] = new
            \/ i \in DOMAIN kept /\ nonces'[i] = kept[i]
        BY <1>4, <1>5, <1>6, <2>2
      <4> QED
        BY <1>5, <4>1
    <3>2. CASE nonces'[i] = new
      BY <1>7, <1>10, <3>2 DEF new
    <3>3. CASE \E j \in DOMAIN nonces : nonces'[i] = nonces[j]
      BY <1>10, <3>3 DEF IInv, NothingBurned
    <3> QED
      BY <3>1, <3>2, <3>3
  <2> QED
    BY <1>4, <2>1, <2>2 DEF NothingBurned
<1> QED
  BY <1>8, <1>11, <1>12, <1>13 DEF IInv

\* A restart forgets what was consumed, and begins another life.
LEMMA RestartKeeps ==
  ASSUME IInv, Restart
  PROVE  IInv'
<1>1. /\ restarts' = restarts + 1 /\ nonces' = <<>> /\ consumed' = {}
      /\ consuming' = [t \in Consumers |-> NotConsuming]
      /\ UNCHANGED <<clock, audited, approved>>
      /\ restarts < MaxRestarts
  BY DEF Restart
<1>2. restarts \in Nat /\ restarts' \in 0..MaxRestarts
  BY <1>1, ApprovalAssumption DEF IInv, ApprovalTypeOK, ApprovalAssumption
<1>3. ApprovalTypeOK'
  BY <1>1, <1>2 DEF IInv, ApprovalTypeOK
<1>4. UsesStayConsumed'
  <2> SUFFICES ASSUME NEW n \in DOMAIN approved
               PROVE  /\ approved[n].life <= restarts + 1
                      /\ approved[n].life # restarts + 1
    BY <1>1 DEF UsesStayConsumed
  <2>1. approved \in Seq(Approval)
    BY DEF IInv, ApprovalTypeOK
  <2>2. approved[n] \in Approval
    BY <2>1
  <2>3. approved[n].life \in Nat
    BY <2>2 DEF Approval
  <2>4. approved[n].life <= restarts
    BY DEF IInv, UsesStayConsumed
  <2> QED
    BY <1>2, <2>3, <2>4
<1>5. SingleUse' /\ NothingBurned'
  BY <1>1 DEF IInv, SingleUse, NothingBurned
<1> QED
  BY <1>3, <1>4, <1>5 DEF IInv

LEMMA InvStep == IInv /\ [ApprovalNext]_approvalVars => IInv'
<1> SUFFICES ASSUME IInv, [ApprovalNext]_approvalVars PROVE IInv'
  OBVIOUS
<1>1. CASE UNCHANGED approvalVars
  BY <1>1
     DEF approvalVars, tables, IInv, ApprovalTypeOK, SingleUse, NothingBurned, UsesStayConsumed
<1>2. CASE Tick
  <2>1. ApprovalTypeOK'
    BY <1>2, ApprovalAssumption
       DEF Tick, IInv, ApprovalTypeOK, tables, ApprovalAssumption
  <2> QED
    BY <1>2, <2>1, NothingUsed DEF Tick, tables
<1> QED
  BY <1>1, <1>2, QuietSteps, ConsumeKeeps, RestartKeeps DEF ApprovalNext

LEMMA Invariance == ApprovalSpec => []IInv
  BY Initially, InvStep, PTL DEF ApprovalSpec

\* What is consumed and approved is made of the envelopes of the instance.
THEOREM ApprovalTyping == ApprovalSpec => []ApprovalTypeOK
<1>1. IInv => ApprovalTypeOK
  BY DEF IInv
<1> QED
  BY <1>1, Invariance, PTL

\* An escalation is consumed once in the life of the process, however many
\* envelopes the Owner signed for it, however long after the first use, and
\* whatever the audit append does (approval.py 490-554).
THEOREM ApprovalUsedOnce == ApprovalSpec => []SingleUse
<1>1. IInv => SingleUse
  BY DEF IInv
<1> QED
  BY <1>1, Invariance, PTL

\* Whatever the verifier holds for consumed was answered valid: a consumption
\* whose audit append failed is taken back whole (approval.py 535-546).
THEOREM FailureBurnsNothing == ApprovalSpec => []NothingBurned
<1>1. IInv => NothingBurned
  BY DEF IInv
<1> QED
  BY <1>1, Invariance, PTL

-----------------------------------------------------------------------------
(* A nonce serves once while it is fresh.  Eviction works by the reading   *)
(* of the clock that a call took before it had the lock, and what it       *)
(* forgets must be too old for every call that is still to come.           *)

\* What eviction forgets has expired.
LEMMA ForgottenAreExpired ==
  ASSUME NEW s \in Seq(Consumed), NEW now \in Nat, NEW j \in DOMAIN s,
         ~Expired(s[j].timestamp, now)
  PROVE  \E i \in DOMAIN Evicted(s, now) : Evicted(s, now)[i] = s[j]
<1> DEFINE Stale(n) == \A i \in 1..n : Expired(s[i].timestamp, now)
           stale == {n \in DOMAIN s : Stale(n)}
           k == Cardinality(stale)
<1>1. /\ Len(s) \in Nat /\ DOMAIN s = 1..Len(s) /\ j \in 1..Len(s)
  OBVIOUS
<1> PICK before \in Nat : before = j - 1
  BY <1>1
<1>2. stale \subseteq 1..before
  <2> SUFFICES ASSUME NEW n \in stale, ~(n <= before) PROVE FALSE
    BY <1>1
  <2>1. n \in 1..Len(s) /\ j \in 1..n
    BY <1>1
  <2> QED
    BY <2>1
<1>3. k \in Nat /\ k <= before
  <2>1. IsFiniteSet(1..before) /\ Cardinality(1..before) = before
    BY FS_Interval
  <2>2. IsFiniteSet(stale) /\ Cardinality(stale) <= Cardinality(1..before)
    BY <1>2, <2>1, FS_Subset
  <2>3. Cardinality(stale) \in Nat
    BY <2>2, FS_CardinalityType
  <2> QED
    BY <2>1, <2>2, <2>3
<1>4. Evicted(s, now) = SubSeq(s, k + 1, Len(s))
  BY DEF Evicted
<1> HIDE DEF k
<1>5. /\ j - k \in DOMAIN SubSeq(s, k + 1, Len(s))
      /\ SubSeq(s, k + 1, Len(s))[j - k] = s[j]
  BY <1>1, <1>3
<1> QED
  BY <1>4, <1>5

ReadingsArePast ==
  \A t \in Consumers : consuming[t] # NotConsuming => consuming[t].now <= clock

Held(held, v) ==
  \E i \in DOMAIN held :
    held[i].nonce = v.nonce /\ held[i].timestamp = v.timestamp

\* Of every use in this life the nonce is held, or it can no longer be fresh.
FreshUsesAreHeld ==
  \A n \in DOMAIN approved :
    approved[n].life = restarts =>
      \/ Held(nonces, approved[n].envelope)
      \/ TooOld(approved[n].envelope.timestamp, clock)

NInv == IInv /\ ReadingsArePast /\ FreshUsesAreHeld /\ NonceUsedOnce

\* What eviction by a reading of the past drops is too old by now.
LEMMA EvictionKeepsFresh ==
  ASSUME NEW s \in Seq(Consumed), NEW now \in Nat, now <= clock,
         clock \in Nat, NEW v \in Envelope,
         Held(s, v) \/ TooOld(v.timestamp, clock)
  PROVE  Held(Evicted(s, now), v) \/ TooOld(v.timestamp, clock)
<1>1. CASE Held(s, v)
  <2>1. PICK j \in DOMAIN s : s[j].nonce = v.nonce
                              /\ s[j].timestamp = v.timestamp
    BY <1>1 DEF Held
  <2>2. CASE Expired(s[j].timestamp, now)
    <3>1. v.timestamp \in Nat /\ MaxTTL \in Nat
      BY ApprovalAssumption DEF Envelope, ApprovalAssumption
    <3>2. v.timestamp < now - MaxTTL
      BY <2>1, <2>2 DEF Expired
    <3> QED
      BY <3>1, <3>2 DEF TooOld
  <2>3. CASE ~Expired(s[j].timestamp, now)
    BY <2>1, <2>3, ForgottenAreExpired DEF Held
  <2> QED
    BY <2>2, <2>3
<1> QED
  BY <1>1

LEMMA UsesAreTyped ==
  ASSUME IInv
  PROVE  /\ approved \in Seq(Approval) /\ nonces \in Seq(Consumed)
         /\ clock \in Nat /\ restarts \in Nat /\ MaxTTL \in Nat
         /\ \A n \in DOMAIN approved :
              /\ approved[n].envelope \in Envelope
              /\ approved[n].envelope.timestamp \in Nat
              /\ approved[n].life \in Nat /\ approved[n].life <= restarts
<1>1. /\ approved \in Seq(Approval) /\ nonces \in Seq(Consumed)
      /\ clock \in Nat /\ restarts \in Nat /\ MaxTTL \in Nat
      /\ Timestamps \subseteq Nat
  BY ApprovalAssumption DEF IInv, ApprovalTypeOK, ApprovalAssumption
<1>2. ASSUME NEW n \in DOMAIN approved
      PROVE  /\ approved[n].envelope \in Envelope
             /\ approved[n].envelope.timestamp \in Nat
             /\ approved[n].life \in Nat /\ approved[n].life <= restarts
  <2>1. approved[n] \in Approval
    BY <1>1
  <2>2. approved[n].envelope \in Envelope /\ approved[n].life \in Nat
    BY <2>1 DEF Approval
  <2> QED
    BY <1>1, <2>2 DEF Envelope, IInv, UsesStayConsumed
<1> QED
  BY <1>1, <1>2

\* A use takes a nonce that is not held, and what is not held is not fresh.
LEMMA UseOfNonce ==
  ASSUME NInv, NEW t \in Consumers, Consume(t)
  PROVE  FreshUsesAreHeld' /\ NonceUsedOnce'
<1> DEFINE v == consuming[t].envelope
           use == [envelope |-> v, at |-> clock, life |-> restarts]
           new == [nonce |-> v.nonce, timestamp |-> v.timestamp]
           kept == Evicted(nonces, consuming[t].now)
<1>1. consuming[t] \in Waiting /\ consuming[t].now <= clock
  BY DEF NInv, IInv, ApprovalTypeOK, ReadingsArePast, Consume, Answer
<1>2. v \in Envelope /\ consuming[t].now \in Nat
  BY <1>1 DEF Waiting
<1>3. new \in Consumed
  BY <1>2 DEF Envelope, Consumed
<1>4. /\ \A i \in DOMAIN nonces : nonces[i].nonce # v.nonce
      /\ nonces' = Append(kept, new)
      /\ approved' = Append(approved, use)
      /\ UNCHANGED <<clock, restarts>>
  BY DEF Consume, Answer, Spent, Burn
<1>5. /\ approved \in Seq(Approval) /\ nonces \in Seq(Consumed)
      /\ clock \in Nat /\ restarts \in Nat
      /\ \A n \in DOMAIN approved : approved[n].envelope \in Envelope
  BY UsesAreTyped DEF NInv
<1>6. kept \in Seq(Consumed)
  BY <1>2, <1>5, EvictedAreOld
<1>7. /\ use.envelope = v /\ use.life = restarts /\ use.at = clock
      /\ new.nonce = v.nonce /\ new.timestamp = v.timestamp
  OBVIOUS
<1>8. \A w \in Envelope :
        Held(nonces, w) \/ TooOld(w.timestamp, clock) =>
          Held(kept, w) \/ TooOld(w.timestamp, clock)
  BY <1>1, <1>2, <1>5, EvictionKeepsFresh
<1> HIDE DEF kept, new, use
<1>9. /\ \A w : Held(kept, w) => Held(nonces', w)
      /\ Held(nonces', v)
  <2>1. /\ \A i \in DOMAIN kept :
             i \in DOMAIN nonces' /\ nonces'[i] = kept[i]
        /\ Len(kept) + 1 \in DOMAIN nonces'
        /\ nonces'[Len(kept) + 1] = new
    BY <1>3, <1>4, <1>6
  <2> QED
    BY <1>7, <2>1 DEF Held
<1>10. \A n \in DOMAIN approved' :
         \/ n = Len(approved) + 1 /\ approved'[n] = use
         \/ n \in DOMAIN approved /\ approved'[n] = approved[n]
  BY <1>4, <1>5
<1>11. FreshUsesAreHeld'
  <2> SUFFICES ASSUME NEW n \in DOMAIN approved',
                      approved'[n].life = restarts
               PROVE  \/ Held(nonces', approved'[n].envelope)
                      \/ TooOld(approved'[n].envelope.timestamp, clock)
    BY <1>4 DEF FreshUsesAreHeld
  <2>1. CASE approved'[n] = use
    BY <1>7, <1>9, <2>1
  <2>2. CASE n \in DOMAIN approved /\ approved'[n] = approved[n]
    BY <1>5, <1>8, <1>9, <2>2 DEF NInv, FreshUsesAreHeld
  <2> QED
    BY <1>10, <2>1, <2>2
<1>12. NonceUsedOnce'
  <2> SUFFICES ASSUME NEW m \in DOMAIN approved', NEW n \in DOMAIN approved',
                      m < n,
                      approved'[m].envelope.nonce = approved'[n].envelope.nonce,
                      approved'[m].life = approved'[n].life
               PROVE  TooOld(approved'[m].envelope.timestamp, approved'[n].at)
    BY DEF NonceUsedOnce
  <2>1. CASE n \in DOMAIN approved /\ approved'[n] = approved[n]
    <3>1. m \in DOMAIN approved /\ approved'[m] = approved[m]
      BY <1>5, <1>10, <2>1
    <3> QED
      BY <2>1, <3>1 DEF NInv, NonceUsedOnce
  <2>2. CASE n = Len(approved) + 1 /\ approved'[n] = use
    <3>1. m \in DOMAIN approved /\ approved'[m] = approved[m]
      BY <1>5, <1>10, <2>2
    <3>2. approved[m].envelope.nonce = v.nonce /\ approved[m].life = restarts
      BY <1>7, <2>2, <3>1
    <3>3. ~Held(nonces, approved[m].envelope)
      BY <1>4, <3>2 DEF Held
    <3>4. TooOld(approved[m].envelope.timestamp, clock)
      BY <3>1, <3>2, <3>3 DEF NInv, FreshUsesAreHeld
    <3> QED
      BY <1>7, <2>2, <3>1, <3>4
  <2> QED
    BY <1>10, <2>1, <2>2
<1> QED
  BY <1>11, <1>12

\* Where nothing is used the nonces of the fresh uses stay, and time passes.
LEMMA NoUseOfNonce ==
  ASSUME NInv, UNCHANGED <<restarts, approved>>,
         clock' \in Nat, clock <= clock',
         \/ nonces' = nonces
         \/ \E now \in Nat : now <= clock /\ nonces' = Evicted(nonces, now)
  PROVE  FreshUsesAreHeld' /\ NonceUsedOnce'
<1>1. NonceUsedOnce'
  BY DEF NInv, NonceUsedOnce
<1>2. FreshUsesAreHeld'
  <2> SUFFICES ASSUME NEW n \in DOMAIN approved, approved[n].life = restarts
               PROVE  \/ Held(nonces', approved[n].envelope)
                      \/ TooOld(approved[n].envelope.timestamp, clock')
    BY DEF FreshUsesAreHeld
  <2> DEFINE v == approved[n].envelope
  <2>1. /\ v \in Envelope /\ v.timestamp \in Nat /\ clock \in Nat
        /\ MaxTTL \in Nat /\ nonces \in Seq(Consumed)
    BY UsesAreTyped DEF NInv
  <2>2. Held(nonces, v) \/ TooOld(v.timestamp, clock)
    BY DEF NInv, FreshUsesAreHeld
  <2> HIDE DEF v
  <2>3. Held(nonces', v) \/ TooOld(v.timestamp, clock)
    BY <2>1, <2>2, EvictionKeepsFresh
  <2>4. TooOld(v.timestamp, clock) => TooOld(v.timestamp, clock')
    BY <2>1 DEF TooOld
  <2> QED
    BY <2>3, <2>4 DEF v
<1> QED
  BY <1>1, <1>2

LEMMA ReadingsStayPast ==
  ASSUME IInv, ReadingsArePast, [ApprovalNext]_approvalVars
  PROVE  ReadingsArePast'
<1>0. clock \in Nat /\ consuming \in [Consumers -> Waiting \cup {NotConsuming}]
  BY UsesAreTyped DEF IInv, ApprovalTypeOK
<1>1. ASSUME NEW t \in Consumers, NEW v \in Envelope, ReadClock(t, v)
      PROVE  ReadingsArePast'
  BY <1>0, <1>1 DEF ReadClock, ReadingsArePast
<1>2. ASSUME NEW t \in Consumers, Answer(t)
      PROVE  ReadingsArePast'
  BY <1>0, <1>2 DEF Answer, ReadingsArePast
<1>3. CASE Tick
  <2>1. clock' = clock + 1 /\ consuming' = consuming
    BY <1>3 DEF Tick
  <2>2. \A t \in Consumers : consuming[t] # NotConsuming => consuming[t].now \in Nat
    BY <1>0 DEF Waiting
  <2> QED
    BY <1>0, <2>1, <2>2 DEF ReadingsArePast
<1>4. CASE Restart
  BY <1>4 DEF Restart, ReadingsArePast
<1>5. CASE UNCHANGED approvalVars
  BY <1>5 DEF approvalVars, ReadingsArePast
<1> QED
  BY <1>1, <1>2, <1>3, <1>4, <1>5
     DEF ApprovalNext, RefuseSpent, Consume, ConsumeUnaudited

LEMMA NonceStep == NInv /\ [ApprovalNext]_approvalVars => NInv'
<1> SUFFICES ASSUME NInv, [ApprovalNext]_approvalVars PROVE NInv'
  OBVIOUS
<1>0. /\ clock \in Nat /\ clock <= clock /\ restarts \in Nat
      /\ \A n \in DOMAIN approved : approved[n].life <= restarts
      /\ \A n \in DOMAIN approved : approved[n].life \in Nat
  BY UsesAreTyped DEF NInv
<1>1. IInv' /\ ReadingsArePast'
  BY InvStep, ReadingsStayPast DEF NInv
<1>2. FreshUsesAreHeld' /\ NonceUsedOnce'
  <2>1. ASSUME NEW t \in Consumers, NEW v \in Envelope, ReadClock(t, v)
        PROVE  FreshUsesAreHeld' /\ NonceUsedOnce'
    BY <1>0, <2>1, NoUseOfNonce DEF ReadClock, tables
  <2>2. ASSUME NEW t \in Consumers, RefuseSpent(t)
        PROVE  FreshUsesAreHeld' /\ NonceUsedOnce'
    BY <1>0, <2>2, NoUseOfNonce DEF RefuseSpent, Answer, tables
  <2>3. ASSUME NEW t \in Consumers, Consume(t)
        PROVE  FreshUsesAreHeld' /\ NonceUsedOnce'
    BY <2>3, UseOfNonce
  <2>4. ASSUME NEW t \in Consumers, ConsumeUnaudited(t)
        PROVE  FreshUsesAreHeld' /\ NonceUsedOnce'
    <3>1. consuming[t].now \in Nat /\ consuming[t].now <= clock
      BY <2>4 DEF ConsumeUnaudited, Answer, NInv, IInv, ApprovalTypeOK, Waiting,
                  ReadingsArePast
    <3>2. /\ nonces' = Evicted(nonces, consuming[t].now)
          /\ UNCHANGED <<restarts, approved, clock>>
      BY <2>4 DEF ConsumeUnaudited, Answer, RollBack
    <3> QED
      BY <1>0, <3>1, <3>2, NoUseOfNonce
  <2>5. CASE Tick
    <3>1. /\ clock' \in Nat /\ clock <= clock'
          /\ UNCHANGED <<restarts, approved, nonces>>
      BY <1>0, <2>5 DEF Tick, tables
    <3> QED
      BY <3>1, NoUseOfNonce
  <2>6. CASE Restart
    <3>1. restarts' = restarts + 1 /\ UNCHANGED approved
      BY <2>6 DEF Restart
    <3>2. \A n \in DOMAIN approved : approved[n].life # restarts'
      BY <1>0, <3>1
    <3> QED
      BY <3>1, <3>2 DEF NInv, FreshUsesAreHeld, NonceUsedOnce
  <2>7. CASE UNCHANGED approvalVars
    BY <1>0, <2>7, NoUseOfNonce DEF approvalVars, tables
  <2> QED
    BY <2>1, <2>2, <2>3, <2>4, <2>5, <2>6, <2>7 DEF ApprovalNext
<1> QED
  BY <1>1, <1>2 DEF NInv

\* A nonce does not serve for a second escalation while it is fresh, though
\* eviction goes by clock readings from before the lock (approval.py 501-512).
THEOREM NonceServesOnce == ApprovalSpec => []NonceUsedOnce
<1>1. ApprovalInit => NInv
  <2>1. ApprovalInit => ReadingsArePast /\ FreshUsesAreHeld /\ NonceUsedOnce
    BY DEF ApprovalInit, ReadingsArePast, FreshUsesAreHeld, NonceUsedOnce
  <2> QED
    BY <2>1, Initially DEF NInv
<1>2. NInv => NonceUsedOnce
  BY DEF NInv
<1> QED
  BY <1>1, <1>2, NonceStep, PTL DEF ApprovalSpec

-----------------------------------------------------------------------------
(* Every use is audited: what appends a use appends its event with it, and *)
(* nothing is ever taken out of the chain.                                 *)

\* Counting what a sequence says, by any property of its positions, when one
\* element is appended to it.
Said(s, P) == {n \in DOMAIN s : s[n] \in P}

LEMMA SaidIsFinite ==
  ASSUME NEW T, NEW s \in Seq(T), NEW P
  PROVE  /\ Said(s, P) \subseteq 1..Len(s)
         /\ IsFiniteSet(Said(s, P)) /\ Cardinality(Said(s, P)) \in Nat
<1>1. Said(s, P) \subseteq 1..Len(s) /\ Len(s) \in Nat
  BY DEF Said
<1>2. IsFiniteSet(Said(s, P))
  <2>1. IsFiniteSet(1..Len(s))
    BY <1>1, FS_Interval
  <2> QED
    BY <1>1, <2>1, FS_Subset
<1> QED
  BY <1>1, <1>2, FS_CardinalityType

LEMMA SaidOfAppend ==
  ASSUME NEW T, NEW s \in Seq(T), NEW x \in T, NEW P
  PROVE  /\ x \notin P => Said(Append(s, x), P) = Said(s, P)
         /\ x \in P =>
              Cardinality(Said(Append(s, x), P)) = Cardinality(Said(s, P)) + 1
<1>1. /\ Len(s) \in Nat /\ DOMAIN s = 1..Len(s)
      /\ DOMAIN Append(s, x) = 1..(Len(s) + 1)
      /\ Append(s, x)[Len(s) + 1] = x
      /\ \A i \in 1..Len(s) : Append(s, x)[i] = s[i]
  OBVIOUS
<1>2. 1..(Len(s) + 1) = (1..Len(s)) \cup {Len(s) + 1}
      /\ Len(s) + 1 \notin 1..Len(s)
  BY <1>1
<1>3. x \notin P => Said(Append(s, x), P) = Said(s, P)
  BY <1>1, <1>2 DEF Said
<1>4. x \in P =>
        /\ Said(Append(s, x), P) = Said(s, P) \cup {Len(s) + 1}
        /\ Len(s) + 1 \notin Said(s, P)
  BY <1>1, <1>2 DEF Said
<1>5. x \in P =>
        Cardinality(Said(Append(s, x), P)) = Cardinality(Said(s, P)) + 1
  BY <1>4, SaidIsFinite, FS_AddElement
<1> QED
  BY <1>3, <1>5

ApprovalsOf(e) == {a \in Approval : a.envelope.escalation = e}

\* As many events of each escalation as there are uses of it.
Audits(uses, chain) ==
  \A e \in Escalations :
    Cardinality(Said(uses, ApprovalsOf(e))) <= Cardinality(Said(chain, {e}))

LEMMA AuditsStep ==
  ASSUME IInv, Audits(approved, audited), [ApprovalNext]_approvalVars
  PROVE  Audits(approved', audited')
<1>1. approved \in Seq(Approval) /\ audited \in Seq(Escalations)
  BY DEF IInv, ApprovalTypeOK
<1>2. \A e :
        /\ Cardinality(Said(approved, ApprovalsOf(e))) \in Nat
        /\ Cardinality(Said(audited, {e})) \in Nat
  BY <1>1, SaidIsFinite
<1>3. CASE UNCHANGED <<approved, audited>>
  BY <1>3
<1>4. ASSUME NEW t \in Consumers, Consume(t)
      PROVE  Audits(approved', audited')
  <2> DEFINE v == consuming[t].envelope
             use == [envelope |-> v, at |-> clock, life |-> restarts]
  <2>1. v \in Envelope
    BY <1>4 DEF Consume, Answer, IInv, ApprovalTypeOK, Waiting
  <2>2. v.escalation \in Escalations
    BY <2>1 DEF Envelope
  <2>3. use \in Approval /\ use.envelope = v
    BY <2>1, UsesAreTyped DEF Approval
  <2>4. approved' = Append(approved, use)
        /\ audited' = Append(audited, v.escalation)
    BY <1>4 DEF Consume, RecordEvent
  <2> HIDE DEF v, use
  <2> SUFFICES ASSUME NEW e \in Escalations
               PROVE  Cardinality(Said(approved', ApprovalsOf(e)))
                        <= Cardinality(Said(audited', {e}))
    BY DEF Audits
  <2>5. Cardinality(Said(approved, ApprovalsOf(e)))
          <= Cardinality(Said(audited, {e}))
    BY DEF Audits
  <2>6. CASE v.escalation = e
    <3>1. use \in ApprovalsOf(e)
      BY <2>3, <2>6 DEF ApprovalsOf
    <3>2. Cardinality(Said(approved', ApprovalsOf(e)))
            = Cardinality(Said(approved, ApprovalsOf(e))) + 1
      BY <1>1, <2>3, <2>4, <3>1, SaidOfAppend
    <3>3. Cardinality(Said(audited', {e})) = Cardinality(Said(audited, {e})) + 1
      BY <1>1, <2>2, <2>4, <2>6, SaidOfAppend
    <3> QED
      BY <1>2, <2>5, <3>2, <3>3
  <2>7. CASE v.escalation # e
    <3>1. use \notin ApprovalsOf(e)
      BY <2>3, <2>7 DEF ApprovalsOf
    <3>2. Said(approved', ApprovalsOf(e)) = Said(approved, ApprovalsOf(e))
      BY <1>1, <2>3, <2>4, <3>1, SaidOfAppend
    <3>3. Said(audited', {e}) = Said(audited, {e})
      BY <1>1, <2>2, <2>4, <2>7, SaidOfAppend
    <3> QED
      BY <2>5, <3>2, <3>3
  <2> QED
    BY <2>6, <2>7
<1>5. ASSUME NEW t \in Consumers, ConsumeUnaudited(t)
      PROVE  Audits(approved', audited')
  <2> DEFINE x == consuming[t].envelope.escalation
  <2>1. x \in Escalations
    BY <1>5 DEF ConsumeUnaudited, Answer, IInv, ApprovalTypeOK, Waiting, Envelope
  <2>2. /\ approved' = approved
        /\ audited' = audited \/ audited' = Append(audited, x)
    BY <1>5 DEF ConsumeUnaudited, RecordEvent
  <2> HIDE DEF x
  <2>3. CASE audited' = audited
    BY <2>2, <2>3
  <2>4. CASE audited' = Append(audited, x)
    <3> SUFFICES ASSUME NEW e \in Escalations
                 PROVE  Cardinality(Said(approved, ApprovalsOf(e)))
                          <= Cardinality(Said(audited', {e}))
      BY <2>2 DEF Audits
    <3>1. Cardinality(Said(approved, ApprovalsOf(e)))
            <= Cardinality(Said(audited, {e}))
      BY DEF Audits
    <3>2. \/ Said(audited', {e}) = Said(audited, {e})
          \/ Cardinality(Said(audited', {e}))
               = Cardinality(Said(audited, {e})) + 1
      BY <1>1, <2>1, <2>4, SaidOfAppend
    <3> QED
      BY <1>2, <3>1, <3>2
  <2> QED
    BY <2>2, <2>3, <2>4
<1>6. ASSUME NEW t \in Consumers, NEW v \in Envelope, ReadClock(t, v)
      PROVE  UNCHANGED <<approved, audited>>
  BY <1>6 DEF ReadClock
<1>7. ASSUME NEW t \in Consumers, RefuseSpent(t)
      PROVE  UNCHANGED <<approved, audited>>
  BY <1>7 DEF RefuseSpent
<1>8. Tick \/ Restart \/ UNCHANGED approvalVars => UNCHANGED <<approved, audited>>
  BY DEF Tick, Restart, approvalVars
<1> QED
  BY <1>3, <1>4, <1>5, <1>6, <1>7, <1>8 DEF ApprovalNext

AInv == IInv /\ Audits(approved, audited)

LEMMA AuditsInvariance == ApprovalSpec => []AInv
<1>1. ApprovalInit => AInv
  <2> SUFFICES ASSUME ApprovalInit PROVE Audits(approved, audited)
    BY Initially DEF AInv
  <2>1. \A P : Said(<<>>, P) = {}
    BY DEF Said
  <2>2. Cardinality({}) = 0
    BY FS_EmptySet
  <2>3. approved = <<>> /\ audited = <<>>
    BY DEF ApprovalInit
  <2>4. ASSUME NEW e \in Escalations
        PROVE  Cardinality(Said(approved, ApprovalsOf(e)))
                 <= Cardinality(Said(audited, {e}))
    <3>1. /\ Said(approved, ApprovalsOf(e)) = {}
          /\ Said(audited, {e}) = {}
      BY <2>1, <2>3
    <3>2. 0 <= 0
      OBVIOUS
    <3> QED
      BY <2>2, <3>1, <3>2
  <2> QED
    BY <2>4 DEF Audits
<1>2. AInv /\ [ApprovalNext]_approvalVars => AInv'
  BY InvStep, AuditsStep DEF AInv
<1> QED
  BY <1>1, <1>2, PTL DEF ApprovalSpec

\* A use of an approval has its event in the audit chain, once per use at
\* least: an append that raised may leave one more, never one less
\* (approval.py 516-546).
THEOREM UsesStayAudited == ApprovalSpec => []UsesAreAudited
<1>1. ASSUME AInv, NEW e \in Escalations
      PROVE  Cardinality({n \in DOMAIN approved :
                            approved[n].envelope.escalation = e})
               <= Cardinality({i \in DOMAIN audited : audited[i] = e})
  <2>1. approved \in Seq(Approval)
    BY <1>1 DEF AInv, IInv, ApprovalTypeOK
  <2>2. Said(approved, ApprovalsOf(e))
          = {n \in DOMAIN approved : approved[n].envelope.escalation = e}
    BY <2>1 DEF Said, ApprovalsOf
  <2>3. Said(audited, {e}) = {i \in DOMAIN audited : audited[i] = e}
    BY DEF Said
  <2> QED
    BY <1>1, <2>2, <2>3 DEF AInv, Audits
<1>2. AInv => UsesAreAudited
  BY <1>1 DEF UsesAreAudited
<1> QED
  BY <1>2, AuditsInvariance, PTL

=============================================================================
