-------------------------- MODULE ApprovalVerifier --------------------------
(***************************************************************************)
(* The ApprovalVerifier (approval.py): the single use of an approval that  *)
(* the Owner signed out of band.  The checks that an envelope passes by    *)
(* itself (signature, Owner, decision, bindings to the call) refuse it     *)
(* without a trace, so Envelopes are those that pass them.  The clock is   *)
(* read before the lock is taken; the audit append is under it.            *)
(***************************************************************************)
EXTENDS Integers, Sequences, FiniteSets

CONSTANTS
  Consumers,      \* the threads that consume approvals
  Escalations,    \* the escalations the Owner approves
  Nonces,         \* the nonces of his approvals
  Timestamps,     \* the timestamps of his approvals
  MaxTTL,         \* how old an approval may be
  Skew,           \* how far ahead its timestamp may be
  AuditOutcomes,  \* what the audit append may do in this instance
  MaxClock,       \* bound on the clock of a behaviour
  MaxRestarts,    \* bound on the restarts of the process
  MaxAudited      \* bound on the events in the audit chain

ASSUME ApprovalAssumption ==
  /\ Timestamps \subseteq Nat
  /\ MaxTTL \in Nat
  /\ Skew \in Nat
  /\ AuditOutcomes \subseteq {"written", "failed", "late"}
  /\ MaxClock \in Nat
  /\ MaxRestarts \in Nat
  /\ MaxAudited \in Nat

VARIABLES
  nonces,    \* _consumed_nonces, in order of insertion
  consumed,  \* _consumed_escalations
  clock,     \* datetime.now
  consuming, \* the approval each thread is consuming
  audited,   \* the approval_consumed events in the audit chain
  restarts,  \* how often the process came up again with nothing consumed
  approved   \* history: the approvals whose consume returned valid

tables == <<nonces, consumed>>
approvalVars == <<tables, clock, consuming, audited, restarts, approved>>

\* What a consumption goes by, once the checks 1 to 9 and 12 are passed.
Envelope ==
  [escalation: Escalations, nonce: Nonces, timestamp: Timestamps]

Consumed == [nonce: Nonces, timestamp: Timestamps]

\* Past the first checks, a call waits for the lock.
Waiting == [envelope: Envelope, now: Nat]
NotConsuming == <<>>

Approval == [envelope: Envelope, at: Nat, life: Nat]

ApprovalTypeOK ==
  /\ nonces \in Seq(Consumed)
  /\ consumed \in SUBSET Escalations
  /\ clock \in 0..MaxClock
  /\ consuming \in [Consumers -> Waiting \cup {NotConsuming}]
  /\ audited \in Seq(Escalations)
  /\ restarts \in 0..MaxRestarts
  /\ approved \in Seq(Approval)

ApprovalInit ==
  /\ nonces = <<>> /\ consumed = {}
  /\ clock = 0
  /\ consuming = [t \in Consumers |-> NotConsuming]
  /\ audited = <<>>
  /\ restarts = 0
  /\ approved = <<>>

-----------------------------------------------------------------------------

TooOld(timestamp, now) == now - timestamp > MaxTTL

TooEarly(timestamp, now) == timestamp > now + Skew

\* _verify_internal up to the lock.
ReadClock(t, v) ==
  /\ consuming[t] = NotConsuming
  /\ ~TooOld(v.timestamp, clock)
  /\ ~TooEarly(v.timestamp, clock)
  /\ consuming' = [consuming EXCEPT ![t] = [envelope |-> v, now |-> clock]]
  /\ UNCHANGED <<tables, clock, audited, restarts, approved>>

\* Defect: a nonce is dropped in the last instant in which it is fresh.
ExpiredEarly(timestamp, now) == timestamp <= now - MaxTTL

Expired(timestamp, now) == timestamp < now - MaxTTL

\* Eviction ends at the first nonce that has not expired.
Evicted(s, now) ==
  LET Stale(k) == \A i \in 1..k : Expired(s[i].timestamp, now)
      k == Cardinality({n \in DOMAIN s : Stale(n)})
  IN SubSeq(s, k + 1, Len(s))

\* Defect: the nonce alone tells whether an approval was used.
SpentByNonce(v) == \E i \in DOMAIN nonces : nonces[i].nonce = v.nonce

Spent(v) ==
  \/ v.escalation \in consumed
  \/ \E i \in DOMAIN nonces : nonces[i].nonce = v.nonce

\* Defect: the escalation stays burned when its audit append failed.
KeepBurned(v, now) ==
  /\ nonces' = Evicted(nonces, now)
  /\ consumed' = consumed \cup {v.escalation}

\* What is left of a consumption that was rolled back: the eviction.
RollBack(v, now) ==
  /\ nonces' = Evicted(nonces, now)
  /\ UNCHANGED consumed

\* Defect: the nonce is taken for the escalation.
BurnNonce(v, now) ==
  /\ nonces' = Append(Evicted(nonces, now),
                      [nonce |-> v.nonce, timestamp |-> v.timestamp])
  /\ consumed' = consumed \cup {v.nonce}

Burn(v, now) ==
  /\ nonces' = Append(Evicted(nonces, now),
                      [nonce |-> v.nonce, timestamp |-> v.timestamp])
  /\ consumed' = consumed \cup {v.escalation}

\* The thread leaves the lock with an answer.
Answer(t) ==
  /\ consuming[t] # NotConsuming
  /\ consuming' = [consuming EXCEPT ![t] = NotConsuming]
  /\ UNCHANGED <<clock, restarts>>

RefuseSpent(t) ==
  /\ Answer(t)
  /\ Spent(consuming[t].envelope)
  /\ UNCHANGED <<tables, audited, approved>>

\* Defect: an approval is used without its event in the chain.
RecordLater(v) == UNCHANGED audited

\* append_approval_event, the line in the file.
RecordEvent(v) ==
  /\ Len(audited) < MaxAudited
  /\ audited' = Append(audited, v.escalation)

Consume(t) ==
  LET v == consuming[t].envelope IN
  /\ Answer(t)
  /\ ~Spent(v)
  /\ "written" \in AuditOutcomes
  /\ Burn(v, consuming[t].now)
  /\ RecordEvent(v)
  /\ approved' = Append(approved,
                   [envelope |-> v, at |-> clock, life |-> restarts])

\* The append raises, with the event in the chain (late) or not (failed).
ConsumeUnaudited(t) ==
  LET v == consuming[t].envelope IN
  /\ Answer(t)
  /\ ~Spent(v)
  /\ RollBack(v, consuming[t].now)
  /\ \/ "failed" \in AuditOutcomes /\ UNCHANGED audited
     \/ "late" \in AuditOutcomes /\ RecordEvent(v)
  /\ UNCHANGED approved

Tick ==
  /\ clock < MaxClock
  /\ clock' = clock + 1
  /\ UNCHANGED <<tables, consuming, audited, restarts, approved>>

\* What was consumed is in memory only; the audit chain is not.
Restart ==
  /\ restarts < MaxRestarts
  /\ restarts' = restarts + 1
  /\ nonces' = <<>> /\ consumed' = {}
  /\ consuming' = [t \in Consumers |-> NotConsuming]
  /\ UNCHANGED <<clock, audited, approved>>

ApprovalNext ==
  \/ \E t \in Consumers :
       \/ \E v \in Envelope : ReadClock(t, v)
       \/ RefuseSpent(t) \/ Consume(t) \/ ConsumeUnaudited(t)
  \/ Tick
  \/ Restart

ApprovalSpec == ApprovalInit /\ [][ApprovalNext]_approvalVars

-----------------------------------------------------------------------------
(* Correctness.                                                            *)

\* An escalation is consumed once in the life of the process, whichever of
\* its envelopes is presented and however long after: a second use takes a
\* restart in between.
SingleUse ==
  \A m, n \in DOMAIN approved :
    m < n /\ approved[m].envelope.escalation = approved[n].envelope.escalation
      => approved[m].life < approved[n].life

\* A nonce does not serve for two escalations while it is fresh.
NonceUsedOnce ==
  \A m, n \in DOMAIN approved :
    /\ m < n
    /\ approved[m].envelope.nonce = approved[n].envelope.nonce
    /\ approved[m].life = approved[n].life
    => TooOld(approved[m].envelope.timestamp, approved[n].at)

\* Nothing stays burned by a consumption that did not go through: what the
\* verifier holds for consumed are approvals it answered valid to.
NothingBurned ==
  /\ \A e \in consumed :
       \E n \in DOMAIN approved :
         approved[n].life = restarts /\ approved[n].envelope.escalation = e
  /\ \A i \in DOMAIN nonces :
       \E n \in DOMAIN approved :
         approved[n].life = restarts /\ approved[n].envelope.nonce = nonces[i].nonce

\* Every use of an approval is in the audit chain, once per use at least,
\* through failed appends, retries and restarts.
UsesAreAudited ==
  \A e \in Escalations :
    Cardinality({n \in DOMAIN approved : approved[n].envelope.escalation = e})
      <= Cardinality({i \in DOMAIN audited : audited[i] = e})

=============================================================================
