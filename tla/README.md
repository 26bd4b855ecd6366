# AxiomGate Kernel in TLA+

TLA+ models of the AxiomGate kernel (`src/axiomgate_kernel/`, Python), checked
with TLC on small instances and, where a theorem says so, proved with TLAPS for
every value of the constants. Line numbers below are lines of that directory's
files.

Run from this directory:

    tlc -workers 2 -config redemption.cfg MCMediator
    tlapm MediatorProofs.tla

The runs, the mutants that show what each property can catch, the lines every
definition models, the findings, the hazards and the theorems are in
`PROJECT.json`.

## 1. The system

The kernel answers one question, "may this agent do this?", and keeps evidence
of the answer. A request reaches `Mediator`; it is authenticated, checked
against the policy, a capability and the provenance of the checkout, and ends in
PERMIT, DENY or ESCALATE. An escalation is ruled on by the Owner and redeemed by
the requester, once, when it comes back with the same request. No answer is
given before it is in the audit chain.

| component | state | operations | talks to |
|---|---|---|---|
| `Mediator` (mediator.py) | policy, its seal, availability | `evaluate`, `reenter`, `decide_escalation`, `update_policy`, the three evidence operations; `set_policy`, `provision_policy`, `seal_policy` | every store below, each under a lock of its own; the mediator itself holds none |
| `EscalationStore` (escalation.py) | records: pending, decided, resolved | `create`, `mediator_decide`, `mediator_resolve` | - |
| `ReservedGrantStore` (grant.py) | grants by escalation, execution numbers | `create_pending_context`, `attach_owner_decision`, `consume_if_valid`, `unconsume` | `ExecutionLog`, under the store's lock |
| `ExecutionLog` (execution.py) | entries, rolled-back flags | `record`, `mark_rolled_back`; `check_execution_invariant` offline | - |
| `CapabilityRegistry` (capability.py) | capabilities, seal | `register`, `revoke`, `seal`, lookups | provisioning token |
| `check_capability` (authorization.py) | none | one pure decision | mandates, levels of risk |
| `AuditLog` (audit.py, strict.py) | the file; last hash, count, anchored | `append`, `head`, verification, replay with healing on open | the file system |
| `EvidenceJournal` (evidence.py) | current records, events | `create_candidate`, `bind_digest`, `verify`, `authorize` | called by the mediator after a lookup in the registry |
| `Authenticator`, `NonceTracker` (authentication.py) | keys, nonces seen per principal | `authenticate`, `consume` | the clock |
| `ApprovalVerifier` (approval.py) | nonces and escalations consumed | `verify`, `consume` | an audit log, optionally; not called by the mediator |
| contexts and mandates (principal_context.py) | the context bound in each thread | `propagate_for_subagent`, `propagate_for_cron`, `parse_mandate` | `check_capability` |
| provisioning (provisioning.py) | tokens consumed; bindings and seals are the stores' | `require_token`, `bind_token` | registry, key store, policy |
| `ObservationLog` (observation.py) | observations | `record`; the invariants I1, I4, I6 offline | audit chain |
| SQLite stores (persistence.py, serializers.py) | rows with hashes, a connection and its transaction | store, load, revoke, set, close | the database |
| keys (config.py) | key files, environment | get or create | files |
| redaction, client, canonical forms | none | pure | - |

What is hard here:

* **Interleaving.** A call is a dozen separately locked steps. Two calls under
  one escalation id meet in any order (grant.py:166, mediator.py:442, 826).
* **Partial failure.** The audit append comes last. When it fails, some effects
  are rolled back (a redemption) and others are not (a ruling, a policy, a piece
  of evidence).
* **Crash.** The audit file is the only state that survives by itself, and it
  is cut wherever the process died.
* **Stale state.** The role, the policy hash, the flag of the grant and the
  clock are read in one step and used in a later one. So are the copies of the
  capabilities, the context of the thread, the seal of a store and the length of
  the observation log.
* **Transactions left open.** sqlite3 begins a transaction by itself before a
  statement that writes, and nothing in the stores ever rolls one back.

What makes each part correct: an approval is redeemed at most once, only for
what was approved, and is never used up for nothing; the two stores and the
execution log agree; an acknowledged audit entry survives crashes and recovery,
and a cut chain does not pass its anchor; producers, verifiers and authorities
of evidence are different parties in that order; what is delegated does not
exceed what it was delegated from; a sealed store stays as it is; a row that was
acknowledged is in the database; and the checks an auditor runs over the logs do
not accuse a kernel that did right.

`PROJECT.json` lists the hazards at their lines with the properties that cover
them, and says of the two that no property covers why.

## 2. The modules

### Mediator - the escalate, decide, re-enter cycle

`Mediator.tla` models `evaluate`, `reenter`, `decide_escalation` and
`update_policy` over the escalation store, the grant store, the execution log
and the registry. Each thread is in one call (`calls[t]`, the locals of that
call). A call is one action per access to shared state, because nothing holds a
lock over two of them: what the code does under one lock is one action.

| code | variable |
|---|---|
| `Mediator._policy` | `policy`, a hash, or `None` for a policy that blocks PERMIT |
| `CapabilityRegistry._caps` | `caps` |
| `EscalationStore._items` | `escalations` |
| `ReservedGrantStore._items`, `_exec_seq` | `grants`, `execSeq` |
| `ExecutionLog._entries` | `executions` |
| a call's locals | `calls[t]` |
| the PERMITs in the audit chain | `permits` (history) |

| call | its steps |
|---|---|
| `evaluate` | `EvaluateGate`, `EvaluateCheck`, `EvaluateProvenance`; to escalate `CreateEscalation`, `CreatePendingContext`; `Finish` |
| `decide_escalation` | `Authorize`, `MediatorDecide`, `AttachOwnerDecision`, `Finish` |
| `update_policy` | `Authorize`, `AssignPolicy`, `Finish` |
| `reenter` | `GetEscalation`, `ReenterGate`, `LookupGrant`, `ReenterCheck`, `ReenterProvenance`, `ReadPolicyHash`, `ConsumeIfValid`, `Finish`, then `MediatorResolve` or `Unconsume` |
| a refusal by `_gated` | `Refuse`, `Finish` |

Between the steps `SetPolicy`, `Register`, `Lapse` and `Expire` may happen at
any moment.

What the data is reduced to:

* A payload stands for agent, request id, action, domain, level of risk and
  body. They are all under the payload hash; nonce, timestamp, MAC and
  escalation id are not (canonical_request.py, `_PAYLOAD_HASH_EXCLUDE`).
* A capability id stands for one scope. Registering an id again makes it active
  again; an id that changes its contents is modelled as another id, so the
  comparison of `capability_scope_hash` (grant.py:191) is one of ids.
* `check_capability` is reduced to the outcomes the cycle tells apart.
  The selection loop may take any capability with the best outcome, which
  includes the one that registration order picks.
* Provenance is an oracle of each call: a match with some identity, a mismatch,
  or nothing found. All blocking policies are one value.
* A record of the answer that cannot be built (mediator.py:791-812) leaves by
  the same exit as an audit write that failed.
* An id is unknown to clients until the call that made it has answered.
* The stores are in memory: a crash loses all of them and starts at `Init`, so
  it is not an action.

`OneShotGrant.tla` is what clients are promised: raised, ruled on once, redeemed
at most once.

### AuditLog - the chain and its file

`AuditLog.tla` models `AuditLog` and `strict_audit_log` over the lines in the
file. Every operation holds the log's lock, so each is one action. The
interesting part is what is left in the file: a write that raises or a process
that dies leaves nothing, part of a line, the entry without its newline, or the
whole line (`Effects`; the instance chooses which in `FailedWrites` and
`CrashedWrites`), and a write to a file that ends within a line continues that
line. `Open` replays, heals a torn tail and then compares the anchor; `Refuse`
is the constructor that raises, having healed the file or not.
`LoseLines`, `SpoilLine` and `RestoreCopy` are accidents between two openings.

A hash is the number of the write it belongs to: it determines the entry, and
two different entries never share one. MACs and redaction are left out.

### EvidenceJournal - the evidence lifecycle

`EvidenceJournal.tla` models the journal as the mediator drives it. `create`
goes to the journal at once; `verify` and `authorize` first look a role up in
the registry (`SelectCapability`), and the role may be gone or given to somebody
else when the journal is reached (`ChangeRoles` may happen in between). Each
journal operation, with its refusals, is one action. `BindDigest` is called by
the embedding program. The audit append after each operation rolls nothing back
and is left out.

`ProducerSeparation.tla` is the rule the lifecycle promises.

### NonceTracker - a signed request is accepted once

`NonceTracker.tla` models `NonceTracker.consume`, as `Authenticator.authenticate`
calls it for a request whose MAC is right. `ReadClock` is the part before the
lock (the clock reading and the two freshness checks), `Consume` the part under
it; the clock may advance (`Tick`) and other threads may run in between.

| code | variable |
|---|---|
| `_seen_by_principal` | `seen`, per principal in order of insertion |
| `datetime.now` | `clock` |
| `now` and the request of a call that waits for the lock | `calls[t]` |
| the calls that returned True | `accepted` (history) |

The clock is an integer that does not go backwards; a request is its principal,
nonce and timestamp, all under the MAC, so a replay repeats all three. A request
that is malformed or out of its window is refused without a trace. The eviction
loop makes at most one turn, because a principal never has more than the
capacity. A capacity of zero, which refuses everything, is excluded.

### ApprovalVerifier - a signed approval is used once

`ApprovalVerifier.tla` models `ApprovalVerifier.consume`. The checks that
concern the envelope alone (signature, Owner, decision, tool, arguments) refuse
it without a trace, so an envelope here is an escalation, a nonce and a
timestamp. `ReadClock` is the freshness check before the lock. Under the lock
are `RefuseSpent`, `Consume`, and `ConsumeUnaudited` when the audit append
raises, with the event in the chain (`"late"`) or not (`"failed"`). `Restart`
loses the tables and keeps the chain.

| code | variable |
|---|---|
| `_consumed_nonces` | `nonces`, in order of insertion |
| `_consumed_escalations` | `consumed` |
| `datetime.now` | `clock` |
| the `approval_consumed` events in the audit chain | `audited` |
| the calls that answered valid, with the life of the process | `approved` (history) |

The verifier is one that was given an audit log. `verify` changes nothing, and
the mediator does not call this path.

### Delegation - contexts, mandates and the check of a capability

`Delegation.tla` models how contexts are made (`Begin`, `PropagateForCron`,
`PropagateForSubagent`), the full table of `check_capability`
(`CheckCapability`), and an evaluation in its steps: `ReadCapabilities` takes
detached copies of the principal's capabilities, `ReadGranted` those of a granted
re-entry (one, which may have lapsed); `Check` runs the loop over them under the
context that is bound and by one reading of the clock, where the code reads it anew
for each capability (mediator.py:241-254; the loop is pure otherwise); `Record` writes the audit
record, by when the thread may have another context. The clock (`Elapse`) and
the registry (`RevokeHeld`) move in between.

| code | variable |
|---|---|
| the `PrincipalContext` objects made so far | `contexts`, with the contexts above each (history) |
| `require_principal_context` | `required` |
| capabilities with a `revoked_at` | `revoked` (the capabilities themselves are the constant `Held`) |
| `datetime.now` | `time` |
| the copies, answers and frame of a call | `evaluation[t]` |

The ContextVar of a thread is its caller's affair, so whatever is bound when it
is read is chosen anew (`Bindable`); `set_principal_context`, `clear` and the
scope need no action. A mandate is a scope and an expiry, or `NoMandate` (None and
the empty string, which parse alike), or `Unreadable`. The structural validity
of a capability is what `register` has checked.

### Provisioning - tokens, bindings and seals

`Provisioning.tla` models the registry, the key store and the policy behind a
`ProvisioningToken`. A call is one step for each access to a shared field:
`RequireToken` (is the token spent, is the store sealed), `CompareToken` and
`AssignToken` (the two halves of binding), `CheckRegistration` (the Owner's key
is not there yet), then `Register`, `Revoke` or `Seal`, and `Consume`.
`SelectDecider` and `UpdatePolicy` are the Owner's mediated `update_policy`,
which needs no token and does not ask for the seal.

| code | variable |
|---|---|
| `ProvisioningToken._consumed` | `consumed` |
| `_sealed` of the stores, `_policy_sealed` | `sealed` |
| `_bound_id` of the stores, `_policy_bound_id` | `boundId` |
| one capability, the Owner's key, the policy | `content` |
| a call's locals | `provision[w]` |
| a seal of its store came since its token was accepted (`Overtake`) | `provision[w].ahead` (history) |
| the Owner's key was stored since it found none (`OvertakeRegistrations`) | `provision[w].replacing` (history) |

### Observations - the log before the decision, and the checks over the logs

`Observations.tla` models `Mediator._gated` and `_finish` for what they leave in
the logs: the carrier of the number in flight is cleared (`Receive`), the call is
refused or authenticated, its observation recorded in two steps (`ReadLength`,
`AppendObservation`) or not at all, a grant may be redeemed (`Redeem`), and the
audit record that cites the observation is written or fails. The checks of an
auditor, `check_invariants` (I1, I4, I6) and `check_execution_invariant` (I5), are
operators evaluated in every state: he may look at any moment.

A request may come without an id. Its observation holds None (mediator.py:200); its
grant, and from that its execution, holds the empty string (`GrantedId`;
mediator.py:392 and 652, grant.py:222-226). An execution remembers the id with which
its call came in `asked` (history). An id that is not a string, which `str()` alters
in the same way, behaves as a missing one does and is left out.

### Persistence - the SQLite stores

`Persistence.tla` models the four stores over one file, statement by statement,
with the connection's transaction: not open, begun with nothing read, reading a
snapshot, or writing. What SQLite promises in WAL mode is the environment and is
marked external in the map: one writer at a time, a reader that must have read
the last state in order to write, a snapshot that stays. A write that is refused
(`RefuseWrite`) has executed its BEGIN; a commit that raises (`FailCommit`) leaves
the transaction open or rolled back; `Lose` is `close` or the death of the process
at any statement, `Connect` a new store object. A row is its terms, a mark (the
revocation of a capability, the digest of a record) and the hash, which stands for
what it was computed from. A loss of power under synchronous=NORMAL is left to
SQLite.

| code | variable |
|---|---|
| the database file | `wal`, the states it went through, the committed one last |
| the connection's transaction | `txn[s]`, `draft` for the one that writes |
| `SQLiteStore._conn` | `opened[s]` |
| a call between its statements | `storing[s]` |
| what callers were told | `promised`, `attempted`, `raised` (history) |

### MCSupport - one run for the four

The four modules share no variable, and what one of them can do does not depend on
the others. `MCSupport.tla` therefore checks them in one run as a disjoint sum:
`active`, chosen at the start, is the one that moves and the others rest in an
initial state. Every behaviour of each is a behaviour of the sum, and a property of
one is a property of the sum, because it holds in the initial states where it rests.
`MCDelegation`, `MCProvisioning` and `MCObservations` hold the instances of the three
that a run of their own uses too.

### MCRecords - one run for three records

`MCRecords.tla` does the same for `AuditLog`, `ApprovalVerifier` and
`EvidenceJournal`, in the run `records`. Consumers, threads and principals other than
the Owner are interchangeable; no property of that run is a liveness property.

## 3. What is checked

| run | instance | states | shows |
|---|---|---|---|
| `redemption` | 2 threads, 1 escalation, audit always written, 4 calls | 0.67M | `TypeOK`, and the refinement `ImplementsOneShotGrant` |
| `audit_failing` | 2 threads, a request that needs no Owner until the policy blocks or provenance is missing, audit written or failed, 4 calls | 1.1M | `StoresAgree`, `LogMatchesGrants`, `ApprovalNotLost` |
| `bindings` | 1 thread, 2 payloads, 2 policies, 2 identities, re-issued capability, all audit outcomes, 5 calls | 1.6M | `PermitWasApproved`, `RedeemedAtMostOnce` |
| `double_redemption` | 2 threads, audit may fail | violated | `RedeemedAtMostOnce` fails, see below |
| `audit_torn` | 4 writes; a crash may also leave an entry without its newline | violated | `AcknowledgedSurvive` fails, see below |
| `records` | the audit log: 4 writes, 2 accidents; failures leave nothing, crashes leave nothing, a part or all. Approvals: 2 consumers, 2 escalations, 2 nonces, TTL 1, clock to 2, 1 restart, all audit outcomes, 3 events. Evidence: 2 threads, 3 principals with the Owner, 1 piece of evidence, 5 calls or bindings | 1.3M | `TypeOK`, `AcknowledgedSurvive`, `HeadIsTheFile`, `Reopens`, `AnchorHolds`; `ApprovalTypeOK`, `SingleUse`, `NonceUsedOnce`, `NothingBurned`, `UsesAreAudited`; `EvidenceTypeOK`, `JournalTellsRecords`, `DigestBeforeVerdict`, and the refinement `SeparatesProducers` |
| `nonces` | 2 threads, 1 principal, 3 nonces, capacity 2, TTL 1, skew 1, clock to 3 | 2.7M | `TypeOK`, `RememberedWhileFresh`, `NoFreshReplay` |
| `nonce_race` | the same | violated | `AcceptedOnce` fails, see below |
| `support` | two stores, 3 writes or losses, one row per table; 3 contexts (1 root), 4 mandates, 2 capabilities, 2 requests, clock to 1, 1 thread; 2 threads, 2 tokens, 3 provisioning calls; 2 threads, 2 principals under one request id and one of them without an id, 3 requests | 1.0M | four type invariants; `AcknowledgedRows`, `IntegrityUnlessRaced`, `ReadsAreCurrent`; `AllowedByTheLineage`, `AllowedByALiveCapability`, `DecidesByTheBest`, `RecordNamesTheCheck`; `OnlyTheBootstrapToken`, `SealedStaysAsItIs`, `OwnerKeyStays`; `CitesItsObservation`, `AlarmsNeedOverlap`, `ExecutionAlarmHasACause`, `ObservedIsEnforced` |
| `delegated_authority` | the contexts of `support` | violated | `ChildWithinParent` fails, see below |
| `sealed_policy` | 1 thread, 3 calls: no race | violated | `SealedPolicyIsImmutable` fails, see below |
| `unnamed_request` | 1 thread, 1 request | violated | `AlarmMeansUnseen` fails, see below |

**Bounds.** `MaxCalls` bounds the calls of a behaviour, `MaxWrites` the writes to
the audit file, `MaxDamage` the accidents. Four calls are an evaluation, a ruling
and two re-entries, that is, the whole cycle and everything that can disturb it;
the fifth of `bindings` is a policy update or another re-entry. One escalation
suffices because a call touches the record, the grant and the log entries of its
own id only; the proofs confirm it for any number. When `Escalations` has no
free id left, a call that escalates waits: an artefact of the bound, harmless to
safety. Four writes allow a torn entry, one after it and a reopening on each
side. Five calls of the evidence lifecycle are a creation, a failed verification, a
verification, an authorization and a binding. A capacity of two with three
nonces fills a table whose insertion order is not the order of its timestamps,
and a clock of `MaxTTL + 2` lets a reading be late by more than a TTL. Three
events in the audit chain are a use, a late failure and a retry or a use in the
next life. Three
contexts are a root, a child and a grandchild, with a mandate that expires, none,
an unreadable one and one for everything; the two capabilities make the first copy
lose to the second in every way the loop knows. Three provisioning calls are a
registration, a seal and what either can overtake; three requests are two that
overlap and one that follows on the thread of the first; there are three kinds of
request, of two principals under one id and of one of them without an id. Two stores with three
writes or losses reach a write that is refused, a commit that fails and the commit
after it, and a revocation that another store overtakes. Deadlock is checked in
every run but `support`, `delegated_authority`, `sealed_policy` and
`unnamed_request`, whose components come to rest when their bounds are used up (a
thread with no further request, a revoked registry at the end of time); elsewhere
what is left when the bounds are used up (the environment, a copy of the file) can still happen.

**Fairness.** `ObservationsSpec` assumes weak fairness of `Serve(t)` for each thread:
a thread that has a request goes on with it. Between the gate and the verdict a call
waits for nothing but locks that are held for a few statements, and `_gated` turns
every exception of a handler into a call of `_finish` (mediator.py:177), so this is
the fairness of the thread scheduler alone. It does not say that requests come in,
nor that the audit write succeeds. From it follows `ObservedIsEnforced`: what was
observed is cited by the audit chain, or belongs to a call whose audit write failed.
Nothing else is assumed fair. In particular no code makes a requester come back, so
that an approved escalation is ever redeemed is not claimed.

**What the conditions in the properties of `support` say.** They are as strong as
the code allows; each exception is a schedule that TLC finds when it is dropped.

* `SealedStaysAsItIs` is about calls that have to show a token, and excepts those
  that had passed `require_token` when the seal came: the seal is checked outside the
  lock (capability.py:158), so such a write after a seal does happen, against
  docs/API.md:122. The Owner's `update_policy`, which shows no token, is the subject
  of `SealedPolicyIsImmutable`, which fails (finding 5).
* `OwnerKeyStays` excepts a registration that had looked for the key, and found none,
  before it was stored (authentication.py:122); a seal or a call that had not looked
  yet is no excuse.
* `OnlyTheBootstrapToken` is about stores that were constructed with a token.
* `ReadsAreCurrent` excepts stores with a write that raised and none that went
  through since: a refused write leaves its BEGIN open, the next read pins a
  snapshot, and when another store has committed, this one reads old rows (missed
  revocations among them) and can write no more until it is closed.
* `AcknowledgedRows` admits a row whose commit raised: a later commit of the same
  store object commits it too.
* `IntegrityUnlessRaced` excepts a revocation overtaken between its SELECT, which
  runs outside any transaction, and its UPDATE; persistence.py:200 asks for "the
  same transaction".
* `AlarmsNeedOverlap` and `ExecutionAlarmHasACause` name when the offline checks
  accuse a kernel that did right: two requests in hand at once (I4, I6), an
  observation lost, a request without an id, or a request id used by two principals
  (I5). The second cause of I5 is finding 6.

Some hazards lie in what a property excepts: the property then confines the hazard
and does not exclude it. The list in `PROJECT.json` says so at each of them.

### Findings

1. **An approval redeemed twice** (`double_redemption`). `_finish` rolls back
   the grant of its escalation id when its own audit write fails
   (mediator.py:824-828), and `unconsume` gives back any consumed grant,
   whoever consumed it (grant.py:237-255). Thread 1 redeems and its PERMIT is
   audited; thread 2, denied under the same id because the grant is consumed,
   fails to write its DENY and rolls back thread 1's redemption; before thread 1
   resolves the record, the request comes back and is permitted again.
   README.md:32-33 says exactly once.
2. **An acknowledged entry lost** (`audit_torn`). A crash that leaves the
   complete JSON without its newline is not healed, since the reader strips
   lines. The next entry goes onto the same line and its hash is returned; the
   next opening takes that line for a torn tail and removes both.
3. **A request accepted twice** (`nonce_race`). `consume` reads the clock before
   the lock and evicts by that reading under it (authentication.py:72, 91-96).
   A copy of a request that arrives in its last fresh instant waits for the
   lock while another thread, with a later reading and a full table, evicts the
   request's nonce; the copy then does not find its nonce, its older
   reading makes room by evicting an entry with an earlier timestamp that was
   inserted later, and it is accepted. The same schedule reproduces in Python with
   the clock and the lock instrumented. By then the request is too old by the
   clock, which is why `NoFreshReplay` holds.
4. **A child with more than its parent** (`delegated_authority`).
   `propagate_for_subagent` compares the mandates only when both can be read
   (principal_context.py:135): a subagent of a context without a mandate, or with
   an unreadable one, keeps what it is offered; and expiry is not compared.
   principal_context.py:121 says that the child's mandate must be a subset. What
   does hold, and is proved, is `DelegationNarrows`.

5. **A sealed policy replaced** (`sealed_policy`). docs/API.md:92 says that after
   `seal_policy` "the policy is immutable", and docs/API.md:87 that `update_policy`
   replaces it "if the policy is not sealed". `_update_policy_authenticated` assigns
   the policy (mediator.py:490) without reading `_policy_sealed`. No race is needed:
   one thread seals and updates.
6. **An observed execution reported as unseen** (`unnamed_request`). A request
   without an id, which the schema allows (mediator.py:215-217), is observed under
   None and executed under the empty string. I5 looks the execution's id up among
   those of the observations (execution.py:160-172), finds nothing, and reports
   VIOLATED with "Something ran that the kernel has no record of seeing"
   (execution.py:189-190), though the observation is in the log.

Also seen, outside the runs: `evidence_to_persist` does not store the digest of a
record, while the head of serializers.py promises "semantically lossless
round-trips" (`EvidenceToPersist` in Persistence). With `FailedWrites` containing
`"whole"` (the fsync fails after the line was written) the object's count lags behind its file,
the next entry repeats a sequence number, and the log refuses to reopen. And a
full nonce table refuses a new nonce although an entry inserted later has
expired, because only the oldest inserted is looked at (authentication.py:91-96).

## 4. What is proved

Each `*Proofs` module extends its component and TLAPS; `SupportProofs` extends the
composition of the four supporting components, and the proofs of two of them. Every
invariant and every action property of the passing runs is stated by a theorem.

**MediatorProofs** proves, for any number of threads, escalations, payloads,
capabilities and policies:

* `Typing`: `Spec => []TypeOK`. The induction needs more than types: which
  locals of a call are defined at each of its steps (`LocalsDefined`), for
  instance that a call at "consume" has an escalation.
* `StoresAlwaysAgree`: `StoresAgree` is not inductive, since a ruling is in
  flight between the two stores. `RulingInv` says who may be at "attach": at
  most one call, for a record that is decided, with that record's decision.
* `LogAlwaysMatchesGrants`: that the standing records are those of `execSeq` is
  preserved by each of the two steps that touch them, whatever calls run them.
* `PermitsAreApproved`: `ClaimsHold` says for each step of a re-entry what the
  call has established so far and that it stays true while other calls run:
  bindings of a grant never change once reserved, rulings never change once
  given.
* `OneRedemptionEach` and `TheCycleIsOneShot` (the refinement of `OneShotGrant`)
  assume that no audit write raises: then nothing is rolled back, and the consumed
  flag of a grant counts its redeemer (`OneRedemption`). Without an assumption they
  are false, which is the first finding.
* `LoneReentriesRedeemOnce` and `LoneReentriesAreOneShot` conclude the same with
  audit writes that may fail as they like, while no two re-entries of one escalation
  are in flight together (`OneReentryEach`): rollbacks, rulings and re-entries of
  other escalations may interleave with one. `SoloInv` says that a re-entry on its
  way to a redemption is the first of its escalation, and that a PERMIT is followed
  by the resolution of its record, so that a grant given back too late is not looked
  up again. Together the theorems place the first finding: it takes a failed audit
  write and a second re-entry under way. The hypothesis is one a client can meet (do
  not retry before the answer); nothing in the kernel enforces it.
* `ApprovalsAreNotLost`: a consumed grant belongs to a decided record that is
  resolved, or to a call in flight that will resolve it or give the grant back
  (`ConsumptionIsHeld`). It assumes that an audit record, once written, has a
  hash: one without is denied with the grant left consumed (mediator.py:852).

**AuditLogProofs** proves `AuditTyping` with no assumption, and under the named
hypothesis `CleanFaults` `NothingAcknowledgedIsLost`, `ItAlwaysReopens`,
`TheHeadIsTheFile` and `TheAnchorHolds`. `CleanFaults` says that a write that
raises leaves nothing and that a crash never leaves an entry without its newline:
it is weaker than "no faults", says nothing of accidents to the file, and excludes
the second finding and the write that raises with its line already whole.

* While no accident has happened, the file is a chain of some length `n` followed
  by at most one broken line, and the memory of an open log is its head (`IInv`);
  the lemmas about `Verified` and `Healed` show that replay finds that `n`.
* Whatever happened to the file, an open log continues the chain in it, and what
  was anchored is a chain with which an open log under its anchor begins (`DInv`).
  verify_prefix compares one position and one hash; that this is enough is
  `SameChain`: two chains with the same hash at one position are equal up to it,
  since of the first positions where they differ, counted back from the end,
  there is a least (`LeastNumber`, from the well-foundedness of the naturals).
  It rests on `HashesTell`: among the entries in the file, the copy and the
  anchored list, no two have one hash.

**EvidenceProofs** proves `EvidenceTyping` and `ProducersAreSeparated`, the
refinement of `ProducerSeparation`. The refinement mapping reads the parties off
the records; the invariant adds that a record's state and the parties it names
go together (`Complete`) and that a call in the journal names evidence and an
actor (`CallsKnown`). `RecordsAreTold` and `DigestIsBoundFirst` are about the journal
as the history of its records: each field of a record is what the last event of its
kind says, and a digest is bound once, before any verdict or authorization
(`TellsAll`). Five
lemmas show what one more event does to that: the creation, the digest, the verdict
and the authorization each to its own part, and an event of other evidence nothing.

**NonceProofs** proves, for any number of threads, principals and nonces and any
capacity, TTL and skew, `NonceTyping`, `FreshIsRemembered` and
`NoReplayWhileFresh`. The invariant adds what a waiting call knows
(`ReadingsArePast`): its reading is not ahead of the clock, so what it takes for
expired is. `ReadingOrderAcceptsOnce` proves that no request is ever accepted twice,
fresh or not, when the threads of a principal take the lock in the order of their
readings (`InReadingOrder`, an action every step is to satisfy): then no eviction goes
by a later reading than that of a call still waiting, whose own request stays in the
table if it was accepted before (`OnceInv`, `AcceptanceHolds`). Reading the clock
under the lock would make it so; the kernel reads it before, which is the third
finding.

**ApprovalProofs** proves `ApprovalTyping`, `ApprovalUsedOnce`,
`FailureBurnsNothing`, `NonceServesOnce` and `UsesStayAudited`. `SingleUse` is about
the history alone; what makes it inductive is `UsesStayConsumed`, that every use in
this life of the process is still in `_consumed_escalations`, which eviction and
rollback leave alone. For `NonceUsedOnce` the invariant follows the nonce instead: of
every use in this life the nonce is still held, or too old by the clock
(`FreshUsesAreHeld`), since eviction goes by a reading that is not ahead of the clock
(`ReadingsArePast`, `ForgottenAreExpired`). `UsesAreAudited` counts: a step that adds a
use adds an event of the same escalation, and one that adds only an event does no harm
(`SaidOfAppend`, `AuditsStep`).

**DelegationProofs** proves, for any number of contexts, capabilities, requests and
threads, `DelegationTyping`, `DelegationNarrows` (`NarrowsDownTheLineage`: where all
mandates can be read, none reaches further than any above it), and from it
`AllowedWithinTheLineage`; `AllowsAreLive`, `TheBestDecides` and
`RecordsNameTheCheck`. The invariant carries with every answer what the check knew
when it gave it (`Granted`, `FrameOf`); contexts are never changed, so
`ContextsGrow` keeps it true while everything else moves. That the loop's first
answer exists (`FirstIsIn`) is the well-foundedness of the naturals.

**ProvisioningProofs** proves `ProvisioningTyping`, `BootstrapTokenBinds`, `SealHolds`
and `OwnerKeyHolds`, the last two as action properties. The invariant says what a
call past its checks knows: its token is the one the store was constructed with
(`BindingHolds`), and the store is unsealed, or the Owner's key absent, unless it
has been overtaken by a seal (`SealOvertakes`) or by the storing of the key
(`OwnerKeyOvertakes`). `OvertakeMarks` and `RegistrationsMarked` say that being marked
changes nothing else of a call.

**SupportProofs** proves of Observations `ObservationsTyping`, `EntriesCiteTheirs`,
`ExecutionAlarms` and `AlarmsMeanOverlap`, for any number of threads and calls, and of
Persistence `StoresTyping`, `NothingAcknowledgedIsLost`, `HashesHold` and
`ReadsStayCurrent`, for any number of stores, rows and failures. Those of Observations
rest on what the carrier holds: a call that has been observed carries the number of
its own observation (`Carries`), whatever other threads append meanwhile, so an
execution names its own, by the id that the call came with, and holds the string made
of that id (`ExecutionsNameTheirs`); where an id was given the two are the same, which
is why `ExecutionAlarms` can rule such an execution out. Those of Persistence rest on
the one write transaction the file allows (`OneWriter`) and on what it would commit
(`DraftFits`): rows that were acknowledged or attempted, but for the row of the call
in commit. A store whose calls have not raised is outside any transaction between
calls (`RestsAutomatic`), which is why it reads what is current; and what a revocation
selected is still as it was, unless it is marked as overtaken (`RevocationsFit`).

`AlarmsMeanOverlap` needs also the order of the two logs: as long as no two requests were
observed together, at most one observation is in hand and it is the last, observations
are numbered as they stand, and executions cite them in order (`Ordered`).

`EachMovesAsAlone` shows that the composition of MCSupport implements the specification
of each of the four components, so that what is proved of one alone holds of it;
`SupportTyping` is its first use.

Out of the prover's reach and left to TLC: liveness under fairness and ENABLED, which
is `ObservedIsEnforced`. No module declares a RECURSIVE operator, and no proof is by
induction over data: where an argument runs along a sequence, it takes the least of the
positions that matter.

## 5. The plan

Done: the cycle, the audit chain, the evidence lifecycle, nonces and approvals;
delegation, provisioning, observations and persistence. All that keeps state in the
kernel and decides something is modelled, and every invariant and action property
that a passing run checks is proved. What is left is to prove more than the runs ask:

1. Of the audit log, what survives the faults `CleanFaults` excludes: after the second
   finding's crash, how much an opening can remove at most.
2. For Persistence, that the four tables behave as one abstract table each.

Not modelled, with reasons:

* **Key configuration** (config.py): start-up code of one process, with one place to
  crash in; what it hands over is constants of the modules.
* **Redaction and canonical forms** (redaction.py, canonical.py): pure text, no state.
* **Client** (client.py): builds and signs requests. **Scripts**: tooling about the
  kernel.
* **git behind the provenance checker**, MACs and signatures: an oracle, and assumed
  to be unforgeable.
* **A loss of power** under the stores' synchronous=NORMAL: SQLite's affair.
* The repository's `formal/` directory holds a model of its own of governance
  transitions, which does not follow the code operation by operation; nothing here is
  derived from it.
