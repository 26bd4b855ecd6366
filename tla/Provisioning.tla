---------------------------- MODULE Provisioning ----------------------------
(***************************************************************************)
(* The stores that a ProvisioningToken opens (provisioning.py): the        *)
(* capability registry (capability.py), the key store (authentication.py)  *)
(* and the policy of the mediator (mediator.py), with the Owner's own      *)
(* update_policy, which needs no token.  require_token, the binding of the *)
(* token and the write are separate accesses to shared fields, without a   *)
(* lock but for the write of the registry, so calls interleave at each.    *)
(***************************************************************************)
EXTENDS Naturals, FiniteSets

CONSTANTS
  Workers,         \* the threads that provision
  Tokens,          \* provisioning tokens
  Bootstrap,       \* the token a store was constructed with, or Unbound
  Unbound,         \* no token
  Contents,        \* capabilities, keys or policies, per store
  Absent,          \* nothing registered
  Withdrawn,       \* a capability with a revoked_at
  MaxProvisions    \* bound on the calls started

Provisioned == {"registry", "keys", "policy"}

ASSUME ProvisioningAssumption ==
  /\ Bootstrap \in [Provisioned -> Tokens \cup {Unbound}]
  /\ Unbound \notin Tokens
  /\ {Absent, Withdrawn} \cap Contents = {}
  /\ MaxProvisions \in Nat

VARIABLES
  consumed,    \* ProvisioningToken._consumed
  sealed,      \* _sealed of the two stores, _policy_sealed
  boundId,     \* _bound_id of the two stores, _policy_bound_id
  content,     \* one capability of role R-DEC, the Owner's key, the policy
  provision,   \* the call each thread is in
  provisions,  \* how many calls have started (for MaxProvisions)
  writers,     \* history: the tokens that a store was written with
  updates      \* history: how often the Owner has updated the policy

provisioningVars ==
  <<consumed, sealed, boundId, content, provision, provisions, writers, updates>>

Operations == [registry |-> {"register", "revoke", "seal"},
               keys |-> {"register", "seal"},
               policy |-> {"register", "seal"}]

\* value is what a call registers, Absent for the others.  History: ahead, its
\* store was sealed since its token was accepted; replacing, the Owner's key
\* was stored since it found none.
Steps == {"require", "bind", "assign", "check", "write", "consume"}

Done == <<>>

ProvisioningInit ==
  /\ consumed = {}
  /\ sealed = [s \in Provisioned |-> FALSE]
  /\ boundId = Bootstrap
  /\ content = [s \in Provisioned |-> Absent]
  /\ provision = [w \in Workers |-> Done]
  /\ provisions = 0
  /\ writers = [s \in Provisioned |-> {}]
  /\ updates = 0

-----------------------------------------------------------------------------

In(w, step) == provision[w] # Done /\ provision[w].step = step

Goto(w, step) == provision' = [provision EXCEPT ![w].step = step]

\* The call ends, whether it returns or raises.
End(w) == provision' = [provision EXCEPT ![w] = Done]

Call(w, s, operation, token, value) ==
  /\ provision[w] = Done
  /\ provisions < MaxProvisions
  /\ provisions' = provisions + 1
  /\ provision' = [provision EXCEPT ![w] =
       [store |-> s, operation |-> operation, token |-> token, value |-> value,
        step |-> "require", ahead |-> FALSE, replacing |-> FALSE]]
  /\ UNCHANGED <<consumed, sealed, boundId, content, writers, updates>>

\* Defect: the seal is not looked at.
Unspent(s, token) == token \notin consumed

\* require_token: ProvisioningError for a spent token or a sealed store.
Usable(s, token) == token \notin consumed /\ ~sealed[s]

RequireToken(w) ==
  /\ In(w, "require")
  /\ LET c == provision[w]
     IN  IF Usable(c.store, c.token) THEN Goto(w, "bind") ELSE End(w)
  /\ UNCHANGED <<consumed, sealed, boundId, content, provisions, writers, updates>>

\* Defect: any token is bound.
BindAnyToken(s, token) == TRUE

\* bind_token: another token than the one bound is refused ...
BindToken(s, token) == boundId[s] \in {Unbound, token}

CompareToken(w) ==
  /\ In(w, "bind")
  /\ LET c == provision[w]
     IN  IF BindToken(c.store, c.token) THEN Goto(w, "assign") ELSE End(w)
  /\ UNCHANGED <<consumed, sealed, boundId, content, provisions, writers, updates>>

\* ... and the caller assigns what it returns, whatever is bound by then.
AssignToken(w) ==
  /\ In(w, "assign")
  /\ LET c == provision[w]
     IN  /\ boundId' = [boundId EXCEPT ![c.store] = c.token]
         /\ Goto(w, IF c.operation = "register" THEN "check" ELSE "write")
  /\ UNCHANGED <<consumed, sealed, content, provisions, writers, updates>>

\* Defect: any registration is taken.
NeverRefused(s) == FALSE

\* register of the key store refuses to replace the Owner's credentials.
Refused(s) == s = "keys" /\ content[s] # Absent

CheckRegistration(w) ==
  /\ In(w, "check")
  /\ IF Refused(provision[w].store) THEN End(w) ELSE Goto(w, "write")
  /\ UNCHANGED <<consumed, sealed, boundId, content, provisions, writers, updates>>

\* The registrations that had found no key when the Owner's was stored have
\* been overtaken by it ...
OvertakeRegistrations(w) ==
  [v \in Workers |->
     IF v = w THEN Done
     ELSE IF /\ In(v, "write")
             /\ provision[v].store = "keys" /\ provision[v].operation = "register"
     THEN [provision[v] EXCEPT !.replacing = TRUE]
     ELSE provision[v]]

\* ... and by a seal the calls on the store that were past require_token.
Overtake(w, s) ==
  [v \in Workers |->
     IF v = w THEN Done
     ELSE IF provision[v] # Done /\ provision[v].store = s
               /\ provision[v].step \notin {"require", "consume"}
     THEN [provision[v] EXCEPT !.ahead = TRUE]
     ELSE provision[v]]

Put(w, s, value) ==
  /\ content' = [content EXCEPT ![s] = value]
  /\ writers' = [writers EXCEPT ![s] = @ \cup {provision[w].token}]

\* register of either store, and set_policy.
Register(w) ==
  /\ In(w, "write") /\ provision[w].operation = "register"
  /\ LET c == provision[w]
     IN  /\ Put(w, c.store, c.value)
         /\ IF c.store = "keys"
            THEN provision' = OvertakeRegistrations(w)
            ELSE End(w)
  /\ UNCHANGED <<consumed, sealed, boundId, provisions, updates>>

\* revoke: KeyError when there is no such capability.
Revoke(w) ==
  /\ In(w, "write") /\ provision[w].operation = "revoke"
  /\ IF content["registry"] = Absent
     THEN UNCHANGED <<content, writers>>
     ELSE Put(w, "registry", Withdrawn)
  /\ End(w)
  /\ UNCHANGED <<consumed, sealed, boundId, provisions, updates>>

\* seal of the two stores; seal_policy leaves the token as it is.
Seal(w) ==
  /\ In(w, "write") /\ provision[w].operation = "seal"
  /\ LET s == provision[w].store
     IN  /\ sealed' = [sealed EXCEPT ![s] = TRUE]
         /\ provision' =
              IF s = "policy" THEN Overtake(w, s)
              ELSE [Overtake(w, s) EXCEPT ![w] =
                      [provision[w] EXCEPT !.step = "consume"]]
  /\ UNCHANGED <<consumed, boundId, content, provisions, writers, updates>>

\* _consume: raises when another seal has consumed the token meanwhile.
Consume(w) ==
  /\ In(w, "consume")
  /\ consumed' = consumed \cup {provision[w].token}
  /\ End(w)
  /\ UNCHANGED <<sealed, boundId, content, provisions, writers, updates>>

-----------------------------------------------------------------------------
\* update_policy by the Owner: his capability of role R-DEC is selected, and
\* the policy is assigned later; the seal of the policy is not consulted.

SelectDecider(w, value) ==
  /\ provision[w] = Done
  /\ provisions < MaxProvisions
  /\ content["registry"] \in Contents
  /\ provisions' = provisions + 1
  /\ provision' = [provision EXCEPT ![w] =
       [store |-> "policy", operation |-> "update", token |-> Unbound,
        value |-> value, step |-> "write", ahead |-> FALSE,
        replacing |-> FALSE]]
  /\ UNCHANGED <<consumed, sealed, boundId, content, writers, updates>>

UpdatePolicy(w) ==
  /\ In(w, "write") /\ provision[w].operation = "update"
  /\ content' = [content EXCEPT !["policy"] = provision[w].value]
  /\ updates' = updates + 1
  /\ End(w)
  /\ UNCHANGED <<consumed, sealed, boundId, provisions, writers>>

ProvisioningNext ==
  \E w \in Workers :
    \/ \E s \in Provisioned, token \in Tokens :
         \/ \E value \in Contents : Call(w, s, "register", token, value)
         \/ \E operation \in Operations[s] \ {"register"} :
              Call(w, s, operation, token, Absent)
    \/ RequireToken(w) \/ CompareToken(w) \/ AssignToken(w)
    \/ CheckRegistration(w) \/ Register(w) \/ Revoke(w)
    \/ Seal(w) \/ Consume(w)
    \/ \E value \in Contents : SelectDecider(w, value) \/ UpdatePolicy(w)

ProvisioningSpec == ProvisioningInit /\ [][ProvisioningNext]_provisioningVars

-----------------------------------------------------------------------------

Provision ==
  [store: Provisioned, operation: {"register", "revoke", "seal", "update"},
   token: Tokens \cup {Unbound}, value: Contents \cup {Absent}, step: Steps,
   ahead: BOOLEAN, replacing: BOOLEAN]

ProvisioningTypeOK ==
  /\ consumed \in SUBSET Tokens
  /\ sealed \in [Provisioned -> BOOLEAN]
  /\ boundId \in [Provisioned -> Tokens \cup {Unbound}]
  /\ content \in [Provisioned -> Contents \cup {Absent, Withdrawn}]
  /\ provision \in [Workers -> Provision \cup {Done}]
  /\ provisions \in 0..MaxProvisions
  /\ writers \in [Provisioned -> SUBSET Tokens]
  /\ updates \in Nat

\* After a seal no call that has to show a token changes the store, unless it
\* was past require_token when the seal came.  The Owner's update shows none:
\* SealedPolicyIsImmutable is about it.
SealedStaysAsItIs ==
  [][\A s \in Provisioned :
       sealed[s] /\ content'[s] # content[s] /\ updates' = updates =>
         \E w \in Workers : /\ provision[w] # Done /\ provision'[w] = Done
                            /\ provision[w].store = s
                            /\ provision[w].ahead]_provisioningVars

\* What docs/API.md says of seal_policy: after it, the policy is immutable.
SealedPolicyIsImmutable ==
  [][sealed["policy"] => content'["policy"] = content["policy"]]_provisioningVars

\* The Owner's key, once stored, is replaced only by a registration that had
\* looked for it before it was stored.
OwnerKeyStays ==
  [][/\ content["keys"] # Absent
     /\ content'["keys"] # content["keys"]
     => \E w \in Workers : /\ provision[w] # Done /\ provision'[w] = Done
                           /\ provision[w].store = "keys"
                           /\ provision[w].replacing]_provisioningVars

\* A store constructed with a token is never written with another.
OnlyTheBootstrapToken ==
  \A s \in Provisioned :
    Bootstrap[s] # Unbound => writers[s] \subseteq {Bootstrap[s]}

=============================================================================
