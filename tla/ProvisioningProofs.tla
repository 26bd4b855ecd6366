------------------------- MODULE ProvisioningProofs -------------------------
(***************************************************************************)
(* Theorems about Provisioning, for any number of threads, tokens and      *)
(* calls.  The invariant says what a call that is past its checks knows:   *)
(* that its token is the one the store was constructed with, and that the  *)
(* store is as it has seen it unless it has been overtaken.                *)
(***************************************************************************)
EXTENDS Provisioning, TLAPS

\* A call that needs a token and has had it compared with the bound one.
Compared(w) ==
  /\ provision[w] # Done
  /\ provision[w].operation # "update"
  /\ provision[w].step \notin {"require", "bind"}

\* Only the Owner's update needs no token, and only capabilities are revoked.
CallsFit ==
  \A w \in Workers : provision[w] # Done =>
    /\ provision[w].operation = "revoke" => provision[w].store = "registry"
    /\ provision[w].operation = "update" =>
         provision[w].store = "policy" /\ provision[w].step = "write"
    /\ provision[w].operation = "update" <=> provision[w].token = Unbound

BindingHolds ==
  \A s \in Provisioned : Bootstrap[s] # Unbound =>
    /\ boundId[s] = Bootstrap[s]
    /\ \A w \in Workers : Compared(w) /\ provision[w].store = s =>
         provision[w].token = Bootstrap[s]

SealOvertakes ==
  \A w \in Workers :
    /\ provision[w] # Done
    /\ provision[w].operation # "update"
    /\ provision[w].step \notin {"require", "consume"}
    /\ sealed[provision[w].store]
    => provision[w].ahead

OwnerKeyOvertakes ==
  \A w \in Workers :
    /\ In(w, "write")
    /\ provision[w].operation = "register"
    /\ provision[w].store = "keys"
    /\ content["keys"] # Absent
    => provision[w].replacing

PInv ==
  /\ ProvisioningTypeOK
  /\ CallsFit
  /\ BindingHolds
  /\ OnlyTheBootstrapToken
  /\ SealOvertakes
  /\ OwnerKeyOvertakes

LEMMA StoresAtFirst == ProvisioningInit => PInv
  BY ProvisioningAssumption
     DEF ProvisioningInit, ProvisioningAssumption, PInv, ProvisioningTypeOK,
         CallsFit, BindingHolds, OnlyTheBootstrapToken, SealOvertakes,
         OwnerKeyOvertakes, Compared, In, Done

\* A step that moves one call and leaves the stores as they are.
LEMMA CallKeeps ==
  ASSUME PInv, NEW w \in Workers, NEW s \in Provisioned,
         NEW operation \in Operations[s], NEW token \in Tokens,
         NEW value \in Contents \cup {Absent},
         Call(w, s, operation, token, value)
  PROVE  PInv'
<1>1. operation \in {"register", "revoke", "seal"}
      /\ (operation = "revoke" => s = "registry")
  BY DEF Operations, Provisioned
<1> DEFINE c == [store |-> s, operation |-> operation, token |-> token,
                 value |-> value, step |-> "require", ahead |-> FALSE,
                 replacing |-> FALSE]
<1>2. c \in Provision /\ c # Done
  BY <1>1 DEF Provision, Steps, Done
<1>3. ProvisioningTypeOK'
  BY <1>2, ProvisioningAssumption
     DEF PInv, ProvisioningTypeOK, Call, ProvisioningAssumption
<1>4. \A v \in Workers : provision'[v] = IF v = w THEN c ELSE provision[v]
  BY DEF PInv, ProvisioningTypeOK, Call
<1> QED
  BY <1>1, <1>2, <1>3, <1>4, ProvisioningAssumption
     DEF PInv, Call, CallsFit, BindingHolds, OnlyTheBootstrapToken,
         SealOvertakes, OwnerKeyOvertakes, Compared, In, ProvisioningAssumption

LEMMA RequireTokenKeeps ==
  ASSUME PInv, NEW w \in Workers, RequireToken(w)
  PROVE  PInv'
<1>1. ProvisioningTypeOK'
  BY ProvisioningAssumption
     DEF PInv, ProvisioningTypeOK, RequireToken, Usable, Goto, End, In,
         CallsFit, Provision, Provisioned, Steps, Done, ProvisioningAssumption
<1>2. CallsFit'
  BY ProvisioningAssumption DEF PInv, ProvisioningTypeOK, RequireToken,
       Usable, Goto, End, In, Provision, Provisioned, Done, CallsFit,
       ProvisioningAssumption
<1>3. BindingHolds'
  BY ProvisioningAssumption DEF PInv, ProvisioningTypeOK, RequireToken,
       Usable, Goto, End, In, Provision, Provisioned, Done, BindingHolds,
       Compared, CallsFit, OnlyTheBootstrapToken, ProvisioningAssumption
<1>4. OnlyTheBootstrapToken'
  BY ProvisioningAssumption DEF PInv, ProvisioningTypeOK, RequireToken,
       Usable, Goto, End, In, Provision, Provisioned, Done,
       OnlyTheBootstrapToken, BindingHolds, Compared, CallsFit,
       ProvisioningAssumption
<1>5. SealOvertakes'
  BY ProvisioningAssumption DEF PInv, ProvisioningTypeOK, RequireToken,
       Usable, Goto, End, In, Provision, Provisioned, Done, SealOvertakes,
       ProvisioningAssumption
<1>6. OwnerKeyOvertakes'
  BY ProvisioningAssumption DEF PInv, ProvisioningTypeOK, RequireToken,
       Usable, Goto, End, In, Provision, Provisioned, Done, OwnerKeyOvertakes,
       ProvisioningAssumption
<1> QED
  BY <1>1, <1>2, <1>3, <1>4, <1>5, <1>6 DEF PInv

LEMMA CompareTokenKeeps ==
  ASSUME PInv, NEW w \in Workers, CompareToken(w)
  PROVE  PInv'
<1>1. ProvisioningTypeOK'
  BY ProvisioningAssumption
     DEF PInv, ProvisioningTypeOK, CompareToken, BindToken, Goto, End, In,
         CallsFit, Provision, Provisioned, Steps, Done, ProvisioningAssumption
<1>2. CallsFit'
  BY ProvisioningAssumption DEF PInv, ProvisioningTypeOK, CompareToken,
       BindToken, Goto, End, In, Provision, Provisioned, Done, CallsFit,
       ProvisioningAssumption
<1>3. BindingHolds'
  BY ProvisioningAssumption DEF PInv, ProvisioningTypeOK, CompareToken,
       BindToken, Goto, End, In, Provision, Provisioned, Done, BindingHolds,
       Compared, CallsFit, OnlyTheBootstrapToken, ProvisioningAssumption
<1>4. OnlyTheBootstrapToken'
  BY ProvisioningAssumption DEF PInv, ProvisioningTypeOK, CompareToken,
       BindToken, Goto, End, In, Provision, Provisioned, Done,
       OnlyTheBootstrapToken, BindingHolds, Compared, CallsFit,
       ProvisioningAssumption
<1>5. SealOvertakes'
  BY ProvisioningAssumption DEF PInv, ProvisioningTypeOK, CompareToken,
       BindToken, Goto, End, In, Provision, Provisioned, Done, SealOvertakes,
       ProvisioningAssumption
<1>6. OwnerKeyOvertakes'
  BY ProvisioningAssumption DEF PInv, ProvisioningTypeOK, CompareToken,
       BindToken, Goto, End, In, Provision, Provisioned, Done,
       OwnerKeyOvertakes, ProvisioningAssumption
<1> QED
  BY <1>1, <1>2, <1>3, <1>4, <1>5, <1>6 DEF PInv

LEMMA AssignTokenKeeps ==
  ASSUME PInv, NEW w \in Workers, AssignToken(w)
  PROVE  PInv'
<1>1. ProvisioningTypeOK'
  BY ProvisioningAssumption
     DEF PInv, ProvisioningTypeOK, AssignToken, Goto, In, CallsFit,
         Provision, Provisioned, Steps, Done, ProvisioningAssumption
<1>2. CallsFit'
  BY ProvisioningAssumption DEF PInv, ProvisioningTypeOK, AssignToken, Goto,
       In, Provision, Provisioned, Done, CallsFit, ProvisioningAssumption
<1>3. BindingHolds'
  BY ProvisioningAssumption DEF PInv, ProvisioningTypeOK, AssignToken, Goto,
       In, Provision, Provisioned, Done, BindingHolds, Compared, CallsFit,
       OnlyTheBootstrapToken, ProvisioningAssumption
<1>4. OnlyTheBootstrapToken'
  BY ProvisioningAssumption DEF PInv, ProvisioningTypeOK, AssignToken, Goto,
       In, Provision, Provisioned, Done, OnlyTheBootstrapToken, BindingHolds,
       Compared, CallsFit, ProvisioningAssumption
<1>5. SealOvertakes'
  BY ProvisioningAssumption DEF PInv, ProvisioningTypeOK, AssignToken, Goto,
       In, Provision, Provisioned, Done, SealOvertakes, ProvisioningAssumption
<1>6. OwnerKeyOvertakes'
  BY ProvisioningAssumption DEF PInv, ProvisioningTypeOK, AssignToken, Goto,
       In, Provision, Provisioned, Done, OwnerKeyOvertakes,
       ProvisioningAssumption
<1> QED
  BY <1>1, <1>2, <1>3, <1>4, <1>5, <1>6 DEF PInv

LEMMA CheckRegistrationKeeps ==
  ASSUME PInv, NEW w \in Workers, CheckRegistration(w)
  PROVE  PInv'
<1>1. ProvisioningTypeOK'
  BY ProvisioningAssumption
     DEF PInv, ProvisioningTypeOK, CheckRegistration, Refused, Goto, End, In,
         CallsFit, Provision, Provisioned, Steps, Done, ProvisioningAssumption
<1>2. CallsFit'
  BY ProvisioningAssumption DEF PInv, ProvisioningTypeOK, CheckRegistration,
       Refused, Goto, End, In, Provision, Provisioned, Done, CallsFit,
       ProvisioningAssumption
<1>3. BindingHolds'
  BY ProvisioningAssumption DEF PInv, ProvisioningTypeOK, CheckRegistration,
       Refused, Goto, End, In, Provision, Provisioned, Done, BindingHolds,
       Compared, CallsFit, OnlyTheBootstrapToken, ProvisioningAssumption
<1>4. OnlyTheBootstrapToken'
  BY ProvisioningAssumption DEF PInv, ProvisioningTypeOK, CheckRegistration,
       Refused, Goto, End, In, Provision, Provisioned, Done,
       OnlyTheBootstrapToken, BindingHolds, Compared, CallsFit,
       ProvisioningAssumption
<1>5. SealOvertakes'
  BY ProvisioningAssumption DEF PInv, ProvisioningTypeOK, CheckRegistration,
       Refused, Goto, End, In, Provision, Provisioned, Done, SealOvertakes,
       ProvisioningAssumption
<1>6. OwnerKeyOvertakes'
  BY ProvisioningAssumption DEF PInv, ProvisioningTypeOK, CheckRegistration,
       Refused, Goto, End, In, Provision, Provisioned, Done,
       OwnerKeyOvertakes, ProvisioningAssumption
<1> QED
  BY <1>1, <1>2, <1>3, <1>4, <1>5, <1>6 DEF PInv

LEMMA OvertakeKeepsTypes ==
  ASSUME ProvisioningTypeOK, NEW w \in Workers, NEW s \in Provisioned
  PROVE  Overtake(w, s) \in [Workers -> Provision \cup {Done}]
<1> SUFFICES ASSUME NEW v \in Workers, provision[v] # Done
             PROVE  [provision[v] EXCEPT !.ahead = TRUE] \in Provision
  BY DEF ProvisioningTypeOK, Overtake
<1> QED
  BY DEF ProvisioningTypeOK, Provision

\* A call that is overtaken is marked so, and is otherwise as it was.
LEMMA OvertakeMarks ==
  ASSUME ProvisioningTypeOK, NEW w \in Workers, NEW s \in Provisioned,
         NEW v \in Workers, v # w
  PROVE  LET c == provision[v]
             o == Overtake(w, s)[v]
         IN  IF c = Done THEN o = Done
             ELSE /\ o # Done
                  /\ o.store = c.store /\ o.operation = c.operation
                  /\ o.token = c.token /\ o.step = c.step
                  /\ c.ahead => o.ahead
                  /\ o.replacing = c.replacing
                  /\ c.store = s /\ c.step \notin {"require", "consume"} => o.ahead
<1>1. CASE provision[v] = Done
  BY <1>1 DEF Overtake
<1>2. CASE provision[v] # Done
  <2>1. provision[v] \in Provision
    BY <1>2 DEF ProvisioningTypeOK
  <2> DEFINE m == [provision[v] EXCEPT !.ahead = TRUE]
  <2>2. /\ m # Done
        /\ m.store = provision[v].store /\ m.operation = provision[v].operation
        /\ m.token = provision[v].token /\ m.step = provision[v].step
        /\ m.ahead = TRUE /\ m.replacing = provision[v].replacing
    BY <2>1 DEF Provision, Done
  <2>3. Overtake(w, s)[v]
          = IF provision[v].store = s
               /\ provision[v].step \notin {"require", "consume"}
            THEN m ELSE provision[v]
    BY <1>2 DEF Overtake
  <2> HIDE DEF m
  <2> QED
    BY <1>2, <2>2, <2>3
<1> QED
  BY <1>1, <1>2

\* So is a registration that the Owner's key overtakes.
LEMMA RegistrationsKeepTypes ==
  ASSUME ProvisioningTypeOK, NEW w \in Workers
  PROVE  OvertakeRegistrations(w) \in [Workers -> Provision \cup {Done}]
<1> SUFFICES ASSUME NEW v \in Workers, provision[v] # Done
             PROVE  [provision[v] EXCEPT !.replacing = TRUE] \in Provision
  BY DEF ProvisioningTypeOK, OvertakeRegistrations, In
<1> QED
  BY DEF ProvisioningTypeOK, Provision

LEMMA RegistrationsMarked ==
  ASSUME ProvisioningTypeOK, NEW w \in Workers, NEW v \in Workers, v # w
  PROVE  LET c == provision[v]
             o == OvertakeRegistrations(w)[v]
         IN  IF c = Done THEN o = Done
             ELSE /\ o # Done
                  /\ o.store = c.store /\ o.operation = c.operation
                  /\ o.token = c.token /\ o.step = c.step
                  /\ o.ahead = c.ahead
                  /\ c.replacing => o.replacing
                  /\ /\ c.step = "write" /\ c.operation = "register"
                     /\ c.store = "keys"
                     => o.replacing
<1>1. CASE provision[v] = Done
  BY <1>1 DEF OvertakeRegistrations, In
<1>2. CASE provision[v] # Done
  <2>1. provision[v] \in Provision
    BY <1>2 DEF ProvisioningTypeOK
  <2> DEFINE m == [provision[v] EXCEPT !.replacing = TRUE]
  <2>2. /\ m # Done
        /\ m.store = provision[v].store /\ m.operation = provision[v].operation
        /\ m.token = provision[v].token /\ m.step = provision[v].step
        /\ m.ahead = provision[v].ahead /\ m.replacing = TRUE
    BY <2>1 DEF Provision, Done
  <2>3. OvertakeRegistrations(w)[v]
          = IF /\ provision[v].step = "write"
               /\ provision[v].store = "keys"
               /\ provision[v].operation = "register"
            THEN m ELSE provision[v]
    BY <1>2 DEF OvertakeRegistrations, In
  <2> HIDE DEF m
  <2> QED
    BY <1>2, <2>2, <2>3
<1> QED
  BY <1>1, <1>2

LEMMA RegisterKeeps ==
  ASSUME PInv, NEW w \in Workers, Register(w)
  PROVE  PInv'
<1> DEFINE s == provision[w].store
<1>0. /\ ProvisioningTypeOK /\ provision[w] \in Provision /\ s \in Provisioned
      /\ In(w, "write") /\ provision[w].operation = "register"
      /\ provision[w] # Done
      /\ provision[w].token \in Tokens
  BY DEF PInv, ProvisioningTypeOK, CallsFit, Register, In, Provision
<1>1. ProvisioningTypeOK'
  <2>1. provision' \in [Workers -> Provision \cup {Done}]
    BY <1>0, RegistrationsKeepTypes DEF ProvisioningTypeOK, Register, End
  <2> QED
    BY <1>0, <2>1 DEF ProvisioningTypeOK, Register, Put, Provision
<1>2. provision'[w] = Done
  BY <1>0 DEF ProvisioningTypeOK, Register, OvertakeRegistrations, End
<1>3. /\ UNCHANGED <<sealed, boundId>>
      /\ \A o \in Provisioned : o # s =>
           content'[o] = content[o] /\ writers'[o] = writers[o]
      /\ writers'[s] = writers[s] \cup {provision[w].token}
  BY <1>0 DEF ProvisioningTypeOK, Register, Put
<1>4. ASSUME NEW v \in Workers, v # w
      PROVE  LET c == provision[v]
                 o == provision'[v]
             IN  IF c = Done THEN o = Done
                 ELSE /\ o # Done
                      /\ o.store = c.store /\ o.operation = c.operation
                      /\ o.token = c.token /\ o.step = c.step
                      /\ o.ahead = c.ahead
                      /\ c.replacing => o.replacing
                      /\ /\ c.step = "write" /\ c.operation = "register"
                         /\ c.store = "keys" /\ s = "keys"
                         => o.replacing
  <2>1. CASE s = "keys"
    <3>1. provision'[v] = OvertakeRegistrations(w)[v]
      BY <2>1 DEF Register
    <3> HIDE DEF s
    <3> QED
      BY <1>0, <1>4, <3>1, RegistrationsMarked
  <2>2. CASE s # "keys"
    <3>1. provision'[v] = provision[v]
      BY <1>0, <1>4, <2>2 DEF ProvisioningTypeOK, Register, End
    <3> HIDE DEF s
    <3> QED
      BY <2>2, <3>1
  <2> QED
    BY <2>1, <2>2
<1>5. Bootstrap[s] # Unbound => provision[w].token = Bootstrap[s]
  BY <1>0 DEF PInv, BindingHolds, Compared, In
<1> HIDE DEF s
<1>6. CallsFit'
  BY <1>2, <1>4 DEF PInv, CallsFit
<1>7. BindingHolds'
  BY <1>2, <1>3, <1>4 DEF PInv, BindingHolds, Compared
<1>8. OnlyTheBootstrapToken'
  BY <1>0, <1>3, <1>5 DEF PInv, OnlyTheBootstrapToken
<1>9. SealOvertakes'
  BY <1>2, <1>3, <1>4 DEF PInv, SealOvertakes
<1>10. OwnerKeyOvertakes'
  <2> SUFFICES ASSUME NEW v \in Workers, provision'[v] # Done,
                      provision'[v].step = "write",
                      provision'[v].operation = "register",
                      provision'[v].store = "keys",
                      content'["keys"] # Absent
               PROVE  provision'[v].replacing
    BY DEF OwnerKeyOvertakes, In
  <2>1. /\ v # w /\ provision[v] # Done /\ provision[v].step = "write"
        /\ provision[v].operation = "register" /\ provision[v].store = "keys"
    BY <1>2, <1>4
  <2>2. CASE s = "keys"
    BY <1>4, <2>1, <2>2
  <2>3. CASE s # "keys"
    <3>1. content["keys"] # Absent
      BY <1>3, <2>3 DEF Provisioned
    <3>2. provision[v].replacing
      BY <2>1, <3>1 DEF PInv, OwnerKeyOvertakes, In
    <3> QED
      BY <1>4, <2>1, <3>2
  <2> QED
    BY <2>2, <2>3
<1> QED
  BY <1>1, <1>6, <1>7, <1>8, <1>9, <1>10 DEF PInv

LEMMA RevokeKeeps ==
  ASSUME PInv, NEW w \in Workers, Revoke(w)
  PROVE  PInv'
<1>1. ProvisioningTypeOK'
  BY ProvisioningAssumption
     DEF PInv, ProvisioningTypeOK, Revoke, Put, End, In, CallsFit,
         Provision, Provisioned, Steps, Done, ProvisioningAssumption
<1>2. CallsFit'
  BY ProvisioningAssumption DEF PInv, ProvisioningTypeOK, Revoke, Put, End,
       In, Provision, Provisioned, Done, CallsFit, ProvisioningAssumption
<1>3. BindingHolds'
  BY ProvisioningAssumption DEF PInv, ProvisioningTypeOK, Revoke, Put, End,
       In, Provision, Provisioned, Done, BindingHolds, Compared, CallsFit,
       OnlyTheBootstrapToken, ProvisioningAssumption
<1>4. OnlyTheBootstrapToken'
  BY ProvisioningAssumption DEF PInv, ProvisioningTypeOK, Revoke, Put, End,
       In, Provision, Provisioned, Done, OnlyTheBootstrapToken, BindingHolds,
       Compared, CallsFit, ProvisioningAssumption
<1>5. SealOvertakes'
  BY ProvisioningAssumption DEF PInv, ProvisioningTypeOK, Revoke, Put, End,
       In, Provision, Provisioned, Done, SealOvertakes, ProvisioningAssumption
<1>6. OwnerKeyOvertakes'
  BY ProvisioningAssumption DEF PInv, ProvisioningTypeOK, Revoke, Put, End,
       In, Provision, Provisioned, Done, OwnerKeyOvertakes,
       ProvisioningAssumption
<1> QED
  BY <1>1, <1>2, <1>3, <1>4, <1>5, <1>6 DEF PInv

LEMMA SealKeeps ==
  ASSUME PInv, NEW w \in Workers, Seal(w)
  PROVE  PInv'
<1> DEFINE s == provision[w].store
<1>0. /\ ProvisioningTypeOK /\ provision[w] \in Provision /\ s \in Provisioned
      /\ In(w, "write") /\ provision[w].operation = "seal"
      /\ provision[w] # Done
  BY DEF PInv, ProvisioningTypeOK, Seal, In, Provision
<1>1. ProvisioningTypeOK'
  <2>1. [provision[w] EXCEPT !.step = "consume"] \in Provision
    BY <1>0 DEF Provision, Steps
  <2>2. provision' \in [Workers -> Provision \cup {Done}]
    BY <1>0, <2>1, OvertakeKeepsTypes DEF Seal
  <2> QED
    BY <1>0, <2>2 DEF ProvisioningTypeOK, Seal
<1>2. provision'[w] = Done \/ ( /\ provision'[w] # Done
                               /\ provision'[w].step = "consume"
                               /\ provision'[w].store = s
                               /\ provision'[w].operation = "seal"
                               /\ provision'[w].token = provision[w].token )
  BY <1>0 DEF Seal, Overtake, Provision, Done
<1>3. \A v \in Workers : v # w => provision'[v] = Overtake(w, s)[v]
  BY DEF Seal, Overtake
<1>4. /\ \A o \in Provisioned : sealed'[o] <=> sealed[o] \/ o = s
      /\ UNCHANGED <<boundId, content, writers>>
  BY <1>0 DEF ProvisioningTypeOK, Seal
<1>5. ASSUME NEW v \in Workers, v # w
      PROVE  LET c == provision[v]
                 o == provision'[v]
             IN  IF c = Done THEN o = Done
                 ELSE /\ o # Done
                      /\ o.store = c.store /\ o.operation = c.operation
                      /\ o.token = c.token /\ o.step = c.step
                      /\ c.ahead => o.ahead
                      /\ o.replacing = c.replacing
                      /\ c.store = s /\ c.step \notin {"require", "consume"}
                           => o.ahead
  BY <1>0, <1>3, <1>5, OvertakeMarks
<1> HIDE DEF s
<1>6. CallsFit'
  <2>1. provision[w].token # Unbound
    BY <1>0 DEF PInv, CallsFit
  <2> QED
    BY <1>2, <1>5, <2>1 DEF PInv, CallsFit
<1>7. BindingHolds'
  <2>1. Bootstrap[s] # Unbound => provision[w].token = Bootstrap[s]
    BY <1>0 DEF PInv, BindingHolds, Compared, In, s
  <2> QED
    BY <1>2, <1>4, <1>5, <2>1 DEF PInv, BindingHolds, Compared
<1>8. OnlyTheBootstrapToken'
  BY <1>4 DEF PInv, OnlyTheBootstrapToken
<1>9. SealOvertakes'
  <2> SUFFICES ASSUME NEW v \in Workers, provision'[v] # Done,
                      provision'[v].operation # "update",
                      provision'[v].step \notin {"require", "consume"},
                      sealed'[provision'[v].store]
               PROVE  provision'[v].ahead
    BY DEF SealOvertakes
  <2>1. v # w /\ provision[v] # Done
    BY <1>2, <1>5
  <2>2. provision[v] \in Provision /\ provision[v].store \in Provisioned
    BY <1>0, <2>1 DEF ProvisioningTypeOK, Provision
  <2> QED
    BY <1>4, <1>5, <2>1, <2>2 DEF PInv, SealOvertakes
<1>10. OwnerKeyOvertakes'
  BY <1>2, <1>4, <1>5 DEF PInv, OwnerKeyOvertakes, In
<1> QED
  BY <1>1, <1>6, <1>7, <1>8, <1>9, <1>10 DEF PInv

LEMMA ConsumeKeeps ==
  ASSUME PInv, NEW w \in Workers, Consume(w)
  PROVE  PInv'
<1>1. ProvisioningTypeOK'
  BY ProvisioningAssumption
     DEF PInv, ProvisioningTypeOK, Consume, End, In, CallsFit,
         Provision, Provisioned, Steps, Done, ProvisioningAssumption
<1>2. CallsFit'
  BY ProvisioningAssumption DEF PInv, ProvisioningTypeOK, Consume, End, In,
       Provision, Provisioned, Done, CallsFit, ProvisioningAssumption
<1>3. BindingHolds'
  BY ProvisioningAssumption DEF PInv, ProvisioningTypeOK, Consume, End, In,
       Provision, Provisioned, Done, BindingHolds, Compared, CallsFit,
       OnlyTheBootstrapToken, ProvisioningAssumption
<1>4. OnlyTheBootstrapToken'
  BY ProvisioningAssumption DEF PInv, ProvisioningTypeOK, Consume, End, In,
       Provision, Provisioned, Done, OnlyTheBootstrapToken, BindingHolds,
       Compared, CallsFit, ProvisioningAssumption
<1>5. SealOvertakes'
  BY ProvisioningAssumption DEF PInv, ProvisioningTypeOK, Consume, End, In,
       Provision, Provisioned, Done, SealOvertakes, ProvisioningAssumption
<1>6. OwnerKeyOvertakes'
  BY ProvisioningAssumption DEF PInv, ProvisioningTypeOK, Consume, End, In,
       Provision, Provisioned, Done, OwnerKeyOvertakes, ProvisioningAssumption
<1> QED
  BY <1>1, <1>2, <1>3, <1>4, <1>5, <1>6 DEF PInv

LEMMA UpdatePolicyKeeps ==
  ASSUME PInv, NEW w \in Workers, UpdatePolicy(w)
  PROVE  PInv'
<1>1. ProvisioningTypeOK'
  BY ProvisioningAssumption
     DEF PInv, ProvisioningTypeOK, UpdatePolicy, End, In, CallsFit,
         Provision, Provisioned, Steps, Done, ProvisioningAssumption
<1>2. CallsFit'
  BY ProvisioningAssumption DEF PInv, ProvisioningTypeOK, UpdatePolicy, End,
       In, Provision, Provisioned, Done, CallsFit, ProvisioningAssumption
<1>3. BindingHolds'
  BY ProvisioningAssumption DEF PInv, ProvisioningTypeOK, UpdatePolicy, End,
       In, Provision, Provisioned, Done, BindingHolds, Compared, CallsFit,
       OnlyTheBootstrapToken, ProvisioningAssumption
<1>4. OnlyTheBootstrapToken'
  BY ProvisioningAssumption DEF PInv, ProvisioningTypeOK, UpdatePolicy, End,
       In, Provision, Provisioned, Done, OnlyTheBootstrapToken, BindingHolds,
       Compared, CallsFit, ProvisioningAssumption
<1>5. SealOvertakes'
  BY ProvisioningAssumption DEF PInv, ProvisioningTypeOK, UpdatePolicy, End,
       In, Provision, Provisioned, Done, SealOvertakes, ProvisioningAssumption
<1>6. OwnerKeyOvertakes'
  BY ProvisioningAssumption DEF PInv, ProvisioningTypeOK, UpdatePolicy, End,
       In, Provision, Provisioned, Done, OwnerKeyOvertakes,
       ProvisioningAssumption
<1> QED
  BY <1>1, <1>2, <1>3, <1>4, <1>5, <1>6 DEF PInv

LEMMA SelectDeciderKeeps ==
  ASSUME PInv, NEW w \in Workers, NEW value \in Contents,
         SelectDecider(w, value)
  PROVE  PInv'
<1> DEFINE c == [store |-> "policy", operation |-> "update", token |-> Unbound,
                 value |-> value, step |-> "write", ahead |-> FALSE,
                 replacing |-> FALSE]
<1>1. c \in Provision /\ c # Done
  BY DEF Provision, Provisioned, Steps, Done
<1>2. ProvisioningTypeOK'
  BY <1>1, ProvisioningAssumption
     DEF PInv, ProvisioningTypeOK, SelectDecider, ProvisioningAssumption
<1>3. \A v \in Workers : provision'[v] = IF v = w THEN c ELSE provision[v]
  BY DEF PInv, ProvisioningTypeOK, SelectDecider
<1> QED
  BY <1>1, <1>2, <1>3, ProvisioningAssumption
     DEF PInv, SelectDecider, CallsFit, BindingHolds, OnlyTheBootstrapToken,
         SealOvertakes, OwnerKeyOvertakes, Compared, In, ProvisioningAssumption

LEMMA ProvisioningNextKeeps ==
  ASSUME PInv, [ProvisioningNext]_provisioningVars
  PROVE  PInv'
<1>1. CASE UNCHANGED provisioningVars
  BY <1>1
     DEF PInv, provisioningVars, ProvisioningTypeOK, CallsFit, BindingHolds,
         OnlyTheBootstrapToken, SealOvertakes, OwnerKeyOvertakes, Compared, In
<1>2. ASSUME NEW w \in Workers, NEW s \in Provisioned, NEW token \in Tokens,
             NEW value \in Contents, Call(w, s, "register", token, value)
      PROVE  PInv'
  BY <1>2, CallKeeps DEF Operations, Provisioned
<1>3. ASSUME NEW w \in Workers, NEW s \in Provisioned, NEW token \in Tokens,
             NEW operation \in Operations[s] \ {"register"},
             Call(w, s, operation, token, Absent)
      PROVE  PInv'
  BY <1>3, CallKeeps
<1> QED
  BY <1>1, <1>2, <1>3, RequireTokenKeeps, CompareTokenKeeps, AssignTokenKeeps,
     CheckRegistrationKeeps, RegisterKeeps, RevokeKeeps, SealKeeps,
     ConsumeKeeps, SelectDeciderKeeps, UpdatePolicyKeeps
     DEF ProvisioningNext

LEMMA ProvisioningInvariance == ProvisioningSpec => []PInv
<1>1. PInv /\ [ProvisioningNext]_provisioningVars => PInv'
  BY ProvisioningNextKeeps
<1> QED
  BY StoresAtFirst, <1>1, PTL DEF ProvisioningSpec

\* The variables hold values of their types.
THEOREM ProvisioningTyping == ProvisioningSpec => []ProvisioningTypeOK
<1>1. PInv => ProvisioningTypeOK
  BY DEF PInv
<1> QED
  BY ProvisioningInvariance, <1>1, PTL

\* A store constructed with a token is written with no other, however the
\* threads that compare and assign the bound token interleave.
THEOREM BootstrapTokenBinds == ProvisioningSpec => []OnlyTheBootstrapToken
<1>1. PInv => OnlyTheBootstrapToken
  BY DEF PInv
<1> QED
  BY ProvisioningInvariance, <1>1, PTL

\* What a step may do to the contents of the stores, by which action.
LEMMA WhoWrites ==
  ASSUME PInv, [ProvisioningNext]_provisioningVars,
         NEW s \in Provisioned, content'[s] # content[s]
  PROVE  \E w \in Workers :
           \/ /\ UpdatePolicy(w)
              /\ s = "policy"
           \/ /\ Register(w) \/ Revoke(w)
              /\ provision[w] # Done /\ provision'[w] = Done
              /\ provision[w].store = s
<1>1. content' # content
  OBVIOUS
<1>2. PICK w \in Workers : Register(w) \/ Revoke(w) \/ UpdatePolicy(w)
  BY <1>1
     DEF ProvisioningNext, provisioningVars, Call, RequireToken, CompareToken,
         AssignToken, CheckRegistration, Seal, Consume, SelectDecider
<1>3. CASE Register(w)
  BY <1>3 DEF PInv, ProvisioningTypeOK, Register, Put, OvertakeRegistrations, End, In
<1>4. CASE Revoke(w)
  BY <1>4 DEF PInv, ProvisioningTypeOK, CallsFit, Revoke, Put, End, In
<1>5. CASE UpdatePolicy(w)
  BY <1>5 DEF PInv, ProvisioningTypeOK, UpdatePolicy
<1> QED
  BY <1>2, <1>3, <1>4, <1>5

\* After a seal, no call that has to show a token changes the store but one
\* that had shown it when the seal came: whatever else changes a sealed store
\* is an update by the Owner.
THEOREM SealHolds == ProvisioningSpec => SealedStaysAsItIs
<1> DEFINE Overtaken(s) ==
      \E w \in Workers : /\ provision[w] # Done /\ provision'[w] = Done
                         /\ provision[w].store = s
                         /\ provision[w].ahead
<1>1. ASSUME PInv, [ProvisioningNext]_provisioningVars,
             NEW s \in Provisioned, sealed[s], content'[s] # content[s],
             updates' = updates
      PROVE  Overtaken(s)
  <2>1. PICK w \in Workers :
           \/ /\ UpdatePolicy(w)
              /\ s = "policy"
           \/ /\ Register(w) \/ Revoke(w)
              /\ provision[w] # Done /\ provision'[w] = Done
              /\ provision[w].store = s
    BY <1>1, WhoWrites
  <2>2. ~UpdatePolicy(w)
    BY <1>1 DEF PInv, ProvisioningTypeOK, UpdatePolicy
  <2>3. provision[w].ahead
    BY <1>1, <2>1, <2>2 DEF PInv, SealOvertakes, Register, Revoke, In
  <2> QED
    BY <2>1, <2>2, <2>3
<1>2. PInv /\ [ProvisioningNext]_provisioningVars =>
        [\A s \in Provisioned :
           sealed[s] /\ content'[s] # content[s] /\ updates' = updates =>
             Overtaken(s)]_provisioningVars
  BY <1>1
<1> QED
  BY ProvisioningInvariance, <1>2, PTL DEF ProvisioningSpec, SealedStaysAsItIs

\* The Owner's key is replaced only by a registration that had looked for it
\* before it was stored.
THEOREM OwnerKeyHolds == ProvisioningSpec => OwnerKeyStays
<1> DEFINE Replaced ==
      \E w \in Workers : /\ provision[w] # Done /\ provision'[w] = Done
                         /\ provision[w].store = "keys"
                         /\ provision[w].replacing
<1>1. ASSUME PInv, [ProvisioningNext]_provisioningVars,
             content["keys"] # Absent, content'["keys"] # content["keys"]
      PROVE  Replaced
  <2>1. PICK w \in Workers :
          /\ Register(w) \/ Revoke(w)
          /\ provision[w] # Done /\ provision'[w] = Done
          /\ provision[w].store = "keys"
    BY <1>1, WhoWrites DEF Provisioned
  <2>2. provision[w].replacing
    BY <1>1, <2>1
       DEF PInv, CallsFit, OwnerKeyOvertakes, Register, Revoke, In
  <2> QED
    BY <2>1, <2>2
<1>2. PInv /\ [ProvisioningNext]_provisioningVars =>
        [/\ content["keys"] # Absent
         /\ content'["keys"] # content["keys"]
         => Replaced]_provisioningVars
  BY <1>1
<1> QED
  BY ProvisioningInvariance, <1>2, PTL DEF ProvisioningSpec, OwnerKeyStays

=============================================================================
