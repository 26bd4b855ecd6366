--------------------------- MODULE SupportProofs ---------------------------
(***************************************************************************)
(* Theorems about Observations and Persistence, for any number of threads, *)
(* requests, stores and rows; and about MCSupport, which runs them beside  *)
(* Delegation and Provisioning: each of the four moves as it does alone.   *)
(***************************************************************************)
EXTENDS MCSupport, DelegationProofs, ProvisioningProofs, SequenceTheorems

\* What a call in hand has in the carrier: nothing until it is observed, then
\* the number of its own observation.
Unobserved(t) == serving[t].position = 0 /\ inFlight[t] = 0

ObservedAs(t) ==
  LET c == serving[t]
  IN  /\ c.known
      /\ c.position \in DOMAIN observations
      /\ observations[c.position].seq = inFlight[t]
      /\ observations[c.position].principal = c.principal
      /\ observations[c.position].request = c.request

Carries(t) ==
  serving[t] # Resting =>
    /\ serving[t].step \in {"gate", "observe", "append"} => Unobserved(t)
    /\ serving[t].step \in {"observe", "append", "act"} => serving[t].known
    /\ Unobserved(t) \/ ObservedAs(t)

\* An execution names the observation of its call, which holds the id that
\* the call came with; the execution holds the string that is made of it.
ExecutionsNameTheirs ==
  \A i \in DOMAIN executed :
    /\ executed[i].request = GrantedId(executed[i].asked)
    /\ executed[i].of # 0 =>
         /\ executed[i].of \in DOMAIN observations
         /\ observations[executed[i].of].request = executed[i].asked
         /\ observations[executed[i].of].principal = executed[i].principal

LogsInv ==
  /\ ObservationsTypeOK
  /\ \A t \in Servers : Carries(t)
  /\ CitesItsObservation
  /\ ExecutionsNameTheirs

LEMMA LogsInitially ==
  ASSUME ObservationsInit
  PROVE  LogsInv
<1>1. ObservationsTypeOK
  <2>1. /\ observations \in Seq(Observation)
        /\ enforcements \in Seq(Enforcement)
        /\ executed \in Seq(Execution)
    BY DEF ObservationsInit
  <2>2. served \in 0..MaxServed
    BY ObservationsAssumption DEF ObservationsInit, ObservationsAssumption
  <2>3. /\ serving \in [Servers -> Service \cup {Resting}]
        /\ inFlight \in [Servers -> Nat]
    BY DEF ObservationsInit
  <2> QED
    BY <2>1, <2>2, <2>3 DEF ObservationsInit, ObservationsTypeOK
<1>2. \A t \in Servers : Carries(t)
  BY DEF ObservationsInit, Carries
<1>3. DOMAIN enforcements = {} /\ DOMAIN executed = {}
  BY DEF ObservationsInit
<1> QED
  BY <1>1, <1>2, <1>3 DEF LogsInv, CitesItsObservation, ExecutionsNameTheirs

LEMMA ReceiveKeeps ==
  ASSUME LogsInv, NEW t \in Servers, NEW r \in Requested, Receive(t, r)
  PROVE  LogsInv'
<1> DEFINE c == [step |-> "gate", principal |-> r.principal, request |-> r.request,
                 next |-> 0, position |-> 0, execution |-> 0, known |-> FALSE]
<1>1. c \in Service /\ c # Resting
  BY ObservationsAssumption DEF Service, Resting, ObservationsAssumption
<1>2. ObservationsTypeOK'
  BY <1>1, ObservationsAssumption
     DEF LogsInv, ObservationsTypeOK, Receive, Cleared, ObservationsAssumption
<1>3. \A u \in Servers : /\ serving'[u] = IF u = t THEN c ELSE serving[u]
                         /\ inFlight'[u] = IF u = t THEN 0 ELSE inFlight[u]
  BY DEF LogsInv, ObservationsTypeOK, Receive, Cleared
<1>4. UNCHANGED <<observations, enforcements, executed>>
  BY DEF Receive
<1>5. ASSUME NEW u \in Servers PROVE Carries(u)'
  <2>1. CASE u = t
    <3>1. /\ serving'[u].step = "gate" /\ serving'[u].position = 0
          /\ inFlight'[u] = 0
      BY <1>3, <2>1
    <3> QED
      BY <3>1 DEF Carries, Unobserved
  <2>2. CASE u # t
    <3> HIDE DEF c
    <3>1. serving'[u] = serving[u] /\ inFlight'[u] = inFlight[u]
      BY <1>3, <2>2
    <3> QED
      BY <1>4, <3>1 DEF LogsInv, Carries, Unobserved, ObservedAs
  <2> QED
    BY <2>1, <2>2
<1>6. CitesItsObservation'
  BY <1>4 DEF LogsInv, CitesItsObservation
<1>7. ExecutionsNameTheirs'
  BY <1>4 DEF LogsInv, ExecutionsNameTheirs
<1> QED
  BY <1>2, <1>5, <1>6, <1>7 DEF LogsInv

\* A step of a thread that changes only its own call.
LEMMA OwnCallKeeps ==
  ASSUME LogsInv, NEW t \in Servers, NEW c \in Service,
         serving' = [serving EXCEPT ![t] = c],
         UNCHANGED <<observing, observations, enforcements, executed, inFlight,
                     served, unwritten>>,
         overlapped' \in BOOLEAN, Carries(t)'
  PROVE  LogsInv'
<1>1. ObservationsTypeOK'
  BY DEF LogsInv, ObservationsTypeOK
<1>2. ASSUME NEW u \in Servers PROVE Carries(u)'
  BY DEF LogsInv, ObservationsTypeOK, Carries, Unobserved, ObservedAs
<1> QED
  BY <1>1, <1>2 DEF LogsInv, CitesItsObservation, ExecutionsNameTheirs

LEMMA RefuseKeeps ==
  ASSUME LogsInv, NEW t \in Servers, Refuse(t)
  PROVE  LogsInv'
<1> PICK known \in BOOLEAN :
      serving' = [serving EXCEPT ![t].step = "finish", ![t].known = known]
  BY DEF Refuse
<1> DEFINE c == [serving[t] EXCEPT !.step = "finish", !.known = known]
<1>1. /\ serving[t] \in Service /\ serving[t] # Resting /\ Carries(t)
      /\ serving \in [Servers -> Service \cup {Resting}]
      /\ observations \in Seq(Observation) /\ overlapped' \in BOOLEAN
  BY DEF LogsInv, ObservationsTypeOK, Refuse, At
<1>2. c \in Service /\ serving' = [serving EXCEPT ![t] = c] /\ serving'[t] = c
  BY <1>1 DEF Service
<1>3. Carries(t)'
  BY <1>1, <1>2 DEF Refuse, At, Service, Carries, Unobserved, ObservedAs
<1> QED
  BY <1>1, <1>2, <1>3, OwnCallKeeps DEF Refuse

LEMMA AuthenticateKeeps ==
  ASSUME LogsInv, NEW t \in Servers, Authenticate(t)
  PROVE  LogsInv'
<1> DEFINE c == [serving[t] EXCEPT !.step = "observe", !.known = TRUE]
<1>1. /\ serving[t] \in Service /\ serving[t] # Resting /\ Carries(t)
      /\ serving \in [Servers -> Service \cup {Resting}]
      /\ observations \in Seq(Observation) /\ overlapped' \in BOOLEAN
  BY DEF LogsInv, ObservationsTypeOK, Authenticate, At
<1>2. c \in Service /\ serving' = [serving EXCEPT ![t] = c] /\ serving'[t] = c
  BY <1>1 DEF Authenticate, Service
<1>3. Carries(t)'
  BY <1>1, <1>2 DEF Authenticate, At, Service, Carries, Unobserved, ObservedAs
<1> QED
  BY <1>1, <1>2, <1>3, OwnCallKeeps DEF Authenticate

LEMMA ReadLengthKeeps ==
  ASSUME LogsInv, NEW t \in Servers, ReadLength(t)
  PROVE  LogsInv'
<1> DEFINE c == [serving[t] EXCEPT !.step = "append", !.next = Len(observations) + 1]
<1>1. /\ serving[t] \in Service /\ serving[t] # Resting /\ Carries(t)
      /\ serving \in [Servers -> Service \cup {Resting}]
      /\ observations \in Seq(Observation) /\ overlapped' \in BOOLEAN
  BY DEF LogsInv, ObservationsTypeOK, ReadLength, At
<1>2. c \in Service /\ serving' = [serving EXCEPT ![t] = c] /\ serving'[t] = c
  <2>1. Len(observations) + 1 \in Nat
    BY <1>1
  <2>2. serving' = [serving EXCEPT ![t] = c]
    BY <1>1 DEF ReadLength
  <2>3. c \in Service
    BY <1>1, <2>1 DEF Service
  <2> QED
    BY <1>1, <2>2, <2>3
<1>3. Carries(t)'
  BY <1>1, <1>2 DEF ReadLength, At, Service, Carries, Unobserved, ObservedAs
<1> QED
  BY <1>1, <1>2, <1>3, OwnCallKeeps DEF ReadLength

LEMMA NotObservedKeeps ==
  ASSUME LogsInv, NEW t \in Servers, NotObserved(t)
  PROVE  LogsInv'
<1> DEFINE c == [serving[t] EXCEPT !.step = "act"]
<1>1. /\ serving[t] \in Service /\ serving[t] # Resting /\ Carries(t)
      /\ serving \in [Servers -> Service \cup {Resting}]
      /\ observations \in Seq(Observation) /\ overlapped' \in BOOLEAN
  BY DEF LogsInv, ObservationsTypeOK, NotObserved, At
<1>2. c \in Service /\ serving' = [serving EXCEPT ![t] = c] /\ serving'[t] = c
  BY <1>1 DEF NotObserved, Service
<1>3. Carries(t)'
  BY <1>1, <1>2 DEF NotObserved, At, Service, Carries, Unobserved, ObservedAs
<1> QED
  BY <1>1, <1>2, <1>3, OwnCallKeeps DEF NotObserved

LEMMA DecideKeeps ==
  ASSUME LogsInv, NEW t \in Servers, Decide(t)
  PROVE  LogsInv'
<1> DEFINE c == [serving[t] EXCEPT !.step = "finish"]
<1>1. /\ serving[t] \in Service /\ serving[t] # Resting /\ Carries(t)
      /\ serving \in [Servers -> Service \cup {Resting}]
      /\ observations \in Seq(Observation) /\ overlapped' \in BOOLEAN
  BY DEF LogsInv, ObservationsTypeOK, Decide, At
<1>2. c \in Service /\ serving' = [serving EXCEPT ![t] = c] /\ serving'[t] = c
  BY <1>1 DEF Decide, Service
<1>3. Carries(t)'
  BY <1>1, <1>2 DEF Decide, At, Service, Carries, Unobserved, ObservedAs
<1> QED
  BY <1>1, <1>2, <1>3, OwnCallKeeps DEF Decide

LEMMA AppendObservationKeeps ==
  ASSUME LogsInv, NEW t \in Servers, AppendObservation(t)
  PROVE  LogsInv'
<1> DEFINE n == Len(observations) + 1
           o == Recorded(serving[t])
<1>1. serving[t] \in Service /\ serving[t] # Resting /\ serving[t].known
      /\ serving[t].step = "append"
  BY DEF LogsInv, ObservationsTypeOK, AppendObservation, At, Carries
<1>2. o \in Observation /\ observations \in Seq(Observation)
  BY <1>1 DEF LogsInv, ObservationsTypeOK, Recorded, Observation, Service
<1>3. /\ observations' \in Seq(Observation) /\ observations'[n] = o
      /\ n \in DOMAIN observations' /\ n \in Nat
      /\ \A i \in DOMAIN observations : /\ i \in DOMAIN observations'
                                        /\ observations'[i] = observations[i]
  BY <1>2 DEF AppendObservation
<1>4. ObservationsTypeOK'
  BY <1>1, <1>3 DEF LogsInv, ObservationsTypeOK, AppendObservation, Service
<1>5. ASSUME NEW u \in Servers
      PROVE  Carries(u)'
  <2>1. CASE u = t
    <3>1. /\ serving'[t].position = n /\ serving'[t].step = "act"
          /\ serving'[t].known /\ serving'[t].principal = serving[t].principal
          /\ serving'[t].request = serving[t].request
          /\ inFlight'[t] = serving[t].next
      BY <1>1 DEF LogsInv, ObservationsTypeOK, AppendObservation, Service
    <3> QED
      BY <1>3, <2>1, <3>1 DEF Carries, ObservedAs, Recorded
  <2>2. CASE u # t
    <3>1. serving'[u] = serving[u] /\ inFlight'[u] = inFlight[u]
      BY <2>2 DEF LogsInv, ObservationsTypeOK, AppendObservation
    <3> QED
      BY <1>3, <3>1 DEF LogsInv, Carries, Unobserved, ObservedAs
  <2> QED
    BY <2>1, <2>2
<1>6. CitesItsObservation' /\ ExecutionsNameTheirs'
  BY <1>3 DEF LogsInv, AppendObservation, CitesItsObservation,
              ExecutionsNameTheirs
<1> QED
  BY <1>4, <1>5, <1>6 DEF LogsInv

\* A step that writes to the chain or to the log of executions.
LEMMA RedeemKeeps ==
  ASSUME LogsInv, NEW t \in Servers, Redeem(t)
  PROVE  LogsInv'
<1> DEFINE c == [serving[t] EXCEPT !.step = "finish", !.execution = Len(executed) + 1]
           run == [request |-> GrantedId(serving[t].request),
                   principal |-> serving[t].principal, undone |-> FALSE,
                   of |-> serving[t].position, asked |-> serving[t].request]
           n == Len(executed) + 1
<1>1. /\ serving[t] \in Service /\ serving[t] # Resting /\ Carries(t)
      /\ serving \in [Servers -> Service \cup {Resting}]
      /\ executed \in Seq(Execution) /\ n \in Nat
      /\ serving[t].step = "act"
  BY DEF LogsInv, ObservationsTypeOK, Redeem, At
<1>2. run \in Execution /\ c \in Service
  BY <1>1, ObservationsAssumption
     DEF Execution, Service, GrantedId, ObservationsAssumption
<1>3. serving' = [serving EXCEPT ![t] = c] /\ executed' = Append(executed, run)
  BY <1>1 DEF Redeem
<1>4. ObservationsTypeOK'
  BY <1>1, <1>2, <1>3 DEF LogsInv, ObservationsTypeOK, Redeem
<1>5. ASSUME NEW u \in Servers PROVE Carries(u)'
  <2>1. UNCHANGED <<observations, inFlight>>
    BY DEF Redeem
  <2>2. CASE u = t
    <3>1. /\ serving'[u].step = "finish"
          /\ serving'[u].position = serving[u].position
          /\ serving'[u].known = serving[u].known
          /\ serving'[u].principal = serving[u].principal
          /\ serving'[u].request = serving[u].request
      BY <1>1, <1>3, <2>2 DEF Service
    <3> QED
      BY <1>1, <2>1, <2>2, <3>1 DEF Carries, Unobserved, ObservedAs
  <2>3. CASE u # t
    <3>1. serving'[u] = serving[u]
      BY <1>1, <1>3, <2>3
    <3> QED
      BY <2>1, <3>1 DEF LogsInv, Carries, Unobserved, ObservedAs
  <2> QED
    BY <2>2, <2>3
<1>6. ExecutionsNameTheirs'
  <2> SUFFICES ASSUME NEW i \in DOMAIN executed'
               PROVE  LET e == executed'[i]
                      IN  /\ e.request = GrantedId(e.asked)
                          /\ e.of # 0 =>
                               /\ e.of \in DOMAIN observations
                               /\ observations[e.of].request = e.asked
                               /\ observations[e.of].principal = e.principal
    BY DEF ExecutionsNameTheirs, Redeem
  <2>1. CASE i \in DOMAIN executed
    <3>1. executed'[i] = executed[i]
      BY <1>1, <1>2, <1>3, <2>1
    <3> QED
      BY <2>1, <3>1 DEF LogsInv, ExecutionsNameTheirs
  <2>2. CASE i = n
    <3>1. executed'[i] = run
      BY <1>1, <1>2, <1>3, <2>2
    <3>2. /\ run.of = serving[t].position /\ run.asked = serving[t].request
          /\ run.request = GrantedId(run.asked)
      OBVIOUS
    <3> QED
      BY <1>1, <3>1, <3>2 DEF Carries, Unobserved, ObservedAs
  <2>3. i \in DOMAIN executed \/ i = n
    <3> HIDE DEF run
    <3> QED
      BY <1>1, <1>2, <1>3
  <2> QED
    BY <2>1, <2>2, <2>3
<1> QED
  BY <1>4, <1>5, <1>6 DEF LogsInv, Redeem, CitesItsObservation

LEMMA EnforceKeeps ==
  ASSUME LogsInv, NEW t \in Servers, Enforce(t)
  PROVE  LogsInv'
<1> DEFINE e == AuditRecord(t)
           n == Len(enforcements) + 1
<1>1. /\ serving[t] \in Service /\ serving[t] # Resting /\ Carries(t)
      /\ enforcements \in Seq(Enforcement) /\ n \in Nat
      /\ inFlight[t] \in Nat
  BY DEF LogsInv, ObservationsTypeOK, Enforce, At
<1>2. e \in Enforcement
  BY <1>1 DEF AuditRecord, Enforcement, Service
<1>3. ObservationsTypeOK'
  BY <1>1, <1>2 DEF LogsInv, ObservationsTypeOK, Enforce
<1>4. ASSUME NEW u \in Servers PROVE Carries(u)'
  BY DEF LogsInv, ObservationsTypeOK, Enforce, Carries, Unobserved, ObservedAs
<1>5. CitesItsObservation'
  <2> SUFFICES ASSUME NEW i \in DOMAIN enforcements'
               PROVE  IF enforcements'[i].of = 0 THEN enforcements'[i].seq = 0
                      ELSE /\ enforcements'[i].of \in DOMAIN observations
                           /\ observations[enforcements'[i].of].seq
                                = enforcements'[i].seq
                           /\ observations[enforcements'[i].of].principal
                                = enforcements'[i].principal
    BY DEF CitesItsObservation, Enforce
  <2>1. CASE i \in DOMAIN enforcements
    <3>1. enforcements'[i] = enforcements[i]
      BY <1>1, <1>2, <2>1 DEF Enforce
    <3> QED
      BY <2>1, <3>1 DEF LogsInv, CitesItsObservation
  <2>2. CASE i = n
    <3>1. enforcements'[i] = e
      BY <1>1, <1>2, <2>2 DEF Enforce
    <3>2. /\ e.of = serving[t].position /\ e.seq = inFlight[t]
          /\ serving[t].known => e.principal = serving[t].principal
      BY DEF AuditRecord
    <3>3. CASE Unobserved(t)
      BY <3>1, <3>2, <3>3 DEF Unobserved
    <3>4. CASE ObservedAs(t)
      <4>1. serving[t].position # 0
        BY <3>4 DEF LogsInv, ObservationsTypeOK, ObservedAs
      <4> QED
        BY <3>1, <3>2, <3>4, <4>1 DEF ObservedAs
    <3> QED
      BY <1>1, <3>3, <3>4 DEF Carries
  <2> QED
    BY <1>1, <1>2, <2>1, <2>2 DEF Enforce
<1> QED
  BY <1>3, <1>4, <1>5 DEF LogsInv, Enforce, ExecutionsNameTheirs

LEMMA FailToEnforceKeeps ==
  ASSUME LogsInv, NEW t \in Servers, FailToEnforce(t)
  PROVE  LogsInv'
<1> DEFINE n == serving[t].execution
<1>1. /\ serving[t] \in Service /\ serving[t].position \in Nat
      /\ executed \in Seq(Execution)
  BY DEF LogsInv, ObservationsTypeOK, FailToEnforce, At, Service
<1>2. /\ executed' \in Seq(Execution) /\ DOMAIN executed' = DOMAIN executed
      /\ \A i \in DOMAIN executed :
           /\ executed'[i].of = executed[i].of
           /\ executed'[i].request = executed[i].request
           /\ executed'[i].principal = executed[i].principal
           /\ executed'[i].asked = executed[i].asked
  <2>1. CASE n = 0
    BY <1>1, <2>1 DEF FailToEnforce
  <2>2. CASE n # 0
    <3>1. executed' = [executed EXCEPT ![n].undone = TRUE]
      BY <2>2 DEF FailToEnforce
    <3>2. \A i \in DOMAIN executed : executed[i] \in Execution
      BY <1>1
    <3>3. ASSUME NEW i \in DOMAIN executed
          PROVE  /\ executed'[i] \in Execution
                 /\ executed'[i].of = executed[i].of
                 /\ executed'[i].request = executed[i].request
                 /\ executed'[i].principal = executed[i].principal
                 /\ executed'[i].asked = executed[i].asked
      BY <3>1, <3>2 DEF Execution
    <3>4. executed' \in Seq(Execution)
      <4>1. DOMAIN executed' = 1..Len(executed) /\ Len(executed) \in Nat
        BY <1>1, <3>1
      <4>2. executed' = [i \in 1..Len(executed) |-> executed'[i]]
        BY <1>1, <3>1, <4>1
      <4>3. executed' \in [1..Len(executed) -> Execution]
        BY <1>1, <3>3, <4>1, <4>2
      <4> QED
        BY <4>1, <4>3, SeqDef
    <3> QED
      BY <3>1, <3>3, <3>4
  <2> QED
    BY <2>1, <2>2
<1>3. ObservationsTypeOK'
  BY <1>1, <1>2 DEF LogsInv, ObservationsTypeOK, FailToEnforce
<1>4. ASSUME NEW u \in Servers PROVE Carries(u)'
  BY DEF LogsInv, ObservationsTypeOK, FailToEnforce, Carries, Unobserved,
         ObservedAs
<1>5. CitesItsObservation'
  BY DEF LogsInv, FailToEnforce, CitesItsObservation
<1>6. ExecutionsNameTheirs'
  <2>1. observations' = observations
    BY DEF FailToEnforce
  <2> SUFFICES ASSUME NEW i \in DOMAIN executed
               PROVE  LET e == executed'[i]
                      IN  /\ e.request = GrantedId(e.asked)
                          /\ e.of # 0 =>
                               /\ e.of \in DOMAIN observations
                               /\ observations[e.of].request = e.asked
                               /\ observations[e.of].principal = e.principal
    BY <1>2, <2>1 DEF ExecutionsNameTheirs
  <2> QED
    BY <1>2 DEF LogsInv, ExecutionsNameTheirs
<1> QED
  BY <1>3, <1>4, <1>5, <1>6 DEF LogsInv

LEMMA ObservationsNextKeeps ==
  ASSUME LogsInv, [ObservationsNext]_observationVars
  PROVE  LogsInv'
<1>1. CASE UNCHANGED observationVars
  BY <1>1
     DEF LogsInv, ObservationsTypeOK, Carries, Unobserved, ObservedAs,
         CitesItsObservation, ExecutionsNameTheirs, observationVars
<1> QED
  BY <1>1, ReceiveKeeps, RefuseKeeps, AuthenticateKeeps, ReadLengthKeeps,
     AppendObservationKeeps, NotObservedKeeps, RedeemKeeps, DecideKeeps,
     EnforceKeeps, FailToEnforceKeeps
     DEF ObservationsNext, Serve

LEMMA LogsInvariance == ObservationsSpec => []LogsInv
<1>1. LogsInv /\ [ObservationsNext]_observationVars => LogsInv'
  BY ObservationsNextKeeps
<1>2. ObservationsInit => LogsInv
  BY LogsInitially
<1> QED
  BY <1>1, <1>2, PTL DEF ObservationsSpec

\* The variables of Observations hold values of their types.
THEOREM ObservationsTyping == ObservationsSpec => []ObservationsTypeOK
<1>1. LogsInv => ObservationsTypeOK
  BY DEF LogsInv
<1> QED
  BY LogsInvariance, <1>1, PTL

\* An entry of the audit chain cites the observation of its own call, for
\* any number of threads and calls.
THEOREM EntriesCiteTheirs == ObservationsSpec => []CitesItsObservation
<1>1. LogsInv => CitesItsObservation
  BY DEF LogsInv
<1> QED
  BY LogsInvariance, <1>1, PTL

LEMMA LatestIsIn ==
  ASSUME NEW n \in Nat, NEW S \in SUBSET (1..n), S # {}
  PROVE  Latest(S) \in S
<1> DEFINE R == {z \in Nat \X Nat : z[1] < z[2]}
           T == {n - i : i \in S}
<1>1. IsWellFoundedOn(R, Nat)
  BY NatLessThanWellFounded DEF OpToRel
<1>2. T \subseteq Nat /\ T # {}
  <2>1. T \subseteq Nat
    OBVIOUS
  <2>2. PICK i \in S : TRUE
    OBVIOUS
  <2>3. n - i \in T
    BY <2>2
  <2> QED
    BY <2>1, <2>3
<1>3. PICK k \in T : \A l \in T : ~(<<l, k>> \in R)
  <2> HIDE DEF R, T
  <2> QED
    BY <1>1, <1>2, WFMin
<1>4. PICK i \in S : k = n - i
  OBVIOUS
<1>5. ASSUME NEW j \in S PROVE i >= j
  <2>1. n - j \in T /\ n - j \in Nat /\ k \in Nat
    BY <1>2
  <2>2. ~(n - j < k)
    BY <1>3, <2>1
  <2> QED
    BY <1>4, <2>1, <2>2
<1> QED
  BY <1>5 DEF Latest

\* The offline check I5 accuses only an execution whose observation was lost,
\* whose request came without an id, or whose request id two principals have
\* used.  An id that was given is the same string in the execution as in the
\* observation, so its observation is found by it.
THEOREM ExecutionAlarms == ObservationsSpec => []ExecutionAlarmHasACause
<1>1. ASSUME LogsInv, NEW i \in Standing, ~Matched(i)
      PROVE  \/ executed[i].of = 0
             \/ executed[i].asked = NoId
             \/ \E j \in ByRequest(executed[i].request) :
                  observations[j].principal # executed[i].principal
  <2> DEFINE named == ByRequest(executed[i].request)
  <2>1. CASE named = {}
    <3>1. executed[i].of # 0 /\ executed[i].asked # NoId
            => executed[i].of \in named
      BY <1>1
         DEF LogsInv, ExecutionsNameTheirs, Standing, ByRequest, GrantedId
    <3> QED
      BY <2>1, <3>1
  <2>2. CASE named # {}
    <3>1. named \in SUBSET (1..Len(observations)) /\ Len(observations) \in Nat
      BY <1>1 DEF LogsInv, ObservationsTypeOK, ByRequest
    <3>2. Latest(named) \in named
      BY <2>2, <3>1, LatestIsIn
    <3> QED
      BY <1>1, <2>2, <3>2 DEF Matched
  <2> QED
    BY <2>1, <2>2
<1>2. CheckI5 = "VIOLATED" => \E i \in Standing : ~Matched(i)
  BY DEF CheckI5
<1>3. LogsInv => ExecutionAlarmHasACause
  BY <1>1, <1>2 DEF ExecutionAlarmHasACause
<1> QED
  BY LogsInvariance, <1>3, PTL

-----------------------------------------------------------------------------
(* As long as no two requests were observed together, the logs grow in one *)
(* order: at most one observation is in hand, and it is the last.          *)

InHand(t) ==
  serving[t] # Resting /\ (serving[t].step = "append" \/ serving[t].position # 0)

NumberedInOrder == \A i \in DOMAIN observations : observations[i].seq = i

LastInHand ==
  \A t \in Servers : serving[t] # Resting =>
    /\ serving[t].step = "append" => serving[t].next = Len(observations) + 1
    /\ serving[t].position # 0 =>
         /\ serving[t].position = Len(observations)
         /\ \A i \in DOMAIN enforcements : enforcements[i].seq < serving[t].position

OneInHand == \A t, u \in Servers : InHand(t) /\ InHand(u) => t = u

CitedInOrder ==
  \A i, j \in DOMAIN enforcements :
    i < j /\ enforcements[j].seq # 0 => enforcements[i].seq < enforcements[j].seq

Ordered ==
  /\ NumberedInOrder
  /\ LastInHand
  /\ OneInHand
  /\ CitedInOrder

OrderInv == LogsInv /\ (~overlapped => Ordered)

LEMMA OrderedAtFirst ==
  ASSUME ObservationsInit
  PROVE  Ordered
<1>1. DOMAIN observations = {} /\ DOMAIN enforcements = {}
  BY DEF ObservationsInit
<1>2. \A t \in Servers : serving[t] = Resting
  BY DEF ObservationsInit
<1> QED
  BY <1>1, <1>2
     DEF Ordered, NumberedInOrder, LastInHand, OneInHand, CitedInOrder, InHand

\* A step that takes nothing in hand and writes to neither log.
LEMMA NothingInHand ==
  ASSUME Ordered, UNCHANGED <<observations, enforcements>>,
         \A u \in Servers : serving'[u] # Resting =>
           \/ serving'[u].step # "append" /\ serving'[u].position = 0
           \/ /\ serving[u] # Resting
              /\ serving'[u].position = serving[u].position
              /\ serving'[u].step = "append" =>
                   /\ serving[u].step = "append"
                   /\ serving'[u].next = serving[u].next
  PROVE  Ordered'
<1>1. NumberedInOrder' /\ CitedInOrder'
  BY DEF Ordered, NumberedInOrder, CitedInOrder
<1>2. LastInHand'
  BY DEF Ordered, LastInHand
<1>3. \A u \in Servers : InHand(u)' => InHand(u)
  BY DEF InHand
<1>4. OneInHand'
  BY <1>3 DEF Ordered, OneInHand
<1> QED
  BY <1>1, <1>2, <1>4 DEF Ordered

LEMMA OtherStepsOrder ==
  ASSUME LogsInv, Ordered, NEW t \in Servers,
         \/ \E r \in Requested : Receive(t, r)
         \/ Refuse(t) \/ Authenticate(t) \/ NotObserved(t)
         \/ Redeem(t) \/ Decide(t) \/ FailToEnforce(t)
  PROVE  Ordered'
<1> DEFINE c == serving'[t]
<1>1. /\ serving \in [Servers -> Service \cup {Resting}]
      /\ UNCHANGED <<observations, enforcements>>
  BY DEF LogsInv, ObservationsTypeOK, Receive, Refuse, Authenticate,
         NotObserved, Redeem, Decide, FailToEnforce
<1>2. \A u \in Servers : u # t => serving'[u] = serving[u]
  BY <1>1 DEF Receive, Refuse, Authenticate, NotObserved, Redeem, Decide,
              FailToEnforce
<1>3. c # Resting => \/ c.step # "append" /\ c.position = 0
                     \/ /\ serving[t] # Resting /\ c.step # "append"
                        /\ c.position = serving[t].position
  <2>1. CASE \E r \in Requested : Receive(t, r)
    BY <1>1, <2>1 DEF Receive
  <2>2. CASE FailToEnforce(t)
    BY <1>1, <2>2 DEF FailToEnforce
  <2>3. CASE Refuse(t) \/ Authenticate(t) \/ NotObserved(t) \/ Redeem(t) \/ Decide(t)
    <3>1. serving[t] \in Service /\ serving[t] # Resting
      BY <1>1, <2>3 DEF Refuse, Authenticate, NotObserved, Redeem, Decide, At
    <3>2. CASE Refuse(t)
      <4>1. PICK known \in BOOLEAN :
              serving' = [serving EXCEPT ![t].step = "finish", ![t].known = known]
        BY <3>2 DEF Refuse
      <4> QED
        BY <1>1, <3>1, <4>1 DEF Service
    <3>3. CASE Authenticate(t)
      BY <1>1, <3>1, <3>3 DEF Authenticate, Service
    <3>4. CASE NotObserved(t)
      BY <1>1, <3>1, <3>4 DEF NotObserved, Service
    <3>5. CASE Redeem(t)
      BY <1>1, <3>1, <3>5 DEF Redeem, Service
    <3>6. CASE Decide(t)
      BY <1>1, <3>1, <3>6 DEF Decide, Service
    <3> QED
      BY <2>3, <3>2, <3>3, <3>4, <3>5, <3>6
  <2> QED
    BY <2>1, <2>2, <2>3
<1>4. \A u \in Servers : serving'[u] # Resting =>
        \/ serving'[u].step # "append" /\ serving'[u].position = 0
        \/ /\ serving[u] # Resting
           /\ serving'[u].position = serving[u].position
           /\ serving'[u].step = "append" =>
                /\ serving[u].step = "append"
                /\ serving'[u].next = serving[u].next
  BY <1>2, <1>3
<1> QED
  BY <1>1, <1>4, NothingInHand

\* The length is read while nobody else has an observation in hand.
LEMMA ReadLengthOrders ==
  ASSUME LogsInv, Ordered, NEW t \in Servers, ReadLength(t), ~overlapped'
  PROVE  Ordered'
<1>1. /\ serving \in [Servers -> Service \cup {Resting}]
      /\ serving[t] \in Service /\ serving[t] # Resting
      /\ serving[t].step = "observe" /\ serving[t].position = 0
      /\ UNCHANGED <<observations, enforcements>>
      /\ Len(observations) \in Nat
  BY DEF LogsInv, ObservationsTypeOK, ReadLength, At, Carries, Unobserved
<1>2. /\ serving'[t].next = Len(observations) + 1
      /\ serving'[t].position = 0
      /\ \A u \in Servers : u # t => serving'[u] = serving[u]
  BY <1>1 DEF ReadLength, Service
<1>3. \A u \in Servers : u # t =>
        serving[u] = Resting \/ (serving[u].step = "gate" /\ serving[u].position = 0)
  BY <1>1 DEF ReadLength, LogsInv, Carries, Unobserved
<1>4. OneInHand'
  BY <1>2, <1>3 DEF OneInHand, InHand
<1>5. LastInHand'
  BY <1>1, <1>2 DEF Ordered, LastInHand
<1>6. NumberedInOrder' /\ CitedInOrder'
  BY <1>1 DEF Ordered, NumberedInOrder, CitedInOrder
<1> QED
  BY <1>4, <1>5, <1>6 DEF Ordered

LEMMA AppendOrders ==
  ASSUME LogsInv, Ordered, NEW t \in Servers, AppendObservation(t)
  PROVE  Ordered'
<1> DEFINE o == Recorded(serving[t])
<1>1. /\ serving \in [Servers -> Service \cup {Resting}]
      /\ serving[t] \in Service /\ serving[t] # Resting
      /\ serving[t].step = "append" /\ serving[t].known
  BY DEF LogsInv, ObservationsTypeOK, AppendObservation, At, Carries
<1>2. o \in Observation /\ observations \in Seq(Observation)
  BY <1>1 DEF LogsInv, ObservationsTypeOK, Recorded, Observation, Service
<1> PICK n \in Nat : n = Len(observations)
  BY <1>2
<1>3. /\ Len(observations') = n + 1 /\ observations'[n + 1] = o
      /\ DOMAIN observations' = 1..(n + 1) /\ DOMAIN observations = 1..n
      /\ \A i \in 1..n : observations'[i] = observations[i]
  BY <1>2 DEF AppendObservation
<1>4. o.seq = n + 1
  BY <1>1 DEF Ordered, LastInHand, Recorded
<1>5. /\ serving'[t].position = n + 1 /\ serving'[t].step = "act"
      /\ \A u \in Servers : u # t => serving'[u] = serving[u]
      /\ enforcements' = enforcements
  BY <1>1 DEF AppendObservation, Service
<1>6. \A u \in Servers : u # t => ~InHand(u)
  BY <1>1 DEF Ordered, OneInHand, InHand
<1>7. NumberedInOrder' /\ CitedInOrder'
  BY <1>3, <1>4, <1>5 DEF Ordered, NumberedInOrder, CitedInOrder
<1>8. OneInHand'
  BY <1>5, <1>6 DEF OneInHand, InHand
<1>9. \A i \in DOMAIN enforcements : enforcements[i].seq < n + 1
  <2> SUFFICES ASSUME NEW i \in DOMAIN enforcements
               PROVE  enforcements[i].seq < n + 1
    OBVIOUS
  <2>1. CASE enforcements[i].of = 0
    BY <2>1 DEF LogsInv, CitesItsObservation
  <2>2. CASE enforcements[i].of # 0
    <3>1. /\ enforcements[i].of \in 1..n
          /\ enforcements[i].seq = enforcements[i].of
      BY <1>3, <2>2 DEF LogsInv, CitesItsObservation, Ordered, NumberedInOrder
    <3> QED
      BY <3>1
  <2> QED
    BY <2>1, <2>2
<1>10. LastInHand'
  <2> SUFFICES ASSUME NEW u \in Servers, serving'[u] # Resting
               PROVE  /\ serving'[u].step = "append" =>
                           serving'[u].next = Len(observations') + 1
                      /\ serving'[u].position # 0 =>
                           /\ serving'[u].position = Len(observations')
                           /\ \A i \in DOMAIN enforcements' :
                                enforcements'[i].seq < serving'[u].position
    BY DEF LastInHand
  <2>1. CASE u = t
    BY <1>3, <1>5, <1>9, <2>1
  <2>2. CASE u # t
    BY <1>5, <1>6, <2>2 DEF InHand
  <2> QED
    BY <2>1, <2>2
<1> QED
  BY <1>7, <1>8, <1>10 DEF Ordered

LEMMA EnforceOrders ==
  ASSUME LogsInv, Ordered, NEW t \in Servers, Enforce(t)
  PROVE  Ordered'
<1> DEFINE e == AuditRecord(t)
<1>1. /\ serving \in [Servers -> Service \cup {Resting}]
      /\ serving[t] \in Service /\ serving[t] # Resting
      /\ enforcements \in Seq(Enforcement) /\ inFlight[t] \in Nat
      /\ serving[t].position \in Nat
  BY DEF LogsInv, ObservationsTypeOK, Enforce, At, Service
<1>2. e \in Enforcement /\ e.seq = inFlight[t]
  BY <1>1 DEF AuditRecord, Enforcement, Service
<1> PICK n \in Nat : n = Len(enforcements)
  BY <1>1
<1>3. /\ enforcements'[n + 1] = e
      /\ DOMAIN enforcements' = 1..(n + 1) /\ DOMAIN enforcements = 1..n
      /\ \A i \in 1..n : enforcements'[i] = enforcements[i]
      /\ observations' = observations
  BY <1>1, <1>2 DEF Enforce
<1>4. e.seq = serving[t].position
  BY <1>1, <1>2
     DEF LogsInv, Carries, Unobserved, ObservedAs, Ordered, NumberedInOrder
<1>5. serving'[t] = Resting /\ \A u \in Servers : u # t => serving'[u] = serving[u]
  BY <1>1 DEF Enforce
<1>6. e.seq # 0 => \A i \in 1..n : enforcements[i].seq < e.seq
  BY <1>1, <1>3, <1>4 DEF Ordered, LastInHand
<1>7. NumberedInOrder'
  BY <1>3 DEF Ordered, NumberedInOrder
<1>8. OneInHand'
  BY <1>5 DEF Ordered, OneInHand, InHand
<1>9. CitedInOrder'
  <2> SUFFICES ASSUME NEW i \in 1..(n + 1), NEW j \in 1..(n + 1), i < j,
                      enforcements'[j].seq # 0
               PROVE  enforcements'[i].seq < enforcements'[j].seq
    BY <1>3 DEF CitedInOrder
  <2>1. i \in 1..n
    OBVIOUS
  <2>2. CASE j = n + 1
    BY <1>3, <1>6, <2>1, <2>2
  <2>3. CASE j # n + 1
    <3>1. j \in 1..n
      BY <2>3
    <3> QED
      BY <1>3, <2>1, <3>1 DEF Ordered, CitedInOrder
  <2> QED
    BY <2>2, <2>3
<1>10. LastInHand'
  <2> SUFFICES ASSUME NEW u \in Servers, serving'[u] # Resting
               PROVE  /\ serving'[u].step = "append" =>
                           serving'[u].next = Len(observations') + 1
                      /\ serving'[u].position # 0 =>
                           /\ serving'[u].position = Len(observations')
                           /\ \A i \in DOMAIN enforcements' :
                                enforcements'[i].seq < serving'[u].position
    BY DEF LastInHand
  <2>1. u # t /\ serving'[u] = serving[u]
    BY <1>5
  <2>2. serving'[u].step = "append" =>
          serving'[u].next = Len(observations') + 1
    BY <1>3, <2>1 DEF Ordered, LastInHand
  <2>3. ASSUME serving[u].position # 0
        PROVE  /\ serving[u].position = Len(observations)
               /\ \A i \in 1..(n + 1) :
                    enforcements'[i].seq < serving[u].position
    <3>1. ~InHand(t) /\ e.seq = 0
      BY <1>1, <1>4, <2>1, <2>3 DEF Ordered, OneInHand, InHand
    <3>2. /\ serving[u].position = Len(observations)
          /\ \A i \in 1..n : enforcements[i].seq < serving[u].position
      BY <1>3, <2>1, <2>3 DEF Ordered, LastInHand
    <3>3. 0 < serving[u].position
      <4>1. serving[u].position \in Nat
        BY <1>1, <2>1 DEF Service
      <4> QED
        BY <2>3, <4>1
    <3> QED
      BY <1>3, <3>1, <3>2, <3>3
  <2> QED
    BY <1>3, <2>1, <2>2, <2>3
<1> QED
  BY <1>7, <1>8, <1>9, <1>10 DEF Ordered

LEMMA OrderInvariance == ObservationsSpec => []OrderInv
<1>1. ObservationsInit => OrderInv
  BY LogsInitially, OrderedAtFirst DEF OrderInv
<1>2. ASSUME OrderInv, [ObservationsNext]_observationVars
      PROVE  OrderInv'
  <2>1. LogsInv /\ LogsInv'
    BY <1>2, ObservationsNextKeeps DEF OrderInv
  <2>2. ASSUME ~overlapped' PROVE Ordered'
    <3>1. ~overlapped
      BY <1>2, <2>2
         DEF ObservationsNext, Serve, Receive, Refuse, Authenticate, ReadLength,
             AppendObservation, NotObserved, Redeem, Decide, Enforce,
             FailToEnforce, observationVars
    <3>2. Ordered
      BY <1>2, <3>1 DEF OrderInv
    <3>3. CASE UNCHANGED observationVars
      BY <3>2, <3>3, NothingInHand DEF observationVars
    <3> QED
      BY <1>2, <2>1, <2>2, <3>2, <3>3, OtherStepsOrder, ReadLengthOrders,
         AppendOrders, EnforceOrders
         DEF ObservationsNext, Serve
  <2> QED
    BY <2>1, <2>2 DEF OrderInv
<1>3. OrderInv /\ [ObservationsNext]_observationVars => OrderInv'
  BY <1>2
<1> QED
  BY <1>1, <1>3, PTL DEF ObservationsSpec

\* The offline checks I4 and I6 report nothing of a correct kernel unless two
\* requests were observed at once, and no entry cites an observation that is
\* not there.
THEOREM AlarmsMeanOverlap == ObservationsSpec => []AlarmsNeedOverlap
<1>1. ASSUME OrderInv PROVE AlarmsNeedOverlap
  <2>1. \A i \in DOMAIN enforcements : enforcements[i].seq # 0 =>
          /\ enforcements[i].of \in DOMAIN observations
          /\ observations[enforcements[i].of].seq = enforcements[i].seq
          /\ observations[enforcements[i].of].principal = enforcements[i].principal
    BY <1>1 DEF OrderInv, LogsInv, CitesItsObservation
  <2>2. Dangling = {}
    BY <2>1 DEF Dangling, BySeq
  <2>3. ASSUME Observed # {}, CheckI4 = "VIOLATED" \/ CheckI6 = "VIOLATED",
               ~overlapped
        PROVE  FALSE
    <3>1. Ordered
      BY <1>1, <2>3 DEF OrderInv
    <3>2. CASE CheckI4 = "VIOLATED"
      <4>1. PICK i \in Observed, j \in Observed :
              i < j /\ enforcements[j].seq <= enforcements[i].seq
        BY <2>3, <3>2 DEF CheckI4, NextObserved
      <4>2. /\ i \in DOMAIN enforcements /\ j \in DOMAIN enforcements
            /\ enforcements[j].seq # 0
        BY DEF Observed
      <4>3. enforcements[i].seq < enforcements[j].seq
        BY <3>1, <4>1, <4>2 DEF Ordered, CitedInOrder
      <4>4. enforcements[i].seq \in Nat /\ enforcements[j].seq \in Nat
        <5>1. enforcements \in Seq(Enforcement)
          BY <1>1 DEF OrderInv, LogsInv, ObservationsTypeOK
        <5>2. enforcements[i] \in Enforcement /\ enforcements[j] \in Enforcement
          BY <4>2, <5>1
        <5> QED
          BY <5>2 DEF Enforcement
      <4> QED
        BY <4>1, <4>3, <4>4
    <3>3. CASE CheckI6 = "VIOLATED"
      <4>1. PICK i \in Observed :
              observations[Latest(BySeq(enforcements[i].seq))].principal
                # enforcements[i].principal
        BY <2>3, <3>3 DEF CheckI6
      <4>2. /\ i \in DOMAIN enforcements /\ enforcements[i].seq # 0
            /\ BySeq(enforcements[i].seq) # {}
        BY DEF Observed
      <4>3. BySeq(enforcements[i].seq) \subseteq {enforcements[i].seq}
        BY <3>1 DEF Ordered, NumberedInOrder, BySeq
      <4>4. Latest(BySeq(enforcements[i].seq)) = enforcements[i].seq
        <5>1. /\ BySeq(enforcements[i].seq) \in SUBSET (1..Len(observations))
              /\ Len(observations) \in Nat
          BY <1>1 DEF OrderInv, LogsInv, ObservationsTypeOK, BySeq
        <5>2. Latest(BySeq(enforcements[i].seq)) \in BySeq(enforcements[i].seq)
          BY <4>2, <5>1, LatestIsIn
        <5> QED
          BY <4>3, <5>2
      <4>5. enforcements[i].of = enforcements[i].seq
        BY <2>1, <3>1, <4>2 DEF Ordered, NumberedInOrder
      <4> QED
        BY <2>1, <4>1, <4>2, <4>4, <4>5
    <3> QED
      BY <2>3, <3>2, <3>3
  <2> QED
    BY <2>2, <2>3 DEF AlarmsNeedOverlap
<1>2. OrderInv => AlarmsNeedOverlap
  BY <1>1
<1> QED
  BY <1>2, OrderInvariance, PTL

-----------------------------------------------------------------------------
\* Persistence

\* At most one transaction writes, and it is that of a call in commit, or of
\* a store whose calls have raised.
OneWriter ==
  \A s, o \in Stores :
    txn[s].mode = "writing" /\ txn[o].mode = "writing" => s = o

CommitsWrite ==
  \A s \in Stores : Commits(s) =>
    txn[s] = Writing /\ draft[storing[s].key] \in Row

RestsAutomatic ==
  \A s \in Stores : s \notin raised /\ ~Commits(s) => txn[s] = Automatic

Sound(row) == row # NoRow /\ ~row.raced => row.hash = row.data

\* What the transaction that writes would commit: rows that were acknowledged
\* or attempted, but for the one in commit, and no row of the file less.
DraftFits ==
  \A s \in Stores : txn[s] = Writing =>
    \A k \in AllKeys :
      /\ \/ draft[k] \in {promised[k]} \cup attempted[k]
         \/ Commits(s) /\ storing[s].key = k
      /\ File[k] # NoRow => draft[k] # NoRow
      /\ Sound(draft[k])

\* What a revocation has selected is still there, and is as it was unless it
\* has been overtaken.
RevocationsFit ==
  \A s \in Stores : RevokesRead(s) =>
    /\ txn[s] # Begun
    /\ View(s)[storing[s].key] # NoRow
    /\ ~storing[s].overtaken =>
         View(s)[storing[s].key].data = storing[s].read

StoresInv ==
  /\ StoresTypeOK
  /\ OneWriter
  /\ CommitsWrite
  /\ RestsAutomatic
  /\ DraftFits
  /\ RevocationsFit
  /\ AcknowledgedRows
  /\ IntegrityUnlessRaced

LEMMA CallKinds ==
  ASSUME StoresTypeOK, NEW s \in Stores
  PROVE  /\ RevokesRead(s) => storing[s] \in Revoking
         /\ Commits(s) => storing[s] \in Committing
         /\ storing[s] # Quiet /\ ~RevokesRead(s) => Commits(s)
<1>1. storing[s] \in Revoking => "read" \in DOMAIN storing[s]
  BY DEF Revoking
<1>2. storing[s] \in Committing => "read" \notin DOMAIN storing[s]
  BY DEF Committing
<1> QED
  BY <1>1, <1>2 DEF StoresTypeOK, RevokesRead, Commits

LEMMA Modes ==
  ASSUME StoresTypeOK, NEW s \in Stores
  PROVE  /\ txn[s].mode = "writing" <=> txn[s] = Writing
         /\ txn[s].mode = "reading" => txn[s].at \in 1..Len(wal)
         /\ txn[s].mode = "reading" => txn[s] = Reading(txn[s].at)
         /\ txn[s].mode = "begun" <=> txn[s] = Begun
  BY DEF StoresTypeOK, Writing, Reading, Begun, Automatic

LEMMA FileIsIn ==
  ASSUME StoresTypeOK
  PROVE  /\ Len(wal) \in Nat \ {0} /\ File \in [AllKeys -> Row \cup {NoRow}]
         /\ \A n \in 1..Len(wal) : wal[n] \in [AllKeys -> Row \cup {NoRow}]
  BY DEF StoresTypeOK, File

\* What a store that may write reads is its own draft or the file.
LEMMA ViewToWrite ==
  ASSUME StoresTypeOK, NEW s \in Stores, MayWrite(s)
  PROVE  View(s) = IF txn[s] = Writing THEN draft ELSE File
  BY Modes DEF MayWrite, View, File

LEMMA ViewIsTyped ==
  ASSUME StoresTypeOK, NEW s \in Stores
  PROVE  View(s) \in [AllKeys -> Row \cup {NoRow}]
  BY Modes, FileIsIn DEF View, StoresTypeOK

LEMMA StoresInitially ==
  ASSUME StoresInit
  PROVE  StoresInv
<1>1. wal \in Seq([AllKeys -> Row \cup {NoRow}]) /\ Len(wal) = 1
      /\ File = [k \in AllKeys |-> NoRow]
  BY DEF StoresInit, File
<1>2. StoresTypeOK
  BY <1>1, StoresAssumption DEF StoresInit, StoresTypeOK, StoresAssumption
<1> QED
  BY <1>1, <1>2
     DEF StoresInit, StoresInv, OneWriter, CommitsWrite, RestsAutomatic,
         DraftFits, RevocationsFit, AcknowledgedRows, IntegrityUnlessRaced,
         Commits, RevokesRead, Automatic, Writing

\* A statement that writes, in a call that was between calls or revokes.
LEMMA WriteKeeps ==
  ASSUME StoresInv, NEW s \in Stores, NEW k \in AllKeys, NEW row \in Row,
         Sound(row), row # NoRow, ~Commits(s), Write(s, k, row),
         UNCHANGED <<tableOf, wal, opened, promised, attempted, raised>>,
         stored' \in 0..MaxStored
  PROVE  StoresInv'
<1>1. /\ draft' = [View(s) EXCEPT ![k] = row]
      /\ txn' = [txn EXCEPT ![s] = Writing]
      /\ storing' = [storing EXCEPT ![s] = [key |-> k]]
      /\ MayWrite(s) /\ StoresTypeOK
      /\ txn \in [Stores -> {Automatic, Begun, Writing}
                              \cup {Reading(n) : n \in 1..Len(wal)}]
      /\ storing \in [Stores -> Revoking \cup Committing \cup {Quiet}]
  BY DEF Write, StoresInv, StoresTypeOK
<1>2. View(s) \in [AllKeys -> Row \cup {NoRow}]
      /\ View(s) = IF txn[s] = Writing THEN draft ELSE File
  BY <1>1, ViewIsTyped, ViewToWrite
<1>3. draft' \in [AllKeys -> Row \cup {NoRow}] /\ draft'[k] = row
  BY <1>1, <1>2
<1>4. [key |-> k] \in Committing /\ [key |-> k] # Quiet
      /\ "read" \notin DOMAIN [key |-> k]
  BY DEF Committing, Quiet
<1>5. StoresTypeOK'
  BY <1>1, <1>3, <1>4 DEF StoresInv, StoresTypeOK
<1>6. \A o \in Stores \ {s} :
        /\ txn'[o] = txn[o] /\ txn[o] # Writing /\ storing'[o] = storing[o]
        /\ txn[o].mode # "writing"
  BY <1>1, Modes DEF MayWrite
<1>7. Writing.mode = "writing" /\ txn'[s] = Writing /\ storing'[s] = [key |-> k]
  BY <1>1 DEF Writing
<1>8. Commits(s)' /\ ~RevokesRead(s)'
  BY <1>4, <1>7 DEF Commits, RevokesRead
<1>9. OneWriter'
  BY <1>6, <1>7 DEF OneWriter
<1>10. CommitsWrite'
  <2> SUFFICES ASSUME NEW o \in Stores, Commits(o)'
               PROVE  txn'[o] = Writing /\ draft'[storing'[o].key] \in Row
    BY DEF CommitsWrite, Writing
  <2>1. CASE o = s
    BY <1>3, <1>7, <2>1
  <2>2. CASE o # s
    BY <1>6, <2>2 DEF StoresInv, CommitsWrite, Commits, RevokesRead
  <2> QED
    BY <2>1, <2>2
<1>11. RestsAutomatic'
  <2> SUFFICES ASSUME NEW o \in Stores, o \notin raised, ~Commits(o)'
               PROVE  txn'[o] = Automatic
    BY DEF RestsAutomatic, Automatic
  <2>1. o # s
    BY <1>8
  <2> QED
    BY <1>6, <2>1 DEF StoresInv, RestsAutomatic, Commits, RevokesRead
<1>12. DraftFits'
  <2> SUFFICES ASSUME NEW j \in AllKeys
               PROVE  /\ \/ draft'[j] \in {promised[j]} \cup attempted[j]
                         \/ Commits(s)' /\ storing'[s].key = j
                      /\ File[j] # NoRow => draft'[j] # NoRow
                      /\ Sound(draft'[j])
    BY <1>6, <1>7 DEF DraftFits, File, Sound
  <2>1. CASE j = k
    BY <1>3, <1>7, <1>8, <2>1
  <2>2. CASE j # k
    <3>1. draft'[j] = View(s)[j]
      BY <1>1, <1>2, <2>2
    <3> QED
      BY <1>2, <3>1
         DEF StoresInv, DraftFits, AcknowledgedRows, IntegrityUnlessRaced, Sound
  <2> QED
    BY <2>1, <2>2
<1>13. RevocationsFit'
  <2> SUFFICES ASSUME NEW o \in Stores, RevokesRead(o)'
               PROVE  /\ txn'[o] # Begun
                      /\ View(o)'[storing'[o].key] # NoRow
                      /\ ~storing'[o].overtaken =>
                           View(o)'[storing'[o].key].data = storing'[o].read
    BY DEF RevocationsFit, Begun, NoRow
  <2>1. o # s
    BY <1>8
  <2>2. View(o)' = View(o) /\ storing'[o] = storing[o] /\ txn'[o] = txn[o]
    BY <1>6, <2>1 DEF View, File
  <2>3. RevokesRead(o)
    BY <1>6, <2>1 DEF RevokesRead
  <2> QED
    BY <2>2, <2>3 DEF StoresInv, RevocationsFit
<1> QED
  BY <1>5, <1>9, <1>10, <1>11, <1>12, <1>13
     DEF StoresInv, AcknowledgedRows, IntegrityUnlessRaced, File

LEMMA ReplaceKeeps ==
  ASSUME StoresInv, NEW s \in Stores, NEW k \in AllKeys, NEW data \in Object,
         Replace(s, k, data)
  PROVE  StoresInv'
<1> DEFINE row == [data |-> data, hash |-> data, raced |-> FALSE]
<1>1. row \in Row /\ row # NoRow /\ Sound(row)
  BY DEF Row, NoRow, Sound
<1>2. ~Commits(s) /\ Write(s, k, row)
      /\ UNCHANGED <<tableOf, wal, opened, promised, attempted, raised>>
  BY DEF Replace, Free, Commits
<1>3. stored' \in 0..MaxStored
  BY StoresAssumption DEF StoresInv, StoresTypeOK, Replace, StoresAssumption
<1> HIDE DEF row
<1> QED
  BY <1>1, <1>2, <1>3, WriteKeeps

LEMMA StoringKeeps ==
  ASSUME StoresInv, NEW s \in Stores,
         \/ StoreCapability(s) \/ StoreRecord(s) \/ AppendEvent(s)
         \/ StoreEscalation(s) \/ SetState(s)
  PROVE  StoresInv'
<1>1. \A t \in Tables : Keys[t] \subseteq AllKeys
  BY DEF AllKeys, Tables
<1>2. {"capabilities", "evidence_records", "evidence_events", "escalations",
       "governance_state"} \subseteq Tables
  BY DEF Tables
<1>3. \A what \in Terms : [terms |-> what, mark |-> FALSE] \in Object
  BY DEF Object
<1>4. \A record \in Object : EvidenceToPersist(record) \in Object
  BY DEF Object, EvidenceToPersist
<1>5. PICK k \in AllKeys, data \in Object : Replace(s, k, data)
  BY <1>1, <1>2, <1>3, <1>4
     DEF StoreCapability, StoreRecord, AppendEvent, StoreEscalation, SetState
<1> QED
  BY <1>5, ReplaceKeeps

LEMMA UpdateRevokedKeeps ==
  ASSUME StoresInv, NEW s \in Stores, UpdateRevoked(s)
  PROVE  StoresInv'
<1> DEFINE k == storing[s].key
           old == View(s)[k]
           row == [data |-> [old.data EXCEPT !.mark = TRUE],
                   hash |-> RevokedHash(s, old), raced |-> storing[s].overtaken]
<1>1. RevokesRead(s) /\ storing[s] \in Revoking /\ k \in AllKeys
      /\ storing[s].read \in Object /\ storing[s].overtaken \in BOOLEAN
  BY CallKinds DEF StoresInv, UpdateRevoked, Revoking
<1>2. old \in Row /\ old.data \in Object
  BY <1>1, ViewIsTyped DEF StoresInv, RevocationsFit, Row
<1>3. ~storing[s].overtaken => old.data = storing[s].read
  BY <1>1, Zenon DEF StoresInv, RevocationsFit
<1>4. row \in Row /\ row # NoRow
  <2>1. [old.data EXCEPT !.mark = TRUE] \in Object
    BY <1>2 DEF Object
  <2>2. RevokedHash(s, old) \in Object
    BY <1>1 DEF RevokedHash, Object
  <2> QED
    BY <1>1, <2>1, <2>2 DEF Row, NoRow
<1>5. Sound(row)
  BY <1>3 DEF Sound, RevokedHash
<1>6. ~Commits(s) /\ Write(s, k, row)
      /\ UNCHANGED <<tableOf, wal, opened, promised, attempted, raised>>
      /\ stored' \in 0..MaxStored
  BY <1>1 DEF UpdateRevoked, Commits, history, StoresInv, StoresTypeOK
<1> HIDE DEF row, k
<1> QED
  BY <1>1, <1>4, <1>5, <1>6, WriteKeeps

\* A statement that reads, and the call it is in; no file, draft or promise
\* changes.
LEMMA ReadKeeps ==
  ASSUME StoresInv, NEW s \in Stores, Free(s),
         NEW call \in Revoking \cup {Quiet},
         call # Quiet => /\ View(s)[call.key] # NoRow
                         /\ View(s)[call.key].data = call.read,
         txn' = [txn EXCEPT ![s] = AfterReading(s)],
         storing' = [storing EXCEPT ![s] = call],
         UNCHANGED <<tableOf, wal, draft, opened, promised, attempted, raised>>,
         stored' \in 0..MaxStored
  PROVE  StoresInv'
<1>1. /\ StoresTypeOK /\ storing[s] = Quiet
      /\ txn \in [Stores -> {Automatic, Begun, Writing}
                              \cup {Reading(n) : n \in 1..Len(wal)}]
      /\ storing \in [Stores -> Revoking \cup Committing \cup {Quiet}]
      /\ Len(wal) \in Nat \ {0}
  BY FileIsIn DEF StoresInv, StoresTypeOK, Free
<1>2. /\ AfterReading(s) \in {Automatic, Writing} \cup {Reading(n) : n \in 1..Len(wal)}
      /\ AfterReading(s) # Begun
      /\ AfterReading(s).mode = "writing" <=> txn[s].mode = "writing"
      /\ txn[s] = Automatic => AfterReading(s) = Automatic
  BY <1>1 DEF AfterReading, Automatic, Begun, Writing, Reading
<1>3. StoresTypeOK'
  <2>1. txn' \in [Stores -> {Automatic, Begun, Writing}
                              \cup {Reading(n) : n \in 1..Len(wal)}]
    BY <1>1, <1>2
  <2>2. storing' \in [Stores -> Revoking \cup Committing \cup {Quiet}]
    BY <1>1
  <2> QED
    BY <1>1, <2>1, <2>2 DEF StoresTypeOK
<1>4. /\ txn'[s] = AfterReading(s) /\ storing'[s] = call
      /\ \A o \in Stores \ {s} : txn'[o] = txn[o] /\ storing'[o] = storing[o]
  BY <1>1
<1>5. ~Commits(s) /\ ~Commits(s)'
  <2>1. call # Quiet => "read" \in DOMAIN call
    BY DEF Revoking
  <2> QED
    BY <1>1, <1>4, <2>1 DEF Commits, RevokesRead
<1>6. OneWriter'
  BY <1>2, <1>4 DEF StoresInv, OneWriter
<1>7. CommitsWrite'
  <2> SUFFICES ASSUME NEW o \in Stores, Commits(o)'
               PROVE  txn'[o] = Writing /\ draft'[storing'[o].key] \in Row
    BY DEF CommitsWrite, Writing
  <2>1. o # s
    BY <1>5
  <2> QED
    BY <1>4, <2>1 DEF StoresInv, CommitsWrite, Commits, RevokesRead
<1>8. RestsAutomatic'
  <2> SUFFICES ASSUME NEW o \in Stores, o \notin raised, ~Commits(o)'
               PROVE  txn'[o] = Automatic
    BY DEF RestsAutomatic, Automatic
  <2>1. CASE o = s
    BY <1>2, <1>4, <1>5, <2>1 DEF StoresInv, RestsAutomatic
  <2>2. CASE o # s
    BY <1>4, <2>2 DEF StoresInv, RestsAutomatic, Commits, RevokesRead
  <2> QED
    BY <2>1, <2>2
<1>9. DraftFits'
  <2> SUFFICES ASSUME NEW o \in Stores, txn'[o] = Writing, NEW k \in AllKeys
               PROVE  /\ \/ draft[k] \in {promised[k]} \cup attempted[k]
                         \/ Commits(o)' /\ storing'[o].key = k
                      /\ File[k] # NoRow => draft[k] # NoRow
                      /\ Sound(draft[k])
    BY DEF DraftFits, Writing, File, Sound, NoRow
  <2>1. txn[o] = Writing
    BY <1>1, <1>2, <1>4, Modes DEF Writing
  <2>2. CASE o = s
    BY <1>5, <2>1, <2>2 DEF StoresInv, DraftFits
  <2>3. CASE o # s
    BY <1>4, <2>1, <2>3 DEF StoresInv, DraftFits, Commits, RevokesRead
  <2> QED
    BY <2>2, <2>3
<1>10. RevocationsFit'
  <2> SUFFICES ASSUME NEW o \in Stores, RevokesRead(o)'
               PROVE  /\ txn'[o] # Begun
                      /\ View(o)'[storing'[o].key] # NoRow
                      /\ ~storing'[o].overtaken =>
                           View(o)'[storing'[o].key].data = storing'[o].read
    BY DEF RevocationsFit, Begun, NoRow
  <2>1. CASE o = s
    <3>1. View(s)' = View(s)
      BY <1>1, <1>2, <1>4
         DEF View, File, AfterReading, Automatic, Begun, Writing, Reading
    <3>2. call # Quiet
      BY <1>4, <2>1 DEF RevokesRead
    <3> QED
      BY <1>2, <1>4, <2>1, <3>1, <3>2
  <2>2. CASE o # s
    <3>1. View(o)' = View(o) /\ storing'[o] = storing[o] /\ txn'[o] = txn[o]
      BY <1>4, <2>2 DEF View, File
    <3>2. RevokesRead(o)
      BY <1>4, <2>2 DEF RevokesRead
    <3> QED
      BY <3>1, <3>2 DEF StoresInv, RevocationsFit
  <2> QED
    BY <2>1, <2>2
<1> QED
  BY <1>3, <1>6, <1>7, <1>8, <1>9, <1>10
     DEF StoresInv, AcknowledgedRows, IntegrityUnlessRaced, File

LEMMA LoadKeeps ==
  ASSUME StoresInv, NEW s \in Stores, Load(s)
  PROVE  StoresInv'
<1>1. Free(s) /\ txn' = [txn EXCEPT ![s] = AfterReading(s)]
      /\ UNCHANGED <<tableOf, wal, draft, opened, promised, attempted, raised>>
  BY DEF Load, history
<1>2. storing' = [storing EXCEPT ![s] = Quiet]
  BY DEF StoresInv, StoresTypeOK, Load, Free
<1>3. stored' \in 0..MaxStored
  BY DEF StoresInv, StoresTypeOK, Load, history
<1> QED
  BY <1>1, <1>2, <1>3, ReadKeeps

LEMMA SelectToRevokeKeeps ==
  ASSUME StoresInv, NEW s \in Stores, SelectToRevoke(s)
  PROVE  StoresInv'
<1>1. PICK k \in Keys["capabilities"] :
        /\ View(s)[k] # NoRow
        /\ storing' = [storing EXCEPT ![s] =
             [key |-> k, read |-> View(s)[k].data, overtaken |-> FALSE]]
  BY DEF SelectToRevoke
<1> DEFINE call == [key |-> k, read |-> View(s)[k].data, overtaken |-> FALSE]
<1>2. k \in AllKeys
  BY DEF AllKeys, Tables
<1>3. View(s)[k].data \in Object
  BY <1>1, <1>2, ViewIsTyped DEF StoresInv, Row
<1>4. call \in Revoking
  BY <1>2, <1>3 DEF Revoking
<1>5. /\ Free(s) /\ txn' = [txn EXCEPT ![s] = AfterReading(s)]
      /\ UNCHANGED <<tableOf, wal, draft, opened, promised, attempted, raised>>
      /\ stored' \in 0..MaxStored
  BY StoresAssumption
     DEF SelectToRevoke, StoresInv, StoresTypeOK, StoresAssumption
<1>6. storing' = [storing EXCEPT ![s] = call] /\ View(s)[call.key] # NoRow
      /\ View(s)[call.key].data = call.read
  BY <1>1
<1> HIDE DEF call
<1> QED
  BY <1>4, <1>5, <1>6, ReadKeeps

\* A call ends without having committed: its transaction is what it was, or
\* another that does not write, and what it would have written was attempted
\* or is lost.
LEMMA DropKeeps ==
  ASSUME StoresInv, NEW s \in Stores,
         NEW t \in {Automatic, Begun, Writing} \cup {Reading(n) : n \in 1..Len(wal)},
         txn' = [txn EXCEPT ![s] = t],
         storing' = [storing EXCEPT ![s] = Quiet],
         t = Writing => txn[s] = Writing /\ draft' = draft,
         draft' = draft \/ (txn[s] = Writing /\ draft' = File),
         t = Writing => \A k \in AllKeys : draft[k] \in {promised[k]} \cup attempted'[k],
         attempted' \in [AllKeys -> SUBSET Row],
         \A k \in AllKeys : attempted[k] \subseteq attempted'[k],
         raised' = raised \cup {s} \/ (raised' = raised \ {s} /\ t = Automatic),
         opened' \in [Stores -> BOOLEAN], stored' \in 0..MaxStored,
         UNCHANGED <<tableOf, wal, promised>>
  PROVE  StoresInv'
<1>1. /\ StoresTypeOK
      /\ txn \in [Stores -> {Automatic, Begun, Writing}
                              \cup {Reading(n) : n \in 1..Len(wal)}]
      /\ storing \in [Stores -> Revoking \cup Committing \cup {Quiet}]
      /\ draft \in [AllKeys -> Row \cup {NoRow}]
      /\ File \in [AllKeys -> Row \cup {NoRow}]
  BY FileIsIn DEF StoresInv, StoresTypeOK
<1>2. StoresTypeOK'
  <2>1. txn' \in [Stores -> {Automatic, Begun, Writing}
                              \cup {Reading(n) : n \in 1..Len(wal)}]
    BY <1>1
  <2>2. storing' \in [Stores -> Revoking \cup Committing \cup {Quiet}]
    BY <1>1
  <2>3. draft' \in [AllKeys -> Row \cup {NoRow}]
    BY <1>1
  <2>4. raised' \in SUBSET Stores
    BY <1>1 DEF StoresTypeOK
  <2> QED
    BY <1>1, <2>1, <2>2, <2>3, <2>4 DEF StoresTypeOK
<1>3. /\ txn'[s] = t /\ storing'[s] = Quiet
      /\ \A o \in Stores \ {s} : txn'[o] = txn[o] /\ storing'[o] = storing[o]
  BY <1>1
<1>4. ~Commits(s)' /\ ~RevokesRead(s)'
  BY <1>3 DEF Commits, RevokesRead
<1>5. \A o \in Stores : txn'[o] = Writing => txn[o] = Writing /\ draft' = draft
  <2> SUFFICES ASSUME NEW o \in Stores, txn'[o] = Writing, o # s
               PROVE  draft' = draft /\ txn[o] = Writing
    BY <1>3
  <2> QED
    BY <1>1, <1>3, Modes DEF StoresInv, OneWriter
<1>6. OneWriter'
  <2> SUFFICES ASSUME NEW o \in Stores, NEW p \in Stores,
                      txn'[o].mode = "writing", txn'[p].mode = "writing"
               PROVE  o = p
    BY DEF OneWriter
  <2>1. txn'[o] = Writing /\ txn'[p] = Writing
    BY <1>1, <1>3 DEF Writing, Automatic, Begun, Reading
  <2> QED
    BY <1>1, <1>5, <2>1, Modes DEF StoresInv, OneWriter
<1>7. CommitsWrite'
  <2> SUFFICES ASSUME NEW o \in Stores, Commits(o)'
               PROVE  txn'[o] = Writing /\ draft'[storing'[o].key] \in Row
    BY DEF CommitsWrite, Writing
  <2>1. o # s
    BY <1>4
  <2>2. txn[o] = Writing /\ draft[storing[o].key] \in Row
    BY <1>3, <2>1 DEF StoresInv, CommitsWrite, Commits, RevokesRead
  <2> QED
    BY <1>3, <1>5, <2>1, <2>2
<1>8. RestsAutomatic'
  <2> SUFFICES ASSUME NEW o \in Stores, o \notin raised', ~Commits(o)'
               PROVE  txn'[o] = Automatic
    BY DEF RestsAutomatic, Automatic
  <2>1. CASE o = s
    BY <1>3, <2>1
  <2>2. CASE o # s
    BY <1>3, <2>2 DEF StoresInv, RestsAutomatic, Commits, RevokesRead
  <2> QED
    BY <2>1, <2>2
<1>9. DraftFits'
  <2> SUFFICES ASSUME NEW o \in Stores, txn'[o] = Writing, NEW k \in AllKeys
               PROVE  /\ \/ draft'[k] \in {promised[k]} \cup attempted'[k]
                         \/ Commits(o)' /\ storing'[o].key = k
                      /\ File[k] # NoRow => draft'[k] # NoRow
                      /\ Sound(draft'[k])
    BY DEF DraftFits, Writing, File, Sound, NoRow
  <2>1. txn[o] = Writing /\ draft' = draft
    BY <1>5
  <2>2. (File[k] # NoRow => draft[k] # NoRow) /\ Sound(draft[k])
    BY <2>1 DEF StoresInv, DraftFits
  <2>3. CASE o = s
    BY <1>3, <2>1, <2>2, <2>3
  <2>4. CASE o # s
    BY <1>3, <2>1, <2>2, <2>4 DEF StoresInv, DraftFits, Commits, RevokesRead
  <2> QED
    BY <2>3, <2>4
<1>10. RevocationsFit'
  <2> SUFFICES ASSUME NEW o \in Stores, RevokesRead(o)'
               PROVE  /\ txn'[o] # Begun
                      /\ View(o)'[storing'[o].key] # NoRow
                      /\ ~storing'[o].overtaken =>
                           View(o)'[storing'[o].key].data = storing'[o].read
    BY DEF RevocationsFit, Begun, NoRow
  <2>1. o # s
    BY <1>4
  <2>2. storing'[o] = storing[o] /\ txn'[o] = txn[o]
    BY <1>3, <2>1
  <2>3. View(o)' = View(o)
    BY <1>1, <1>5, <2>2, Modes DEF View, File
  <2>4. RevokesRead(o)
    BY <2>2 DEF RevokesRead
  <2> QED
    BY <2>2, <2>3, <2>4 DEF StoresInv, RevocationsFit
<1>11. AcknowledgedRows'
  BY DEF StoresInv, AcknowledgedRows, File
<1> QED
  BY <1>2, <1>6, <1>7, <1>8, <1>9, <1>10, <1>11
     DEF StoresInv, IntegrityUnlessRaced, File

LEMMA RefuseWriteKeeps ==
  ASSUME StoresInv, NEW s \in Stores, RefuseWrite(s)
  PROVE  StoresInv'
<1> DEFINE t == AfterRefusal(s)
<1>1. ~Commits(s)
  BY DEF RefuseWrite, Commits
<1>2. t \in {Automatic, Begun, Writing} \cup {Reading(n) : n \in 1..Len(wal)}
      /\ (t = Writing => txn[s] = Writing)
  BY DEF StoresInv, StoresTypeOK, AfterRefusal, Automatic, Begun, Writing
<1>3. t = Writing => \A k \in AllKeys : draft[k] \in {promised[k]} \cup attempted[k]
  BY <1>1, <1>2 DEF StoresInv, DraftFits
<1>4. /\ txn' = [txn EXCEPT ![s] = t]
      /\ storing' = [storing EXCEPT ![s] = Quiet]
      /\ raised' = raised \cup {s}
      /\ UNCHANGED <<tableOf, wal, draft, opened, promised, attempted, stored>>
      /\ attempted \in [AllKeys -> SUBSET Row] /\ opened \in [Stores -> BOOLEAN]
      /\ stored \in 0..MaxStored
  BY DEF RefuseWrite, StoresInv, StoresTypeOK
<1> HIDE DEF t
<1> QED
  BY <1>2, <1>3, <1>4, DropKeeps

LEMMA FailCommitKeeps ==
  ASSUME StoresInv, NEW s \in Stores, FailCommit(s)
  PROVE  StoresInv'
<1> DEFINE k == storing[s].key
           t == txn'[s]
<1>1. /\ Commits(s) /\ txn[s] = Writing /\ k \in AllKeys /\ draft[k] \in Row
      /\ attempted \in [AllKeys -> SUBSET Row] /\ opened \in [Stores -> BOOLEAN]
      /\ stored \in 0..MaxStored
  BY CallKinds
     DEF FailCommit, StoresInv, StoresTypeOK, CommitsWrite, Committing
<1>2. /\ attempted' \in [AllKeys -> SUBSET Row]
      /\ \A j \in AllKeys : attempted[j] \subseteq attempted'[j]
      /\ draft[k] \in attempted'[k]
  BY <1>1 DEF FailCommit
<1>3. \A j \in AllKeys : draft[j] \in {promised[j]} \cup attempted'[j]
  BY <1>1, <1>2 DEF StoresInv, DraftFits
<1>4. /\ storing' = [storing EXCEPT ![s] = Quiet]
      /\ raised' = raised \cup {s}
      /\ UNCHANGED <<tableOf, wal, opened, promised, stored>>
  BY DEF FailCommit
<1>5. CASE UNCHANGED <<txn, draft>>
  <2>1. txn' = [txn EXCEPT ![s] = Writing]
    BY <1>1, <1>5 DEF StoresInv, StoresTypeOK
  <2> QED
    BY <1>1, <1>2, <1>3, <1>4, <1>5, <2>1, DropKeeps
<1>6. CASE RollBack(s)
  <2>1. txn' = [txn EXCEPT ![s] = Automatic] /\ draft' = File /\ Automatic # Writing
    BY <1>1, <1>6 DEF RollBack, Automatic, Writing
  <2> QED
    BY <1>1, <1>2, <1>3, <1>4, <2>1, DropKeeps
<1> QED
  BY <1>5, <1>6 DEF FailCommit

LEMMA LoseKeeps ==
  ASSUME StoresInv, NEW s \in Stores, Lose(s)
  PROVE  StoresInv'
<1>1. /\ txn' = [txn EXCEPT ![s] = Automatic] /\ Automatic # Writing
      /\ draft' = draft \/ (txn[s] = Writing /\ draft' = File)
      /\ storing' = [storing EXCEPT ![s] = Quiet]
      /\ raised' = raised \ {s}
      /\ UNCHANGED <<tableOf, wal, promised, attempted>>
  BY DEF Lose, RollBack, Automatic, Writing
<1>2. /\ attempted \in [AllKeys -> SUBSET Row] /\ opened' \in [Stores -> BOOLEAN]
      /\ stored' \in 0..MaxStored
  BY StoresAssumption DEF StoresInv, StoresTypeOK, Lose, StoresAssumption
<1> QED
  BY <1>1, <1>2, DropKeeps

\* Who has a connection matters to none of the invariants.
LEMMA OpeningKeeps ==
  ASSUME StoresInv, opened' \in [Stores -> BOOLEAN],
         UNCHANGED <<tableOf, wal, txn, draft, storing, promised, attempted,
                     raised, stored>>
  PROVE  StoresInv'
<1>1. StoresTypeOK'
  BY DEF StoresInv, StoresTypeOK
<1>2. OneWriter'
  BY DEF StoresInv, OneWriter
<1>3. CommitsWrite'
  BY DEF StoresInv, CommitsWrite, Commits, RevokesRead
<1>4. RestsAutomatic'
  BY DEF StoresInv, RestsAutomatic, Commits, RevokesRead
<1>5. DraftFits'
  BY DEF StoresInv, DraftFits, Commits, RevokesRead, File
<1>6. RevocationsFit'
  BY DEF StoresInv, RevocationsFit, RevokesRead, View, File
<1>7. AcknowledgedRows' /\ IntegrityUnlessRaced'
  BY DEF StoresInv, AcknowledgedRows, IntegrityUnlessRaced, File
<1> QED
  BY <1>1, <1>2, <1>3, <1>4, <1>5, <1>6, <1>7 DEF StoresInv

LEMMA ConnectKeeps ==
  ASSUME StoresInv, NEW s \in Stores, Connect(s)
  PROVE  StoresInv'
<1>1. UNCHANGED <<tableOf, wal, txn, draft, storing, promised, attempted, raised,
                  stored>>
      /\ opened' \in [Stores -> BOOLEAN]
  BY DEF StoresInv, StoresTypeOK, Connect, history
<1> QED
  BY <1>1, OpeningKeeps

LEMMA CommitKeeps ==
  ASSUME StoresInv, NEW s \in Stores, Commit(s)
  PROVE  StoresInv'
<1> DEFINE k == storing[s].key
           F == [AllKeys -> Row \cup {NoRow}]
<1>1. /\ StoresTypeOK /\ Commits(s) /\ txn[s] = Writing
      /\ k \in AllKeys /\ draft[k] \in Row
      /\ draft \in F /\ wal \in Seq(F)
      /\ Len(wal) \in Nat \ {0} /\ File \in F
      /\ txn \in [Stores -> {Automatic, Begun, Writing}
                              \cup {Reading(n) : n \in 1..Len(wal)}]
      /\ storing \in [Stores -> Revoking \cup Committing \cup {Quiet}]
  BY CallKinds, FileIsIn
     DEF Commit, StoresInv, StoresTypeOK, CommitsWrite, Committing
<1>2. /\ wal' = Append(wal, draft) /\ txn' = [txn EXCEPT ![s] = Automatic]
      /\ storing' = [Overtaking(s) EXCEPT ![s] = Quiet]
      /\ promised' = [promised EXCEPT ![k] = draft[k]]
      /\ attempted' = [attempted EXCEPT ![k] = {}]
      /\ raised' = raised \ {s}
      /\ UNCHANGED <<tableOf, draft, opened, stored>>
  BY DEF Commit
<1>3. /\ wal' \in Seq(F) /\ Len(wal') = Len(wal) + 1 /\ File' = draft
      /\ \A n \in 1..Len(wal) : wal'[n] = wal[n]
  <2> HIDE DEF F
  <2> QED
    BY <1>1, <1>2 DEF File
<1>4. ASSUME NEW o \in Stores, o # s
      PROVE  /\ txn'[o] = txn[o] /\ txn[o].mode # "writing" /\ txn[o] # Writing
             /\ storing'[o] = IF Overtaken(s, o)
                              THEN [storing[o] EXCEPT !.overtaken = TRUE]
                              ELSE storing[o]
             /\ ~Commits(o)
  <2>1. txn[s].mode = "writing" /\ Writing.mode = "writing"
    BY <1>1 DEF Writing
  <2>2. txn[o].mode # "writing"
    BY <1>4, <2>1 DEF StoresInv, OneWriter
  <2>3. ~Commits(o)
    BY <2>1, <2>2 DEF StoresInv, CommitsWrite
  <2> QED
    BY <1>1, <1>2, <1>4, <2>1, <2>2, <2>3 DEF Overtaking
<1>5. txn'[s] = Automatic /\ storing'[s] = Quiet
  BY <1>1, <1>2 DEF Overtaking
<1>6. ASSUME NEW o \in Stores
      PROVE  storing'[o] \in Revoking \cup Committing \cup {Quiet}
  <2>1. CASE o # s /\ Overtaken(s, o)
    <3>1. storing[o] \in Revoking
      BY <1>1, <2>1, CallKinds DEF Overtaken
    <3>2. [storing[o] EXCEPT !.overtaken = TRUE] \in Revoking
      BY <3>1 DEF Revoking
    <3> QED
      BY <1>4, <2>1, <3>2
  <2>2. CASE ~(o # s /\ Overtaken(s, o))
    BY <1>1, <1>4, <1>5, <2>2
  <2> QED
    BY <2>1, <2>2
<1>7. StoresTypeOK'
  <2>1. storing' \in [Stores -> Revoking \cup Committing \cup {Quiet}]
    <3>1. storing' = [o \in Stores |-> storing'[o]]
      BY <1>2 DEF Overtaking
    <3> QED
      BY <1>6, <3>1
  <2>2. txn' \in [Stores -> {Automatic, Begun, Writing}
                              \cup {Reading(n) : n \in 1..Len(wal')}]
    BY <1>1, <1>2, <1>3
  <2>3. wal' \in Seq(F) /\ wal' # <<>>
    BY <1>1, <1>3
  <2>4. promised' \in F /\ attempted' \in [AllKeys -> SUBSET Row]
        /\ raised' \in SUBSET Stores
    BY <1>1, <1>2 DEF StoresTypeOK
  <2>5. /\ tableOf' \in [Stores -> Tables \ {"evidence_events"}]
        /\ draft' \in F /\ opened' \in [Stores -> BOOLEAN]
        /\ stored' \in 0..MaxStored
    BY <1>1, <1>2 DEF StoresTypeOK
  <2> HIDE DEF k
  <2> QED
    BY <2>1, <2>2, <2>3, <2>4, <2>5, Zenon DEF StoresTypeOK
<1>8. \A o \in Stores : txn'[o].mode # "writing" /\ txn'[o] # Writing
  <2>1. Automatic.mode # "writing" /\ Automatic # Writing
    BY DEF Automatic, Writing
  <2> TAKE o \in Stores
  <2>2. CASE o = s
    BY <1>5, <2>1, <2>2
  <2>3. CASE o # s
    BY <1>4, <2>3
  <2> QED
    BY <2>2, <2>3
<1>9. ASSUME NEW o \in Stores PROVE ~Commits(o)'
  <2>1. CASE o = s
    BY <1>5, <2>1 DEF Commits
  <2>2. CASE o # s
    <3>1. CASE Overtaken(s, o)
      <4>1. storing[o] \in Revoking
        BY <1>1, <3>1, CallKinds DEF Overtaken
      <4>2. storing'[o] \in Revoking
        BY <1>4, <2>2, <3>1, <4>1 DEF Revoking
      <4> QED
        BY <4>2 DEF Commits, RevokesRead, Revoking
    <3>2. CASE ~Overtaken(s, o)
      BY <1>4, <2>2, <3>2 DEF Commits, RevokesRead
    <3> QED
      BY <3>1, <3>2
  <2> QED
    BY <2>1, <2>2
<1>10. OneWriter' /\ CommitsWrite' /\ DraftFits'
  BY <1>8, <1>9 DEF OneWriter, CommitsWrite, DraftFits, Writing
<1>11. RestsAutomatic'
  <2> SUFFICES ASSUME NEW o \in Stores, o \notin raised'
               PROVE  txn'[o] = Automatic
    BY DEF RestsAutomatic, Automatic
  <2> QED
    BY <1>2, <1>4, <1>5 DEF StoresInv, RestsAutomatic
<1>12. ASSUME NEW j \in AllKeys
       PROVE  /\ draft[j] \in {promised'[j]} \cup attempted'[j]
              /\ Sound(draft[j])
              /\ File[j] # NoRow => draft[j] # NoRow
  <2>1. /\ \/ draft[j] \in {promised[j]} \cup attempted[j]
           \/ k = j
        /\ File[j] # NoRow => draft[j] # NoRow
        /\ Sound(draft[j])
    BY <1>1 DEF StoresInv, DraftFits
  <2> QED
    BY <1>1, <1>2, <2>1 DEF StoresTypeOK
<1>13. AcknowledgedRows' /\ IntegrityUnlessRaced'
  BY <1>3, <1>12 DEF AcknowledgedRows, IntegrityUnlessRaced, Sound, NoRow
<1>14. RevocationsFit'
  <2> SUFFICES ASSUME NEW o \in Stores, RevokesRead(o)'
               PROVE  /\ txn'[o] # Begun
                      /\ View(o)'[storing'[o].key] # NoRow
                      /\ ~storing'[o].overtaken =>
                           View(o)'[storing'[o].key].data = storing'[o].read
    BY DEF RevocationsFit, Begun, NoRow
  <2>1. o # s
    BY <1>5 DEF RevokesRead
  <2>2. RevokesRead(o)
    BY <1>4, <2>1 DEF RevokesRead, Overtaken
  <2>3. storing[o] \in Revoking /\ storing[o].key \in AllKeys
    BY <1>1, <2>2, CallKinds DEF Revoking
  <2>4. /\ storing'[o].key = storing[o].key /\ storing'[o].read = storing[o].read
        /\ Overtaken(s, o) => storing'[o].overtaken
        /\ ~Overtaken(s, o) => storing'[o].overtaken = storing[o].overtaken
    BY <1>4, <2>1, <2>3 DEF Revoking
  <2>5. /\ txn[o] # Begun /\ View(o)[storing[o].key] # NoRow
        /\ ~storing[o].overtaken =>
             View(o)[storing[o].key].data = storing[o].read
    BY <2>2 DEF StoresInv, RevocationsFit
  <2>6. CASE txn[o].mode = "reading"
    <3>1. txn[o].at \in 1..Len(wal) /\ txn'[o] = txn[o]
      BY <1>1, <1>4, <2>1, <2>6, Modes
    <3>2. View(o)' = View(o)
      BY <1>3, <2>6, <3>1 DEF View
    <3> QED
      BY <2>4, <2>5, <3>1, <3>2
  <2>7. CASE txn[o].mode # "reading"
    <3>1. View(o) = File /\ View(o)' = draft /\ txn'[o] = txn[o]
      BY <1>3, <1>4, <2>1, <2>7 DEF View
    <3>2. draft[storing[o].key] # NoRow
      BY <1>12, <2>3, <2>5, <3>1
    <3>3. ~Overtaken(s, o) => draft[storing[o].key] = File[storing[o].key]
      BY <2>1, <2>2 DEF Overtaken
    <3> QED
      BY <2>4, <2>5, <3>1, <3>2, <3>3
  <2> QED
    BY <2>6, <2>7
<1> QED
  BY <1>7, <1>10, <1>11, <1>13, <1>14 DEF StoresInv

LEMMA StoresNextKeeps ==
  ASSUME StoresInv, [StoresNext]_storeVars
  PROVE  StoresInv'
<1>1. CASE UNCHANGED storeVars
  <2>1. /\ UNCHANGED <<tableOf, wal, txn, draft, storing, promised, attempted,
                       raised, stored>>
        /\ opened' \in [Stores -> BOOLEAN]
    BY <1>1 DEF storeVars, history, StoresInv, StoresTypeOK
  <2> QED
    BY <2>1, OpeningKeeps
<1> QED
  BY <1>1, StoringKeeps, LoadKeeps, SelectToRevokeKeeps, UpdateRevokedKeeps,
     RefuseWriteKeeps, CommitKeeps, FailCommitKeeps, LoseKeeps, ConnectKeeps
     DEF StoresNext

LEMMA StoresInvariance == StoresSpec => []StoresInv
<1>1. StoresInv /\ [StoresNext]_storeVars => StoresInv'
  BY StoresNextKeeps
<1>2. StoresInit => StoresInv
  BY StoresInitially
<1> QED
  BY <1>1, <1>2, PTL DEF StoresSpec

\* The variables of Persistence hold values of their types.
THEOREM StoresTyping == StoresSpec => []StoresTypeOK
<1>1. StoresInv => StoresTypeOK
  BY DEF StoresInv
<1> QED
  BY StoresInvariance, <1>1, PTL

\* Nothing that a store acknowledged is lost or altered but by a call that
\* raised in its commit, for any number of stores, rows and failures.
THEOREM NothingAcknowledgedIsLost == StoresSpec => []AcknowledgedRows
<1>1. StoresInv => AcknowledgedRows
  BY DEF StoresInv
<1> QED
  BY StoresInvariance, <1>1, PTL

\* Every hash in the file is that of its row, but for revocations that
\* another store has overtaken.
THEOREM HashesHold == StoresSpec => []IntegrityUnlessRaced
<1>1. StoresInv => IntegrityUnlessRaced
  BY DEF StoresInv
<1> QED
  BY StoresInvariance, <1>1, PTL

\* A store reads what was last committed, unless a write of it has raised.
THEOREM ReadsStayCurrent == StoresSpec => []ReadsAreCurrent
<1>1. StoresInv => ReadsAreCurrent
  BY DEF StoresInv, RestsAutomatic, ReadsAreCurrent, Commits, View, Automatic
<1> QED
  BY StoresInvariance, <1>1, PTL

-----------------------------------------------------------------------------
(* The four components side by side.                                       *)

\* In the composition each component behaves as its own specification says:
\* what is proved of one of them alone holds of the composition.
THEOREM EachMovesAsAlone ==
  SupportSpec => StoresSpec /\ DelegationSpec /\ ProvisioningSpec /\ ObservationsSpec
<1>1. SupportInit => /\ StoresInit /\ DelegationInit
                     /\ ProvisioningInit /\ ObservationsInit
  BY DEF SupportInit
<1>2. ASSUME [SupportNext]_supportVars
      PROVE  /\ [StoresNext]_storeVars
             /\ [DelegationNext]_delegationVars
             /\ [ProvisioningNext]_provisioningVars
             /\ [ObservationsNext]_observationVars
  BY <1>2 DEF SupportNext, supportVars
<1>3. [SupportNext]_supportVars => /\ [StoresNext]_storeVars
                                   /\ [DelegationNext]_delegationVars
                                   /\ [ProvisioningNext]_provisioningVars
                                   /\ [ObservationsNext]_observationVars
  BY <1>2
<1> QED
  BY <1>1, <1>3, PTL
     DEF SupportSpec, StoresSpec, DelegationSpec, ProvisioningSpec,
         ObservationsSpec

\* The variables of all four hold values of their types.
THEOREM SupportTyping == SupportSpec => []SupportTypesOK
<1>1. /\ StoresTypeOK /\ DelegationTypeOK /\ ProvisioningTypeOK
      /\ ObservationsTypeOK
      => SupportTypesOK
  BY DEF SupportTypesOK
<1> QED
  BY <1>1, EachMovesAsAlone, StoresTyping, DelegationTyping, ProvisioningTyping,
     ObservationsTyping, PTL

=============================================================================
