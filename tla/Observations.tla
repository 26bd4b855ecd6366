---------------------------- MODULE Observations ----------------------------
(***************************************************************************)
(* The observation log (observation.py) that Mediator._gated writes before *)
(* a decision and _finish cites in the audit chain (mediator.py), the      *)
(* execution log of redeemed grants (execution.py), and the two checks an  *)
(* auditor runs over the three: check_invariants and                       *)
(* check_execution_invariant.  The audit chain has a lock, the observation *)
(* log has none: its length is read and then its record appended.          *)
(***************************************************************************)
EXTENDS Naturals, Sequences, FiniteSets

CONSTANTS
  Servers,      \* the threads that serve requests
  Principals,   \* who may sign a request
  RequestIds,   \* request ids
  EmptyId,      \* the one that is the empty string
  NoId,         \* the id, or the principal, that there is not
  Requested,    \* the requests that come in; one may have no id
  MaxServed     \* bound on the requests served

ASSUME ObservationsAssumption ==
  /\ NoId \notin Principals \cup RequestIds
  /\ EmptyId \in RequestIds
  /\ Requested \subseteq [principal: Principals, request: RequestIds \cup {NoId}]
  /\ MaxServed \in Nat

VARIABLES
  observing,      \* whether the mediator was given an ObservationLog
  observations,   \* ObservationLog._records
  enforcements,   \* the entries of the audit chain
  executed,       \* ExecutionLog._entries
  serving,        \* the request each thread serves
  inFlight,       \* _in_flight.observation_seq of each thread; 0 for None
  served,         \* how many requests have come in (for MaxServed)
  unwritten,      \* history: the observations of calls whose audit write failed
  overlapped      \* history: a request was observed while another was in hand

observationVars == <<observing, observations, enforcements, executed, serving,
                     inFlight, served, unwritten, overlapped>>

\* of and position are history: the position in the observation log of the
\* observation of the call itself, 0 when it has none.  So is asked, the id
\* with which the call came.
Observation == [seq: Nat, principal: Principals, request: RequestIds \cup {NoId}]

Enforcement == [seq: Nat, principal: Principals \cup {NoId}, of: Nat]

Execution == [request: RequestIds, principal: Principals, undone: BOOLEAN,
              of: Nat, asked: RequestIds \cup {NoId}]

Resting == <<>>

Service ==
  [step: {"gate", "observe", "append", "act", "finish"}, principal: Principals,
   request: RequestIds \cup {NoId}, next: Nat, position: Nat, execution: Nat,
   known: BOOLEAN]

ObservationsInit ==
  /\ observing \in BOOLEAN
  /\ observations = <<>>
  /\ enforcements = <<>>
  /\ executed = <<>>
  /\ serving = [t \in Servers |-> Resting]
  /\ inFlight = [t \in Servers |-> 0]
  /\ served = 0
  /\ unwritten = {}
  /\ overlapped = FALSE

-----------------------------------------------------------------------------

At(t, step) == serving[t] # Resting /\ serving[t].step = step

\* Defect: the carrier is left as the last call had it.
NotCleared(t) == inFlight[t]

\* What _gated leaves in the carrier of a thread that begins a call.
Cleared(t) == 0

Receive(t, r) ==
  /\ serving[t] = Resting
  /\ served < MaxServed
  /\ served' = served + 1
  /\ inFlight' = [inFlight EXCEPT ![t] = Cleared(t)]
  /\ serving' = [serving EXCEPT ![t] =
       [step |-> "gate", principal |-> r.principal, request |-> r.request,
        next |-> 0, position |-> 0, execution |-> 0, known |-> FALSE]]
  /\ UNCHANGED <<observing, observations, enforcements, executed,
                 unwritten, overlapped>>

\* Unavailable, not canonical, not authenticated: a DENY by _finish with no
\* observation, and with no principal unless only his claim did not match.
Refuse(t) ==
  /\ At(t, "gate")
  /\ \E known \in BOOLEAN :
       serving' = [serving EXCEPT ![t].step = "finish", ![t].known = known]
  /\ UNCHANGED <<observing, observations, enforcements, executed, inFlight,
                 served, unwritten, overlapped>>

Authenticate(t) ==
  /\ At(t, "gate")
  /\ serving' = [serving EXCEPT ![t].step = "observe", ![t].known = TRUE]
  /\ UNCHANGED <<observing, observations, enforcements, executed, inFlight,
                 served, unwritten, overlapped>>

\* record reads the length of the log for the number of its record ...
ReadLength(t) ==
  /\ At(t, "observe")
  /\ observing
  /\ serving' = [serving EXCEPT ![t].step = "append",
                                ![t].next = Len(observations) + 1]
  /\ overlapped' = (overlapped \/ \E o \in Servers \ {t} :
                      serving[o] # Resting /\ serving[o].step # "gate")
  /\ UNCHANGED <<observing, observations, enforcements, executed, inFlight,
                 served, unwritten>>

\* Defect: the request id is not kept.
RecordedWithoutId(c) ==
  [seq |-> c.next, principal |-> c.principal, request |-> NoId]

\* What record keeps of a request.
Recorded(c) ==
  [seq |-> c.next, principal |-> c.principal, request |-> c.request]

\* ... and appends it; _gated carries the number on.
AppendObservation(t) ==
  /\ At(t, "append")
  /\ observations' = Append(observations, Recorded(serving[t]))
  /\ inFlight' = [inFlight EXCEPT ![t] = serving[t].next]
  /\ serving' = [serving EXCEPT ![t].step = "act",
                                ![t].position = Len(observations) + 1]
  /\ UNCHANGED <<observing, enforcements, executed, served, unwritten, overlapped>>

\* _observe answers None: no log, or an exception that it swallows.
NotObserved(t) ==
  /\ At(t, "observe")
  /\ serving' = [serving EXCEPT ![t].step = "act"]
  /\ UNCHANGED <<observing, observations, enforcements, executed, inFlight,
                 served, unwritten, overlapped>>

\* What a grant, and so its execution, keeps of a request id: a string.  The
\* observation keeps the id as it came.
GrantedId(r) == IF r = NoId THEN EmptyId ELSE r

\* The handler redeems a grant, which is an execution, on its way to _finish.
Redeem(t) ==
  /\ At(t, "act")
  /\ executed' = Append(executed,
       [request |-> GrantedId(serving[t].request),
        principal |-> serving[t].principal, undone |-> FALSE,
        of |-> serving[t].position, asked |-> serving[t].request])
  /\ serving' = [serving EXCEPT ![t].step = "finish",
                                ![t].execution = Len(executed) + 1]
  /\ UNCHANGED <<observing, observations, enforcements, inFlight, served,
                 unwritten, overlapped>>

\* Defect: an exception of the handler leaves the mediator.
Escape(t) ==
  /\ At(t, "act")
  /\ serving' = [serving EXCEPT ![t] = Resting]
  /\ UNCHANGED <<observing, observations, enforcements, executed, inFlight,
                 served, unwritten, overlapped>>

\* The handler decides without an execution, or raises.
Decide(t) ==
  /\ At(t, "act")
  /\ serving' = [serving EXCEPT ![t].step = "finish"]
  /\ UNCHANGED <<observing, observations, enforcements, executed, inFlight,
                 served, unwritten, overlapped>>

\* by_seq and by_request: a later record takes the place of an earlier one.
Latest(S) == CHOOSE i \in S : \A j \in S : i >= j

BySeq(n) == {i \in DOMAIN observations : observations[i].seq = n}

ByRequest(r) == {i \in DOMAIN observations : observations[i].request = r}

\* Defect: the observation is searched for by request id.
AuditRecordByRequest(t) ==
  LET named == ByRequest(serving[t].request)
  IN  [seq |-> IF named = {} THEN 0 ELSE observations[Latest(named)].seq,
       principal |-> IF serving[t].known THEN serving[t].principal ELSE NoId,
       of |-> serving[t].position]

\* _audit_record cites the observation of the call in flight.
AuditRecord(t) ==
  [seq |-> inFlight[t],
   principal |-> IF serving[t].known THEN serving[t].principal ELSE NoId,
   of |-> serving[t].position]

Enforce(t) ==
  /\ At(t, "finish")
  /\ enforcements' = Append(enforcements, AuditRecord(t))
  /\ serving' = [serving EXCEPT ![t] = Resting]
  /\ UNCHANGED <<observing, observations, executed, inFlight, served,
                 unwritten, overlapped>>

\* The audit write raises: _finish has the grant unconsumed, which marks its
\* execution as rolled back.
FailToEnforce(t) ==
  /\ At(t, "finish")
  /\ LET n == serving[t].execution
     IN  executed' = IF n = 0 THEN executed
                     ELSE [executed EXCEPT ![n].undone = TRUE]
  /\ unwritten' = unwritten \cup {serving[t].position}
  /\ serving' = [serving EXCEPT ![t] = Resting]
  /\ UNCHANGED <<observing, observations, enforcements, inFlight, served, overlapped>>

\* A thread that has a request goes on with it.
Serve(t) ==
  \/ Refuse(t) \/ Authenticate(t) \/ ReadLength(t) \/ AppendObservation(t)
  \/ NotObserved(t) \/ Redeem(t) \/ Decide(t) \/ Enforce(t) \/ FailToEnforce(t)

ObservationsNext ==
  \E t \in Servers :
    \/ \E r \in Requested : Receive(t, r)
    \/ Serve(t)

\* Between the gate and its verdict no call waits for another but at locks
\* that are held for a few statements, and every exception ends in _finish.
ObservationsSpec ==
  /\ ObservationsInit
  /\ [][ObservationsNext]_observationVars
  /\ \A t \in Servers : WF_observationVars(Serve(t))

-----------------------------------------------------------------------------
\* The checks, as run over the logs at this moment

Observed == {i \in DOMAIN enforcements :
               enforcements[i].seq # 0 /\ BySeq(enforcements[i].seq) # {}}

Dangling == {i \in DOMAIN enforcements :
               enforcements[i].seq # 0 /\ BySeq(enforcements[i].seq) = {}}

\* I1: every enforcement has an observation.
CheckI1 ==
  CASE ~observing -> "UNOBSERVABLE"
    [] observing /\ Dangling # {} -> "VIOLATED"
    [] observing /\ Dangling = {} /\ enforcements = <<>> -> "UNOBSERVABLE"
    [] observing /\ Dangling = {} /\ enforcements # <<>> /\ Observed = {} -> "VIOLATED"
    [] OTHER -> IF Observed # DOMAIN enforcements THEN "PARTIAL" ELSE "HOLDS"

WithoutObserved == IF CheckI1 = "PARTIAL" THEN "VIOLATED" ELSE CheckI1

\* One observed entry follows another, and none that is observed is between.
NextObserved(i, j) == i < j /\ \A k \in Observed : k <= i \/ j <= k

\* I4: the numbers cited increase along the chain.
CheckI4 ==
  IF Observed = {} THEN WithoutObserved
  ELSE IF \E i, j \in Observed :
            NextObserved(i, j) /\ enforcements[j].seq <= enforcements[i].seq
       THEN "VIOLATED" ELSE "HOLDS"

\* I6: both logs name the same principal.
CheckI6 ==
  IF Observed = {} THEN WithoutObserved
  ELSE IF \E i \in Observed :
            observations[Latest(BySeq(enforcements[i].seq))].principal
              # enforcements[i].principal
       THEN "VIOLATED" ELSE "HOLDS"

Standing == {i \in DOMAIN executed : ~executed[i].undone}

Matched(i) ==
  LET named == ByRequest(executed[i].request)
  IN  named # {} /\ observations[Latest(named)].principal = executed[i].principal

\* I5: every execution that stands has an observation of its principal.
CheckI5 ==
  CASE ~observing -> "UNOBSERVABLE"
    [] observing /\ \E i \in Standing : ~Matched(i) -> "VIOLATED"
    [] OTHER -> IF Standing = {} THEN "PARTIAL" ELSE "HOLDS"

-----------------------------------------------------------------------------

ObservationsTypeOK ==
  /\ observing \in BOOLEAN
  /\ observations \in Seq(Observation)
  /\ enforcements \in Seq(Enforcement)
  /\ executed \in Seq(Execution)
  /\ serving \in [Servers -> Service \cup {Resting}]
  /\ inFlight \in [Servers -> Nat]
  /\ served \in 0..MaxServed
  /\ unwritten \in SUBSET Nat
  /\ overlapped \in BOOLEAN

\* An entry of the audit chain cites the observation of its own call, made
\* for the same principal, and none when its call was not observed: not that
\* of an earlier call of the thread, nor that of another thread.
CitesItsObservation ==
  \A i \in DOMAIN enforcements :
    LET e == enforcements[i]
    IN  IF e.of = 0 THEN e.seq = 0
        ELSE /\ e.of \in DOMAIN observations
             /\ observations[e.of].seq = e.seq
             /\ observations[e.of].principal = e.principal

\* check_invariants never reports that a correct kernel has disordered its
\* logs, or mixed up its principals, unless two requests were in hand at
\* once; and an entry never cites an observation that is not in the log.
AlarmsNeedOverlap ==
  /\ Dangling = {}
  /\ Observed # {} /\ (CheckI4 = "VIOLATED" \/ CheckI6 = "VIOLATED") => overlapped

\* check_execution_invariant accuses a correct kernel only of an execution
\* whose observation was lost, whose request came without an id, or whose
\* request id two principals have used.
ExecutionAlarmHasACause ==
  CheckI5 = "VIOLATED" =>
    \E i \in Standing :
      \/ executed[i].of = 0
      \/ executed[i].asked = NoId
      \/ \E j \in ByRequest(executed[i].request) :
           observations[j].principal # executed[i].principal

\* What execution.py's report says with its VIOLATED: something ran that the
\* kernel has no record of seeing.
AlarmMeansUnseen ==
  CheckI5 = "VIOLATED" => \E i \in Standing : executed[i].of = 0

\* What was observed is eventually enforced: the audit chain cites every
\* observation, but those of calls whose audit write failed.
ObservedIsEnforced ==
  \A n \in 1..MaxServed :
    Len(observations) >= n ~>
      \/ n \in unwritten
      \/ \E i \in DOMAIN enforcements : enforcements[i].of = n

=============================================================================
