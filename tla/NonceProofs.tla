----------------------------- MODULE NonceProofs -----------------------------
(***************************************************************************)
(* Theorems about NonceTracker, for any number of threads, principals and  *)
(* nonces.  The invariant adds to the properties what a waiting call knows *)
(* of the clock: its reading is not ahead of it.                           *)
(***************************************************************************)
EXTENDS NonceTracker, TLAPS

ReadingsArePast ==
  \A t \in Threads : calls[t] # Idle =>
    /\ calls[t].now <= clock
    /\ ~TooOld(calls[t].request.timestamp, calls[t].now)

IInv == TypeOK /\ ReadingsArePast /\ RememberedWhileFresh /\ NoFreshReplay

\* One turn of the eviction loop keeps what has not expired, and makes no
\* more than the capacity of it.
LEMMA EvictedKeeps ==
  ASSUME NEW s \in Seq(Remembered), NEW now \in Nat,
         Len(s) <= MaxPerPrincipal
  PROVE  /\ Evicted(s, now) \in Seq(Remembered)
         /\ Len(Evicted(s, now)) <= MaxPerPrincipal
         /\ \A i \in DOMAIN s :
              ~Expired(s[i].timestamp, now) =>
                \E j \in DOMAIN Evicted(s, now) : Evicted(s, now)[j] = s[i]
<1>1. CASE Full(s) /\ Expired(Head(s).timestamp, now)
  <2>1. s # <<>> /\ Evicted(s, now) = Tail(s)
    BY <1>1, NonceAssumption DEF Full, Evicted, NonceAssumption
  <2>2. ASSUME NEW i \in DOMAIN s, ~Expired(s[i].timestamp, now)
        PROVE  \E j \in DOMAIN Tail(s) : Tail(s)[j] = s[i]
    <3>1. i # 1
      BY <1>1, <2>1, <2>2
    <3>2. i - 1 \in DOMAIN Tail(s) /\ Tail(s)[i - 1] = s[i]
      BY <2>1, <3>1
    <3> QED
      BY <3>2
  <2>3. Tail(s) \in Seq(Remembered) /\ Len(Tail(s)) = Len(s) - 1
    BY <2>1
  <2>4. Len(Tail(s)) <= MaxPerPrincipal
    BY <2>3, NonceAssumption DEF NonceAssumption
  <2> QED
    BY <2>1, <2>2, <2>3, <2>4
<1>2. CASE ~(Full(s) /\ Expired(Head(s).timestamp, now))
  BY <1>2 DEF Evicted
<1> QED
  BY <1>1, <1>2

LEMMA Initially == Init => IInv
  BY NonceAssumption
     DEF Init, IInv, TypeOK, ReadingsArePast, RememberedWhileFresh,
         RememberedAt, NoFreshReplay, NonceAssumption

LEMMA ReadClockKeeps ==
  ASSUME IInv, NEW t \in Threads, NEW r \in Request, ReadClock(t, r)
  PROVE  IInv'
<1>1. [request |-> r, now |-> clock] \in Waiting /\ clock \in Nat
  BY NonceAssumption DEF IInv, TypeOK, Waiting, NonceAssumption
<1>2. TypeOK'
  BY <1>1 DEF IInv, TypeOK, ReadClock
<1>3. ReadingsArePast'
  <2> SUFFICES ASSUME NEW u \in Threads, calls'[u] # Idle
               PROVE  /\ calls'[u].now <= clock
                      /\ ~TooOld(calls'[u].request.timestamp, calls'[u].now)
    BY DEF ReadingsArePast, ReadClock, TooOld
  <2>1. CASE u = t
    <3>1. calls'[u] = [request |-> r, now |-> clock]
      BY <2>1 DEF IInv, TypeOK, ReadClock
    <3> QED
      BY <1>1, <3>1 DEF ReadClock
  <2>2. CASE u # t
    BY <2>2 DEF IInv, TypeOK, ReadingsArePast, ReadClock
  <2> QED
    BY <2>1, <2>2
<1> QED
  BY <1>2, <1>3 DEF IInv, ReadClock, RememberedWhileFresh, RememberedAt, NoFreshReplay

LEMMA TickKeeps ==
  ASSUME IInv, Tick
  PROVE  IInv'
<1>1. TypeOK' /\ ReadingsArePast'
  <2>1. clock \in Nat /\ clock' = clock + 1 /\ clock' \in 0..MaxClock
    BY NonceAssumption DEF IInv, TypeOK, Tick, NonceAssumption
  <2>2. TypeOK'
    BY <2>1 DEF IInv, TypeOK, Tick
  <2>3. ASSUME NEW t \in Threads, calls[t] # Idle
        PROVE  /\ calls[t].now <= clock + 1
               /\ ~TooOld(calls[t].request.timestamp, calls[t].now)
    <3>1. calls[t].now \in Nat
      BY <2>3 DEF IInv, TypeOK, Waiting
    <3> QED
      BY <2>1, <2>3, <3>1 DEF IInv, ReadingsArePast
  <2> QED
    BY <2>1, <2>2, <2>3 DEF ReadingsArePast, Tick, TooOld
<1>2. RememberedWhileFresh'
  <2>1. \A n \in DOMAIN accepted :
          accepted[n].request.timestamp \in Nat
    <3>1. accepted \in Seq(Acceptance)
      BY DEF IInv, TypeOK
    <3>2. \A n \in DOMAIN accepted : accepted[n] \in Acceptance
      BY <3>1
    <3> QED
      BY <3>2, NonceAssumption DEF Acceptance, Request, NonceAssumption
  <2>2. \A n \in DOMAIN accepted :
          TooOld(accepted[n].request.timestamp, clock)
            => TooOld(accepted[n].request.timestamp, clock + 1)
    BY <2>1, NonceAssumption DEF TooOld, IInv, TypeOK, NonceAssumption
  <2> QED
    BY <2>2 DEF IInv, Tick, RememberedWhileFresh, RememberedAt
<1>3. NoFreshReplay'
  BY DEF IInv, Tick, NoFreshReplay
<1> QED
  BY <1>1, <1>2, <1>3 DEF IInv

\* What Consume does to the table and the history, refusal and acceptance.
LEMMA ConsumeCases ==
  ASSUME IInv, NEW t \in Threads, Consume(t)
  PROVE  \E c \in Waiting :
           /\ c = calls[t] /\ c.now <= clock
           /\ ~TooOld(c.request.timestamp, c.now)
           /\ calls' = [calls EXCEPT ![t] = Idle]
           /\ UNCHANGED clock
           /\ LET r == c.request
                  room == Evicted(seen[r.principal], c.now)
              IN
              \/ UNCHANGED <<seen, accepted>>
              \/ /\ ~IsSeen(seen[r.principal], r.nonce)
                 /\ Len(room) < MaxPerPrincipal
                 /\ seen' = [seen EXCEPT ![r.principal] =
                      Append(room, [nonce |-> r.nonce,
                                    timestamp |-> r.timestamp])]
                 /\ accepted' = Append(accepted, [request |-> r, at |-> clock])
<1> DEFINE c == calls[t]
           r == c.request
           room == Evicted(seen[r.principal], c.now)
           new == [nonce |-> r.nonce, timestamp |-> r.timestamp]
<1>1. /\ c \in Waiting /\ c.now <= clock
      /\ ~TooOld(r.timestamp, c.now)
  BY DEF IInv, TypeOK, ReadingsArePast, Consume
<1>2. Len(room) \in Nat
  <2>1. r.principal \in Principals /\ c.now \in Nat
    BY <1>1 DEF Waiting, Request
  <2>2. /\ seen[r.principal] \in Seq(Remembered)
        /\ Len(seen[r.principal]) <= MaxPerPrincipal
    BY <2>1 DEF IInv, TypeOK
  <2>3. room \in Seq(Remembered)
    BY <2>1, <2>2, EvictedKeeps
  <2> QED
    BY <2>3
<1>3. /\ calls' = [calls EXCEPT ![t] = Idle]
      /\ UNCHANGED clock
      /\ \/ UNCHANGED <<seen, accepted>>
         \/ /\ ~IsSeen(seen[r.principal], r.nonce)
            /\ ~Full(room)
            /\ seen' = [seen EXCEPT ![r.principal] = Append(room, new)]
            /\ accepted' = Append(accepted, [request |-> r, at |-> clock])
  BY DEF Consume
<1>4. ~Full(room) => Len(room) < MaxPerPrincipal
  BY <1>2, NonceAssumption DEF Full, NonceAssumption
<1> QED
  BY <1>1, <1>3, <1>4

LEMMA ConsumeKeeps ==
  ASSUME IInv, NEW t \in Threads, Consume(t)
  PROVE  IInv'
<1>1. PICK c \in Waiting :
        /\ c = calls[t] /\ c.now <= clock
        /\ ~TooOld(c.request.timestamp, c.now)
        /\ calls' = [calls EXCEPT ![t] = Idle]
        /\ UNCHANGED clock
        /\ LET r == c.request
               room == Evicted(seen[r.principal], c.now)
           IN
           \/ UNCHANGED <<seen, accepted>>
           \/ /\ ~IsSeen(seen[r.principal], r.nonce)
              /\ Len(room) < MaxPerPrincipal
              /\ seen' = [seen EXCEPT ![r.principal] =
                   Append(room, [nonce |-> r.nonce,
                                 timestamp |-> r.timestamp])]
              /\ accepted' = Append(accepted, [request |-> r, at |-> clock])
  BY ConsumeCases
<1> DEFINE r == c.request
           p == r.principal
           room == Evicted(seen[p], c.now)
           new == [nonce |-> r.nonce, timestamp |-> r.timestamp]
<1>2. /\ r \in Request /\ p \in Principals /\ c.now \in Nat
      /\ new \in Remembered /\ clock \in Nat /\ r.timestamp \in Nat
  <2>1. c \in Waiting
    BY <1>1
  <2>2. r \in Request /\ c.now \in Nat
    BY <2>1 DEF Waiting
  <2>3. p \in Principals /\ r.nonce \in Nonces /\ r.timestamp \in Timestamps
    BY <2>2 DEF Request
  <2>4. clock \in Nat
    BY NonceAssumption DEF IInv, TypeOK, NonceAssumption
  <2> QED
    BY <2>2, <2>3, <2>4, NonceAssumption DEF Remembered, NonceAssumption
<1>3. ReadingsArePast'
  BY <1>1 DEF IInv, TypeOK, ReadingsArePast
<1>4. calls' \in [Threads -> Waiting \cup {Idle}]
  BY <1>1 DEF IInv, TypeOK
<1>5. CASE UNCHANGED <<seen, accepted>>
  BY <1>1, <1>3, <1>4, <1>5
     DEF IInv, TypeOK, RememberedWhileFresh, RememberedAt, NoFreshReplay
<1>6. ASSUME ~IsSeen(seen[p], r.nonce), Len(room) < MaxPerPrincipal,
             seen' = [seen EXCEPT ![p] = Append(room, new)],
             accepted' = Append(accepted, [request |-> r, at |-> clock])
      PROVE  IInv'
  <2>1. /\ seen[p] \in Seq(Remembered) /\ Len(seen[p]) <= MaxPerPrincipal
        /\ seen \in [Principals -> Seq(Remembered)]
        /\ accepted \in Seq(Acceptance)
    BY <1>2 DEF IInv, TypeOK
  <2>2. /\ room \in Seq(Remembered)
        /\ \A i \in DOMAIN seen[p] :
             ~Expired(seen[p][i].timestamp, c.now) =>
               \E j \in DOMAIN room : room[j] = seen[p][i]
    BY <1>2, <2>1, EvictedKeeps
  <2> HIDE DEF room, new
  <2>3. TypeOK'
    <3>1. /\ Append(room, new) \in Seq(Remembered)
          /\ Len(Append(room, new)) <= MaxPerPrincipal
      BY <1>2, <1>6, <2>2, NonceAssumption DEF NonceAssumption
    <3>2. [request |-> r, at |-> clock] \in Acceptance
      BY <1>2 DEF Acceptance
    <3>3. seen' \in [Principals -> Seq(Remembered)]
      BY <1>2, <1>6, <2>1, <3>1
    <3>4. \A q \in Principals : Len(seen'[q]) <= MaxPerPrincipal
      BY <1>2, <1>6, <2>1, <3>1 DEF IInv, TypeOK
    <3>5. accepted' \in Seq(Acceptance)
      BY <1>6, <2>1, <3>2
    <3>6. clock' \in 0..MaxClock
      BY <1>1 DEF IInv, TypeOK
    <3> QED
      BY <1>4, <3>3, <3>4, <3>5, <3>6 DEF TypeOK
  <2>4. \A n \in DOMAIN accepted :
          LET q == accepted[n].request IN
          ~TooOld(q.timestamp, clock) =>
            \E i \in DOMAIN seen'[q.principal] :
              seen'[q.principal][i] =
                [nonce |-> q.nonce, timestamp |-> q.timestamp]
    <3> SUFFICES ASSUME NEW n \in DOMAIN accepted, NEW q \in Request,
                        q = accepted[n].request, ~TooOld(q.timestamp, clock)
                 PROVE  \E i \in DOMAIN seen'[q.principal] :
                          seen'[q.principal][i] =
                            [nonce |-> q.nonce, timestamp |-> q.timestamp]
      <4>1. \A n \in DOMAIN accepted : accepted[n] \in Acceptance
        BY <2>1
      <4>2. \A n \in DOMAIN accepted : accepted[n].request \in Request
        BY <4>1 DEF Acceptance
      <4> QED
        BY <4>2
    <3>1. PICK i \in DOMAIN seen[q.principal] :
            seen[q.principal][i] =
              [nonce |-> q.nonce, timestamp |-> q.timestamp]
      BY DEF IInv, RememberedWhileFresh, RememberedAt
    <3>2. CASE q.principal # p
      BY <1>6, <2>1, <3>1, <3>2 DEF Request
    <3>3. CASE q.principal = p
      <4>1. ~Expired(seen[p][i].timestamp, c.now)
        <5>1. q.timestamp \in Nat /\ seen[p][i].timestamp = q.timestamp
          <6>1. q.timestamp \in Timestamps
            BY DEF Request
          <6>2. seen[p][i] = [nonce |-> q.nonce, timestamp |-> q.timestamp]
            BY <3>1, <3>3
          <6>3. q.timestamp \in Nat
            BY <6>1, NonceAssumption DEF NonceAssumption
          <6>4. seen[p][i].timestamp = q.timestamp
            BY <6>2
          <6> QED
            BY <6>3, <6>4
        <5>2. q.timestamp \in Nat /\ c.now \in Nat /\ clock \in Nat /\ c.now <= clock
          BY <1>1, <1>2, <5>1
        <5>3. q.timestamp >= clock - MaxTTL
          BY <5>2, NonceAssumption DEF TooOld, NonceAssumption
        <5> QED
          BY <5>1, <5>2, <5>3, NonceAssumption DEF Expired, NonceAssumption
      <4>2. PICK j \in DOMAIN room : room[j] = seen[p][i]
        BY <2>2, <3>1, <3>3, <4>1
      <4>3. j \in DOMAIN Append(room, new) /\ Append(room, new)[j] = room[j]
        BY <1>2, <2>2
      <4> QED
        BY <1>6, <2>1, <1>2, <3>1, <3>3, <4>2, <4>3
    <3> QED
      BY <3>2, <3>3
  <2>5. \E i \in DOMAIN seen'[p] : seen'[p][i] = new
    <3>1. /\ Len(room) + 1 \in DOMAIN Append(room, new)
          /\ Append(room, new)[Len(room) + 1] = new
      BY <1>2, <2>2
    <3> QED
      BY <1>2, <1>6, <2>1, <3>1
  <2>6. \A n \in DOMAIN accepted' :
          \/ n = Len(accepted) + 1 /\ accepted'[n] = [request |-> r, at |-> clock]
          \/ n \in DOMAIN accepted /\ accepted'[n] = accepted[n]
    BY <1>6, <2>1
  <2>7. RememberedWhileFresh'
    <3> SUFFICES ASSUME NEW n \in DOMAIN accepted', NEW q,
                        q = accepted'[n].request, ~TooOld(q.timestamp, clock)
                 PROVE  \E i \in DOMAIN seen'[q.principal] :
                          seen'[q.principal][i] =
                            [nonce |-> q.nonce, timestamp |-> q.timestamp]
      BY <1>1 DEF RememberedWhileFresh, RememberedAt, TooOld
    <3>1. CASE accepted'[n] = [request |-> r, at |-> clock]
      BY <2>5, <3>1 DEF new
    <3>2. CASE n \in DOMAIN accepted /\ accepted'[n] = accepted[n]
      BY <2>4, <3>2
    <3> QED
      BY <2>6, <3>1, <3>2
  <2>8. NoFreshReplay'
    <3> SUFFICES ASSUME NEW m \in DOMAIN accepted', NEW n \in DOMAIN accepted',
                        m < n, accepted'[m].request = accepted'[n].request
                 PROVE  TooOld(accepted'[n].request.timestamp, accepted'[n].at)
      BY DEF NoFreshReplay
    <3>1. CASE n \in DOMAIN accepted /\ accepted'[n] = accepted[n]
      <4>1. m \in DOMAIN accepted /\ accepted'[m] = accepted[m]
        BY <2>1, <2>6, <3>1
      <4> QED
        BY <3>1, <4>1 DEF IInv, NoFreshReplay
    <3>2. CASE n = Len(accepted) + 1 /\ accepted'[n] = [request |-> r, at |-> clock]
      <4>1. m \in DOMAIN accepted /\ accepted[m].request = r
        BY <2>1, <2>6, <3>2
      <4>2. ~\E i \in DOMAIN seen[p] : seen[p][i] = new
        BY <1>6 DEF IsSeen, new
      <4>3. TooOld(r.timestamp, clock)
        BY <4>1, <4>2 DEF IInv, RememberedWhileFresh, RememberedAt, new
      <4> QED
        BY <3>2, <4>3
    <3> QED
      BY <2>6, <3>1, <3>2
  <2> QED
    BY <1>3, <2>3, <2>7, <2>8 DEF IInv
<1> QED
  BY <1>1, <1>5, <1>6

LEMMA InvStep == IInv /\ [Next]_vars => IInv'
<1> SUFFICES ASSUME IInv, [Next]_vars PROVE IInv'
  OBVIOUS
<1>1. CASE UNCHANGED vars
  BY <1>1
     DEF vars, IInv, TypeOK, ReadingsArePast, RememberedWhileFresh,
         RememberedAt, NoFreshReplay
<1> QED
  BY <1>1, ReadClockKeeps, ConsumeKeeps, TickKeeps DEF Next

LEMMA Invariance == Spec => []IInv
  BY Initially, InvStep, PTL DEF Spec

\* The table never holds more than its capacity for a principal, and what
\* waits and what was accepted are requests.
THEOREM NonceTyping == Spec => []TypeOK
<1>1. IInv => TypeOK
  BY DEF IInv
<1> QED
  BY <1>1, Invariance, PTL

\* A request that was accepted is remembered while it is fresh, whatever the
\* threads do between their clock readings and the lock (authentication.py
\* 72-98).
THEOREM FreshIsRemembered == Spec => []RememberedWhileFresh
<1>1. IInv => RememberedWhileFresh
  BY DEF IInv
<1> QED
  BY <1>1, Invariance, PTL

\* A request is never accepted a second time while its timestamp is fresh.
THEOREM NoReplayWhileFresh == Spec => []NoFreshReplay
<1>1. IInv => NoFreshReplay
  BY DEF IInv
<1> QED
  BY <1>1, Invariance, PTL

-----------------------------------------------------------------------------
(* When the threads of a principal take the lock in the order of their     *)
(* readings, no eviction goes by a later reading than a call that waits.   *)

InReadingOrder ==
  \A t, u \in Threads :
    Consume(t) /\ calls[u] # Idle
      /\ calls[u].request.principal = calls[t].request.principal
      => calls[t].now <= calls[u].now

\* A request that was accepted is in the table.
Holds(table, r) ==
  \E i \in DOMAIN table[r.principal] :
    table[r.principal][i] = [nonce |-> r.nonce, timestamp |-> r.timestamp]

\* What waits is remembered, if it was accepted before.
OnceInv ==
  /\ AcceptedOnce
  /\ \A u \in Threads, n \in DOMAIN accepted :
       calls[u] # Idle /\ accepted[n].request = calls[u].request
         => Holds(seen, calls[u].request)

\* A request that is fresh at the reading of a call stays in the table when
\* the call is accepted, and the call's own request is put there.
LEMMA AcceptanceHolds ==
  ASSUME IInv, NEW now \in Nat, NEW r \in Request, NEW q \in Request,
         seen' = [seen EXCEPT ![r.principal] =
                    Append(Evicted(seen[r.principal], now),
                           [nonce |-> r.nonce, timestamp |-> r.timestamp])],
         q = r \/ (Holds(seen, q)
                    /\ (q.principal = r.principal => ~TooOld(q.timestamp, now)))
  PROVE  Holds(seen', q)
<1> DEFINE p == r.principal
           room == Evicted(seen[p], now)
           new == [nonce |-> r.nonce, timestamp |-> r.timestamp]
<1>1. /\ p \in Principals /\ q.principal \in Principals
      /\ seen \in [Principals -> Seq(Remembered)]
      /\ Len(seen[p]) <= MaxPerPrincipal
  BY DEF Request, IInv, TypeOK
<1>2. /\ room \in Seq(Remembered)
      /\ \A i \in DOMAIN seen[p] :
           ~Expired(seen[p][i].timestamp, now) =>
             \E j \in DOMAIN room : room[j] = seen[p][i]
  BY <1>1, EvictedKeeps
<1> HIDE DEF room, new
<1>3. /\ seen'[p] = Append(room, new)
      /\ \A o \in Principals : o # p => seen'[o] = seen[o]
  BY <1>1 DEF room, new
<1>4. /\ \A j \in DOMAIN room : /\ j \in DOMAIN Append(room, new)
                                /\ Append(room, new)[j] = room[j]
      /\ Len(room) + 1 \in DOMAIN Append(room, new)
      /\ Append(room, new)[Len(room) + 1] = new
  BY <1>2
<1>5. CASE q = r
  BY <1>3, <1>4, <1>5 DEF Holds, new
<1>6. CASE Holds(seen, q) /\ q.principal # p
  BY <1>1, <1>3, <1>6 DEF Holds
<1>7. CASE Holds(seen, q) /\ q.principal = p /\ ~TooOld(q.timestamp, now)
  <2>1. PICK i \in DOMAIN seen[p] :
          seen[p][i] = [nonce |-> q.nonce, timestamp |-> q.timestamp]
    BY <1>7 DEF Holds
  <2>2. ~Expired(seen[p][i].timestamp, now)
    BY <1>7, <2>1 DEF TooOld, Expired
  <2>3. PICK j \in DOMAIN room : room[j] = seen[p][i]
    BY <1>2, <2>2
  <2> QED
    BY <1>3, <1>4, <1>7, <2>1, <2>3 DEF Holds
<1> QED
  BY <1>5, <1>6, <1>7

LEMMA ConsumeOnce ==
  ASSUME InReadingOrder, IInv, OnceInv, NEW t \in Threads, Consume(t)
  PROVE  OnceInv'
<1>1. PICK c \in Waiting :
        /\ c = calls[t] /\ calls[t] # Idle
        /\ calls' = [calls EXCEPT ![t] = Idle]
        /\ \/ UNCHANGED <<seen, accepted>>
           \/ /\ ~IsSeen(seen[c.request.principal], c.request.nonce)
              /\ seen' = [seen EXCEPT ![c.request.principal] =
                   Append(Evicted(seen[c.request.principal], c.now),
                          [nonce |-> c.request.nonce,
                           timestamp |-> c.request.timestamp])]
              /\ accepted' = Append(accepted,
                               [request |-> c.request, at |-> clock])
  BY ConsumeCases DEF Consume
<1>2. /\ c.request \in Request /\ c.now \in Nat
      /\ calls \in [Threads -> Waiting \cup {Idle}]
      /\ accepted \in Seq(Acceptance)
  BY DEF Waiting, IInv, TypeOK
<1>3. \A u \in Threads : calls'[u] # Idle => u # t /\ calls'[u] = calls[u]
  BY <1>1, <1>2
<1>4. CASE UNCHANGED <<seen, accepted>>
  BY <1>3, <1>4 DEF OnceInv, AcceptedOnce
<1>5. CASE /\ ~IsSeen(seen[c.request.principal], c.request.nonce)
           /\ seen' = [seen EXCEPT ![c.request.principal] =
                Append(Evicted(seen[c.request.principal], c.now),
                       [nonce |-> c.request.nonce,
                        timestamp |-> c.request.timestamp])]
           /\ accepted' = Append(accepted,
                            [request |-> c.request, at |-> clock])
  <2>1. \A n \in DOMAIN accepted' :
          \/ n = Len(accepted) + 1 /\ accepted'[n].request = c.request
          \/ n \in DOMAIN accepted /\ accepted'[n] = accepted[n]
    BY <1>2, <1>5
  <2>2. \A n \in DOMAIN accepted : accepted[n].request # c.request
    <3>1. ~Holds(seen, c.request)
      BY <1>5 DEF Holds, IsSeen
    <3> QED
      BY <1>1, <3>1 DEF OnceInv
  <2>3. AcceptedOnce'
    BY <2>1, <2>2 DEF OnceInv, AcceptedOnce
  <2>4. ASSUME NEW u \in Threads, NEW n \in DOMAIN accepted', calls'[u] # Idle,
               accepted'[n].request = calls'[u].request
        PROVE  Holds(seen', calls'[u].request)
    <3>1. PICK d \in Waiting :
            /\ d = calls[u] /\ d = calls'[u] /\ calls[u] # Idle
            /\ d.request \in Request /\ d.now \in Nat
            /\ ~TooOld(d.request.timestamp, d.now)
      <4>1. calls[u] \in Waiting /\ calls'[u] = calls[u]
        BY <1>2, <1>3, <2>4
      <4> QED
        BY <2>4, <4>1 DEF Waiting, IInv, ReadingsArePast
    <3>2. d.request = c.request \/ Holds(seen, d.request)
      BY <2>1, <2>4, <3>1 DEF OnceInv
    <3>3. d.request.principal = c.request.principal
            => ~TooOld(d.request.timestamp, c.now)
      <4>1. d.request.timestamp \in Nat
        BY <3>1, NonceAssumption DEF Request, NonceAssumption
      <4>2. d.request.principal = c.request.principal => c.now <= d.now
        BY <1>1, <3>1 DEF InReadingOrder
      <4> QED
        BY <1>2, <3>1, <4>1, <4>2, NonceAssumption DEF TooOld, NonceAssumption
    <3> QED
      BY <1>2, <1>5, <3>1, <3>2, <3>3, AcceptanceHolds
  <2> QED
    BY <2>3, <2>4 DEF OnceInv, Holds
<1> QED
  BY <1>1, <1>4, <1>5

LEMMA OnceStep ==
  ASSUME InReadingOrder, IInv, OnceInv, [Next]_vars
  PROVE  OnceInv'
<1>1. CASE Tick \/ UNCHANGED vars
  BY <1>1 DEF Tick, vars, OnceInv, AcceptedOnce, Holds
<1>2. ASSUME NEW t \in Threads, NEW r \in Request, ReadClock(t, r)
      PROVE  OnceInv'
  <2>1. AcceptedOnce'
    BY <1>2 DEF OnceInv, AcceptedOnce, ReadClock
  <2>2. ASSUME NEW u \in Threads, NEW n \in DOMAIN accepted,
               calls'[u] # Idle, accepted[n].request = calls'[u].request
        PROVE  Holds(seen, calls'[u].request)
    <3>1. CASE u = t
      <4>1. calls'[u].request = r /\ ~TooOld(r.timestamp, clock)
        BY <1>2, <3>1 DEF IInv, TypeOK, ReadClock
      <4> QED
        BY <2>2, <4>1 DEF IInv, RememberedWhileFresh, RememberedAt, Holds
    <3>2. CASE u # t
      BY <1>2, <2>2, <3>2 DEF IInv, TypeOK, ReadClock, OnceInv
    <3> QED
      BY <3>1, <3>2
  <2> QED
    BY <1>2, <2>1, <2>2 DEF OnceInv, ReadClock, Holds
<1> QED
  BY <1>1, <1>2, ConsumeOnce DEF Next

\* When the threads of a principal take the lock in the order of their clock
\* readings, no request is accepted twice, at any time and whatever is
\* evicted: the reading before the lock (authentication.py 72, 91) is all
\* that a second acceptance comes from.
THEOREM ReadingOrderAcceptsOnce ==
  Spec /\ [][InReadingOrder]_vars => []AcceptedOnce
<1>1. Init => OnceInv
  BY DEF Init, OnceInv, AcceptedOnce
<1>2. IInv /\ OnceInv /\ [Next]_vars /\ [InReadingOrder]_vars => OnceInv'
  <2>1. IInv /\ OnceInv /\ UNCHANGED vars => OnceInv'
    BY DEF vars, OnceInv, AcceptedOnce, Holds
  <2> QED
    BY <2>1, OnceStep
<1>3. OnceInv => AcceptedOnce
  BY DEF OnceInv
<1> QED
  BY <1>1, <1>2, <1>3, Invariance, PTL DEF Spec

=============================================================================
