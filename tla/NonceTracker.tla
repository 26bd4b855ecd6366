---------------------------- MODULE NonceTracker ----------------------------
(***************************************************************************)
(* The NonceTracker (authentication.py), which makes the Authenticator     *)
(* accept a signed request once.  consume reads the clock and compares the *)
(* request's timestamp with it before it takes the lock, and evicts by     *)
(* that reading under the lock, however late it gets it.                   *)
(***************************************************************************)
EXTENDS Integers, Sequences

CONSTANTS
  Threads,          \* the threads that authenticate requests
  Principals,       \* principals with a key
  Nonces,           \* the nonces of their requests
  Timestamps,       \* the timestamps of their requests
  MaxPerPrincipal,  \* how many nonces of a principal are kept
  MaxTTL,           \* how old a request may be
  Skew,             \* how far ahead its timestamp may be
  MaxClock          \* bound on the clock of a behaviour

ASSUME NonceAssumption ==
  /\ Timestamps \subseteq Nat
  /\ MaxPerPrincipal \in Nat \ {0}
  /\ MaxTTL \in Nat
  /\ Skew \in Nat
  /\ MaxClock \in Nat

VARIABLES
  seen,     \* _seen_by_principal: what is remembered, in order of insertion
  clock,    \* datetime.now
  calls,    \* the request each thread is authenticating
  accepted  \* history: the requests accepted, and when

vars == <<seen, clock, calls, accepted>>

\* The signature covers the nonce and the timestamp: a request that comes
\* again comes with both.
Request == [principal: Principals, nonce: Nonces, timestamp: Timestamps]

Remembered == [nonce: Nonces, timestamp: Timestamps]

\* A call that is past the first checks waits for the lock with its reading
\* of the clock; one that is before them has no state.
Waiting == [request: Request, now: Nat]
Idle == <<>>

Acceptance == [request: Request, at: Nat]

TypeOK ==
  /\ seen \in [Principals -> Seq(Remembered)]
  /\ \A p \in Principals : Len(seen[p]) <= MaxPerPrincipal
  /\ clock \in 0..MaxClock
  /\ calls \in [Threads -> Waiting \cup {Idle}]
  /\ accepted \in Seq(Acceptance)

Init ==
  /\ seen = [p \in Principals |-> <<>>]
  /\ clock = 0
  /\ calls = [t \in Threads |-> Idle]
  /\ accepted = <<>>

-----------------------------------------------------------------------------

TooOld(timestamp, now) == now - timestamp > MaxTTL

TooEarly(timestamp, now) == timestamp > now + Skew

\* consume up to the lock.  A request that is refused here changes nothing.
ReadClock(t, r) ==
  /\ calls[t] = Idle
  /\ ~TooOld(r.timestamp, clock)
  /\ ~TooEarly(r.timestamp, clock)
  /\ calls' = [calls EXCEPT ![t] = [request |-> r, now |-> clock]]
  /\ UNCHANGED <<seen, clock, accepted>>

\* Defect: a nonce is forgotten in the instant before it expires.
ExpiredEarly(timestamp, now) == now - timestamp >= MaxTTL

\* What eviction goes by: the same comparison as for the request.
Expired(timestamp, now) == now - timestamp > MaxTTL

\* Defect: there is room for one more than the capacity.
Overfull(s) == Len(s) > MaxPerPrincipal

Full(s) == Len(s) >= MaxPerPrincipal

\* Defect: at capacity the oldest makes room, expired or not.
EvictedAnyway(s, now) == IF Full(s) THEN Tail(s) ELSE s

\* The eviction loop, which looks at the oldest only.  One turn is enough:
\* there are never more than MaxPerPrincipal.
Evicted(s, now) ==
  IF Full(s) /\ Expired(Head(s).timestamp, now) THEN Tail(s) ELSE s

IsSeen(s, nonce) == \E i \in DOMAIN s : s[i].nonce = nonce

\* consume under the lock.
Consume(t) ==
  LET r == calls[t].request
      before == seen[r.principal]
      room == Evicted(before, calls[t].now)
      new == [nonce |-> r.nonce, timestamp |-> r.timestamp]
  IN
  /\ calls[t] # Idle
  /\ calls' = [calls EXCEPT ![t] = Idle]
  /\ IF IsSeen(before, r.nonce) \/ Full(room)
       THEN UNCHANGED <<seen, accepted>>
       ELSE /\ seen' = [seen EXCEPT ![r.principal] = Append(room, new)]
            /\ accepted' = Append(accepted, [request |-> r, at |-> clock])
  /\ UNCHANGED clock

Tick ==
  /\ clock < MaxClock
  /\ clock' = clock + 1
  /\ UNCHANGED <<seen, calls, accepted>>

Next ==
  \/ \E t \in Threads : Consume(t) \/ \E r \in Request : ReadClock(t, r)
  \/ Tick

Spec == Init /\ [][Next]_vars

-----------------------------------------------------------------------------
(* Correctness.                                                            *)

RememberedAt(now) ==
  \A n \in DOMAIN accepted :
    LET r == accepted[n].request IN
    ~TooOld(r.timestamp, now) =>
      \E i \in DOMAIN seen[r.principal] :
        seen[r.principal][i] =
          [nonce |-> r.nonce, timestamp |-> r.timestamp]

\* What was accepted is remembered for as long as the clock would let it in
\* again, although eviction goes by clock readings that may be late and looks
\* at the order of insertion, which is not that of the timestamps.
RememberedWhileFresh == RememberedAt(clock)

\* No request is accepted again while its timestamp is fresh.
NoFreshReplay ==
  \A m, n \in DOMAIN accepted :
    m < n /\ accepted[m].request = accepted[n].request =>
      TooOld(accepted[n].request.timestamp, accepted[n].at)

\* No request is accepted twice at all.
AcceptedOnce ==
  \A m, n \in DOMAIN accepted :
    accepted[m].request = accepted[n].request => m = n

=============================================================================
