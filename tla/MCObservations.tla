--------------------------- MODULE MCObservations ---------------------------
(* Instances of Observations for TLC.                                       *)
EXTENDS Observations

CONSTANTS u1, u2, r1, r0

\* Two principals that use the same request id, and a request without one.
MCRequested ==
  { [principal |-> u1, request |-> r1], [principal |-> u2, request |-> r1],
    [principal |-> u1, request |-> NoId] }

=============================================================================
