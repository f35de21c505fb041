----------------------------- MODULE MCSessions -----------------------------
(* Casts: two slots of one worker and one of another, a request to cancel and a*)
(* sweeper; clicks on Retry; downloads with one ticket.                        *)
EXTENDS Sessions, TLC

CONSTANTS s1, s2, s3, u1, c1, c2, d1, d2, d3, sweeper, w1, w2

MCOwner == (s1 :> w1) @@ (s2 :> w1) @@ (s3 :> w2)

MCCasts == { {s1, s2, u1, sweeper}, {s1, s3, u1, sweeper}, {s1, s2, s3, sweeper}, {c1, c2, u1}, {d1, d2, d3} }
=============================================================================
