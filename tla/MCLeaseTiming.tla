--------------------------- MODULE MCLeaseTiming ---------------------------
(* The default, 120 s and 180 s, as 6 and 9; leases just longer than the      *)
(* timeout, and much longer; one so short that its interval is the second; and *)
(* one that the configuration refuses.                                        *)
EXTENDS LeaseTiming

Timing(timeout, lease) == [timeout |-> timeout, lease |-> lease]

MCTimings == {Timing(6, 9), Timing(8, 9), Timing(5, 6), Timing(1, 2), Timing(3, 12), Timing(6, 6)}
=============================================================================
