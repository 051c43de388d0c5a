-------------------------- MODULE MCSessionManager --------------------------
(* Instances of SessionManager for TLC.                                    *)
EXTENDS SessionManager, TLC

CONSTANTS c1, c2, l1, l2, refdata, mktdata

OneCaller   == {c1}
TwoCallers  == {c1, c2}
TwoLoops    == {l1, l2}
TwoServices == {refdata, mktdata}
Boot        == {refdata}

(* Callers among themselves and loops among themselves are interchangeable *)
ThreadSymmetry == Permutations(TwoCallers) \cup Permutations(TwoLoops)

=============================================================================
