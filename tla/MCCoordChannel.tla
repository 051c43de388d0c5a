-------------------------- MODULE MCCoordChannel ---------------------------
(* Instances of CoordChannel for TLC.                                      *)
EXTENDS CoordChannel, TLC

CONSTANTS mac, win, r1, r2, r3, w1, w2

TwoUsers   == {mac, win}
TwoWorkers == {w1, w2}

(* Both dev sessions watch, and somebody peeks. A watcher that has lost a  *)
(* connection and polls again has two workers drain its inbox.             *)
BothWatch  == r1 :> "watch" @@ r2 :> "watch" @@ r3 :> "peek"
EachOwn    == r1 :> win @@ r2 :> mac @@ r3 :> win

(* Messages differ in nothing but when they are posted: they are numbered  *)
(* in that order.                                                          *)
ThreeMsgs == 1..3
Numbered  == \A u \in Users : posts'[u] # posts[u] =>
               \A m \in 1..(Last(posts'[u]) - 1) : \E v \in Users : m \in Range(posts[v])

(* A failed request, a lost connection, an unreadable reply or a restart:  *)
(* one of them.                                                            *)
OneFault  == faults' + restarts' <= 1

MCSpec == Init /\ [][Next /\ Numbered /\ OneFault]_vars /\ Fairness

=============================================================================
