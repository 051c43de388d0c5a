--------------------------- MODULE MCClientCalls ----------------------------
(***************************************************************************)
(* Instances for TLC of a client's calls: the logins and tokens under      *)
(* every call (Login), and the recording session with the server's view of *)
(* its plans (ProxySession).  A behaviour is of one of them.               *)
(* One request type that needs securities, and two services; two processes *)
(* on one token file, of which one has credentials and the other lives on  *)
(* the tokens it finds.                                                    *)
(***************************************************************************)
EXTENDS Login, ProxySession, TLC

CONSTANTS refdata, news, a, b, h1, h2, u, w1, w2

VARIABLE about   \* which of the two the behaviour is of

OneType       == {"ReferenceDataRequest"}
TwoServices   == {refdata, news}
OnePath       == {"securities"}
NeedsOnePath  == [t \in OneType |-> {"securities"}]
OnlyAHasLogin == (a :> [user |-> u, password |-> w1]) @@ (b :> None)
FirstReboots  == (h1 :> 1) @@ (h2 :> 0)

ASSUME LoginAssumption

MCInit == about \in {"session", "login"} /\ Init /\ SessionInit

MCNext ==
  /\ UNCHANGED about
  /\ \/ about = "session" /\ SessionNext /\ UNCHANGED vars
     \/ about = "login" /\ Next /\ UNCHANGED sessionVars

MCSpec == MCInit /\ [][MCNext]_<<about, vars, sessionVars>>
=============================================================================
