----------------------------- MODULE MCWindows -----------------------------
(***************************************************************************)
(* The client window and the server window, two programs on two machines:  *)
(* one behaviour follows one of them. The server window's processes and    *)
(* its files are two subjects of their own: a behaviour has either several *)
(* starts and one account, or one start and several accounts.              *)
(***************************************************************************)
EXTENDS ServerWindow, ClientWindow, TLC

CONSTANTS u1, u2, u3

VARIABLE program   \* the one the behaviour is of

ThreeUsers == {u1, u2, u3}
Symmetry   == Permutations({u2, u3})

OneAccount == /\ mine' \subseteq {u1}
              /\ server' # None => server'.users \subseteq {u1}
Processes == program = "setups"   /\ WinNext /\ OneAccount
Accounts  == program = "accounts" /\ WinNext /\ counts'.start <= 1 /\ counts'.stop = 0

MCInit == /\ program \in {"client", "setups", "accounts"} /\ WinInit /\ ClientInit
          /\ IF program = "client" THEN users = {} ELSE key = FALSE /\ users \subseteq {u1}
MCNext == /\ UNCHANGED program
          /\ \/ (Processes \/ Accounts) /\ UNCHANGED clientVars
             \/ program = "client" /\ ClientNext /\ UNCHANGED winVars
MCSpec == MCInit /\ [][MCNext]_<<program, winVars, clientVars>>
=============================================================================
