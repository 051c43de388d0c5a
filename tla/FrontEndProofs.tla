--------------------------- MODULE FrontEndProofs ---------------------------
(***************************************************************************)
(* What the programs that a user runs can be relied on for: the windows    *)
(* of server and client, and the two strategies.                           *)
(*                                                                         *)
(* The reset of the server window loses nobody but whom the server wrote   *)
(* between its copy and its unlink, and a window has one setup of its own, *)
(* for any number of users, clicks and windows. The client                 *)
(* window agrees with its threads and its file, for any number of clicks.  *)
(* The portfolios of the strategies keep their limits, for any index,      *)
(* signals and limits, and the topology strategy counts components, for    *)
(* any graph.  The plans that the functions of the client build are ones   *)
(* that the server accepts and runs to the end, for any lists of           *)
(* securities and fields.  The argument is in README.md.                   *)
(***************************************************************************)
EXTENDS ServerWindow, ClientWindow, ClientPlans, Momentum, Topology,
        SequenceTheorems, FiniteSetTheorems, TLAPS

-----------------------------------------------------------------------------
(* A reset loses nobody                                                    *)

(* Between the copy and the unlink the copy is in a backup directory, and  *)
(* what the file holds beyond it was written since.                        *)
CopyIsSafe == dialog = "unlinking" => copied \in backups /\ users \subseteq copied \cup crossed

(* Copies and the file hold users, and a server is what Servers says.      *)
StoreOK == /\ users \subseteq Users /\ mine \subseteq Users
           /\ server \in {None} \cup Servers

ResetInv == ResetIsUndoable /\ CopyIsSafe /\ StoreOK

(* What most steps leave alone.                                            *)
LEMMA StoreUntouched ==
  ASSUME ResetInv, UNCHANGED <<store, server>>, dialog' \notin {"unlinking", "writing"} \/ UNCHANGED dialog,
         dialog # "writing" \/ UNCHANGED dialog
  PROVE  ResetInv'
  BY DEF ResetInv, ResetIsUndoable, CopyIsSafe, StoreOK, UnderWay, ServerWriting, store, reset

(* A server that is killed takes the users of its write along.             *)
LEMMA DeathKeepsAccount ==
  ASSUME ResetInv, ServerDies, UNCHANGED dialog
  PROVE  ResetInv'
<1>1. /\ server' = None /\ UNCHANGED <<users, mine, copied, backups, created, crossed>>
      /\ overwritten' = overwritten \cup (IF ServerWriting THEN server.users ELSE {})
  BY DEF ServerDies, reset
<1>2. ~ ServerWriting'
  BY <1>1 DEF ServerWriting
<1> QED
  BY <1>1, <1>2 DEF ResetInv, ResetIsUndoable, CopyIsSafe, StoreOK, UnderWay

(* A server that boots reads the file; one that learns of Bloomberg goes   *)
(* on with its copy.                                                       *)
LEMMA BootKeepsAccount ==
  ASSUME ResetInv, UNCHANGED <<store, dialog>>, server = None,
         server' = [users |-> users, writing |-> FALSE, happy |-> FALSE]
  PROVE  ResetInv'
<1>1. server' \in Servers
  BY DEF Servers, ResetInv, StoreOK
<1>2. ~ ServerWriting /\ ~ ServerWriting'
  BY DEF ServerWriting
<1> QED
  BY <1>1, <1>2 DEF ResetInv, ResetIsUndoable, CopyIsSafe, StoreOK, UnderWay, store, reset

LEMMA HealthKeepsAccount ==
  ASSUME ResetInv, UNCHANGED <<store, dialog>>, server # None, NEW b \in BOOLEAN,
         server' = [server EXCEPT !.happy = b]
  PROVE  ResetInv'
<1>1. server \in Servers
  BY DEF ResetInv, StoreOK
<1>2. server' \in Servers /\ server'.users = server.users /\ server'.writing = server.writing
  BY <1>1 DEF Servers
<1>3. server' # None
  BY <1>2, NoServerAssumption
<1> QED
  BY <1>2, <1>3 DEF ResetInv, ResetIsUndoable, CopyIsSafe, StoreOK, UnderWay, ServerWriting,
                    store, reset

(* The server empties the file and writes its own copy: whom that drops is *)
(* in overwritten, and until it is written the copy is what counts.        *)
LEMMA TruncateKeepsAccount ==
  ASSUME ResetInv, NEW u \in Users, ServerTruncates(u)
  PROVE  ResetInv'
<1>1. server \in Servers /\ ~ ServerWriting
  BY DEF ResetInv, StoreOK, ServerTruncates, ServerWriting
<1>2. /\ server' \in Servers /\ server'.users = server.users \cup {u} /\ server'.writing
  BY <1>1 DEF ServerTruncates, Servers
<1>3. ServerWriting'
  BY <1>2, NoServerAssumption DEF ServerWriting
<1>4. /\ users' = {} /\ overwritten' = overwritten \cup (users \ server.users)
      /\ UNCHANGED <<dialog, mine, copied, backups, created, crossed>>
  BY DEF ServerTruncates, Truncates, reset
<1> QED
  BY <1>1, <1>2, <1>3, <1>4 DEF ResetInv, ResetIsUndoable, CopyIsSafe, StoreOK, UnderWay

LEMMA WriteKeepsAccount ==
  ASSUME ResetInv, ServerWrites
  PROVE  ResetInv'
<1>1. server \in Servers /\ ServerWriting
  BY DEF ResetInv, StoreOK, ServerWrites, ServerWriting
<1>2. server' \in Servers /\ ~ server'.writing
  BY <1>1 DEF ServerWrites, Servers
<1>3. ~ ServerWriting'
  BY <1>2 DEF ServerWriting
<1>4. /\ users' \subseteq server.users /\ created' = created \cup users'
      /\ overwritten' = overwritten \cup ((users \cup server.users) \ users')
      /\ UNCHANGED <<dialog, mine, copied, backups>>
  BY DEF ServerWrites, Writes, reset
<1>5. crossed \subseteq crossed' /\ (dialog = "unlinking" => users' \ copied \subseteq crossed')
  BY DEF ServerWrites
<1>6. server.users \subseteq Users
  BY <1>1 DEF Servers
<1> QED
  BY <1>1, <1>2, <1>3, <1>4, <1>5, <1>6
  DEF ResetInv, ResetIsUndoable, CopyIsSafe, StoreOK, UnderWay

(* The window does the same with the copy that it has just read.           *)
LEMMA SaveKeepsAccount ==
  ASSUME ResetInv, SaveLoads \/ SaveRaises \/ SaveTruncates \/ SaveWrites
  PROVE  ResetInv'
<1>1. CASE SaveLoads \/ SaveRaises
  <2>1. /\ UNCHANGED <<server, users, copied, backups, created, overwritten, crossed>>
        /\ dialog # "writing" /\ dialog' \notin {"writing", "unlinking"}
        /\ mine' \subseteq Users
    BY <1>1 DEF SaveLoads, SaveRaises, ResetInv, StoreOK, reset, running
  <2> QED
    BY <2>1 DEF ResetInv, ResetIsUndoable, CopyIsSafe, StoreOK, UnderWay, ServerWriting
<1>2. CASE SaveTruncates
  <2>1. /\ UNCHANGED <<server, mine, copied, backups, created, crossed>>
        /\ dialog = "hashing" /\ dialog' = "writing" /\ users' = {}
        /\ overwritten' = overwritten \cup (users \ mine)
    BY <1>2 DEF SaveTruncates, Truncates, reset, running
  <2> QED
    BY <2>1 DEF ResetInv, ResetIsUndoable, CopyIsSafe, StoreOK, UnderWay, ServerWriting
<1>3. CASE SaveWrites
  <2>1. /\ UNCHANGED <<server, copied, backups, crossed>> /\ mine' = {}
        /\ dialog = "writing" /\ dialog' = "first" /\ users' \subseteq mine
        /\ overwritten' = overwritten \cup ((users \cup mine) \ users')
        /\ created' = created \cup users'
    BY <1>3 DEF SaveWrites, Writes, reset, running
  <2> QED
    BY <2>1 DEF ResetInv, ResetIsUndoable, CopyIsSafe, StoreOK, UnderWay, ServerWriting
<1> QED
  BY <1>1, <1>2, <1>3

(* The unlink removes those who were copied, and they are in the backup,   *)
(* or who crossed.                                                         *)
LEMMA UnlinkKeepsCopy ==
  ASSUME ResetInv, ResetUnlinks
  PROVE  ResetInv'
<1>1. copied \subseteq UNION backups /\ users \subseteq copied \cup crossed
  BY DEF ResetUnlinks, ResetInv, CopyIsSafe
<1>2. /\ UNCHANGED <<server, mine, backups, created, overwritten, crossed>>
      /\ users' = {} \/ users' = users
      /\ dialog = "unlinking" /\ dialog' = "closed"
  BY DEF ResetUnlinks, running
<1> QED
  BY <1>1, <1>2 DEF ResetInv, ResetIsUndoable, CopyIsSafe, StoreOK, UnderWay, ServerWriting

(* A rename, a copy, or a file that could be neither renamed nor copied.   *)
LEMMA MoveKeepsUsers ==
  ASSUME ResetInv, ResetUsers
  PROVE  ResetInv'
<1>1. /\ UNCHANGED <<server, mine, created, overwritten, crossed>> /\ dialog = "resetting"
  BY DEF ResetUsers, running
<1>2. CASE Renamed /\ dialog' = "closed"
  BY <1>1, <1>2 DEF Renamed, ResetInv, ResetIsUndoable, CopyIsSafe, StoreOK, UnderWay, ServerWriting
<1>3. CASE Copied /\ dialog' = "unlinking" /\ UNCHANGED users
  BY <1>1, <1>3 DEF Copied, ResetInv, ResetIsUndoable, CopyIsSafe, StoreOK, UnderWay, ServerWriting
<1>4. CASE dialog' = "closed" /\ UNCHANGED <<users, reset>>
  BY <1>1, <1>4 DEF reset, ResetInv, ResetIsUndoable, CopyIsSafe, StoreOK, UnderWay, ServerWriting
<1> QED
  BY <1>2, <1>3, <1>4 DEF ResetUsers

LEMMA ResetInit == WinInit => ResetInv
  BY DEF WinInit, ResetInv, ResetIsUndoable, CopyIsSafe, StoreOK, UnderWay, ServerWriting

LEMMA SetupKeepsAccount == ResetInv /\ SetupStep => ResetInv'
<1> SUFFICES ASSUME ResetInv, SetupStep PROVE ResetInv'
  OBVIOUS
<1>1. UNCHANGED dialog
  BY DEF SetupStep
<1>2. PICK s \in setups : \/ FreePort(s) \/ AskFirstUser(s) \/ StartUvicorn(s)
                          \/ WaitHealthy(s) \/ StartNgrok(s)
  BY DEF SetupStep
<1>3. CASE FreePort(s)
  BY <1>1, <1>3, DeathKeepsAccount DEF FreePort
<1>4. CASE AskFirstUser(s) \/ WaitHealthy(s) \/ StartNgrok(s)
  BY <1>1, <1>4, StoreUntouched DEF AskFirstUser, WaitHealthy, StartNgrok, running
<1>5. CASE StartUvicorn(s)
  <2>1. UNCHANGED store
    BY <1>5 DEF StartUvicorn
  <2>2. CASE server # None
    BY <1>1, <1>5, <2>1, <2>2, StoreUntouched DEF StartUvicorn
  <2>3. CASE server = None
    BY <1>1, <1>5, <2>1, <2>3, BootKeepsAccount DEF StartUvicorn
  <2> QED
    BY <2>2, <2>3
<1> QED
  BY <1>2, <1>3, <1>4, <1>5

LEMMA ResetStep == ResetInv /\ [WinNext]_winVars => ResetInv'
<1> SUFFICES ASSUME ResetInv, [WinNext]_winVars PROVE ResetInv'
  OBVIOUS
<1>1. CASE StartClicked \/ StopClicked \/ PumpCompares \/ PumpClears
  BY <1>1, StoreUntouched DEF StartClicked, StopClicked, PumpCompares, PumpClears, running
<1>2. CASE StopKills
  BY <1>2, DeathKeepsAccount DEF StopKills
<1>3. CASE SetupStep
  BY <1>3, SetupKeepsAccount
<1>4. CASE ServerChanges
  <2>1. UNCHANGED dialog /\ server # None
    BY <1>4 DEF ServerChanges
  <2>2. CASE ServerDies
    BY <2>1, <2>2, DeathKeepsAccount
  <2>3. ASSUME NEW b \in BOOLEAN, server' = [server EXCEPT !.happy = b], UNCHANGED store
        PROVE  ResetInv'
    BY <2>1, <2>3, HealthKeepsAccount
  <2> QED
    BY <1>4, <2>2, <2>3 DEF ServerChanges
<1>5. ASSUME NEW u \in Users, ServerTruncates(u) PROVE ResetInv'
  BY <1>5, TruncateKeepsAccount
<1>6. CASE ServerWrites
  BY <1>6, WriteKeepsAccount
<1>7. CASE OpenSettings \/ CloseSettings \/ ResetClicked
  BY <1>7, StoreUntouched DEF OpenSettings, CloseSettings, ResetClicked, running
<1>8. CASE SaveLoads \/ SaveRaises \/ SaveTruncates \/ SaveWrites
  BY <1>8, SaveKeepsAccount
<1>9. CASE ResetUsers \/ ResetUnlinks
  BY <1>9, MoveKeepsUsers, UnlinkKeepsCopy
<1>10. CASE Reopen
  <2>1. /\ UNCHANGED <<server, users, backups, created, crossed>> /\ dialog' = "closed" /\ mine' = {}
        /\ overwritten' = overwritten \cup (IF dialog = "writing" THEN mine ELSE {})
    BY <1>10 DEF Reopen, running
  <2> QED
    BY <2>1 DEF ResetInv, ResetIsUndoable, CopyIsSafe, StoreOK, UnderWay, ServerWriting
<1>11. CASE UNCHANGED winVars
  BY <1>11, StoreUntouched DEF winVars, running, store, reset
<1> QED
  BY <1>1, <1>2, <1>3, <1>4, <1>5, <1>6, <1>7, <1>8, <1>9, <1>10, <1>11 DEF WinNext

(* Wherever a rename, a copy, an unlink or the window stops do_reset of    *)
(* ui.py, and whatever setups, servers and windows write meanwhile, an     *)
(* account is lost only by a write that drops it, is cut short or crosses  *)
(* another, or because the server wrote it between the copy and the        *)
(* unlink: ResetIsUndoable is an invariant.                                *)
THEOREM ResetLosesNoOther == WinSpec => []ResetIsUndoable
<1>1. ResetInv => ResetIsUndoable
  BY DEF ResetInv
<1> QED
  BY ResetInit, ResetStep, <1>1, PTL DEF WinSpec

-----------------------------------------------------------------------------
(* One setup: the window follows the one it started                        *)

At == {"port", "users", "uvicorn", "health", "ngrok"}

(* Every start has a number of its own; a pump's setup has exited.         *)
NumbersOK ==
  /\ window \in Nat /\ active \in Nat /\ raced \in BOOLEAN
  /\ counts \in [start : Nat, stop : Nat, reset : Nat]
  /\ setups \subseteq [id : Nat, win : Nat, at : At]
  /\ pumps \subseteq [id : Nat, at : {"compare", "clear"}]
  /\ \A s \in setups : s.id <= counts.start /\ s.win <= window
  /\ \A p \in pumps : p.id <= counts.start

OwnNumbers ==
  /\ \A s, t \in setups : s.id = t.id => s = t
  /\ \A p, q \in pumps : p.id = q.id => p = q
  /\ \A s \in setups, p \in pumps : s.id # p.id

(* Without a race the setup of this window, if it runs, is _active_proc,   *)
(* and a pump that will clear _active_proc has still to do with its own.   *)
Follows ==
  \/ raced
  \/ /\ \A s \in setups : s.win = window => s.id = active
     /\ \A p \in pumps : p.at = "clear" => active = p.id

FollowInv == NumbersOK /\ OwnNumbers /\ Follows

LEMMA FollowInit == WinInit => FollowInv
<1> SUFFICES ASSUME WinInit PROVE FollowInv
  OBVIOUS
<1>1. counts \in [start : Nat, stop : Nat, reset : Nat]
  BY DEF WinInit
<1>2. window \in Nat /\ active \in Nat /\ raced \in BOOLEAN /\ setups = {} /\ pumps = {}
  BY DEF WinInit
<1> QED
  BY <1>1, <1>2 DEF FollowInv, NumbersOK, OwnNumbers, Follows

(* Steps that touch neither setups nor pumps.                              *)
LEMMA FollowRest ==
  ASSUME FollowInv, UNCHANGED <<window, setups, active, pumps, raced>>,
         counts' \in [start : Nat, stop : Nat, reset : Nat], counts'.start = counts.start
  PROVE  FollowInv'
  BY DEF FollowInv, NumbersOK, OwnNumbers, Follows

(* A start begins a setup only when none of this window runs.              *)
LEMMA StartFollows ==
  ASSUME FollowInv, StartClicked
  PROVE  FollowInv'
<1> DEFINE n == counts.start + 1
           new == [id |-> n, win |-> window, at |-> "port"]
<1>1. /\ counts' \in [start : Nat, stop : Nat, reset : Nat] /\ counts'.start = n /\ n \in Nat
      /\ counts.start \in Nat /\ window' = window
  BY DEF StartClicked, Did, FollowInv, NumbersOK
<1>2. CASE UNCHANGED processes
  BY <1>1, <1>2 DEF processes, FollowInv, NumbersOK, OwnNumbers, Follows
<1>3. CASE /\ ~ (\E s \in setups : s.id = active)
           /\ setups' = setups \cup {new} /\ active' = n
           /\ raced' = (raced \/ \E p \in pumps : p.at = "clear")
           /\ UNCHANGED <<pumps, stops>>
  <2>1. new \in [id : Nat, win : Nat, at : At] /\ new.id = n /\ new.win = window
    BY <1>1 DEF FollowInv, NumbersOK, At
  <2> HIDE DEF new
  <2>2. raced' \in BOOLEAN
    BY <1>3
  <2>3. NumbersOK'
    BY <1>1, <1>3, <2>1, <2>2 DEF FollowInv, NumbersOK
  <2>4. OwnNumbers'
    BY <1>1, <1>3, <2>1 DEF FollowInv, NumbersOK, OwnNumbers
  <2>5. Follows'
    BY <1>1, <1>3, <2>1 DEF FollowInv, Follows
  <2> QED
    BY <2>3, <2>4, <2>5 DEF FollowInv
<1> QED
  BY <1>2, <1>3 DEF StartClicked

(* A setup goes on, or exits and leaves its pump behind.                   *)
LEMMA GoesFollows ==
  ASSUME FollowInv, NEW s \in setups, NEW at \in At, Goes(s, at),
         UNCHANGED <<window, active, pumps, raced, counts>>
  PROVE  FollowInv'
<1> DEFINE t == [s EXCEPT !.at = at]
<1>1. setups' = (setups \ {s}) \cup {t}
  BY DEF Goes
<1>2. s \in [id : Nat, win : Nat, at : At]
  BY DEF FollowInv, NumbersOK
<1>3. t \in [id : Nat, win : Nat, at : At] /\ t.id = s.id /\ t.win = s.win
  BY <1>2
<1> HIDE DEF t
<1> QED
  BY <1>1, <1>3 DEF FollowInv, NumbersOK, OwnNumbers, Follows

LEMMA ExitsFollows ==
  ASSUME FollowInv, NEW s \in setups, Exits(s),
         UNCHANGED <<window, active, raced, counts>>
  PROVE  FollowInv'
<1> DEFINE p == [id |-> s.id, at |-> "compare"]
<1>1. s \in [id : Nat, win : Nat, at : At]
  BY DEF FollowInv, NumbersOK
<1>2. p \in [id : Nat, at : {"compare", "clear"}] /\ p.id = s.id /\ p.at = "compare"
  BY <1>1
<1>3. setups' = setups \ {s} /\ (pumps' = pumps \/ pumps' = pumps \cup {p})
  BY DEF Exits
<1> HIDE DEF p
<1> QED
  BY <1>2, <1>3 DEF FollowInv, NumbersOK, OwnNumbers, Follows

LEMMA SetupFollows ==
  ASSUME FollowInv, SetupStep
  PROVE  FollowInv'
<1>1. PICK s \in setups : FreePort(s) \/ AskFirstUser(s) \/ StartUvicorn(s) \/ WaitHealthy(s)
                            \/ StartNgrok(s)
  BY DEF SetupStep
<1>2. UNCHANGED <<window, active, raced, counts>>
  BY DEF SetupStep
<1>3. \/ \E at \in At : Goes(s, at) /\ UNCHANGED pumps
      \/ Exits(s)
  BY <1>1 DEF FreePort, AskFirstUser, StartUvicorn, WaitHealthy, StartNgrok, At
<1> QED
  BY <1>2, <1>3, GoesFollows, ExitsFollows

(* A pump clears _active_proc only when its own, finished, setup is there. *)
LEMMA PumpFollows ==
  ASSUME FollowInv, PumpCompares \/ PumpClears
  PROVE  FollowInv'
<1>1. ASSUME NEW p \in pumps, p.at = "compare",
             pumps' = (pumps \ {p}) \cup (IF IsProc(p) THEN {[p EXCEPT !.at = "clear"]} ELSE {}),
             UNCHANGED <<window, setups, active, raced, counts>>
      PROVE  FollowInv'
  <2>1. p \in [id : Nat, at : {"compare", "clear"}]
    BY DEF FollowInv, NumbersOK
  <2>2. PICK q : q = [p EXCEPT !.at = "clear"]
    OBVIOUS
  <2>3. q \in [id : Nat, at : {"compare", "clear"}] /\ q.id = p.id
    BY <2>1, <2>2
  <2>4. pumps' = pumps \ {p} \/ (active = p.id /\ pumps' = (pumps \ {p}) \cup {q})
    BY <1>1, <2>2 DEF IsProc
  <2> QED
    BY <1>1, <2>3, <2>4 DEF FollowInv, NumbersOK, OwnNumbers, Follows
<1>2. ASSUME NEW p \in pumps, p.at = "clear", active' = 0, pumps' = pumps \ {p},
             UNCHANGED <<window, setups, raced, counts>>
      PROVE  FollowInv'
  <2>1. NumbersOK' /\ OwnNumbers'
    BY <1>2 DEF FollowInv, NumbersOK, OwnNumbers
  <2>2. CASE raced
    BY <1>2, <2>1, <2>2 DEF FollowInv, Follows
  <2>3. CASE ~ raced
    <3>1. active = p.id /\ \A s \in setups : s.win # window
      BY <1>2, <2>3 DEF FollowInv, OwnNumbers, Follows
    <3>2. ASSUME NEW q \in pumps' PROVE q.at # "clear"
      <4>1. q \in pumps /\ q # p
        BY <1>2, <3>2
      <4>2. q.id # p.id
        BY <4>1 DEF FollowInv, OwnNumbers
      <4> QED
        BY <4>1, <4>2, <3>1, <2>3 DEF FollowInv, Follows
    <3>3. Follows'
      BY <1>2, <3>1, <3>2 DEF Follows
    <3> QED
      BY <2>1, <3>3 DEF FollowInv
  <2> QED
    BY <2>2, <2>3
<1> QED
  BY <1>1, <1>2 DEF PumpCompares, PumpClears

LEMMA FollowStep == FollowInv /\ [WinNext]_winVars => FollowInv'
<1> SUFFICES ASSUME FollowInv, [WinNext]_winVars PROVE FollowInv'
  OBVIOUS
<1>1. counts \in [start : Nat, stop : Nat, reset : Nat]
  BY DEF FollowInv, NumbersOK
<1>2. CASE StopClicked \/ ResetClicked
  BY <1>1, <1>2, FollowRest DEF StopClicked, ResetClicked, Did
<1>3. CASE \/ StopKills \/ ServerChanges \/ OpenSettings \/ CloseSettings
           \/ ResetUsers \/ ResetUnlinks \/ UNCHANGED winVars
  <2>1. UNCHANGED <<window, setups, active, pumps, raced, counts>>
    BY <1>3 DEF StopKills, ServerChanges, OpenSettings, CloseSettings, ResetUsers,
                ResetUnlinks, winVars, processes
  <2> QED
    BY <1>1, <2>1, FollowRest
<1>6. CASE (\E u \in Users : ServerTruncates(u)) \/ ServerWrites
  <2>1. UNCHANGED <<window, setups, active, pumps, raced, counts>>
    BY <1>6 DEF ServerTruncates, ServerWrites, processes
  <2> QED
    BY <1>1, <2>1, FollowRest
<1>5. CASE SaveLoads \/ SaveRaises \/ SaveTruncates \/ SaveWrites
  <2>1. UNCHANGED <<window, setups, active, pumps, raced, counts>>
    BY <1>5 DEF SaveLoads, SaveRaises, SaveTruncates, SaveWrites, processes
  <2> QED
    BY <1>1, <2>1, FollowRest
<1>4. CASE Reopen
  <2>1. /\ window' = window + 1 /\ active' = 0 /\ pumps' = {}
        /\ UNCHANGED <<setups, raced, counts>>
    BY <1>4 DEF Reopen
  <2>2. NumbersOK' /\ OwnNumbers'
    BY <2>1 DEF FollowInv, NumbersOK, OwnNumbers
  <2>3. \A s \in setups : s.win # window'
    BY <2>1 DEF FollowInv, NumbersOK
  <2> QED
    BY <2>1, <2>2, <2>3 DEF FollowInv, Follows
<1> QED
  BY <1>2, <1>3, <1>4, <1>5, <1>6, StartFollows, SetupFollows, PumpFollows DEF WinNext

LEMMA FollowsOne == FollowInv => OneSetup
<1> SUFFICES ASSUME FollowInv, ~ raced
             PROVE  Cardinality({s \in setups : s.win = window}) <= 1
  BY DEF OneSetup
<1> DEFINE here == {s \in setups : s.win = window}
<1>1. ASSUME NEW s \in here, NEW t \in here PROVE s = t
  <2>1. s \in setups /\ t \in setups /\ s.id = active /\ t.id = active
    BY DEF FollowInv, Follows
  <2> QED
    BY <2>1 DEF FollowInv, OwnNumbers
<1> HIDE DEF here
<1>2. Cardinality(here) <= 1
  <2>1. CASE here = {}
    <3>1. Cardinality(here) = 0
      BY <2>1, FS_EmptySet
    <3> QED
      BY <3>1
  <2>2. CASE here # {}
    <3>1. PICK s : s \in here
      BY <2>2
    <3>2. here = {s}
      BY <1>1, <3>1
    <3>3. Cardinality(here) = 1
      BY <3>2, FS_Singleton
    <3> QED
      BY <3>3
  <2> QED
    BY <2>1, <2>2
<1> QED
  BY <1>2 DEF here

(* _on_start and _pump (ui.py:589-702): however many setups were started,  *)
(* exited and were reported late, over any number of windows, a window has *)
(* at most one of its own running, unless a start fell between the two     *)
(* halves of a pump's last statement.                                      *)
THEOREM OneSetupRuns == WinSpec => []OneSetup
  BY FollowInit, FollowStep, FollowsOne, PTL DEF WinSpec
-----------------------------------------------------------------------------
(* The client window                                                       *)

ConnectWorkers == [tag : {"connect"}, at : {"health", "write"}, copy : Nat]
CallWorkers    == [tag : {"ask", "execute"}, at : {"check", "read", "call"}, ask : Nat, conn : Nat]
ConnectAnswers == [tag : {"connect"}, ok : BOOLEAN]
CallAnswers    == [tag : {"ask", "execute"}, ask : Nat, conn : Nat, ok : BOOLEAN]
Answers        == ConnectAnswers \cup CallAnswers

WindowTypes ==
  /\ conn \in Nat /\ identity \in Nat /\ key \in BOOLEAN /\ saving \in BOOLEAN /\ mixed \in BOOLEAN
  /\ connectBtn \in BOOLEAN /\ disconnectBtn \in BOOLEAN /\ askBtn \in BOOLEAN /\ runBtn \in BOOLEAN
  /\ clicks \in [connect : Nat, ask : Nat, run : Nat, save : Nat]
  /\ pending \in {NoPlan} \cup [ask : Nat, conn : Nat]
  /\ workers \subseteq ConnectWorkers \cup CallWorkers
  /\ results \in Seq(Answers)

(* The threads of Connect, and the places of their results in the queue.   *)
Connecting == {w \in workers : w.tag = "connect"}
Answered   == {i \in DOMAIN results : results[i].tag = "connect"}

(* Connect is offered, Disconnect is offered, or one thread is on its way. *)
Offline  == /\ connectBtn /\ ~ disconnectBtn /\ conn = 0 /\ status # "Connected"
            /\ Connecting = {} /\ Answered = {}
Online   == /\ ~ connectBtn /\ disconnectBtn /\ conn # 0 /\ status = "Connected"
            /\ Connecting = {} /\ Answered = {}
OnTheWay == /\ ~ connectBtn /\ ~ disconnectBtn
            /\ \/ /\ Answered = {}
                  /\ \E w \in workers : Connecting = {w} /\ (w.at = "write") = (conn # 0)
               \/ /\ Connecting = {}
                  /\ \E i \in DOMAIN results : Answered = {i} /\ results[i].ok = (conn # 0)

OneConnect == /\ Offline \/ Online \/ OnTheWay
              /\ Connecting # {} => clicks.connect # 0

(* Asking needs a key, keys stay, and a question in flight brings Ask back. *)
AskNeedsKey == (askBtn \/ Asking # {}) => key
AskReturns  == disconnectBtn /\ key => askBtn \/ Asking # {}

(* A call for question a on connection c is made, or was answered.         *)
Calls(a, c) ==
  \/ \E w \in workers : w.tag = "ask" /\ w.at = "call" /\ w.ask = a /\ w.conn = c
  \/ \E i \in DOMAIN results : /\ results[i].tag = "ask" /\ results[i].ok
                              /\ results[i].ask = a /\ results[i].conn = c

(* A question in flight is the last one or excused; what is called or      *)
(* answered for the last one is on the connection that is open.            *)
LastOrExcused ==
  /\ \A a \in Asking : a = clicks.ask \/ a \in excused
  /\ \A a, c \in Nat : Calls(a, c) => c # 0 /\ (c = conn \/ a \in excused)
  /\ runBtn => pending # NoPlan /\ pending.conn # 0

(* Whoever writes identity.json back has read what it writes over.         *)
CopyIsCurrent == \A w \in Connecting : w.at = "write" => w.copy = identity \/ saving \/ mixed

ClientInv == /\ WindowTypes /\ OneConnect /\ AskNeedsKey /\ AskReturns
             /\ LastOrExcused /\ RunIsTheLastAnswer

(* Places of a queue before and after a result comes or goes.              *)
LEMMA QueueGrows ==
  ASSUME NEW S, NEW q \in Seq(S), NEW r \in S
  PROVE  /\ Append(q, r) \in Seq(S)
         /\ DOMAIN Append(q, r) = DOMAIN q \cup {Len(q) + 1}
         /\ Len(q) + 1 \notin DOMAIN q
         /\ \A i \in DOMAIN q : Append(q, r)[i] = q[i]
         /\ Append(q, r)[Len(q) + 1] = r
  OBVIOUS

LEMMA QueueShrinks ==
  ASSUME NEW S, NEW q \in Seq(S), q # <<>>
  PROVE  /\ Tail(q) \in Seq(S)
         /\ DOMAIN q \subseteq Nat /\ 1 \in DOMAIN q /\ Head(q) = q[1]
         /\ DOMAIN Tail(q) \subseteq Nat \ {0}
         /\ \A i \in DOMAIN Tail(q) : i + 1 \in DOMAIN q /\ Tail(q)[i] = q[i + 1]
         /\ \A i \in DOMAIN q : i # 1 => i - 1 \in DOMAIN Tail(q) /\ Tail(q)[i - 1] = q[i]
  OBVIOUS

(* What a worker step does to the threads and the queue: a thread becomes  *)
(* another one, or its result.                                             *)
Becomes(w, v) == workers' = (workers \ {w}) \cup {v} /\ UNCHANGED results
Ends(w, r)    == workers' = workers \ {w} /\ results' = Append(results, r)

LEMMA ConnectSteps ==
  ASSUME WindowTypes, NEW w \in workers, ConnectFails(w) \/ ConnectStores(w) \/ PersistUrl(w)
  PROVE  /\ w \in ConnectWorkers
         /\ \/ /\ w.at = "health" /\ Ends(w, [tag |-> "connect", ok |-> FALSE])
               /\ UNCHANGED <<conn, file>>
            \/ /\ w.at = "health" /\ conn' = clicks.connect /\ UNCHANGED file
               /\ \E v \in ConnectWorkers :
                     /\ v.at = "write" /\ v.copy = IF saving THEN 0 ELSE identity
                     /\ Becomes(w, v)
            \/ /\ w.at = "write" /\ Ends(w, [tag |-> "connect", ok |-> TRUE])
               /\ identity' = w.copy /\ mixed' = (mixed \/ saving) /\ UNCHANGED <<conn, saving>>
         /\ UNCHANGED <<status, buttons, pending, key, clicks, excused>>
<1>1. w \in ConnectWorkers
  BY DEF WindowTypes, ConnectWorkers, CallWorkers, ConnectFails, ConnectStores, PersistUrl
<1>2. CASE ConnectFails(w)
  BY <1>1, <1>2 DEF ConnectFails, Put, Ends
<1>3. CASE ConnectStores(w)
  <2>1. PICK v : v = [w EXCEPT !.at = "write", !.copy = IF saving THEN 0 ELSE identity]
    OBVIOUS
  <2>2. Becomes(w, v) /\ v \in ConnectWorkers
    BY <1>1, <1>3, <2>1 DEF ConnectStores, Becomes, ConnectWorkers, WindowTypes
  <2>3. v.at = "write" /\ v.copy = IF saving THEN 0 ELSE identity
    BY <1>1, <2>1 DEF ConnectWorkers
  <2> QED
    BY <1>1, <1>3, <2>2, <2>3 DEF ConnectStores
<1>4. CASE PersistUrl(w)
  BY <1>1, <1>4 DEF PersistUrl, Preserved, Put, Ends
<1> QED
  BY <1>2, <1>3, <1>4

LEMMA CallSteps ==
  ASSUME WindowTypes, NEW w \in workers, CheckHost(w) \/ ReadHost(w) \/ CallEnds(w)
  PROVE  /\ w \in CallWorkers
         /\ \/ w.at \in {"check", "read"} /\ Ends(w, [tag |-> w.tag, ask |-> w.ask, conn |-> 0, ok |-> FALSE])
            \/ /\ w.at \in {"check", "read"}
               /\ \E v \in CallWorkers :
                     /\ v.tag = w.tag /\ v.ask = w.ask /\ Becomes(w, v)
                     /\ v.at = "call" => v.conn = conn /\ conn # 0
            \/ /\ w.at = "call"
               /\ \E ok \in BOOLEAN :
                     Ends(w, [tag |-> w.tag, ask |-> w.ask, conn |-> w.conn, ok |-> ok])
         /\ UNCHANGED <<conn, status, buttons, pending, key, file, clicks, excused>>
<1>1. w \in CallWorkers
  BY DEF WindowTypes, ConnectWorkers, CallWorkers, CheckHost, ReadHost, CallEnds
<1>2. CASE CheckHost(w)
  <2>1. PICK v : v = [w EXCEPT !.at = "read"]
    OBVIOUS
  <2>2. v \in CallWorkers /\ v.tag = w.tag /\ v.ask = w.ask /\ v.at = "read"
    BY <1>1, <2>1 DEF CallWorkers
  <2>3. w.at = "check" /\ UNCHANGED <<conn, status, buttons, pending, key, file, clicks, excused>>
    BY <1>2 DEF CheckHost
  <2>4. \/ Ends(w, [tag |-> w.tag, ask |-> w.ask, conn |-> 0, ok |-> FALSE])
        \/ Becomes(w, v)
    BY <1>2, <2>1 DEF CheckHost, Put, Ends, Becomes
  <2> QED
    BY <1>1, <2>2, <2>3, <2>4
<1>3. CASE ReadHost(w)
  <2>1. PICK v : v = [w EXCEPT !.at = "call", !.conn = conn]
    OBVIOUS
  <2>2. v \in CallWorkers /\ v.tag = w.tag /\ v.ask = w.ask /\ v.at = "call" /\ v.conn = conn
    BY <1>1, <2>1 DEF CallWorkers, WindowTypes
  <2> QED
    BY <1>1, <1>3, <2>1, <2>2 DEF ReadHost, Put, Ends, Becomes
<1>4. CASE CallEnds(w)
  BY <1>1, <1>4 DEF CallEnds, Put, Ends
<1> QED
  BY <1>1, <1>2, <1>3, <1>4

LEMMA Clicked ==
  ASSUME WindowTypes, NEW b \in {"connect", "ask", "run", "save"}, Click(b)
  PROVE  /\ clicks' \in [connect : Nat, ask : Nat, run : Nat, save : Nat]
         /\ IF b = "connect" THEN clicks'.connect # 0 ELSE clicks'.connect = clicks.connect
         /\ clicks'.ask = (IF b = "ask" THEN clicks.ask + 1 ELSE clicks.ask)
         /\ b # "save" => clicks'.save = clicks.save
  BY DEF Click, WindowTypes

LEMMA AnswerTyped ==
  ASSUME WindowTypes, results # <<>>
  PROVE  /\ Head(results) \in Answers
         /\ Head(results).tag \in {"ask", "execute"} => Head(results) \in CallAnswers
         /\ Tail(results) \in Seq(Answers)
<1>1. results \in Seq(Answers) /\ results[1] \in Answers
  BY QueueShrinks DEF WindowTypes
<1>2. Head(results) = results[1] /\ Tail(results) \in Seq(Answers)
  BY <1>1, QueueShrinks
<1> QED
  BY <1>1, <1>2 DEF Answers, ConnectAnswers, CallAnswers

(* What the Tk thread does with the oldest result.                         *)
LEMMA TypesDrain ==
  ASSUME WindowTypes, Drain
  PROVE  WindowTypes'
<1>1. /\ results # <<>> /\ results' = Tail(results)
      /\ UNCHANGED <<conn, workers, key, identity, saving, mixed, clicks>>
  BY DEF Drain, file
<1>2. results' \in Seq(Answers)
  BY <1>1, AnswerTyped
<1>3. PICK r : r = Head(results)
  OBVIOUS
<1>4. ConnectResult(r) \/ AskResult(r) \/ ExecuteResult(r)
  BY <1>3 DEF Drain
<1>5. r.tag = "ask" => r \in CallAnswers
  BY <1>1, <1>3, AnswerTyped
<1>6. pending' \in {NoPlan} \cup [ask : Nat, conn : Nat]
  <2>1. CASE AskResult(r)
    <3>1. r.ask \in Nat /\ r.conn \in Nat
      BY <1>5, <2>1 DEF AskResult, CallAnswers
    <3> QED
      BY <2>1, <3>1 DEF AskResult, WindowTypes
  <2> QED
    BY <1>4, <2>1 DEF ConnectResult, ExecuteResult, WindowTypes
<1>7. /\ connectBtn' \in BOOLEAN /\ disconnectBtn' \in BOOLEAN /\ askBtn' \in BOOLEAN
      /\ runBtn' \in BOOLEAN
  BY <1>4 DEF ConnectResult, AskResult, AskAgain, ExecuteResult, WindowTypes
<1> QED
  BY <1>1, <1>2, <1>6, <1>7 DEF WindowTypes

LEMMA TypesWorker ==
  ASSUME WindowTypes, NEW w \in workers,
         \/ ConnectFails(w) \/ ConnectStores(w) \/ PersistUrl(w)
         \/ CheckHost(w) \/ ReadHost(w) \/ CallEnds(w)
  PROVE  WindowTypes'
<1>1. CASE ConnectFails(w) \/ ConnectStores(w) \/ PersistUrl(w)
  <2>1. conn' \in Nat /\ identity' \in Nat /\ mixed' \in BOOLEAN /\ saving' = saving
    BY <1>1, ConnectSteps DEF WindowTypes, ConnectWorkers, file
  <2>2. /\ workers' \subseteq ConnectWorkers \cup CallWorkers
        /\ results' = results \/ \E r \in Answers : results' = Append(results, r)
    BY <1>1, ConnectSteps DEF WindowTypes, Becomes, Ends, Answers, ConnectAnswers
  <2>3. UNCHANGED <<buttons, pending, key, clicks>>
    BY <1>1, ConnectSteps
  <2>4. results' \in Seq(Answers)
    BY <2>2, QueueGrows DEF WindowTypes
  <2> QED
    BY <2>1, <2>2, <2>3, <2>4 DEF WindowTypes, buttons
<1>2. CASE CheckHost(w) \/ ReadHost(w) \/ CallEnds(w)
  <2>1. w \in CallWorkers
    BY <1>2, CallSteps
  <2>2. \A c \in Nat, ok \in BOOLEAN :
           [tag |-> w.tag, ask |-> w.ask, conn |-> c, ok |-> ok] \in Answers
    BY <2>1 DEF CallWorkers, CallAnswers, Answers
  <2>3. w.conn \in Nat
    BY <2>1 DEF CallWorkers
  <2>4. /\ workers' \subseteq ConnectWorkers \cup CallWorkers
        /\ results' = results \/ \E r \in Answers : results' = Append(results, r)
    BY <1>2, <2>2, <2>3, CallSteps DEF WindowTypes, Becomes, Ends
  <2>5. UNCHANGED <<conn, status, buttons, pending, key, file, clicks, excused>>
    BY <1>2, CallSteps
  <2>6. results' \in Seq(Answers)
    BY <2>4, QueueGrows DEF WindowTypes
  <2> QED
    BY <2>4, <2>5, <2>6 DEF WindowTypes, buttons, file
<1> QED
  BY <1>1, <1>2

LEMMA TypesStep ==
  ASSUME WindowTypes, [ClientNext]_clientVars
  PROVE  WindowTypes'
<1>1. CASE DoConnect
  <2>1. clicks' \in [connect : Nat, ask : Nat, run : Nat, save : Nat]
    BY <1>1, Clicked DEF DoConnect
  <2>2. workers' \subseteq ConnectWorkers \cup CallWorkers
    <3>1. [tag |-> "connect", at |-> "health", copy |-> 0] \in ConnectWorkers
      BY DEF ConnectWorkers
    <3> HIDE DEF ConnectWorkers, CallWorkers
    <3>2. PICK v : v = [tag |-> "connect", at |-> "health", copy |-> 0]
      OBVIOUS
    <3>3. workers' = workers \/ workers' = workers \cup {v}
      BY <1>1, <3>2 DEF DoConnect, RunInThread
    <3> QED
      BY <3>1, <3>2, <3>3 DEF WindowTypes
  <2> QED
    BY <1>1, <2>1, <2>2 DEF DoConnect, WindowTypes, file
<1>2. CASE DoDisconnect \/ DoCancel \/ SaveKey
  <2>1. /\ connectBtn' \in BOOLEAN /\ disconnectBtn' \in BOOLEAN /\ askBtn' \in BOOLEAN
        /\ runBtn' \in BOOLEAN /\ key' \in BOOLEAN
    BY <1>2 DEF DoDisconnect, DropPlan, DoCancel, SaveKey, Refresh, WindowTypes
  <2>2. conn' \in Nat /\ pending' \in {NoPlan, pending}
    BY <1>2 DEF DoDisconnect, DropPlan, DoCancel, SaveKey, WindowTypes
  <2>3. UNCHANGED <<workers, results, file, clicks>>
    BY <1>2 DEF DoDisconnect, DoCancel, SaveKey
  <2> QED
    BY <2>1, <2>2, <2>3 DEF WindowTypes, file
<1>3. CASE DoAsk
  <2>1. clicks' \in [connect : Nat, ask : Nat, run : Nat, save : Nat] /\ clicks.ask + 1 \in Nat
    BY <1>3, Clicked DEF DoAsk, WindowTypes
  <2>2. workers' \subseteq ConnectWorkers \cup CallWorkers
    BY <1>3, <2>1 DEF DoAsk, RunInThread, WindowTypes, CallWorkers
  <2> QED
    BY <1>3, <2>1, <2>2 DEF DoAsk, WindowTypes, file
<1>4. CASE DoRun
  <2>1. clicks' \in [connect : Nat, ask : Nat, run : Nat, save : Nat]
    BY <1>4, Clicked DEF DoRun
  <2>2. runBtn' \in BOOLEAN /\ workers' \subseteq ConnectWorkers \cup CallWorkers
    <3>1. CASE pending = NoPlan
      BY <1>4, <3>1 DEF DoRun, WindowTypes
    <3>2. CASE pending # NoPlan
      <4>1. pending.ask \in Nat
        BY <3>2 DEF WindowTypes
      <4>2. PICK v : v = [tag |-> "execute", at |-> "check", ask |-> pending.ask, conn |-> 0]
        OBVIOUS
      <4>3. v \in CallWorkers
        BY <4>1, <4>2 DEF CallWorkers
      <4>4. runBtn' = FALSE /\ workers' = workers \cup {v}
        BY <1>4, <3>2, <4>2 DEF DoRun, RunInThread
      <4> QED
        BY <4>3, <4>4 DEF WindowTypes
    <3> QED
      BY <3>1, <3>2
  <2> QED
    BY <1>4, <2>1, <2>2 DEF DoRun, WindowTypes, file
<1>5. CASE EditIdentity \/ SettingsWritten
  <2>1. clicks' \in [connect : Nat, ask : Nat, run : Nat, save : Nat] /\ clicks.save \in Nat
    BY <1>5, Clicked DEF EditIdentity, SettingsWritten, WindowTypes
  <2>2. mixed' \in BOOLEAN /\ key' \in BOOLEAN
    BY <1>5 DEF EditIdentity, SettingsWritten, WindowTypes
  <2> QED
    BY <1>5, <2>1, <2>2 DEF EditIdentity, SettingsWritten, Refresh, WindowTypes, buttons
<1>6. CASE UNCHANGED clientVars
  BY <1>6 DEF clientVars, WindowTypes
<1> QED
  BY <1>1, <1>2, <1>3, <1>4, <1>5, <1>6, TypesDrain, TypesWorker DEF ClientNext

(* What every step but those of the file and of a connect leaves alone.    *)
LEMMA FileRest ==
  ASSUME CopyIsCurrent, SettingsKept, UNCHANGED file, clicks'.save = clicks.save,
         \A w \in workers' : w \in workers \/ w.tag # "connect" \/ w.at # "write"
  PROVE  CopyIsCurrent' /\ SettingsKept'
  BY DEF CopyIsCurrent, SettingsKept, Connecting, file

(* A save that falls between the read and the write of a connect is mixed; *)
(* without one the connect writes back what is there.                      *)
LEMMA FileStep ==
  ASSUME WindowTypes, CopyIsCurrent, SettingsKept, [ClientNext]_clientVars
  PROVE  CopyIsCurrent' /\ SettingsKept'
<1>1. CASE DoConnect \/ DoAsk \/ DoRun
  <2>1. clicks'.save = clicks.save /\ UNCHANGED file
    BY <1>1, Clicked DEF DoConnect, DoAsk, DoRun
  <2>2. \A w \in workers' : w \in workers \/ w.tag # "connect" \/ w.at # "write"
    BY <1>1 DEF DoConnect, DoAsk, DoRun, RunInThread
  <2> QED
    BY <2>1, <2>2, FileRest
<1>2. CASE DoDisconnect \/ DoCancel \/ SaveKey \/ Drain \/ UNCHANGED clientVars
  BY <1>2, FileRest DEF DoDisconnect, DoCancel, SaveKey, Drain, clientVars, file
<1>3. CASE EditIdentity
  BY <1>3 DEF EditIdentity, CopyIsCurrent, SettingsKept
<1>4. CASE SettingsWritten
  <2>1. SettingsKept'
    BY <1>4 DEF SettingsWritten, SettingsKept
  <2>2. workers' = workers /\ (mixed' = (mixed \/ Rewriting))
    BY <1>4 DEF SettingsWritten
  <2> QED
    BY <2>1, <2>2 DEF Rewriting, CopyIsCurrent, Connecting
<1>5. ASSUME NEW w \in workers, ConnectFails(w) \/ ConnectStores(w) \/ PersistUrl(w)
      PROVE  CopyIsCurrent' /\ SettingsKept'
  <2>1. w.tag = "connect" /\ clicks' = clicks
    BY <1>5, ConnectSteps DEF ConnectWorkers
  <2>2. CASE w.at = "health" /\ workers' = workers \ {w} /\ UNCHANGED file
    BY <2>1, <2>2, FileRest
  <2>3. CASE /\ UNCHANGED file
             /\ \E v \in ConnectWorkers :
                   /\ v.at = "write" /\ v.copy = IF saving THEN 0 ELSE identity
                   /\ Becomes(w, v)
    <3>1. SettingsKept'
      BY <2>1, <2>3 DEF SettingsKept, file
    <3>2. CopyIsCurrent'
      BY <2>3 DEF CopyIsCurrent, Connecting, Becomes, file
    <3> QED
      BY <3>1, <3>2
  <2>4. CASE /\ w.at = "write" /\ workers' = workers \ {w}
             /\ identity' = w.copy /\ mixed' = (mixed \/ saving) /\ UNCHANGED saving
    <3>1. w.copy = identity \/ saving \/ mixed
      BY <2>1, <2>4 DEF CopyIsCurrent, Connecting
    <3>2. identity' = identity \/ mixed'
      BY <2>4, <3>1
    <3> QED
      BY <2>1, <2>4, <3>2 DEF SettingsKept, CopyIsCurrent, Connecting
  <2> QED
    BY <1>5, <2>2, <2>3, <2>4, ConnectSteps DEF Ends
<1>6. ASSUME NEW w \in workers, CheckHost(w) \/ ReadHost(w) \/ CallEnds(w)
      PROVE  CopyIsCurrent' /\ SettingsKept'
  <2>1. UNCHANGED <<file, clicks>>
    BY <1>6, CallSteps
  <2>2. \A v \in workers' : v \in workers \/ v \in CallWorkers
    BY <1>6, CallSteps DEF Ends, Becomes
  <2>3. \A v \in CallWorkers : v.tag # "connect"
    BY DEF CallWorkers
  <2> QED
    BY <2>1, <2>2, <2>3, FileRest
<1> QED
  BY <1>1, <1>2, <1>3, <1>4, <1>5, <1>6 DEF ClientNext

LEMMA ClientTypesInit == ClientInit => WindowTypes /\ CopyIsCurrent /\ SettingsKept
<1> SUFFICES ASSUME ClientInit PROVE WindowTypes /\ CopyIsCurrent /\ SettingsKept
  OBVIOUS
<1>1. clicks \in [connect : Nat, ask : Nat, run : Nat, save : Nat] /\ clicks.save = 0
  BY DEF ClientInit
<1>2. workers = {} /\ identity = 0 /\ <<>> \in Seq(Answers)
  BY DEF ClientInit
<1> QED
  BY <1>1, <1>2 DEF ClientInit, WindowTypes, CopyIsCurrent, SettingsKept, Connecting

(* save_settings and _persist_url (ui.py:158-202, 262-278) both read, merge *)
(* and rewrite identity.json: however many connects and saves, the user and *)
(* password saved last are in it, unless one of them fell into the other.  *)
THEOREM SettingsSurvive == ClientSpec => []SettingsKept
<1>1. WindowTypes /\ CopyIsCurrent /\ SettingsKept /\ [ClientNext]_clientVars
        => WindowTypes' /\ CopyIsCurrent' /\ SettingsKept'
  BY TypesStep, FileStep
<1> QED
  BY ClientTypesInit, <1>1, PTL DEF ClientSpec

(* What every step but those of a connect leaves alone.                    *)
LEMMA ConnectRest ==
  ASSUME OneConnect, UNCHANGED <<connectBtn, disconnectBtn, conn, status, results>>,
         clicks'.connect = clicks.connect, Connecting' = Connecting
  PROVE  OneConnect'
<1>1. Answered' = Answered /\ Connecting \subseteq workers'
  BY DEF Answered, Connecting
<1>2. Offline => Offline'
  BY <1>1 DEF Offline
<1>3. Online => Online'
  BY <1>1 DEF Online
<1>4. OnTheWay => OnTheWay'
  BY <1>1 DEF OnTheWay
<1> QED
  BY <1>2, <1>3, <1>4 DEF OneConnect

(* A call ends or goes on: the queue may grow by a result that is not a    *)
(* connect's.                                                              *)
LEMMA ConnectCalls ==
  ASSUME WindowTypes, OneConnect, NEW w \in workers, CheckHost(w) \/ ReadHost(w) \/ CallEnds(w)
  PROVE  OneConnect'
<1>1. w.tag # "connect" /\ UNCHANGED <<connectBtn, disconnectBtn, conn, status, clicks>>
  BY CallSteps DEF CallWorkers, buttons
<1>2. CASE \E v \in CallWorkers : v.tag = w.tag /\ Becomes(w, v)
  <2>1. Connecting' = Connecting
    BY <1>1, <1>2 DEF Becomes, Connecting
  <2> QED
    BY <1>1, <1>2, <2>1, ConnectRest DEF Becomes
<1>3. ASSUME NEW r \in Answers, r.tag # "connect", Ends(w, r) PROVE OneConnect'
  <2>1. Connecting' = Connecting /\ Connecting \subseteq workers'
    BY <1>1, <1>3 DEF Ends, Connecting
  <2>2. /\ DOMAIN results' = DOMAIN results \cup {Len(results) + 1}
        /\ \A i \in DOMAIN results : results'[i] = results[i]
        /\ results'[Len(results) + 1] = r
    BY <1>3, QueueGrows DEF Ends, WindowTypes
  <2>3. Answered' = Answered
    BY <1>3, <2>2 DEF Answered
  <2>4. Offline => Offline'
    BY <1>1, <2>1, <2>3 DEF Offline
  <2>5. Online => Online'
    BY <1>1, <2>1, <2>3 DEF Online
  <2>6. OnTheWay => OnTheWay'
    BY <1>1, <2>1, <2>2, <2>3 DEF OnTheWay
  <2> QED
    BY <1>1, <2>1, <2>4, <2>5, <2>6 DEF OneConnect
<1>4. w.conn \in Nat /\ w \in CallWorkers
  BY CallSteps DEF CallWorkers
<1>5. ASSUME NEW c \in Nat, NEW ok \in BOOLEAN
      PROVE  LET r == [tag |-> w.tag, ask |-> w.ask, conn |-> c, ok |-> ok]
             IN  r \in Answers /\ r.tag # "connect"
  BY <1>4 DEF CallWorkers, Answers, CallAnswers
<1>6. CASE \E c \in Nat, ok \in BOOLEAN : Ends(w, [tag |-> w.tag, ask |-> w.ask, conn |-> c, ok |-> ok])
  BY <1>3, <1>5, <1>6
<1> QED
  BY <1>2, <1>4, <1>6, CallSteps

(* The connect that is on its way fails, stores its host, or has written.  *)
LEMMA ConnectMoves ==
  ASSUME WindowTypes, OneConnect, NEW w \in workers,
         ConnectFails(w) \/ ConnectStores(w) \/ PersistUrl(w)
  PROVE  OneConnect'
<1>1. w \in Connecting /\ UNCHANGED <<connectBtn, disconnectBtn, status, clicks>>
  BY ConnectSteps DEF ConnectWorkers, Connecting, buttons
<1>2. /\ ~ connectBtn /\ ~ disconnectBtn /\ Answered = {} /\ Connecting = {w}
      /\ (w.at = "write") = (conn # 0)
  BY <1>1 DEF OneConnect, Offline, Online, OnTheWay
<1>3. clicks.connect # 0
  BY <1>1 DEF OneConnect
<1>4. ASSUME NEW ok \in BOOLEAN, Ends(w, [tag |-> "connect", ok |-> ok]), ok = (conn' # 0)
      PROVE  OneConnect'
  <2>1. [tag |-> "connect", ok |-> ok] \in Answers
    BY DEF Answers, ConnectAnswers
  <2>2. /\ DOMAIN results' = DOMAIN results \cup {Len(results) + 1}
        /\ \A i \in DOMAIN results : results'[i] = results[i]
        /\ results'[Len(results) + 1] = [tag |-> "connect", ok |-> ok]
    BY <1>4, <2>1, QueueGrows DEF Ends, WindowTypes
  <2>3. Answered' = {Len(results) + 1}
    BY <1>2, <2>2 DEF Answered
  <2>4. Connecting' = {}
    BY <1>2, <1>4 DEF Ends, Connecting
  <2>5. OnTheWay'
    BY <1>1, <1>2, <1>4, <2>2, <2>3, <2>4 DEF OnTheWay
  <2> QED
    BY <2>4, <2>5 DEF OneConnect
<1>5. CASE /\ conn' = clicks.connect
           /\ \E v \in ConnectWorkers : v.at = "write" /\ Becomes(w, v)
  <2>1. PICK v \in ConnectWorkers : v.at = "write" /\ Becomes(w, v)
    BY <1>5
  <2>2. v.tag = "connect"
    BY DEF ConnectWorkers
  <2>3. Connecting' = {v} /\ v \in workers' /\ Answered' = {}
    BY <1>2, <2>1, <2>2 DEF Becomes, Connecting, Answered
  <2>4. OnTheWay'
    BY <1>1, <1>2, <1>3, <1>5, <2>1, <2>3 DEF OnTheWay
  <2> QED
    BY <1>1, <1>3, <2>4 DEF OneConnect
<1> QED
  BY <1>2, <1>4, <1>5, ConnectSteps

(* The oldest result is a connect's, the only one, or it is not.           *)
LEMMA ConnectDrain ==
  ASSUME WindowTypes, OneConnect, Drain
  PROVE  OneConnect'
<1>1. /\ results # <<>> /\ results' = Tail(results) /\ UNCHANGED <<conn, workers, clicks>>
  BY DEF Drain
<1>2. Connecting' = Connecting
  BY <1>1 DEF Connecting
<1>3. PICK r : r = Head(results)
  OBVIOUS
<1>4. ConnectResult(r) \/ AskResult(r) \/ ExecuteResult(r)
  BY <1>3 DEF Drain
<1>5. /\ DOMAIN results \subseteq Nat /\ 1 \in DOMAIN results /\ r = results[1]
      /\ \A i \in DOMAIN results' : i + 1 \in DOMAIN results /\ results'[i] = results[i + 1]
      /\ \A i \in DOMAIN results : i # 1 => i - 1 \in DOMAIN results' /\ results'[i - 1] = results[i]
  BY <1>1, <1>3, QueueShrinks DEF WindowTypes
<1>6. DOMAIN results' \subseteq Nat \ {0}
  BY <1>1, QueueShrinks DEF WindowTypes
<1>7. CASE r.tag = "connect"
  <2>1. Connecting = {} /\ Answered = {1} /\ r.ok = (conn # 0) /\ ~ connectBtn /\ ~ disconnectBtn
    <3>1. 1 \in Answered
      BY <1>5, <1>7 DEF Answered
    <3> QED
      BY <1>5, <3>1 DEF OneConnect, Offline, Online, OnTheWay
  <2>2. Answered' = {}
    BY <1>5, <1>6, <2>1 DEF Answered
  <2>3. ConnectResult(r)
    BY <1>4, <1>7 DEF AskResult, ExecuteResult
  <2>4. CASE r.ok
    BY <1>1, <1>2, <2>1, <2>2, <2>3, <2>4 DEF ConnectResult, OneConnect, Online
  <2>5. CASE ~ r.ok
    BY <1>1, <1>2, <2>1, <2>2, <2>3, <2>5 DEF ConnectResult, OneConnect, Offline
  <2> QED
    BY <2>4, <2>5
<1>8. CASE r.tag # "connect"
  <2>1. UNCHANGED <<connectBtn, disconnectBtn, status>>
    BY <1>4, <1>8 DEF ConnectResult, AskResult, ExecuteResult
  <2>2. Answered = {} => Answered' = {}
    BY <1>5 DEF Answered
  <2>3. ASSUME NEW i \in DOMAIN results, Answered = {i}
        PROVE  Answered' = {i - 1} /\ i - 1 \in DOMAIN results' /\ results'[i - 1] = results[i]
    <3>1. i # 1 /\ i \in Nat
      BY <1>5, <1>8, <2>3 DEF Answered
    <3>2. i - 1 \in DOMAIN results' /\ results'[i - 1] = results[i]
      BY <1>5, <3>1
    <3>3. i - 1 \in Answered'
      BY <2>3, <3>2 DEF Answered
    <3>4. ASSUME NEW j \in Answered' PROVE j = i - 1
      <4>1. j \in Nat /\ j + 1 \in Answered
        BY <1>5, <1>6, <3>4 DEF Answered
      <4> QED
        BY <2>3, <3>1, <4>1
    <3> QED
      BY <3>2, <3>3, <3>4
  <2>4. Offline => Offline'
    BY <1>1, <1>2, <2>1, <2>2 DEF Offline
  <2>5. Online => Online'
    BY <1>1, <1>2, <2>1, <2>2 DEF Online
  <2>6. OnTheWay => OnTheWay'
    BY <1>1, <1>2, <2>1, <2>2, <2>3 DEF OnTheWay
  <2> QED
    BY <1>1, <1>2, <2>4, <2>5, <2>6 DEF OneConnect
<1> QED
  BY <1>7, <1>8

(* One connect at a time: its button comes back with its result.           *)
LEMMA ConnectStep ==
  ASSUME WindowTypes, OneConnect, [ClientNext]_clientVars
  PROVE  OneConnect'
<1>1. CASE DoConnect
  <2>1. Offline
    BY <1>1 DEF DoConnect, OneConnect, Online, OnTheWay
  <2>2. clicks'.connect # 0 /\ disconnectBtn' = FALSE /\ UNCHANGED <<conn, results>>
    BY <1>1, <2>1, Clicked DEF DoConnect, Offline
  <2>3. Answered' = {}
    BY <2>1, <2>2 DEF Answered, Offline
  <2>4. CASE status' = "Error" /\ UNCHANGED <<connectBtn, workers>>
    BY <2>1, <2>2, <2>3, <2>4 DEF OneConnect, Offline, Connecting
  <2>5. CASE connectBtn' = FALSE /\ RunInThread([tag |-> "connect", at |-> "health", copy |-> 0])
    <3>1. PICK v : v = [tag |-> "connect", at |-> "health", copy |-> 0]
      OBVIOUS
    <3>2. Connecting' = {v} /\ v \in workers' /\ v.at = "health"
      BY <2>1, <2>5, <3>1 DEF RunInThread, Connecting, Offline
    <3>3. OnTheWay'
      BY <2>1, <2>2, <2>3, <2>5, <3>2 DEF OnTheWay, Offline
    <3> QED
      BY <2>2, <3>3 DEF OneConnect
  <2> QED
    BY <1>1, <2>4, <2>5 DEF DoConnect
<1>2. CASE DoDisconnect
  <2>1. Online
    BY <1>2 DEF DoDisconnect, OneConnect, Offline, OnTheWay
  <2>2. Connecting' = {} /\ Answered' = {}
    BY <1>2, <2>1 DEF DoDisconnect, Connecting, Answered, Online
  <2> QED
    BY <1>2, <2>2 DEF DoDisconnect, OneConnect, Offline
<1>3. CASE DoAsk \/ DoRun
  <2>1. /\ UNCHANGED <<connectBtn, disconnectBtn, conn, status, results>>
        /\ clicks'.connect = clicks.connect
    BY <1>3, Clicked DEF DoAsk, DoRun
  <2>2. Connecting' = Connecting
    BY <1>3 DEF DoAsk, DoRun, RunInThread, Connecting
  <2> QED
    BY <2>1, <2>2, ConnectRest
<1>4. CASE DoCancel \/ EditIdentity \/ SettingsWritten \/ SaveKey \/ UNCHANGED clientVars
  <2>1. UNCHANGED <<connectBtn, disconnectBtn, conn, status, results, workers>>
    BY <1>4 DEF DoCancel, EditIdentity, SettingsWritten, SaveKey, clientVars, buttons
  <2>2. clicks'.connect = clicks.connect
    BY <1>4, Clicked DEF DoCancel, EditIdentity, SettingsWritten, SaveKey, clientVars
  <2>3. Connecting' = Connecting
    BY <2>1 DEF Connecting
  <2> QED
    BY <2>1, <2>2, <2>3, ConnectRest
<1> QED
  BY <1>1, <1>2, <1>3, <1>4, ConnectCalls, ConnectMoves, ConnectDrain DEF ClientNext

LEMMA AsksAre ==
  /\ \A w \in workers : w.tag = "ask" => w.ask \in Asking
  /\ \A i \in DOMAIN results : results[i].tag = "ask" => results[i].ask \in Asking
  /\ \A a \in Asking : \/ \E w \in workers : w.tag = "ask" /\ w.ask = a
                       \/ \E i \in DOMAIN results : results[i].tag = "ask" /\ results[i].ask = a
  /\ \A a, c : Calls(a, c) => a \in Asking
<1>1. /\ \A w \in workers : w.tag = "ask" => w.ask \in Asking
      /\ \A i \in DOMAIN results : results[i].tag = "ask" => results[i].ask \in Asking
  BY DEF Asking
<1>2. \A a \in Asking : \/ \E w \in workers : w.tag = "ask" /\ w.ask = a
                        \/ \E i \in DOMAIN results : results[i].tag = "ask" /\ results[i].ask = a
  BY DEF Asking
<1> QED
  BY <1>1, <1>2 DEF Calls

(* When every earlier question is excused, or neither the last question    *)
(* nor the open connection changes, only a new call has to be looked at.   *)
LEMMA AsksStay ==
  ASSUME WindowTypes, WindowTypes', LastOrExcused, RunIsTheLastAnswer,
         excused \subseteq excused', Asking' \subseteq Asking \cup {clicks'.ask},
         (clicks'.ask = clicks.ask /\ (conn' = conn \/ conn = 0)) \/ Asking \subseteq excused',
         \A a, c \in Nat : Calls(a, c)' => Calls(a, c) \/ (c = conn' /\ c # 0),
         runBtn' =>
            \/ runBtn /\ pending' = pending /\ clicks'.ask = clicks.ask /\ (conn' = conn \/ conn = 0)
            \/ /\ pending' \in [ask : Nat, conn : Nat] /\ Calls(pending'.ask, pending'.conn)
               /\ clicks'.ask = clicks.ask /\ conn' = conn
  PROVE  LastOrExcused' /\ RunIsTheLastAnswer'
<1>1. \A a \in Asking' : a = clicks'.ask \/ a \in excused'
  BY DEF LastOrExcused
<1>2. ASSUME NEW a \in Nat, NEW c \in Nat, Calls(a, c)'
      PROVE  c # 0 /\ (c = conn' \/ a \in excused')
  <2>1. CASE Calls(a, c)
    <3>1. c # 0 /\ (c = conn \/ a \in excused) /\ a \in Asking
      BY <2>1, AsksAre DEF LastOrExcused
    <3> QED
      BY <3>1
  <2> QED
    BY <1>2, <2>1
<1>3. ASSUME runBtn'
      PROVE  /\ pending' # NoPlan /\ pending'.conn # 0
             /\ (pending'.ask = clicks'.ask /\ pending'.conn = conn') \/ pending'.ask \in excused'
  <2>1. CASE runBtn /\ pending' = pending /\ clicks'.ask = clicks.ask /\ (conn' = conn \/ conn = 0)
    <3>1. /\ pending # NoPlan /\ pending.conn # 0
          /\ (pending.ask = clicks.ask /\ pending.conn = conn) \/ pending.ask \in excused
      BY <2>1 DEF LastOrExcused, RunIsTheLastAnswer
    <3> QED
      BY <2>1, <3>1
  <2>2. CASE /\ pending' \in [ask : Nat, conn : Nat] /\ Calls(pending'.ask, pending'.conn)
             /\ clicks'.ask = clicks.ask /\ conn' = conn
    <3>1. pending' # NoPlan /\ pending'.ask \in Nat /\ pending'.conn \in Nat
      BY <2>2, NoPlanAssumption
    <3>2. /\ pending'.conn # 0 /\ (pending'.conn = conn \/ pending'.ask \in excused)
          /\ pending'.ask \in Asking
      BY <2>2, <3>1, AsksAre DEF LastOrExcused
    <3>3. pending'.ask = clicks.ask \/ pending'.ask \in excused
      BY <3>2 DEF LastOrExcused
    <3> QED
      BY <2>2, <3>1, <3>2, <3>3
  <2> QED
    BY <1>3, <2>1, <2>2
<1> QED
  BY <1>1, <1>2, <1>3 DEF LastOrExcused, RunIsTheLastAnswer

LEMMA ButtonStays ==
  ASSUME AskNeedsKey, AskReturns, key => key',
         askBtn' => askBtn \/ Asking # {} \/ key',
         Asking' # {} => Asking # {} \/ askBtn,
         disconnectBtn' => \/ askBtn' \/ (askBtn' = key') \/ Asking' # {}
                           \/ disconnectBtn /\ key' = key /\ askBtn' = askBtn /\ Asking' = Asking
  PROVE  AskNeedsKey' /\ AskReturns'
  BY DEF AskNeedsKey, AskReturns

AskInv == AskNeedsKey /\ AskReturns /\ LastOrExcused /\ RunIsTheLastAnswer

(* A step that asks nothing and answers no question.                       *)
LEMMA AsksUntouched ==
  ASSUME WindowTypes, WindowTypes', AskInv, Asking' = Asking, UNCHANGED excused,
         clicks'.ask = clicks.ask, conn' = conn \/ conn = 0,
         \A a, c \in Nat : Calls(a, c)' => Calls(a, c) \/ (c = conn' /\ c # 0),
         runBtn' => runBtn /\ pending' = pending,
         key => key', askBtn' => askBtn \/ key',
         disconnectBtn' => \/ (askBtn' = key')
                           \/ disconnectBtn /\ key' = key /\ askBtn' = askBtn
  PROVE  AskInv'
<1>1. LastOrExcused' /\ RunIsTheLastAnswer'
  BY AsksStay DEF AskInv
<1>2. AskNeedsKey' /\ AskReturns'
  BY ButtonStays DEF AskInv
<1> QED
  BY <1>1, <1>2 DEF AskInv

(* A thread of a call goes on, or its result takes its place.              *)
LEMMA AsksOfCalls ==
  ASSUME WindowTypes, WindowTypes', AskInv, NEW w \in workers,
         CheckHost(w) \/ ReadHost(w) \/ CallEnds(w)
  PROVE  AskInv'
<1>1. w \in CallWorkers /\ w.conn \in Nat
      /\ UNCHANGED <<conn, status, buttons, pending, key, file, clicks, excused>>
  BY CallSteps DEF CallWorkers
<1>2. ASSUME NEW v, v.tag = w.tag, v.ask = w.ask, Becomes(w, v),
             v.at = "call" => v.conn = conn /\ conn # 0
      PROVE  AskInv'
  <2>1. Asking' = Asking
    BY <1>2 DEF Becomes, Asking
  <2>2. \A a, c \in Nat : Calls(a, c)' => Calls(a, c) \/ (c = conn' /\ c # 0)
    BY <1>1, <1>2 DEF Becomes, Calls
  <2> QED
    BY <1>1, <2>1, <2>2, AsksUntouched DEF buttons
<1>3. ASSUME NEW c \in Nat, NEW ok \in BOOLEAN, ok => w.at = "call" /\ c = w.conn,
             Ends(w, [tag |-> w.tag, ask |-> w.ask, conn |-> c, ok |-> ok])
      PROVE  AskInv'
  <2>1. PICK r : r = [tag |-> w.tag, ask |-> w.ask, conn |-> c, ok |-> ok]
    OBVIOUS
  <2>2. r.tag = w.tag /\ r.ask = w.ask /\ r.conn = c /\ r.ok = ok /\ r \in Answers
    BY <1>1, <2>1 DEF CallWorkers, CallAnswers, Answers
  <2>3. /\ workers' = workers \ {w}
        /\ DOMAIN results' = DOMAIN results \cup {Len(results) + 1}
        /\ \A i \in DOMAIN results : results'[i] = results[i]
        /\ results'[Len(results) + 1] = r
    BY <1>3, <2>1, <2>2, QueueGrows DEF Ends, WindowTypes
  <2>4. Asking' = Asking
    <3>1. ASSUME NEW a PROVE a \in Asking' <=> a \in Asking
      BY <2>2, <2>3 DEF Asking
    <3> QED
      BY <3>1
  <2>5. \A a, d \in Nat : Calls(a, d)' => Calls(a, d)
    BY <1>3, <2>2, <2>3 DEF Calls
  <2> QED
    BY <1>1, <2>4, <2>5, AsksUntouched DEF buttons
<1>4. CASE \E v \in CallWorkers : /\ v.tag = w.tag /\ v.ask = w.ask /\ Becomes(w, v)
                                  /\ v.at = "call" => v.conn = conn /\ conn # 0
  BY <1>2, <1>4
<1>5. CASE Ends(w, [tag |-> w.tag, ask |-> w.ask, conn |-> 0, ok |-> FALSE])
  BY <1>3, <1>5
<1>6. CASE w.at = "call" /\ \E ok \in BOOLEAN :
             Ends(w, [tag |-> w.tag, ask |-> w.ask, conn |-> w.conn, ok |-> ok])
  BY <1>1, <1>3, <1>6
<1> QED
  BY <1>4, <1>5, <1>6, CallSteps

(* A connect changes the connection only when none was open.               *)
LEMMA AsksOfConnects ==
  ASSUME WindowTypes, WindowTypes', OneConnect, AskInv, NEW w \in workers,
         ConnectFails(w) \/ ConnectStores(w) \/ PersistUrl(w)
  PROVE  AskInv'
<1>1. /\ w.tag = "connect" /\ UNCHANGED <<buttons, pending, key, clicks, excused>>
      /\ conn' = conn \/ w.at = "health"
  BY ConnectSteps DEF ConnectWorkers
<1>2. w.at = "health" => conn = 0
  BY <1>1 DEF OneConnect, Offline, Online, OnTheWay, Connecting
<1>3. \/ \E v \in ConnectWorkers : Becomes(w, v)
      \/ \E ok \in BOOLEAN : Ends(w, [tag |-> "connect", ok |-> ok])
  BY ConnectSteps
<1>4. CASE \E v \in ConnectWorkers : Becomes(w, v)
  <2>1. PICK v \in ConnectWorkers : Becomes(w, v)
    BY <1>4
  <2>2. v.tag = "connect"
    BY DEF ConnectWorkers
  <2>3. Asking' = Asking
    BY <1>1, <2>1, <2>2 DEF Becomes, Asking
  <2>4. \A a, c \in Nat : Calls(a, c)' => Calls(a, c)
    BY <1>1, <2>1, <2>2 DEF Becomes, Calls
  <2> QED
    BY <1>1, <1>2, <2>3, <2>4, AsksUntouched DEF buttons
<1>5. ASSUME NEW ok \in BOOLEAN, Ends(w, [tag |-> "connect", ok |-> ok]) PROVE AskInv'
  <2>1. PICK r : r = [tag |-> "connect", ok |-> ok]
    OBVIOUS
  <2>2. r.tag = "connect" /\ r \in Answers
    BY <2>1 DEF ConnectAnswers, Answers
  <2>3. /\ workers' = workers \ {w}
        /\ DOMAIN results' = DOMAIN results \cup {Len(results) + 1}
        /\ \A i \in DOMAIN results : results'[i] = results[i]
        /\ results'[Len(results) + 1] = r
    BY <1>5, <2>1, <2>2, QueueGrows DEF Ends, WindowTypes
  <2>4. Asking' = Asking
    <3>1. ASSUME NEW a PROVE a \in Asking' <=> a \in Asking
      BY <1>1, <2>2, <2>3 DEF Asking
    <3> QED
      BY <3>1
  <2>5. \A a, c \in Nat : Calls(a, c)' => Calls(a, c)
    BY <1>1, <2>2, <2>3 DEF Calls
  <2> QED
    BY <1>1, <1>2, <2>4, <2>5, AsksUntouched DEF buttons
<1> QED
  BY <1>3, <1>4, <1>5

(* The oldest result is handled: an answered question offers its plan.     *)
LEMMA AsksDrain ==
  ASSUME WindowTypes, WindowTypes', AskInv, Drain
  PROVE  AskInv'
<1>1. /\ results # <<>> /\ results' = Tail(results)
      /\ UNCHANGED <<conn, workers, key, clicks, excused>>
  BY DEF Drain
<1>2. PICK r : r = Head(results)
  OBVIOUS
<1>3. /\ DOMAIN results \subseteq Nat /\ 1 \in DOMAIN results /\ r = results[1]
      /\ \A i \in DOMAIN results' : i + 1 \in DOMAIN results /\ results'[i] = results[i + 1]
      /\ \A i \in DOMAIN results : i # 1 => i - 1 \in DOMAIN results' /\ results'[i - 1] = results[i]
  BY <1>1, <1>2, QueueShrinks DEF WindowTypes
<1>4. Asking' \subseteq Asking
  <2>1. ASSUME NEW a \in Asking' PROVE a \in Asking
    BY <1>1, <1>3, <2>1 DEF Asking
  <2> QED
    BY <2>1
<1>5. \A a, c \in Nat : Calls(a, c)' => Calls(a, c)
  BY <1>1, <1>3 DEF Calls
<1>6. CASE r.tag # "ask" /\ (ConnectResult(r) \/ ExecuteResult(r))
  <2>1. Asking' = Asking
    <3>1. ASSUME NEW i \in DOMAIN results, results[i].tag = "ask"
          PROVE  results[i].ask \in Asking'
      <4>1. i # 1
        BY <1>3, <1>6, <3>1
      <4> QED
        BY <1>3, <3>1, <4>1 DEF Asking
    <3>2. ASSUME NEW v \in workers, v.tag = "ask" PROVE v.ask \in Asking'
      BY <1>1, <3>2 DEF Asking
    <3> QED
      BY <1>4, <3>1, <3>2, AsksAre
  <2>2. runBtn' => runBtn /\ pending' = pending
    BY <1>6 DEF ConnectResult, ExecuteResult
  <2>3. LastOrExcused' /\ RunIsTheLastAnswer'
    BY <1>1, <1>5, <2>1, <2>2, AsksStay DEF AskInv
  <2>4. AskNeedsKey' /\ AskReturns'
    <3>1. CASE ConnectResult(r)
      BY <1>1, <2>1, <3>1 DEF ConnectResult, AskInv, AskNeedsKey, AskReturns
    <3>2. CASE ExecuteResult(r)
      BY <1>1, <2>1, <3>2 DEF ExecuteResult, AskInv, AskNeedsKey, AskReturns
    <3> QED
      BY <1>6, <3>1, <3>2
  <2> QED
    BY <2>3, <2>4 DEF AskInv
<1>7. CASE r.tag = "ask" /\ AskResult(r)
  <2>1. r.ask \in Asking
    BY <1>3, <1>7, AsksAre
  <2>2. runBtn' => \/ runBtn /\ pending' = pending
                   \/ pending' \in [ask : Nat, conn : Nat] /\ Calls(pending'.ask, pending'.conn)
    <3>1. CASE r.ok
      <4>1. r \in CallAnswers
        BY <1>1, <1>2, <1>7, AnswerTyped
      <4>2. r.ask \in Nat /\ r.conn \in Nat
        BY <4>1 DEF CallAnswers
      <4>3. Calls(r.ask, r.conn)
        BY <1>3, <1>7, <3>1 DEF Calls
      <4>4. pending' = [ask |-> r.ask, conn |-> r.conn]
        BY <1>7, <3>1 DEF AskResult
      <4> QED
        BY <4>2, <4>3, <4>4
    <3>2. CASE ~ r.ok
      BY <1>7, <3>2 DEF AskResult
    <3> QED
      BY <3>1, <3>2
  <2>3. LastOrExcused' /\ RunIsTheLastAnswer'
    BY <1>1, <1>4, <1>5, <2>2, AsksStay DEF AskInv
  <2>4. AskNeedsKey' /\ AskReturns'
    BY <1>1, <1>4, <1>7, <2>1 DEF AskResult, AskAgain, AskInv, AskNeedsKey, AskReturns
  <2> QED
    BY <2>3, <2>4 DEF AskInv
<1>8. ConnectResult(r) \/ AskResult(r) \/ ExecuteResult(r)
  BY <1>2 DEF Drain
<1> QED
  BY <1>6, <1>7, <1>8 DEF ConnectResult, AskResult, ExecuteResult

(* A thread that is not a question's.                                      *)
LEMMA AsksOfOthers ==
  ASSUME UNCHANGED results, workers' = workers \/ \E v : v.tag # "ask" /\ workers' = workers \cup {v}
  PROVE  Asking' = Asking /\ \A a, c \in Nat : Calls(a, c)' => Calls(a, c)
<1>1. CASE workers' = workers
  BY <1>1 DEF Asking, Calls
<1>2. CASE \E v : v.tag # "ask" /\ workers' = workers \cup {v}
  BY <1>2 DEF Asking, Calls
<1> QED
  BY <1>1, <1>2

LEMMA AskStep ==
  ASSUME WindowTypes, WindowTypes', OneConnect, AskInv, [ClientNext]_clientVars
  PROVE  AskInv'
<1>1. CASE DoConnect
  <2>1. \A c : [tag |-> "connect", at |-> "health", copy |-> 0].tag # "ask"
    OBVIOUS
  <2>2. Asking' = Asking /\ \A a, c \in Nat : Calls(a, c)' => Calls(a, c)
    BY <1>1, <2>1, AsksOfOthers DEF DoConnect, RunInThread
  <2>3. /\ UNCHANGED <<conn, disconnectBtn, askBtn, runBtn, pending, key, excused>>
        /\ clicks'.ask = clicks.ask
    BY <1>1, Clicked DEF DoConnect
  <2> QED
    BY <2>2, <2>3, AsksUntouched
<1>2. CASE DoRun
  <2>1. Asking' = Asking /\ \A a, c \in Nat : Calls(a, c)' => Calls(a, c)
    <3>1. PICK v : v = [tag |-> "execute", at |-> "check", ask |-> pending.ask, conn |-> 0]
      OBVIOUS
    <3>2. v.tag # "ask" /\ (workers' = workers \/ workers' = workers \cup {v}) /\ UNCHANGED results
      BY <1>2, <3>1 DEF DoRun, RunInThread
    <3> QED
      BY <3>2, AsksOfOthers
  <2>2. /\ UNCHANGED <<conn, disconnectBtn, askBtn, pending, key, excused>>
        /\ clicks'.ask = clicks.ask /\ (runBtn' => runBtn)
    BY <1>2, Clicked DEF DoRun
  <2> QED
    BY <2>1, <2>2, AsksUntouched
<1>3. CASE DoCancel \/ EditIdentity \/ SettingsWritten \/ SaveKey \/ UNCHANGED clientVars
  <2>1. UNCHANGED <<conn, disconnectBtn, workers, results, excused>> /\ clicks'.ask = clicks.ask
    BY <1>3, Clicked DEF DoCancel, EditIdentity, SettingsWritten, SaveKey, clientVars, buttons
  <2>2. Asking' = Asking /\ \A a, c \in Nat : Calls(a, c)' => Calls(a, c)
    BY <2>1, AsksOfOthers
  <2>3. runBtn' => runBtn /\ pending' = pending
    BY <1>3 DEF DoCancel, EditIdentity, SettingsWritten, SaveKey, clientVars, buttons
  <2>4. disconnectBtn => conn # 0
    BY DEF OneConnect, Offline, Online, OnTheWay
  <2>5. /\ key => key'
        /\ askBtn' => askBtn \/ key'
        /\ disconnectBtn => (askBtn' = key') \/ (key' = key /\ askBtn' = askBtn)
    <3>1. CASE DoCancel \/ EditIdentity \/ UNCHANGED clientVars
      BY <3>1 DEF DoCancel, EditIdentity, clientVars, buttons
    <3>2. CASE SettingsWritten \/ SaveKey
      <4>1. key' = key \/ key' = TRUE
        BY <3>2 DEF SettingsWritten, SaveKey
      <4>2. IF conn # 0 THEN askBtn' = key' ELSE askBtn' = askBtn
        BY <3>2 DEF SettingsWritten, SaveKey, Refresh
      <4>3. key => key'
        BY <4>1
      <4> QED
        BY <2>4, <4>2, <4>3
    <3> QED
      BY <1>3, <3>1, <3>2
  <2> QED
    BY <2>1, <2>2, <2>3, <2>5, AsksUntouched
<1>4. CASE DoDisconnect
  <2>1. Asking' = Asking /\ \A a, c \in Nat : Calls(a, c)' => Calls(a, c)
    BY <1>4, AsksOfOthers DEF DoDisconnect
  <2>2. /\ excused' = excused \cup Asking /\ runBtn' = FALSE /\ disconnectBtn' = FALSE
        /\ askBtn' = FALSE /\ UNCHANGED <<key, clicks>>
    BY <1>4 DEF DoDisconnect, DropPlan
  <2>3. LastOrExcused' /\ RunIsTheLastAnswer'
    BY <2>1, <2>2, AsksStay DEF AskInv
  <2>4. AskNeedsKey' /\ AskReturns'
    BY <2>1, <2>2, ButtonStays DEF AskInv
  <2> QED
    BY <2>3, <2>4 DEF AskInv
<1>5. CASE DoAsk
  <2>1. PICK v : v = [tag |-> "ask", at |-> "check", ask |-> clicks.ask + 1, conn |-> 0]
    OBVIOUS
  <2>2. v.tag = "ask" /\ v.at = "check" /\ v.ask = clicks.ask + 1
    BY <2>1
  <2>3. /\ askBtn /\ workers' = workers \cup {v} /\ excused' = excused \cup Asking
        /\ runBtn' = FALSE /\ askBtn' = FALSE /\ clicks'.ask = clicks.ask + 1
        /\ UNCHANGED <<conn, disconnectBtn, results, key>>
    BY <1>5, <2>1, Clicked DEF DoAsk, RunInThread
  <2>4. Asking' = Asking \cup {clicks'.ask}
    <3>1. ASSUME NEW a PROVE a \in Asking' <=> a \in Asking \cup {clicks'.ask}
      BY <2>2, <2>3 DEF Asking
    <3> QED
      BY <3>1
  <2>5. \A a, c \in Nat : Calls(a, c)' => Calls(a, c)
    BY <2>2, <2>3 DEF Calls
  <2>6. LastOrExcused' /\ RunIsTheLastAnswer'
    BY <2>3, <2>4, <2>5, AsksStay DEF AskInv
  <2>7. AskNeedsKey' /\ AskReturns'
    BY <2>3, <2>4, ButtonStays DEF AskInv
  <2> QED
    BY <2>6, <2>7 DEF AskInv
<1> QED
  BY <1>1, <1>2, <1>3, <1>4, <1>5, AsksOfCalls, AsksOfConnects, AsksDrain DEF ClientNext

LEMMA ClientInvInit == ClientInit => ClientInv
<1> SUFFICES ASSUME ClientInit PROVE ClientInv
  OBVIOUS
<1>1. workers = {} /\ results = <<>> /\ DOMAIN results = {} /\ Len(results) = 0
  BY DEF ClientInit
<1>2. Asking = {} /\ (\A a, c : ~ Calls(a, c)) /\ Connecting = {} /\ Answered = {}
  BY <1>1 DEF Asking, Calls, Connecting, Answered
<1>3. WindowTypes
  BY ClientTypesInit
<1>4. OneConnect
  BY <1>2 DEF ClientInit, OneConnect, Offline
<1>5. AskNeedsKey /\ AskReturns /\ LastOrExcused /\ RunIsTheLastAnswer
  BY <1>2 DEF ClientInit, AskNeedsKey, AskReturns, LastOrExcused, RunIsTheLastAnswer
<1> QED
  BY <1>3, <1>4, <1>5 DEF ClientInv

LEMMA ClientInvStep == ClientInv /\ [ClientNext]_clientVars => ClientInv'
  BY TypesStep, ConnectStep, AskStep DEF ClientInv, AskInv

(* do_ask, do_disconnect, controller.ask and handle_result (ui.py): for any *)
(* number of questions, connects and threads, an enabled Run button offers *)
(* the plan of the last question, made on the open connection, or of a     *)
(* question that was in flight at a disconnect or at a later question.     *)
THEOREM RunOffersTheLastAnswer == ClientSpec => []RunIsTheLastAnswer
<1>1. ClientInv => RunIsTheLastAnswer
  BY DEF ClientInv
<1> QED
  BY ClientInvInit, ClientInvStep, <1>1, PTL DEF ClientSpec

(* handle_result, do_connect, do_disconnect and refresh_identity_display   *)
(* (ui.py): whenever no thread runs and the queue is empty the status and  *)
(* the buttons are those of the controller's host, and a connected user    *)
(* with a key can ask.                                                     *)
THEOREM ButtonsTellTheTruth == ClientSpec => []WindowAgrees
<1>1. ClientInv => WindowAgrees
  <2> SUFFICES ASSUME ClientInv, workers = {}, results = <<>>
               PROVE  /\ (status = "Connected") = (conn # 0) /\ disconnectBtn = (conn # 0)
                      /\ connectBtn = (conn = 0)
                      /\ (conn # 0 /\ key => askBtn) /\ (askBtn => key)
    BY DEF WindowAgrees
  <2>1. Asking = {} /\ Connecting = {} /\ Answered = {}
    BY DEF Asking, Connecting, Answered
  <2>2. Offline \/ Online
    BY <2>1 DEF ClientInv, OneConnect, OnTheWay
  <2>3. connectBtn \in BOOLEAN /\ disconnectBtn \in BOOLEAN
    BY DEF ClientInv, WindowTypes
  <2>4. CASE Offline
    BY <2>1, <2>3, <2>4 DEF Offline, ClientInv, AskNeedsKey
  <2>5. CASE Online
    BY <2>1, <2>3, <2>5 DEF Online, ClientInv, AskNeedsKey, AskReturns
  <2> QED
    BY <2>2, <2>4, <2>5
<1> QED
  BY ClientInvInit, ClientInvStep, <1>1, PTL DEF ClientSpec

-----------------------------------------------------------------------------
(* Sums.  The order in which a sum takes its summands does not matter.     *)

Plus(x, y) == x + y
Chosen(S) == CHOOSE x \in S : TRUE
Sums == INSTANCE FoldFacts WITH Op <- Plus, Base <- 0, Pick <- Chosen

Total(f, S) == Sums!Fold(f, S)

LEMMA ChosenPicks == ASSUME NEW S PROVE Sums!Picks(S)
  BY DEF Sums!Picks, Chosen

LEMMA TotalOfNone == ASSUME NEW f PROVE Total(f, {}) = 0
  BY Sums!FoldOfNone DEF Total

LEMMA TotalTakesOne ==
  ASSUME NEW f, NEW S, IsFiniteSet(S), S # {}
  PROVE  /\ Total(f, S) = f[Chosen(S)] + Total(f, S \ {Chosen(S)})
         /\ Chosen(S) \in S
<1>1. Sums!Picks(S)
  BY ChosenPicks
<1>2. Sums!Fold(f, S) = f[Chosen(S)] + Sums!Fold(f, S \ {Chosen(S)})
  <2>1. Sums!IsFiniteSet(S)
    BY DEF IsFiniteSet, Sums!IsFiniteSet
  <2> QED
    BY <1>1, <2>1, Sums!FoldUnfolds DEF Plus
<1>3. Chosen(S) \in S
  BY DEF Chosen
<1> QED
  BY <1>2, <1>3 DEF Total

LEMMA TotalTakesAny ==
  ASSUME NEW f, NEW S, IsFiniteSet(S), \A x \in S : f[x] \in Int
  PROVE  /\ Total(f, S) \in Int
         /\ \A x \in S : Total(f, S) = f[x] + Total(f, S \ {x})
<1> DEFINE Fine(s) == /\ Total(f, s) \in Int
                      /\ \A x \in s : Total(f, s) = f[x] + Total(f, s \ {x}) /\ Total(f, s \ {x}) \in Int
           Reached == {n \in Nat : \A s \in SUBSET S : Cardinality(s) = n => Fine(s)}
<1>1. \A s \in SUBSET S : IsFiniteSet(s) /\ Cardinality(s) \in Nat /\ (Cardinality(s) = 0 <=> s = {})
  BY FS_Subset, FS_CardinalityType, FS_EmptySet
<1>2. \A s \in SUBSET S : \A x \in s : s \ {x} \in SUBSET S /\ Cardinality(s \ {x}) = Cardinality(s) - 1
  BY <1>1, FS_RemoveElement
<1>3. 0 \in Reached
  BY <1>1, TotalOfNone
<1>4. ASSUME NEW n \in Nat, n \in Reached PROVE n + 1 \in Reached
  <2>1. ASSUME NEW s \in SUBSET S, Cardinality(s) = n + 1 PROVE Fine(s)
    <3>1. s # {} /\ IsFiniteSet(s)
      BY <1>1, <2>1
    <3>2. PICK p \in s : Total(f, s) = f[p] + Total(f, s \ {p})
      BY <3>1, TotalTakesOne
    <3>3. \A x \in s : Fine(s \ {x}) /\ f[x] \in Int
      <4>1. ASSUME NEW x \in s PROVE Fine(s \ {x})
        <5>1. s \ {x} \in SUBSET S /\ Cardinality(s \ {x}) = n
          BY <1>2, <2>1
        <5> HIDE DEF Fine
        <5> QED
          BY <1>4, <5>1
      <4> QED
        BY <4>1
    <3>4. ASSUME NEW x \in s, x # p PROVE Total(f, s) = f[x] + Total(f, s \ {x})
      <4>1. PICK rest : rest = (s \ {p}) \ {x}
        OBVIOUS
      <4>2. rest = (s \ {x}) \ {p} /\ x \in s \ {p} /\ p \in s \ {x}
        BY <3>4, <4>1
      <4>3. /\ Total(f, s \ {p}) = f[x] + Total(f, rest) /\ Total(f, s \ {x}) = f[p] + Total(f, rest)
            /\ Total(f, rest) \in Int
        BY <3>3, <4>1, <4>2
      <4>4. f[x] \in Int /\ f[p] \in Int
        BY <3>3
      <4> QED
        BY <3>2, <4>3, <4>4
    <3>5. \A x \in s : Total(f, s) = f[x] + Total(f, s \ {x})
      BY <3>2, <3>4
    <3>6. \A x \in s : Total(f, s \ {x}) \in Int
      BY <3>3
    <3>7. Total(f, s) \in Int
      BY <3>2, <3>3, <3>6
    <3> QED
      BY <3>5, <3>6, <3>7
  <2> HIDE DEF Fine
  <2> QED
    BY <2>1
<1> HIDE DEF Reached, Fine
<1>5. Cardinality(S) \in Reached
  BY <1>1, <1>3, <1>4, Sums!NatSetInduction
<1>6. Fine(S)
  BY <1>5 DEF Reached
<1> QED
  BY <1>6 DEF Fine

LEMMA TotalLooksAtMembers ==
  ASSUME NEW S, IsFiniteSet(S), NEW f, NEW g, \A x \in S : f[x] = g[x]
  PROVE  Total(f, S) = Total(g, S)
<1>1. Sums!Picks(S)
  BY ChosenPicks
<1>2. Sums!IsFiniteSet(S)
  BY DEF IsFiniteSet, Sums!IsFiniteSet
<1> QED
  BY <1>1, <1>2, Sums!FoldLooksAtMembers DEF Total

LEMMA TotalOfPlace ==
  ASSUME NEW f, NEW x, f[x] \in Int
  PROVE  Total(f, {x}) = f[x]
<1>1. IsFiniteSet({x}) /\ {x} \ {x} = {}
  BY FS_Singleton
<1> QED
  BY <1>1, TotalTakesAny, TotalOfNone

(* A sum after one summand has been put in.                                *)
LEMMA TotalOfUpdate ==
  ASSUME NEW S, IsFiniteSet(S), NEW f, NEW g, NEW t, t \notin S, g[t] \in Int,
         \A x \in S : f[x] \in Int /\ g[x] = f[x]
  PROVE  Total(g, S \cup {t}) = g[t] + Total(f, S)
<1>1. IsFiniteSet(S \cup {t}) /\ (S \cup {t}) \ {t} = S
  BY FS_AddElement
<1>2. \A x \in S \cup {t} : g[x] \in Int
  OBVIOUS
<1>3. Total(g, S \cup {t}) = g[t] + Total(g, S)
  BY <1>1, <1>2, TotalTakesAny
<1> QED
  BY <1>3, TotalLooksAtMembers

-----------------------------------------------------------------------------
(* Sizes.  A position is never more than its limit, its sector never more  *)
(* than that of the sector, when they are taken in any order.              *)

LEMMA SumIsTotal ==
  ASSUME NEW sizes, NEW ts PROVE SumOf(sizes, ts) = Total(sizes, ts)
  BY DEF SumOf, MapThenSumSet, MapThenFoldSet, Total, Sums!Fold, Sums!MapThenFoldSet, Plus, Chosen

LEMMA ShareOfTop ==
  ASSUME NEW c \in Nat, NEW s \in Nat, NEW top \in Nat, s <= top, top > 0
  PROVE  (c * s) \div top \in Int /\ (c * s) \div top <= c
<1>1. c * s <= c * top
  OBVIOUS
<1>2. c * s \in Nat /\ c * top \in Nat
  OBVIOUS
<1> QED
  BY <1>1, <1>2

Bids(T) == [ticker : T, wanted : Int]
InSector(sizes, sector) == {u \in DOMAIN sizes : SectorOf[u] = sector}
Held(sizes, ts) ==
  /\ DOMAIN sizes \subseteq ts
  /\ \A t \in DOMAIN sizes : sizes[t] \in Nat /\ sizes[t] <= MaxPosition /\ sizes[t] >= MinPosition
  /\ \A sector : Total(sizes, InSector(sizes, sector)) <= MaxSector

LEMMA PositionIsHeld ==
  ASSUME NEW sizes, NEW ts, IsFiniteSet(ts), Held(sizes, ts),
         NEW T, NEW bid \in Bids(T), bid.ticker \notin ts, bid.wanted <= MaxPosition
  PROVE  Held(WithPosition(sizes, bid), ts \cup {bid.ticker})
<1> DEFINE t     == bid.ticker
           own   == InSector(sizes, SectorOf[t])
           left  == Left(sizes, t)
           value == IF bid.wanted > left THEN left ELSE bid.wanted
           new   == [u \in DOMAIN sizes \cup {t} |-> IF u = t THEN value ELSE sizes[u]]
<1>1. /\ MinPosition \in Nat /\ MaxPosition \in Nat /\ MaxSector \in Nat
      /\ bid.wanted \in Int /\ t \notin DOMAIN sizes
  BY MomentumAssumption DEF Bids, Held
<1>2. \A sector : IsFiniteSet(InSector(sizes, sector)) /\ InSector(sizes, sector) \subseteq DOMAIN sizes
  <2>1. ASSUME NEW sector PROVE InSector(sizes, sector) \subseteq ts
    BY DEF InSector, Held
  <2> QED
    BY <2>1, FS_Subset DEF InSector
<1>3. \A u \in DOMAIN sizes : sizes[u] \in Int
  BY DEF Held
<1>4. Total(sizes, own) \in Int /\ Total(sizes, own) <= MaxSector
  <2>1. \A u \in own : sizes[u] \in Int
    BY <1>2, <1>3
  <2>2. Total(sizes, own) \in Int
    BY <1>2, <2>1, TotalTakesAny
  <2> QED
    BY <2>2 DEF Held
<1>5. left = MaxSector - Total(sizes, own)
  <2>1. Left(sizes, t) = IF Total(sizes, own) > MaxSector THEN 0 ELSE MaxSector - Total(sizes, own)
    BY SumIsTotal DEF Left, InSector
  <2> QED
    BY <1>1, <1>4, <2>1
<1> HIDE DEF left, own
<1>6. value \in Int /\ value <= MaxPosition /\ value <= MaxSector - Total(sizes, own)
  BY <1>1, <1>4, <1>5
<1>7. CASE ~Priced(t) \/ value < MinPosition
  <2>1. WithPosition(sizes, bid) = sizes
    BY <1>7 DEF WithPosition, left
  <2> QED
    BY <2>1 DEF Held
<1>8. CASE Priced(t) /\ ~(value < MinPosition)
  <2>1. WithPosition(sizes, bid) = new
    BY <1>8 DEF WithPosition, left
  <2> HIDE DEF value
  <2>2. /\ DOMAIN new = DOMAIN sizes \cup {t} /\ new[t] = value
        /\ \A u \in DOMAIN sizes : new[u] = sizes[u]
    BY <1>1
  <2>3. value \in Nat /\ value >= MinPosition
    BY <1>1, <1>6, <1>8
  <2> HIDE DEF new
  <2>4. ASSUME NEW sector PROVE Total(new, InSector(new, sector)) <= MaxSector
    <3> DEFINE old == InSector(sizes, sector)
    <3>1. /\ IsFiniteSet(old) /\ \A u \in old : sizes[u] \in Int /\ new[u] = sizes[u]
          /\ t \notin old
      BY <1>1, <1>2, <1>3, <2>2
    <3>2. CASE SectorOf[t] = sector
      <4>1. InSector(new, sector) = old \cup {t} /\ old = own
        BY <2>2, <3>2 DEF InSector, own
      <4> HIDE DEF old
      <4>2. Total(new, old \cup {t}) = new[t] + Total(sizes, old)
        BY <1>6, <2>2, <3>1, TotalOfUpdate
      <4> QED
        BY <1>1, <1>4, <1>6, <2>2, <4>1, <4>2
    <3>3. CASE SectorOf[t] # sector
      <4>1. InSector(new, sector) = old
        BY <2>2, <3>3 DEF InSector
      <4> HIDE DEF old
      <4>2. Total(new, old) = Total(sizes, old)
        BY <3>1, TotalLooksAtMembers
      <4> QED
        BY <4>1, <4>2 DEF Held, old
    <3> QED
      BY <3>2, <3>3
  <2>5. DOMAIN new \subseteq ts \cup {t}
    BY <2>2 DEF Held
  <2>6. \A u \in DOMAIN new : new[u] \in Nat /\ new[u] <= MaxPosition /\ new[u] >= MinPosition
    BY <1>6, <2>2, <2>3 DEF Held
  <2> QED
    BY <2>1, <2>4, <2>5, <2>6 DEF Held
<1> QED
  BY <1>7, <1>8

NextPosition(bid, sizes) == WithPosition(sizes, bid)
Top(S) == Max(S)
Sizing == INSTANCE FoldFacts WITH Op <- NextPosition, Base <- <<>>, Pick <- Top

LEMMA TopIsLatest == Sizing!Latest
<1>1. ASSUME NEW n \in Nat, NEW S \in SUBSET (1..n), S # {}
      PROVE  Max(S) \in S /\ \A i \in S : i <= Max(S)
  <2>1. PICK x \in S : \A y \in S : y <= x
    BY <1>1, Sizing!LastPlace
  <2> QED
    BY <2>1 DEF Max
<1> QED
  BY <1>1 DEF Sizing!Latest, Top

Portfolio(bids) == FoldLeft(WithPosition, <<>>, bids)

LEMMA PortfolioFolds ==
  ASSUME NEW bids
  PROVE  Portfolio(bids) = Sizing!Fold(bids, DOMAIN bids)
  BY DEF Portfolio, FoldLeft, MapThenFoldSet, Sizing!Fold, Sizing!MapThenFoldSet, NextPosition, Top

LEMMA PortfolioOneMore ==
  ASSUME NEW T, NEW bids \in Seq(T), NEW bid \in T
  PROVE  Portfolio(Append(bids, bid)) = WithPosition(Portfolio(bids), bid)
  BY PortfolioFolds, TopIsLatest, Sizing!FoldOfAppend DEF NextPosition

LEMMA NothingIsHeld == Portfolio(<<>>) = <<>> /\ Held(<<>>, {})
<1>1. Portfolio(<<>>) = <<>>
  BY PortfolioFolds, Sizing!FoldOfEmpty
<1>2. DOMAIN <<>> = {}
  OBVIOUS
<1>3. \A sector : InSector(<<>>, sector) = {}
  BY <1>2 DEF InSector
<1>4. MaxSector \in Nat
  BY MomentumAssumption
<1> QED
  BY <1>1, <1>2, <1>3, <1>4, TotalOfNone DEF Held

LEMMA PortfolioIsHeld ==
  ASSUME NEW T, IsFiniteSet(T), NEW bids \in Seq(Bids(T)),
         \A i, j \in DOMAIN bids : i # j => bids[i].ticker # bids[j].ticker,
         \A i \in DOMAIN bids : bids[i].wanted <= MaxPosition
  PROVE  Held(Portfolio(bids), T)
<1> DEFINE first(n)  == SubSeq(bids, 1, n)
           among(n)  == {bids[i].ticker : i \in 1..n}
           Reached   == {n \in Nat : n <= Len(bids) => Held(Portfolio(first(n)), among(n))}
<1>1. 0 \in Reached
  <2>1. first(0) = <<>> /\ among(0) = {}
    OBVIOUS
  <2> QED
    BY <2>1, NothingIsHeld
<1>2. ASSUME NEW n \in Nat, n \in Reached PROVE n + 1 \in Reached
  <2>1. SUFFICES ASSUME n + 1 <= Len(bids) PROVE Held(Portfolio(first(n + 1)), among(n + 1))
    BY <1>2
  <2> DEFINE bid == bids[n + 1]
  <2>2. /\ n + 1 \in DOMAIN bids /\ 1..(n + 1) \subseteq DOMAIN bids /\ bid \in Bids(T)
        /\ first(n) \in Seq(Bids(T)) /\ first(n + 1) = Append(first(n), bid)
    <3> DEFINE B == Bids(T)
    <3>1. bids \in Seq(B)
      OBVIOUS
    <3> HIDE DEF B
    <3>2. n + 1 \in DOMAIN bids /\ 1..(n + 1) \subseteq DOMAIN bids /\ bid \in B
      BY <2>1, <3>1
    <3>3. first(n) \in Seq(B) /\ first(n + 1) = Append(first(n), bid)
      BY <2>1, <3>1
    <3> QED
      BY <3>2, <3>3 DEF B
  <2>3. bid.ticker \notin among(n) /\ among(n + 1) = among(n) \cup {bid.ticker}
    BY <2>2
  <2>4. IsFiniteSet(among(n))
    <3>1. among(n) \subseteq T
      BY <2>2 DEF Bids
    <3> QED
      BY <3>1, FS_Subset
  <2>5. Held(Portfolio(first(n)), among(n))
    BY <1>2, <2>1
  <2>6. Portfolio(first(n + 1)) = WithPosition(Portfolio(first(n)), bid) /\ bid.wanted <= MaxPosition
    BY <2>2, PortfolioOneMore
  <2> HIDE DEF first, among, bid
  <2> QED
    BY <2>2, <2>3, <2>4, <2>5, <2>6, PositionIsHeld
<1> HIDE DEF Reached
<1>3. Len(bids) \in Reached
  BY <1>1, <1>2, Sums!NatSetInduction
<1>4. first(Len(bids)) = bids
  OBVIOUS
<1>5. among(Len(bids)) \subseteq T
  <2>1. \A i \in 1..Len(bids) : bids[i] \in Bids(T)
    OBVIOUS
  <2> QED
    BY <2>1 DEF Bids
<1>6. Len(bids) \in Nat
  OBVIOUS
<1>7. Held(Portfolio(first(Len(bids))), among(Len(bids)))
  BY <1>3, <1>6 DEF Reached
<1> QED
  <2> HIDE DEF first, among
  <2> QED
    BY <1>4, <1>5, <1>7 DEF Held
-----------------------------------------------------------------------------
(* Signals.  At most MaxPositions of the scores are bought.                *)

Open(i)   == ~scores[i].take /\ scores[i].passes
Bought(n) == {i \in 1..n : Buys(i)}

LEMMA BuysAreOpen ==
  ASSUME NEW i
  PROVE  Buys(i) <=> /\ Open(i)
                     /\ Cardinality({j \in 1..(i - 1) : Open(j)}) < MaxPositions
  BY DEF Buys, Open

LEMMA FewAreBought ==
  ASSUME NEW n \in Nat
  PROVE  IsFiniteSet(Bought(n)) /\ Cardinality(Bought(n)) <= MaxPositions
<1>1. MaxPositions \in Nat /\ Bought(n) \in SUBSET (1..n)
  BY MomentumAssumption DEF Bought
<1>2. IsFiniteSet(Bought(n))
  BY <1>1, FS_Interval, FS_Subset
<1>3. CASE Bought(n) = {}
  BY <1>1, <1>2, <1>3, FS_EmptySet
<1>4. CASE Bought(n) # {}
  <2>1. PICK last \in Bought(n) : \A i \in Bought(n) : i <= last
    BY <1>1, <1>4, Sums!LastPlace
  <2> DEFINE before == {j \in 1..(last - 1) : Open(j)}
  <2>2. last \in 1..n /\ Cardinality(before) < MaxPositions
    BY <2>1, BuysAreOpen DEF Bought
  <2>3. IsFiniteSet(before) /\ Cardinality(before) \in Nat
    <3>1. before \subseteq 1..(last - 1) /\ IsFiniteSet(1..(last - 1))
      BY <2>2, FS_Interval
    <3> QED
      BY <3>1, FS_Subset, FS_CardinalityType
  <2>4. Bought(n) \subseteq before \cup {last}
    <3>1. SUFFICES ASSUME NEW i \in Bought(n), i # last PROVE i \in before
      OBVIOUS
    <3>2. i \in 1..(last - 1)
      BY <1>1, <2>1, <2>2, <3>1
    <3>3. Open(i)
      BY BuysAreOpen DEF Bought
    <3> QED
      BY <3>2, <3>3
  <2> HIDE DEF before
  <2>5. IsFiniteSet(before \cup {last}) /\ Cardinality(before \cup {last}) <= Cardinality(before) + 1
    BY <2>3, FS_AddElement
  <2>6. Cardinality(Bought(n)) <= Cardinality(before \cup {last}) /\ Cardinality(Bought(n)) \in Nat
    BY <1>2, <2>4, <2>5, FS_Subset, FS_CardinalityType
  <2> QED
    BY <1>1, <1>2, <2>2, <2>3, <2>5, <2>6, FS_CardinalityType
<1> QED
  BY <1>3, <1>4

-----------------------------------------------------------------------------
(* The inductive invariant: what the scores are, and what the signals that *)
(* run() returned say of them.                                             *)

ScoresOK == /\ scores \in Seq(ToSet(scores))
            /\ \A i \in DOMAIN scores : scores[i].composite \in Int

Strong == {t \in DOMAIN signals : signals[t] > 0}

SignalsOK ==
  /\ \A t \in DOMAIN signals : signals[t] \in Int
  /\ IsFiniteSet(Strong) /\ Cardinality(Strong) <= MaxPositions
  /\ Strong # {} => vix < 35
  /\ \A t \in Strong : \E i \in DOMAIN scores :
       scores[i].ticker = t /\ scores[i].passes /\ ~scores[i].take

StrategyInv == /\ ScoresOK /\ vix \in Int
               /\ stage = "returned" => SignalsOK
               /\ EnforcedLimits

LEMMA InsertKeepsSeq ==
  ASSUME NEW T, NEW s \in Seq(T), NEW e, NEW k \in 1..(Len(s) + 1)
  PROVE  /\ InsertAt(s, k, e) \in Seq(ToSet(InsertAt(s, k, e)))
         /\ \A i \in DOMAIN InsertAt(s, k, e) :
              InsertAt(s, k, e)[i] = e \/ \E j \in DOMAIN s : InsertAt(s, k, e)[i] = s[j]
<1> DEFINE a == SubSeq(s, 1, k - 1)
           b == <<e>>
           c == SubSeq(s, k, Len(s))
           r == InsertAt(s, k, e)
           U == T \cup {e}
<1>1. a \in Seq(U) /\ b \in Seq(U) /\ c \in Seq(U)
  OBVIOUS
<1>2. /\ Len(a) = k - 1 /\ \A i \in 1..Len(a) : i \in DOMAIN s /\ a[i] = s[i]
  OBVIOUS
<1>3. /\ \A i \in 1..Len(c) : c[i] \in {s[j] : j \in DOMAIN s}
  OBVIOUS
<1>4. b[1] = e /\ Len(b) = 1
  OBVIOUS
<1> HIDE DEF a, b, c, U
<1>5. r = (a \o b) \o c
  BY DEF InsertAt, a, b, c
<1> DEFINE d == a \o b
<1>6. /\ d \in Seq(U) /\ Len(d) = Len(a) + Len(b)
      /\ \A i \in 1..(Len(a) + Len(b)) : d[i] = IF i <= Len(a) THEN a[i] ELSE b[i - Len(a)]
  BY <1>1, ConcatProperties
<1> HIDE DEF d, r
<1>7. /\ d \o c \in Seq(U) /\ Len(d \o c) = Len(d) + Len(c)
      /\ \A i \in 1..(Len(d) + Len(c)) : (d \o c)[i] = IF i <= Len(d) THEN d[i] ELSE c[i - Len(d)]
  <2>1. d \in Seq(U) /\ c \in Seq(U)
    BY <1>1, <1>6
  <2> QED
    BY <2>1, ConcatProperties
<1>8. r = d \o c
  BY <1>5 DEF d
<1>9. ASSUME NEW i \in DOMAIN r PROVE r[i] = e \/ \E j \in DOMAIN s : r[i] = s[j]
  <2>0. i \in 1..Len(r) /\ Len(d) \in Nat /\ Len(a) \in Nat /\ Len(c) \in Nat
    BY <1>1, <1>6, <1>7, <1>8
  <2>1. CASE i <= Len(a)
    <3>1. i <= Len(d) /\ i \in 1..Len(a) /\ i \in 1..(Len(d) + Len(c))
      BY <1>4, <1>6, <1>7, <1>8, <2>0, <2>1
    <3>2. r[i] = d[i]
      BY <1>7, <1>8, <3>1
    <3>3. d[i] = a[i]
      BY <1>4, <1>6, <2>0, <3>1
    <3> QED
      BY <1>2, <3>1, <3>2, <3>3
  <2>2. CASE i = Len(a) + 1
    BY <1>4, <1>6, <1>7, <1>8, <2>0, <2>2
  <2>3. CASE i > Len(d)
    <3>1. r[i] = c[i - Len(d)] /\ i - Len(d) \in 1..Len(c)
      BY <1>7, <1>8, <2>0, <2>3
    <3> QED
      BY <1>3, <3>1
  <2> QED
    BY <1>4, <1>6, <2>0, <2>1, <2>2, <2>3
<1>10. r \in Seq(ToSet(r))
  <2>1. r \in Seq(U)
    BY <1>7, <1>8
  <2>2. r = [i \in 1..Len(r) |-> r[i]] /\ Len(r) \in Nat /\ DOMAIN r = 1..Len(r)
    BY <2>1
  <2>3. \A i \in 1..Len(r) : r[i] \in ToSet(r)
    BY <2>2 DEF ToSet
  <2> QED
    BY <2>2, <2>3, SeqDef
<1> QED
  BY <1>9, <1>10 DEF r

LEMMA ScoresGrow ==
  ASSUME ScoresOK, ScoreStocks
  PROVE  ScoresOK'
<1>1. scores \in Seq(ToSet(scores))
  BY DEF ScoresOK
<1>2. PICK c \in Composites :
        \E e : e.composite = c /\ scores' = InsertAt(scores, Ahead(c) + 1, e)
  BY DEF ScoreStocks
<1>3. PICK e : e.composite = c /\ scores' = InsertAt(scores, Ahead(c) + 1, e)
  BY <1>2
<1>4. c \in Int
  BY MomentumAssumption
<1>5. Ahead(c) + 1 \in 1..(Len(scores) + 1)
  <2> DEFINE ahead == {i \in DOMAIN scores : scores[i].composite >= c}
  <2>1. Len(scores) \in Nat /\ DOMAIN scores = 1..Len(scores)
    BY <1>1
  <2>2. IsFiniteSet(1..Len(scores)) /\ Cardinality(1..Len(scores)) = Len(scores)
    <3>1. PICK n \in Nat : n = Len(scores)
      BY <2>1
    <3>2. IsFiniteSet(1..n) /\ Cardinality(1..n) = n
      BY FS_Interval
    <3> QED
      BY <3>1, <3>2
  <2>3. ahead \subseteq 1..Len(scores)
    BY <2>1
  <2>4. Cardinality(ahead) \in Nat /\ Cardinality(ahead) <= Len(scores)
    BY <2>2, <2>3, FS_Subset, FS_CardinalityType
  <2> QED
    BY <2>1, <2>4 DEF Ahead
<1> DEFINE r == InsertAt(scores, Ahead(c) + 1, e)
<1>6. /\ r \in Seq(ToSet(r))
      /\ \A i \in DOMAIN r : r[i] = e \/ \E j \in DOMAIN scores : r[i] = scores[j]
  BY <1>1, <1>5, InsertKeepsSeq
<1>7. scores' = r
  BY <1>3
<1> HIDE DEF r
<1>8. \A i \in DOMAIN r : r[i].composite \in Int
  BY <1>4, <1>6, <1>3 DEF ScoresOK
<1> QED
  BY <1>6, <1>7, <1>8 DEF ScoresOK, ToSet

(* The place whose signal the dictionary of signals keeps for a ticker.    *)
Final(t) == CHOOSE k \in DOMAIN scores :
              /\ scores[k].ticker = t
              /\ \A m \in DOMAIN scores : scores[m].ticker = t => m <= k

LEMMA FinalExists ==
  ASSUME ScoresOK, NEW t \in {scores[i].ticker : i \in DOMAIN scores}
  PROVE  Final(t) \in DOMAIN scores /\ scores[Final(t)].ticker = t
<1> DEFINE places == {k \in DOMAIN scores : scores[k].ticker = t}
<1>1. Len(scores) \in Nat /\ DOMAIN scores = 1..Len(scores)
  BY DEF ScoresOK
<1>2. places # {} /\ places \in SUBSET (1..Len(scores))
  BY <1>1
<1>3. PICK k \in places : \A m \in places : m <= k
  BY <1>1, <1>2, Sums!LastPlace
<1> QED
  BY <1>3 DEF Final

LEMMA SignalsAreOfScores ==
  ASSUME StrategyInv, GenerateSignals
  PROVE  SignalsOK'
<1> DEFINE tickers == {scores[i].ticker : i \in DOMAIN scores}
           value(t) == IF Buys(Final(t)) THEN scores[Final(t)].composite * VixScale ELSE 0
<1>1. /\ signals' = [t \in tickers |-> value(t)]
      /\ UNCHANGED <<scores, vix>>
  BY DEF GenerateSignals, Final
<1>2. ScoresOK /\ vix \in Int
  BY DEF StrategyInv
<1>3. VixScale \in Int /\ (VixScale # 0 => vix < 35)
  BY <1>2 DEF VixScale
<1>4. ASSUME NEW t \in tickers
      PROVE  /\ Final(t) \in DOMAIN scores /\ scores[Final(t)].ticker = t
             /\ value(t) \in Int
             /\ value(t) > 0 => Buys(Final(t)) /\ vix < 35
  <2>1. Final(t) \in DOMAIN scores /\ scores[Final(t)].ticker = t
    BY <1>2, FinalExists
  <2>2. PICK c \in Int : c = scores[Final(t)].composite
    BY <1>2, <2>1 DEF ScoresOK
  <2>3. CASE Buys(Final(t))
    <3>1. value(t) = c * VixScale
      BY <2>2, <2>3
    <3>2. VixScale = 0 => c * VixScale = 0
      BY <2>2
    <3>3. c * VixScale \in Int
      BY <1>3, <2>2
    <3> QED
      BY <1>3, <2>1, <2>3, <3>1, <3>2, <3>3
  <2>4. CASE ~Buys(Final(t))
    BY <2>1, <2>4
  <2> QED
    BY <2>3, <2>4
<1> HIDE DEF value
<1>5. /\ DOMAIN signals' = tickers /\ \A t \in tickers : signals'[t] = value(t)
      /\ Strong' = {t \in tickers : value(t) > 0}
  BY <1>1 DEF Strong
<1>6. Len(scores) \in Nat /\ DOMAIN scores = 1..Len(scores)
  BY <1>2 DEF ScoresOK
<1> DEFINE bought == Bought(Len(scores))
<1>7. IsFiniteSet(bought) /\ Cardinality(bought) <= MaxPositions
  BY <1>6, FewAreBought
<1>8. \A t \in Strong' : Final(t) \in bought /\ scores[Final(t)].ticker = t
  BY <1>4, <1>5, <1>6 DEF Bought
<1>9. IsFiniteSet(Strong') /\ Cardinality(Strong') <= MaxPositions
  <2> DEFINE f == [t \in Strong' |-> Final(t)]
  <2> HIDE DEF bought
  <2>1. f \in Injection(Strong', bought)
    BY <1>8 DEF Injection, IsInjective
  <2>2. IsFiniteSet(Strong') /\ Cardinality(Strong') <= Cardinality(bought)
    BY <1>7, <2>1, FS_Injection
  <2>3. MaxPositions \in Nat
    BY MomentumAssumption
  <2> QED
    BY <1>7, <2>2, <2>3, FS_CardinalityType
<1>10. ASSUME NEW t \in Strong'
       PROVE  \E i \in DOMAIN scores :
                scores[i].ticker = t /\ scores[i].passes /\ ~scores[i].take
  BY <1>4, <1>5, BuysAreOpen DEF Open
<1>11. Strong' # {} => vix < 35
  BY <1>4, <1>5
<1> QED
  BY <1>1, <1>4, <1>5, <1>9, <1>10, <1>11 DEF SignalsOK

LEMMA SizedIsWithin ==
  ASSUME NEW t, NEW raw \in Nat, NEW top \in Nat, top > 0, signals[t] \in Nat, signals[t] <= top
  PROVE  Sized(t, raw, top) \in Int /\ Sized(t, raw, top) <= MaxPosition
<1>1. /\ MinPosition \in Nat /\ MaxPosition \in Nat /\ MinPosition <= MaxPosition
  BY MomentumAssumption
<1>2. \A v \in Int : Clip(v) \in Nat /\ Clip(v) <= MaxPosition
  BY <1>1 DEF Clip
<1>3. (raw * 3) \div 4 \in Int
  OBVIOUS
<1> DEFINE cut == IF t \in HighBeta THEN (raw * 3) \div 4 ELSE raw
<1>4. cut \in Int
  BY <1>3
<1>5. Sized(t, raw, top) = (Clip(cut) * signals[t]) \div top
  BY DEF Sized
<1> HIDE DEF cut
<1>6. Clip(cut) \in Nat /\ Clip(cut) <= MaxPosition
  BY <1>2, <1>4
<1>7. (Clip(cut) * signals[t]) \div top \in Int /\ (Clip(cut) * signals[t]) \div top <= Clip(cut)
  BY <1>6, ShareOfTop
<1> QED
  BY <1>1, <1>5, <1>6, <1>7

LEMMA ScaledDown ==
  ASSUME NEW total \in Int, NEW s \in Int, NEW limit \in Nat, s <= limit
  PROVE  LET factor == IF total > Available THEN <<Available, total>> ELSE <<1, 1>>
         IN /\ s * factor[1] <= limit * factor[2]
            /\ total * factor[1] <= Available * factor[2]
<1>1. Available \in Nat
  BY MomentumAssumption
<1>2. CASE total > Available
  <2>1. total \in Nat /\ Available <= total
    BY <1>1, <1>2
  <2>2. s * Available <= limit * Available
    BY <1>1
  <2>3. limit * Available <= limit * total
    BY <1>1, <2>1
  <2>4. s * Available <= limit * total
    <3>1. s * Available \in Int /\ limit * Available \in Int /\ limit * total \in Int
      BY <1>1
    <3> QED
      BY <2>2, <2>3, <3>1
  <2>5. total * Available <= Available * total
    BY <1>1
  <2> QED
    BY <1>2, <2>4, <2>5
<1>3. CASE ~(total > Available)
  BY <1>1, <1>3
<1> QED
  BY <1>2, <1>3

LEMMA PositionsAreWithin ==
  ASSUME StrategyInv, ComputePositions
  PROVE  EnforcedLimits'
<1>1. SignalsOK
  BY DEF StrategyInv, ComputePositions
<1> DEFINE sum(ts) == Total(positions', ts)
           held    == DOMAIN positions'
<1>2. PICK raw \in [Strong -> RawSizes], order \in SetToSeqs(Strong) :
        /\ \A i, j \in DOMAIN order : i < j => signals[order[i]] >= signals[order[j]]
        /\ positions' = FoldLeft(WithPosition, <<>>,
             [i \in DOMAIN order |->
                [ticker |-> order[i],
                 wanted |-> Sized(order[i], raw[order[i]], signals[order[1]])]])
  BY DEF ComputePositions, Strong
<1>3. /\ scale' = IF sum(held) > Available THEN <<Available, sum(held)>> ELSE <<1, 1>>
      /\ UNCHANGED <<scores, vix, signals>>
  BY SumIsTotal DEF ComputePositions
<1> DEFINE n    == Cardinality(Strong)
           bid(i) == [ticker |-> order[i], wanted |-> Sized(order[i], raw[order[i]], signals[order[1]])]
           bids == [i \in 1..n |-> bid(i)]
<1>4. /\ n \in Nat /\ order \in [1..n -> Strong]
      /\ \A i, j \in 1..n : i # j => order[i] # order[j]
  BY <1>1, <1>2, FS_CardinalityType DEF SetToSeqs, SignalsOK
<1>5. ASSUME NEW i \in 1..n PROVE bid(i) \in Bids(Strong) /\ bid(i).wanted <= MaxPosition
  <2>1. order[i] \in Strong /\ order[1] \in Strong /\ 1 \in 1..n
    BY <1>4
  <2>2. /\ signals[order[i]] \in Nat /\ signals[order[1]] \in Nat /\ signals[order[1]] > 0
    BY <1>1, <2>1 DEF SignalsOK, Strong
  <2>3. signals[order[i]] <= signals[order[1]]
    BY <1>2, <1>4, <2>1, <2>2
  <2>4. raw[order[i]] \in Nat
    BY <1>2, <2>1, MomentumAssumption
  <2>5. /\ Sized(order[i], raw[order[i]], signals[order[1]]) \in Int
        /\ Sized(order[i], raw[order[i]], signals[order[1]]) <= MaxPosition
    BY <2>2, <2>3, <2>4, SizedIsWithin
  <2> QED
    BY <2>1, <2>5 DEF Bids
<1>6. positions' = Portfolio(bids)
  BY <1>2, <1>4 DEF Portfolio
<1> HIDE DEF n
<1>7. Held(positions', Strong)
  <2>1. IsFiniteSet(Strong)
    BY <1>1 DEF SignalsOK
  <2>2. bids \in Seq(Bids(Strong)) /\ DOMAIN bids = 1..n
    <3> HIDE DEF bid
    <3> QED
      BY <1>4, <1>5
  <2>3. \A i \in DOMAIN bids : bids[i].wanted <= MaxPosition
    BY <1>5, <2>2
  <2>4. \A i, j \in DOMAIN bids : i # j => bids[i].ticker # bids[j].ticker
    BY <1>4, <2>2
  <2> HIDE DEF bids
  <2> QED
    BY <1>6, <2>1, <2>2, <2>3, <2>4, PortfolioIsHeld
<1> HIDE DEF bids
<1>8. /\ MaxPosition \in Nat /\ MaxSector \in Nat /\ MaxPositions \in Nat
  BY MomentumAssumption
<1>9. IsFiniteSet(Strong) /\ IsFiniteSet(held) /\ held \subseteq Strong
  BY <1>1, <1>7, FS_Subset DEF SignalsOK, Held
<1>10. \A ts \in SUBSET held : sum(ts) \in Int
  <2>1. ASSUME NEW ts \in SUBSET held PROVE sum(ts) \in Int
    <3>1. IsFiniteSet(ts) /\ \A t \in ts : positions'[t] \in Int
      BY <1>7, <1>9, FS_Subset DEF Held
    <3> QED
      BY <3>1, TotalTakesAny
  <2> QED
    BY <2>1
<1>11. Cardinality(held) <= MaxPositions
  <2>1. Cardinality(held) <= Cardinality(Strong) /\ Cardinality(Strong) <= MaxPositions
    BY <1>1, <1>9, FS_Subset DEF SignalsOK
  <2> QED
    BY <1>8, <1>9, <2>1, FS_CardinalityType
<1> DEFINE within(ts, limit) == sum(ts) * scale'[1] <= limit * scale'[2]
<1>12. ASSUME NEW ts \in SUBSET held, NEW limit \in Nat, sum(ts) <= limit PROVE within(ts, limit)
  <2>1. sum(ts) \in Int /\ sum(held) \in Int
    BY <1>10
  <2> HIDE DEF sum
  <2> QED
    BY <1>3, <1>12, <2>1, ScaledDown
<1>13. within(held, Available)
  <2>1. sum(held) \in Int /\ 0 \in Nat
    BY <1>10
  <2> HIDE DEF sum
  <2> QED
    BY <1>3, <2>1, ScaledDown
<1>14. ASSUME NEW t \in held PROVE within({t}, MaxPosition) /\ positions'[t] >= MinPosition
  <2>1. sum({t}) = positions'[t] /\ positions'[t] <= MaxPosition /\ positions'[t] >= MinPosition
    BY <1>7, TotalOfPlace DEF Held
  <2> HIDE DEF sum, within
  <2> QED
    BY <1>8, <1>12, <2>1
<1>15. ASSUME NEW t \in held PROVE within({u \in held : SectorOf[u] = SectorOf[t]}, MaxSector)
  <2>1. sum({u \in held : SectorOf[u] = SectorOf[t]}) <= MaxSector
    BY <1>7 DEF Held, InSector
  <2> HIDE DEF sum, within
  <2> QED
    BY <1>8, <1>12, <2>1
<1>16. ASSUME NEW t \in held
       PROVE  /\ vix < 35
              /\ \E i \in DOMAIN scores : scores[i].ticker = t /\ scores[i].passes /\ ~scores[i].take
  BY <1>1, <1>9 DEF SignalsOK
<1>17. \A ts, limit : (SumOf(positions, ts) * scale[1] <= limit * scale[2])' <=> within(ts, limit)
  BY SumIsTotal
<1> HIDE DEF within, sum
<1> QED
  BY <1>3, <1>11, <1>13, <1>14, <1>15, <1>16, <1>17 DEF EnforcedLimits

LEMMA StrategyInit == MomentumInit => StrategyInv
<1> SUFFICES ASSUME MomentumInit PROVE StrategyInv
  OBVIOUS
<1>1. ScoresOK
  <2>1. scores = <<>> /\ DOMAIN scores = {}
    BY DEF MomentumInit
  <2>2. <<>> \in Seq(ToSet(scores))
    OBVIOUS
  <2> QED
    BY <2>1, <2>2 DEF ScoresOK
<1> QED
  BY <1>1 DEF MomentumInit, StrategyInv, EnforcedLimits

LEMMA StrategyStep == StrategyInv /\ [StrategyNext]_strategyVars => StrategyInv'
<1> SUFFICES ASSUME StrategyInv, [StrategyNext]_strategyVars PROVE StrategyInv'
  OBVIOUS
<1>1. ScoresOK /\ vix \in Int /\ VixLevels \subseteq Int
  BY MomentumAssumption DEF StrategyInv
<1>2. ASSUME UNCHANGED scores PROVE ScoresOK'
  BY <1>1, <1>2 DEF ScoresOK, ToSet
<1>3. CASE FetchUniverse
  <2>1. UNCHANGED <<scores, vix>> /\ stage' # "returned" /\ stage' # "sized"
    BY <1>3 DEF FetchUniverse
  <2> QED
    BY <1>1, <1>2, <2>1 DEF StrategyInv, EnforcedLimits
<1>4. CASE FetchPrices
  <2>1. UNCHANGED scores /\ vix' \in VixLevels /\ stage' # "returned" /\ stage' # "sized"
    BY <1>4 DEF FetchPrices
  <2> QED
    BY <1>1, <1>2, <2>1 DEF StrategyInv, EnforcedLimits
<1>5. CASE ScoreStocks
  <2>1. UNCHANGED vix /\ stage' # "returned" /\ stage' # "sized"
    BY <1>5 DEF ScoreStocks
  <2> QED
    BY <1>1, <1>5, <2>1, ScoresGrow DEF StrategyInv, EnforcedLimits
<1>6. CASE Scored
  <2>1. UNCHANGED <<scores, vix>> /\ stage' # "returned" /\ stage' # "sized"
    BY <1>6 DEF Scored
  <2> QED
    BY <1>1, <1>2, <2>1 DEF StrategyInv, EnforcedLimits
<1>7. CASE GenerateSignals
  <2>1. UNCHANGED <<scores, vix>> /\ stage' # "sized"
    BY <1>7 DEF GenerateSignals
  <2> QED
    BY <1>1, <1>2, <1>7, <2>1, SignalsAreOfScores DEF StrategyInv, EnforcedLimits
<1>8. CASE ComputePositions
  <2>1. UNCHANGED <<scores, vix>> /\ stage' # "returned"
    BY <1>8 DEF ComputePositions
  <2> QED
    BY <1>1, <1>2, <1>8, <2>1, PositionsAreWithin DEF StrategyInv
<1>9. CASE UNCHANGED strategyVars
  <2>1. UNCHANGED <<scores, vix, signals, positions, scale, stage>>
    BY <1>9 DEF strategyVars
  <2>2. SignalsOK' <=> SignalsOK
    BY <2>1 DEF SignalsOK, Strong
  <2>3. EnforcedLimits' <=> EnforcedLimits
    BY <2>1 DEF EnforcedLimits
  <2> QED
    BY <1>1, <1>2, <2>1, <2>2, <2>3 DEF StrategyInv
<1> QED
  BY <1>3, <1>4, <1>5, <1>6, <1>7, <1>8, <1>9 DEF StrategyNext

(* What compute_positions enforces (multi_factor_momentum.py:938-1009):    *)
(* the maxima of every position, of every sector and of the whole, the     *)
(* number of positions, the minimum of a position before the final factor, *)
(* only stocks that passed every filter, and none when the VIX stops       *)
(* trading, for any index, limits, scores, order of equal signals and      *)
(* number of runs.  Not among them: the minimum after the final factor,    *)
(* which the code breaks, and the pairwise correlation, which it ignores.  *)
THEOREM PortfolioKeepsEnforcedLimits == StrategySpec => []EnforcedLimits
<1>1. StrategyInv => EnforcedLimits
  BY DEF StrategyInv
<1> QED
  BY <1>1, StrategyInit, StrategyStep, PTL DEF StrategySpec

-----------------------------------------------------------------------------
(* Stakes.  The net of a sector stays within its limit, whatever the signs *)
(* of the signals and the order they are taken in.                         *)

Among(held, sector) == {i \in DOMAIN held : TopoSectorOf[i] = sector}

LEMMA NetIsTotal ==
  ASSUME NEW held, NEW sector PROVE Net(held, sector) = Total(held, Among(held, sector))
  BY DEF Net, Among, MapThenSumSet, MapThenFoldSet, Total, Sums!Fold, Sums!MapThenFoldSet, Plus, Chosen

LEMMA MinOfTwo ==
  ASSUME NEW a \in Int, NEW b \in Int
  PROVE  Min({a, b}) \in {a, b} /\ Min({a, b}) <= a /\ Min({a, b}) <= b
<1>1. \E x \in {a, b} : \A y \in {a, b} : x <= y
  OBVIOUS
<1> QED
  BY <1>1 DEF Min

LEMMA CutIsWithin ==
  ASSUME NEW net \in Int, NEW value \in Int, Abs(net) <= MaxNet,
         ~(Abs(net + value) > MaxNet /\ MaxNet <= Abs(net))
  PROVE  Cut(net, value) \in Int /\ Abs(net + Cut(net, value)) <= MaxNet
<1>1. MaxNet \in Nat
  BY TopologyAssumption
<1>2. CASE Abs(net + value) <= MaxNet
  BY <1>2 DEF Cut
<1>3. CASE ~(Abs(net + value) <= MaxNet)
  <2>1. Abs(net) \in Nat /\ Abs(value) \in Nat /\ Abs(net + value) \in Nat
    BY DEF Abs
  <2>2. PICK room \in Int : room = MaxNet - Abs(net) /\ room > 0
    BY <1>1, <1>3, <2>1
  <2>3. PICK least \in Int : /\ least = Min({Abs(value), room})
                             /\ least \in {Abs(value), room} /\ least <= room
    <3>1. /\ Min({Abs(value), room}) \in {Abs(value), room}
          /\ Min({Abs(value), room}) <= room
      BY <2>1, MinOfTwo
    <3> QED
      BY <2>1, <3>1
  <2>4. least >= 0
    BY <2>1, <2>2, <2>3
  <2>5. Cut(net, value) = Sign(value) * least
    BY <1>3, <2>2, <2>3 DEF Cut
  <2>6. Sign(value) * least \in {least, -least}
    BY DEF Sign
  <2> QED
    BY <1>1, <2>2, <2>3, <2>4, <2>5, <2>6 DEF Abs
<1> QED
  BY <1>2, <1>3

SignalOK ==
  /\ traded \in SUBSET Stocks
  /\ signal \in [traded -> Int]
  /\ \A i \in zeroed : signal[i] = 0
  /\ topoVix >= 35 => \A i \in traded : signal[i] = 0

Staked(held, taken) ==
  /\ DOMAIN held \subseteq taken
  /\ \A i \in DOMAIN held : held[i] \in Int /\ signal[i] # 0
  /\ \A sector : Abs(Total(held, Among(held, sector))) <= MaxNet
  /\ topoVix >= 35 => held = <<>>

LEMMA StakeIsWithin ==
  ASSUME SignalOK, NEW taken, IsFiniteSet(taken), NEW held, Staked(held, taken),
         NEW i \in traded, i \notin taken
  PROVE  Staked(WithStake(held, i), taken \cup {i})
<1> DEFINE own   == Among(held, TopoSectorOf[i])
           net   == Net(held, TopoSectorOf[i])
           value == Sign(signal[i]) * Clipped((Abs(signal[i]) * Unit) \div Cardinality(traded))
           stake == Cut(net, value)
           new   == [j \in DOMAIN held \cup {i} |-> IF j = i THEN stake ELSE held[j]]
           kept  == \/ Abs(signal[i]) < Cardinality(traded)
                    \/ Abs(net + value) > MaxNet /\ MaxNet <= Abs(net)
<1>1. /\ Unit \in Nat /\ MinStake \in Nat /\ MaxStake \in Nat /\ MaxNet \in Nat
      /\ signal[i] \in Int /\ i \notin DOMAIN held
  BY TopologyAssumption DEF SignalOK, Staked
<1>2. Cardinality(traded) \in Nat /\ Cardinality(traded) # 0
  <2>1. IsFiniteSet(traded)
    BY TopologyAssumption, FS_Subset DEF SignalOK
  <2> QED
    BY <2>1, FS_CardinalityType, FS_EmptySet
<1>3. \A sector : IsFiniteSet(Among(held, sector)) /\ Among(held, sector) \subseteq DOMAIN held
  <2>1. ASSUME NEW sector PROVE Among(held, sector) \subseteq taken
    BY DEF Among, Staked
  <2> QED
    BY <2>1, FS_Subset DEF Among
<1>4. net \in Int /\ Abs(net) <= MaxNet /\ net = Total(held, own)
  <2>1. \A j \in own : held[j] \in Int
    BY <1>3 DEF Staked
  <2>2. Total(held, own) \in Int
    BY <1>3, <2>1, TotalTakesAny
  <2> QED
    BY <2>2, NetIsTotal DEF Staked
<1>5. value \in Int
  <2>1. (Abs(signal[i]) * Unit) \div Cardinality(traded) \in Int
    <3>1. PICK a \in Int : a = Abs(signal[i]) * Unit
      BY <1>1 DEF Abs
    <3> QED
      BY <1>2, <3>1
  <2>2. PICK c \in Int : c = Clipped((Abs(signal[i]) * Unit) \div Cardinality(traded))
    BY <1>1, <2>1 DEF Clipped
  <2>3. Sign(signal[i]) * c \in Int
    BY DEF Sign
  <2> QED
    BY <2>2, <2>3
<1> HIDE DEF net, own, value, kept, new
<1>6. WithStake(held, i) = IF kept THEN held ELSE new
  BY DEF WithStake, kept, new, net, value
<1>7. CASE kept
  BY <1>6, <1>7 DEF Staked
<1>8. CASE ~kept
  <2>1. WithStake(held, i) = new
    BY <1>6, <1>8
  <2>2. stake \in Int /\ Abs(net + stake) <= MaxNet
    BY <1>4, <1>5, <1>8, CutIsWithin DEF kept
  <2> HIDE DEF stake
  <2>3. /\ DOMAIN new = DOMAIN held \cup {i} /\ new[i] = stake
        /\ \A j \in DOMAIN held : new[j] = held[j]
    BY <1>1 DEF new
  <2>4. signal[i] # 0
    BY <1>1, <1>2, <1>8 DEF kept, Abs
  <2>5. ASSUME NEW sector PROVE Abs(Total(new, Among(new, sector))) <= MaxNet
    <3> DEFINE old == Among(held, sector)
    <3>1. /\ IsFiniteSet(old) /\ \A j \in old : held[j] \in Int /\ new[j] = held[j]
          /\ i \notin old
      BY <1>1, <1>3, <2>3 DEF Staked
    <3>2. CASE TopoSectorOf[i] = sector
      <4>1. Among(new, sector) = old \cup {i} /\ old = own
        BY <2>3, <3>2 DEF Among, own
      <4> HIDE DEF old
      <4>2. Total(new, old \cup {i}) = new[i] + Total(held, old)
        BY <2>2, <2>3, <3>1, TotalOfUpdate
      <4>3. Total(new, Among(new, sector)) = net + stake
        BY <1>4, <2>2, <2>3, <4>1, <4>2
      <4> QED
        BY <2>2, <4>3
    <3>3. CASE TopoSectorOf[i] # sector
      <4>1. Among(new, sector) = old
        BY <2>3, <3>3 DEF Among
      <4> HIDE DEF old
      <4>2. Total(new, old) = Total(held, old)
        BY <3>1, TotalLooksAtMembers
      <4> QED
        BY <4>1, <4>2 DEF Staked, old
    <3> QED
      BY <3>2, <3>3
  <2>6. \A j \in DOMAIN new : new[j] \in Int /\ signal[j] # 0
    BY <2>2, <2>3, <2>4 DEF Staked
  <2>7. DOMAIN new \subseteq taken \cup {i}
    BY <2>3 DEF Staked
  <2>8. ~(topoVix >= 35)
    BY <2>4 DEF SignalOK
  <2> QED
    BY <2>1, <2>5, <2>6, <2>7, <2>8 DEF Staked
<1> QED
  BY <1>7, <1>8

NextStake(i, held) == WithStake(held, i)
Staking == INSTANCE FoldFacts WITH Op <- NextStake, Base <- <<>>, Pick <- Top

LEMMA TopIsLatestStake == Staking!Latest
  BY TopIsLatest DEF Sizing!Latest, Staking!Latest

StakesOf(order) == FoldLeft(WithStake, <<>>, order)

LEMMA StakesFold ==
  ASSUME NEW order
  PROVE  StakesOf(order) = Staking!Fold(order, DOMAIN order)
  BY DEF StakesOf, FoldLeft, MapThenFoldSet, Staking!Fold, Staking!MapThenFoldSet, NextStake, Top

LEMMA StakesOneMore ==
  ASSUME NEW T, NEW order \in Seq(T), NEW i \in T
  PROVE  StakesOf(Append(order, i)) = WithStake(StakesOf(order), i)
  BY StakesFold, TopIsLatestStake, Staking!FoldOfAppend DEF NextStake

LEMMA NothingIsStaked == StakesOf(<<>>) = <<>> /\ Staked(<<>>, {})
<1>1. StakesOf(<<>>) = <<>>
  BY StakesFold, Staking!FoldOfEmpty
<1>2. DOMAIN <<>> = {}
  OBVIOUS
<1>3. \A sector : Among(<<>>, sector) = {}
  BY <1>2 DEF Among
<1>4. \A sector : Total(<<>>, Among(<<>>, sector)) = 0
  BY <1>3, TotalOfNone
<1>5. MaxNet \in Nat
  BY TopologyAssumption
<1> QED
  BY <1>1, <1>2, <1>4, <1>5 DEF Staked, Abs

LEMMA StakesAreWithin ==
  ASSUME SignalOK, NEW order \in Seq(traded),
         \A i, j \in DOMAIN order : i # j => order[i] # order[j]
  PROVE  Staked(StakesOf(order), traded)
<1> DEFINE first(n)  == SubSeq(order, 1, n)
           taken(n)  == {order[i] : i \in 1..n}
           Reached   == {n \in Nat : n <= Len(order) => Staked(StakesOf(first(n)), taken(n))}
<1>1. 0 \in Reached
  <2>1. first(0) = <<>> /\ taken(0) = {}
    OBVIOUS
  <2> QED
    BY <2>1, NothingIsStaked
<1>2. ASSUME NEW n \in Nat, n \in Reached PROVE n + 1 \in Reached
  <2>1. SUFFICES ASSUME n + 1 <= Len(order) PROVE Staked(StakesOf(first(n + 1)), taken(n + 1))
    BY <1>2
  <2> DEFINE i == order[n + 1]
  <2>2. /\ n + 1 \in DOMAIN order /\ 1..(n + 1) \subseteq DOMAIN order /\ i \in traded
        /\ first(n) \in Seq(traded) /\ first(n + 1) = Append(first(n), i)
    BY <2>1
  <2>3. i \notin taken(n) /\ taken(n + 1) = taken(n) \cup {i}
    BY <2>2
  <2>4. IsFiniteSet(taken(n))
    <3>1. taken(n) \subseteq traded
      BY <2>2
    <3>2. IsFiniteSet(traded)
      BY TopologyAssumption, FS_Subset DEF SignalOK
    <3> HIDE DEF taken
    <3> QED
      BY <3>1, <3>2, FS_Subset
  <2>5. Staked(StakesOf(first(n)), taken(n))
    BY <1>2, <2>1
  <2>6. StakesOf(first(n + 1)) = WithStake(StakesOf(first(n)), i)
    BY <2>2, StakesOneMore
  <2> HIDE DEF first, taken, i
  <2> QED
    BY <2>2, <2>3, <2>4, <2>5, <2>6, StakeIsWithin
<1> HIDE DEF Reached
<1>3. Len(order) \in Reached
  BY <1>1, <1>2, Sums!NatSetInduction
<1>4. first(Len(order)) = order /\ taken(Len(order)) \subseteq traded /\ Len(order) \in Nat
  OBVIOUS
<1>5. Staked(StakesOf(first(Len(order))), taken(Len(order)))
  BY <1>3, <1>4 DEF Reached
<1> QED
  <2> HIDE DEF first, taken
  <2> QED
    BY <1>4, <1>5 DEF Staked

-----------------------------------------------------------------------------
(* The inductive invariant: from which market data the Laplacian and the   *)
(* features are, once they have been computed in this run.                 *)

TopologyInv ==
  /\ traded \in SUBSET Stocks
  /\ step \in {"idle", "laplacian", "search", "signals", "positions", "done"}
  /\ step \in {"search", "signals", "positions", "done"} => laplacian = market
  /\ step \in {"signals", "positions", "done"} => features = market
  /\ step = "positions" => SignalOK
  /\ StakesAreOfThisMarket

LEMMA RevertedIsInteger ==
  ASSUME NEW residual \in Residuals, NEW entropy \in {50, 100}
  PROVE  Reverted(residual, entropy) \in Int
<1>1. residual \in Int
  BY TopologyAssumption
<1>2. PICK adjustment \in Int : adjustment = VixAdjustment
  BY DEF VixAdjustment
<1>3. entropy \in Int
  OBVIOUS
<1>4. PICK product \in Int : product = -residual * adjustment * entropy
  BY <1>1, <1>2, <1>3
<1>5. product \div 10000 \in Int
  OBVIOUS
<1> QED
  BY <1>2, <1>4, <1>5 DEF Reverted

LEMMA SignalsAreIntegers ==
  ASSUME TopologyInv, GenerateTopologySignals
  PROVE  SignalOK'
<1>1. /\ traded \in SUBSET Stocks /\ IsFiniteSet(traded) /\ UNCHANGED <<traded, topoVix>>
  BY TopologyAssumption, FS_Subset DEF TopologyInv, GenerateTopologySignals
<1>2. PICK z \in [traded -> Residuals], entropy \in {50, 100} :
        /\ zeroed' \in SUBSET traded
        /\ signal' = IF topoVix >= 35 THEN [i \in traded |-> 0]
                     ELSE Neutral([i \in traded |-> IF i \in zeroed' THEN 0
                                                    ELSE Reverted(z[i], entropy)])
  BY DEF GenerateTopologySignals
<1>3. CASE topoVix >= 35
  BY <1>1, <1>2, <1>3 DEF SignalOK
<1>4. CASE ~(topoVix >= 35)
  <2> DEFINE raw == [i \in traded |-> IF i \in zeroed' THEN 0 ELSE Reverted(z[i], entropy)]
             sum == MapThenSumSet(LAMBDA j : raw[j], DOMAIN raw)
  <2>1. \A i \in traded : raw[i] \in Int
    <3>1. ASSUME NEW i \in traded PROVE Reverted(z[i], entropy) \in Int
      <4>1. z[i] \in Residuals /\ entropy \in {50, 100}
        BY <1>2
      <4> QED
        BY <4>1, RevertedIsInteger
    <3> QED
      BY <3>1
  <2>2. DOMAIN raw = traded /\ \A i \in zeroed' : raw[i] = 0
    BY <1>2
  <2> HIDE DEF raw
  <2>3. sum = Total(raw, traded)
    BY <2>2 DEF MapThenSumSet, MapThenFoldSet, Total, Sums!Fold, Sums!MapThenFoldSet, Plus, Chosen
  <2>4. sum \in Int
    BY <1>1, <2>1, <2>3, TotalTakesAny
  <2>5. signal' = [i \in traded |-> IF raw[i] = 0 THEN 0 ELSE Cardinality(traded) * raw[i] - sum]
    BY <1>2, <1>4, <2>2 DEF Neutral, raw
  <2> HIDE DEF sum
  <2>6. Cardinality(traded) \in Int
    BY <1>1, FS_CardinalityType
  <2>7. \A i \in traded : Cardinality(traded) * raw[i] - sum \in Int
    BY <2>1, <2>4, <2>6
  <2>8. signal' \in [traded -> Int]
    BY <2>5, <2>7
  <2>9. \A i \in zeroed' : signal'[i] = 0
    BY <1>2, <2>2, <2>5
  <2> QED
    BY <1>1, <1>4, <2>8, <2>9 DEF SignalOK
<1> QED
  BY <1>3, <1>4

LEMMA TopologyStarts == TopologyInit => TopologyInv
  BY DEF TopologyInit, TopologyInv, StakesAreOfThisMarket

LEMMA StakesAreOfTheRun ==
  ASSUME TopologyInv, ComputeStakes
  PROVE  StakesAreOfThisMarket'
<1>1. /\ SignalOK /\ laplacian = market /\ features = market
      /\ UNCHANGED <<market, laplacian, features, topoVix, zeroed>>
  BY DEF TopologyInv, ComputeStakes
<1>2. PICK order \in SetToSeqs(traded) : stakes' = StakesOf(order)
  BY DEF ComputeStakes, StakesOf
<1>3. /\ order \in Seq(traded)
      /\ \A i, j \in DOMAIN order : i # j => order[i] # order[j]
  <2>1. Cardinality(traded) \in Nat
    BY <1>1, TopologyAssumption, FS_Subset, FS_CardinalityType DEF SignalOK
  <2> QED
    BY <1>2, <2>1 DEF SetToSeqs
<1>4. Staked(stakes', traded)
  BY <1>1, <1>2, <1>3, StakesAreWithin
<1>5. DOMAIN stakes' \cap zeroed = {}
  BY <1>1, <1>4 DEF Staked, SignalOK
<1>6. \A sector : Abs(Net(stakes', sector)) <= MaxNet
  BY <1>4, NetIsTotal DEF Staked
<1> QED
  BY <1>1, <1>4, <1>5, <1>6 DEF StakesAreOfThisMarket, Staked

LEMMA TopologyStep == TopologyInv /\ [TopologyNext]_topoVars => TopologyInv'
<1> SUFFICES ASSUME TopologyInv, [TopologyNext]_topoVars PROVE TopologyInv'
  OBVIOUS
<1>1. CASE FetchData
  <2>1. traded' \in SUBSET Stocks /\ step' \in {"idle", "laplacian"}
    BY <1>1 DEF FetchData
  <2> QED
    BY <2>1 DEF TopologyInv, StakesAreOfThisMarket
<1>2. CASE BuildLaplacian
  BY <1>2 DEF BuildLaplacian, Rebuilt, TopologyInv, StakesAreOfThisMarket
<1>3. CASE Search
  <2>1. /\ UNCHANGED <<market, laplacian, traded>> /\ step = "search"
        /\ step' = "search" \/ (step' = "signals" /\ features' = market)
    <3>1. CASE Pop
      <4>1. UNCHANGED step
        BY <3>1, Zenon DEF Pop
      <4> QED
        BY <1>3, <4>1 DEF Search
    <3>2. CASE FromNext
      BY <1>3, <3>2 DEF Search, FromNext
    <3>3. CASE NextThreshold
      BY <1>3, <3>3 DEF Search, NextThreshold
    <3> QED
      BY <1>3, <3>1, <3>2, <3>3 DEF Search
  <2> QED
    BY <2>1 DEF TopologyInv, StakesAreOfThisMarket
<1>4. CASE GenerateTopologySignals
  <2>1. /\ UNCHANGED <<market, laplacian, features, traded>>
        /\ step = "signals" /\ step' = "positions"
    BY <1>4 DEF GenerateTopologySignals
  <2> QED
    BY <1>4, <2>1, SignalsAreIntegers DEF TopologyInv, StakesAreOfThisMarket
<1>5. CASE ComputeStakes
  <2>1. /\ UNCHANGED <<market, laplacian, features, traded>>
        /\ step = "positions" /\ step' = "done"
    BY <1>5 DEF ComputeStakes
  <2> QED
    BY <1>5, <2>1, StakesAreOfTheRun DEF TopologyInv
<1>6. CASE UNCHANGED topoVars
  <2>1. UNCHANGED <<market, laplacian, features, topoVix, traded, zeroed, signal, stakes, step>>
    BY <1>6 DEF topoVars
  <2>2. SignalOK' <=> SignalOK
    BY <2>1 DEF SignalOK
  <2>3. StakesAreOfThisMarket' <=> StakesAreOfThisMarket
    BY <2>1 DEF StakesAreOfThisMarket
  <2> QED
    BY <2>1, <2>2, <2>3 DEF TopologyInv
<1> QED
  BY <1>1, <1>2, <1>3, <1>4, <1>5, <1>6 DEF TopologyNext

(* A topology portfolio is made from the market data of its own run, holds *)
(* nothing in an earnings blackout or when the VIX stops trading, and no   *)
(* sector's net exceeds its limit (algebraic_topology.py:794-889), for any *)
(* securities, limits, residuals, order of equal signals and number of     *)
(* runs.                                                                   *)
THEOREM StakesFitTheirMarket == TopologySpec => []StakesAreOfThisMarket
<1>1. TopologyInv => StakesAreOfThisMarket
  BY DEF TopologyInv
<1> QED
  BY <1>1, TopologyStarts, TopologyStep, PTL DEF TopologySpec

-----------------------------------------------------------------------------
(* Chains.  Doubling the length of the chains of linked pairs as often as  *)
(* there are nodes joins what any chain joins.                             *)

Doubled(nodes, r) ==
  r \cup {p \in nodes \X nodes : \E m \in nodes : <<p[1], m>> \in r /\ <<m, p[2]>> \in r}
Doubles(g, nodes, links, n) ==
  g = [k \in 0..n |-> IF k = 0 THEN links ELSE Doubled(nodes, g[k - 1])]

Graph(nodes, links) ==
  /\ IsFiniteSet(nodes) /\ links \subseteq nodes \X nodes
  /\ \A i \in nodes : <<i, i>> \in links
  /\ \A i, j \in nodes : <<i, j>> \in links => <<j, i>> \in links

Closed(nodes, r, V) == \A i \in V, j \in nodes : <<i, j>> \in r => j \in V

(* What Joined chooses exists: the relations after 0, 1, ..., n doublings. *)
LEMMA DoublingExists ==
  ASSUME NEW nodes, NEW links, NEW n \in Nat
  PROVE  \E g : Doubles(g, nodes, links, n)
<1> DEFINE Reached == {m \in Nat : \E g : Doubles(g, nodes, links, m)}
<1>1. 0 \in Reached
  <2> DEFINE g == [k \in 0..0 |-> links]
  <2>1. Doubles(g, nodes, links, 0)
    BY DEF Doubles
  <2> HIDE DEF g
  <2> QED
    BY <2>1
<1>2. ASSUME NEW m \in Nat, m \in Reached PROVE m + 1 \in Reached
  <2>1. PICK g : Doubles(g, nodes, links, m)
    BY <1>2
  <2> DEFINE h == [k \in 0..(m + 1) |-> IF k = 0 THEN links ELSE Doubled(nodes, g[k - 1])]
  <2>2. \A k \in 0..m : h[k] = g[k]
    BY <2>1 DEF Doubles
  <2>3. \A k \in 0..(m + 1) : k # 0 => k - 1 \in 0..m
    OBVIOUS
  <2>4. Doubles(h, nodes, links, m + 1)
    BY <2>2, <2>3 DEF Doubles
  <2> HIDE DEF h
  <2> QED
    BY <2>4
<1> HIDE DEF Reached
<1>3. n \in Reached
  BY <1>1, <1>2, Sums!NatSetInduction
<1> QED
  BY <1>3 DEF Reached

(* A doubling stays symmetric and joins no node that a set closed under    *)
(* the links leaves out.                                                   *)
LEMMA DoublesAreSound ==
  ASSUME NEW nodes, NEW links, Graph(nodes, links), NEW n \in Nat,
         NEW g, Doubles(g, nodes, links, n), NEW k \in 0..n
  PROVE  /\ links \subseteq g[k] /\ g[k] \subseteq nodes \X nodes
         /\ \A i, j \in nodes : <<i, j>> \in g[k] => <<j, i>> \in g[k]
         /\ \A V \in SUBSET nodes : Closed(nodes, links, V) => Closed(nodes, g[k], V)
<1> DEFINE Sound(r) ==
             /\ links \subseteq r /\ r \subseteq nodes \X nodes
             /\ \A i, j \in nodes : <<i, j>> \in r => <<j, i>> \in r
             /\ \A V \in SUBSET nodes : Closed(nodes, links, V) => Closed(nodes, r, V)
           Reached == {m \in Nat : m <= n => Sound(g[m])}
<1>1. g[0] = links /\ \A m \in Nat : m + 1 <= n => g[m + 1] = Doubled(nodes, g[m])
  BY DEF Doubles
<1>2. 0 \in Reached
  BY <1>1 DEF Graph
<1>3. ASSUME NEW m \in Nat, m \in Reached PROVE m + 1 \in Reached
  <2>1. SUFFICES ASSUME m + 1 <= n PROVE Sound(g[m + 1])
    OBVIOUS
  <2>2. PICK r : r = g[m] /\ g[m + 1] = Doubled(nodes, r)
    BY <1>1, <2>1
  <2>3. Sound(r)
    BY <1>3, <2>1, <2>2
  <2>4. \A i, j \in nodes :
          <<i, j>> \in Doubled(nodes, r) <=>
            <<i, j>> \in r \/ \E m_1 \in nodes : <<i, m_1>> \in r /\ <<m_1, j>> \in r
    BY DEF Doubled
  <2>5. Doubled(nodes, r) \subseteq nodes \X nodes /\ r \subseteq Doubled(nodes, r)
    BY <2>3 DEF Doubled
  <2>6. \A i, j \in nodes : <<i, j>> \in Doubled(nodes, r) => <<j, i>> \in Doubled(nodes, r)
    BY <2>3, <2>4
  <2>7. ASSUME NEW V \in SUBSET nodes, Closed(nodes, links, V) PROVE Closed(nodes, Doubled(nodes, r), V)
    <3>1. \A i \in V, j \in nodes : <<i, j>> \in r => j \in V
      BY <2>3, <2>7 DEF Closed
    <3> QED
      BY <2>4, <3>1 DEF Closed
  <2> QED
    BY <2>2, <2>3, <2>5, <2>6, <2>7
<1> HIDE DEF Reached
<1>4. k \in Reached
  BY <1>2, <1>3, Sums!NatSetInduction
<1> QED
  BY <1>4 DEF Reached

Row(r, nodes, i) == {j \in nodes : <<i, j>> \in r}

(* After as many doublings as there are nodes, what a node is joined to is *)
(* closed: a doubling that reaches nothing new leaves a closed row, and    *)
(* each other one adds a node to it.                                       *)
LEMMA RowsClose ==
  ASSUME NEW nodes, NEW links, Graph(nodes, links), NEW g,
         Doubles(g, nodes, links, Cardinality(nodes)), NEW i \in nodes
  PROVE  Closed(nodes, links, Row(g[Cardinality(nodes)], nodes, i))
<1> DEFINE n == Cardinality(nodes)
           row(k) == Row(g[k], nodes, i)
           Reached == {k \in Nat : k <= n =>
                         Closed(nodes, links, row(k)) \/ Cardinality(row(k)) >= k + 1}
<1>1. n \in Nat /\ IsFiniteSet(nodes)
  BY FS_CardinalityType DEF Graph
<1>2. \A k \in 0..n : i \in row(k) /\ row(k) \subseteq nodes /\ IsFiniteSet(row(k))
                      /\ Cardinality(row(k)) \in Nat /\ Cardinality(row(k)) <= n
  <2>1. ASSUME NEW k \in 0..n PROVE i \in row(k) /\ row(k) \in SUBSET nodes
    <3>1. links \subseteq g[k]
      BY <1>1, DoublesAreSound
    <3>2. <<i, i>> \in links
      BY DEF Graph
    <3> QED
      BY <3>1, <3>2 DEF Row
  <2> HIDE DEF row
  <2> QED
    BY <1>1, <2>1, FS_Subset, FS_CardinalityType
<1>3. 0 \in Reached
  <2>1. 0 \in 0..n
    BY <1>1
  <2>2. Cardinality(row(0)) # 0
    BY <1>2, <2>1, FS_EmptySet
  <2> QED
    BY <1>2, <2>1, <2>2
<1>4. ASSUME NEW k \in Nat, k \in Reached PROVE k + 1 \in Reached
  <2>1. SUFFICES ASSUME k + 1 <= n
                 PROVE Closed(nodes, links, row(k + 1)) \/ Cardinality(row(k + 1)) >= k + 2
    OBVIOUS
  <2>2. k \in 0..n /\ k + 1 \in 0..n
    BY <1>1, <2>1
  <2>3. g[k + 1] = Doubled(nodes, g[k])
    BY <1>1, <2>2 DEF Doubles
  <2>4. links \subseteq g[k]
    BY <1>1, <2>2, DoublesAreSound
  <2>5. \A j \in nodes : j \in row(k + 1) <=>
          j \in row(k) \/ \E m \in nodes : m \in row(k) /\ <<m, j>> \in g[k]
    BY <2>3 DEF Row, Doubled
  <2>6. CASE Closed(nodes, links, row(k))
    <3>1. Closed(nodes, g[k], row(k))
      BY <1>1, <1>2, <2>2, <2>6, DoublesAreSound
    <3>2. \A j \in nodes : j \in row(k + 1) <=> j \in row(k)
      <4> HIDE DEF row
      <4> QED
        BY <2>5, <3>1 DEF Closed
    <3>3. row(k + 1) = row(k)
      BY <1>2, <2>2, <3>2
    <3> QED
      BY <2>6, <3>3
  <2>7. CASE ~Closed(nodes, links, row(k))
    <3>1. PICK a \in row(k), b \in nodes : <<a, b>> \in links /\ b \notin row(k)
      BY <2>7 DEF Closed
    <3>2. Cardinality(row(k)) >= k + 1
      BY <1>4, <2>2, <2>7
    <3>3. row(k) \cup {b} \subseteq row(k + 1)
      <4> HIDE DEF row
      <4>1. a \in nodes /\ <<a, b>> \in g[k]
        BY <1>2, <2>2, <2>4, <3>1
      <4> QED
        BY <1>2, <2>2, <2>5, <3>1, <4>1
    <3> HIDE DEF row
    <3>4. Cardinality(row(k) \cup {b}) = Cardinality(row(k)) + 1 /\ IsFiniteSet(row(k) \cup {b})
      BY <1>2, <2>2, <3>1, FS_AddElement
    <3>5. Cardinality(row(k) \cup {b}) <= Cardinality(row(k + 1))
      BY <1>2, <2>2, <3>3, FS_Subset
    <3> QED
      BY <1>2, <2>2, <3>2, <3>4, <3>5
  <2> QED
    BY <2>6, <2>7
<1> HIDE DEF Reached
<1>5. n \in Reached
  BY <1>1, <1>3, <1>4, Sums!NatSetInduction
<1>6. n \in 0..n
  BY <1>1
<1> QED
  <2> HIDE DEF row
  <2>1. Cardinality(row(n)) <= n /\ Cardinality(row(n)) \in Nat
    BY <1>2, <1>6
  <2>2. Closed(nodes, links, row(n)) \/ Cardinality(row(n)) >= n + 1
    BY <1>1, <1>5 DEF Reached
  <2>3. Closed(nodes, links, row(n))
    BY <1>1, <2>1, <2>2
  <2> QED
    BY <2>3 DEF row

(* The row of a node is the least closed set that holds it, and its        *)
(* members have the same row.                                              *)
LEMMA ClassesPartition ==
  ASSUME NEW nodes, NEW links, Graph(nodes, links),
         NEW g, Doubles(g, nodes, links, Cardinality(nodes)),
         NEW r, r = g[Cardinality(nodes)], NEW i \in nodes
  PROVE  /\ i \in Row(r, nodes, i) /\ Row(r, nodes, i) \in SUBSET nodes
         /\ Closed(nodes, links, Row(r, nodes, i))
         /\ \A V \in SUBSET nodes : i \in V /\ Closed(nodes, links, V) => Row(r, nodes, i) \subseteq V
         /\ \A j \in Row(r, nodes, i) : Row(r, nodes, j) = Row(r, nodes, i)
<1>1. Cardinality(nodes) \in 0..Cardinality(nodes) /\ Cardinality(nodes) \in Nat
  BY FS_CardinalityType DEF Graph
<1>2. /\ links \subseteq r
      /\ \A a, b \in nodes : <<a, b>> \in r => <<b, a>> \in r
      /\ \A V \in SUBSET nodes : Closed(nodes, links, V) => Closed(nodes, r, V)
  BY <1>1, DoublesAreSound
<1>3. ASSUME NEW a \in nodes
      PROVE  /\ a \in Row(r, nodes, a)
             /\ Closed(nodes, links, Row(r, nodes, a))
             /\ \A V \in SUBSET nodes :
                  a \in V /\ Closed(nodes, links, V) => Row(r, nodes, a) \subseteq V
  <2>1. a \in Row(r, nodes, a)
    BY <1>2 DEF Graph, Row
  <2>2. Closed(nodes, links, Row(r, nodes, a))
    BY RowsClose
  <2>3. ASSUME NEW V \in SUBSET nodes, a \in V, Closed(nodes, links, V)
        PROVE  Row(r, nodes, a) \subseteq V
    <3>1. Closed(nodes, r, V)
      BY <1>2, <2>3
    <3> QED
      BY <2>3, <3>1 DEF Closed, Row
  <2> QED
    BY <2>1, <2>2, <2>3
<1>4. \A a \in nodes : Row(r, nodes, a) \in SUBSET nodes
  BY DEF Row
<1>5. ASSUME NEW j \in Row(r, nodes, i) PROVE Row(r, nodes, j) = Row(r, nodes, i)
  <2>1. j \in nodes /\ i \in Row(r, nodes, j)
    BY <1>2 DEF Row
  <2>2. Row(r, nodes, j) \subseteq Row(r, nodes, i)
    BY <1>3, <1>4, <1>5, <2>1
  <2>3. Row(r, nodes, i) \subseteq Row(r, nodes, j)
    BY <1>3, <1>4, <2>1
  <2> QED
    BY <2>2, <2>3
<1> QED
  BY <1>3, <1>4, <1>5

-----------------------------------------------------------------------------
(* The graph of a threshold, and its components.                           *)

Links(t) == {p \in traded \X traded :
               p[1] = p[2] \/ distance[<<Min({p[1], p[2]}), Max({p[1], p[2]})>>] <= t}
Component(t, i) == {j \in traded : <<i, j>> \in Joined(t)}

LEMMA MinMaxOfTwo ==
  ASSUME NEW a \in Int, NEW b \in Int
  PROVE  /\ Min({a, b}) = IF a < b THEN a ELSE b
         /\ Max({a, b}) = IF a < b THEN b ELSE a
<1>1. \E x \in {a, b} : \A y \in {a, b} : x <= y
  OBVIOUS
<1>2. \E x \in {a, b} : \A y \in {a, b} : x >= y
  OBVIOUS
<1> QED
  BY <1>1, <1>2 DEF Min, Max

(* The links of a threshold are a graph, whose neighbours are those the    *)
(* search sees.                                                            *)
LEMMA LinksAreNear ==
  ASSUME traded \in SUBSET Stocks
  PROVE  /\ \A t : Graph(traded, Links(t))
         /\ \A i, j \in traded : <<i, j>> \in Links(thresh) <=> Near(i, j)
<1>1. IsFiniteSet(traded) /\ traded \subseteq Int
  BY TopologyAssumption, FS_Subset
<1>2. \A t : \A i, j \in traded :
        <<i, j>> \in Links(t) <=>
          i = j \/ distance[<<IF i < j THEN i ELSE j, IF i < j THEN j ELSE i>>] <= t
  <2>1. ASSUME NEW t, NEW i \in traded, NEW j \in traded
        PROVE  <<i, j>> \in Links(t) <=>
                 i = j \/ distance[<<IF i < j THEN i ELSE j, IF i < j THEN j ELSE i>>] <= t
    <3>1. i \in Int /\ j \in Int
      BY <1>1
    <3>2. /\ Min({i, j}) = IF i < j THEN i ELSE j
          /\ Max({i, j}) = IF i < j THEN j ELSE i
      BY <3>1, MinMaxOfTwo
    <3>3. <<i, j>> \in Links(t) <=> i = j \/ distance[<<Min({i, j}), Max({i, j})>>] <= t
      BY DEF Links
    <3> QED
      BY <3>2, <3>3
  <2> QED
    BY <2>1
<1>3. \A t : \A i, j \in traded : <<i, j>> \in Links(t) => <<j, i>> \in Links(t)
  <2>1. ASSUME NEW t, NEW i \in traded, NEW j \in traded, <<i, j>> \in Links(t)
        PROVE  <<j, i>> \in Links(t)
    <3>1. i \in Int /\ j \in Int
      BY <1>1
    <3>2. CASE i = j
      BY <2>1, <3>2
    <3>3. CASE i < j
      BY <1>2, <2>1, <3>1, <3>3
    <3>4. CASE j < i
      BY <1>2, <2>1, <3>1, <3>4
    <3> QED
      BY <3>1, <3>2, <3>3, <3>4
  <2> QED
    BY <2>1
<1>4. \A t : Links(t) \subseteq traded \X traded
  BY DEF Links
<1>5. \A t : \A i \in traded : <<i, i>> \in Links(t)
  BY <1>2
<1> QED
  BY <1>1, <1>2, <1>3, <1>4, <1>5 DEF Graph, Near

(* Joined, the reference of BettiIsComponents, is the last of the          *)
(* doublings.                                                              *)
LEMMA JoinedDoubles ==
  ASSUME traded \in SUBSET Stocks, NEW t
  PROVE  \E g : /\ Doubles(g, traded, Links(t), Cardinality(traded))
                /\ Joined(t) = g[Cardinality(traded)]
<1> DEFINE reach == CHOOSE g : Doubles(g, traded, Links(t), Cardinality(traded))
<1>1. Cardinality(traded) \in Nat
  BY TopologyAssumption, FS_Subset, FS_CardinalityType
<1>2. Doubles(reach, traded, Links(t), Cardinality(traded))
  BY <1>1, DoublingExists
<1>3. Joined(t) = reach[Cardinality(traded)]
  BY DEF Joined, Doubles, Doubled, Links
<1> QED
  BY <1>2, <1>3

(* What the components of a threshold are, for the search.                 *)
LEMMA Components ==
  ASSUME traded \in SUBSET Stocks, NEW t, NEW i \in traded
  PROVE  /\ i \in Component(t, i) /\ Component(t, i) \in SUBSET traded
         /\ Closed(traded, Links(t), Component(t, i))
         /\ \A V \in SUBSET traded :
              i \in V /\ Closed(traded, Links(t), V) => Component(t, i) \subseteq V
         /\ \A j \in Component(t, i) : Component(t, j) = Component(t, i)
<1>1. PICK g : /\ Doubles(g, traded, Links(t), Cardinality(traded))
               /\ Joined(t) = g[Cardinality(traded)]
  BY JoinedDoubles
<1>2. \A j : Component(t, j) = Row(Joined(t), traded, j)
  BY DEF Component, Row
<1>3. Graph(traded, Links(t))
  BY LinksAreNear
<1> QED
  BY <1>1, <1>2, <1>3, ClassesPartition

Complete(V) == Closed(traded, Links(thresh), V)
Count(V)    == Cardinality({Component(thresh, i) : i \in V})

(* The search has completed the components of the nodes in old, and is in  *)
(* the one of root: it has visited V, and has Q on its stack.              *)
Explored(V, Q, root, old) ==
  /\ root \in traded \ old /\ old \in SUBSET V /\ V \in SUBSET traded
  /\ Complete(old)
  /\ V \ old \subseteq Component(thresh, root) /\ Q \subseteq Component(thresh, root)
  /\ root \in V \cup Q
  /\ \A v \in V \ old : Neighbors(v) \subseteq V \cup Q

(* The search follows the links of its threshold.                          *)
LEMMA NeighborsAreLinked ==
  ASSUME traded \in SUBSET Stocks, NEW i \in traded
  PROVE  Neighbors(i) = {j \in traded : <<i, j>> \in Links(thresh)}
  BY LinksAreNear DEF Neighbors

(* With its stack empty the search has completed one component more: what  *)
(* it visited since root is root's component, which none of the old nodes  *)
(* is in.                                                                  *)
LEMMA OneComponentMore ==
  ASSUME traded \in SUBSET Stocks, NEW V, NEW root, NEW old, Explored(V, {}, root, old)
  PROVE  Complete(V) /\ Count(old) \in Nat /\ Count(V) = Count(old) + 1
<1> DEFINE comp(i) == Component(thresh, i)
           before  == {comp(i) : i \in old}
<1>1. /\ root \in traded /\ root \notin old /\ old \subseteq V /\ V \in SUBSET traded
      /\ old \in SUBSET traded /\ V \ old \subseteq comp(root) /\ root \in V
      /\ \A v \in V \ old : Neighbors(v) \subseteq V
      /\ Complete(old)
  BY DEF Explored
<1>2. \A i \in traded :
        /\ comp(i) \in SUBSET traded
        /\ i \in old => comp(i) \subseteq old
        /\ i \in comp(i)
        /\ \A j \in comp(i) : comp(j) = comp(i)
  <2>1. ASSUME NEW i \in traded
        PROVE  /\ comp(i) \in SUBSET traded
               /\ i \in old => comp(i) \subseteq old
               /\ i \in comp(i)
               /\ \A j \in comp(i) : comp(j) = comp(i)
    BY <1>1, Components DEF Complete
  <2> HIDE DEF comp
  <2> QED
    BY <2>1
<1>3. Complete(V)
  <2> SUFFICES ASSUME NEW i \in V, NEW j \in traded, <<i, j>> \in Links(thresh) PROVE j \in V
    BY DEF Complete, Closed
  <2>1. CASE i \in old
    BY <1>1, <2>1 DEF Complete, Closed
  <2>2. CASE i \notin old
    <3>1. i \in traded /\ Neighbors(i) \subseteq V
      BY <1>1, <2>2
    <3> QED
      BY <3>1, NeighborsAreLinked
  <2> QED
    BY <2>1, <2>2
<1> HIDE DEF comp
<1>4. {comp(i) : i \in V} = before \cup {comp(root)}
  <2>1. \A i \in V : i \in old \/ comp(i) = comp(root)
    BY <1>1, <1>2
  <2> QED
    BY <1>1, <2>1
<1>5. comp(root) \notin before
  <2> SUFFICES ASSUME NEW i \in old, comp(i) = comp(root) PROVE FALSE
    OBVIOUS
  <2> QED
    BY <1>1, <1>2
<1>6. IsFiniteSet(before) /\ Cardinality(before) \in Nat
  <2>1. IsFiniteSet(SUBSET traded)
    BY TopologyAssumption, FS_Subset, FS_SUBSET
  <2>2. before \in SUBSET (SUBSET traded)
    BY <1>1, <1>2
  <2> HIDE DEF before
  <2> QED
    BY <2>1, <2>2, FS_Subset, FS_CardinalityType
<1>7. Cardinality(before \cup {comp(root)}) = Cardinality(before) + 1
  <2> HIDE DEF before
  <2> QED
    BY <1>5, <1>6, FS_AddElement
<1> QED
  BY <1>3, <1>4, <1>6, <1>7 DEF Count, comp

(* The nodes of a stack.                                                   *)
LEMMA StackParts ==
  ASSUME NEW T, NEW s \in Seq(T), s # <<>>
  PROVE  /\ Front(s) \in Seq(T) /\ Last(s) \in T
         /\ ToSet(s) = ToSet(Front(s)) \cup {Last(s)}
<1> DEFINE n == Len(s)
<1>1. n \in Nat /\ n # 0 /\ DOMAIN s = 1..n
  OBVIOUS
<1>2. /\ Front(s) \in Seq(T) /\ Len(Front(s)) = n - 1
      /\ \A i \in 1..(n - 1) : Front(s)[i] = s[i]
  BY <1>1 DEF Front
<1>3. Last(s) = s[n] /\ Last(s) \in T
  BY <1>1 DEF Last
<1>4. DOMAIN Front(s) = 1..(n - 1) /\ 1..n = (1..(n - 1)) \cup {n}
  BY <1>1, <1>2
<1> QED
  BY <1>1, <1>2, <1>3, <1>4 DEF ToSet

(* Pushing adds the nodes that are pushed.                                 *)
LEMMA StackGrows ==
  ASSUME NEW T, NEW s \in Seq(T), NEW e \in Seq(T)
  PROVE  s \o e \in Seq(T) /\ ToSet(s \o e) = ToSet(s) \cup ToSet(e)
<1> DEFINE r == s \o e
<1>1. /\ r \in Seq(T) /\ Len(r) = Len(s) + Len(e)
      /\ \A i \in 1..(Len(s) + Len(e)) : r[i] = IF i <= Len(s) THEN s[i] ELSE e[i - Len(s)]
  BY ConcatProperties
<1>2. Len(s) \in Nat /\ Len(e) \in Nat
  OBVIOUS
<1> HIDE DEF r
<1>3. /\ DOMAIN r = 1..(Len(s) + Len(e)) /\ DOMAIN s = 1..Len(s) /\ DOMAIN e = 1..Len(e)
  BY <1>1
<1>4. \A i \in DOMAIN s : i \in DOMAIN r /\ r[i] = s[i]
  BY <1>1, <1>2, <1>3
<1>5. \A i \in DOMAIN e : i + Len(s) \in DOMAIN r /\ r[i + Len(s)] = e[i]
  BY <1>1, <1>2, <1>3
<1>6. ASSUME NEW i \in DOMAIN r PROVE r[i] \in ToSet(s) \cup ToSet(e)
  <2>1. CASE i <= Len(s)
    BY <1>1, <1>2, <1>3, <2>1 DEF ToSet
  <2>2. CASE ~(i <= Len(s))
    <3>1. i - Len(s) \in DOMAIN e /\ r[i] = e[i - Len(s)]
      BY <1>1, <1>2, <1>3, <2>2
    <3> QED
      BY <3>1 DEF ToSet
  <2> QED
    BY <2>1, <2>2
<1>7. ToSet(r) = ToSet(s) \cup ToSet(e)
  BY <1>4, <1>5, <1>6 DEF ToSet
<1> QED
  BY <1>1, <1>7 DEF r

(* An order of a set holds exactly its members.                            *)
LEMMA OrderedIsAll ==
  ASSUME NEW S, IsFiniteSet(S), NEW order \in SetToSeqs(S)
  PROVE  order \in Seq(S) /\ ToSet(order) = S
<1> DEFINE D == 1..Cardinality(S)
<1>1. Cardinality(S) \in Nat
  BY FS_CardinalityType
<1>2. IsFiniteSet(D) /\ Cardinality(D) = Cardinality(S)
  <2>1. PICK n \in Nat : n = Cardinality(S)
    BY <1>1
  <2>2. IsFiniteSet(1..n) /\ Cardinality(1..n) = n
    BY FS_Interval
  <2> QED
    BY <2>1, <2>2
<1>3. order \in [D -> S] /\ \A i, j \in D : i # j => order[i] # order[j]
  BY DEF SetToSeqs
<1> HIDE DEF D
<1>4. order \in Injection(D, S)
  BY <1>3 DEF Injection, IsInjective
<1>5. order \in Surjection(D, S)
  BY <1>2, <1>4, FS_Injection
<1> QED
  BY <1>1, <1>3, <1>5 DEF Surjection, ToSet, D

(* A pop stays in the component of root and leaves no visited node with a  *)
(* neighbour that is neither visited nor on the stack.                     *)
LEMMA PopStays ==
  ASSUME traded \in SUBSET Stocks, stack \in Seq(traded), NEW root, NEW old,
         Explored(visited, ToSet(stack), root, old), Pop
  PROVE  /\ stack' \in Seq(traded) /\ visited' \in SUBSET traded
         /\ Explored(visited', ToSet(stack'), root, old)
<1> DEFINE node == Last(stack)
<1>1. stack # <<>>
  BY Zenon DEF Pop
<1>2. /\ Front(stack) \in Seq(traded) /\ node \in traded
      /\ ToSet(stack) = ToSet(Front(stack)) \cup {node}
  BY <1>1, StackParts
<1> HIDE DEF node
<1>3. CASE node \in visited
  <2>1. stack' = Front(stack) /\ visited' = visited
    BY <1>3, Zenon DEF Pop, node
  <2>2. visited \cup ToSet(stack) = visited \cup ToSet(Front(stack))
    BY <1>2, <1>3
  <2>3. ToSet(Front(stack)) \subseteq ToSet(stack)
    BY <1>2
  <2> QED
    BY <1>2, <2>1, <2>2, <2>3 DEF Explored
<1>4. CASE node \notin visited
  <2>1. PICK next \in SetToSeqs(Neighbors(node)) : stack' = Front(stack) \o next
    <3>1. \E next \in SetToSeqs(Neighbors(node)) : stack' = Front(stack) \o next
      BY <1>4, Zenon DEF Pop, node
    <3> QED
      BY <3>1
  <2>2. visited' = visited \cup {node}
    BY <1>4, Zenon DEF Pop, node
  <2>3. Neighbors(node) \in SUBSET traded /\ IsFiniteSet(Neighbors(node))
    <3>1. IsFiniteSet(traded) /\ Neighbors(node) \in SUBSET traded
      BY TopologyAssumption, FS_Subset DEF Neighbors
    <3> QED
      BY <3>1, FS_Subset
  <2>4. next \in Seq(Neighbors(node)) /\ ToSet(next) = Neighbors(node)
    BY <2>3, OrderedIsAll
  <2>5. next \in Seq(traded)
    BY <2>3, <2>4, SeqMonotonic
  <2>6. stack' \in Seq(traded) /\ ToSet(stack') = ToSet(Front(stack)) \cup Neighbors(node)
    BY <1>2, <2>1, <2>4, <2>5, StackGrows
  <2>7. root \in traded /\ node \in Component(thresh, root)
    BY <1>2 DEF Explored
  <2>8. Neighbors(node) \subseteq Component(thresh, root)
    <3>1. Closed(traded, Links(thresh), Component(thresh, root))
      BY <2>7, Components
    <3>2. Neighbors(node) = {j \in traded : <<node, j>> \in Links(thresh)}
      BY <1>2, NeighborsAreLinked
    <3> QED
      BY <2>7, <3>1, <3>2 DEF Closed
  <2>9. visited' \cup ToSet(stack') = visited \cup ToSet(stack) \cup Neighbors(node)
    BY <1>2, <2>2, <2>6
  <2>10. visited' \in SUBSET traded /\ old \in SUBSET visited'
    BY <1>2, <2>2 DEF Explored
  <2>11. visited' \ old \subseteq Component(thresh, root) /\ ToSet(stack') \subseteq Component(thresh, root)
    BY <1>2, <2>2, <2>6, <2>7, <2>8 DEF Explored
  <2>12. ASSUME NEW v \in visited' \ old PROVE Neighbors(v) \subseteq visited' \cup ToSet(stack')
    <3>1. CASE v = node
      BY <2>9, <3>1
    <3>2. CASE v # node
      <4>1. v \in visited \ old
        BY <2>2, <3>2
      <4> QED
        BY <2>9, <4>1 DEF Explored
    <3> QED
      BY <3>1, <3>2
  <2>13. root \in visited' \cup ToSet(stack') /\ Complete(old) /\ root \notin old
    BY <2>9 DEF Explored
  <2> QED
    BY <2>6, <2>7, <2>10, <2>11, <2>12, <2>13 DEF Explored
<1> QED
  BY <1>3, <1>4

-----------------------------------------------------------------------------
(* The inductive invariant of the search, and its steps.                   *)

SearchInv ==
  /\ traded \in SUBSET Stocks
  /\ betti \in Seq(Nat) /\ BettiIsComponents
  /\ step = "laplacian" =>
       betti = <<>> /\ thresh = 0 /\ visited = {} /\ stack = <<>> /\ components = 0
  /\ step = "search" =>
       /\ thresh \in Nat /\ Len(betti) = thresh
       /\ stack \in Seq(traded) /\ visited \in SUBSET traded /\ components \in Nat
       /\ \/ stack = <<>> /\ Complete(visited) /\ components = Count(visited)
          \/ stack # <<>> /\ \E root, old :
               Explored(visited, ToSet(stack), root, old) /\ components = Count(old)

LEMMA NothingVisited ==
  Complete({}) /\ Count({}) = 0 /\ ToSet(<<>>) = {}
<1>1. {Component(thresh, i) : i \in {}} = {}
  OBVIOUS
<1>2. Cardinality({}) = 0
  BY FS_EmptySet
<1> QED
  BY <1>1, <1>2 DEF Complete, Closed, Count, ToSet

(* At the start of a threshold nothing is visited and nothing counted.     *)
LEMMA NothingVisitedNext ==
  Complete({})' /\ Count({})' = 0
<1>1. Complete({})'
  BY DEF Complete, Closed
<1>2. Count({})' = 0
  <2>1. {Component(thresh, i)' : i \in {}} = {}
    OBVIOUS
  <2> QED
    BY <2>1, FS_EmptySet DEF Count
<1> QED
  BY <1>1, <1>2

(* What the graph says while securities and distances stay the same.       *)
LEMMA SameGraph ==
  ASSUME UNCHANGED <<traded, distance>>
  PROVE  /\ \A t, i : Component(t, i)' = Component(t, i)
         /\ \A t : Links(t)' = Links(t)
  BY DEF Component, Links, Joined

LEMMA SameSearch ==
  ASSUME UNCHANGED <<traded, distance, thresh>>
  PROVE  /\ \A V : Complete(V)' <=> Complete(V)
         /\ \A V : Count(V)' = Count(V)
         /\ \A v : Neighbors(v)' = Neighbors(v)
         /\ \A v : Component(thresh, v)' = Component(thresh, v)
<1>1. \A V : Complete(V)' <=> Complete(V)
  BY SameGraph DEF Complete
<1>2. \A V : Count(V)' = Count(V)
  BY SameGraph DEF Count
<1>3. \A v : Neighbors(v)' = Neighbors(v)
  BY DEF Neighbors, Near
<1>4. \A v : Component(thresh, v)' = Component(thresh, v)
  BY SameGraph
<1> QED
  BY <1>1, <1>2, <1>3, <1>4

LEMMA SameBetti ==
  ASSUME UNCHANGED <<traded, distance, betti>>
  PROVE  BettiIsComponents' <=> BettiIsComponents
  BY DEF BettiIsComponents, Joined

LEMMA MinIsMember ==
  ASSUME NEW S, IsFiniteSet(S), S \subseteq Int, S # {}
  PROVE  Min(S) \in S
<1> DEFINE Least(s) == \E x \in s : \A y \in s : x <= y
           Reached  == {n \in Nat : \A s \in SUBSET S : Cardinality(s) = n /\ s # {} => Least(s)}
<1>1. \A s \in SUBSET S : IsFiniteSet(s) /\ Cardinality(s) \in Nat /\ (Cardinality(s) = 0 <=> s = {})
  BY FS_Subset, FS_CardinalityType, FS_EmptySet
<1>2. 0 \in Reached
  BY <1>1
<1>3. ASSUME NEW n \in Nat, n \in Reached PROVE n + 1 \in Reached
  <2>1. ASSUME NEW s \in SUBSET S, Cardinality(s) = n + 1, s # {} PROVE Least(s)
    <3>1. PICK p \in s : p \in Int
      BY <2>1
    <3>2. s \ {p} \in SUBSET S /\ Cardinality(s \ {p}) = n
      BY <1>1, <2>1, FS_RemoveElement
    <3>3. CASE s \ {p} = {}
      <4>1. s = {p}
        BY <3>1, <3>3
      <4> QED
        BY <3>1, <4>1
    <3>4. CASE s \ {p} # {}
      <4>1. PICK x \in s \ {p} : \A y \in s \ {p} : x <= y
        BY <1>3, <3>2, <3>4
      <4>2. \A y \in s : y \in Int
        OBVIOUS
      <4>3. CASE p <= x
        BY <3>1, <4>1, <4>2, <4>3
      <4>4. CASE ~(p <= x)
        BY <3>1, <4>1, <4>2, <4>4
      <4> QED
        BY <4>3, <4>4
    <3> QED
      BY <3>3, <3>4
  <2> QED
    BY <2>1
<1> HIDE DEF Reached
<1>4. Cardinality(S) \in Reached
  BY <1>1, <1>2, <1>3, Sums!NatSetInduction
<1>5. \E x \in S : \A y \in S : x <= y
  BY <1>4 DEF Reached
<1> QED
  BY <1>5 DEF Min

(* The three steps of the search.                                          *)
LEMMA SearchPops ==
  ASSUME SearchInv, step = "search", Pop, UNCHANGED <<traded, distance>>
  PROVE  SearchInv'
<1>1. UNCHANGED <<thresh, betti, step>> /\ stack # <<>>
  BY Zenon DEF Pop
<1>2. PICK root, old : Explored(visited, ToSet(stack), root, old) /\ components = Count(old)
  BY <1>1 DEF SearchInv
<1>3. /\ traded \in SUBSET Stocks /\ stack \in Seq(traded) /\ components \in Nat
      /\ betti \in Seq(Nat) /\ BettiIsComponents /\ thresh \in Nat /\ Len(betti) = thresh
  BY DEF SearchInv
<1>4. /\ stack' \in Seq(traded) /\ visited' \in SUBSET traded
      /\ Explored(visited', ToSet(stack'), root, old)
  BY <1>2, <1>3, PopStays
<1>5. components' = IF stack' = <<>> THEN components + 1 ELSE components
  BY Zenon DEF Pop
<1>6. BettiIsComponents'
  BY <1>1, <1>3, SameBetti
<1>7. CASE stack' = <<>>
  <2>1. Explored(visited', {}, root, old)
    BY <1>4, <1>7, NothingVisited
  <2>2. Complete(visited') /\ Count(visited') = Count(old) + 1
    BY <1>3, <2>1, OneComponentMore
  <2>3. (Complete(visited))' /\ (Count(visited))' = components'
    <3>1. \A V : Complete(V)' <=> Complete(V)
      BY <1>1, SameSearch
    <3>2. \A V : Count(V)' = Count(V)
      BY <1>1, SameSearch
    <3> QED
      BY <1>2, <1>5, <1>7, <2>2, <3>1, <3>2 DEF Complete, Count
  <2> QED
    BY <1>1, <1>3, <1>4, <1>5, <1>6, <1>7, <2>3 DEF SearchInv
<1>8. CASE stack' # <<>>
  <2>1. Explored(visited, ToSet(stack), root, old)'
    <3>1. Complete(old)' <=> Complete(old)
      BY <1>1, SameSearch
    <3>2. Component(thresh, root)' = Component(thresh, root)
      BY <1>1, SameSearch
    <3>3. \A v : Neighbors(v)' = Neighbors(v)
      BY <1>1, SameSearch
    <3>4. ToSet(stack)' = ToSet(stack')
      BY DEF ToSet
    <3> QED
      BY <1>4, <3>1, <3>2, <3>3, <3>4 DEF Explored
  <2>2. components' = Count(old)'
    <3>1. Count(old)' = Count(old)
      BY <1>1, SameSearch
    <3> QED
      BY <1>2, <1>5, <1>8, <3>1
  <2> QED
    BY <1>1, <1>3, <1>4, <1>5, <1>6, <1>8, <2>1, <2>2 DEF SearchInv
<1> QED
  BY <1>7, <1>8

LEMMA SearchStartsNext ==
  ASSUME SearchInv, step = "search", FromNext, UNCHANGED <<traded, distance>>
  PROVE  SearchInv'
<1>1. /\ UNCHANGED <<thresh, visited, components, betti, step>> /\ stack = <<>>
      /\ traded \ visited # {} /\ stack' = <<Min(traded \ visited)>>
  BY DEF FromNext
<1>2. /\ traded \in SUBSET Stocks /\ visited \in SUBSET traded /\ components \in Nat
      /\ betti \in Seq(Nat) /\ BettiIsComponents /\ thresh \in Nat /\ Len(betti) = thresh
      /\ Complete(visited) /\ components = Count(visited)
  BY <1>1 DEF SearchInv
<1>3. PICK root \in traded : root = Min(traded \ visited) /\ root \notin visited
  <2>1. IsFiniteSet(traded \ visited) /\ traded \ visited \subseteq Int
    BY <1>2, TopologyAssumption, FS_Subset
  <2>2. Min(traded \ visited) \in traded \ visited
    BY <1>1, <2>1, MinIsMember
  <2> QED
    BY <2>2
<1>a. PICK old : old = visited
  OBVIOUS
<1>4. stack' = <<root>> /\ ToSet(stack') = {root} /\ stack' \in Seq(traded) /\ stack' # <<>>
  <2>1. stack' = <<root>>
    BY <1>1, <1>3
  <2>2. ToSet(<<root>>) = {root}
    BY DEF ToSet
  <2> QED
    BY <1>3, <2>1, <2>2
<1>5. root \in Component(thresh, root)
  BY <1>2, <1>3, Components
<1>6. Explored(visited, ToSet(stack), root, old)'
  <2>1. Complete(old)'
    <3>1. \A V : Complete(V)' <=> Complete(V)
      BY <1>1, SameSearch
    <3> QED
      BY <1>2, <1>a, <3>1
  <2>2. Component(thresh, root)' = Component(thresh, root)
    BY <1>1, SameSearch
  <2>3. ToSet(stack)' = {root}
    BY <1>4
  <2>4. visited' = old /\ visited' \ old = {}
    BY <1>1, <1>a
  <2>5. (/\ root \in traded \ old /\ old \in SUBSET visited /\ visited \in SUBSET traded)'
    BY <1>1, <1>2, <1>3, <1>a
  <2>6. (/\ visited \ old \subseteq Component(thresh, root)
         /\ ToSet(stack) \subseteq Component(thresh, root)
         /\ root \in visited \cup ToSet(stack))'
    BY <1>5, <2>2, <2>3, <2>4
  <2>7. (\A v \in visited \ old : Neighbors(v) \subseteq visited \cup ToSet(stack))'
    BY <2>4
  <2> QED
    BY <2>1, <2>5, <2>6, <2>7 DEF Explored
<1>7. components' = Count(old)'
  <2>1. \A V : Count(V)' = Count(V)
    BY <1>1, SameSearch
  <2> QED
    BY <1>1, <1>2, <1>a, <2>1
<1>8. BettiIsComponents'
  BY <1>1, <1>2, SameBetti
<1>9. (\E r, o : Explored(visited, ToSet(stack), r, o) /\ components = Count(o))'
  BY <1>6, <1>7
<1> QED
  BY <1>1, <1>2, <1>4, <1>8, <1>9 DEF SearchInv

LEMMA BettiMeaning ==
  BettiIsComponents <=>
    \A k \in DOMAIN betti : betti[k] = Cardinality({Component(k - 1, i) : i \in traded})
  BY DEF BettiIsComponents, Component

LEMMA SearchCounts ==
  ASSUME SearchInv, step = "search", NextThreshold, UNCHANGED <<traded, distance>>
  PROVE  SearchInv'
<1>1. /\ stack = <<>> /\ traded \subseteq visited /\ stack' = stack
      /\ betti' = Append(betti, components) /\ components' = 0 /\ visited' = {}
      /\ \/ thresh' = thresh + 1 /\ step' = step
         \/ step' = "signals"
  BY DEF NextThreshold
<1>2. /\ traded \in SUBSET Stocks /\ visited \in SUBSET traded /\ components \in Nat
      /\ betti \in Seq(Nat) /\ BettiIsComponents /\ thresh \in Nat /\ Len(betti) = thresh
      /\ components = Count(visited)
  BY <1>1 DEF SearchInv
<1>3. components = Cardinality({Component(thresh, i) : i \in traded})
  <2>1. visited = traded
    BY <1>1, <1>2
  <2> QED
    BY <1>2, <2>1 DEF Count
<1>4. /\ betti' \in Seq(Nat) /\ Len(betti') = thresh + 1 /\ betti'[thresh + 1] = components
      /\ \A k \in 1..thresh : betti'[k] = betti[k]
      /\ DOMAIN betti' = 1..(thresh + 1) /\ DOMAIN betti = 1..thresh
  BY <1>1, <1>2
<1>5. ASSUME NEW k \in DOMAIN betti'
      PROVE  betti'[k] = Cardinality({Component(k - 1, i) : i \in traded})
  <2>1. CASE k \in 1..thresh
    BY <1>2, <1>4, <2>1, BettiMeaning
  <2>2. CASE k = thresh + 1
    <3>1. k - 1 = thresh
      BY <1>2, <2>2
    <3> QED
      BY <1>3, <1>4, <2>2, <3>1
  <2> QED
    BY <1>2, <1>4, <2>1, <2>2
<1>6. BettiIsComponents'
  <2>1. \A t, i : Component(t, i)' = Component(t, i)
    BY SameGraph
  <2>2. (\A k \in DOMAIN betti : betti[k] = Cardinality({Component(k - 1, i) : i \in traded}))'
    BY <1>5, <2>1
  <2> QED
    BY <2>2, BettiMeaning, PTL
<1>7. (Complete(visited))' /\ (Count(visited))' = 0
  <2>1. Complete({})' /\ Count({})' = 0
    BY NothingVisitedNext
  <2>2. visited' = {}
    BY <1>1
  <2> QED
    BY <2>1, <2>2 DEF Complete, Count
<1>8. CASE step' = "signals"
  BY <1>2, <1>4, <1>6, <1>8 DEF SearchInv
<1>9. CASE thresh' = thresh + 1 /\ step' = step
  <2>1. stack' = <<>> /\ stack' \in Seq(traded') /\ visited' \in SUBSET traded' /\ components' \in Nat
    BY <1>1
  <2>2. thresh' \in Nat /\ Len(betti') = thresh' /\ traded' \in SUBSET Stocks
    BY <1>2, <1>4, <1>9
  <2> QED
    BY <1>1, <1>4, <1>6, <1>7, <1>9, <2>1, <2>2 DEF SearchInv
<1> QED
  BY <1>1, <1>8, <1>9

(* Every step of a run keeps the invariant of the search.                  *)
LEMMA SearchStep == SearchInv /\ [TopologyNext]_topoVars => SearchInv'
<1> SUFFICES ASSUME SearchInv, [TopologyNext]_topoVars PROVE SearchInv'
  OBVIOUS
<1>1. CASE FetchData
  <2>1. /\ traded' \in SUBSET Stocks /\ step' \in {"idle", "laplacian"} /\ betti' = <<>>
        /\ thresh' = 0 /\ visited' = {} /\ stack' = <<>> /\ components' = 0
    BY <1>1 DEF FetchData
  <2>2. BettiIsComponents' /\ betti' \in Seq(Nat)
    <3>1. DOMAIN betti' = {}
      BY <2>1
    <3> QED
      BY <2>1, <3>1 DEF BettiIsComponents
  <2> QED
    BY <2>1, <2>2 DEF SearchInv
<1>2. CASE BuildLaplacian
  <2>1. /\ UNCHANGED <<traded, distance, thresh, visited, stack, components, betti>>
        /\ step = "laplacian" /\ step' = "search"
    BY <1>2 DEF BuildLaplacian, homology
  <2>2. /\ traded \in SUBSET Stocks /\ betti = <<>> /\ thresh = 0 /\ visited = {}
        /\ stack = <<>> /\ components = 0 /\ BettiIsComponents
    BY <2>1 DEF SearchInv
  <2>3. Complete(visited)' /\ Count(visited)' = 0
    <3>1. Complete({})' /\ Count({})' = 0
      BY NothingVisitedNext
    <3>2. visited' = {}
      BY <2>1, <2>2
    <3> QED
      BY <3>1, <3>2 DEF Complete, Count
  <2>4. BettiIsComponents'
    BY <2>1, <2>2, SameBetti
  <2>5. betti' \in Seq(Nat) /\ Len(betti') = 0 /\ stack' \in Seq(traded')
    BY <2>1, <2>2
  <2> QED
    BY <2>1, <2>2, <2>3, <2>4, <2>5 DEF SearchInv
<1>3. CASE Search
  <2>1. step = "search" /\ UNCHANGED <<traded, distance>> /\ (Pop \/ FromNext \/ NextThreshold)
    BY <1>3 DEF Search
  <2> QED
    BY <2>1, SearchPops, SearchStartsNext, SearchCounts
<1>4. ASSUME UNCHANGED <<traded, distance, betti>>, step' # "laplacian", step' # "search"
      PROVE  SearchInv'
  BY <1>4, SameBetti DEF SearchInv
<1>5. CASE GenerateTopologySignals
  BY <1>4, <1>5 DEF GenerateTopologySignals, homology
<1>6. CASE ComputeStakes
  BY <1>4, <1>6 DEF ComputeStakes, homology
<1>7. CASE UNCHANGED topoVars
  <2>1. UNCHANGED <<traded, distance, thresh, visited, stack, components, betti, step>>
    BY <1>7 DEF topoVars
  <2>2. BettiIsComponents' <=> BettiIsComponents
    BY <2>1, SameBetti
  <2>3. Complete(visited)' <=> Complete(visited)
    BY <2>1 DEF Complete, Closed, Links
  <2>4. Count(visited)' = Count(visited)
    BY <2>1 DEF Count, Component, Joined
  <2>5. ASSUME NEW root, NEW old, Explored(visited, ToSet(stack), root, old), components = Count(old)
        PROVE  Explored(visited, ToSet(stack), root, old)' /\ components' = Count(old)'
    <3>1. Complete(old)' <=> Complete(old)
      BY <2>1, SameSearch
    <3>2. Component(thresh, root)' = Component(thresh, root)
      BY <2>1, SameSearch
    <3>3. \A v : Neighbors(v)' = Neighbors(v)
      BY <2>1, SameSearch
    <3>4. ToSet(stack)' = ToSet(stack)
      BY <2>1 DEF ToSet
    <3>5. Count(old)' = Count(old)
      BY <2>1, SameSearch
    <3> QED
      BY <2>1, <2>5, <3>1, <3>2, <3>3, <3>4, <3>5 DEF Explored
  <2> QED
    BY <2>1, <2>2, <2>3, <2>4, <2>5 DEF SearchInv
<1> QED
  BY <1>1, <1>2, <1>3, <1>5, <1>6, <1>7 DEF TopologyNext

LEMMA SearchInit == TopologyInit => SearchInv
<1> SUFFICES ASSUME TopologyInit PROVE SearchInv
  OBVIOUS
<1>1. betti = <<>> /\ DOMAIN betti = {} /\ betti \in Seq(Nat) /\ traded = {} /\ step = "idle"
  BY DEF TopologyInit
<1> QED
  BY <1>1 DEF SearchInv, BettiIsComponents

(* The search of _simplified_persistence counts, at every threshold, the   *)
(* components of the graph of pairs at most that far apart                 *)
(* (algebraic_topology.py:627-657), for any number of securities, any      *)
(* distances and any thresholds.                                           *)
THEOREM SearchCountsComponents == TopologySpec => []BettiIsComponents
<1>1. SearchInv => BettiIsComponents
  BY DEF SearchInv
<1> QED
  BY <1>1, SearchInit, SearchStep, PTL DEF TopologySpec

-----------------------------------------------------------------------------
(* Built plans are served                                                  *)

NextOp(o, run) == RunOp(run, o)
LastPlace(places) == Max(places)
Running == INSTANCE FoldFacts WITH Op <- NextOp, Base <- Fresh, Pick <- LastPlace

LEMMA LastPlaceIsLatest == Running!Latest
<1>1. ASSUME NEW n \in Nat, NEW S \in SUBSET (1..n), S # {}
      PROVE  Max(S) \in S /\ \A i \in S : i <= Max(S)
  <2>1. PICK x \in S : \A y \in S : y <= x
    BY <1>1, Running!LastPlace
  <2> QED
    BY <2>1 DEF Max
<1> QED
  BY <1>1 DEF Running!Latest, LastPlace

LEMMA ExecuteRuns ==
  ASSUME NEW plan PROVE Execute(plan) = Running!Fold(plan, DOMAIN plan)
  BY DEF Execute, FoldLeft, Running!Fold, NextOp, LastPlace, MapThenFoldSet,
         Running!MapThenFoldSet

LEMMA ExecuteNone == Execute(<<>>) = Fresh
  BY ExecuteRuns, Running!FoldOfEmpty

(* The run of a plan with one more operation.                              *)
LEMMA ExecuteNext ==
  ASSUME NEW T, NEW plan \in Seq(T), NEW o \in T
  PROVE  Execute(Append(plan, o)) = RunOp(Execute(plan), o)
<1>1. Running!Fold(Append(plan, o), DOMAIN Append(plan, o)) = NextOp(o, Running!Fold(plan, DOMAIN plan))
  BY LastPlaceIsLatest, Running!FoldOfAppend
<1> QED
  BY <1>1, ExecuteRuns DEF NextOp

(* The run of a plan of one request, before the request is sent and after  *)
(* its answer was collected.                                               *)
RequestFor(service, type, paths) == [service |-> service, type |-> type, paths |-> paths]

Making(service, type, paths) ==
  [requests |-> [x \in {"req1"} |-> RequestFor(service, type, paths)],
   sent |-> <<>>, queued |-> {}, registered |-> {}, got |-> <<>>, error |-> "none"]

Begun(service, type) == <<StartOp, OpenOp(service), CreateOp(service, type, "req1")>>
Finish(timeout) == <<SendOp("req1", "cid1"), CollectOp("cid1", timeout)>>

(* The puts of a request, and those that Bloomberg takes.                  *)
Puts == {AppendOp("req1", p) : p \in AllPaths} \cup {SetOp("req1", p) : p \in AllPaths}
GoodPuts == {o \in Puts : o.op = "append" <=> o.path \in ArrayPaths}

LEMMA PutForms ==
  ASSUME NEW o \in Puts
  PROVE  o.op \in {"append", "set"} /\ o.id = "req1" /\ o.path \in AllPaths
  BY DEF Puts, AppendOp, SetOp

LEMMA RunsToCreate ==
  ASSUME NEW service, NEW type
  PROVE  Execute(Begun(service, type)) = Making(service, type, <<>>)
<1> DEFINE c == CreateOp(service, type, "req1")
           T == {StartOp, OpenOp(service), c}
<1>1. <<>> \in Seq(T) /\ Append(<<>>, StartOp) \in Seq(T)
      /\ Append(Append(<<>>, StartOp), OpenOp(service)) \in Seq(T)
      /\ Begun(service, type) = Append(Append(Append(<<>>, StartOp), OpenOp(service)), c)
  BY DEF Begun
<1>2. Fresh.error = "none" /\ StartOp.op = "start_session" /\ OpenOp(service).op = "open_service"
      /\ c.op = "create_request" /\ c.id = "req1" /\ c.service = service /\ c.type = type
  BY DEF Fresh, StartOp, OpenOp, CreateOp
<1>3. Execute(Append(<<>>, StartOp)) = Fresh
  <2>1. Execute(Append(<<>>, StartOp)) = RunOp(Fresh, StartOp)
    BY <1>1, ExecuteNone, ExecuteNext
  <2> QED
    BY <1>2, <2>1 DEF RunOp
<1>4. Execute(Append(Append(<<>>, StartOp), OpenOp(service))) = Fresh
  <2>1. Execute(Append(Append(<<>>, StartOp), OpenOp(service))) = RunOp(Fresh, OpenOp(service))
    BY <1>1, <1>3, ExecuteNext
  <2> QED
    BY <1>2, <2>1 DEF RunOp
<1>5. Execute(Begun(service, type)) = RunOp(Fresh, c)
  BY <1>1, <1>4, ExecuteNext
<1>6. RunOp(Fresh, c) = CreateRequest(Fresh, c)
  BY <1>2 DEF RunOp
<1>7. CreateRequest(Fresh, c)
        = [Fresh EXCEPT !.requests = Bind(<<>>, "req1", RequestFor(service, type, <<>>))]
  BY <1>2 DEF CreateRequest, Fresh, RequestFor
<1>8. Bind(<<>>, "req1", RequestFor(service, type, <<>>))
        = [x \in {"req1"} |-> RequestFor(service, type, <<>>)]
  BY DEF Bind
<1> QED
  BY <1>5, <1>6, <1>7, <1>8 DEF Fresh, Making

LEMMA AskingMore ==
  ASSUME NEW service, NEW type, NEW paths, NEW more
  PROVE  [RequestFor(service, type, paths) EXCEPT !.paths = more] = RequestFor(service, type, more)
  BY DEF RequestFor

LEMMA RunsPut ==
  ASSUME NEW service, NEW type, NEW paths \in Seq(AllPaths), NEW o \in GoodPuts
  PROVE  RunOp(Making(service, type, paths), o) = Making(service, type, Append(paths, o.path))
<1> DEFINE run == Making(service, type, paths)
           made == RequestFor(service, type, paths)
<1>1. o.op \in {"append", "set"} /\ o.id = "req1" /\ (o.op = "append") = (o.path \in ArrayPaths)
  BY PutForms DEF GoodPuts
<1>2. run.error = "none" /\ run.requests = [x \in {"req1"} |-> made] /\ "req1" \in DOMAIN run.requests
      /\ run = Making(service, type, paths)
  BY DEF Making, RequestFor
<1>3. RunOp(run, o) = [run EXCEPT !.requests["req1"].paths = Append(@, o.path)]
  BY <1>1, <1>2 DEF RunOp, PutElement
<1>4. PICK more : more = Append(paths, o.path)
  OBVIOUS
<1>5. [run EXCEPT !.requests["req1"].paths = more]
        = [run EXCEPT !.requests = [x \in {"req1"} |-> [made EXCEPT !.paths = more]]]
  BY <1>2 DEF Making, RequestFor
<1>6. [made EXCEPT !.paths = more] = RequestFor(service, type, more)
  BY AskingMore
<1>7. made.paths = paths
  BY DEF RequestFor
<1>8. RunOp(run, o) = [run EXCEPT !.requests["req1"].paths = more]
  BY <1>2, <1>3, <1>4, <1>7
<1>9. RunOp(run, o) = Making(service, type, more)
  <2>1. RunOp(run, o) = [run EXCEPT !.requests = [x \in {"req1"} |-> RequestFor(service, type, more)]]
    BY <1>5, <1>6, <1>8
  <2> QED
    BY <2>1 DEF Making
<1> QED
  BY <1>4, <1>9

(* Sequences: the last element, and what comes before.                     *)
LEMMA FrontAndLast ==
  ASSUME NEW S, NEW n \in Nat, NEW q \in Seq(S), Len(q) = n + 1
  PROVE  /\ SubSeq(q, 1, n) \in Seq(S) /\ Len(SubSeq(q, 1, n)) = n /\ q[n + 1] \in S
         /\ \A i \in 1..n : SubSeq(q, 1, n)[i] = q[i]
         /\ q = Append(SubSeq(q, 1, n), q[n + 1])
<1> DEFINE f == SubSeq(q, 1, n)
           a == Append(f, q[n + 1])
<1>1. f \in Seq(S) /\ Len(f) = n /\ q[n + 1] \in S /\ \A i \in 1..n : f[i] = q[i]
  OBVIOUS
<1>2. a \in Seq(S) /\ Len(a) = n + 1 /\ \A i \in 1..n : a[i] = f[i]
  BY <1>1
<1>3. a[n + 1] = q[n + 1]
  BY <1>1
<1>4. \A i \in 1..(n + 1) : a[i] = q[i]
  BY <1>1, <1>2, <1>3
<1> HIDE DEF f, a
<1>5. a = q
  BY <1>2, <1>4, SeqEqual
<1> QED
  BY <1>1, <1>5 DEF f, a

LEMMA EndsInLast ==
  ASSUME NEW S, NEW n \in Nat, NEW q \in Seq(S), Len(q) = n + 1
  PROVE  \E f \in Seq(S), x \in S : Len(f) = n /\ q = Append(f, x)
<1> DEFINE f == SubSeq(q, 1, n)
           x == q[n + 1]
<1>1. f \in Seq(S) /\ x \in S /\ Len(f) = n /\ q = Append(f, x)
  BY FrontAndLast
<1> HIDE DEF f, x
<1> QED
  BY <1>1

LEMMA ConcatOneMore ==
  ASSUME NEW S, NEW p \in Seq(S), NEW q \in Seq(S), NEW x \in S
  PROVE  p \o Append(q, x) = Append(p \o q, x)
<1>1. Append(q, x) = q \o <<x>> /\ Append(p \o q, x) = (p \o q) \o <<x>>
  BY AppendIsConcat
<1>2. p \o (q \o <<x>>) = (p \o q) \o <<x>>
  BY ConcatAssociative
<1> QED
  BY <1>1, <1>2

PathsPut(puts) == [n \in DOMAIN puts |-> puts[n].path]

LEMMA PathsPutNext ==
  ASSUME NEW puts \in Seq(Puts), NEW o \in Puts
  PROVE  /\ PathsPut(puts) \in Seq(AllPaths)
         /\ PathsPut(Append(puts, o)) = Append(PathsPut(puts), o.path)
<1> DEFINE p == PathsPut(puts)
           a == Append(p, o.path)
           b == PathsPut(Append(puts, o))
           n == Len(puts)
<1>1. n \in Nat /\ DOMAIN puts = 1..n /\ Append(puts, o) \in Seq(Puts)
      /\ DOMAIN Append(puts, o) = 1..(n + 1) /\ Append(puts, o)[n + 1] = o
      /\ \A i \in 1..n : Append(puts, o)[i] = puts[i] /\ puts[i] \in Puts
  OBVIOUS
<1>2. \A x \in Puts : x.path \in AllPaths
  BY PutForms
<1>3. p \in Seq(AllPaths) /\ Len(p) = n /\ \A i \in 1..n : p[i] = puts[i].path
  BY <1>1, <1>2 DEF PathsPut
<1>4. b \in Seq(AllPaths) /\ Len(b) = n + 1 /\ b[n + 1] = o.path /\ \A i \in 1..n : b[i] = puts[i].path
  <2>1. \A i \in 1..(n + 1) : Append(puts, o)[i].path \in AllPaths
    BY <1>1, <1>2
  <2> QED
    BY <1>1, <2>1 DEF PathsPut
<1> HIDE DEF p, b
<1>5. a \in Seq(AllPaths) /\ Len(a) = n + 1 /\ a[n + 1] = o.path /\ \A i \in 1..n : a[i] = p[i]
  BY <1>1, <1>2, <1>3
<1> HIDE DEF a
<1>6. \A i \in 1..(n + 1) : a[i] = b[i]
  BY <1>1, <1>3, <1>4, <1>5
<1>7. a = b
  BY <1>4, <1>5, <1>6, SeqEqual
<1> QED
  BY <1>3, <1>7 DEF a, b, p

(* The operations of a plan.                                               *)
PlanOps == {StartOp} \cup {OpenOp(s) : s \in {RefdataService, FieldsService}}
           \cup {CreateOp(s, t, "req1") : s \in {RefdataService, FieldsService}, t \in DOMAIN RequiredElements}
           \cup Puts \cup {SendOp("req1", "cid1")} \cup {CollectOp("cid1", t) : t \in Nat}

LEMMA BegunOps ==
  ASSUME NEW service \in {RefdataService, FieldsService}, NEW type \in DOMAIN RequiredElements
  PROVE  Begun(service, type) \in Seq(PlanOps)
<1>1. StartOp \in PlanOps /\ OpenOp(service) \in PlanOps /\ CreateOp(service, type, "req1") \in PlanOps
  BY DEF PlanOps
<1> QED
  BY <1>1 DEF Begun

(* A run of the puts gives the request their paths, in their order.        *)
LEMMA RunsPuts ==
  ASSUME NEW service \in {RefdataService, FieldsService}, NEW type \in DOMAIN RequiredElements,
         NEW puts \in Seq(GoodPuts)
  PROVE  Execute(Begun(service, type) \o puts) = Making(service, type, PathsPut(puts))
<1> DEFINE begun == Begun(service, type)
           Reached == {n \in Nat : \A q \in Seq(GoodPuts) :
                         Len(q) = n => Execute(begun \o q) = Making(service, type, PathsPut(q))}
<1>0. begun \in Seq(PlanOps) /\ GoodPuts \subseteq Puts /\ Puts \subseteq PlanOps
  BY BegunOps DEF GoodPuts, PlanOps
<1>1. 0 \in Reached
  <2>1. ASSUME NEW q \in Seq(GoodPuts), Len(q) = 0
        PROVE  Execute(begun \o q) = Making(service, type, PathsPut(q))
    <3>1. q = <<>>
      BY <2>1
    <3>2. begun \o q = begun
      BY <1>0, <3>1, ConcatEmptySeq
    <3>3. PathsPut(q) = <<>>
      BY <3>1 DEF PathsPut
    <3> QED
      BY <3>2, <3>3, RunsToCreate
  <2> QED
    BY <2>1
<1>2. ASSUME NEW n \in Nat, n \in Reached PROVE n + 1 \in Reached
  <2>1. ASSUME NEW q \in Seq(GoodPuts), Len(q) = n + 1
        PROVE  Execute(begun \o q) = Making(service, type, PathsPut(q))
    <3>1. PICK f \in Seq(GoodPuts), o \in GoodPuts : Len(f) = n /\ q = Append(f, o)
      <4> HIDE DEF begun, Reached
      <4> QED
        BY <2>1, EndsInLast
    <3>2. f \in Seq(Puts) /\ f \in Seq(PlanOps) /\ o \in Puts /\ o \in PlanOps
      BY <1>0
    <3>3. Execute(begun \o f) = Making(service, type, PathsPut(f))
      BY <1>2, <3>1
    <3>4. begun \o q = Append(begun \o f, o) /\ begun \o f \in Seq(PlanOps)
      BY <1>0, <3>1, <3>2, ConcatOneMore, ConcatProperties
    <3>5. Execute(begun \o q) = RunOp(Making(service, type, PathsPut(f)), o)
      BY <3>2, <3>3, <3>4, ExecuteNext
    <3>6. PathsPut(f) \in Seq(AllPaths) /\ PathsPut(q) = Append(PathsPut(f), o.path)
      BY <3>1, <3>2, PathsPutNext
    <3>7. RunOp(Making(service, type, PathsPut(f)), o) = Making(service, type, Append(PathsPut(f), o.path))
      BY <3>1, <3>6, RunsPut
    <3> QED
      BY <3>5, <3>6, <3>7
  <2> QED
    BY <2>1
<1> HIDE DEF Reached
<1>3. Nat \subseteq Reached
  BY <1>1, <1>2, Running!NatSetInduction
<1>4. Len(puts) \in Nat
  OBVIOUS
<1> QED
  BY <1>3, <1>4 DEF Reached

(* A run of puts of which Bloomberg refuses one stays where it is.         *)
Stuck(run) == run.error = "array element" /\ run.sent = <<>> /\ run.got = <<>>

LEMMA StuckStays ==
  ASSUME NEW run, Stuck(run), NEW o PROVE Stuck(RunOp(run, o))
  BY DEF Stuck, RunOp

LEMMA PutRefused ==
  ASSUME NEW service, NEW type, NEW paths, NEW o \in Puts, o \notin GoodPuts
  PROVE  Stuck(RunOp(Making(service, type, paths), o))
<1> DEFINE run == Making(service, type, paths)
<1>1. o.op \in {"append", "set"} /\ o.id = "req1" /\ (o.op = "append") # (o.path \in ArrayPaths)
  BY PutForms DEF GoodPuts
<1>2. run.error = "none" /\ "req1" \in DOMAIN run.requests /\ run.sent = <<>> /\ run.got = <<>>
  BY DEF Making
<1>3. RunOp(run, o) = [run EXCEPT !.error = "array element"]
  BY <1>1, <1>2 DEF RunOp, PutElement, Failed
<1>4. [run EXCEPT !.error = "array element"].error = "array element"
      /\ [run EXCEPT !.error = "array element"].sent = run.sent
      /\ [run EXCEPT !.error = "array element"].got = run.got
  BY DEF Making
<1> QED
  BY <1>2, <1>3, <1>4 DEF Stuck

LEMMA RunsRefusedPuts ==
  ASSUME NEW service \in {RefdataService, FieldsService}, NEW type \in DOMAIN RequiredElements,
         NEW puts \in Seq(Puts), puts \notin Seq(GoodPuts)
  PROVE  Stuck(Execute(Begun(service, type) \o puts))
<1> DEFINE begun == Begun(service, type)
           Reached == {n \in Nat : \A q \in Seq(Puts) :
                         Len(q) = n /\ q \notin Seq(GoodPuts) => Stuck(Execute(begun \o q))}
<1>0. begun \in Seq(PlanOps) /\ Puts \subseteq PlanOps
  BY BegunOps DEF PlanOps
<1>1. 0 \in Reached
  <2>1. \A q \in Seq(Puts) : Len(q) = 0 => q = <<>>
    OBVIOUS
  <2>2. <<>> \in Seq(GoodPuts)
    OBVIOUS
  <2> QED
    BY <2>1, <2>2
<1>2. ASSUME NEW n \in Nat, n \in Reached PROVE n + 1 \in Reached
  <2>1. ASSUME NEW q \in Seq(Puts), Len(q) = n + 1, q \notin Seq(GoodPuts)
        PROVE  Stuck(Execute(begun \o q))
    <3>0. q \in Seq(Puts) /\ Len(q) = n + 1 /\ n \in Nat
      BY <2>1
    <3>1. PICK f \in Seq(Puts), o \in Puts : Len(f) = n /\ q = Append(f, o)
      BY ONLY <3>0, EndsInLast
    <3>2. f \in Seq(PlanOps) /\ o \in PlanOps
      BY <1>0
    <3>3. begun \o q = Append(begun \o f, o) /\ begun \o f \in Seq(PlanOps)
      BY <1>0, <3>1, <3>2, ConcatOneMore, ConcatProperties
    <3>4. Execute(begun \o q) = RunOp(Execute(begun \o f), o)
      BY <3>2, <3>3, ExecuteNext
    <3>5. CASE f \in Seq(GoodPuts)
      <4>1. o \notin GoodPuts
        BY <2>1, <3>1, <3>5
      <4>2. Execute(begun \o f) = Making(service, type, PathsPut(f))
        BY <3>5, RunsPuts
      <4> QED
        BY <3>4, <4>1, <4>2, PutRefused
    <3>6. CASE f \notin Seq(GoodPuts)
      <4>1. Stuck(Execute(begun \o f))
        BY <1>2, <3>1, <3>6
      <4> QED
        BY <3>4, <4>1, StuckStays
    <3> QED
      BY <3>5, <3>6
  <2> QED
    BY <2>1
<1> HIDE DEF Reached
<1>3. Nat \subseteq Reached
  BY <1>1, <1>2, Running!NatSetInduction
<1>4. Len(puts) \in Nat
  OBVIOUS
<1> QED
  BY <1>3, <1>4 DEF Reached

(* The send and the collect of a plan that made its request.               *)
Sent(service, type, paths) ==
  [Making(service, type, paths) EXCEPT
     !.registered = {"cid1"}, !.queued = {"cid1"},
     !.sent = [x \in {"cid1"} |-> RequestFor(service, type, paths)]]

Ended(service, type, paths) ==
  [Sent(service, type, paths) EXCEPT
     !.queued = {}, !.got = <<[cid |-> "cid1", request |-> RequestFor(service, type, paths)]>>]

LEMMA RunsSend ==
  ASSUME NEW service, NEW type, NEW paths
  PROVE  RunOp(Making(service, type, paths), SendOp("req1", "cid1")) = Sent(service, type, paths)
<1> DEFINE run == Making(service, type, paths)
           o == SendOp("req1", "cid1")
<1>1. o.op = "send_request" /\ o.id = "req1" /\ o.cid = "cid1"
  BY DEF SendOp
<1>2. /\ run.error = "none" /\ run.requests["req1"] = RequestFor(service, type, paths)
      /\ run.queued = {} /\ run.registered = {} /\ run.sent = <<>> /\ "req1" \in DOMAIN run.requests
  BY DEF Making
<1>3. Bind(<<>>, "cid1", RequestFor(service, type, paths)) = [x \in {"cid1"} |-> RequestFor(service, type, paths)]
  BY DEF Bind
<1>4. RunOp(run, o) = [run EXCEPT !.registered = run.registered \cup {"cid1"}, !.queued = run.queued \cup {"cid1"},
                                  !.sent = Bind(run.sent, "cid1", run.requests["req1"])]
  BY <1>1, <1>2 DEF RunOp, SendRequest
<1> HIDE DEF run, o
<1>5. RunOp(run, o) = [run EXCEPT !.registered = {"cid1"}, !.queued = {"cid1"},
                                  !.sent = [x \in {"cid1"} |-> RequestFor(service, type, paths)]]
  <2>1. run.registered \cup {"cid1"} = {"cid1"} /\ run.queued \cup {"cid1"} = {"cid1"}
    BY <1>2
  <2> QED
    BY <1>2, <1>3, <1>4, <2>1
<1> QED
  BY <1>5 DEF Sent, run, o

LEMMA RunsCollect ==
  ASSUME NEW service, NEW type, NEW paths, NEW timeout
  PROVE  RunOp(Sent(service, type, paths), CollectOp("cid1", timeout)) = Ended(service, type, paths)
<1> DEFINE run == Sent(service, type, paths)
           o == CollectOp("cid1", timeout)
           answer == [cid |-> "cid1", request |-> RequestFor(service, type, paths)]
<1>1. o.op = "collect_response" /\ o.cid = "cid1"
  BY DEF CollectOp
<1>2. /\ run.error = "none" /\ run.queued = {"cid1"} /\ run.got = <<>>
      /\ run.sent["cid1"] = RequestFor(service, type, paths)
  BY DEF Sent, Making
<1>3. RunOp(run, o) = [run EXCEPT !.queued = run.queued \ {"cid1"},
                                  !.got = Append(run.got, [cid |-> "cid1", request |-> run.sent["cid1"]])]
  BY <1>1, <1>2 DEF RunOp, CollectResponse
<1> HIDE DEF run, o
<1>4. run.queued \ {"cid1"} = {} /\ Append(run.got, answer) = <<answer>>
  BY <1>2
<1>5. RunOp(run, o) = [run EXCEPT !.queued = {}, !.got = <<answer>>]
  BY <1>2, <1>3, <1>4
<1> QED
  BY <1>5 DEF Ended, run, o

LEMMA EndedFields ==
  ASSUME NEW service, NEW type, NEW paths
  PROVE  /\ Ended(service, type, paths).error = "none"
         /\ Ended(service, type, paths).registered = {"cid1"}
         /\ Ended(service, type, paths).got = <<[cid |-> "cid1", request |-> RequestFor(service, type, paths)]>>
  BY DEF Ended, Sent, Making

(* A plan is what makes the request, then a send and a collect.            *)
Made(service, type, puts) == Begun(service, type) \o puts
AndSent(service, type, puts) == Append(Made(service, type, puts), SendOp("req1", "cid1"))

LEMMA MadeAndSent ==
  ASSUME NEW service \in {RefdataService, FieldsService}, NEW type \in DOMAIN RequiredElements,
         NEW puts \in Seq(Puts)
  PROVE  /\ Made(service, type, puts) \in Seq(PlanOps) /\ Len(Made(service, type, puts)) = Len(puts) + 3
         /\ AndSent(service, type, puts) \in Seq(PlanOps) /\ SendOp("req1", "cid1") \in PlanOps
<1>1. Begun(service, type) \in Seq(PlanOps) /\ puts \in Seq(PlanOps) /\ SendOp("req1", "cid1") \in PlanOps
  <2>1. Puts \subseteq PlanOps /\ SendOp("req1", "cid1") \in PlanOps
    BY DEF PlanOps
  <2> QED
    BY <2>1, BegunOps
<1>2. Len(Begun(service, type)) = 3
  BY DEF Begun
<1>3. \A f, g \in Seq(PlanOps) : f \o g \in Seq(PlanOps) /\ Len(f \o g) = Len(f) + Len(g)
  BY ConcatProperties
<1>4. Made(service, type, puts) \in Seq(PlanOps) /\ Len(Made(service, type, puts)) = 3 + Len(puts)
  BY <1>1, <1>2, <1>3 DEF Made
<1> QED
  BY <1>1, <1>4 DEF AndSent

LEMMA CollectIsOp ==
  ASSUME NEW timeout \in Nat PROVE CollectOp("cid1", timeout) \in PlanOps
  BY DEF PlanOps

LEMMA RequestEnds ==
  ASSUME NEW service \in {RefdataService, FieldsService}, NEW type \in DOMAIN RequiredElements,
         NEW puts \in Seq(Puts), NEW timeout \in Nat
  PROVE  Request(service, type, puts, timeout)
           = Append(AndSent(service, type, puts), CollectOp("cid1", timeout))
<1> DEFINE made == Made(service, type, puts)
           send == SendOp("req1", "cid1")
           collect == CollectOp("cid1", timeout)
<1>1. made \in Seq(PlanOps) /\ send \in PlanOps /\ collect \in PlanOps
  BY MadeAndSent, CollectIsOp
<1>2. Request(service, type, puts, timeout) = made \o <<send, collect>>
  BY DEF Request, Made, Begun
<1>3. AndSent(service, type, puts) = Append(made, send)
  BY DEF AndSent
<1> HIDE DEF made, send, collect
<1>4. <<send>> \in Seq(PlanOps) /\ <<send, collect>> = Append(<<send>>, collect)
  BY <1>1
<1>5. made \o Append(<<send>>, collect) = Append(made \o <<send>>, collect)
  BY <1>1, <1>4, ConcatOneMore
<1>6. made \o <<send>> = Append(made, send)
  BY <1>1, AppendIsConcat
<1> QED
  BY <1>2, <1>3, <1>4, <1>5, <1>6 DEF collect

LEMMA RequestRuns ==
  ASSUME NEW service \in {RefdataService, FieldsService}, NEW type \in DOMAIN RequiredElements,
         NEW puts \in Seq(GoodPuts), NEW timeout \in Nat
  PROVE  Execute(Request(service, type, puts, timeout)) = Ended(service, type, PathsPut(puts))
<1> DEFINE made == Made(service, type, puts)
           sent == AndSent(service, type, puts)
           send == SendOp("req1", "cid1")
           collect == CollectOp("cid1", timeout)
<1>1. puts \in Seq(Puts)
  BY DEF GoodPuts
<1>2. made \in Seq(PlanOps) /\ sent \in Seq(PlanOps) /\ send \in PlanOps /\ collect \in PlanOps
  BY <1>1, MadeAndSent, CollectIsOp
<1>3. Request(service, type, puts, timeout) = Append(sent, collect)
  BY <1>1, RequestEnds
<1>4. Execute(made) = Making(service, type, PathsPut(puts))
  BY RunsPuts DEF Made
<1>5. sent = Append(made, send)
  BY DEF AndSent
<1> HIDE DEF made, sent, send, collect
<1>6. Execute(sent) = Sent(service, type, PathsPut(puts))
  BY <1>2, <1>4, <1>5, ExecuteNext, RunsSend DEF send
<1>7. Execute(Append(sent, collect)) = RunOp(Sent(service, type, PathsPut(puts)), collect)
  BY <1>2, <1>6, ExecuteNext
<1>8. RunOp(Sent(service, type, PathsPut(puts)), collect) = Ended(service, type, PathsPut(puts))
  BY RunsCollect DEF collect
<1> QED
  BY <1>3, <1>7, <1>8

(* What stands where in a plan.                                            *)
Stands(plan, service, type, puts, timeout) ==
  LET n == Len(puts)
  IN  /\ DOMAIN plan = 1..(n + 5) /\ plan = [i \in DOMAIN plan |-> plan[i]]
      /\ plan[1] = StartOp /\ plan[2] = OpenOp(service) /\ plan[3] = CreateOp(service, type, "req1")
      /\ \A i \in 1..n : plan[i + 3] = puts[i]
      /\ plan[n + 4] = SendOp("req1", "cid1") /\ plan[n + 5] = CollectOp("cid1", timeout)

LEMMA RequestStands ==
  ASSUME NEW service \in {RefdataService, FieldsService}, NEW type \in DOMAIN RequiredElements,
         NEW puts \in Seq(Puts), NEW timeout \in Nat
  PROVE  Stands(Request(service, type, puts, timeout), service, type, puts, timeout)
<1> DEFINE begun == Begun(service, type)
           before == begun \o puts
           finish == Finish(timeout)
           n == Len(puts)
<1>1. begun \in Seq(PlanOps) /\ puts \in Seq(PlanOps) /\ finish \in Seq(PlanOps) /\ n \in Nat
  <2>1. SendOp("req1", "cid1") \in PlanOps /\ CollectOp("cid1", timeout) \in PlanOps
    BY DEF PlanOps
  <2>2. Puts \subseteq PlanOps
    BY DEF PlanOps
  <2> QED
    BY <2>1, <2>2, BegunOps DEF Finish
<1>2. /\ Len(begun) = 3 /\ begun[1] = StartOp /\ begun[2] = OpenOp(service)
      /\ begun[3] = CreateOp(service, type, "req1")
      /\ Len(finish) = 2 /\ finish[1] = SendOp("req1", "cid1") /\ finish[2] = CollectOp("cid1", timeout)
  BY DEF Begun, Finish
<1>3. Request(service, type, puts, timeout) = before \o finish
  BY DEF Request, Begun, Finish
<1> HIDE DEF begun, finish
<1>4. /\ before \in Seq(PlanOps) /\ Len(before) = n + 3 /\ \A i \in 1..3 : before[i] = begun[i]
      /\ \A i \in 1..n : before[i + 3] = puts[i]
  <2>1. /\ before \in Seq(PlanOps) /\ Len(before) = Len(begun) + Len(puts)
        /\ \A i \in 1..(Len(begun) + Len(puts)) :
             before[i] = IF i <= Len(begun) THEN begun[i] ELSE puts[i - Len(begun)]
    BY <1>1, ConcatProperties
  <2> QED
    BY <1>1, <1>2, <2>1
<1> HIDE DEF before
<1>5. /\ Len(before \o finish) = n + 5 /\ before \o finish \in Seq(PlanOps)
      /\ \A i \in 1..(n + 3) : (before \o finish)[i] = before[i]
      /\ \A i \in 1..2 : (before \o finish)[n + 3 + i] = finish[i]
  <2>1. /\ before \o finish \in Seq(PlanOps) /\ Len(before \o finish) = Len(before) + Len(finish)
        /\ \A i \in 1..(Len(before) + Len(finish)) :
             (before \o finish)[i] = IF i <= Len(before) THEN before[i] ELSE finish[i - Len(before)]
    BY <1>1, <1>4, ConcatProperties
  <2> QED
    BY <1>1, <1>2, <1>4, <2>1
<1> DEFINE plan == before \o finish
<1> HIDE DEF plan
<1>6. DOMAIN plan = 1..(n + 5) /\ plan = [i \in DOMAIN plan |-> plan[i]]
      /\ plan[1] = begun[1] /\ plan[2] = begun[2] /\ plan[3] = begun[3]
  <2>1. plan \in Seq(PlanOps) /\ DOMAIN plan = 1..(n + 5)
    BY <1>5 DEF plan
  <2>2. plan = [i \in DOMAIN plan |-> plan[i]]
    BY <2>1
  <2>3. plan[1] = before[1] /\ plan[2] = before[2] /\ plan[3] = before[3]
    <3>1. 1 \in 1..(n + 3) /\ 2 \in 1..(n + 3) /\ 3 \in 1..(n + 3)
      BY <1>1
    <3> QED
      BY <1>5, <3>1 DEF plan
  <2> QED
    BY <1>4, <2>1, <2>2, <2>3
<1>7. \A i \in 1..n : plan[i + 3] = puts[i]
  BY <1>1, <1>4, <1>5 DEF plan
<1>8. plan[n + 4] = finish[1] /\ plan[n + 5] = finish[2]
  BY <1>1, <1>5 DEF plan
<1> QED
  BY <1>2, <1>3, <1>6, <1>7, <1>8 DEF Stands, plan

LEMMA KindsOfOps ==
  ASSUME NEW service, NEW type, NEW timeout
  PROVE  /\ StartOp.op = "start_session" /\ OpenOp(service).op = "open_service"
         /\ CreateOp(service, type, "req1").op = "create_request"
         /\ SendOp("req1", "cid1").op = "send_request"
         /\ CollectOp("cid1", timeout).op = "collect_response"
         /\ OpenOp(service).service = service
         /\ CreateOp(service, type, "req1").service = service
         /\ CreateOp(service, type, "req1").type = type
         /\ CreateOp(service, type, "req1").id = "req1"
         /\ CollectOp("cid1", timeout).cid = "cid1" /\ CollectOp("cid1", timeout).timeout = timeout
  BY DEF StartOp, OpenOp, CreateOp, SendOp, CollectOp

(* At which place there is an operation of which kind.                     *)
LEMMA PlacesOfKinds ==
  ASSUME NEW plan, NEW service \in {RefdataService, FieldsService}, NEW type \in DOMAIN RequiredElements,
         NEW puts \in Seq(Puts), NEW timeout \in Nat, Stands(plan, service, type, puts, timeout)
  PROVE  /\ Positions(plan, "open_service") = {2}
         /\ Positions(plan, "create_request") = {3}
         /\ Positions(plan, "collect_response") = {Len(puts) + 5}
         /\ \A kind \in {"append", "set"} :
              Positions(plan, kind) = {i + 3 : i \in Positions(puts, kind)}
<1> DEFINE n == Len(puts)
<1>1. n \in Nat /\ DOMAIN puts = 1..n /\ DOMAIN plan = 1..(n + 5)
  BY DEF Stands
<1>2. /\ plan[1].op = "start_session" /\ plan[2].op = "open_service" /\ plan[3].op = "create_request"
      /\ plan[n + 4].op = "send_request" /\ plan[n + 5].op = "collect_response"
  BY KindsOfOps DEF Stands
<1>3. \A i \in 1..n : plan[i + 3] = puts[i] /\ plan[i + 3].op \in {"append", "set"}
  BY <1>1, PutForms DEF Stands
<1> HIDE DEF n
<1>4. ASSUME NEW j \in 1..(n + 5)
      PROVE  j \in {1, 2, 3, n + 4, n + 5} \/ (j - 3 \in 1..n /\ (j - 3) + 3 = j)
  BY <1>1
<1>5. ASSUME NEW j \in 1..(n + 5), j \notin {1, 2, 3, n + 4, n + 5}
      PROVE  plan[j].op \in {"append", "set"}
  BY <1>3, <1>4, <1>5
<1>6. Positions(plan, "open_service") = {2} /\ Positions(plan, "create_request") = {3}
  <2>0. 2 \in DOMAIN plan /\ 3 \in DOMAIN plan
    BY <1>1
  <2>1. \A j \in DOMAIN plan : plan[j].op = "open_service" => j = 2
    BY <1>1, <1>2, <1>5
  <2>2. \A j \in DOMAIN plan : plan[j].op = "create_request" => j = 3
    BY <1>1, <1>2, <1>5
  <2>3. Positions(plan, "open_service") = {2}
    BY <1>2, <2>0, <2>1 DEF Positions
  <2>4. Positions(plan, "create_request") = {3}
    BY <1>2, <2>0, <2>2 DEF Positions
  <2> QED
    BY <2>3, <2>4
<1>7. Positions(plan, "collect_response") = {n + 5}
  BY <1>1, <1>2, <1>5 DEF Positions
<1>8. ASSUME NEW kind \in {"append", "set"}
      PROVE  Positions(plan, kind) = {i + 3 : i \in Positions(puts, kind)}
  <2>1. ASSUME NEW j \in Positions(plan, kind) PROVE j \in {i + 3 : i \in Positions(puts, kind)}
    <3>1. j \in 1..(n + 5) /\ plan[j].op = kind
      BY <1>1, <2>1 DEF Positions
    <3>2. j - 3 \in 1..n /\ (j - 3) + 3 = j
      BY <1>2, <1>4, <3>1
    <3>3. puts[j - 3].op = kind
      BY <1>3, <3>1, <3>2
    <3> QED
      BY <1>1, <3>2, <3>3 DEF Positions
  <2>2. ASSUME NEW i \in Positions(puts, kind) PROVE i + 3 \in Positions(plan, kind)
    BY <1>1, <1>3, <2>2 DEF Positions
  <2> QED
    BY <2>1, <2>2
<1> QED
  BY <1>6, <1>7, <1>8 DEF n

(* The paths of the puts, and how many of them are appended to one path.   *)
PathsIn(puts) == {puts[i].path : i \in DOMAIN puts}

LEMMA OpsOfPlaces == \A plan, kind : OpsOf(plan, kind) = {plan[i] : i \in Positions(plan, kind)}
  BY DEF OpsOf, Positions

LEMMA RequestHas ==
  ASSUME NEW plan, NEW service \in {RefdataService, FieldsService}, NEW type \in DOMAIN RequiredElements,
         NEW puts \in Seq(Puts), NEW timeout \in Nat, Stands(plan, service, type, puts, timeout)
  PROVE  /\ OpsOf(plan, "open_service") = {OpenOp(service)}
         /\ OpsOf(plan, "create_request") = {CreateOp(service, type, "req1")}
         /\ OpsOf(plan, "collect_response") = {CollectOp("cid1", timeout)}
         /\ LastType(plan, "req1") = type
         /\ PathsSeen(plan, "req1") = PathsIn(puts)
<1> DEFINE n == Len(puts)
<1>0. /\ Positions(plan, "open_service") = {2} /\ Positions(plan, "create_request") = {3}
      /\ Positions(plan, "collect_response") = {n + 5}
      /\ \A kind \in {"append", "set"} :
           Positions(plan, kind) = {i + 3 : i \in Positions(puts, kind)}
  BY PlacesOfKinds
<1>1. /\ plan[2] = OpenOp(service) /\ plan[3] = CreateOp(service, type, "req1")
      /\ plan[n + 5] = CollectOp("cid1", timeout)
      /\ \A i \in 1..n : plan[i + 3] = puts[i]
      /\ DOMAIN puts = 1..n
  BY DEF Stands
<1>2. /\ plan[3].id = "req1" /\ plan[3].type = type
  BY <1>1, KindsOfOps
<1>3. LastType(plan, "req1") = type
  <2>1. {m \in Positions(plan, "create_request") : plan[m].id = "req1"} = {3}
    BY <1>0, <1>2
  <2>2. \E k \in {3} : \A m \in {3} : m <= k
    OBVIOUS
  <2>3. (CHOOSE k \in {3} : \A m \in {3} : m <= k) = 3
    BY <2>2
  <2> QED
    BY <1>2, <2>1, <2>3 DEF LastType
<1>4. OpsOf(plan, "append") \cup OpsOf(plan, "set") = {puts[i] : i \in DOMAIN puts}
  <2>1. \A i \in DOMAIN puts : puts[i].op \in {"append", "set"}
    BY PutForms
  <2>2. \A kind \in {"append", "set"} : OpsOf(plan, kind) = {puts[i] : i \in Positions(puts, kind)}
    <3>1. TAKE kind \in {"append", "set"}
    <3>2. \A i \in Positions(puts, kind) : plan[i + 3] = puts[i]
      BY <1>1 DEF Positions
    <3>3. Positions(plan, kind) = {i + 3 : i \in Positions(puts, kind)}
      BY <1>0
    <3> QED
      BY <3>2, <3>3, OpsOfPlaces
  <2> QED
    BY <2>1, <2>2 DEF Positions
<1>5. PathsSeen(plan, "req1") = PathsIn(puts)
  <2>1. \A i \in DOMAIN puts : puts[i].id = "req1"
    BY PutForms
  <2> QED
    BY <1>4, <2>1 DEF PathsSeen, PathsIn
<1> QED
  BY <1>0, <1>1, <1>3, <1>5, OpsOfPlaces

LEMMA ShiftedCount ==
  ASSUME NEW S \in SUBSET Nat, IsFiniteSet(S), NEW k \in Nat
  PROVE  IsFiniteSet({i + k : i \in S}) /\ Cardinality({i + k : i \in S}) = Cardinality(S)
<1> DEFINE T == {i + k : i \in S}
           f == [i \in S |-> i + k]
<1>1. f \in Bijection(S, T)
  <2>1. f \in [S -> T]
    OBVIOUS
  <2>2. \A a, b \in S : f[a] = f[b] => a = b
    OBVIOUS
  <2>3. \A t \in T : \E s \in S : f[s] = t
    OBVIOUS
  <2> HIDE DEF f, T
  <2> QED
    BY <2>1, <2>2, <2>3 DEF Bijection, Injection, Surjection, IsInjective
<1> HIDE DEF f, T
<1>2. IsFiniteSet(T) /\ Cardinality(T) = Cardinality(S)
  <2>1. ExistsBijection(S, T)
    BY <1>1 DEF ExistsBijection
  <2> QED
    BY <2>1, FS_Bijection
<1> QED
  BY <1>2 DEF T

AppendsAt(q, path) == {i \in DOMAIN q : q[i].op = "append" /\ q[i].path = path}

LEMMA AppendsCount == \A q, path : Appends(q, path) = Cardinality(AppendsAt(q, path))
<1>1. \A q, path : {n \in Positions(q, "append") : q[n].path = path} = AppendsAt(q, path)
  BY DEF Positions, AppendsAt
<1> QED
  BY <1>1 DEF Appends

LEMMA AppendsFinite ==
  ASSUME NEW q, NEW n \in Nat, DOMAIN q = 1..n, NEW path
  PROVE  AppendsAt(q, path) \in SUBSET Nat /\ IsFiniteSet(AppendsAt(q, path))
<1>1. IsFiniteSet(1..n)
  BY FS_Interval
<1>2. AppendsAt(q, path) \subseteq 1..n
  BY DEF AppendsAt
<1> QED
  BY <1>1, <1>2, FS_Subset

LEMMA RequestAppends ==
  ASSUME NEW plan, NEW service \in {RefdataService, FieldsService}, NEW type \in DOMAIN RequiredElements,
         NEW puts \in Seq(Puts), NEW timeout \in Nat, Stands(plan, service, type, puts, timeout),
         NEW path
  PROVE  Appends(plan, path) = Appends(puts, path)
<1>1. Positions(plan, "append") = {i + 3 : i \in Positions(puts, "append")}
  BY PlacesOfKinds
<1>2. \A i \in Positions(puts, "append") : plan[i + 3] = puts[i] /\ i \in Nat
  BY DEF Stands, Positions
<1>3. AppendsAt(plan, path) = {i + 3 : i \in AppendsAt(puts, path)}
  <2>1. AppendsAt(plan, path) = {j \in Positions(plan, "append") : plan[j].path = path}
    BY DEF AppendsAt, Positions
  <2>2. AppendsAt(puts, path) = {j \in Positions(puts, "append") : puts[j].path = path}
    BY DEF AppendsAt, Positions
  <2> QED
    BY <1>1, <1>2, <2>1, <2>2
<1>4. AppendsAt(puts, path) \in SUBSET Nat /\ IsFiniteSet(AppendsAt(puts, path))
  <2>1. Len(puts) \in Nat /\ DOMAIN puts = 1..Len(puts)
    OBVIOUS
  <2> QED
    BY <2>1, AppendsFinite
<1>5. Cardinality({i + 3 : i \in AppendsAt(puts, path)}) = Cardinality(AppendsAt(puts, path))
  BY <1>4, ShiftedCount
<1> QED
  BY <1>3, <1>5, AppendsCount

(* The ways in which the functions put elements, one after the other.      *)
LEMMA ConcatParts ==
  ASSUME NEW S, NEW p \in Seq(S), NEW q \in Seq(S)
  PROVE  /\ p \o q \in Seq(S) /\ DOMAIN (p \o q) = 1..(Len(p) + Len(q))
         /\ DOMAIN p = 1..Len(p) /\ DOMAIN q = 1..Len(q) /\ Len(p) \in Nat /\ Len(q) \in Nat
         /\ \A i \in DOMAIN p : (p \o q)[i] = p[i]
         /\ \A i \in DOMAIN q : (p \o q)[i + Len(p)] = q[i]
         /\ \A i \in DOMAIN (p \o q) : i \notin DOMAIN p => i - Len(p) \in DOMAIN q /\ (i - Len(p)) + Len(p) = i
<1>1. /\ p \o q \in Seq(S) /\ Len(p \o q) = Len(p) + Len(q) /\ Len(p) \in Nat /\ Len(q) \in Nat
      /\ \A i \in 1..(Len(p) + Len(q)) : (p \o q)[i] = IF i <= Len(p) THEN p[i] ELSE q[i - Len(p)]
  BY ConcatProperties, LenProperties
<1>2. DOMAIN p = 1..Len(p) /\ DOMAIN q = 1..Len(q) /\ DOMAIN (p \o q) = 1..(Len(p) + Len(q))
  BY <1>1, LenProperties
<1> DEFINE r == p \o q
           m == Len(p)
           n == Len(q)
<1> HIDE DEF r, m, n
<1> QED
  BY <1>1, <1>2 DEF r, m, n

LEMMA PathsOfConcat ==
  ASSUME NEW p \in Seq(Puts), NEW q \in Seq(Puts)
  PROVE  PathsIn(p \o q) = PathsIn(p) \cup PathsIn(q)
<1>1. /\ DOMAIN (p \o q) = 1..(Len(p) + Len(q)) /\ DOMAIN p = 1..Len(p) /\ DOMAIN q = 1..Len(q)
      /\ Len(p) \in Nat /\ Len(q) \in Nat
      /\ \A i \in DOMAIN p : (p \o q)[i] = p[i]
      /\ \A i \in DOMAIN q : (p \o q)[i + Len(p)] = q[i]
      /\ \A i \in DOMAIN (p \o q) : i \notin DOMAIN p => i - Len(p) \in DOMAIN q /\ (i - Len(p)) + Len(p) = i
  BY ConcatParts
<1> DEFINE r == p \o q
<1> HIDE DEF r
<1>2. ASSUME NEW i \in DOMAIN r PROVE r[i].path \in PathsIn(p) \cup PathsIn(q)
  BY <1>1 DEF PathsIn, r
<1>3. ASSUME NEW i \in DOMAIN p PROVE p[i].path \in PathsIn(r)
  <2>1. i \in DOMAIN r /\ r[i] = p[i]
    BY <1>1 DEF r
  <2> QED
    BY <2>1 DEF PathsIn
<1>4. ASSUME NEW i \in DOMAIN q PROVE q[i].path \in PathsIn(r)
  <2>1. i + Len(p) \in DOMAIN r /\ r[i + Len(p)] = q[i]
    BY <1>1 DEF r
  <2> QED
    BY <2>1 DEF PathsIn
<1>5. PathsIn(r) = PathsIn(p) \cup PathsIn(q)
  BY <1>2, <1>3, <1>4 DEF PathsIn
<1> QED
  BY <1>5 DEF r

LEMMA AppendsOfConcat ==
  ASSUME NEW p \in Seq(Puts), NEW q \in Seq(Puts), NEW path
  PROVE  Appends(p \o q, path) = Appends(p, path) + Appends(q, path)
<1> DEFINE A == AppendsAt(p, path)
           B == AppendsAt(q, path)
           m == Len(p)
           C == {i + m : i \in B}
           r == p \o q
<1>1. /\ DOMAIN r = 1..(m + Len(q)) /\ DOMAIN p = 1..m /\ DOMAIN q = 1..Len(q)
      /\ m \in Nat /\ Len(q) \in Nat
      /\ \A i \in DOMAIN p : r[i] = p[i]
      /\ \A i \in DOMAIN q : r[i + m] = q[i]
      /\ \A i \in DOMAIN r : i \notin DOMAIN p => i - m \in DOMAIN q /\ (i - m) + m = i
  BY ConcatParts
<1>2. A \in SUBSET Nat /\ B \in SUBSET Nat /\ IsFiniteSet(A) /\ IsFiniteSet(B)
  BY <1>1, AppendsFinite
<1> HIDE DEF m, r
<1>3. IsFiniteSet(C) /\ Cardinality(C) = Cardinality(B)
  BY <1>1, <1>2, ShiftedCount
<1>4. A \subseteq 1..m /\ B \subseteq 1..Len(q)
  BY <1>1 DEF AppendsAt
<1>5. A \cap C = {}
  BY <1>1, <1>4
<1>6. AppendsAt(r, path) = A \cup C
  <2>1. ASSUME NEW i \in AppendsAt(r, path) PROVE i \in A \cup C
    <3>1. CASE i \in DOMAIN p
      BY <1>1, <2>1, <3>1 DEF AppendsAt
    <3>2. CASE i \notin DOMAIN p
      <4>1. i \in DOMAIN r
        BY DEF AppendsAt
      <4>2. i - m \in DOMAIN q /\ (i - m) + m = i /\ r[(i - m) + m] = q[i - m]
        BY <1>1, <3>2, <4>1
      <4>3. i - m \in B
        BY <2>1, <4>2 DEF AppendsAt
      <4> QED
        BY <4>2, <4>3
    <3> QED
      BY <3>1, <3>2
  <2>2. ASSUME NEW i \in A PROVE i \in AppendsAt(r, path)
    BY <1>1, <2>2 DEF AppendsAt
  <2>3. ASSUME NEW i \in B PROVE i + m \in AppendsAt(r, path)
    BY <1>1, <2>3 DEF AppendsAt
  <2> QED
    BY <2>1, <2>2, <2>3
<1>7. Cardinality(A \cup C) = Cardinality(A) + Cardinality(C)
  <2>1. Cardinality(A \cup C) = Cardinality(A) + Cardinality(C) - Cardinality(A \cap C)
    BY <1>2, <1>3, FS_Union
  <2>2. Cardinality(A \cap C) = 0
    BY <1>5, FS_EmptySet
  <2>3. Cardinality(A) \in Nat /\ Cardinality(C) \in Nat
    BY <1>2, <1>3, FS_CardinalityType
  <2> QED
    BY <2>1, <2>2, <2>3
<1> QED
  BY <1>3, <1>6, <1>7, AppendsCount DEF r

LEMMA GoodConcat ==
  ASSUME NEW p \in Seq(GoodPuts), NEW q \in Seq(GoodPuts)
  PROVE  /\ p \o q \in Seq(GoodPuts) /\ PathsIn(p \o q) = PathsIn(p) \cup PathsIn(q)
         /\ \A path : Appends(p \o q, path) = Appends(p, path) + Appends(q, path)
<1>1. p \in Seq(Puts) /\ q \in Seq(Puts)
  BY DEF GoodPuts
<1>2. p \o q \in Seq(GoodPuts)
  BY ConcatProperties
<1> QED
  BY <1>1, <1>2, PathsOfConcat, AppendsOfConcat

(* The paths there are; an override is no element of its own.             *)
LEMMA PathsExist ==
  /\ {"startDate", "endDate", "periodicitySelection", "security", "eventType", "interval",
      "startDateTime", "endDateTime", "returnFieldDocumentation"} \subseteq AllPaths \ ArrayPaths
  /\ ArrayPaths \subseteq AllPaths
<1>1. \A t \in DOMAIN RequiredElements : RequiredElements[t] \subseteq ElementPaths
  BY DEF ElementPaths
<1>2. /\ {"startDate", "endDate"} \subseteq RequiredElements["HistoricalDataRequest"]
      /\ "HistoricalDataRequest" \in DOMAIN RequiredElements
  BY DEF RequiredElements
<1>3. /\ {"security", "eventType", "interval", "startDateTime", "endDateTime"}
           \subseteq RequiredElements["IntradayBarRequest"]
      /\ "IntradayBarRequest" \in DOMAIN RequiredElements
  BY DEF RequiredElements
<1>4. {"securities", "fields", "eventTypes", "id"} \subseteq ElementPaths
  <2>1. /\ {"securities", "fields"} \subseteq RequiredElements["ReferenceDataRequest"]
        /\ "ReferenceDataRequest" \in DOMAIN RequiredElements
    BY DEF RequiredElements
  <2>2. /\ "eventTypes" \in RequiredElements["IntradayTickRequest"]
        /\ "IntradayTickRequest" \in DOMAIN RequiredElements
    BY DEF RequiredElements
  <2>3. /\ "id" \in RequiredElements["FieldInfoRequest"]
        /\ "FieldInfoRequest" \in DOMAIN RequiredElements
    BY DEF RequiredElements
  <2> QED
    BY <1>1, <2>1, <2>2, <2>3
<1>5. {"periodicitySelection", "returnFieldDocumentation"} \subseteq ElementPaths
  BY DEF ElementPaths
<1>6. {"startDate", "endDate", "security", "eventType", "interval", "startDateTime", "endDateTime"} \subseteq ElementPaths
  BY <1>1, <1>2, <1>3
<1> QED
  BY <1>4, <1>5, <1>6, ClientPlansAssumption DEF ArrayPaths, ArrayElements, AllPaths

LEMMA AppendedPuts ==
  ASSUME NEW path \in ArrayPaths, NEW n \in Nat
  PROVE  /\ Appended(path, n) \in Seq(GoodPuts)
         /\ PathsIn(Appended(path, n)) = IF n = 0 THEN {} ELSE {path}
         /\ \A other : Appends(Appended(path, n), other) = IF other = path THEN n ELSE 0
<1> DEFINE q == Appended(path, n)
<1>0. path \in AllPaths
  BY PathsExist
<1>1. AppendOp("req1", path) \in GoodPuts /\ AppendOp("req1", path).op = "append"
      /\ AppendOp("req1", path).path = path
  BY <1>0 DEF GoodPuts, Puts, AppendOp
<1>2. q \in Seq(GoodPuts) /\ DOMAIN q = 1..n /\ \A i \in 1..n : q[i] = AppendOp("req1", path)
  BY <1>1 DEF Appended
<1> HIDE DEF q
<1>3. PathsIn(q) = IF n = 0 THEN {} ELSE {path}
  <2>1. CASE n = 0
    BY <1>2, <2>1 DEF PathsIn
  <2>2. CASE n # 0
    <3>1. 1 \in 1..n
      BY <2>2
    <3> QED
      BY <1>1, <1>2, <2>2, <3>1 DEF PathsIn
  <2> QED
    BY <2>1, <2>2
<1>4. ASSUME NEW other PROVE Appends(q, other) = IF other = path THEN n ELSE 0
  <2>1. CASE other = path
    <3>1. AppendsAt(q, other) = 1..n
      BY <1>1, <1>2, <2>1 DEF AppendsAt
    <3>2. Cardinality(1..n) = n
      BY FS_Interval
    <3> QED
      BY <2>1, <3>1, <3>2, AppendsCount
  <2>2. CASE other # path
    <3>1. AppendsAt(q, other) = {}
      BY <1>1, <1>2, <2>2 DEF AppendsAt
    <3> QED
      BY <2>2, <3>1, AppendsCount, FS_EmptySet
  <2> QED
    BY <2>1, <2>2
<1> QED
  BY <1>2, <1>3, <1>4 DEF q

LEMMA SetPuts ==
  ASSUME NEW paths \in Seq(AllPaths)
  PROVE  /\ SetAll(paths) \in Seq(Puts)
         /\ (\A i \in DOMAIN paths : paths[i] \notin ArrayPaths) => SetAll(paths) \in Seq(GoodPuts)
         /\ PathsIn(SetAll(paths)) = {paths[i] : i \in DOMAIN paths}
         /\ \A other : Appends(SetAll(paths), other) = 0
<1> DEFINE q == SetAll(paths)
           n == Len(paths)
<1>1. \A p \in AllPaths : /\ SetOp("req1", p) \in Puts /\ SetOp("req1", p).op = "set" /\ SetOp("req1", p).path = p
                          /\ (p \notin ArrayPaths => SetOp("req1", p) \in GoodPuts)
  BY DEF GoodPuts, Puts, SetOp
<1>2. n \in Nat /\ DOMAIN paths = 1..n /\ \A i \in 1..n : paths[i] \in AllPaths
  OBVIOUS
<1>3. DOMAIN q = 1..n /\ q = [i \in 1..n |-> SetOp("req1", paths[i])]
  BY <1>2 DEF SetAll
<1> HIDE DEF q, n
<1>4. q \in Seq(Puts) /\ ((\A i \in 1..n : paths[i] \notin ArrayPaths) => q \in Seq(GoodPuts))
  BY <1>1, <1>2, <1>3
<1>5. PathsIn(q) = {paths[i] : i \in DOMAIN paths}
  BY <1>1, <1>2, <1>3 DEF PathsIn
<1>6. ASSUME NEW other PROVE Appends(q, other) = 0
  <2>1. AppendsAt(q, other) = {}
    BY <1>1, <1>2, <1>3 DEF AppendsAt
  <2> QED
    BY <2>1, AppendsCount, FS_EmptySet
<1> QED
  BY <1>2, <1>4, <1>5, <1>6 DEF q

(* What a caller gets of an accepted plan.                                 *)
AnswerKept(plan) ==
  LET run == Execute(plan)
  IN  /\ Status(run) = "ok" /\ Len(run.got) = 1
      /\ RequiredElements[run.got[1].request.type] \subseteq ToSet(run.got[1].request.paths)
      /\ LeftRegistered(plan, run) = {}

WithinLimits(puts, timeout) ==
  /\ timeout <= MaxTimeout
  /\ Appends(puts, "securities") <= MaxSecurities /\ Appends(puts, "fields") <= MaxFields

LEMMA RequestValid ==
  ASSUME NEW service \in {RefdataService, FieldsService}, NEW type \in DOMAIN RequiredElements,
         NEW puts \in Seq(Puts), NEW timeout \in Nat
  PROVE  Valid(Request(service, type, puts, timeout))
           <=> RequiredElements[type] \subseteq PathsIn(puts) /\ WithinLimits(puts, timeout)
<1> DEFINE plan == Request(service, type, puts, timeout)
<1>1. Stands(plan, service, type, puts, timeout)
  BY RequestStands
<1> HIDE DEF plan
<1>2. /\ OpsOf(plan, "open_service") = {OpenOp(service)}
      /\ OpsOf(plan, "create_request") = {CreateOp(service, type, "req1")}
      /\ OpsOf(plan, "collect_response") = {CollectOp("cid1", timeout)}
      /\ LastType(plan, "req1") = type
      /\ PathsSeen(plan, "req1") = PathsIn(puts)
  BY <1>1, RequestHas
<1>3. \A path : Appends(plan, path) = Appends(puts, path)
  BY <1>1, RequestAppends
<1>4. ServiceAllowed(plan) /\ TypeAllowed(plan)
  BY <1>2, KindsOfOps DEF ServiceAllowed, TypeAllowed
<1>5. ElementsPresent(plan) <=> RequiredElements[type] \subseteq PathsIn(puts)
  <2>1. ElementsPresent(plan)
          <=> \A o \in {CreateOp(service, type, "req1")} :
                RequiredElements[LastType(plan, o.id)] \subseteq PathsSeen(plan, o.id)
    BY <1>2 DEF ElementsPresent
  <2>2. CreateOp(service, type, "req1").id = "req1"
    BY KindsOfOps
  <2> QED
    BY <1>2, <2>1, <2>2
<1>6. TimeoutsAllowed(plan) <=> timeout <= MaxTimeout
  BY <1>2, KindsOfOps DEF TimeoutsAllowed
<1>7. Valid(plan) <=> RequiredElements[type] \subseteq PathsIn(puts) /\ WithinLimits(puts, timeout)
  BY <1>3, <1>4, <1>5, <1>6 DEF Valid, WithinLimits
<1> QED
  BY <1>7 DEF plan

LEMMA RequestAnswered ==
  ASSUME NEW service \in {RefdataService, FieldsService}, NEW type \in DOMAIN RequiredElements,
         NEW puts \in Seq(GoodPuts), NEW timeout \in Nat,
         RequiredElements[type] \subseteq PathsIn(puts)
  PROVE  AnswerKept(Request(service, type, puts, timeout))
<1> DEFINE plan == Request(service, type, puts, timeout)
           run == Execute(plan)
           answer == [cid |-> "cid1", request |-> RequestFor(service, type, PathsPut(puts))]
<1>1. puts \in Seq(Puts)
  BY DEF GoodPuts
<1>2. run = Ended(service, type, PathsPut(puts))
  BY RequestRuns
<1>3. run.error = "none" /\ run.registered = {"cid1"} /\ run.got = <<answer>>
  BY <1>2, EndedFields
<1>4. Stands(plan, service, type, puts, timeout)
  BY <1>1, RequestStands
<1> HIDE DEF plan, run
<1>5. answer.request.type = type /\ answer.request.paths = PathsPut(puts)
  BY DEF RequestFor
<1>6. ToSet(PathsPut(puts)) = PathsIn(puts)
  BY DEF ToSet, PathsPut, PathsIn
<1>7. Len(run.got) = 1 /\ run.got[1] = answer
  BY <1>3
<1>8. LeftRegistered(plan, run) = {}
  <2>1. Positions(plan, "collect_response") = {Len(puts) + 5}
    BY <1>1, <1>4, PlacesOfKinds
  <2>2. plan[Len(puts) + 5].cid = "cid1"
    BY <1>4, KindsOfOps DEF Stands
  <2> QED
    BY <1>3, <2>1, <2>2 DEF LeftRegistered
<1>9. Status(run) = "ok"
  BY <1>3 DEF Status
<1> HIDE DEF answer
<1>10. RequiredElements[run.got[1].request.type] \subseteq ToSet(run.got[1].request.paths)
  BY <1>5, <1>6, <1>7
<1> QED
  BY <1>7, <1>8, <1>9, <1>10 DEF AnswerKept, run, plan

(* An accepted plan with a put that Bloomberg refuses.                     *)
NothingSent(plan) ==
  LET run == Execute(plan)
  IN  Status(run) = "error" /\ run.sent = <<>> /\ LeftRegistered(plan, run) = {}

LEMMA RequestStuck ==
  ASSUME NEW service \in {RefdataService, FieldsService}, NEW type \in DOMAIN RequiredElements,
         NEW puts \in Seq(Puts), puts \notin Seq(GoodPuts), NEW timeout \in Nat
  PROVE  NothingSent(Request(service, type, puts, timeout))
<1> DEFINE made == Made(service, type, puts)
           upTo == AndSent(service, type, puts)
           send == SendOp("req1", "cid1")
           collect == CollectOp("cid1", timeout)
           plan == Request(service, type, puts, timeout)
           n == Len(puts)
<1>0. made \in Seq(PlanOps) /\ Len(made) = n + 3 /\ upTo \in Seq(PlanOps) /\ send \in PlanOps
  BY MadeAndSent
<1>1. n \in Nat /\ collect \in PlanOps /\ upTo = Append(made, send)
  BY CollectIsOp DEF AndSent
<1>2. Stuck(Execute(made))
  BY RunsRefusedPuts DEF Made
<1>3. Stands(plan, service, type, puts, timeout) /\ plan = Append(upTo, collect)
  BY RequestStands, RequestEnds
<1> HIDE DEF made, upTo, send, collect, plan
<1>4. Stuck(Execute(upTo))
  <2>1. Execute(Append(made, send)) = RunOp(Execute(made), send)
    BY <1>0, ExecuteNext
  <2> QED
    BY <1>1, <1>2, <2>1, StuckStays
<1>5. Len(upTo) = n + 4
  BY <1>0, <1>1
<1>6. Stuck(Execute(plan))
  <2>1. Execute(Append(upTo, collect)) = RunOp(Execute(upTo), collect)
    BY <1>0, <1>1, ExecuteNext
  <2> QED
    BY <1>3, <1>4, <2>1, StuckStays
<1>7. SubSeq(plan, 1, (n + 5) - 1) = upTo
  <2>1. plan \in Seq(PlanOps) /\ Len(plan) = (n + 4) + 1 /\ \A i \in 1..(n + 4) : plan[i] = upTo[i]
    <3>1. \A f \in Seq(PlanOps), x \in PlanOps :
            /\ Append(f, x) \in Seq(PlanOps) /\ Len(Append(f, x)) = Len(f) + 1
            /\ \A i \in 1..Len(f) : Append(f, x)[i] = f[i]
      BY AppendProperties
    <3>2. plan = Append(upTo, collect)
      BY <1>3
    <3> QED
      BY <1>0, <1>1, <1>5, <3>1, <3>2
  <2>2. /\ SubSeq(plan, 1, n + 4) \in Seq(PlanOps) /\ Len(SubSeq(plan, 1, n + 4)) = n + 4
        /\ \A i \in 1..(n + 4) : SubSeq(plan, 1, n + 4)[i] = plan[i]
    BY <1>0, <1>1, <2>1, FrontAndLast
  <2>3. SubSeq(plan, 1, n + 4) = upTo
    BY <1>0, <1>1, <1>5, <2>1, <2>2, SeqEqual
  <2>4. (n + 5) - 1 = n + 4
    BY <1>1
  <2> QED
    BY <2>3, <2>4
<1>8. LeftRegistered(plan, Execute(plan)) = {}
  <2>1. Positions(plan, "collect_response") = {n + 5}
    BY <1>3, PlacesOfKinds
  <2>2. Execute(SubSeq(plan, 1, (n + 5) - 1)).error # "none"
    BY <1>4, <1>7 DEF Stuck
  <2> QED
    BY <2>1, <2>2 DEF LeftRegistered
<1>9. Status(Execute(plan)) = "error" /\ Execute(plan).sent = <<>>
  BY <1>6 DEF Stuck, Status
<1> QED
  BY <1>8, <1>9 DEF NothingSent, plan

(* The plans of the functions, one request each.                           *)
LEMMA RefdataServed ==
  ASSUME NEW securities \in Nat, NEW fields \in Nat, NEW timeout \in Nat
  PROVE  /\ Valid(RefdataPlan(securities, fields, timeout)) <=>
              /\ securities \in 1..MaxSecurities /\ fields \in 1..MaxFields /\ timeout <= MaxTimeout
         /\ Valid(RefdataPlan(securities, fields, timeout)) => AnswerKept(RefdataPlan(securities, fields, timeout))
<1> DEFINE a == Appended("securities", securities)
           b == Appended("fields", fields)
           puts == a \o b
<1>0. MaxSecurities \in Nat /\ MaxFields \in Nat /\ MaxTimeout \in Nat
  BY ClientPlansAssumption
<1>1. /\ a \in Seq(GoodPuts) /\ PathsIn(a) = (IF securities = 0 THEN {} ELSE {"securities"})
      /\ Appends(a, "securities") = securities /\ Appends(a, "fields") = 0
  BY AppendedPuts DEF ArrayPaths, ArrayElements
<1>2. /\ b \in Seq(GoodPuts) /\ PathsIn(b) = (IF fields = 0 THEN {} ELSE {"fields"})
      /\ Appends(b, "fields") = fields /\ Appends(b, "securities") = 0
  BY AppendedPuts DEF ArrayPaths, ArrayElements
<1> HIDE DEF a, b
<1>3. /\ puts \in Seq(GoodPuts) /\ PathsIn(puts) = PathsIn(a) \cup PathsIn(b)
      /\ \A path : Appends(puts, path) = Appends(a, path) + Appends(b, path)
  BY <1>1, <1>2, GoodConcat
<1>4. Appends(puts, "securities") = securities /\ Appends(puts, "fields") = fields /\ puts \in Seq(Puts)
  BY <1>1, <1>2, <1>3 DEF GoodPuts
<1> DEFINE type == "ReferenceDataRequest"
<1>5. type \in DOMAIN RequiredElements /\ RequiredElements[type] = {"securities", "fields"}
  BY DEF RequiredElements
<1>6. RequiredElements[type] \subseteq PathsIn(puts) <=> securities # 0 /\ fields # 0
  BY <1>1, <1>2, <1>3, <1>5
<1>7. RefdataPlan(securities, fields, timeout) = Request(RefdataService, type, puts, timeout)
  BY DEF RefdataPlan, a, b
<1> HIDE DEF puts, type
<1>8. Valid(RefdataPlan(securities, fields, timeout))
        <=> (securities # 0 /\ fields # 0) /\ WithinLimits(puts, timeout)
  BY <1>4, <1>5, <1>6, <1>7, RequestValid
<1>9. WithinLimits(puts, timeout) <=> timeout <= MaxTimeout /\ securities <= MaxSecurities /\ fields <= MaxFields
  BY <1>4 DEF WithinLimits
<1>10. Valid(RefdataPlan(securities, fields, timeout)) => AnswerKept(RefdataPlan(securities, fields, timeout))
  BY <1>3, <1>5, <1>6, <1>7, <1>8, RequestAnswered
<1> QED
  BY <1>0, <1>8, <1>9, <1>10

(* Elements that are set.                                                  *)
LEMMA SetsGood ==
  ASSUME NEW paths \in Seq(AllPaths \ ArrayPaths)
  PROVE  /\ SetAll(paths) \in Seq(GoodPuts)
         /\ PathsIn(SetAll(paths)) = {paths[i] : i \in DOMAIN paths}
         /\ \A other : Appends(SetAll(paths), other) = 0
<1>1. paths \in Seq(AllPaths) /\ \A i \in DOMAIN paths : paths[i] \notin ArrayPaths
  OBVIOUS
<1> QED
  BY <1>1, SetPuts

LEMMA OneSet ==
  ASSUME NEW x \in AllPaths \ ArrayPaths
  PROVE  /\ SetAll(<<x>>) \in Seq(GoodPuts) /\ PathsIn(SetAll(<<x>>)) = {x}
         /\ \A other : Appends(SetAll(<<x>>), other) = 0
<1>1. <<x>> \in Seq(AllPaths \ ArrayPaths) /\ {<<x>>[i] : i \in DOMAIN <<x>>} = {x}
  OBVIOUS
<1> QED
  BY <1>1, SetsGood

LEMMA TwoSets ==
  ASSUME NEW x \in AllPaths \ ArrayPaths, NEW y \in AllPaths \ ArrayPaths
  PROVE  /\ SetAll(<<x, y>>) \in Seq(GoodPuts) /\ PathsIn(SetAll(<<x, y>>)) = {x, y}
         /\ \A other : Appends(SetAll(<<x, y>>), other) = 0
<1>1. <<x, y>> \in Seq(AllPaths \ ArrayPaths) /\ DOMAIN <<x, y>> = {1, 2}
      /\ <<x, y>>[1] = x /\ <<x, y>>[2] = y
  OBVIOUS
<1>2. {<<x, y>>[i] : i \in DOMAIN <<x, y>>} = {x, y}
  BY <1>1
<1> QED
  BY <1>1, <1>2, SetsGood

LEMMA PeriodSet ==
  /\ SetAll(Period) \in Seq(GoodPuts)
  /\ PathsIn(SetAll(Period)) = {"startDate", "endDate", "periodicitySelection"}
  /\ \A other : Appends(SetAll(Period), other) = 0
<1>1. Period \in Seq(AllPaths \ ArrayPaths) /\ DOMAIN Period = {1, 2, 3}
      /\ Period[1] = "startDate" /\ Period[2] = "endDate" /\ Period[3] = "periodicitySelection"
  BY PathsExist DEF Period
<1>2. {Period[i] : i \in DOMAIN Period} = {"startDate", "endDate", "periodicitySelection"}
  BY <1>1
<1> QED
  BY <1>1, <1>2, SetsGood

BarPaths == <<"security", "eventType", "interval", "startDateTime", "endDateTime">>

LEMMA BarSet ==
  /\ SetAll(BarPaths) \in Seq(GoodPuts)
  /\ PathsIn(SetAll(BarPaths)) = RequiredElements["IntradayBarRequest"]
  /\ \A other : Appends(SetAll(BarPaths), other) = 0
<1>1. BarPaths \in Seq(AllPaths \ ArrayPaths) /\ DOMAIN BarPaths = {1, 2, 3, 4, 5}
      /\ BarPaths[1] = "security" /\ BarPaths[2] = "eventType" /\ BarPaths[3] = "interval"
      /\ BarPaths[4] = "startDateTime" /\ BarPaths[5] = "endDateTime"
  BY PathsExist DEF BarPaths
<1>2. {BarPaths[i] : i \in DOMAIN BarPaths} = RequiredElements["IntradayBarRequest"]
  BY <1>1 DEF RequiredElements
<1> QED
  BY <1>1, <1>2, SetsGood

(* One request: accepted exactly when it lacks nothing and is in limits,   *)
(* and answered if accepted.                                               *)
LEMMA RequestServed ==
  ASSUME NEW service \in {RefdataService, FieldsService}, NEW type \in DOMAIN RequiredElements,
         NEW puts \in Seq(GoodPuts), NEW timeout \in Nat
  PROVE  /\ Valid(Request(service, type, puts, timeout))
              <=> /\ RequiredElements[type] \subseteq PathsIn(puts) /\ timeout <= MaxTimeout
                  /\ Appends(puts, "securities") <= MaxSecurities /\ Appends(puts, "fields") <= MaxFields
         /\ Valid(Request(service, type, puts, timeout)) => AnswerKept(Request(service, type, puts, timeout))
<1>1. puts \in Seq(Puts)
  BY DEF GoodPuts
<1>2. Valid(Request(service, type, puts, timeout))
        <=> RequiredElements[type] \subseteq PathsIn(puts) /\ WithinLimits(puts, timeout)
  BY <1>1, RequestValid
<1> QED
  BY <1>2, RequestAnswered DEF WithinLimits

(* bds() with its overrides: each of them is set, and may be refused.      *)
LEMMA BdsServed ==
  ASSUME NEW overrides \in Seq(Overrides), NEW timeout \in Nat
  PROVE  /\ Valid(Bds(overrides, timeout))
              <=> 1 <= MaxSecurities /\ 1 <= MaxFields /\ timeout <= MaxTimeout
         /\ Valid(Bds(overrides, timeout)) =>
              IF ToSet(overrides) \cap RefusedOverrides # {} THEN NothingSent(Bds(overrides, timeout))
              ELSE AnswerKept(Bds(overrides, timeout))
<1> DEFINE a == Appended("securities", 1)
           b == Appended("fields", 1)
           c == SetAll(overrides)
           puts == (a \o b) \o c
           type == "ReferenceDataRequest"
<1>0. MaxSecurities \in Nat /\ MaxFields \in Nat /\ MaxTimeout \in Nat
  BY ClientPlansAssumption
<1>1. /\ a \in Seq(GoodPuts) /\ PathsIn(a) = {"securities"}
      /\ Appends(a, "securities") = 1 /\ Appends(a, "fields") = 0
  <2>1. "securities" \in ArrayPaths /\ 1 \in Nat /\ 1 # 0 /\ "fields" # "securities"
    BY DEF ArrayPaths, ArrayElements
  <2> QED
    BY ONLY <2>1, AppendedPuts
<1>2. /\ b \in Seq(GoodPuts) /\ PathsIn(b) = {"fields"}
      /\ Appends(b, "fields") = 1 /\ Appends(b, "securities") = 0
  <2>1. "fields" \in ArrayPaths /\ 1 \in Nat /\ 1 # 0 /\ "fields" # "securities"
    BY DEF ArrayPaths, ArrayElements
  <2> QED
    BY ONLY <2>1, AppendedPuts
<1>3. overrides \in Seq(AllPaths) /\ \A i \in DOMAIN overrides : overrides[i] \in Overrides
  BY DEF AllPaths
<1>4. /\ c \in Seq(Puts) /\ \A other : Appends(c, other) = 0
      /\ (\A i \in DOMAIN overrides : overrides[i] \notin ArrayPaths) => c \in Seq(GoodPuts)
  BY <1>3, SetPuts
<1>5. \A x \in Overrides : x \in ArrayPaths <=> x \in RefusedOverrides
  BY PathsExist, ClientPlansAssumption DEF ArrayPaths, ArrayElements, ElementPaths, RequiredElements
<1>6. DOMAIN c = DOMAIN overrides /\ \A i \in DOMAIN overrides : c[i] = SetOp("req1", overrides[i])
  BY DEF SetAll
<1>7. type \in DOMAIN RequiredElements /\ RequiredElements[type] = {"securities", "fields"}
  BY DEF RequiredElements
<1>8. a \o b \in Seq(GoodPuts) /\ PathsIn(a \o b) = {"securities", "fields"}
      /\ \A path : Appends(a \o b, path) = Appends(a, path) + Appends(b, path)
  BY <1>1, <1>2, GoodConcat
<1>9. Bds(overrides, timeout) = Request(RefdataService, type, puts, timeout)
  BY DEF Bds
<1> DEFINE ab == a \o b
<1>10. ab \in Seq(Puts)
  BY <1>8 DEF GoodPuts
<1> HIDE DEF a, b, c, ab, type
<1>11. /\ ab \o c \in Seq(Puts) /\ PathsIn(ab \o c) = PathsIn(ab) \cup PathsIn(c)
       /\ \A path : Appends(ab \o c, path) = Appends(ab, path) + Appends(c, path)
  BY <1>4, <1>10, PathsOfConcat, AppendsOfConcat, ConcatProperties
<1>12. Appends(ab \o c, "securities") = 1 /\ Appends(ab \o c, "fields") = 1
  BY <1>1, <1>2, <1>4, <1>8, <1>11 DEF ab
<1>13. RequiredElements[type] \subseteq PathsIn(ab \o c)
  BY <1>7, <1>8, <1>11 DEF ab
<1>14. puts = ab \o c
  BY DEF ab
<1> HIDE DEF puts
<1>15. Valid(Bds(overrides, timeout)) <=> WithinLimits(puts, timeout)
  BY <1>7, <1>9, <1>11, <1>13, <1>14, RequestValid
<1>16. WithinLimits(puts, timeout) <=> 1 <= MaxSecurities /\ 1 <= MaxFields /\ timeout <= MaxTimeout
  BY <1>12, <1>14 DEF WithinLimits
<1>17. CASE ToSet(overrides) \cap RefusedOverrides = {}
  <2>1. \A i \in DOMAIN overrides : overrides[i] \notin ArrayPaths
    BY <1>3, <1>5, <1>17 DEF ToSet
  <2>2. puts \in Seq(GoodPuts)
    BY <1>4, <1>8, <1>14, <2>1, ConcatProperties DEF ab
  <2>3. AnswerKept(Bds(overrides, timeout))
    BY <1>7, <1>9, <1>13, <1>14, <2>2, RequestAnswered
  <2> QED
    BY <1>15, <1>16, <1>17, <2>3
<1>18. CASE ToSet(overrides) \cap RefusedOverrides # {}
  <2>1. PICK i \in DOMAIN overrides : overrides[i] \in RefusedOverrides
    BY <1>18 DEF ToSet
  <2>2. c[i] = SetOp("req1", overrides[i]) /\ overrides[i] \in ArrayPaths
    BY <1>3, <1>5, <1>6, <2>1
  <2>3. c[i] \notin GoodPuts
    BY <2>2 DEF GoodPuts, SetOp
  <2>4. DOMAIN c = 1..Len(c) /\ DOMAIN puts = 1..(Len(ab) + Len(c)) /\ Len(ab) \in Nat /\ Len(c) \in Nat
        /\ \A j \in DOMAIN c : puts[j + Len(ab)] = c[j]
    BY <1>4, <1>10, <1>14, ConcatParts
  <2>5. i + Len(ab) \in DOMAIN puts /\ puts[i + Len(ab)] \notin GoodPuts
    BY <1>6, <2>3, <2>4
  <2>6. puts \notin Seq(GoodPuts)
    BY <2>5
  <2>7. NothingSent(Bds(overrides, timeout))
    BY <1>7, <1>9, <1>11, <1>14, <2>6, RequestStuck
  <2> QED
    BY <1>15, <1>16, <1>18, <2>7
<1> QED
  BY <1>17, <1>18

LEMMA BdhServed ==
  ASSUME NEW securities \in Nat, NEW fields \in Nat, NEW timeout \in Nat
  PROVE  /\ Valid(Bdh(securities, fields, timeout)) <=>
              /\ securities \in 1..MaxSecurities /\ fields \in 1..MaxFields /\ timeout <= MaxTimeout
         /\ Valid(Bdh(securities, fields, timeout)) => AnswerKept(Bdh(securities, fields, timeout))
<1> DEFINE a == Appended("securities", securities)
           b == Appended("fields", fields)
           c == SetAll(Period)
           type == "HistoricalDataRequest"
<1>0. MaxSecurities \in Nat /\ MaxFields \in Nat /\ MaxTimeout \in Nat
  BY ClientPlansAssumption
<1>1. /\ a \in Seq(GoodPuts) /\ PathsIn(a) = (IF securities = 0 THEN {} ELSE {"securities"})
      /\ Appends(a, "securities") = securities /\ Appends(a, "fields") = 0
  BY AppendedPuts DEF ArrayPaths, ArrayElements
<1>2. /\ b \in Seq(GoodPuts) /\ PathsIn(b) = (IF fields = 0 THEN {} ELSE {"fields"})
      /\ Appends(b, "fields") = fields /\ Appends(b, "securities") = 0
  BY AppendedPuts DEF ArrayPaths, ArrayElements
<1>3. /\ c \in Seq(GoodPuts) /\ PathsIn(c) = {"startDate", "endDate", "periodicitySelection"}
      /\ Appends(c, "fields") = 0 /\ Appends(c, "securities") = 0
  BY PeriodSet
<1>4. type \in DOMAIN RequiredElements
      /\ RequiredElements[type] = {"securities", "fields", "startDate", "endDate"}
  BY DEF RequiredElements
<1>5. Bdh(securities, fields, timeout) = Request(RefdataService, type, (a \o b) \o c, timeout)
  BY DEF Bdh
<1> HIDE DEF a, b, c, type
<1>6. /\ a \o b \in Seq(GoodPuts) /\ PathsIn(a \o b) = PathsIn(a) \cup PathsIn(b)
      /\ \A path : Appends(a \o b, path) = Appends(a, path) + Appends(b, path)
  BY <1>1, <1>2, GoodConcat
<1>7. /\ (a \o b) \o c \in Seq(GoodPuts) /\ PathsIn((a \o b) \o c) = PathsIn(a \o b) \cup PathsIn(c)
      /\ \A path : Appends((a \o b) \o c, path) = Appends(a \o b, path) + Appends(c, path)
  BY <1>3, <1>6, GoodConcat
<1> DEFINE puts == (a \o b) \o c
<1>8. Appends(puts, "securities") = securities /\ Appends(puts, "fields") = fields
  BY <1>1, <1>2, <1>3, <1>6, <1>7
<1>9. RequiredElements[type] \subseteq PathsIn(puts) <=> securities # 0 /\ fields # 0
  BY <1>1, <1>2, <1>3, <1>4, <1>6, <1>7
<1>10. puts \in Seq(GoodPuts) /\ Bdh(securities, fields, timeout) = Request(RefdataService, type, puts, timeout)
  BY <1>5, <1>7
<1> HIDE DEF puts
<1> QED
  BY <1>0, <1>4, <1>8, <1>9, <1>10, RequestServed

LEMMA BarsServed ==
  ASSUME NEW timeout \in Nat
  PROVE  /\ Valid(GetBars(timeout)) <=> timeout <= MaxTimeout
         /\ Valid(GetBars(timeout)) => AnswerKept(GetBars(timeout))
<1> DEFINE puts == SetAll(BarPaths)
           type == "IntradayBarRequest"
<1>0. MaxSecurities \in Nat /\ MaxFields \in Nat
  BY ClientPlansAssumption
<1>1. /\ puts \in Seq(GoodPuts) /\ PathsIn(puts) = RequiredElements[type]
      /\ Appends(puts, "securities") = 0 /\ Appends(puts, "fields") = 0
  BY BarSet
<1>2. type \in DOMAIN RequiredElements
  BY DEF RequiredElements
<1>3. GetBars(timeout) = Request(RefdataService, type, puts, timeout)
  BY DEF GetBars, BarPaths
<1> HIDE DEF puts, type
<1>4. Appends(puts, "securities") <= MaxSecurities /\ Appends(puts, "fields") <= MaxFields
  BY <1>0, <1>1
<1> QED
  BY <1>1, <1>2, <1>3, <1>4, RequestServed

LEMMA TicksServed ==
  ASSUME NEW types \in Nat, NEW timeout \in Nat
  PROVE  /\ Valid(GetTicks(types, timeout)) <=> types >= 1 /\ timeout <= MaxTimeout
         /\ Valid(GetTicks(types, timeout)) => AnswerKept(GetTicks(types, timeout))
<1> DEFINE a == SetAll(<<"security">>)
           b == Appended("eventTypes", types)
           c == SetAll(<<"startDateTime", "endDateTime">>)
           type == "IntradayTickRequest"
<1>0. MaxSecurities \in Nat /\ MaxFields \in Nat
  BY ClientPlansAssumption
<1>1. /\ a \in Seq(GoodPuts) /\ PathsIn(a) = {"security"}
      /\ Appends(a, "securities") = 0 /\ Appends(a, "fields") = 0
  <2>1. "security" \in AllPaths \ ArrayPaths
    BY PathsExist
  <2> QED
    BY <2>1, OneSet
<1>2. /\ b \in Seq(GoodPuts) /\ PathsIn(b) = (IF types = 0 THEN {} ELSE {"eventTypes"})
      /\ Appends(b, "fields") = 0 /\ Appends(b, "securities") = 0
  BY AppendedPuts DEF ArrayPaths, ArrayElements
<1>3. /\ c \in Seq(GoodPuts) /\ PathsIn(c) = {"startDateTime", "endDateTime"}
      /\ Appends(c, "fields") = 0 /\ Appends(c, "securities") = 0
  <2>1. "startDateTime" \in AllPaths \ ArrayPaths /\ "endDateTime" \in AllPaths \ ArrayPaths
    BY PathsExist
  <2> QED
    BY <2>1, TwoSets
<1>4. type \in DOMAIN RequiredElements
      /\ RequiredElements[type] = {"security", "eventTypes", "startDateTime", "endDateTime"}
  BY DEF RequiredElements
<1>5. GetTicks(types, timeout) = Request(RefdataService, type, (a \o b) \o c, timeout)
  BY DEF GetTicks
<1> HIDE DEF a, b, c, type
<1>6. /\ a \o b \in Seq(GoodPuts) /\ PathsIn(a \o b) = PathsIn(a) \cup PathsIn(b)
      /\ \A path : Appends(a \o b, path) = Appends(a, path) + Appends(b, path)
  BY <1>1, <1>2, GoodConcat
<1>7. /\ (a \o b) \o c \in Seq(GoodPuts) /\ PathsIn((a \o b) \o c) = PathsIn(a \o b) \cup PathsIn(c)
      /\ \A path : Appends((a \o b) \o c, path) = Appends(a \o b, path) + Appends(c, path)
  BY <1>3, <1>6, GoodConcat
<1> DEFINE puts == (a \o b) \o c
<1>8. Appends(puts, "securities") <= MaxSecurities /\ Appends(puts, "fields") <= MaxFields
  BY <1>0, <1>1, <1>2, <1>3, <1>6, <1>7
<1>9. RequiredElements[type] \subseteq PathsIn(puts) <=> types >= 1
  BY <1>1, <1>2, <1>3, <1>4, <1>6, <1>7
<1>10. puts \in Seq(GoodPuts) /\ GetTicks(types, timeout) = Request(RefdataService, type, puts, timeout)
  BY <1>5, <1>7
<1> HIDE DEF puts
<1> QED
  BY <1>4, <1>8, <1>9, <1>10, RequestServed

Documentation == SetAll(<<"returnFieldDocumentation">>)

LEMMA DocumentationSet ==
  /\ Documentation \in Seq(GoodPuts) /\ PathsIn(Documentation) = {"returnFieldDocumentation"}
  /\ \A other : Appends(Documentation, other) = 0
<1>1. "returnFieldDocumentation" \in AllPaths \ ArrayPaths
  BY PathsExist
<1> QED
  BY <1>1, OneSet DEF Documentation

LEMMA FieldInfoServed ==
  ASSUME NEW fields \in Nat, NEW timeout \in Nat
  PROVE  /\ Valid(GetFieldInfo(fields, timeout)) <=> fields >= 1 /\ timeout <= MaxTimeout
         /\ Valid(GetFieldInfo(fields, timeout)) => AnswerKept(GetFieldInfo(fields, timeout))
<1> DEFINE a == Appended("id", fields)
           b == Documentation
           puts == a \o b
           type == "FieldInfoRequest"
<1>0. MaxSecurities \in Nat /\ MaxFields \in Nat
  BY ClientPlansAssumption
<1>1. /\ a \in Seq(GoodPuts) /\ PathsIn(a) = (IF fields = 0 THEN {} ELSE {"id"})
      /\ Appends(a, "fields") = 0 /\ Appends(a, "securities") = 0
  BY AppendedPuts DEF ArrayPaths, ArrayElements
<1>2. /\ b \in Seq(GoodPuts) /\ PathsIn(b) = {"returnFieldDocumentation"}
      /\ Appends(b, "fields") = 0 /\ Appends(b, "securities") = 0
  BY DocumentationSet
<1>3. type \in DOMAIN RequiredElements /\ RequiredElements[type] = {"id"}
  BY DEF RequiredElements
<1>4. GetFieldInfo(fields, timeout) = Request(FieldsService, type, puts, timeout)
  BY DEF GetFieldInfo, Documentation
<1> HIDE DEF a, b, type
<1>5. /\ puts \in Seq(GoodPuts) /\ PathsIn(puts) = PathsIn(a) \cup PathsIn(b)
      /\ \A path : Appends(puts, path) = Appends(a, path) + Appends(b, path)
  BY <1>1, <1>2, GoodConcat
<1> HIDE DEF puts
<1>6. Appends(puts, "securities") <= MaxSecurities /\ Appends(puts, "fields") <= MaxFields
  BY <1>0, <1>1, <1>2, <1>5
<1>7. RequiredElements[type] \subseteq PathsIn(puts) <=> fields >= 1
  BY <1>1, <1>2, <1>3, <1>5
<1> QED
  BY <1>3, <1>4, <1>5, <1>6, <1>7, RequestServed

(* What a language model answers, normalised.                              *)
LEMMA AskedOp ==
  ASSUME NEW plan, NEW putAs \in {"append", "set"}, NEW n \in DOMAIN plan, NEW asked,
         asked = Ask(plan, putAs)[n]
  PROVE  /\ plan[n].op \notin {"append", "set"} => asked = plan[n]
         /\ \A path \in KnownArrayPaths : plan[n] = AppendOp("req1", path) => asked = plan[n]
         /\ \A path : plan[n] = SetOp("req1", path) /\ path \notin KnownArrayPaths => asked = plan[n]
         /\ \A path : plan[n] = AppendOp("req1", path) /\ path \notin KnownArrayPaths
              => asked = IF putAs = "set" THEN SetOp("req1", path) ELSE plan[n]
<1> DEFINE d == Drifted(plan, putAs)
<1>1. n \in DOMAIN d /\ d[n] = IF plan[n].op = "append" THEN [plan[n] EXCEPT !.op = putAs] ELSE plan[n]
  BY DEF Drifted
<1>2. asked = IF d[n].op = "set" /\ d[n].path \in KnownArrayPaths
              THEN AppendOp(d[n].id, d[n].path) ELSE d[n]
  BY <1>1 DEF Ask, Normalised
<1> HIDE DEF d
<1>3. ASSUME NEW path
      PROVE  /\ AppendOp("req1", path).op = "append" /\ AppendOp("req1", path).id = "req1"
             /\ AppendOp("req1", path).path = path
             /\ SetOp("req1", path).op = "set" /\ SetOp("req1", path).id = "req1"
             /\ SetOp("req1", path).path = path
             /\ [AppendOp("req1", path) EXCEPT !.op = "set"] = SetOp("req1", path)
             /\ [AppendOp("req1", path) EXCEPT !.op = "append"] = AppendOp("req1", path)
  BY DEF AppendOp, SetOp
<1>4. plan[n].op \notin {"append", "set"} => asked = plan[n]
  BY <1>1, <1>2
<1>5. ASSUME NEW path, plan[n] = SetOp("req1", path), path \notin KnownArrayPaths PROVE asked = plan[n]
  BY <1>1, <1>2, <1>3, <1>5
<1>6. ASSUME NEW path, plan[n] = AppendOp("req1", path)
      PROVE  d[n] = IF putAs = "set" THEN SetOp("req1", path) ELSE AppendOp("req1", path)
  BY <1>1, <1>3, <1>6
<1>7. ASSUME NEW path \in KnownArrayPaths, plan[n] = AppendOp("req1", path) PROVE asked = plan[n]
  BY <1>2, <1>3, <1>6, <1>7
<1>8. ASSUME NEW path, plan[n] = AppendOp("req1", path), path \notin KnownArrayPaths
      PROVE  asked = IF putAs = "set" THEN SetOp("req1", path) ELSE plan[n]
  BY <1>2, <1>3, <1>6, <1>8
<1> QED
  BY <1>4, <1>5, <1>7, <1>8

AskedAs(plan, putAs, puts) == \A i \in 1..Len(puts) : Ask(plan, putAs)[i + 3] = puts[i]

LEMMA AskedRequest ==
  ASSUME NEW service \in {RefdataService, FieldsService}, NEW type \in DOMAIN RequiredElements,
         NEW puts \in Seq(Puts), NEW timeout \in Nat, NEW putAs \in {"append", "set"},
         NEW q \in Seq(Puts), Len(q) = Len(puts),
         NEW plan, plan = Request(service, type, puts, timeout), AskedAs(plan, putAs, q)
  PROVE  Ask(plan, putAs) = Request(service, type, q, timeout)
<1> DEFINE n == Len(puts)
           a == Ask(plan, putAs)
           b == Request(service, type, q, timeout)
<1>1. /\ DOMAIN plan = 1..(n + 5) /\ plan[1] = StartOp /\ plan[2] = OpenOp(service)
      /\ plan[3] = CreateOp(service, type, "req1")
      /\ plan[n + 4] = SendOp("req1", "cid1") /\ plan[n + 5] = CollectOp("cid1", timeout)
  BY RequestStands DEF Stands
<1>2. /\ DOMAIN b = 1..(n + 5) /\ b = [i \in DOMAIN b |-> b[i]]
      /\ b[1] = StartOp /\ b[2] = OpenOp(service)
      /\ b[3] = CreateOp(service, type, "req1") /\ \A i \in 1..n : b[i + 3] = q[i]
      /\ b[n + 4] = SendOp("req1", "cid1") /\ b[n + 5] = CollectOp("cid1", timeout)
  BY RequestStands DEF Stands
<1>3. a = [i \in DOMAIN plan |-> a[i]] /\ DOMAIN a = DOMAIN plan
  BY DEF Ask, Normalised, Drifted
<1>4. n \in Nat
  OBVIOUS
<1>5. \A i \in {1, 2, 3, n + 4, n + 5} : i \in DOMAIN plan /\ plan[i].op \notin {"append", "set"} /\ plan[i] = b[i]
  BY <1>1, <1>2, <1>4, KindsOfOps
<1>6. \A i \in DOMAIN plan : plan[i].op \notin {"append", "set"} => a[i] = plan[i]
  BY AskedOp
<1> HIDE DEF a, b, n
<1>7. \A i \in {1, 2, 3, n + 4, n + 5} : a[i] = b[i]
  BY <1>5, <1>6
<1>8. \A i \in 1..n : a[i + 3] = b[i + 3]
  BY <1>2 DEF a, n, AskedAs
<1>9. ASSUME NEW i \in 1..(n + 5) PROVE a[i] = b[i]
  <2>1. i \in {1, 2, 3, n + 4, n + 5} \/ (i - 3 \in 1..n /\ (i - 3) + 3 = i)
    BY <1>4
  <2>2. CASE i \in {1, 2, 3, n + 4, n + 5}
    BY <1>7, <2>2
  <2>3. CASE i - 3 \in 1..n /\ (i - 3) + 3 = i
    <3>1. a[(i - 3) + 3] = b[(i - 3) + 3]
      BY <1>8, <2>3
    <3> QED
      BY <2>3, <3>1
  <2> QED
    BY <2>1, <2>2, <2>3
<1>10. a = b
  BY <1>1, <1>2, <1>3, <1>9
<1> QED
  BY <1>10 DEF a, b

LEMMA AskRefdataPlan ==
  ASSUME NEW securities \in Nat, NEW fields \in Nat, NEW timeout \in Nat, NEW putAs \in {"append", "set"}
  PROVE  Ask(RefdataPlan(securities, fields, timeout), putAs) = RefdataPlan(securities, fields, timeout)
<1> DEFINE a == Appended("securities", securities)
           b == Appended("fields", fields)
           puts == a \o b
           type == "ReferenceDataRequest"
           plan == RefdataPlan(securities, fields, timeout)
<1>1. a \in Seq(GoodPuts) /\ b \in Seq(GoodPuts)
  BY AppendedPuts DEF ArrayPaths, ArrayElements
<1>2. puts \in Seq(GoodPuts) /\ puts \in Seq(Puts)
  BY <1>1, ConcatProperties DEF GoodPuts
<1>3. /\ \A i \in DOMAIN a : a[i] = AppendOp("req1", "securities")
      /\ \A i \in DOMAIN b : b[i] = AppendOp("req1", "fields")
  BY DEF Appended
<1>4. plan = Request(RefdataService, type, puts, timeout) /\ type \in DOMAIN RequiredElements
  BY DEF RefdataPlan, RequiredElements
<1> HIDE DEF a, b, plan, type
<1>5. \A i \in DOMAIN puts : puts[i] = AppendOp("req1", "securities") \/ puts[i] = AppendOp("req1", "fields")
  <2>1. /\ \A i \in DOMAIN a : puts[i] = a[i]
        /\ \A i \in DOMAIN b : puts[i + Len(a)] = b[i]
        /\ \A i \in DOMAIN puts : i \notin DOMAIN a => i - Len(a) \in DOMAIN b /\ (i - Len(a)) + Len(a) = i
    BY <1>1, ConcatParts
  <2> HIDE DEF puts
  <2> QED
    BY <1>3, <2>1
<1> HIDE DEF puts
<1>6. ASSUME NEW i \in 1..Len(puts) PROVE Ask(plan, putAs)[i + 3] = puts[i]
  <2>1. i \in DOMAIN puts
    BY <1>2
  <2>2. plan[i + 3] = puts[i] /\ i + 3 \in DOMAIN plan
    BY <1>2, <1>4, RequestStands DEF Stands
  <2>3. {"securities", "fields"} \subseteq KnownArrayPaths
    BY DEF KnownArrayPaths
  <2>4. \A path \in KnownArrayPaths : plan[i + 3] = AppendOp("req1", path) => Ask(plan, putAs)[i + 3] = plan[i + 3]
    BY <2>2, AskedOp
  <2> QED
    BY <1>5, <2>1, <2>2, <2>3, <2>4
<1>7. Ask(plan, putAs) = Request(RefdataService, type, puts, timeout)
  <2>1. AskedAs(plan, putAs, puts)
    BY <1>6 DEF AskedAs
  <2> QED
    BY <1>2, <1>4, <2>1, AskedRequest
<1> QED
  BY <1>4, <1>7 DEF plan

(* The ids that a model set stay set: llm.py knows no "id".                *)
Ids(fields) == [n \in 1..fields |-> "id"]
IdOp(putAs) == IF putAs = "set" THEN SetOp("req1", "id") ELSE AppendOp("req1", "id")
IdPuts(fields, putAs) == IF putAs = "set" THEN SetAll(Ids(fields)) ELSE Appended("id", fields)

LEMMA IdsPut ==
  ASSUME NEW fields \in Nat, NEW putAs \in {"append", "set"}
  PROVE  /\ IdPuts(fields, putAs) \in Seq(Puts) /\ Len(IdPuts(fields, putAs)) = fields
         /\ \A i \in 1..fields : IdPuts(fields, putAs)[i] = IdOp(putAs)
         /\ PathsIn(IdPuts(fields, putAs)) = IF fields = 0 THEN {} ELSE {"id"}
         /\ Appends(IdPuts(fields, putAs), "securities") = 0
         /\ Appends(IdPuts(fields, putAs), "fields") = 0
<1>1. CASE putAs = "set"
  <2>1. "id" \in AllPaths
    BY PathsExist DEF ArrayPaths, ArrayElements
  <2>2. /\ Ids(fields) \in Seq(AllPaths) /\ DOMAIN Ids(fields) = 1..fields
        /\ \A i \in 1..fields : Ids(fields)[i] = "id"
    BY <2>1 DEF Ids
  <2>3. {Ids(fields)[i] : i \in DOMAIN Ids(fields)} = IF fields = 0 THEN {} ELSE {"id"}
    <3>1. CASE fields = 0
      BY <2>2, <3>1
    <3>2. CASE fields # 0
      <4>1. 1 \in 1..fields
        BY <3>2
      <4> QED
        BY <2>2, <3>2, <4>1
    <3> QED
      BY <3>1, <3>2
  <2>4. /\ SetAll(Ids(fields)) \in Seq(Puts)
        /\ PathsIn(SetAll(Ids(fields))) = {Ids(fields)[i] : i \in DOMAIN Ids(fields)}
        /\ \A other : Appends(SetAll(Ids(fields)), other) = 0
    BY <2>2, SetPuts
  <2>5. SetAll(Ids(fields)) = [i \in 1..fields |-> SetOp("req1", "id")]
    BY <2>2 DEF SetAll
  <2>6. Len(SetAll(Ids(fields))) = fields /\ \A i \in 1..fields : SetAll(Ids(fields))[i] = SetOp("req1", "id")
    BY <2>4, <2>5
  <2> QED
    BY <1>1, <2>3, <2>4, <2>6 DEF IdPuts, IdOp
<1>2. CASE putAs # "set"
  <2>1. /\ Appended("id", fields) \in Seq(GoodPuts)
        /\ PathsIn(Appended("id", fields)) = IF fields = 0 THEN {} ELSE {"id"}
        /\ Appends(Appended("id", fields), "securities") = 0
        /\ Appends(Appended("id", fields), "fields") = 0
    <3>1. "id" \in ArrayPaths
      BY DEF ArrayPaths, ArrayElements
    <3>2. /\ Appended("id", fields) \in Seq(GoodPuts)
          /\ PathsIn(Appended("id", fields)) = IF fields = 0 THEN {} ELSE {"id"}
          /\ \A other : Appends(Appended("id", fields), other) = IF other = "id" THEN fields ELSE 0
      BY <3>1, AppendedPuts
    <3>3. /\ Appends(Appended("id", fields), "securities") = IF "securities" = "id" THEN fields ELSE 0
          /\ Appends(Appended("id", fields), "fields") = IF "fields" = "id" THEN fields ELSE 0
      BY <3>2
    <3> QED
      BY <3>2, <3>3
  <2>2. Appended("id", fields) \in Seq(Puts)
    BY <2>1 DEF GoodPuts
  <2>3. /\ Len(Appended("id", fields)) = fields
        /\ \A i \in 1..fields : Appended("id", fields)[i] = AppendOp("req1", "id")
    BY <2>2 DEF Appended
  <2> QED
    BY <1>2, <2>1, <2>2, <2>3 DEF IdPuts, IdOp
<1> QED
  BY <1>1, <1>2

IdsThen(q, fields, putAs) ==
  /\ q \in Seq(Puts) /\ Len(q) = fields + 1
  /\ \A i \in 1..fields : q[i] = IdOp(putAs)
  /\ q[fields + 1] = SetOp("req1", "returnFieldDocumentation")

LEMMA IdsThenDocumentation ==
  ASSUME NEW fields \in Nat, NEW putAs \in {"append", "set"},
         NEW q, q = IdPuts(fields, putAs) \o Documentation
  PROVE  IdsThen(q, fields, putAs)
<1> DEFINE a == IdPuts(fields, putAs)
           b == Documentation
<1>1. /\ b \in Seq(Puts) /\ Len(b) = 1 /\ b[1] = SetOp("req1", "returnFieldDocumentation")
  <2>1. b \in Seq(GoodPuts)
    BY DocumentationSet
  <2>2. b \in Seq(Puts)
    BY <2>1 DEF GoodPuts
  <2>3. b = <<SetOp("req1", "returnFieldDocumentation")>>
    BY DEF Documentation, SetAll
  <2> QED
    BY <2>2, <2>3
<1>2. a \in Seq(Puts) /\ Len(a) = fields /\ \A i \in 1..fields : a[i] = IdOp(putAs)
  BY IdsPut
<1> HIDE DEF a, b
<1>3. /\ q \in Seq(Puts) /\ Len(q) = Len(a) + Len(b)
      /\ \A i \in 1..(Len(a) + Len(b)) : q[i] = IF i <= Len(a) THEN a[i] ELSE b[i - Len(a)]
  BY <1>1, <1>2, ConcatProperties DEF a, b
<1>4. q \in Seq(Puts) /\ Len(q) = fields + 1
  BY <1>1, <1>2, <1>3
<1>5. \A i \in 1..fields : q[i] = a[i]
  BY <1>1, <1>2, <1>3
<1>6. q[fields + 1] = b[1]
  BY <1>1, <1>2, <1>3
<1> QED
  BY <1>1, <1>2, <1>4, <1>5, <1>6 DEF IdsThen

LEMMA AskFieldInfoPlan ==
  ASSUME NEW fields \in Nat, NEW timeout \in Nat, NEW putAs \in {"append", "set"}
  PROVE  Ask(GetFieldInfo(fields, timeout), putAs)
           = Request(FieldsService, "FieldInfoRequest", IdPuts(fields, putAs) \o Documentation, timeout)
<1> DEFINE puts == IdPuts(fields, "append") \o Documentation
           q == IdPuts(fields, putAs) \o Documentation
           type == "FieldInfoRequest"
           plan == GetFieldInfo(fields, timeout)
           last == SetOp("req1", "returnFieldDocumentation")
<1>4. plan = Request(FieldsService, type, puts, timeout) /\ type \in DOMAIN RequiredElements
  BY DEF GetFieldInfo, RequiredElements, Documentation, IdPuts
<1> HIDE DEF plan, type
<1>5. /\ puts \in Seq(Puts) /\ Len(puts) = fields + 1
      /\ \A i \in 1..fields : puts[i] = AppendOp("req1", "id")
      /\ puts[fields + 1] = last
  <2>1. IdOp("append") = AppendOp("req1", "id")
    BY DEF IdOp
  <2>2. IdsThen(puts, fields, "append")
    BY IdsThenDocumentation
  <2> QED
    BY <2>1, <2>2 DEF IdsThen
<1>6. /\ q \in Seq(Puts) /\ Len(q) = fields + 1
      /\ \A i \in 1..fields : q[i] = IdOp(putAs)
      /\ q[fields + 1] = last
  <2>1. IdsThen(q, fields, putAs)
    BY IdsThenDocumentation
  <2> QED
    BY <2>1 DEF IdsThen
<1> HIDE DEF puts, q, last
<1>7. "id" \notin KnownArrayPaths /\ "returnFieldDocumentation" \notin KnownArrayPaths
  BY DEF KnownArrayPaths
<1>8. \A i \in 1..(fields + 1) : plan[i + 3] = puts[i] /\ i + 3 \in DOMAIN plan
  BY <1>4, <1>5, RequestStands DEF Stands
<1>9. ASSUME NEW i \in 1..(fields + 1) PROVE Ask(plan, putAs)[i + 3] = q[i]
  <2>1. /\ plan[i + 3] = SetOp("req1", "returnFieldDocumentation")
             => Ask(plan, putAs)[i + 3] = plan[i + 3]
        /\ plan[i + 3] = AppendOp("req1", "id")
             => Ask(plan, putAs)[i + 3] = IF putAs = "set" THEN SetOp("req1", "id") ELSE plan[i + 3]
    BY <1>7, <1>8, AskedOp
  <2>2. CASE i \in 1..fields
    BY <1>5, <1>6, <1>8, <2>1, <2>2 DEF IdOp
  <2>3. CASE i = fields + 1
    BY <1>5, <1>6, <1>8, <2>1, <2>3 DEF last
  <2> QED
    BY <2>2, <2>3
<1>10. AskedAs(plan, putAs, q)
  BY <1>6, <1>9 DEF AskedAs
<1>11. Ask(plan, putAs) = Request(FieldsService, type, q, timeout)
  BY <1>4, <1>5, <1>6, <1>10, AskedRequest
<1> QED
  BY <1>11 DEF plan, type, q

LEMMA AskFieldsServed ==
  ASSUME NEW fields \in Nat, NEW timeout \in Nat, NEW putAs \in {"append", "set"},
         NEW plan, plan = Ask(GetFieldInfo(fields, timeout), putAs)
  PROVE  /\ Valid(plan) <=> fields >= 1 /\ timeout <= MaxTimeout
         /\ Valid(plan) => IF putAs = "set" THEN NothingSent(plan) ELSE AnswerKept(plan)
<1> DEFINE a == IdPuts(fields, putAs)
           b == Documentation
           puts == a \o b
           type == "FieldInfoRequest"
<1>0. MaxSecurities \in Nat /\ MaxFields \in Nat
  BY ClientPlansAssumption
<1>1. /\ a \in Seq(Puts) /\ PathsIn(a) = (IF fields = 0 THEN {} ELSE {"id"})
      /\ Appends(a, "fields") = 0 /\ Appends(a, "securities") = 0
  BY IdsPut
<1>2. /\ b \in Seq(Puts) /\ PathsIn(b) = {"returnFieldDocumentation"}
      /\ Appends(b, "fields") = 0 /\ Appends(b, "securities") = 0
  BY DocumentationSet DEF GoodPuts
<1>3. type \in DOMAIN RequiredElements /\ RequiredElements[type] = {"id"}
  BY DEF RequiredElements
<1>4. plan = Request(FieldsService, type, puts, timeout)
  BY AskFieldInfoPlan
<1> HIDE DEF a, b, type
<1>5. puts \in Seq(Puts)
  BY <1>1, <1>2, ConcatProperties
<1>6. PathsIn(puts) = PathsIn(a) \cup PathsIn(b)
  BY <1>1, <1>2, PathsOfConcat
<1>7. Appends(puts, "securities") = 0 /\ Appends(puts, "fields") = 0
  BY <1>1, <1>2, AppendsOfConcat
<1> HIDE DEF puts
<1>8. WithinLimits(puts, timeout) <=> timeout <= MaxTimeout
  BY <1>0, <1>7 DEF WithinLimits
<1>9. RequiredElements[type] \subseteq PathsIn(puts) <=> fields >= 1
  BY <1>1, <1>2, <1>3, <1>6
<1>10. Valid(plan) <=> fields >= 1 /\ timeout <= MaxTimeout
  BY <1>3, <1>4, <1>5, <1>8, <1>9, RequestValid
<1>11. CASE putAs = "append"
  <2>1. plan = GetFieldInfo(fields, timeout)
    BY <1>4, <1>11 DEF GetFieldInfo, puts, a, b, IdPuts, Documentation, type
  <2> QED
    BY <1>10, <1>11, <2>1, FieldInfoServed
<1>12. CASE putAs = "set" /\ fields >= 1
  <2>1. IdsThen(puts, fields, putAs)
    BY IdsThenDocumentation DEF puts, a, b
  <2>2. 1 \in DOMAIN puts /\ puts[1] = SetOp("req1", "id")
    BY <1>5, <1>12, <2>1 DEF IdsThen, IdOp
  <2>3. SetOp("req1", "id") \notin GoodPuts
    BY DEF GoodPuts, SetOp, ArrayPaths, ArrayElements
  <2>4. puts \notin Seq(GoodPuts)
    BY <2>2, <2>3
  <2> QED
    BY <1>3, <1>4, <1>5, <1>10, <1>12, <2>4, RequestStuck
<1> QED
  BY <1>10, <1>11, <1>12

(* The calls that a user can compose.                                      *)
PlanCalls == [fn : Functions, putAs : {"append", "set"}, timeout : Nat, securities : Nat, fields : Nat,
              overrides : Seq(Overrides)]

Composed(c) ==
  /\ c \in PlanCalls
  /\ c.fn \in FixedSecurities => c.securities = 1
  /\ c.fn \in FixedFields => c.fields = IF c.fn = "get_returns_data" THEN 2 ELSE 1
  /\ c.fn # "bds" => c.overrides = <<>>

CallInv == call = NoCall \/ Composed(call)

LEMMA NoFunction == \A c \in PlanCalls : c # NoCall
<1>1. NoCall.fn = "none" /\ "none" \notin Functions
  BY DEF NoCall, Functions
<1> QED
  BY <1>1 DEF PlanCalls

LEMMA PlansStart == PlansInit => CallInv
  BY DEF PlansInit, CallInv

LEMMA PlansStep == CallInv /\ [PlansNext]_call => CallInv'
<1> SUFFICES ASSUME CallInv, [PlansNext]_call PROVE CallInv'
  OBVIOUS
<1>1. CASE Choose
  <2>1. PICK fn \in Functions, putAs \in {"append", "set"} :
          call' = [fn |-> fn, putAs |-> putAs, timeout |-> DefaultTimeout(fn),
                   securities |-> IF fn \in FixedSecurities THEN 1 ELSE 0,
                   fields |-> IF fn = "get_returns_data" THEN 2
                              ELSE IF fn \in FixedFields THEN 1 ELSE 0,
                   overrides |-> <<>>]
    BY <1>1 DEF Choose
  <2>2. DefaultTimeout(fn) \in Nat
    BY DEF DefaultTimeout
  <2>3. call' \in PlanCalls /\ call'.fn = fn /\ call'.overrides = <<>>
        /\ call'.securities = (IF fn \in FixedSecurities THEN 1 ELSE 0)
        /\ call'.fields = (IF fn = "get_returns_data" THEN 2 ELSE IF fn \in FixedFields THEN 1 ELSE 0)
    BY <2>1, <2>2 DEF PlanCalls
  <2> QED
    BY <2>3 DEF CallInv, Composed
<1>2. CASE AddSecurity
  <2>1. Composed(call) /\ call.fn \notin FixedSecurities /\ call' = [call EXCEPT !.securities = @ + 1]
    BY <1>2 DEF AddSecurity, CallInv
  <2>2. call' \in PlanCalls /\ call'.fn = call.fn /\ call'.fields = call.fields
        /\ call'.overrides = call.overrides
    BY <2>1 DEF Composed, PlanCalls
  <2> QED
    BY <2>1, <2>2 DEF CallInv, Composed
<1>3. CASE AddField
  <2>1. Composed(call) /\ call.fn \notin FixedFields /\ call' = [call EXCEPT !.fields = @ + 1]
    BY <1>3 DEF AddField, CallInv
  <2>2. call' \in PlanCalls /\ call'.fn = call.fn /\ call'.securities = call.securities
        /\ call'.overrides = call.overrides
    BY <2>1 DEF Composed, PlanCalls
  <2> QED
    BY <2>1, <2>2 DEF CallInv, Composed
<1>4. CASE SetTimeout
  <2>1. PICK t \in Timeouts : Composed(call) /\ call' = [call EXCEPT !.timeout = t]
    BY <1>4 DEF SetTimeout, CallInv
  <2>2. t \in Nat
    BY ClientPlansAssumption
  <2>3. call' \in PlanCalls /\ call'.fn = call.fn /\ call'.securities = call.securities /\ call'.fields = call.fields
        /\ call'.overrides = call.overrides
    BY <2>1, <2>2 DEF Composed, PlanCalls
  <2> QED
    BY <2>1, <2>3 DEF CallInv, Composed
<1>5. CASE AddOverride
  <2>1. PICK o \in Overrides : /\ Composed(call) /\ call.fn = "bds"
                               /\ call' = [call EXCEPT !.overrides = Append(@, o)]
    BY <1>5 DEF AddOverride, CallInv
  <2>2. Append(call.overrides, o) \in Seq(Overrides)
    BY <2>1 DEF Composed, PlanCalls
  <2>3. call' \in PlanCalls /\ call'.fn = call.fn /\ call'.securities = call.securities /\ call'.fields = call.fields
    BY <2>1, <2>2 DEF Composed, PlanCalls
  <2> QED
    BY <2>1, <2>3 DEF CallInv, Composed
<1>6. CASE UNCHANGED call
  BY <1>6 DEF CallInv
<1> QED
  BY <1>1, <1>2, <1>3, <1>4, <1>5, <1>6 DEF PlansNext

(* What the limits leave of a call, by the kind of its request.            *)
Accepted(c) ==
  /\ c.securities >= 1 /\ c.fields >= 1
  /\ Counted(c.fn) => c.securities <= MaxSecurities /\ c.fields <= MaxFields
  /\ c.timeout <= MaxTimeout

Served(c) ==
  /\ Valid(PlanOf(c)) <=> Accepted(c)
  /\ Valid(PlanOf(c)) => IF Spoilt(c) THEN NothingSent(PlanOf(c)) ELSE AnswerKept(PlanOf(c))

LEMMA NotSpoilt ==
  ASSUME NEW c, Composed(c), c.fn \notin {"bds", "ask_fields"}
  PROVE  ~ Spoilt(c)
  BY DEF Composed, Spoilt, ToSet

LEMMA CallIsServed ==
  ASSUME NEW c, Composed(c)
  PROVE  Served(c)
<1> DEFINE s == c.securities
           f == c.fields
           t == c.timeout
           listed == s \in 1..MaxSecurities /\ f \in 1..MaxFields /\ t <= MaxTimeout
           counted == /\ s >= 1 /\ f >= 1 /\ s <= MaxSecurities /\ f <= MaxFields /\ t <= MaxTimeout
<1>0. MaxSecurities \in Nat /\ MaxFields \in Nat /\ MaxTimeout \in Nat
  BY ClientPlansAssumption
<1>1. /\ c.fn \in Functions /\ c.putAs \in {"append", "set"} /\ t \in Nat /\ s \in Nat /\ f \in Nat
  BY DEF Composed, PlanCalls
<1>2. listed <=> counted
  BY <1>0, <1>1
<1> HIDE DEF s, f, t
<1>14. c.fn \notin {"bds", "ask_fields"} => ~ Spoilt(c)
  BY NotSpoilt
<1>3. ASSUME c.fn \in {"px_last", "ref_data", "ask"}, PlanOf(c) = RefdataPlan(s, f, t)
      PROVE  Served(c)
  <2>1. Valid(RefdataPlan(s, f, t)) <=> counted
    BY <1>1, <1>2, RefdataServed
  <2>2. Valid(RefdataPlan(s, f, t)) => AnswerKept(RefdataPlan(s, f, t))
    BY <1>1, RefdataServed
  <2>3. Counted(c.fn)
    BY <1>3 DEF Counted
  <2> QED
    BY <1>3, <1>14, <2>1, <2>2, <2>3 DEF Served, Accepted, s, f, t
<1>4. ASSUME c.fn \in {"bdh", "get_historical_prices", "get_returns_data"}, PlanOf(c) = Bdh(s, f, t)
      PROVE  Served(c)
  <2>1. Valid(Bdh(s, f, t)) <=> counted
    BY <1>1, <1>2, BdhServed
  <2>2. Valid(Bdh(s, f, t)) => AnswerKept(Bdh(s, f, t))
    BY <1>1, BdhServed
  <2>3. Counted(c.fn)
    BY <1>4 DEF Counted
  <2> QED
    BY <1>4, <1>14, <2>1, <2>2, <2>3 DEF Served, Accepted, s, f, t
<1>5. CASE c.fn = "px_last"
  <2>1. s = 1 /\ f = 1
    BY <1>5 DEF Composed, FixedSecurities, FixedFields, s, f
  <2>2. PlanOf(c) = RefdataPlan(s, f, t)
    BY <1>5, <2>1 DEF PlanOf, PxLast, t
  <2> QED
    BY <1>3, <1>5, <2>2
<1>15. CASE c.fn \in {"bds", "get_index_members"}
  <2>1. s = 1 /\ f = 1 /\ Counted(c.fn)
    BY <1>15 DEF Composed, FixedSecurities, FixedFields, Counted, s, f
  <2>2. PlanOf(c) = Bds(c.overrides, t)
    BY <1>15 DEF PlanOf, GetIndexMembers, Composed, t
  <2>3. c.overrides \in Seq(Overrides) /\ (Spoilt(c) <=> ToSet(c.overrides) \cap RefusedOverrides # {})
    BY <1>15 DEF Composed, PlanCalls, Spoilt
  <2>4. /\ Valid(PlanOf(c)) <=> 1 <= MaxSecurities /\ 1 <= MaxFields /\ t <= MaxTimeout
        /\ Valid(PlanOf(c)) => IF Spoilt(c) THEN NothingSent(PlanOf(c)) ELSE AnswerKept(PlanOf(c))
    BY <1>1, <2>2, <2>3, BdsServed
  <2> QED
    BY <2>1, <2>4 DEF Served, Accepted, s, f, t
<1>6. CASE c.fn = "ref_data"
  <2>1. PlanOf(c) = RefdataPlan(s, f, t)
    BY <1>6 DEF PlanOf, RefData, s, f, t
  <2> QED
    BY <1>3, <1>6, <2>1
<1>7. CASE c.fn = "ask"
  <2>1. PlanOf(c) = Ask(RefdataPlan(s, f, t), c.putAs)
    BY <1>7 DEF PlanOf, s, f, t
  <2>2. PlanOf(c) = RefdataPlan(s, f, t)
    BY <1>1, <2>1, AskRefdataPlan
  <2> QED
    BY <1>3, <1>7, <2>2
<1>8. CASE c.fn = "bdh"
  <2>1. PlanOf(c) = Bdh(s, f, t)
    BY <1>8 DEF PlanOf, s, f, t
  <2> QED
    BY <1>4, <1>8, <2>1
<1>9. CASE c.fn \in {"get_historical_prices", "get_returns_data"}
  <2>1. f = IF c.fn = "get_returns_data" THEN 2 ELSE 1
    BY <1>9 DEF Composed, FixedFields, f
  <2>2. PlanOf(c) = Bdh(s, f, t)
    BY <1>9, <2>1 DEF PlanOf, GetHistoricalPrices, GetReturnsData, s, t
  <2> QED
    BY <1>4, <1>9, <2>2
<1>10. CASE c.fn = "get_bars"
  <2>1. s = 1 /\ f = 1
    BY <1>10 DEF Composed, FixedSecurities, FixedFields, s, f
  <2>2. PlanOf(c) = GetBars(t) /\ ~Counted(c.fn)
    BY <1>10 DEF PlanOf, Counted, t
  <2>3. /\ Valid(GetBars(t)) <=> t <= MaxTimeout
        /\ Valid(GetBars(t)) => AnswerKept(GetBars(t))
    BY <1>1, BarsServed
  <2> QED
    BY <1>10, <1>14, <2>1, <2>2, <2>3 DEF Served, Accepted, s, f, t
<1>11. CASE c.fn = "get_ticks"
  <2>1. s = 1
    BY <1>11 DEF Composed, FixedSecurities, s
  <2>2. PlanOf(c) = GetTicks(f, t) /\ ~Counted(c.fn)
    BY <1>11 DEF PlanOf, Counted, f, t
  <2>3. /\ Valid(GetTicks(f, t)) <=> f >= 1 /\ t <= MaxTimeout
        /\ Valid(GetTicks(f, t)) => AnswerKept(GetTicks(f, t))
    BY <1>1, TicksServed
  <2> QED
    BY <1>11, <1>14, <2>1, <2>2, <2>3 DEF Served, Accepted, s, f, t
<1>12. CASE c.fn = "get_field_info"
  <2>1. s = 1
    BY <1>12 DEF Composed, FixedSecurities, s
  <2>2. PlanOf(c) = GetFieldInfo(f, t) /\ ~Counted(c.fn)
    BY <1>12 DEF PlanOf, Counted, f, t
  <2>3. /\ Valid(GetFieldInfo(f, t)) <=> f >= 1 /\ t <= MaxTimeout
        /\ Valid(GetFieldInfo(f, t)) => AnswerKept(GetFieldInfo(f, t))
    BY <1>1, FieldInfoServed
  <2> QED
    BY <1>12, <1>14, <2>1, <2>2, <2>3 DEF Served, Accepted, s, f, t
<1>13. CASE c.fn = "ask_fields"
  <2>1. s = 1
    BY <1>13 DEF Composed, FixedSecurities, s
  <2>2. PlanOf(c) = Ask(GetFieldInfo(f, t), c.putAs) /\ ~Counted(c.fn)
    BY <1>13 DEF PlanOf, Counted, f, t
  <2>3. /\ Valid(PlanOf(c)) <=> f >= 1 /\ t <= MaxTimeout
        /\ Valid(PlanOf(c)) => IF c.putAs = "set" THEN NothingSent(PlanOf(c)) ELSE AnswerKept(PlanOf(c))
    BY <1>1, <2>2, AskFieldsServed
  <2>4. Spoilt(c) <=> c.putAs = "set"
    BY <1>13 DEF Spoilt, Composed, ToSet
  <2> QED
    BY <1>13, <2>1, <2>2, <2>3, <2>4 DEF Served, Accepted, s, f, t
<1> QED
  BY <1>1, <1>15, <1>5, <1>6, <1>7, <1>8, <1>9, <1>10, <1>11, <1>12, <1>13 DEF Functions

(* A plan that a function of the client builds, or that a model wrote and  *)
(* ask() normalised, is accepted exactly when its lists are not empty and  *)
(* within the limits, and its timeout is (client.py, data.py, llm.py,      *)
(* executor/validate.py); if accepted, it runs to its end, brings the one  *)
(* answer to a request that lacks nothing, or, with an override or a put   *)
(* that Bloomberg refuses, sends nothing; and it leaves no queue behind:   *)
(* for any number of securities, fields, event types and overrides, any    *)
(* refusals and any limits.                                                *)
THEOREM PlansAreServed == PlansSpec => []BuiltPlansAreServed
<1>1. CallInv => BuiltPlansAreServed
  <2> SUFFICES ASSUME Composed(call) PROVE BuiltPlansAreServed
    BY DEF CallInv, BuiltPlansAreServed
  <2>1. Served(call)
    BY CallIsServed
  <2> QED
    BY <2>1 DEF Served, Accepted, AnswerKept, NothingSent, BuiltPlansAreServed
<1> QED
  BY <1>1, PlansStart, PlansStep, PTL DEF PlansSpec
=============================================================================
