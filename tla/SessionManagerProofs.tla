----------------------- MODULE SessionManagerProofs -----------------------
(***************************************************************************)
(* Theorems about SessionManager, for every set of callers, reconnect      *)
(* threads and services and every bound.                                   *)
(***************************************************************************)
EXTENDS SessionManager, TLAPS

(* TypeOK is not inductive: that BackoffElapsed keeps the attempt number   *)
(* within bounds rests on a waiting thread having attempts left, and that  *)
(* DropSession finds a status to change on _session having been created.   *)
AttemptsLeft ==
  \A l \in Loops : At(l, "waiting") => attempt[l] < MaxAttempts

SessionCreated == session \in 0..Len(conn)

TypeInv == TypeOK /\ AttemptsLeft /\ SessionCreated

(* Mutual exclusion on _lock: it is held exactly by the thread inside a    *)
(* critical section.                                                       *)
LockInv == \A t \in Threads : pc[t] \in Critical <=> lock = t

(* Before the first start() nothing has happened at all.                   *)
Untouched ==
  starts = 0 => /\ session = NoSession
                /\ conn = <<>>
                /\ mail = {}
                /\ \A s \in Services : services[s] = NoSession
                /\ \A l \in Loops : At(l, "off")
                /\ \A t \in Threads : ~ At(t, "openSession")

(* Up to the second start(), a thread about to open a session has dropped  *)
(* the previous one and every handle; a thread opening services has a      *)
(* session to open them on.                                                *)
OpeningInv ==
  OneStart =>
    /\ \A t \in Threads : At(t, "openSession")
         => /\ session = NoSession
            /\ \A s \in Services : services[s] = NoSession
    /\ \A t \in Threads : pc[t] \in {"openServices", "openOne"}
         => session # NoSession

SafetyInv ==
  /\ LockInv
  /\ Untouched
  /\ OpeningInv
  /\ HandlesOfCurrentSession
  /\ OwnsSingleSession

-----------------------------------------------------------------------------
(* Lemmas on the session history                                           *)

(* Recording a new status for a session keeps the history well formed and  *)
(* changes no other entry.                                                 *)
LEMMA UpdateConn ==
  ASSUME NEW c \in Seq(ConnStatus), NEW i \in DOMAIN c, NEW v \in ConnStatus
  PROVE  /\ [c EXCEPT ![i] = v] \in Seq(ConnStatus)
         /\ Len([c EXCEPT ![i] = v]) = Len(c)
         /\ DOMAIN [c EXCEPT ![i] = v] = DOMAIN c
         /\ \A j \in DOMAIN c : [c EXCEPT ![i] = v][j] = IF j = i THEN v ELSE c[j]
  OBVIOUS

(* Creating a session extends the history and changes no earlier entry.    *)
LEMMA ExtendConn ==
  ASSUME NEW c \in Seq(ConnStatus), NEW v \in ConnStatus
  PROVE  /\ Append(c, v) \in Seq(ConnStatus)
         /\ Len(Append(c, v)) = Len(c) + 1
         /\ DOMAIN Append(c, v) = DOMAIN c \cup {Len(c) + 1}
         /\ Append(c, v)[Len(c) + 1] = v
         /\ \A j \in DOMAIN c : Append(c, v)[j] = c[j]
  OBVIOUS

-----------------------------------------------------------------------------
(* Type correctness                                                        *)

LEMMA TypeInit == Init => TypeInv
<1> SUFFICES ASSUME Init PROVE TypeInv
  OBVIOUS
<1> USE ThreadsAssumption, ServicesAssumption, BoundsAssumption
    DEF Init, SessionState, NoSession, Threads, CallerPC, LoopPC, Critical, At
<1>1. /\ pc \in [Threads -> CallerPC \cup LoopPC]
      /\ \A c \in Callers : pc[c] \in CallerPC
      /\ \A l \in Loops : pc[l] = "off"
  OBVIOUS
<1>2. conn \in Seq(ConnStatus) /\ Len(conn) = 0
  OBVIOUS
<1>3. ManagerTypeOK
  <2>1. services \in [Services -> Nat] /\ names \in SUBSET Services
    OBVIOUS
  <2>2. attempts \in 0..MaxAttempts
    OBVIOUS
  <2>3. stopFlag \in BOOLEAN
    OBVIOUS
  <2>4. QED BY <2>1, <2>2, <2>3 DEF ManagerTypeOK
<1>4. ThreadTypeOK
  <2>1. lock \in Threads \cup {NoOne} /\ starts \in 0..MaxStarts /\ stops \in 0..MaxStops
    OBVIOUS
  <2>2. todo \in [Threads -> SUBSET Services] /\ attempt \in [Loops -> 0..MaxAttempts]
    OBVIOUS
  <2>3. QED BY <1>1, <2>1, <2>2 DEF ThreadTypeOK
<1>5. BloombergTypeOK
  BY <1>2 DEF BloombergTypeOK
<1>6. AttemptsLeft /\ SessionCreated
  BY <1>1, <1>2 DEF AttemptsLeft, SessionCreated
<1>7. QED BY <1>3, <1>4, <1>5, <1>6 DEF TypeInv, TypeOK

LEMMA TypeStep == TypeInv /\ [Next]_vars => TypeInv'
<1> SUFFICES ASSUME TypeInv, [Next]_vars PROVE TypeInv'
  OBVIOUS
<1> USE ThreadsAssumption, ServicesAssumption, BoundsAssumption
    DEF TypeInv, TypeOK, ManagerTypeOK, ThreadTypeOK, BloombergTypeOK,
        AttemptsLeft, SessionCreated, SessionState, NoSession, Threads, CallerPC, LoopPC, Critical, At, Goto, Acquire, Release,
        LostMessageTypes, manager, threads, calls, bbg
<1>1. ASSUME NEW t \in Threads, OpenSession(t) PROVE TypeInv'
  <2>1. conn' \in Seq(ConnStatus) /\ session' \in 1..Len(conn')
    BY <1>1, ExtendConn DEF OpenSession, ConnStatus
  <2>2. QED BY <1>1, <2>1 DEF OpenSession, ToOpen
<1>2. ASSUME NEW t \in Threads, OpenSessionFails(t) PROVE TypeInv'
  <2>1. conn' \in Seq(ConnStatus) /\ Len(conn) + 1 \in Nat
    BY <1>2, ExtendConn DEF OpenSessionFails, ConnStatus
  <2>2. mail' \in SUBSET [sid : Nat, type : LostMessageTypes] /\ losses' \in 0..MaxLost
    BY <1>2, <2>1 DEF OpenSessionFails, MayEmit
  <2>3. QED BY <1>2, <2>1, <2>2 DEF OpenSessionFails, OpenRaised,
                                    StateAfterRaise, LastAttempt
<1>3. ASSUME NEW t \in Threads, OpenService(t) PROVE TypeInv'
  BY <1>3 DEF OpenService
<1>4. ASSUME NEW t \in Threads, OpenServiceFails(t) PROVE TypeInv'
  BY <1>4 DEF OpenServiceFails, OpenRaised, StateAfterRaise, LastAttempt
<1>5. ASSUME NEW t \in Threads, Connected(t) PROVE TypeInv'
  BY <1>5 DEF Connected
<1>6. ASSUME DropSession
      PROVE  /\ conn' \in Seq(ConnStatus)
             /\ mail' \in SUBSET [sid : Nat, type : LostMessageTypes]
             /\ losses' \in 0..MaxLost
             /\ session' \in 0..Len(conn')
             /\ services' \in [Services -> Nat]
  <2>1. CASE session = NoSession
    BY <1>6, <2>1 DEF DropSession, Cleared
  <2>2. CASE session # NoSession
    <3>1. session \in DOMAIN conn
      BY <2>2
    <3>2. conn' \in Seq(ConnStatus)
      <4>1. conn' = [conn EXCEPT ![session] = "stopped"]
        BY <1>6, <2>2 DEF DropSession
      <4>2. QED BY <3>1, <4>1, UpdateConn DEF ConnStatus
    <3>3. mail' \in SUBSET [sid : Nat, type : LostMessageTypes] /\ losses' \in 0..MaxLost
      BY <1>6, <2>2 DEF DropSession, MayEmit
    <3>4. session' = 0 /\ services' \in [Services -> Nat] /\ Len(conn') \in Nat
      BY <1>6, <3>2 DEF DropSession, Cleared
    <3>5. QED BY <3>2, <3>3, <3>4
  <2>3. QED BY <2>1, <2>2
<1>7. ASSUME NEW c \in Callers, CallerStep(c) PROVE TypeInv'
  <2>2. CASE Start(c)
    <3>1. ManagerTypeOK'
      BY <2>2 DEF Start
    <3>2. ThreadTypeOK'
      BY <2>2 DEF Start
    <3>3. BloombergTypeOK' /\ AttemptsLeft' /\ SessionCreated'
      BY <2>2 DEF Start
    <3>4. QED BY <3>1, <3>2, <3>3
  <2>3. CASE Stop(c)
    BY <2>3 DEF Stop
  <2>4. CASE StopSession(c)
    BY <2>4, <1>6 DEF StopSession
  <2>5. CASE GotService(c)
    BY <2>5 DEF GotService
  <2>6. ASSUME NEW s \in Services, GetService(c, s) PROVE TypeInv'
    BY <2>6 DEF GetService
  <2>7. QED BY <1>7, <2>2, <2>3, <2>4, <2>5, <2>6 DEF CallerStep
<1>8. ASSUME NEW l \in Loops, LoopStep(l) PROVE TypeInv'
  <2>1. CASE LoopBegins(l)
    BY <2>1 DEF LoopBegins
  <2>2. CASE LoopStopped(l)
    BY <2>2 DEF LoopStopped
  <2>3. CASE BackoffElapsed(l)
    BY <2>3 DEF BackoffElapsed
  <2>4. CASE BeginAttempt(l)
    BY <2>4, <1>6 DEF BeginAttempt
  <2>5. CASE GiveUp(l)
    BY <2>5 DEF GiveUp
  <2>6. QED BY <1>8, <2>1, <2>2, <2>3, <2>4, <2>5 DEF LoopStep
<1>9. ASSUME NEW m \in mail, Deliver(m) PROVE TypeInv'
  <2>1. CASE LossIgnored(m)
    BY <2>1 DEF LossIgnored
  <2>2. CASE LossHandled(m)
    <3>1. PICK l \in Loops : Goto(l, "spawned")
      BY <2>2 DEF LossHandled
    <3>2. ManagerTypeOK' /\ ThreadTypeOK'
      BY <2>2, <3>1 DEF LossHandled
    <3>3. BloombergTypeOK' /\ AttemptsLeft' /\ SessionCreated'
      BY <2>2, <3>1 DEF LossHandled
    <3>4. QED BY <3>2, <3>3
  <2>3. QED BY <1>9, <2>1, <2>2 DEF Deliver
<1>10. CASE Bloomberg
  <2>1. PICK i \in DOMAIN conn : ConnectionDown(i) \/ Terminate(i)
    BY <1>10 DEF Bloomberg
  <2>2. conn' \in Seq(ConnStatus) /\ Len(conn') = Len(conn) /\ i \in Nat
    <3>1. PICK v \in ConnStatus : conn' = [conn EXCEPT ![i] = v]
      BY <2>1 DEF ConnectionDown, Terminate, ConnStatus
    <3>2. QED BY <3>1, UpdateConn
  <2>3. BloombergTypeOK' /\ SessionCreated'
    BY <2>1, <2>2 DEF ConnectionDown, Terminate
  <2>4. ManagerTypeOK' /\ ThreadTypeOK' /\ AttemptsLeft'
    BY <2>1 DEF ConnectionDown, Terminate
  <2>5. QED BY <2>3, <2>4
<1>11. CASE UNCHANGED vars
  BY <1>11 DEF vars
<1>12. QED
  BY <1>1, <1>2, <1>3, <1>4, <1>5, <1>7, <1>8, <1>9, <1>10, <1>11
  DEF Next, Opening

(* Every reachable state of the manager is well typed; in particular a     *)
(* reconnect thread never runs more than MAX_RECONNECT_ATTEMPTS attempts.  *)
THEOREM TypeCorrect == Spec => []TypeOK
<1>1. Spec => []TypeInv
  BY TypeInit, TypeStep, PTL DEF Spec
<1>2. TypeInv => TypeOK
  BY DEF TypeInv
<1>3. QED BY <1>1, <1>2, PTL

-----------------------------------------------------------------------------
(* Mutual exclusion                                                        *)

LEMMA LockStep == TypeInv /\ LockInv /\ [Next]_vars => LockInv'
<1> SUFFICES ASSUME TypeInv, LockInv, [Next]_vars PROVE LockInv'
  OBVIOUS
<1> USE ThreadsAssumption
    DEF TypeInv, TypeOK, ThreadTypeOK, LockInv, Threads, CallerPC, LoopPC,
        Critical, At, Goto, Acquire, Release, threads, vars
<1>1. ASSUME NEW t \in Threads, Opening(t) PROVE LockInv'
  <2>1. CASE OpenSession(t)
    BY <2>1 DEF OpenSession
  <2>2. CASE OpenSessionFails(t) \/ OpenServiceFails(t)
    BY <2>2 DEF OpenSessionFails, OpenServiceFails, OpenRaised
  <2>3. CASE OpenService(t)
    BY <2>3 DEF OpenService
  <2>4. CASE Connected(t)
    BY <2>4 DEF Connected
  <2>5. QED BY <1>1, <2>1, <2>2, <2>3, <2>4 DEF Opening
<1>2. ASSUME NEW c \in Callers, CallerStep(c) PROVE LockInv'
  <2>2. CASE Start(c)
    BY <2>2 DEF Start
  <2>3. CASE Stop(c)
    BY <2>3 DEF Stop
  <2>4. CASE StopSession(c)
    BY <2>4 DEF StopSession
  <2>5. CASE GotService(c)
    BY <2>5 DEF GotService
  <2>6. ASSUME NEW s \in Services, GetService(c, s) PROVE LockInv'
    BY <2>6 DEF GetService
  <2>7. QED BY <1>2, <2>2, <2>3, <2>4, <2>5, <2>6 DEF CallerStep
<1>3. ASSUME NEW l \in Loops, LoopStep(l) PROVE LockInv'
  BY <1>3 DEF LoopStep, LoopBegins, LoopStopped, BackoffElapsed, BeginAttempt, GiveUp
<1>4. ASSUME NEW m \in mail, Deliver(m) PROVE LockInv'
  BY <1>4 DEF Deliver, LossIgnored, LossHandled
<1>5. CASE Bloomberg
  BY <1>5 DEF Bloomberg, ConnectionDown, Terminate
<1>6. CASE UNCHANGED vars
  BY <1>6
<1>7. QED BY <1>1, <1>2, <1>3, <1>4, <1>5, <1>6 DEF Next

-----------------------------------------------------------------------------
(* One session, and only its handles                                       *)

(* What DropSession leaves: no session in force, none held, no handle; and *)
(* with no session to drop, Bloomberg's side is as it was.                 *)
LEMMA DropSessionClears ==
  ASSUME TypeInv, OwnsSingleSession, DropSession, starts' = starts
  PROVE  /\ session' = NoSession
         /\ HandlesOfCurrentSession'
         /\ \A s \in Services : services'[s] = NoSession
         /\ OwnsSingleSession'
         /\ session = NoSession => conn' = conn /\ mail' = mail
<1> USE DEF TypeInv, TypeOK, BloombergTypeOK, SessionCreated, DropSession,
            NoSession, OwnsSingleSession, HoldsSession, OneStart
<1>1. session' = NoSession /\ \A s \in Services : services'[s] = NoSession
  BY DEF Cleared
<1>2. HandlesOfCurrentSession'
  BY <1>1 DEF HandlesOfCurrentSession
<1>3. CASE session = NoSession
  BY <1>1, <1>2, <1>3 DEF bbg
<1>4. CASE session # NoSession
  <2>1. session \in DOMAIN conn /\ conn' = [conn EXCEPT ![session] = "stopped"]
    BY <1>4
  <2>2. OwnsSingleSession'
    BY <2>1, UpdateConn DEF ConnStatus
  <2>3. QED BY <1>1, <1>2, <1>4, <2>2
<1>5. QED BY <1>3, <1>4

(* What was promised for one start() is still owed after a step that leaves*)
(* it at one.                                                              *)
LEMMA OneStartBefore ==
  ASSUME TypeInv, [Next]_vars, OneStart'
  PROVE  OneStart
<1> USE DEF TypeInv, TypeOK, ThreadTypeOK, OneStart, calls, vars
<1>1. ASSUME NEW t \in Threads, Opening(t) PROVE starts' = starts
  BY <1>1 DEF Opening, OpenSession, OpenSessionFails, OpenService,
              OpenServiceFails, Connected
<1>2. ASSUME NEW c \in Callers, CallerStep(c) PROVE starts' \in {starts, starts + 1}
  BY <1>2 DEF CallerStep, Start, Stop, StopSession, GotService, GetService
<1>3. ASSUME NEW l \in Loops, LoopStep(l) PROVE starts' = starts
  BY <1>3 DEF LoopStep, LoopBegins, LoopStopped, BackoffElapsed, BeginAttempt, GiveUp
<1>4. ASSUME NEW m \in mail, Deliver(m) PROVE starts' = starts
  BY <1>4 DEF Deliver, LossIgnored, LossHandled
<1>5. ASSUME Bloomberg PROVE starts' = starts
  BY <1>5 DEF Bloomberg, ConnectionDown, Terminate
<1>6. starts' \in {starts, starts + 1}
  BY <1>1, <1>2, <1>3, <1>4, <1>5 DEF Next
<1>7. QED BY <1>6, BoundsAssumption

LEMMA SafetyStepOneStart ==
  ASSUME TypeInv, SafetyInv, [Next]_vars, OneStart'
  PROVE  SafetyInv'
<1>1. LockInv'
  BY LockStep DEF SafetyInv
<1>2. OneStart
  BY OneStartBefore
<1> USE <1>2, ThreadsAssumption
    DEF OneStart, TypeInv, TypeOK, ManagerTypeOK, ThreadTypeOK, LockInv, SafetyInv,
        Untouched, OpeningInv, Threads, CallerPC, LoopPC, Critical, At, Goto,
        Acquire, Release, NoSession, manager, threads, calls, bbg
<1> DEFINE Rest == /\ Untouched /\ OpeningInv
                   /\ HandlesOfCurrentSession /\ OwnsSingleSession
<1>3. ASSUME NEW t \in Threads, OpenSession(t) PROVE Rest'
  <2>1. conn \in Seq(ConnStatus) /\ conn' = Append(conn, "up") /\ session' = Len(conn) + 1
    BY <1>3 DEF OpenSession, BloombergTypeOK
  <2>2. \A i \in DOMAIN conn : ~ HoldsSession(i)
    BY <1>3 DEF OpenSession, OwnsSingleSession, BloombergTypeOK
  <2>3. OwnsSingleSession'
    BY <2>1, <2>2, ExtendConn DEF OwnsSingleSession, HoldsSession, ConnStatus
  <2>4. HandlesOfCurrentSession'
    BY <1>3 DEF OpenSession, HandlesOfCurrentSession
  <2>5. Untouched'
    BY <1>3 DEF OpenSession
  <2>6. OpeningInv'
    BY <1>3, <2>1 DEF OpenSession
  <2>7. QED BY <2>3, <2>4, <2>5, <2>6
<1>4. ASSUME NEW t \in Threads, OpenSessionFails(t) PROVE Rest'
  <2>1. conn \in Seq(ConnStatus) /\ conn' = Append(conn, "failed") /\ session' = session
    BY <1>4 DEF OpenSessionFails, BloombergTypeOK
  <2>2. OwnsSingleSession'
    BY <2>1, ExtendConn DEF OwnsSingleSession, HoldsSession, ConnStatus
  <2>3. HandlesOfCurrentSession'
    BY <1>4 DEF OpenSessionFails, HandlesOfCurrentSession
  <2>4. Untouched' /\ OpeningInv'
    BY <1>4 DEF OpenSessionFails, OpenRaised
  <2>5. QED BY <2>2, <2>3, <2>4
<1>5. ASSUME NEW t \in Threads, OpenService(t) PROVE Rest'
  BY <1>5 DEF OpenService, HandlesOfCurrentSession, OwnsSingleSession, HoldsSession
<1>6. ASSUME NEW t \in Threads, OpenServiceFails(t) \/ Connected(t) PROVE Rest'
  BY <1>6 DEF OpenServiceFails, OpenRaised, Connected,
              HandlesOfCurrentSession, OwnsSingleSession, HoldsSession
<1>7. ASSUME NEW c \in Callers, CallerStep(c) PROVE Rest'
  <2>1. CASE StopSession(c)
    BY <2>1, DropSessionClears DEF StopSession
  <2>2. CASE Start(c)
    <3>1. starts = 0 /\ starts' = 1
      BY <2>2 DEF Start
    <3>2. Untouched' /\ OpeningInv'
      BY <2>2, <3>1 DEF Start
    <3>3. QED BY <2>2, <3>2 DEF Start, HandlesOfCurrentSession,
                                OwnsSingleSession, HoldsSession
  <2>3. CASE Stop(c) \/ GotService(c)
    BY <2>3 DEF Stop, GotService,
                HandlesOfCurrentSession, OwnsSingleSession, HoldsSession
  <2>4. ASSUME NEW s \in Services, GetService(c, s) PROVE Rest'
    BY <2>4 DEF GetService, HandlesOfCurrentSession, OwnsSingleSession, HoldsSession
  <2>5. QED BY <1>7, <2>1, <2>2, <2>3, <2>4 DEF CallerStep
<1>8. ASSUME NEW l \in Loops, LoopStep(l) PROVE Rest'
  <2>1. CASE BeginAttempt(l)
    BY <2>1, DropSessionClears DEF BeginAttempt
  <2>2. CASE LoopBegins(l) \/ LoopStopped(l) \/ BackoffElapsed(l) \/ GiveUp(l)
    BY <2>2 DEF LoopBegins, LoopStopped, BackoffElapsed, GiveUp,
                HandlesOfCurrentSession, OwnsSingleSession, HoldsSession
  <2>3. QED BY <1>8, <2>1, <2>2 DEF LoopStep
<1>9. ASSUME NEW m \in mail, Deliver(m) PROVE Rest'
  BY <1>9 DEF Deliver, LossIgnored, LossHandled,
              HandlesOfCurrentSession, OwnsSingleSession, HoldsSession
<1>10. CASE Bloomberg
  <2>1. PICK i \in DOMAIN conn : ConnectionDown(i) \/ Terminate(i)
    BY <1>10 DEF Bloomberg
  <2>2. PICK v \in {"down", "terminated"} : conn' = [conn EXCEPT ![i] = v]
    BY <2>1 DEF ConnectionDown, Terminate
  <2>3. HoldsSession(i) /\ UNCHANGED <<manager, threads, calls>>
    BY <2>1 DEF ConnectionDown, Terminate, HoldsSession
  <2>4. OwnsSingleSession'
    BY <2>2, <2>3, UpdateConn DEF OwnsSingleSession, HoldsSession,
                                  BloombergTypeOK, ConnStatus
  <2>5. starts # 0
    BY <2>1
  <2>6. QED BY <2>3, <2>4, <2>5 DEF HandlesOfCurrentSession
<1>11. CASE UNCHANGED vars
  BY <1>11 DEF vars, HandlesOfCurrentSession, OwnsSingleSession, HoldsSession
<1>12. QED
  BY <1>1, <1>3, <1>4, <1>5, <1>6, <1>7, <1>8, <1>9, <1>10, <1>11
  DEF Next, Opening

LEMMA SafetyStep == TypeInv /\ SafetyInv /\ [Next]_vars => SafetyInv'
<1> SUFFICES ASSUME TypeInv, SafetyInv, [Next]_vars PROVE SafetyInv'
  OBVIOUS
<1>1. CASE OneStart'
  BY <1>1, SafetyStepOneStart
<1>2. CASE ~ OneStart'
  <2>1. LockInv'
    BY LockStep DEF SafetyInv
  <2>2. Untouched' /\ OpeningInv' /\ HandlesOfCurrentSession' /\ OwnsSingleSession'
    BY <1>2 DEF Untouched, OpeningInv, HandlesOfCurrentSession,
                OwnsSingleSession, OneStart
  <2>3. QED BY <2>1, <2>2 DEF SafetyInv
<1>3. QED BY <1>1, <1>2

LEMMA SafetyInit == Init => SafetyInv
<1> SUFFICES ASSUME Init PROVE SafetyInv
  OBVIOUS
<1> USE ThreadsAssumption DEF Init, Threads, Critical, At, NoSession
<1>1. \A t \in Threads : lock # t /\ pc[t] \in {"idle", "off"}
  OBVIOUS
<1>2. \A l \in Loops : pc[l] = "off"
  OBVIOUS
<1>3. LockInv /\ OpeningInv
  BY <1>1 DEF LockInv, OpeningInv
<1>4. Untouched
  BY <1>1, <1>2 DEF Untouched
<1>5. HandlesOfCurrentSession /\ OwnsSingleSession
  BY DEF HandlesOfCurrentSession, OwnsSingleSession
<1>6. QED BY <1>3, <1>4, <1>5 DEF SafetyInv

(* Until start() is called a second time, which the app's lifespan never   *)
(* does, every interleaving of stop(), get_service(), status messages and  *)
(* reconnect threads keeps at most one Bloomberg session open, the one in  *)
(* _session.                                                               *)
THEOREM SingleSession == Spec => []OwnsSingleSession
<1>1. Init => TypeInv /\ SafetyInv
  BY TypeInit, SafetyInit
<1>2. TypeInv /\ SafetyInv /\ [Next]_vars => (TypeInv /\ SafetyInv)'
  BY TypeStep, SafetyStep
<1>3. SafetyInv => OwnsSingleSession
  BY DEF SafetyInv
<1>4. QED BY <1>1, <1>2, <1>3, PTL DEF Spec

(* Under the same condition no cached service handle outlives its session. *)
THEOREM HandlesAreCurrent == Spec => []HandlesOfCurrentSession
<1>1. Init => TypeInv /\ SafetyInv
  BY TypeInit, SafetyInit
<1>2. TypeInv /\ SafetyInv /\ [Next]_vars => (TypeInv /\ SafetyInv)'
  BY TypeStep, SafetyStep
<1>3. SafetyInv => HandlesOfCurrentSession
  BY DEF SafetyInv
<1>4. QED BY <1>1, <1>2, <1>3, PTL DEF Spec
-----------------------------------------------------------------------------
(* The manager at rest                                                     *)

(* All but the services of `but` are open on the session in force.         *)
CompleteBut(but) ==
  /\ session # NoSession
  /\ \A s \in names \ but : services[s] = session

(* A start() under way says "starting", a stop() under way has set _stop.  *)
CallersSayWhatTheyDo ==
  /\ \A c \in Callers : pc[c] \in {"openSession", "openServices"} => state = "starting"
  /\ \A c \in Callers : At(c, "stopping") => stopFlag

(* While a thread opens the services of a session, those it is done with   *)
(* are open; so they are once the loops that said "connected" are gone.    *)
ServicesOpen ==
  /\ \A t \in Threads : At(t, "openServices") => CompleteBut(todo[t])
  /\ ~ stopFlag /\ state = "connected" /\ AllLoopsOff => CompleteBut({})

(* Without a stop(), somebody will still change a transient state.         *)
HasOwner ==
  \/ stopFlag
  \/ state \in {"uninitialized", "connected", "failed"}
  \/ ~ AllLoopsOff
  \/ \E c \in Callers : pc[c] \in {"openSession", "openServices"}

RestInv == CallersSayWhatTheyDo /\ ServicesOpen /\ HasOwner

LEMMA RestInit == Init => RestInv
<1> SUFFICES ASSUME Init PROVE RestInv
  OBVIOUS
<1> USE ThreadsAssumption DEF Init, Threads, At
<1>1. \A t \in Threads : pc[t] \in {"idle", "off"}
  OBVIOUS
<1>2. CallersSayWhatTheyDo
  BY <1>1 DEF CallersSayWhatTheyDo
<1>3. ServicesOpen
  BY <1>1 DEF ServicesOpen
<1>4. HasOwner
  BY DEF HasOwner
<1> QED
  BY <1>2, <1>3, <1>4 DEF RestInv

(* Steps of Bloomberg and of a callback that finds nothing to do.          *)
LEMMA RestUntouched ==
  ASSUME RestInv, UNCHANGED <<manager, pc, todo>>
  PROVE  RestInv'
  BY DEF RestInv, CallersSayWhatTheyDo, ServicesOpen, CompleteBut, HasOwner, AllLoopsOff,
         At, manager

LEMMA RestOpening ==
  ASSUME TypeInv, LockInv, RestInv, NEW t \in Threads, Opening(t)
  PROVE  RestInv'
<1> USE ThreadsAssumption, ServicesAssumption
    DEF TypeInv, TypeOK, ManagerTypeOK, ThreadTypeOK, LockInv, Threads, CallerPC, LoopPC,
        Critical, At, Goto, AllLoopsOff
<1>1. CASE OpenSession(t)
  <2>1. session' = Len(conn) + 1 /\ Len(conn) \in Nat
    BY <1>1 DEF OpenSession, BloombergTypeOK
  <2>2. session' # NoSession
    BY <2>1 DEF NoSession
  <2>3. /\ pc' = [pc EXCEPT ![t] = "openServices"] /\ pc[t] = "openSession"
        /\ todo'[t] = names /\ UNCHANGED <<state, names, stopFlag, services>>
    BY <1>1 DEF OpenSession, ToOpen
  <2>4. CallersSayWhatTheyDo' /\ HasOwner'
    BY <2>3 DEF RestInv, CallersSayWhatTheyDo, HasOwner
  <2>5. \A u \in Threads : At(u, "openServices")' => u = t
    BY <2>3
  <2>6. CompleteBut(todo[t])'
    BY <2>2, <2>3 DEF CompleteBut
  <2>7. t \in Loops \/ state = "starting"
    BY <2>3 DEF RestInv, CallersSayWhatTheyDo
  <2>8. ServicesOpen'
    BY <2>3, <2>5, <2>6, <2>7 DEF ServicesOpen
  <2> QED
    BY <2>4, <2>8 DEF RestInv
<1>2. CASE OpenSessionFails(t) \/ OpenServiceFails(t)
  <2>1. pc[t] \in {"openSession", "openServices", "openOne"}
    BY <1>2 DEF OpenSessionFails, OpenServiceFails
  <2>2. /\ pc' = [pc EXCEPT ![t] = IF t \in Callers THEN "idle"
                                   ELSE IF LastAttempt(t) THEN "gaveUp" ELSE "waiting"]
        /\ state' = StateAfterRaise(t)
        /\ UNCHANGED <<names, stopFlag, services>>
    BY <1>2 DEF OpenSessionFails, OpenServiceFails, OpenRaised
  <2>3. \A u \in Threads \ {t} : pc[u] \notin Critical /\ pc'[u] = pc[u]
    BY <2>1, <2>2
  <2>4. pc'[t] \in {"idle", "waiting", "gaveUp"}
    BY <2>2
  <2>5. CallersSayWhatTheyDo'
    BY <2>3, <2>4 DEF CallersSayWhatTheyDo
  <2>6. \A u \in Threads : ~ At(u, "openServices")'
    BY <2>3, <2>4
  <2>7. CASE t \in Loops
    <3>1. ~ AllLoopsOff'
      BY <2>2, <2>7
    <3> QED
      BY <2>5, <2>6, <3>1 DEF RestInv, ServicesOpen, HasOwner
  <2>8. CASE t \in Callers /\ pc[t] # "openOne"
    <3>1. state' = "failed"
      BY <2>2, <2>8 DEF StateAfterRaise
    <3> QED
      BY <2>5, <2>6, <3>1 DEF RestInv, ServicesOpen, HasOwner
  <2>9. CASE t \in Callers /\ pc[t] = "openOne"
    <3>1. state' = state /\ session' = session /\ AllLoopsOff' = AllLoopsOff
      BY <1>2, <2>2, <2>9 DEF StateAfterRaise, OpenSessionFails, OpenServiceFails
    <3>2. HasOwner'
      BY <2>2, <2>3, <2>9, <3>1 DEF RestInv, HasOwner
    <3>3. ServicesOpen'
      BY <2>2, <2>6, <3>1 DEF RestInv, ServicesOpen, CompleteBut
    <3> QED
      BY <2>5, <3>2, <3>3 DEF RestInv
  <2> QED
    BY <2>7, <2>8, <2>9
<1>3. CASE OpenService(t)
  <2>1. PICK s \in todo[t] : /\ services' = [services EXCEPT ![s] = session]
                             /\ names' = names \cup {s}
                             /\ todo' = [todo EXCEPT ![t] = @ \ {s}]
    BY <1>3 DEF OpenService
  <2>2. /\ pc[t] \in {"openServices", "openOne"}
        /\ UNCHANGED <<state, session, stopFlag, pc>>
    BY <1>3 DEF OpenService
  <2>3. s \in Services /\ services'[s] = session
        /\ \A r \in Services \ {s} : services'[r] = services[r]
    BY <2>1
  <2>4. CallersSayWhatTheyDo' /\ HasOwner'
    BY <2>2 DEF RestInv, CallersSayWhatTheyDo, HasOwner
  <2>5. ASSUME NEW u \in Threads, At(u, "openServices")' PROVE CompleteBut(todo[u])'
    <3>1. u = t
      BY <2>2, <2>5
    <3>2. CompleteBut(todo[t]) /\ todo'[t] = todo[t] \ {s}
      BY <2>1, <2>2, <2>5, <3>1 DEF RestInv, ServicesOpen
    <3> QED
      BY <2>1, <2>2, <2>3, <3>1, <3>2 DEF CompleteBut
  <2>6. CompleteBut({}) => CompleteBut({})'
    BY <2>1, <2>2, <2>3 DEF CompleteBut
  <2> QED
    BY <2>2, <2>4, <2>5, <2>6 DEF RestInv, ServicesOpen
<1>4. CASE Connected(t)
  <2>1. /\ pc[t] = "openServices" /\ todo[t] = {} /\ state' = "connected"
        /\ pc' = [pc EXCEPT ![t] = IF t \in Callers THEN "idle" ELSE "off"]
        /\ UNCHANGED <<session, services, names, stopFlag, todo>>
    BY <1>4 DEF Connected
  <2>2. \A u \in Threads \ {t} : pc[u] \notin Critical /\ pc'[u] = pc[u]
    BY <2>1
  <2>3. \A u \in Threads : pc'[u] \notin Critical
    BY <2>1, <2>2
  <2>4. CallersSayWhatTheyDo' /\ HasOwner'
    BY <2>1, <2>3 DEF CallersSayWhatTheyDo, HasOwner
  <2>5. CompleteBut({})'
    BY <2>1 DEF RestInv, ServicesOpen, CompleteBut
  <2> QED
    BY <2>3, <2>4, <2>5 DEF RestInv, ServicesOpen
<1> QED
  BY <1>1, <1>2, <1>3, <1>4 DEF Opening

LEMMA RestCaller ==
  ASSUME TypeInv, LockInv, RestInv, NEW c \in Callers, CallerStep(c)
  PROVE  RestInv'
<1> USE ThreadsAssumption, ServicesAssumption
    DEF TypeInv, TypeOK, ManagerTypeOK, ThreadTypeOK, LockInv, Threads, CallerPC, LoopPC,
        Critical, At, Goto, Acquire, Release, AllLoopsOff
<1>1. CASE Start(c)
  <2>1. /\ lock = NoOne /\ state' = "starting" /\ stopFlag' = FALSE
        /\ pc' = [pc EXCEPT ![c] = "openSession"]
    BY <1>1 DEF Start
  <2>2. \A t \in Threads : pc[t] \notin Critical
    BY <2>1
  <2>3. \A t \in Threads : pc'[t] \in Critical => t = c /\ pc'[t] = "openSession"
    BY <2>1, <2>2
  <2> QED
    BY <2>1, <2>3 DEF RestInv, CallersSayWhatTheyDo, ServicesOpen, HasOwner
<1>2. CASE Stop(c)
  <2>1. lock = NoOne /\ stopFlag' = TRUE /\ pc' = [pc EXCEPT ![c] = "stopping"]
    BY <1>2 DEF Stop
  <2>2. \A t \in Threads : pc[t] \notin Critical
    BY <2>1
  <2>3. \A t \in Threads : pc'[t] \notin {"openSession", "openServices"}
    BY <2>1, <2>2
  <2> QED
    BY <2>1, <2>3 DEF RestInv, CallersSayWhatTheyDo, ServicesOpen, HasOwner
<1>3. CASE StopSession(c)
  <2>1. /\ pc[c] = "stopping" /\ pc' = [pc EXCEPT ![c] = "idle"]
        /\ stopFlag' = stopFlag
    BY <1>3 DEF StopSession
  <2>2. stopFlag
    BY <2>1 DEF RestInv, CallersSayWhatTheyDo
  <2>3. \A t \in Threads : pc'[t] \notin Critical
    BY <2>1
  <2> QED
    BY <2>1, <2>2, <2>3 DEF RestInv, CallersSayWhatTheyDo, ServicesOpen, HasOwner
<1>4. CASE GotService(c)
  <2>1. /\ pc[c] = "openOne" /\ pc' = [pc EXCEPT ![c] = "idle"]
        /\ UNCHANGED <<manager, todo>>
    BY <1>4 DEF GotService
  <2>2. \A t \in Threads : pc'[t] \notin Critical /\ (pc'[t] = pc[t] \/ t = c)
    BY <2>1
  <2>3. HasOwner'
    BY <2>1, <2>2 DEF RestInv, HasOwner, manager
  <2> QED
    BY <2>1, <2>2, <2>3 DEF RestInv, CallersSayWhatTheyDo, ServicesOpen, CompleteBut, manager
<1>5. ASSUME NEW s \in Services, GetService(c, s) PROVE RestInv'
  <2>1. /\ lock = NoOne /\ pc[c] = "idle" /\ pc' = [pc EXCEPT ![c] = "openOne"]
        /\ UNCHANGED manager
    BY <1>5 DEF GetService
  <2>2. \A t \in Threads : pc[t] \notin Critical /\ (pc'[t] = pc[t] \/ t = c)
    BY <2>1
  <2>3. \A t \in Threads : pc'[t] \notin {"openSession", "openServices", "stopping"}
    BY <2>1, <2>2
  <2>4. HasOwner'
    BY <2>1, <2>2 DEF RestInv, HasOwner, manager
  <2> QED
    BY <2>1, <2>2, <2>3, <2>4 DEF RestInv, CallersSayWhatTheyDo, ServicesOpen, CompleteBut, manager
<1> QED
  BY <1>1, <1>2, <1>3, <1>4, <1>5 DEF CallerStep

LEMMA RestLoop ==
  ASSUME TypeInv, LockInv, RestInv, NEW l \in Loops, LoopStep(l)
  PROVE  RestInv'
<1> USE ThreadsAssumption, ServicesAssumption
    DEF TypeInv, TypeOK, ManagerTypeOK, ThreadTypeOK, LockInv, Threads, CallerPC, LoopPC,
        Critical, At, Goto, Acquire, Release, AllLoopsOff
<1>1. CASE LoopBegins(l)
  <2>1. /\ lock = NoOne /\ state' = "reconnecting" /\ pc' = [pc EXCEPT ![l] = "waiting"]
        /\ UNCHANGED stopFlag
    BY <1>1 DEF LoopBegins
  <2>2. \A t \in Threads : pc'[t] \notin Critical
    BY <2>1
  <2>3. ~ AllLoopsOff'
    BY <2>1
  <2> QED
    BY <2>1, <2>2, <2>3 DEF RestInv, CallersSayWhatTheyDo, ServicesOpen, HasOwner
<1>2. CASE LoopStopped(l)
  <2>1. /\ stopFlag /\ pc' = [pc EXCEPT ![l] = "off"] /\ UNCHANGED <<manager, todo>>
    BY <1>2 DEF LoopStopped
  <2> QED
    BY <2>1 DEF RestInv, CallersSayWhatTheyDo, ServicesOpen, CompleteBut, HasOwner, manager
<1>3. CASE BackoffElapsed(l)
  <2>1. /\ pc' = [pc EXCEPT ![l] = "attempting"] /\ UNCHANGED <<manager, todo>>
    BY <1>3 DEF BackoffElapsed
  <2>2. ~ AllLoopsOff'
    BY <2>1
  <2> QED
    BY <2>1, <2>2 DEF RestInv, CallersSayWhatTheyDo, ServicesOpen, CompleteBut, HasOwner, manager
<1>4. CASE BeginAttempt(l)
  <2>1. /\ lock = NoOne /\ pc' = [pc EXCEPT ![l] = "openSession"]
        /\ UNCHANGED <<state, stopFlag, names, todo>>
    BY <1>4 DEF BeginAttempt
  <2>2. ~ AllLoopsOff'
    BY <2>1
  <2>3. \A t \in Threads : pc[t] \notin Critical
    BY <2>1
  <2>4. \A t \in Threads \ {l} : pc'[t] \notin Critical
    BY <2>1, <2>3
  <2>5. pc'[l] = "openSession" /\ l \notin Callers
    BY <2>1
  <2> QED
    BY <2>1, <2>2, <2>4, <2>5 DEF RestInv, CallersSayWhatTheyDo, ServicesOpen, HasOwner
<1>5. CASE GiveUp(l)
  <2>1. /\ lock = NoOne /\ state' = "failed" /\ pc' = [pc EXCEPT ![l] = "off"]
        /\ UNCHANGED stopFlag
    BY <1>5 DEF GiveUp
  <2>2. \A t \in Threads : pc'[t] \notin Critical
    BY <2>1
  <2> QED
    BY <2>1, <2>2 DEF CallersSayWhatTheyDo, ServicesOpen, HasOwner, RestInv
<1> QED
  BY <1>1, <1>2, <1>3, <1>4, <1>5 DEF LoopStep

LEMMA RestStep == TypeInv /\ LockInv /\ RestInv /\ [Next]_vars => RestInv'
<1> SUFFICES ASSUME TypeInv, LockInv, RestInv, [Next]_vars PROVE RestInv'
  OBVIOUS
<1>1. ASSUME NEW m \in mail, Deliver(m) PROVE RestInv'
  <2>1. CASE LossIgnored(m)
    BY <2>1, RestUntouched DEF LossIgnored, threads
  <2>2. CASE LossHandled(m)
    <3> USE ThreadsAssumption
        DEF TypeInv, TypeOK, ThreadTypeOK, LockInv, Threads, CallerPC, LoopPC, Critical,
            At, Goto, AllLoopsOff
    <3>1. PICK l \in Loops : pc[l] = "off" /\ pc' = [pc EXCEPT ![l] = "spawned"]
      BY <2>2 DEF LossHandled
    <3>2. lock = NoOne /\ state' = "degraded" /\ UNCHANGED stopFlag
      BY <2>2 DEF LossHandled
    <3>3. \A t \in Threads : pc'[t] \notin Critical
      BY <3>1, <3>2
    <3>4. ~ AllLoopsOff'
      BY <3>1
    <3> QED
      BY <3>2, <3>3, <3>4 DEF RestInv, CallersSayWhatTheyDo, ServicesOpen, HasOwner
  <2> QED
    BY <1>1, <2>1, <2>2 DEF Deliver
<1>2. CASE Bloomberg \/ UNCHANGED vars
  BY <1>2, RestUntouched DEF Bloomberg, ConnectionDown, Terminate, vars, threads
<1> QED
  BY <1>1, <1>2, RestOpening, RestCaller, RestLoop DEF Next

LEMMA RestIsTrue == TypeInv /\ LockInv /\ RestInv => SettledInv
<1> SUFFICES ASSUME TypeInv, LockInv, RestInv PROVE SettledInv
  OBVIOUS
<1>1. TypeOK
  BY DEF TypeInv
<1>2. SettledConnectedIsComplete
  BY DEF RestInv, ServicesOpen, CompleteBut, SettledConnectedIsComplete, Quiescent
<1>3. Quiescent => \A c \in Callers : pc[c] \notin Critical
  BY ThreadsAssumption DEF LockInv, Quiescent, Threads
<1>4. TransientStateHasOwner
  BY <1>3 DEF RestInv, HasOwner, TransientStateHasOwner, Quiescent, Critical
<1> QED
  BY <1>1, <1>2, <1>4 DEF SettledInv

(* _reconnect_loop, _handle_session_lost, start() and get_service()        *)
(* (session_manager.py:138-305): however many reconnect threads overlapped,*)
(* once all of them are gone a manager nobody stopped is not left on a     *)
(* transient state, and one that says "connected" has every service open.  *)
THEOREM RestStateIsTrue == Spec => []SettledInv
<1>1. Init => TypeInv /\ SafetyInv /\ RestInv
  BY TypeInit, SafetyInit, RestInit
<1>2. TypeInv /\ SafetyInv /\ RestInv /\ [Next]_vars => (TypeInv /\ SafetyInv /\ RestInv)'
  BY TypeStep, SafetyStep, RestStep DEF SafetyInv
<1>3. TypeInv /\ SafetyInv /\ RestInv => SettledInv
  BY RestIsTrue DEF SafetyInv
<1> QED
  BY <1>1, <1>2, <1>3, PTL DEF Spec

LEMMA AtRestOnlyStart ==
  ASSUME TypeInv, LockInv, [Next]_vars, Quiescent, state = "stopped", state' # "stopped"
  PROVE  starts' # starts
<1> USE ThreadsAssumption
    DEF TypeInv, TypeOK, ThreadTypeOK, Quiescent, AllLoopsOff, At, Threads
<1>1. \A t \in Threads : pc[t] \notin Critical
  BY DEF LockInv
<1>2. \A t \in Threads : ~ Opening(t)
  BY <1>1 DEF Opening, OpenSession, OpenSessionFails, OpenService, OpenServiceFails,
              Connected, Critical
<1>3. ASSUME NEW c \in Callers, CallerStep(c) PROVE starts' # starts
  <2>1. ~ Stop(c) /\ ~ StopSession(c) /\ ~ GotService(c) /\ \A s \in Services : ~ GetService(c, s)
    BY <1>1 DEF Stop, StopSession, GotService, GetService, Critical, manager
  <2>2. starts' = starts + 1
    BY <1>3, <2>1 DEF CallerStep, Start
  <2> QED
    BY <2>2, BoundsAssumption
<1>4. \A l \in Loops : ~ LoopStep(l)
  BY DEF LoopStep, LoopBegins, LoopStopped, BackoffElapsed, BeginAttempt, GiveUp
<1>5. \A m \in mail : ~ Deliver(m)
  BY DEF Deliver, LossIgnored, LossHandled, IgnoresLoss, manager
<1>6. ~ Bloomberg /\ ~ UNCHANGED vars
  BY DEF Bloomberg, ConnectionDown, Terminate, manager, vars
<1> QED
  BY <1>2, <1>3, <1>4, <1>5, <1>6 DEF Next

(* stop() and _handle_session_lost (session_manager.py:263-305): once the  *)
(* reconnect threads are gone, no status message and no get_service()      *)
(* revives a stopped manager.                                              *)
THEOREM StoppedStaysStopped == Spec => StoppedIsFinalAtRest
<1>1. Init => TypeInv /\ SafetyInv
  BY TypeInit, SafetyInit
<1>2. TypeInv /\ SafetyInv /\ [Next]_vars => (TypeInv /\ SafetyInv)'
  BY TypeStep, SafetyStep
<1>3. TypeInv /\ SafetyInv /\ [Next]_vars
        => [Quiescent /\ state = "stopped" /\ state' # "stopped" => starts' # starts]_vars
  BY AtRestOnlyStart DEF SafetyInv
<1> QED
  BY <1>1, <1>2, <1>3, PTL DEF Spec, StoppedIsFinalAtRest

=============================================================================
