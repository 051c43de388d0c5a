-------------------------- MODULE SessionManager --------------------------
(***************************************************************************)
(* The lifecycle of the one long-lived Bloomberg session of the server:    *)
(* blpremote_server/session_manager.py.                                    *)
(*                                                                         *)
(* Three kinds of threads meet on `_lock`:                                 *)
(*   - callers (the app's lifespan, request handlers) run start(), stop()  *)
(*     and get_service();                                                  *)
(*   - the blpapi callback thread delivers SESSION_STATUS messages         *)
(*     (_on_event -> _handle_session_lost);                                *)
(*   - every loss that is not ignored spawns a reconnect thread that runs  *)
(*     _reconnect_loop.                                                    *)
(* A critical section is split where the code blocks in blpapi             *)
(* (Session.start, openService): there other threads still read `_state`   *)
(* and `_stop` without the lock, and the Bloomberg side still moves.       *)
(*                                                                         *)
(* The queue table of the manager is the subject of RequestDispatch.       *)
(***************************************************************************)
EXTENDS Integers, Sequences

CONSTANTS
  Callers,      \* threads that call start, stop and get_service
  Loops,        \* reconnect threads that can be alive at the same time
  Services,     \* service names
  PreOpened,    \* the services given to the constructor
  MaxAttempts,  \* MAX_RECONNECT_ATTEMPTS
  NoOne,        \* the value of `lock` when no thread holds it
  MaxStarts,    \* bound: calls of start() that do something
  MaxStops,     \* bound: calls of stop() that do something
  MaxLost       \* bound: "session lost" messages Bloomberg emits

ASSUME ThreadsAssumption ==
  /\ Callers \cap Loops = {}
  /\ NoOne \notin Callers \cup Loops

ASSUME ServicesAssumption == PreOpened \subseteq Services

ASSUME BoundsAssumption ==
  /\ MaxAttempts \in Nat \ {0}
  /\ MaxStarts \in Nat
  /\ MaxStops \in Nat
  /\ MaxLost \in Nat

Threads == Callers \cup Loops

NoSession == 0

SessionState == {"uninitialized", "starting", "connected", "degraded",
                 "reconnecting", "failed", "shutting_down", "stopped"}

LostMessageTypes == {"SessionTerminated", "SessionStartupFailure",
                     "SessionConnectionDown"}

(* What Bloomberg holds behind a blpapi.Session object: "failed" when its  *)
(* start() returned False, "stopped" once its stop() was called.           *)
ConnStatus == {"up", "down", "terminated", "stopped", "failed"}

VARIABLES
  state,      \* _state, read without the lock
  session,    \* _session: the index of the session in conn, or NoSession
  services,   \* _services: the session the cached handle came from
  names,      \* _service_names
  stopFlag,   \* _stop.is_set()
  attempts,   \* _reconnect_attempts
  lock,       \* the holder of _lock
  pc,         \* where each thread is
  todo,       \* services the thread has still to open
  attempt,    \* the loop variable of _reconnect_loop
  starts, stops,  \* calls made so far
  conn,       \* the sessions ever created, in order, and their status
  mail,       \* status messages emitted and not yet handled
  losses      \* status messages emitted so far

manager == <<state, session, services, names, stopFlag, attempts>>
threads == <<lock, pc, todo, attempt>>
calls   == <<starts, stops>>
bbg     == <<conn, mail, losses>>
vars    == <<manager, threads, calls, bbg>>

-----------------------------------------------------------------------------

(* Program counters: idle and off lie outside every operation; the ones in *)
(* Critical are reached and left with the lock held.                       *)
Critical  == {"openSession", "openServices", "openOne", "stopping"}
CallerPC  == {"idle"} \cup Critical
LoopPC    == {"off", "spawned", "waiting", "attempting", "openSession",
              "openServices", "gaveUp"}

ManagerTypeOK ==
  /\ state \in SessionState
  /\ session \in Nat
  /\ services \in [Services -> Nat]
  /\ names \in SUBSET Services
  /\ stopFlag \in BOOLEAN
  /\ attempts \in 0..MaxAttempts

ThreadTypeOK ==
  /\ lock \in Threads \cup {NoOne}
  /\ pc \in [Threads -> CallerPC \cup LoopPC]
  /\ \A c \in Callers : pc[c] \in CallerPC
  /\ \A l \in Loops : pc[l] \in LoopPC
  /\ todo \in [Threads -> SUBSET Services]
  /\ attempt \in [Loops -> 0..MaxAttempts]
  /\ starts \in 0..MaxStarts
  /\ stops \in 0..MaxStops

BloombergTypeOK ==
  /\ conn \in Seq(ConnStatus)
  /\ mail \in SUBSET [sid : Nat, type : LostMessageTypes]
  /\ losses \in 0..MaxLost

TypeOK == ManagerTypeOK /\ ThreadTypeOK /\ BloombergTypeOK

Init ==
  /\ state = "uninitialized"
  /\ session = NoSession
  /\ services = [s \in Services |-> NoSession]
  /\ names = PreOpened
  /\ stopFlag = FALSE
  /\ attempts = 0
  /\ lock = NoOne
  /\ pc = [t \in Threads |-> IF t \in Callers THEN "idle" ELSE "off"]
  /\ todo = [t \in Threads |-> {}]
  /\ attempt = [l \in Loops |-> 0]
  /\ starts = 0
  /\ stops = 0
  /\ conn = <<>>
  /\ mail = {}
  /\ losses = 0

-----------------------------------------------------------------------------
(* Helpers                                                                 *)

At(t, label)   == pc[t] = label
Goto(t, label) == pc' = [pc EXCEPT ![t] = label]
Acquire(t)     == lock = NoOne /\ lock' = t
Release        == lock' = NoOne

(* The services every new session opens: list(self._service_names)         *)
ToOpen == names

(* What _services.clear() leaves                                           *)
NotCleared == services      \* faulty: the clear() is missing
Cleared == [s \in Services |-> NoSession]

(* Bloomberg may report what happened to session sid, now or never.        *)
MayEmit(sid, type) ==
  \/ UNCHANGED <<mail, losses>>
  \/ /\ losses < MaxLost
     /\ losses' = losses + 1
     /\ mail' = mail \cup {[sid |-> sid, type |-> type]}

(* self._session.stop() when there is a session, then self._session = None *)
(* and self._services.clear(). A session that ends is reported at most     *)
(* once as terminated.                                                     *)
ForgetSession ==            \* faulty: the old session is not stopped
  /\ session' = NoSession
  /\ services' = Cleared
  /\ UNCHANGED bbg

DropSession ==
  /\ session' = NoSession
  /\ services' = Cleared
  /\ IF session = NoSession
       THEN UNCHANGED bbg
       ELSE /\ conn' = [conn EXCEPT ![session] = "stopped"]
            /\ IF conn[session] = "terminated"
                 THEN UNCHANGED <<mail, losses>>
                 ELSE MayEmit(session, "SessionTerminated")

(* How the two users of _open_session_locked and _open_service_locked end  *)
(* when one of them raises: start() records FAILED and re-raises,          *)
(* get_service() only raises, the loop goes back to waiting or gives up.   *)
RaisedSilently(t) == state  \* faulty: start() does not record the failure
StateAfterRaise(t) ==
  IF t \in Callers /\ pc[t] # "openOne" THEN "failed" ELSE state

LastAttempt(l) == attempt[l] >= MaxAttempts

KeepsLock(t) ==             \* faulty: the lock is not released
  /\ UNCHANGED lock
  /\ todo' = [todo EXCEPT ![t] = {}]
  /\ state' = StateAfterRaise(t)
  /\ Goto(t, IF t \in Callers THEN "idle"
             ELSE IF LastAttempt(t) THEN "gaveUp" ELSE "waiting")

OpenRaised(t) ==
  /\ Release
  /\ todo' = [todo EXCEPT ![t] = {}]
  /\ state' = StateAfterRaise(t)
  /\ Goto(t, IF t \in Callers THEN "idle"
             ELSE IF LastAttempt(t) THEN "gaveUp" ELSE "waiting")

-----------------------------------------------------------------------------
(* start(); on a manager that is connected or starting it returns, with no *)
(* change.                                                                 *)

Start(c) ==
  /\ At(c, "idle") /\ starts < MaxStarts
  /\ Acquire(c)
  /\ state \notin {"connected", "starting"}
  /\ starts' = starts + 1
  /\ state' = "starting"
  /\ stopFlag' = FALSE
  /\ Goto(c, "openSession")
  /\ UNCHANGED <<session, services, names, attempts, todo, attempt, stops, bbg>>

(* _open_session_locked                                                    *)
OpenSession(t) ==
  /\ At(t, "openSession")
  /\ conn' = Append(conn, "up")
  /\ session' = Len(conn) + 1
  /\ todo' = [todo EXCEPT ![t] = ToOpen]
  /\ Goto(t, "openServices")
  /\ UNCHANGED <<state, services, names, stopFlag, attempts, lock, attempt,
                 calls, mail, losses>>

OpenSessionFails(t) ==
  /\ At(t, "openSession")
  /\ conn' = Append(conn, "failed")
  /\ MayEmit(Len(conn) + 1, "SessionStartupFailure")
  /\ session' = NoSession
  /\ OpenRaised(t)
  /\ UNCHANGED <<services, names, stopFlag, attempts, attempt, calls>>

(* _open_service_locked                                                    *)
OpenService(t) ==
  /\ pc[t] \in {"openServices", "openOne"}
  /\ conn[session] = "up"
  /\ \E s \in todo[t] :
       /\ services' = [services EXCEPT ![s] = session]
       /\ names' = names \cup {s}
       /\ todo' = [todo EXCEPT ![t] = @ \ {s}]
  /\ UNCHANGED <<state, session, stopFlag, attempts, lock, pc, attempt, calls,
                 bbg>>

OpenServiceFails(t) ==
  /\ pc[t] \in {"openServices", "openOne"}
  /\ todo[t] # {}
  /\ OpenRaised(t)
  /\ UNCHANGED <<session, services, names, stopFlag, attempts, attempt, calls,
                 bbg>>

(* The end of start() and of a successful attempt of the loop              *)
Connected(t) ==
  /\ At(t, "openServices")
  /\ todo[t] = {}
  /\ state' = "connected"
  /\ attempts' = IF t \in Callers THEN 0 ELSE attempt[t]
  /\ Release
  /\ Goto(t, IF t \in Callers THEN "idle" ELSE "off")
  /\ UNCHANGED <<session, services, names, stopFlag, todo, attempt, calls, bbg>>

(* get_service(s) for a service without a cached handle; a cached handle   *)
(* is returned, and without a session SessionError raised, with no change. *)
GetService(c, s) ==
  /\ At(c, "idle")
  /\ Acquire(c)
  /\ services[s] = NoSession
  /\ session # NoSession
  /\ todo' = [todo EXCEPT ![c] = {s}]
  /\ Goto(c, "openOne")
  /\ UNCHANGED <<manager, attempt, calls, bbg>>

GotService(c) ==
  /\ At(c, "openOne")
  /\ todo[c] = {}
  /\ Release
  /\ Goto(c, "idle")
  /\ UNCHANGED <<manager, todo, attempt, calls, bbg>>

-----------------------------------------------------------------------------
(* stop(); on a stopped manager it returns, with no change.                *)

Stop(c) ==
  /\ At(c, "idle") /\ stops < MaxStops
  /\ Acquire(c)
  /\ state # "stopped"
  /\ stops' = stops + 1
  /\ state' = "shutting_down"
  /\ stopFlag' = TRUE
  /\ Goto(c, "stopping")
  /\ UNCHANGED <<session, services, names, attempts, todo, attempt, starts, bbg>>

StopSession(c) ==
  /\ At(c, "stopping")
  /\ DropSession
  /\ state' = "stopped"
  /\ Release
  /\ Goto(c, "idle")
  /\ UNCHANGED <<names, stopFlag, attempts, todo, attempt, calls>>

-----------------------------------------------------------------------------
(* The blpapi callback thread: _on_event, _handle_status_message,          *)
(* _handle_session_lost. The session a message came from is not looked at. *)

IgnoresLossUnlessStopped ==  \* faulty: a stopped manager reconnects
  state \in {"shutting_down", "reconnecting"}
IgnoresLoss == state \in {"shutting_down", "stopped", "reconnecting"}

LossIgnored(m) ==
  /\ lock = NoOne
  /\ IgnoresLoss
  /\ mail' = mail \ {m}
  /\ UNCHANGED <<manager, threads, calls, conn, losses>>

LossHandled(m) ==
  /\ lock = NoOne
  /\ ~ IgnoresLoss
  /\ mail' = mail \ {m}
  /\ state' = "degraded"
  /\ \E l \in Loops : At(l, "off") /\ Goto(l, "spawned")
  /\ UNCHANGED <<session, services, names, stopFlag, attempts, lock, todo,
                 attempt, calls, conn, losses>>

Deliver(m) == LossIgnored(m) \/ LossHandled(m)

-----------------------------------------------------------------------------
(* _reconnect_loop                                                         *)

LoopBegins(l) ==
  /\ At(l, "spawned")
  /\ lock = NoOne
  /\ state' = "reconnecting"
  /\ attempt' = [attempt EXCEPT ![l] = 0]
  /\ Goto(l, "waiting")
  /\ UNCHANGED <<session, services, names, stopFlag, attempts, lock, todo,
                 calls, bbg>>

(* `if self._stop.wait(backoff): return`                                   *)
LoopStopped(l) ==
  /\ At(l, "waiting")
  /\ stopFlag
  /\ Goto(l, "off")
  /\ UNCHANGED <<manager, lock, todo, attempt, calls, bbg>>

BackoffElapsed(l) ==
  /\ At(l, "waiting")
  /\ ~ stopFlag
  /\ attempt' = [attempt EXCEPT ![l] = @ + 1]
  /\ Goto(l, "attempting")
  /\ UNCHANGED <<manager, lock, todo, calls, bbg>>

BeginAttempt(l) ==
  /\ At(l, "attempting")
  /\ Acquire(l)
  /\ DropSession
  /\ Goto(l, "openSession")
  /\ UNCHANGED <<state, names, stopFlag, attempts, todo, attempt, calls>>

GiveUpSilently(l) ==        \* faulty: FAILED is not recorded
  /\ At(l, "gaveUp")
  /\ Goto(l, "off")
  /\ UNCHANGED <<manager, lock, todo, attempt, calls, bbg>>

GiveUp(l) ==
  /\ At(l, "gaveUp")
  /\ lock = NoOne
  /\ state' = "failed"
  /\ Goto(l, "off")
  /\ UNCHANGED <<session, services, names, stopFlag, attempts, lock, todo,
                 attempt, calls, bbg>>

-----------------------------------------------------------------------------
(* Bloomberg: the connection of a session drops, a session terminates.     *)

ConnectionDown(i) ==
  /\ conn[i] = "up"
  /\ losses < MaxLost
  /\ losses' = losses + 1
  /\ conn' = [conn EXCEPT ![i] = "down"]
  /\ mail' = mail \cup {[sid |-> i, type |-> "SessionConnectionDown"]}
  /\ UNCHANGED <<manager, threads, calls>>

Terminate(i) ==
  /\ conn[i] \in {"up", "down"}
  /\ losses < MaxLost
  /\ losses' = losses + 1
  /\ conn' = [conn EXCEPT ![i] = "terminated"]
  /\ mail' = mail \cup {[sid |-> i, type |-> "SessionTerminated"]}
  /\ UNCHANGED <<manager, threads, calls>>

-----------------------------------------------------------------------------

Opening(t) ==
  \/ OpenSession(t) \/ OpenSessionFails(t)
  \/ OpenService(t) \/ OpenServiceFails(t)
  \/ Connected(t)

CallerStep(c) ==
  \/ Start(c) \/ Stop(c) \/ StopSession(c)
  \/ GotService(c) \/ \E s \in Services : GetService(c, s)

LoopStep(l) ==
  \/ LoopBegins(l) \/ LoopStopped(l) \/ BackoffElapsed(l)
  \/ BeginAttempt(l) \/ GiveUp(l)

Bloomberg == \E i \in DOMAIN conn : ConnectionDown(i) \/ Terminate(i)

Next ==
  \/ \E t \in Threads : Opening(t)
  \/ \E c \in Callers : CallerStep(c)
  \/ \E l \in Loops : LoopStep(l)
  \/ \E m \in mail : Deliver(m)
  \/ Bloomberg

Spec == Init /\ [][Next]_vars

(* Inside a critical section a thread runs on: blpapi's start, openService *)
(* and stop return. A thread that wants the lock gets it in the end, though*)
(* others may take it before (strong fairness). Nobody is obliged to call  *)
(* start, stop or get_service, and Bloomberg is not obliged to lose        *)
(* anything.                                                               *)
Fairness ==
  /\ \A t \in Threads : WF_vars(Opening(t))
  /\ \A c \in Callers : WF_vars(StopSession(c) \/ GotService(c))
  /\ \A l \in Loops : SF_vars(LoopStep(l))
  /\ SF_vars(\E m \in mail : Deliver(m))

FairSpec == Spec /\ Fairness

-----------------------------------------------------------------------------
(* Properties                                                              *)

AllLoopsOff == \A l \in Loops : At(l, "off")

Quiescent == lock = NoOne /\ AllLoopsOff

HoldsSession(i) == conn[i] \notin {"failed", "stopped"}

(* Every cached service handle was opened on the session in force: a       *)
(* reconnect, a failed attempt or a stop leaves no handle of an older      *)
(* session behind in _services. True as long as start() is called once, as *)
(* the app does: start() itself does not clear _services.                  *)
OneStart == starts <= 1

HandlesOfCurrentSession ==
  OneStart => \A s \in Services : services[s] \in {NoSession, session}

(* The manager owns a single session: whatever interleaving of stop,       *)
(* get_service and overlapping reconnect threads, a session object that was*)
(* started and not stopped is the one in _session, so nothing is leaked.   *)
(* Again for the one start() of the app: a second one, on a manager that is*)
(* degraded, would open a session beside the one it has.                   *)
OwnsSingleSession ==
  OneStart => \A i \in DOMAIN conn : HoldsSession(i) => i = session

(* Once the reconnect threads are done and no stop() was asked for, a      *)
(* manager that says "connected" has a session on which every known        *)
(* service is open, also after several reconnect threads overlapped.       *)
SettledConnectedIsComplete ==
  Quiescent /\ ~ stopFlag /\ state = "connected"
     => /\ session # NoSession
        /\ \A s \in names : services[s] = session

(* A failed or stopped manager at rest is never left on "degraded",        *)
(* "reconnecting" or a half-done "starting": without a stop() request, one *)
(* of the threads is still responsible for every transient state.          *)
TransientStateHasOwner ==
  Quiescent /\ ~ stopFlag
     => state \in {"uninitialized", "connected", "failed"}

(* At rest the manager is what its state says (session_manager.py:138-305).*)
SettledInv == TypeOK /\ SettledConnectedIsComplete /\ TransientStateHasOwner

(* stop() is final once no reconnect thread is left: late status messages  *)
(* and get_service() calls do not revive the manager, only start() does.   *)
StoppedIsFinalAtRest ==
  [][Quiescent /\ state = "stopped" /\ state' # "stopped" => starts' # starts]_vars

(* A loss is dealt with: unless stop() is called, every reported loss ends *)
(* with the manager connected again or given up.                           *)
LossIsResolved ==
  state \in {"degraded", "reconnecting"} ~> state \in {"connected", "failed"} \/ stopFlag

(* A reconnect thread ends, whatever happens around it: it does not wait   *)
(* for the lock or sleep for ever, and stop() does not strand it.          *)
LoopsTerminate ==
  \A l \in Loops : At(l, "spawned") ~> At(l, "off")

-----------------------------------------------------------------------------
(* What the source says of itself and the code does not do.                *)

(* stop(): "Stop the session and tear down all queues." Once stop() has    *)
(* returned, and start() is not called again, no session is left.          *)
StopLeavesNoSession == lock = NoOne /\ stopFlag => session = NoSession

=============================================================================
