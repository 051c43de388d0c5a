---------------------------- MODULE ClientWindow ----------------------------
(***************************************************************************)
(* The client window (blpremote_client/ui.py): the Tk thread with its      *)
(* buttons, the worker threads it starts for Connect, Ask and Run, the     *)
(* queue that brings their results back, and identity.json, which both the *)
(* Tk thread (Settings) and the connect worker rewrite.                    *)
(*                                                                         *)
(* controller._host is the number of the connection, 0 for None; a plan is *)
(* the ask that produced it and the connection it was produced on.         *)
(***************************************************************************)
EXTENDS Naturals, FiniteSets, Sequences

CONSTANTS NoPlan,        \* no pending plan
          MaxAsks, MaxConnects, MaxRuns, MaxSaves   \* clicks of one behaviour

ASSUME NoPlanAssumption == NoPlan \notin [ask : Nat, conn : Nat]

VARIABLES conn,          \* controller._host
          status,        \* the text of the status label
          connectBtn, disconnectBtn, askBtn, runBtn,   \* enabled; Cancel is as Run
          pending,       \* state["pending_plan"]
          workers,       \* the running worker threads
          results,       \* q, oldest first
          key,           \* an OpenRouter key is configured
          identity,      \* the version of user and password in identity.json, 0: none saved
          saving,        \* the Tk thread has truncated identity.json, and writes it
          clicks,        \* how often each button was used
          excused,       \* asks that were in flight at a disconnect or at a later ask
          mixed          \* settings were saved while a connect read or rewrote the file

clientVars == <<conn, status, connectBtn, disconnectBtn, askBtn, runBtn, pending, workers,
                 results, key, identity, saving, clicks, excused, mixed>>
buttons == <<connectBtn, disconnectBtn, askBtn, runBtn>>
file    == <<identity, saving, mixed>>

ClientInit == /\ conn = 0 /\ status = "Disconnected" /\ pending = NoPlan
              /\ connectBtn = TRUE /\ disconnectBtn = FALSE /\ askBtn = FALSE /\ runBtn = FALSE
              /\ workers = {} /\ results = <<>> /\ excused = {}
              /\ key \in BOOLEAN /\ identity = 0 /\ saving = FALSE /\ mixed = FALSE
              /\ clicks = [connect |-> 0, ask |-> 0, run |-> 0, save |-> 0]

Asking == {w.ask : w \in {v \in workers : v.tag = "ask"}}
             \cup {results[i].ask : i \in {j \in DOMAIN results : results[j].tag = "ask"}}

Click(button) == clicks' = [clicks EXCEPT ![button] = @ + 1]
RunInThread(worker) == workers' = workers \cup {worker}
Put(worker, result) == /\ workers' = workers \ {worker}
                       /\ results' = Append(results, result)

\* do_connect; an empty URL only sets the status.
DoConnect ==
  /\ connectBtn /\ clicks.connect < MaxConnects
  /\ \/ status' = "Error" /\ UNCHANGED <<connectBtn, workers>>
     \/ /\ status' = "Connecting" /\ connectBtn' = FALSE
        /\ RunInThread([tag |-> "connect", at |-> "health", copy |-> 0])
  /\ Click("connect")
  /\ UNCHANGED <<conn, disconnectBtn, askBtn, runBtn, pending, results, key, file, excused>>

\* controller.connect in its thread: health() and version() fail, or the host is
\* stored and the URL written back: identity.json is read here; a truncated file counts
\* as an empty one ...
ConnectFails(w) ==
  /\ w.tag = "connect" /\ w.at = "health"
  /\ Put(w, [tag |-> "connect", ok |-> FALSE])
  /\ UNCHANGED <<conn, status, buttons, pending, key, file, clicks, excused>>
ConnectStores(w) ==
  /\ w.tag = "connect" /\ w.at = "health"
  /\ conn' = clicks.connect
  /\ workers' = (workers \ {w}) \cup {[w EXCEPT !.at = "write", !.copy = IF saving THEN 0 ELSE identity]}
  /\ UNCHANGED <<status, buttons, pending, results, key, file, clicks, excused>>
\* faulty: only the URL is written
UrlOnly(w)   == 0
Preserved(w) == w.copy
\* ... and written, with the user and password that were read, here.
PersistUrl(w) ==
  /\ w.tag = "connect" /\ w.at = "write"
  /\ identity' = Preserved(w)
  /\ mixed' = (mixed \/ saving)
  /\ Put(w, [tag |-> "connect", ok |-> TRUE])
  /\ UNCHANGED <<conn, status, buttons, pending, key, saving, clicks, excused>>

\* faulty: the plan and its Run button survive the disconnect
KeepsPlan == UNCHANGED <<runBtn, pending>>
DropPlan  == runBtn' = FALSE /\ pending' = NoPlan
DoDisconnect ==
  /\ disconnectBtn
  /\ conn' = 0 /\ status' = "Disconnected"
  /\ connectBtn' = TRUE /\ disconnectBtn' = FALSE /\ askBtn' = FALSE
  /\ DropPlan
  /\ excused' = excused \cup Asking
  /\ UNCHANGED <<workers, results, key, file, clicks>>

DoAsk ==
  /\ askBtn /\ clicks.ask < MaxAsks
  /\ askBtn' = FALSE /\ runBtn' = FALSE
  /\ RunInThread([tag |-> "ask", at |-> "check", ask |-> clicks.ask + 1, conn |-> 0])
  /\ excused' = excused \cup Asking
  /\ Click("ask")
  /\ UNCHANGED <<conn, status, connectBtn, disconnectBtn, pending, results, key, file>>

DoRun ==
  /\ runBtn /\ clicks.run < MaxRuns
  /\ IF pending = NoPlan THEN UNCHANGED <<runBtn, workers>>
     ELSE /\ runBtn' = FALSE
          /\ RunInThread([tag |-> "execute", at |-> "check", ask |-> pending.ask, conn |-> 0])
  /\ Click("run")
  /\ UNCHANGED <<conn, status, connectBtn, disconnectBtn, askBtn, pending, results, key,
                 file, excused>>

DoCancel ==
  /\ runBtn /\ runBtn' = FALSE /\ pending' = NoPlan
  /\ UNCHANGED <<conn, status, connectBtn, disconnectBtn, askBtn, workers, results, key, file,
                 clicks, excused>>

\* controller.ask and controller.execute: `if not self._host` is one read, the call
\* on self._host another; None there is an AttributeError, caught as a failed result.
CheckHost(w) ==
  /\ w.tag \in {"ask", "execute"} /\ w.at = "check"
  /\ IF conn = 0 THEN Put(w, [tag |-> w.tag, ask |-> w.ask, conn |-> 0, ok |-> FALSE])
     ELSE /\ workers' = (workers \ {w}) \cup {[w EXCEPT !.at = "read"]}
          /\ UNCHANGED results
  /\ UNCHANGED <<conn, status, buttons, pending, key, file, clicks, excused>>
ReadHost(w) ==
  /\ w.tag \in {"ask", "execute"} /\ w.at = "read"
  /\ IF conn = 0 THEN Put(w, [tag |-> w.tag, ask |-> w.ask, conn |-> 0, ok |-> FALSE])
     ELSE /\ workers' = (workers \ {w}) \cup {[w EXCEPT !.at = "call", !.conn = conn]}
          /\ UNCHANGED results
  /\ UNCHANGED <<conn, status, buttons, pending, key, file, clicks, excused>>
CallEnds(w) ==
  /\ w.tag \in {"ask", "execute"} /\ w.at = "call"
  /\ \E ok \in BOOLEAN : Put(w, [tag |-> w.tag, ask |-> w.ask, conn |-> w.conn, ok |-> ok])
  /\ UNCHANGED <<conn, status, buttons, pending, key, file, clicks, excused>>

\* handle_result, for the oldest result of the queue
ConnectResult(r) ==
  /\ r.tag = "connect"
  /\ IF r.ok THEN /\ status' = "Connected" /\ disconnectBtn' = TRUE /\ connectBtn' = FALSE
                  /\ askBtn' = (key \/ askBtn)
             ELSE status' = "Error" /\ connectBtn' = TRUE /\ UNCHANGED <<disconnectBtn, askBtn>>
  /\ UNCHANGED <<runBtn, pending>>
\* faulty: a failed answer leaves Ask disabled
AskStaysOff(r) == r.ok
AskAgain(r)    == TRUE
AskResult(r) ==
  /\ r.tag = "ask" /\ askBtn' = AskAgain(r)
  /\ IF r.ok THEN pending' = [ask |-> r.ask, conn |-> r.conn] /\ runBtn' = TRUE
             ELSE UNCHANGED <<pending, runBtn>>
  /\ UNCHANGED <<status, connectBtn, disconnectBtn>>
ExecuteResult(r) ==
  /\ r.tag = "execute" /\ runBtn' = FALSE /\ pending' = NoPlan
  /\ UNCHANGED <<status, connectBtn, disconnectBtn, askBtn>>
Drain ==
  /\ results # <<>>
  /\ ConnectResult(Head(results)) \/ AskResult(Head(results)) \/ ExecuteResult(Head(results))
  /\ results' = Tail(results)
  /\ UNCHANGED <<conn, workers, key, file, clicks, excused>>

\* The Settings dialog, on the Tk thread: a new user or password is merged into
\* identity.json, which is truncated and then written; a key can be added and never
\* removed; then refresh_identity_display.
Rewriting == \E w \in workers : w.tag = "connect" /\ w.at = "write"
Refresh   == askBtn' = IF conn # 0 THEN key' ELSE askBtn
EditIdentity ==
  /\ clicks.save < MaxSaves /\ Click("save")
  /\ saving' = TRUE /\ mixed' = (mixed \/ Rewriting)
  /\ UNCHANGED <<conn, status, buttons, pending, workers, results, key, identity, excused>>
SettingsWritten ==
  /\ saving /\ saving' = FALSE
  /\ identity' = clicks.save /\ mixed' = (mixed \/ Rewriting)
  /\ key' \in {key, TRUE} /\ Refresh
  /\ UNCHANGED <<conn, status, connectBtn, disconnectBtn, runBtn, pending, workers, results,
                 clicks, excused>>
SaveKey ==
  /\ key' = TRUE /\ Refresh
  /\ UNCHANGED <<conn, status, connectBtn, disconnectBtn, runBtn, pending, workers, results,
                 file, clicks, excused>>

ClientNext == \/ ~saving /\ (\/ DoConnect \/ DoDisconnect \/ DoAsk \/ DoRun \/ DoCancel
                              \/ EditIdentity \/ SaveKey \/ Drain)
              \/ SettingsWritten
              \/ \E w \in workers : \/ ConnectFails(w) \/ ConnectStores(w) \/ PersistUrl(w)
                                    \/ CheckHost(w) \/ ReadHost(w) \/ CallEnds(w)
ClientSpec == ClientInit /\ [][ClientNext]_clientVars

-----------------------------------------------------------------------------
\* An enabled Run button runs the plan of the last question, made on the connection
\* that is open now (ui.py:610-645), unless that question was still being answered
\* when the user disconnected or asked another.
RunIsTheLastAnswer ==
  runBtn => /\ pending # NoPlan
            /\ \/ pending.ask = clicks.ask /\ pending.conn = conn
               \/ pending.ask \in excused

\* With no worker and no result outstanding the window tells the truth: its status and
\* its buttons are those of the controller's host, and a connected user with a key can ask.
WindowAgrees ==
  workers = {} /\ results = <<>> =>
     /\ (status = "Connected") = (conn # 0) /\ disconnectBtn = (conn # 0)
     /\ connectBtn = (conn = 0)
     /\ (conn # 0 /\ key => askBtn) /\ (askBtn => key)

\* The user and password last saved in Settings are in identity.json (ui.py:158-202, 262-278),
\* except when they were saved while a connect was reading or rewriting the file.
SettingsKept == identity = clicks.save \/ saving \/ mixed
=============================================================================
