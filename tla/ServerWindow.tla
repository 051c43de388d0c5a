---------------------------- MODULE ServerWindow ----------------------------
(***************************************************************************)
(* The server window (blpremote_server/ui.py) and what it drives: the      *)
(* setup.ps1 processes it starts, the stop commands, the server and ngrok  *)
(* they leave running, and users.json, which the window, the setup script  *)
(* and the server all write. Bloomberg is there, so Start is enabled.      *)
(*                                                                         *)
(* users.json is the set of its users. Who writes it (the server at a      *)
(* login, the window at a Save) has read it before, in the server's case   *)
(* when it booted, and writes its own copy over it: the file is truncated, *)
(* then written. Torn or missing it counts as empty. Windows neither       *)
(* renames nor unlinks a file that another process has open.               *)
(***************************************************************************)
EXTENDS Naturals, FiniteSets

CONSTANTS Users, None,
          MaxStarts, MaxStops, MaxResets, MaxWindows   \* clicks of one behaviour

\* A running server.
Servers == [users : SUBSET Users, writing : BOOLEAN, happy : BOOLEAN]
ASSUME NoServerAssumption == None \notin Servers

VARIABLES window,       \* the windows opened so far; only the last one is open
          setups,       \* setup.ps1 processes that have not exited
          active,       \* _active_proc of the window: the number of a setup, or 0
          pumps,        \* the pump threads of setups that exited, of this window
          stops,        \* stop commands that have not killed anything yet
          server,       \* the uvicorn process: its copy of the users, whether it is writing that
                        \* to the file, and whether /health is happy
          ngrok,        \* the ngrok process runs
          users,        \* users.json
          dialog,       \* Settings: closed, open without or with the first-user fields, or
                        \* where do_save or do_reset is
          mine,         \* create_user_inline: the users to write
          copied,       \* do_reset: the users.json that was copied and not unlinked yet
          backups,      \* the users.json files moved to backup directories
          created,      \* every user that was ever written to users.json
          overwritten,  \* users dropped by a write of somebody who had not read them, or that
                        \* was cut short
          crossed,      \* users written to the file between the copy and the unlink of a Reset
          raced,        \* a Start fell between the two halves of a pump's last statement
          counts

winVars == <<window, setups, active, pumps, stops, server, ngrok, users, dialog,
             mine, copied, backups, created, overwritten, crossed, raced, counts>>
processes == <<setups, active, pumps, stops, raced>>
running   == <<server, ngrok>>
reset     == <<copied, backups>>
store     == <<users, mine, reset, created, overwritten, crossed>>

WinInit == /\ window = 1 /\ setups = {} /\ active = 0 /\ pumps = {}
           /\ stops = 0 /\ server = None /\ ngrok = FALSE
           /\ users \in {{}} \cup {{u} : u \in Users} /\ created = users
           /\ dialog = "closed" /\ mine = {} /\ copied = {} /\ backups = {}
           /\ overwritten = {} /\ crossed = {}
           /\ raced = FALSE /\ counts = [start |-> 0, stop |-> 0, reset |-> 0]

Did(button) == counts' = [counts EXCEPT ![button] = @ + 1]

\* parse_health: happy is "healthy and connected to Bloomberg"; None payload is Down.
Happy == server # None /\ server.happy

ServerWriting == server # None /\ server.writing
\* Users of a write that is under way: they are nowhere else if it is cut short.
UnderWay == (IF ServerWriting THEN server.users ELSE {}) \cup
            (IF dialog = "writing" THEN mine ELSE {})
ServerDies == /\ server' = None
              /\ overwritten' = overwritten \cup (IF ServerWriting THEN server.users ELSE {})
              /\ UNCHANGED <<users, mine, reset, created, crossed>>

\* _on_start, on the Tk thread: a fresh /health, then the setup still in flight, then
\* Popen and _active_proc = proc. A pump that has already compared _active_proc with
\* its own, finished, process goes on to clear the new one.
StartClicked ==
  /\ dialog = "closed" /\ counts.start < MaxStarts /\ Did("start")
  /\ IF Happy \/ (\E s \in setups : s.id = active) THEN UNCHANGED processes
     ELSE /\ setups' = setups \cup {[id |-> counts.start + 1, win |-> window, at |-> "port"]}
          /\ active' = counts.start + 1
          /\ raced' = (raced \/ \E p \in pumps : p.at = "clear")
          /\ UNCHANGED <<pumps, stops>>
  /\ UNCHANGED <<window, running, store, dialog>>

StopSpawns == stops' = stops + 1
StopClicked ==
  /\ dialog = "closed" /\ counts.stop < MaxStops /\ Did("stop") /\ StopSpawns
  /\ UNCHANGED <<window, setups, active, pumps, raced, running, store, dialog>>
\* build_stop_command: the listener on the port and every ngrok, by force; no setup.
StopKills == /\ stops > 0 /\ stops' = stops - 1 /\ ServerDies /\ ngrok' = FALSE
             /\ UNCHANGED <<window, setups, active, pumps, raced, dialog, counts>>

\* setup.ps1 -Force -SkipInstall -CoordSend mac, step by step
Goes(s, at) == setups' = (setups \ {s}) \cup {[s EXCEPT !.at = at]}
Exits(s)    == /\ setups' = setups \ {s}
               /\ pumps' = IF s.win = window THEN pumps \cup {[id |-> s.id, at |-> "compare"]}
                           ELSE pumps
FreePort(s) == /\ s.at = "port" /\ ServerDies /\ Goes(s, "users")
               /\ UNCHANGED <<ngrok, pumps>>
\* Without users the script asks for one at a console the window does not have: it stays
\* there or it throws.
AskFirstUser(s) == /\ s.at = "users" /\ UNCHANGED <<running, store>>
                   /\ IF users # {} THEN Goes(s, "uvicorn") /\ UNCHANGED pumps ELSE Exits(s)
StartUvicorn(s) == /\ s.at = "uvicorn" /\ Goes(s, "health")
                   /\ server' = IF server # None THEN server
                                ELSE [users |-> users, writing |-> FALSE, happy |-> FALSE]
                   /\ UNCHANGED <<ngrok, pumps, store>>
WaitHealthy(s) == /\ s.at = "health" /\ UNCHANGED <<running, store>>
                  /\ \/ Happy /\ Goes(s, "ngrok") /\ UNCHANGED pumps
                     \/ Exits(s)                                  \* 20 seconds, or killed
StartNgrok(s) == /\ s.at = "ngrok" /\ Exits(s) /\ ngrok' \in BOOLEAN /\ UNCHANGED <<server, store>>
SetupStep == /\ \E s \in setups : \/ FreePort(s) \/ AskFirstUser(s)
                                  \/ StartUvicorn(s) \/ WaitHealthy(s) \/ StartNgrok(s)
             /\ UNCHANGED <<window, active, stops, raced, dialog, counts>>

\* _pump, when its setup has exited: `if self._active_proc is proc`, then the store.
\* faulty: whatever process the window follows is forgotten
AnyProc(p) == TRUE
IsProc(p) == active = p.id
PumpCompares == \E p \in pumps : /\ p.at = "compare"
                  /\ pumps' = (pumps \ {p}) \cup
                       (IF IsProc(p) THEN {[p EXCEPT !.at = "clear"]} ELSE {})
                  /\ UNCHANGED <<window, setups, active, stops, raced, running, store,
                                 dialog, counts>>
PumpClears == \E p \in pumps : /\ p.at = "clear" /\ active' = 0 /\ pumps' = pumps \ {p}
                  /\ UNCHANGED <<window, setups, stops, raced, running, store, dialog,
                                 counts>>

\* The server gets its Bloomberg session, loses it, or dies.
ServerChanges == /\ server # None
                 /\ \/ ServerDies
                    \/ server' \in {[server EXCEPT !.happy = b] : b \in BOOLEAN} /\ UNCHANGED store
                 /\ UNCHANGED <<window, processes, ngrok, dialog, counts>>

\* UserStore._save: open(path, "w") empties the file, dump and close write the whole copy. What
\* somebody else has written in between is no JSON with the rest of it over or under it.
Truncates(own) ==
  users' = {} /\ overwritten' = overwritten \cup (users \ own)
Writes(own) ==
  /\ users' \in {own} \cup (IF users = {} THEN {} ELSE {{}})
  /\ overwritten' = overwritten \cup ((users \cup own) \ users')
  /\ created' = created \cup users'
\* A login with an unknown name: the server adds the user to its copy and saves it.
ServerTruncates(u) ==
  /\ server # None /\ ~ server.writing /\ u \notin server.users
  /\ server' = [server EXCEPT !.users = @ \cup {u}, !.writing = TRUE]
  /\ Truncates(server.users)
  /\ UNCHANGED <<window, processes, ngrok, dialog, mine, reset, created, crossed, counts>>
ServerWrites ==
  /\ ServerWriting /\ server' = [server EXCEPT !.writing = FALSE]
  /\ Writes(server.users)
  /\ crossed' = crossed \cup (IF dialog = "unlinking" THEN users' \ copied ELSE {})
  /\ UNCHANGED <<window, processes, ngrok, dialog, mine, reset, counts>>

\* _on_open_settings (also on the first run); the first-user fields depend on the file.
OpenSettings == /\ dialog = "closed" /\ dialog' = IF users = {} THEN "first" ELSE "open"
                /\ UNCHANGED <<window, processes, running, store, counts>>
CloseSettings == /\ dialog \in {"open", "first"} /\ dialog' = "closed"
                 /\ UNCHANGED <<window, processes, running, store, counts>>
\* do_save: beside the JWT key, generated when its file is missing, create_user_inline: a
\* store of its own is loaded, the password hashed, the copy saved. A name that is there
\* already, or an exception before the file is open, leaves everything as it was.
SaveLoads == /\ dialog = "first" /\ dialog' = "hashing"
             /\ \E u \in Users \ users : mine' = users \cup {u}
             /\ UNCHANGED <<window, processes, running, users, reset, created, overwritten,
                            crossed, counts>>
SaveRaises == /\ dialog = "hashing" /\ dialog' = "first" /\ mine' = {}
              /\ UNCHANGED <<window, processes, running, users, reset, created, overwritten,
                             crossed, counts>>
SaveTruncates == /\ dialog = "hashing" /\ dialog' = "writing" /\ Truncates(mine)
                 /\ UNCHANGED <<window, processes, running, mine, reset, created, crossed, counts>>
SaveWrites == /\ dialog = "writing" /\ dialog' = "first" /\ Writes(mine) /\ mine' = {}
              /\ UNCHANGED <<window, processes, running, reset, crossed, counts>>

\* do_reset: the stop is spawned and not awaited; reset_install_state moves each file to
\* the backup directory by a rename, else by a copy and an unlink, else not at all.
ResetClicked == /\ dialog \in {"open", "first"} /\ counts.reset < MaxResets /\ Did("reset")
                /\ StopSpawns /\ dialog' = "resetting"
                /\ UNCHANGED <<window, setups, active, pumps, raced, running, store>>
Renamed == ~ ServerWriting /\ users' = {} /\ backups' = backups \cup {users}
\* faulty: a copy that failed is unlinked all the same
CopyLost == copied' = users /\ UNCHANGED backups
Copied  == copied' = users /\ backups' = backups \cup {users}
ResetUsers ==
  /\ dialog = "resetting"
  /\ \/ Renamed /\ dialog' = "closed" /\ UNCHANGED copied
     \/ Copied /\ dialog' = "unlinking" /\ UNCHANGED users
     \/ dialog' = "closed" /\ UNCHANGED <<users, reset>>
  /\ UNCHANGED <<window, processes, running, mine, created, overwritten, crossed, counts>>
ResetUnlinks ==
  /\ dialog = "unlinking" /\ dialog' = "closed" /\ copied' = {}
  /\ \/ ~ ServerWriting /\ users' = {}
     \/ UNCHANGED users                                \* unlink raises
  /\ UNCHANGED <<window, processes, running, mine, backups, created, overwritten, crossed, counts>>

\* The window is closed, or dies; setups go on, and the next window follows none of them.
Reopen == /\ window < MaxWindows /\ window' = window + 1
          /\ active' = 0 /\ pumps' = {} /\ dialog' = "closed" /\ mine' = {} /\ copied' = {}
          /\ overwritten' = overwritten \cup (IF dialog = "writing" THEN mine ELSE {})
          /\ UNCHANGED <<setups, stops, raced, running, users, backups, created, crossed, counts>>

WinNext == \/ StartClicked \/ StopClicked \/ StopKills \/ SetupStep
           \/ PumpCompares \/ PumpClears \/ ServerChanges \/ ServerWrites \/ OpenSettings
           \/ \E u \in Users : ServerTruncates(u)
           \/ CloseSettings \/ SaveLoads \/ SaveRaises \/ SaveTruncates \/ SaveWrites
           \/ ResetClicked \/ ResetUsers \/ ResetUnlinks \/ Reopen
WinSpec == WinInit /\ [][WinNext]_winVars

-----------------------------------------------------------------------------
\* The window refuses overlapping starts (ui.py:596-598, 672-675): at most one setup that it
\* started is running, also when the pump of an earlier one reports late. The exception is a
\* start between the pump's comparison and its store (701-702).
OneSetup == Cardinality({s \in setups : s.win = window}) <= 1 \/ raced

\* Who once had an account is in users.json, in a write under way or in a backup, whichever of
\* rename, copy and unlink failed or was cut short and whoever wrote the file meanwhile. Three
\* things lose an account: a server or window that writes a copy without it, a write that is
\* killed or crosses another (both `overwritten`), and a Reset that unlinks what the server
\* wrote after the copy (`crossed`).
ResetIsUndoable == created \subseteq users \cup UnderWay \cup (UNION backups) \cup overwritten \cup crossed
=============================================================================
