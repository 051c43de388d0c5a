------------------------------- MODULE Login -------------------------------
(***************************************************************************)
(* Logins and tokens, from both ends.                                      *)
(*                                                                         *)
(* Client: every process keeps in `mem` the whole token file it read when  *)
(* it was constructed (auth.py TokenManager), takes a token that has more  *)
(* than a buffer to live or logs in, and forgets the token of a call that  *)
(* comes back with 401 (host.py, subscribe.py).  A save truncates the file *)
(* and then writes the whole of `mem`, so processes can read a torn file   *)
(* and write back entries that others have replaced.                       *)
(*                                                                         *)
(* Server: users are loaded once at boot and the file is rewritten in      *)
(* place for every new user; a token is checked by its signature and its   *)
(* expiry only (auth.py, app.py).  A boot may rotate the secret.           *)
(*                                                                         *)
(* All clocks show the same time.  A login's answer takes at most          *)
(* LoginDelay, a call takes at most CallDelay to reach the server.         *)
(***************************************************************************)
EXTENDS Integers, FiniteSets

CONSTANTS Processes, Hosts, Users, Passwords, None, Torn,
          Credentials,       \* Process -> [user, password], or None
          Lifetime, Buffer, LoginDelay, CallDelay,
          RotateSecret,      \* settings.rotate_secret_at_boot
          MaxTime, MaxBoots, MaxStarts

VARIABLES
  now,
  \* the servers
  up,        \* host -> "down", "up", or "saving": users.json is being rewritten
  users,     \* host -> UserStore._users: user -> password or None
  usersFile, \* host -> users.json: the same, or Torn
  secret,    \* host -> which secret signs the tokens
  boots,     \* host -> number of boots
  known,     \* history: host -> the accounts a login or create-user acknowledged
  torn,      \* history: the hosts whose users.json a crash left torn
  \* the clients
  file,      \* ~/.blpremote/tokens.json: host -> entry or None; or Torn
  content,   \* history: what the last save was to write
  mem,       \* process -> TokenManager._tokens
  stale,     \* history: who has not read the last save, or read a torn file
  pc, host,  \* process -> what it does, for which host
  tok,       \* process -> the token in its hands
  since,     \* process -> when its request was posted
  rejected,  \* history: process -> 401s since its start and the server's boot
  starts

servers == <<up, users, usersFile, secret, boots, known, torn>>
tokens == <<file, content, mem, stale>>
vars == <<now, servers, tokens, pc, host, tok, since, rejected, starts>>

Token == [secret: Nat, exp: Nat]
Entry == [token: Token, expiresAt: Nat]
Store == [Hosts -> Entry \cup {None}]
Accounts == [Users -> Passwords \cup {None}]
NoEntries == [h \in Hosts |-> None]
NoUsers == [u \in Users |-> None]

\* The buffer of 60 s covers the login's timeout of 10 s and the client's of 30 s,
\* and so does a lifetime, which is configured in minutes.
LoginAssumption ==
  /\ {Lifetime, Buffer, LoginDelay, CallDelay, MaxTime, MaxStarts} \subseteq Nat
  /\ MaxBoots \in [Hosts -> Nat] /\ Hosts # {}
  /\ LoginDelay + CallDelay <= Buffer /\ LoginDelay + CallDelay < Lifetime
  /\ None \notin Passwords \cup Token \cup Entry
  /\ Torn \notin Store \cup Accounts
  /\ Credentials \in [Processes -> [user: Users, password: Passwords] \cup {None}]
  /\ RotateSecret \in BOOLEAN

TypeOK ==
  /\ now \in 0..MaxTime
  /\ up \in [Hosts -> {"down", "up", "saving"}]
  /\ users \in [Hosts -> Accounts]
  /\ usersFile \in [Hosts -> Accounts \cup {Torn}]
  /\ file \in Store \cup {Torn}
  /\ mem \in [Processes -> Store]
  /\ pc \in [Processes -> {"off", "idle", "login", "store", "save", "forget", "send"}]
  /\ tok \in [Processes -> Token \cup {None}]

Init ==
  /\ now = 0
  /\ up = [h \in Hosts |-> "up"]
  /\ users = [h \in Hosts |-> NoUsers] /\ usersFile = users
  /\ secret = [h \in Hosts |-> 0] /\ boots = secret
  /\ known = users /\ torn = {}
  /\ file = NoEntries /\ content = file
  /\ mem = [p \in Processes |-> NoEntries] /\ stale = {}
  /\ pc = [p \in Processes |-> "off"]
  /\ host = [p \in Processes |-> CHOOSE h \in Hosts : TRUE]
  /\ tok = [p \in Processes |-> None]
  /\ since = [p \in Processes |-> 0]
  /\ rejected = since
  /\ starts = 0

Goto(p, l) == pc' = [pc EXCEPT ![p] = l]

----------------------------------------------------------------------------
(* The client: construction, _get_token, store_token, clear_token.         *)

\* RemoteHost.__init__ makes a TokenManager, which loads the file; a file
\* that does not parse counts as empty.
Read(f) == IF f = Torn THEN NoEntries ELSE f

Start(p, h) ==
  /\ pc[p] = "off" /\ starts < MaxStarts
  /\ mem' = [mem EXCEPT ![p] = Read(file)]
  /\ stale' = IF file = Torn THEN stale \cup {p} ELSE stale \ {p}
  /\ host' = [host EXCEPT ![p] = h]
  /\ rejected' = [rejected EXCEPT ![p] = 0]
  /\ starts' = starts + 1
  /\ Goto(p, "idle")
  /\ UNCHANGED <<now, servers, file, content, tok, since>>

Exit(p) ==
  /\ pc[p] = "idle"
  /\ Goto(p, "off")
  /\ UNCHANGED <<now, servers, tokens, host, tok, since, rejected, starts>>

NoBuffer(entry) == now < entry.expiresAt   \* faulty

HasTime(entry) == now < entry.expiresAt - Buffer

\* get_token
Held(p) ==
  LET entry == mem[p][host[p]]
  IN  IF entry # None /\ HasTime(entry) THEN entry.token ELSE None

\* A call of the library: with a token in memory it goes out at once.
Call(p) ==
  /\ pc[p] = "idle" /\ Held(p) # None
  /\ tok' = [tok EXCEPT ![p] = Held(p)]
  /\ since' = [since EXCEPT ![p] = now]
  /\ Goto(p, "send")
  /\ UNCHANGED <<now, servers, tokens, host, rejected, starts>>

\* ... and with credentials and no token it logs in first.  Without either
\* it raises AuthenticationError and changes nothing.
CallLogsIn(p) ==
  /\ pc[p] = "idle" /\ Held(p) = None /\ Credentials[p] # None
  /\ since' = [since EXCEPT ![p] = now]
  /\ Goto(p, "login")
  /\ UNCHANGED <<now, servers, tokens, host, tok, rejected, starts>>

\* The answer to a login arrives: store_token puts it in memory and opens the
\* file for writing, which truncates it.
StoreToken(p) ==
  /\ pc[p] = "store" /\ now - since[p] <= LoginDelay
  /\ mem' = [mem EXCEPT ![p][host[p]] = [token |-> tok[p], expiresAt |-> now + Lifetime]]
  /\ file' = Torn
  /\ Goto(p, "save")
  /\ UNCHANGED <<now, servers, content, stale, host, tok, since, rejected, starts>>

OwnEntryOnly(p) == [NoEntries EXCEPT ![host[p]] = mem[p][host[p]]]   \* faulty

Written(p) == mem[p]

\* The dump of the whole map.  When another process has the file open as well,
\* the two writes can leave a mix of both.
WriteFile(p) ==
  /\ pc[p] \in {"save", "forget"}
  /\ \/ file' = Written(p)
     \/ /\ \E q \in Processes \ {p} : pc[q] \in {"save", "forget"}
        /\ file' = Torn
  /\ content' = mem[p]
  /\ stale' = Processes \ {p}
  /\ since' = [since EXCEPT ![p] = now]
  /\ Goto(p, IF pc[p] = "save" THEN "send" ELSE "idle")
  /\ UNCHANGED <<now, servers, mem, host, tok, rejected, starts>>

Kept(entry) == entry   \* faulty

Forgotten(entry) == None

\* 401: clear_token drops the host's entry and saves, and the call raises.
Unauthorised(p) ==
  /\ rejected' = [rejected EXCEPT ![p] = @ + 1]
  /\ IF mem[p][host[p]] # None
     THEN /\ mem' = [mem EXCEPT ![p][host[p]] = Forgotten(@)]
          /\ file' = Torn
          /\ Goto(p, "forget")
     ELSE /\ UNCHANGED <<mem, file>>
          /\ Goto(p, "idle")

\* No connection, or no answer in time: the call raises.
CallFails(p) ==
  /\ \/ pc[p] = "login" /\ (up[host[p]] # "up" \/ now - since[p] >= LoginDelay)
     \/ pc[p] = "store" /\ now - since[p] >= LoginDelay
     \/ pc[p] = "send" /\ (up[host[p]] # "up" \/ now - since[p] >= CallDelay)
  /\ Goto(p, "idle")
  /\ UNCHANGED <<now, servers, tokens, host, tok, since, rejected, starts>>

----------------------------------------------------------------------------
(* The server: login, create-user, the check of a token, crash and boot.   *)

Issued(h) == [secret |-> secret[h], exp |-> now + Lifetime]

\* POST /v1/auth/login of a user whose password matches.
LoginVerified(p) ==
  LET h == host[p]  c == Credentials[p]
  IN  /\ pc[p] = "login" /\ up[h] = "up" /\ now - since[p] <= LoginDelay
      /\ users[h][c.user] = c.password
      /\ tok' = [tok EXCEPT ![p] = Issued(h)]
      /\ Goto(p, "store")
      /\ UNCHANGED <<now, servers, tokens, host, since, rejected, starts>>

\* ... of a user who exists with another password: 401, the login raises.
LoginRefused(p) ==
  LET h == host[p]  c == Credentials[p]
  IN  /\ pc[p] = "login" /\ up[h] = "up"
      /\ users[h][c.user] \notin {None, c.password}
      /\ Goto(p, "idle")
      /\ UNCHANGED <<now, servers, tokens, host, tok, since, rejected, starts>>

\* create_user: into memory, then the file is opened, which truncates it.
CreateUser(h, u, w) ==
  /\ up[h] = "up" /\ users[h][u] = None
  /\ users' = [users EXCEPT ![h][u] = w]
  /\ usersFile' = [usersFile EXCEPT ![h] = Torn]
  /\ up' = [up EXCEPT ![h] = "saving"]
  /\ UNCHANGED <<secret, boots, known, torn>>

\* ... of a user who does not exist: the account is made on the spot.
LoginCreates(p) ==
  /\ pc[p] = "login" /\ now - since[p] <= LoginDelay
  /\ CreateUser(host[p], Credentials[p].user, Credentials[p].password)
  /\ UNCHANGED <<now, tokens, pc, host, tok, since, rejected, starts>>

\* POST /v1/admin/create-user.
AdminCreates(h, u, w) ==
  /\ CreateUser(h, u, w)
  /\ UNCHANGED <<now, tokens, pc, host, tok, since, rejected, starts>>

NothingSaved(h) == usersFile[h]   \* faulty

Saved(h) == users[h]

\* The rest of _save; then the handler goes on: a login's next step verifies.
SaveCompletes(h) ==
  /\ up[h] = "saving"
  /\ usersFile' = [usersFile EXCEPT ![h] = Saved(h)]
  /\ known' = [known EXCEPT ![h] = users[h]]
  /\ up' = [up EXCEPT ![h] = "up"]
  /\ UNCHANGED <<now, users, secret, boots, torn, tokens, pc, host, tok, since, rejected, starts>>

\* verify_token: the signature and the expiry, not the user.
Accepted(h, t) == t.secret = secret[h] /\ now < t.exp

\* A call arrives (get_current_user): it is served, or answered with 401.
Arrive(p) ==
  /\ pc[p] = "send" /\ up[host[p]] = "up" /\ now - since[p] <= CallDelay
  /\ IF Accepted(host[p], tok[p])
     THEN Goto(p, "idle") /\ UNCHANGED <<rejected, mem, file>>
     ELSE Unauthorised(p)
  /\ UNCHANGED <<now, servers, content, stale, host, tok, since, starts>>

Crash(h) ==
  /\ up[h] # "down" /\ boots[h] < MaxBoots[h]
  /\ up' = [up EXCEPT ![h] = "down"]
  /\ users' = [users EXCEPT ![h] = NoUsers]
  /\ torn' = IF up[h] = "saving" THEN torn \cup {h} ELSE torn
  /\ UNCHANGED <<now, usersFile, secret, boots, known, tokens, pc, host, tok, since, rejected, starts>>

\* A boot: the users are loaded, a torn file is an empty store; with rotation
\* every token signed before is worthless.
Boot(h) ==
  /\ up[h] = "down"
  /\ up' = [up EXCEPT ![h] = "up"]
  /\ users' = [users EXCEPT ![h] = IF usersFile[h] = Torn THEN NoUsers ELSE usersFile[h]]
  /\ boots' = [boots EXCEPT ![h] = @ + 1]
  /\ secret' = IF RotateSecret THEN boots' ELSE secret
  /\ rejected' = [p \in Processes |-> IF host[p] = h THEN 0 ELSE rejected[p]]
  /\ UNCHANGED <<now, usersFile, known, torn, tokens, pc, host, tok, since, starts>>

\* Nothing stays on its way for longer than its delay.
Tick ==
  /\ now < MaxTime
  /\ \A p \in Processes :
       /\ pc[p] \in {"login", "store"} => now - since[p] < LoginDelay
       /\ pc[p] = "send" => now - since[p] < CallDelay
       /\ pc[p] \notin {"save", "forget"}
  /\ now' = now + 1
  /\ UNCHANGED <<servers, tokens, pc, host, tok, since, rejected, starts>>

ProcessStep(p) ==
  \/ \E h \in Hosts : Start(p, h)
  \/ Exit(p) \/ Call(p) \/ CallLogsIn(p) \/ StoreToken(p) \/ WriteFile(p) \/ CallFails(p)
  \/ LoginVerified(p) \/ LoginRefused(p) \/ LoginCreates(p) \/ Arrive(p)

ServerStep(h) ==
  \/ \E u \in Users, w \in Passwords : AdminCreates(h, u, w)
  \/ SaveCompletes(h) \/ Crash(h) \/ Boot(h)

Next == Tick \/ (\E p \in Processes : ProcessStep(p)) \/ (\E h \in Hosts : ServerStep(h))

Spec == Init /\ [][Next]_vars

----------------------------------------------------------------------------

\* A token that get_token hands out, or a login has just brought, is not expired
\* when the call reaches a server with the same secret: the 60 s that a token
\* must have left (TOKEN_EXPIRY_BUFFER) cover that the client counts the lifetime
\* from when the answer came, and the call's own way to the server.
TokenLastsUntilUse ==
  \A p \in Processes :
    pc[p] = "send" /\ tok[p].secret = secret[host[p]] => now < tok[p].exp

\* With it the types: stores, files and requests are what they are said to be.
TokenInv == TypeOK /\ TokenLastsUntilUse

\* Between two boots of its server a process is turned away with 401 at most
\* once: clear_token takes the bad token out of its memory, and no load, save or
\* other process puts it back.
OneRejectionPerBoot == \A p \in Processes : rejected[p] <= 1

\* A save leaves the entries of the other hosts as they are in the file, unless
\* another process has changed the file since this one last read or wrote it, or
\* was rewriting it when this one read it (then the whole-file copy takes the
\* other hosts' tokens back to what they were, or drops them).
SaveKeepsOthers ==
  [][\A p \in Processes :
       pc[p] \in {"save", "forget"} /\ pc'[p] # pc[p] /\ p \notin stale
         => file' = Torn \/ \A h \in Hosts \ {host[p]} : file'[h] = content[h]]_vars

\* An account that was acknowledged keeps its password across crashes and boots,
\* unless a crash hit the rewriting of users.json: then the boot found a torn
\* file, took it for an empty store, and anyone may log in under the name.
AcknowledgedUserKept ==
  \A h \in Hosts \ torn, u \in Users :
    known[h][u] # None =>
      /\ up[h] # "down" => users[h][u] = known[h][u]
      /\ up[h] = "down" => usersFile[h] # Torn /\ usersFile[h][u] = known[h][u]
============================================================================
