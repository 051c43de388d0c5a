------------------------- MODULE ClientCallsProofs -------------------------
(***************************************************************************)
(* What the client's calls can rely on, for any number of processes,       *)
(* servers, users and calls.                                               *)
(*                                                                         *)
(* Login: no call arrives with an expired token, a process is turned away  *)
(* once per boot, the other hosts' entries outlive a save, acknowledged    *)
(* accounts outlive a crash.                                               *)
(*                                                                         *)
(* ProxySession: whoever keeps to the documented example is served, a      *)
(* collect without an error ends with the answer to its own request, and   *)
(* only a collect without a send leaves a queue behind.  The plan of a     *)
(* session grows by one operation or one send at a time; what the server   *)
(* makes of it is a fold over its operations, so FoldFacts says how the    *)
(* run of a plan follows from the run of the plan before.                  *)
(*                                                                         *)
(* The arguments are in README.md.                                         *)
(***************************************************************************)
EXTENDS Login, ProxySession, SequenceTheorems, FiniteSetTheorems, TLAPS

----------------------------------------------------------------------------
(* The server's accounts.                                                  *)

ServerType ==
  /\ up \in [Hosts -> {"down", "up", "saving"}]
  /\ users \in [Hosts -> Accounts]
  /\ usersFile \in [Hosts -> Accounts \cup {Torn}]
  /\ secret \in [Hosts -> Nat] /\ boots \in [Hosts -> Nat]
  /\ RotateSecret => secret = boots
  /\ known \in [Hosts -> Accounts]
  /\ torn \subseteq Hosts

(* What was acknowledged is in memory and in the file while nothing is     *)
(* being saved, in memory during a save, and in the file while down.       *)
InStep(h) ==
  /\ up[h] = "up" => users[h] = known[h] /\ usersFile[h] = known[h]
  /\ up[h] = "saving" => \A u \in Users : known[h][u] # None => users[h][u] = known[h][u]
  /\ up[h] = "down" => usersFile[h] = known[h]

AccountInv == ServerType /\ \A h \in Hosts \ torn : InStep(h)

LEMMA AccountInit == Init => AccountInv
  BY SMT DEF Init, AccountInv, ServerType, InStep, NoUsers, Accounts

LEMMA CreateKeeps ==
  ASSUME AccountInv, NEW h \in Hosts, NEW u \in Users, NEW w \in Passwords,
         CreateUser(h, u, w)
  PROVE  AccountInv'
<1> USE DEF AccountInv, ServerType
<1>1. /\ users' = [users EXCEPT ![h][u] = w]
      /\ usersFile' = [usersFile EXCEPT ![h] = Torn]
      /\ up' = [up EXCEPT ![h] = "saving"]
      /\ up[h] = "up" /\ users[h][u] = None
      /\ UNCHANGED <<secret, boots, known, torn>>
  BY DEF CreateUser
<1>2. users[h] \in Accounts /\ users'[h] = [users[h] EXCEPT ![u] = w]
  BY <1>1
<1>3. users'[h] \in Accounts
  BY <1>2 DEF Accounts
<1>4. \A g \in Hosts : g # h => users'[g] = users[g] /\ usersFile'[g] = usersFile[g] /\ up'[g] = up[g]
  BY <1>1
<1>5. users' \in [Hosts -> Accounts]
  BY <1>1, <1>3, <1>4
<1>6. ServerType'
  BY <1>1, <1>5
<1>7. ASSUME NEW g \in Hosts \ torn, g # h PROVE InStep(g)'
  BY <1>1, <1>4, <1>7 DEF InStep
<1>8. ASSUME h \notin torn PROVE InStep(h)'
  <2>1. users[h] = known[h]
    BY <1>1, <1>8 DEF InStep
  <2>2. \A v \in Users : v # u => users'[h][v] = users[h][v]
    BY <1>2 DEF Accounts
  <2>3. \A v \in Users : known[h][v] # None => users'[h][v] = known[h][v]
    BY <1>1, <2>1, <2>2
  <2> QED
    BY <1>1, <2>3 DEF InStep
<1> QED
  BY <1>1, <1>6, <1>7, <1>8

LEMMA SaveKeeps ==
  ASSUME AccountInv, NEW h \in Hosts, SaveCompletes(h)
  PROVE  AccountInv'
<1>1. ServerType'
  BY DEF AccountInv, ServerType, SaveCompletes, Saved
<1>2. ASSUME NEW g \in Hosts \ torn PROVE InStep(g)'
  BY DEF AccountInv, ServerType, SaveCompletes, Saved, InStep
<1> QED
  BY <1>1, <1>2 DEF AccountInv, SaveCompletes

LEMMA CrashKeeps ==
  ASSUME AccountInv, NEW h \in Hosts, Crash(h)
  PROVE  AccountInv'
<1>1. NoUsers \in Accounts
  BY DEF NoUsers, Accounts
<1>2. ServerType'
  BY <1>1 DEF AccountInv, ServerType, Crash
<1>3. ASSUME NEW g \in Hosts \ torn' PROVE InStep(g)'
  <2>1. g \notin torn /\ (g = h => up[h] = "up")
    BY <1>3 DEF AccountInv, ServerType, Crash
  <2> QED
    BY <2>1 DEF AccountInv, ServerType, Crash, InStep
<1> QED
  BY <1>2, <1>3 DEF AccountInv

LEMMA BootKeeps ==
  ASSUME LoginAssumption, AccountInv, NEW h \in Hosts, Boot(h)
  PROVE  AccountInv'
<1>1. NoUsers \in Accounts
  BY DEF NoUsers, Accounts
<1>2. boots' \in [Hosts -> Nat] /\ secret' \in [Hosts -> Nat]
  BY DEF AccountInv, ServerType, Boot
<1>3. ServerType'
  BY <1>1, <1>2 DEF AccountInv, ServerType, Boot
<1>4. ASSUME NEW g \in Hosts \ torn PROVE InStep(g)'
  <2>1. Torn \notin Accounts
    BY DEF LoginAssumption, Accounts
  <2>2. CASE g = h
    BY <2>1, <2>2 DEF AccountInv, ServerType, Boot, InStep
  <2>3. CASE g # h
    BY <2>3 DEF AccountInv, ServerType, Boot, InStep
  <2> QED
    BY <2>2, <2>3
<1> QED
  BY <1>3, <1>4 DEF AccountInv, Boot

(* Everything else leaves the servers alone.                               *)
LEMMA ServersRest ==
  ASSUME AccountInv, UNCHANGED servers
  PROVE  AccountInv'
  BY DEF AccountInv, ServerType, InStep, servers
(* The client's calls and tokens.                                          *)

(* An entry never promises more than its token holds, but for the time the *)
(* login's answer was on its way.                                          *)
EntryOK(e) == e = None \/ e.expiresAt <= e.token.exp + LoginDelay
StoreOK(s) == s \in Store /\ \A h \in Hosts : EntryOK(s[h])

Carrying == {"store", "save", "send"}

(* How long the token of a call will do: it was issued after the login was *)
(* posted, and lasts until the call has arrived.                           *)
TokenLasts(p) ==
  /\ pc[p] = "store" => since[p] + Lifetime <= tok[p].exp
  /\ pc[p] = "save" => now + CallDelay < tok[p].exp
  /\ pc[p] = "send" => now <= since[p] + CallDelay /\ since[p] + CallDelay < tok[p].exp

(* Once turned away, a process has no token of another secret, neither in  *)
(* memory nor on its way.                                                  *)
HoldsGood(p) ==
  /\ mem[p][host[p]] # None => mem[p][host[p]].token.secret = secret[host[p]]
  /\ pc[p] \in Carrying => tok[p].secret = secret[host[p]]

ProcessInv(p) ==
  /\ StoreOK(mem[p])
  /\ pc[p] \in {"off", "idle", "login", "store", "save", "forget", "send"}
  /\ host[p] \in Hosts
  /\ tok[p] \in Token \cup {None} /\ (pc[p] \in Carrying => tok[p] \in Token)
  /\ since[p] \in Nat /\ since[p] <= now
  /\ rejected[p] \in {0, 1} /\ (rejected[p] = 1 => HoldsGood(p))
  /\ pc[p] = "login" => Credentials[p] # None
  /\ TokenLasts(p)

(* A process that read or wrote last differs from the file in its own      *)
(* host's entry only.                                                      *)
Keeps(p) == p \notin stale => \A h \in Hosts \ {host[p]} : mem[p][h] = content[h]

PerProcess(f) == f = [p \in Processes |-> f[p]]

ArraysOK == PerProcess(mem) /\ PerProcess(pc) /\ PerProcess(host) /\ PerProcess(tok)
              /\ PerProcess(since) /\ PerProcess(rejected)

FileInv == now \in 0..MaxTime /\ StoreOK(content) /\ file \in {content, Torn}

CallInv ==
  /\ ArraysOK /\ FileInv
  /\ \A p \in Processes : ProcessInv(p) /\ Keeps(p)

LoginInv == AccountInv /\ CallInv

clientVars == <<mem, pc, host, tok, since, rejected>>

LEMMA CallInit == LoginAssumption /\ Init => CallInv
<1> SUFFICES ASSUME LoginAssumption, Init PROVE CallInv
  OBVIOUS
<1>1. (CHOOSE h \in Hosts : TRUE) \in Hosts
  BY DEF LoginAssumption
<1>2. StoreOK(NoEntries)
  BY DEF StoreOK, EntryOK, NoEntries, Store
<1>3. ArraysOK
  BY DEF Init, ArraysOK, PerProcess
<1>4. FileInv
  BY <1>2 DEF Init, FileInv, LoginAssumption
<1>5. ASSUME NEW p \in Processes PROVE ProcessInv(p) /\ Keeps(p)
  BY <1>1, <1>2 DEF Init, ProcessInv, Keeps, TokenLasts, HoldsGood, Carrying
<1> QED
  BY <1>3, <1>4, <1>5 DEF CallInv

(* A step of one process is no business of the others, but for the file.   *)
Alone(p) ==
  /\ UNCHANGED now /\ UNCHANGED secret
  /\ \A q \in Processes \ {p} :
       /\ mem'[q] = mem[q] /\ pc'[q] = pc[q] /\ host'[q] = host[q]
       /\ tok'[q] = tok[q] /\ since'[q] = since[q] /\ rejected'[q] = rejected[q]

LEMMA OthersUntouched ==
  ASSUME CallInv, NEW p \in Processes, Alone(p), NEW q \in Processes, q # p
  PROVE  /\ ProcessInv(q)'
         /\ (UNCHANGED content /\ (q \in stale => q \in stale')) \/ q \in stale' => Keeps(q)'
<1>1. mem'[q] = mem[q] /\ pc'[q] = pc[q] /\ host'[q] = host[q]
      /\ tok'[q] = tok[q] /\ since'[q] = since[q] /\ rejected'[q] = rejected[q]
      /\ now' = now /\ secret' = secret
  BY DEF Alone
<1>2. ProcessInv(q) /\ Keeps(q)
  BY DEF CallInv
<1>3. ProcessInv(q)'
  BY <1>1, <1>2 DEF ProcessInv, TokenLasts, HoldsGood
<1>4. ASSUME (UNCHANGED content /\ (q \in stale => q \in stale')) \/ q \in stale'
      PROVE  Keeps(q)'
  BY <1>1, <1>2, <1>4 DEF Keeps
<1> QED
  BY <1>3, <1>4

LEMMA OneProcessSteps ==
  ASSUME CallInv, NEW p \in Processes, Alone(p), ArraysOK', FileInv',
         ProcessInv(p)', Keeps(p)',
         \/ UNCHANGED content /\ (stale \ {p}) \subseteq stale'
         \/ (Processes \ {p}) \subseteq stale'
  PROVE  CallInv'
<1>1. ASSUME NEW q \in Processes, q # p PROVE ProcessInv(q)' /\ Keeps(q)'
  BY <1>1, OthersUntouched
<1> QED
  BY <1>1 DEF CallInv

LEMMA StartKeeps ==
  ASSUME CallInv, NEW p \in Processes, NEW h \in Hosts, Start(p, h)
  PROVE  CallInv'
<1>1. NoEntries \in Store /\ StoreOK(NoEntries)
  BY DEF StoreOK, EntryOK, NoEntries, Store
<1>2. StoreOK(Read(file)) /\ (file # Torn => Read(file) = content)
  BY <1>1 DEF CallInv, FileInv, Read
<1>3. mem'[p] = Read(file) /\ host'[p] = h /\ rejected'[p] = 0 /\ pc'[p] = "idle"
  BY DEF CallInv, ArraysOK, PerProcess, Start, Goto
<1>4. ProcessInv(p)'
  BY <1>2, <1>3 DEF CallInv, ProcessInv, TokenLasts, Carrying, Start
<1>5. Keeps(p)'
  BY <1>2, <1>3 DEF Keeps, Start
<1>6. Alone(p) /\ ArraysOK' /\ FileInv'
  BY DEF CallInv, ArraysOK, PerProcess, Start, Goto, Alone, FileInv, servers
<1> QED
  BY <1>4, <1>5, <1>6, OneProcessSteps DEF Start

(* A call that ends in "idle" with nothing else changed.                   *)
LEMMA EndKeeps ==
  ASSUME CallInv, NEW p \in Processes, Goto(p, "idle") \/ Goto(p, "off"),
         UNCHANGED <<now, secret, tokens, host, tok, since, rejected>>
  PROVE  CallInv'
<1>1. Alone(p) /\ ArraysOK' /\ FileInv'
  BY DEF CallInv, ArraysOK, PerProcess, Goto, Alone, FileInv, tokens
<1>2. pc'[p] \in {"idle", "off"}
  BY DEF CallInv, ArraysOK, PerProcess, Goto
<1>3. ProcessInv(p)'
  BY <1>2 DEF CallInv, ProcessInv, TokenLasts, HoldsGood, Carrying, tokens
<1>4. Keeps(p)'
  BY DEF CallInv, Keeps, tokens
<1> QED
  BY <1>1, <1>3, <1>4, OneProcessSteps DEF tokens

(* The token that get_token returns has more than the buffer left.         *)
LEMMA CallKeeps ==
  ASSUME LoginAssumption, CallInv, NEW p \in Processes, Call(p)
  PROVE  CallInv'
<1> DEFINE e == mem[p][host[p]]
<1>1. e # None /\ HasTime(e) /\ Held(p) = e.token /\ e \in Entry /\ EntryOK(e)
  BY DEF Call, Held, CallInv, ProcessInv, StoreOK, Store
<1>2. /\ tok'[p] = e.token /\ since'[p] = now /\ pc'[p] = "send"
      /\ UNCHANGED <<now, servers, tokens, host, rejected>>
  BY <1>1 DEF Call, Goto, CallInv, ArraysOK, PerProcess
<1>3. e.token \in Token /\ e.token.exp \in Nat /\ e.expiresAt \in Nat
  BY <1>1 DEF Entry, Token
<1>4. Buffer \in Nat /\ LoginDelay \in Nat /\ CallDelay \in Nat /\ LoginDelay + CallDelay <= Buffer
  BY DEF LoginAssumption
<1>5. now \in Nat
  BY DEF CallInv, FileInv
<1>6. now + CallDelay < e.token.exp
  BY <1>1, <1>3, <1>4, <1>5 DEF HasTime, EntryOK
<1>7. TokenLasts(p)'
  BY <1>2, <1>4, <1>5, <1>6 DEF TokenLasts
<1>8. rejected[p] = 1 => HoldsGood(p)'
  BY <1>1, <1>2 DEF CallInv, ProcessInv, HoldsGood, servers, tokens
<1>9. ProcessInv(p)'
  BY <1>2, <1>3, <1>5, <1>7, <1>8 DEF CallInv, ProcessInv, tokens
<1>10. Alone(p) /\ ArraysOK' /\ FileInv' /\ Keeps(p)'
  <2>1. Alone(p) /\ ArraysOK'
    BY DEF Call, CallInv, ArraysOK, PerProcess, Goto, Alone, servers, tokens
  <2>2. FileInv' /\ Keeps(p)'
    BY <1>2 DEF CallInv, FileInv, StoreOK, EntryOK, Keeps, tokens
  <2> QED
    BY <2>1, <2>2
<1> QED
  BY <1>2, <1>9, <1>10, OneProcessSteps DEF tokens

LEMMA CallLogsInKeeps ==
  ASSUME CallInv, NEW p \in Processes, CallLogsIn(p)
  PROVE  CallInv'
<1>1. since'[p] = now /\ pc'[p] = "login" /\ Credentials[p] # None
      /\ UNCHANGED <<now, servers, tokens, host, tok, rejected>>
  BY DEF CallLogsIn, Goto, CallInv, ArraysOK, PerProcess
<1>2. now \in Nat
  BY DEF CallInv, FileInv
<1>3. ProcessInv(p)'
  BY <1>1, <1>2 DEF CallInv, ProcessInv, TokenLasts, HoldsGood, Carrying, servers, tokens
<1>4. Alone(p) /\ ArraysOK' /\ FileInv' /\ Keeps(p)'
  <2>1. Alone(p) /\ ArraysOK'
    BY DEF CallLogsIn, CallInv, ArraysOK, PerProcess, Goto, Alone, servers, tokens
  <2>2. FileInv' /\ Keeps(p)'
    BY <1>1 DEF CallInv, FileInv, StoreOK, EntryOK, Keeps, tokens
  <2> QED
    BY <2>1, <2>2
<1> QED
  BY <1>1, <1>3, <1>4, OneProcessSteps DEF tokens

(* The login's answer: the token was issued after the login was posted.    *)
LEMMA LoginVerifiedKeeps ==
  ASSUME LoginAssumption, AccountInv, CallInv, NEW p \in Processes, LoginVerified(p)
  PROVE  CallInv'
<1> DEFINE t == Issued(host[p])
<1>1. /\ tok'[p] = t /\ pc'[p] = "store"
      /\ UNCHANGED <<now, servers, tokens, host, since, rejected>>
  BY DEF LoginVerified, Goto, CallInv, ArraysOK, PerProcess
<1>2. ProcessInv(p) /\ Keeps(p) /\ FileInv
  BY DEF CallInv
<1>3. now \in Nat /\ Lifetime \in Nat /\ secret[host[p]] \in Nat /\ since[p] \in Nat /\ since[p] <= now
  BY <1>2 DEF FileInv, LoginAssumption, AccountInv, ServerType, ProcessInv
<1>4. t \in Token /\ t.secret = secret[host[p]] /\ t.exp = now + Lifetime
  BY <1>3 DEF Issued, Token
<1>5. TokenLasts(p)'
  BY <1>1, <1>3, <1>4 DEF TokenLasts
<1>6. rejected[p] = 1 => HoldsGood(p)'
  BY <1>1, <1>2, <1>4 DEF ProcessInv, HoldsGood, servers, tokens
<1>7. ProcessInv(p)'
  BY <1>1, <1>2, <1>4, <1>5, <1>6 DEF ProcessInv, tokens
<1>8. Alone(p) /\ ArraysOK' /\ FileInv' /\ Keeps(p)'
  BY <1>1, <1>2 DEF LoginVerified, CallInv, ArraysOK, PerProcess, Goto, Alone, FileInv, Keeps, tokens, servers
<1> QED
  BY <1>1, <1>7, <1>8, OneProcessSteps DEF tokens

(* store_token: the entry counts the lifetime from when the answer came.   *)
LEMMA StoreTokenKeeps ==
  ASSUME LoginAssumption, CallInv, NEW p \in Processes, StoreToken(p)
  PROVE  CallInv'
<1> DEFINE e == [token |-> tok[p], expiresAt |-> now + Lifetime]
<1>1. ProcessInv(p) /\ Keeps(p) /\ FileInv /\ pc[p] = "store"
  BY DEF CallInv, StoreToken
<1>2. /\ mem' = [mem EXCEPT ![p][host[p]] = e] /\ pc'[p] = "save" /\ file' = Torn
      /\ now - since[p] <= LoginDelay
      /\ UNCHANGED <<now, servers, content, stale, host, tok, since, rejected>>
  BY DEF StoreToken, Goto, CallInv, ArraysOK, PerProcess
<1>3. tok[p] \in Token /\ tok[p].exp \in Nat /\ now \in Nat /\ since[p] \in Nat
  BY <1>1 DEF ProcessInv, Carrying, Token, FileInv
<1>4. {Lifetime, LoginDelay, CallDelay} \subseteq Nat /\ LoginDelay + CallDelay < Lifetime
  BY DEF LoginAssumption
<1>5. since[p] + Lifetime <= tok[p].exp
  BY <1>1 DEF ProcessInv, TokenLasts
<1>6. e \in Entry /\ EntryOK(e)
  BY <1>2, <1>3, <1>4, <1>5 DEF Entry, EntryOK
<1>7. now + CallDelay < tok[p].exp
  BY <1>2, <1>3, <1>4, <1>5
<1>8. mem'[p] = [mem[p] EXCEPT ![host[p]] = e]
  BY <1>2 DEF CallInv, ArraysOK, PerProcess
<1>9. StoreOK(mem'[p]) /\ mem'[p][host[p]] = e
      /\ \A h \in Hosts \ {host[p]} : mem'[p][h] = mem[p][h]
  BY <1>1, <1>6, <1>8 DEF ProcessInv, StoreOK, Store
<1>10. TokenLasts(p)'
  BY <1>2, <1>7 DEF TokenLasts
<1>11. rejected[p] = 1 => HoldsGood(p)'
  BY <1>1, <1>2, <1>9 DEF ProcessInv, HoldsGood, Carrying, servers
<1>12. ProcessInv(p)'
  <2>1. StoreOK(mem[p])'
    BY <1>2, <1>9 DEF StoreOK, EntryOK
  <2> QED
    BY <1>1, <1>2, <1>3, <1>10, <1>11, <2>1 DEF ProcessInv
<1>13. Keeps(p)'
  BY <1>1, <1>2, <1>9 DEF Keeps
<1>14. Alone(p) /\ ArraysOK'
  BY <1>2 DEF StoreToken, CallInv, ArraysOK, PerProcess, Goto, Alone, servers
<1>15. FileInv'
  BY <1>1, <1>2 DEF FileInv, StoreOK, EntryOK
<1> QED
  BY <1>2, <1>12, <1>13, <1>14, <1>15, OneProcessSteps

(* The dump: whoever wrote it agrees with the file, all others may not.    *)
LEMMA WriteFileKeeps ==
  ASSUME LoginAssumption, CallInv, NEW p \in Processes, WriteFile(p)
  PROVE  CallInv'
<1>1. ProcessInv(p) /\ FileInv /\ pc[p] \in {"save", "forget"}
  BY DEF CallInv, WriteFile
<1>2. /\ file' \in {mem[p], Torn} /\ content' = mem[p] /\ stale' = Processes \ {p}
      /\ since'[p] = now /\ pc'[p] = IF pc[p] = "save" THEN "send" ELSE "idle"
      /\ UNCHANGED <<now, servers, mem, host, tok, rejected>>
  BY DEF WriteFile, Written, Goto, CallInv, ArraysOK, PerProcess
<1>3. now \in Nat /\ StoreOK(mem[p])
  BY <1>1 DEF FileInv, ProcessInv
<1>4. TokenLasts(p)'
  <2>1. CASE pc[p] = "forget"
    BY <1>2, <2>1 DEF TokenLasts
  <2>2. CASE pc[p] = "save"
    <3>1. now + CallDelay < tok[p].exp /\ pc'[p] = "send"
      BY <1>1, <1>2, <2>2 DEF ProcessInv, TokenLasts
    <3>2. now <= now + CallDelay
      BY <1>1, <1>2, <1>3 DEF LoginAssumption
    <3> QED
      BY <1>2, <3>1, <3>2 DEF TokenLasts
  <2> QED
    BY <1>1, <2>1, <2>2
<1>5. StoreOK(mem[p])'
  BY <1>2, <1>3 DEF StoreOK, EntryOK
<1>6. rejected[p] = 1 => HoldsGood(p)'
  BY <1>1, <1>2 DEF ProcessInv, HoldsGood, Carrying, servers
<1>7. ProcessInv(p)'
  BY <1>1, <1>2, <1>3, <1>4, <1>5, <1>6 DEF ProcessInv, Carrying
<1>8. Keeps(p)'
  BY <1>2 DEF Keeps
<1>9. Alone(p) /\ ArraysOK'
  BY DEF WriteFile, CallInv, ArraysOK, PerProcess, Goto, Alone, servers
<1>10. FileInv'
  BY <1>1, <1>2, <1>5 DEF FileInv, StoreOK, EntryOK
<1> QED
  BY <1>2, <1>7, <1>8, <1>9, <1>10, OneProcessSteps

(* A call that arrives has a token that is not expired. If it is turned    *)
(* away the secret is another one, so this is the first time.              *)
LEMMA ArriveKeeps ==
  ASSUME LoginAssumption, CallInv, NEW p \in Processes, Arrive(p)
  PROVE  CallInv'
<1>1. ProcessInv(p) /\ Keeps(p) /\ FileInv /\ pc[p] = "send"
  BY DEF CallInv, Arrive
<1>2. UNCHANGED <<now, servers, content, stale, host, tok, since>>
  BY DEF Arrive
<1>3. CASE Accepted(host[p], tok[p])
  <2>1. Goto(p, "idle") /\ UNCHANGED <<now, secret, tokens, host, tok, since, rejected>>
    BY <1>2, <1>3 DEF Arrive, tokens, servers
  <2> QED
    BY <2>1, EndKeeps
<1>4. CASE ~ Accepted(host[p], tok[p])
  <2>1. Unauthorised(p)
    BY <1>4 DEF Arrive
  <2>2. now < tok[p].exp
    <3>1. now \in Nat /\ since[p] + CallDelay \in Nat /\ tok[p].exp \in Nat
      BY <1>1 DEF FileInv, LoginAssumption, ProcessInv, Carrying, Token
    <3> QED
      BY <1>1, <3>1 DEF ProcessInv, TokenLasts
  <2>3. rejected[p] = 0
    BY <1>1, <1>4, <2>2 DEF Accepted, ProcessInv, HoldsGood, Carrying
  <2>4. rejected'[p] = 1
    BY <2>1, <2>3 DEF Unauthorised, CallInv, ArraysOK, PerProcess
  <2>5. /\ mem'[p] \in Store /\ mem'[p][host[p]] = None
        /\ \A h \in Hosts \ {host[p]} : mem'[p][h] = mem[p][h]
        /\ pc'[p] \in {"idle", "forget"}
        /\ file' \in {file, Torn}
    <3>1. CASE mem[p][host[p]] # None
      <4>1. /\ mem' = [mem EXCEPT ![p][host[p]] = None] /\ file' = Torn
            /\ pc' = [pc EXCEPT ![p] = "forget"]
        BY <2>1, <3>1 DEF Unauthorised, Forgotten, Goto
      <4>2. mem'[p] = [mem[p] EXCEPT ![host[p]] = None]
        BY <4>1 DEF CallInv, ArraysOK, PerProcess
      <4>3. pc'[p] = "forget"
        BY <4>1 DEF CallInv, ArraysOK, PerProcess
      <4> QED
        BY <1>1, <4>1, <4>2, <4>3 DEF ProcessInv, StoreOK, Store
    <3>2. CASE mem[p][host[p]] = None
      BY <1>1, <2>1, <3>2 DEF Unauthorised, Goto, ProcessInv, StoreOK, CallInv, ArraysOK, PerProcess
    <3> QED
      BY <3>1, <3>2
  <2>6. \A h \in Hosts : EntryOK(mem'[p][h])
    BY <1>1, <2>5 DEF ProcessInv, StoreOK, EntryOK
  <2>7. StoreOK(mem[p])'
    BY <2>5, <2>6 DEF StoreOK, EntryOK
  <2>8. ProcessInv(p)'
    BY <1>1, <1>2, <2>4, <2>5, <2>7 DEF ProcessInv, TokenLasts, HoldsGood, Carrying
  <2>9. Keeps(p)'
    BY <1>1, <1>2, <2>5 DEF Keeps
  <2>10. Alone(p) /\ ArraysOK'
    <3>1. mem' = [mem EXCEPT ![p][host[p]] = None] \/ mem' = mem
      BY <2>1 DEF Unauthorised, Forgotten
    <3>2. pc' = [pc EXCEPT ![p] = "forget"] \/ pc' = [pc EXCEPT ![p] = "idle"]
      BY <2>1 DEF Unauthorised, Goto
    <3>3. rejected' = [rejected EXCEPT ![p] = @ + 1]
      BY <2>1 DEF Unauthorised
    <3> QED
      BY <1>2, <3>1, <3>2, <3>3 DEF CallInv, ArraysOK, PerProcess, Alone, servers
  <2>11. FileInv'
    BY <1>1, <1>2, <2>5 DEF FileInv, StoreOK, EntryOK
  <2> QED
    BY <1>2, <2>8, <2>9, <2>10, <2>11, OneProcessSteps
<1> QED
  BY <1>3, <1>4

(* What a server does to its accounts does not reach the calls.            *)
LEMMA CallsRest ==
  ASSUME CallInv, UNCHANGED <<now, secret, tokens, clientVars>>
  PROVE  CallInv'
<1>1. ArraysOK'
  BY DEF CallInv, ArraysOK, PerProcess, clientVars
<1>2. FileInv'
  BY DEF CallInv, FileInv, StoreOK, EntryOK, tokens
<1>3. ASSUME NEW p \in Processes PROVE ProcessInv(p)' /\ Keeps(p)'
  BY DEF CallInv, ProcessInv, Keeps, TokenLasts, HoldsGood, tokens, clientVars
<1> QED
  BY <1>1, <1>2, <1>3 DEF CallInv

(* A boot forgives: whoever uses this server may be turned away again.     *)
LEMMA BootLeavesCalls ==
  ASSUME AccountInv, CallInv, NEW h \in Hosts, Boot(h)
  PROVE  CallInv'
<1>1. /\ UNCHANGED <<now, tokens, pc, host, tok, since>>
      /\ rejected' = [p \in Processes |-> IF host[p] = h THEN 0 ELSE rejected[p]]
      /\ \A g \in Hosts \ {h} : boots'[g] = boots[g]
  BY DEF Boot, AccountInv, ServerType
<1>2. \A g \in Hosts \ {h} : secret'[g] = secret[g]
  BY <1>1 DEF Boot, AccountInv, ServerType
<1>3. ArraysOK' /\ FileInv'
  BY <1>1 DEF CallInv, ArraysOK, PerProcess, FileInv, StoreOK, EntryOK, tokens
<1>4. ASSUME NEW p \in Processes PROVE ProcessInv(p)' /\ Keeps(p)'
  <2>1. ProcessInv(p) /\ Keeps(p)
    BY DEF CallInv
  <2>2. Keeps(p)' /\ StoreOK(mem[p])' /\ TokenLasts(p)'
    BY <1>1, <2>1 DEF ProcessInv, Keeps, TokenLasts, StoreOK, EntryOK, tokens
  <2>3. rejected'[p] \in {0, 1} /\ (rejected'[p] = 1 => host[p] # h /\ rejected[p] = 1)
    BY <1>1, <2>1 DEF ProcessInv
  <2>4. rejected'[p] = 1 => HoldsGood(p)'
    BY <1>1, <1>2, <2>1, <2>3 DEF ProcessInv, HoldsGood, tokens
  <2> QED
    BY <1>1, <2>1, <2>2, <2>3, <2>4 DEF ProcessInv
<1> QED
  BY <1>3, <1>4 DEF CallInv


----------------------------------------------------------------------------
(* The steps together.                                                     *)

LEMMA TickKeeps ==
  ASSUME LoginAssumption, LoginInv, Tick
  PROVE  LoginInv'
<1>1. /\ now < MaxTime /\ now' = now + 1 /\ UNCHANGED servers /\ UNCHANGED tokens
      /\ UNCHANGED <<pc, host, tok, since, rejected>>
      /\ \A p \in Processes :
           /\ pc[p] \in {"login", "store"} => now - since[p] < LoginDelay
           /\ pc[p] = "send" => now - since[p] < CallDelay
           /\ pc[p] \notin {"save", "forget"}
  BY DEF Tick
<1>2. CallInv /\ FileInv /\ AccountInv
  BY DEF LoginInv, CallInv
<1>3. now \in Nat /\ MaxTime \in Nat /\ CallDelay \in Nat
  BY <1>2 DEF FileInv, LoginAssumption
<1>4. ArraysOK'
  BY <1>1, <1>2 DEF CallInv, ArraysOK, PerProcess, tokens
<1>5. FileInv'
  BY <1>1, <1>2, <1>3 DEF FileInv, StoreOK, EntryOK, tokens
<1>6. ASSUME NEW p \in Processes PROVE ProcessInv(p)' /\ Keeps(p)'
  <2>1. ProcessInv(p) /\ Keeps(p)
    BY <1>2 DEF CallInv
  <2>2. since[p] \in Nat /\ since[p] <= now
    BY <2>1 DEF ProcessInv
  <2>3. TokenLasts(p)'
    BY <1>1, <1>3, <2>1, <2>2 DEF ProcessInv, TokenLasts
  <2>4. StoreOK(mem[p])' /\ Keeps(p)' /\ (rejected'[p] = 1 => HoldsGood(p)')
    BY <1>1, <2>1 DEF ProcessInv, StoreOK, EntryOK, Keeps, HoldsGood, tokens, servers
  <2>5. since'[p] \in Nat /\ since'[p] <= now'
    BY <1>1, <1>3, <2>2
  <2> QED
    BY <1>1, <2>1, <2>3, <2>4, <2>5 DEF ProcessInv
<1> QED
  BY <1>1, <1>2, <1>4, <1>5, <1>6, ServersRest DEF LoginInv, CallInv

LEMMA ProcessStepKeeps ==
  ASSUME LoginAssumption, LoginInv, NEW p \in Processes, ProcessStep(p)
  PROVE  LoginInv'
<1>1. CallInv /\ AccountInv
  BY DEF LoginInv
<1>2. ASSUME NEW h \in Hosts, Start(p, h) PROVE LoginInv'
  BY <1>1, <1>2, StartKeeps, ServersRest DEF Start, LoginInv
<1>3. CASE Exit(p) \/ CallFails(p) \/ LoginRefused(p)
  <2>1. /\ Goto(p, "idle") \/ Goto(p, "off")
        /\ UNCHANGED <<now, servers, tokens, host, tok, since, rejected>>
    BY <1>3 DEF Exit, CallFails, LoginRefused
  <2>2. UNCHANGED secret /\ UNCHANGED servers
    BY <2>1 DEF servers
  <2> QED
    BY <1>1, <2>1, <2>2, EndKeeps, ServersRest DEF LoginInv
<1>4. CASE Call(p)
  BY <1>1, <1>4, CallKeeps, ServersRest DEF Call, LoginInv
<1>5. CASE CallLogsIn(p)
  BY <1>1, <1>5, CallLogsInKeeps, ServersRest DEF CallLogsIn, LoginInv
<1>6. CASE StoreToken(p)
  BY <1>1, <1>6, StoreTokenKeeps, ServersRest DEF StoreToken, LoginInv
<1>7. CASE WriteFile(p)
  BY <1>1, <1>7, WriteFileKeeps, ServersRest DEF WriteFile, LoginInv
<1>8. CASE LoginVerified(p)
  BY <1>1, <1>8, LoginVerifiedKeeps, ServersRest DEF LoginVerified, LoginInv
<1>9. CASE LoginCreates(p)
  <2>1. Credentials[p].user \in Users /\ Credentials[p].password \in Passwords
    BY <1>1, <1>9 DEF LoginCreates, CallInv, ProcessInv, LoginAssumption
  <2>2. host[p] \in Hosts /\ CreateUser(host[p], Credentials[p].user, Credentials[p].password)
        /\ UNCHANGED <<now, tokens, pc, host, tok, since, rejected>>
    BY <1>1, <1>9 DEF LoginCreates, CallInv, ProcessInv
  <2>3. UNCHANGED secret /\ UNCHANGED clientVars
    BY <2>2 DEF CreateUser, clientVars, tokens
  <2>4. AccountInv'
    BY <1>1, <2>1, <2>2, CreateKeeps
  <2>5. CallInv'
    BY <1>1, <2>2, <2>3, CallsRest
  <2> QED
    BY <2>4, <2>5 DEF LoginInv
<1>10. CASE Arrive(p)
  BY <1>1, <1>10, ArriveKeeps, ServersRest DEF Arrive, LoginInv
<1> QED
  BY <1>2, <1>3, <1>4, <1>5, <1>6, <1>7, <1>8, <1>9, <1>10 DEF ProcessStep

LEMMA ServerStepKeeps ==
  ASSUME LoginAssumption, LoginInv, NEW h \in Hosts, ServerStep(h)
  PROVE  LoginInv'
<1>1. CallInv /\ AccountInv
  BY DEF LoginInv
<1>2. ASSUME NEW u \in Users, NEW w \in Passwords, AdminCreates(h, u, w) PROVE LoginInv'
  <2>1. UNCHANGED <<now, secret, tokens, clientVars>> /\ CreateUser(h, u, w)
    BY <1>2 DEF AdminCreates, CreateUser, clientVars, tokens
  <2> QED
    BY <1>1, <2>1, CreateKeeps, CallsRest DEF LoginInv
<1>3. CASE SaveCompletes(h)
  <2>1. UNCHANGED <<now, secret, tokens, clientVars>>
    BY <1>3 DEF SaveCompletes, clientVars, tokens
  <2> QED
    BY <1>1, <1>3, <2>1, SaveKeeps, CallsRest DEF LoginInv
<1>4. CASE Crash(h)
  <2>1. UNCHANGED <<now, secret, tokens, clientVars>>
    BY <1>4 DEF Crash, clientVars, tokens
  <2> QED
    BY <1>1, <1>4, <2>1, CrashKeeps, CallsRest DEF LoginInv
<1>5. CASE Boot(h)
  BY <1>1, <1>5, BootKeeps, BootLeavesCalls DEF LoginInv
<1> QED
  BY <1>2, <1>3, <1>4, <1>5 DEF ServerStep

LEMMA LoginStep == LoginAssumption /\ LoginInv /\ [Next]_vars => LoginInv'
<1>1. ASSUME LoginAssumption, LoginInv, UNCHANGED vars PROVE LoginInv'
  BY <1>1, ServersRest, CallsRest DEF LoginInv, vars, servers, tokens, clientVars
<1> QED
  BY <1>1, TickKeeps, ProcessStepKeeps, ServerStepKeeps DEF Next

LEMMA LoginInit == LoginAssumption /\ Init => LoginInv
  BY CallInit, AccountInit DEF LoginInv

LEMMA LoginAlways == LoginAssumption => (Spec => []LoginInv)
<1> SUFFICES ASSUME LoginAssumption PROVE Spec => []LoginInv
  OBVIOUS
<1>1. Init => LoginInv
  BY LoginInit
<1>2. LoginInv /\ [Next]_vars => LoginInv'
  BY LoginStep
<1> QED
  BY <1>1, <1>2, PTL DEF Spec

LEMMA TokensGood == LoginAssumption /\ LoginInv => TokenInv
<1> SUFFICES ASSUME LoginAssumption, LoginInv PROVE TokenInv
  OBVIOUS
<1>1. CallInv /\ FileInv /\ ServerType
  BY DEF LoginInv, CallInv, AccountInv
<1>2. \A p \in Processes : ProcessInv(p)
  BY <1>1 DEF CallInv
<1>3. mem \in [Processes -> Store] /\ tok \in [Processes -> Token \cup {None}]
      /\ pc \in [Processes -> {"off", "idle", "login", "store", "save", "forget", "send"}]
  BY <1>1, <1>2 DEF CallInv, ArraysOK, PerProcess, ProcessInv, StoreOK
<1>4. TypeOK
  BY <1>1, <1>3 DEF TypeOK, FileInv, StoreOK, ServerType
<1>5. ASSUME NEW p \in Processes, pc[p] = "send" PROVE now < tok[p].exp
  <2>1. now \in Nat /\ since[p] + CallDelay \in Nat /\ tok[p].exp \in Nat
    BY <1>1, <1>2, <1>5 DEF FileInv, LoginAssumption, ProcessInv, Carrying, Token
  <2> QED
    BY <1>2, <1>5, <2>1 DEF ProcessInv, TokenLasts
<1> QED
  BY <1>4, <1>5 DEF TokenInv, TokenLastsUntilUse

(* get_token, store_token and the check of the server (client auth.py:47,  *)
(* 58; server auth.py:176): a token does not expire on its way, with any   *)
(* delays that the buffer covers; and everything has its type.             *)
THEOREM NoTokenExpiresOnItsWay ==
  ASSUME LoginAssumption
  PROVE  Spec => []TokenInv
<1>1. LoginInv => TokenInv
  BY TokensGood
<1>2. Spec => []LoginInv
  BY LoginAlways
<1> QED
  BY <1>1, <1>2, PTL

(* clear_token (client auth.py:70, host.py:155): with any number of        *)
(* processes on one token file, and boots that rotate the secret, a        *)
(* process is turned away once per boot at most.                           *)
THEOREM TurnedAwayOnce ==
  ASSUME LoginAssumption
  PROVE  Spec => []OneRejectionPerBoot
<1>1. LoginInv => OneRejectionPerBoot
  BY DEF LoginInv, CallInv, ProcessInv, OneRejectionPerBoot
<1>2. Spec => []LoginInv
  BY LoginAlways
<1> QED
  BY <1>1, <1>2, PTL

(* UserStore (server auth.py:86-116): an account that was acknowledged     *)
(* outlives every crash and boot, but for a crash during the rewriting.    *)
THEOREM AccountsSurvive ==
  ASSUME LoginAssumption
  PROVE  Spec => []AcknowledgedUserKept
<1>1. LoginInv => AcknowledgedUserKept
  <2> SUFFICES ASSUME LoginInv, NEW h \in Hosts \ torn, NEW u \in Users, known[h][u] # None
               PROVE  /\ up[h] # "down" => users[h][u] = known[h][u]
                      /\ up[h] = "down" => usersFile[h] # Torn /\ usersFile[h][u] = known[h][u]
    BY DEF AcknowledgedUserKept
  <2>1. InStep(h) /\ up[h] \in {"down", "up", "saving"} /\ known[h] \in Accounts
    BY DEF LoginInv, AccountInv, ServerType
  <2> QED
    BY <2>1 DEF InStep, LoginAssumption
<1>2. Spec => []LoginInv
  BY LoginAlways
<1> QED
  BY <1>1, <1>2, PTL

(* _save_tokens (client auth.py:35-41) dumps the whole copy: a process     *)
(* that read or wrote last drops no other host's token, whoever else is    *)
(* writing.                                                                *)
THEOREM OtherTokensKept ==
  ASSUME LoginAssumption
  PROVE  Spec => SaveKeepsOthers
<1>1. LoginInv /\ [Next]_vars =>
        [\A p \in Processes :
           pc[p] \in {"save", "forget"} /\ pc'[p] # pc[p] /\ p \notin stale
             => file' = Torn \/ \A h \in Hosts \ {host[p]} : file'[h] = content[h]]_vars
  <2> SUFFICES ASSUME LoginInv, Next, NEW p \in Processes,
                      pc[p] \in {"save", "forget"}, pc'[p] # pc[p], p \notin stale
               PROVE  file' = Torn \/ \A h \in Hosts \ {host[p]} : file'[h] = content[h]
    OBVIOUS
  <2>1. ArraysOK /\ Keeps(p)
    BY DEF LoginInv, CallInv
  <2>2. ~ UNCHANGED pc
    OBVIOUS
  <2>3. PICK q \in Processes : ProcessStep(q)
    BY <2>2 DEF Next, Tick, ServerStep, AdminCreates, SaveCompletes, Crash, Boot
  <2>4. p = q
    <3>1. (\E l : Goto(q, l)) \/ UNCHANGED pc
      <4>1. CASE Arrive(q)
        BY <4>1 DEF Arrive, Unauthorised
      <4>2. CASE LoginCreates(q) \/ CallFails(q) \/ LoginRefused(q) \/ LoginVerified(q) \/ Exit(q)
        BY <4>2 DEF LoginCreates, CallFails, LoginRefused, LoginVerified, Exit
      <4>3. CASE (\E h \in Hosts : Start(q, h)) \/ Call(q) \/ CallLogsIn(q) \/ StoreToken(q)
                   \/ WriteFile(q)
        BY <4>3 DEF Start, Call, CallLogsIn, StoreToken, WriteFile
      <4> QED
        BY <2>3, <4>1, <4>2, <4>3 DEF ProcessStep
    <3>2. ASSUME p # q PROVE pc'[p] = pc[p]
      BY <2>1, <3>1, <3>2 DEF Goto, ArraysOK, PerProcess
    <3> QED
      BY <3>2
  <2>5. WriteFile(p)
    BY <2>3, <2>4 DEF ProcessStep, Start, Exit, Call, CallLogsIn, StoreToken, WriteFile,
       CallFails, LoginVerified, LoginRefused, LoginCreates, Arrive
  <2>6. file' \in {mem[p], Torn}
    BY <2>5 DEF WriteFile, Written
  <2> QED
    BY <2>1, <2>6 DEF Keeps
<1>2. Spec => []LoginInv
  BY LoginAlways
<1> QED
  BY <1>1, <1>2, PTL DEF Spec, SaveKeepsOthers

----------------------------------------------------------------------------
(* The recording session.  execute() is a fold over the operations.        *)

RunNext(o, run) == RunOp(run, o)
Highest(places) == Max(places)
Folds == INSTANCE FoldFacts WITH Op <- RunNext, Base <- Fresh, Pick <- Highest

LEMMA HighestIsLatest == Folds!Latest
<1>1. ASSUME NEW n \in Nat, NEW S \in SUBSET (1..n), S # {}
      PROVE  Max(S) \in S /\ \A i \in S : i <= Max(S)
  <2>1. PICK x \in S : \A y \in S : y <= x
    BY <1>1, Folds!LastPlace
  <2> QED
    BY <2>1 DEF Max
<1> QED
  BY <1>1 DEF Folds!Latest, Highest

LEMMA ExecuteFolds ==
  ASSUME NEW plan
  PROVE  Execute(plan) = Folds!Fold(plan, DOMAIN plan)
  BY DEF Execute, FoldLeft, MapThenFoldSet, Folds!Fold, Folds!MapThenFoldSet, RunNext, Highest

LEMMA ExecuteNothing == Execute(<<>>) = Fresh
  BY ExecuteFolds, Folds!FoldOfEmpty

LEMMA ExecuteOneMore ==
  ASSUME NEW T, NEW plan \in Seq(T), NEW o \in T
  PROVE  Execute(Append(plan, o)) = RunOp(Execute(plan), o)
  BY ExecuteFolds, HighestIsLatest, Folds!FoldOfAppend DEF RunNext

(* The operations a session records.                                       *)
AllOps == UNION {{StartOp}, {OpenOp(s) : s \in Services},
                 {CreateOp(s, t, i) : s \in Services, t \in Types, i \in Nat},
                 {PutOp(i, p) : i \in Nat, p \in Paths}, {SendOp(i, c) : i \in Nat, c \in Nat},
                 {CollectOp(c, Timeout) : c \in Nat}}

LEMMA OpForms ==
  ASSUME NEW o \in AllOps
  PROVE  \/ o = StartOp
         \/ \E s \in Services : o = OpenOp(s)
         \/ \E s \in Services, t \in Types, i \in Nat : o = CreateOp(s, t, i)
         \/ \E p \in Paths, i \in Nat : o = PutOp(i, p)
         \/ \E i \in Nat, c \in Nat : o = SendOp(i, c)
         \/ \E c \in Nat : o = CollectOp(c, Timeout)
  BY DEF AllOps

(* A run in progress, and what every operation leaves of it.               *)
Made   == [service : Services, type : Types, paths : Seq(Paths)]
Gotten == [cid : Nat, request : Made]

Built(requested, out, waiting, sentTo, results, ending) ==
  [requests |-> requested, sent |-> out, queued |-> waiting, registered |-> sentTo,
   got |-> results, error |-> ending]

Whole(run) == run = Built(run.requests, run.sent, run.queued, run.registered, run.got, run.error)

RunOK(run) ==
  /\ Whole(run)
  /\ run.requests = [i \in DOMAIN run.requests |-> run.requests[i]]
  /\ \A i \in DOMAIN run.requests : run.requests[i] \in Made
  /\ \A c \in run.queued : c \in DOMAIN run.sent /\ run.sent[c] \in Made
  /\ run.got \in Seq(Gotten)

LEMMA BuiltFields ==
  ASSUME NEW q, NEW s, NEW w, NEW k, NEW g, NEW e
  PROVE  /\ Built(q, s, w, k, g, e).requests = q /\ Built(q, s, w, k, g, e).sent = s
         /\ Built(q, s, w, k, g, e).queued = w /\ Built(q, s, w, k, g, e).registered = k
         /\ Built(q, s, w, k, g, e).got = g /\ Built(q, s, w, k, g, e).error = e
         /\ Whole(Built(q, s, w, k, g, e))
  BY DEF Built, Whole

Unended(run) == run.error = "none"

LEMMA RunFails ==
  ASSUME NEW run, Whole(run), NEW e
  PROVE  Failed(run, e) = Built(run.requests, run.sent, run.queued, run.registered, run.got, e)
  BY DEF Failed, Whole, Built

LEMMA FailedHas ==
  ASSUME NEW run, Whole(run), NEW e
  PROVE  Failed(run, e).error = e
<1>1. Failed(run, e) = Built(run.requests, run.sent, run.queued, run.registered, run.got, e)
  BY RunFails
<1> QED
  BY <1>1, BuiltFields

LEMMA FailedLeaves ==
  ASSUME NEW run, Whole(run), NEW e
  PROVE  /\ Failed(run, e).requests = run.requests /\ Failed(run, e).sent = run.sent
         /\ Failed(run, e).queued = run.queued
<1>1. Failed(run, e) = Built(run.requests, run.sent, run.queued, run.registered, run.got, e)
  BY RunFails
<1> QED
  BY <1>1, BuiltFields

LEMMA RunStartOpen ==
  ASSUME NEW run, NEW s
  PROVE  RunOp(run, StartOp) = run /\ RunOp(run, OpenOp(s)) = run
  BY DEF RunOp, StartOp, OpenOp

LEMMA RunCreate ==
  ASSUME NEW run, Whole(run), Unended(run), NEW s, NEW t, NEW i
  PROVE  RunOp(run, CreateOp(s, t, i)) =
           Built(Bind(run.requests, i, [service |-> s, type |-> t, paths |-> <<>>]),
                 run.sent, run.queued, run.registered, run.got, run.error)
  BY DEF RunOp, CreateOp, Unended, CreateRequest, Whole, Built

LEMMA RunPut ==
  ASSUME NEW run, Whole(run), Unended(run), NEW p, NEW i
  PROVE  RunOp(run, PutOp(i, p)) =
           IF i \in DOMAIN run.requests
           THEN Built([run.requests EXCEPT ![i] = [run.requests[i] EXCEPT !.paths = Append(@, p)]],
                      run.sent, run.queued, run.registered, run.got, run.error)
           ELSE Failed(run, "request not found")
<1>1. /\ PutOp(i, p).op \in {"append", "set"} /\ PutOp(i, p).id = i /\ PutOp(i, p).path = p
      /\ (PutOp(i, p).op = "append") = (p \in Arrays)
  BY DEF PutOp, AppendOp, SetOp
<1>2. RunOp(run, PutOp(i, p)) = PutElement(run, PutOp(i, p))
  BY <1>1 DEF RunOp, Unended
<1> QED
  BY <1>1, <1>2 DEF PutElement, Whole, Built

LEMMA BuiltSends ==
  ASSUME NEW q, NEW s, NEW w, NEW k, NEW g, NEW e, NEW i, NEW c, i \in DOMAIN q
  PROVE  SendRequest(Built(q, s, w, k, g, e), SendOp(i, c)) =
           Built(q, Bind(s, c, q[i]), w \cup {c}, k \cup {c}, g, e)
<1>1. ASSUME NEW o, o.id \in DOMAIN q
      PROVE  SendRequest(Built(q, s, w, k, g, e), o) =
               Built(q, Bind(s, o.cid, q[o.id]), w \cup {o.cid}, k \cup {o.cid}, g, e)
  BY <1>1 DEF SendRequest, Built
<1>2. SendOp(i, c).id = i /\ SendOp(i, c).cid = c
  BY DEF SendOp
<1> QED
  BY <1>1, <1>2

LEMMA BuiltCollects ==
  ASSUME NEW q, NEW s, NEW w, NEW k, NEW g, NEW e, NEW c, NEW time, c \in w
  PROVE  CollectResponse(Built(q, s, w, k, g, e), CollectOp(c, time)) =
           Built(q, s, w \ {c}, k, Append(g, [cid |-> c, request |-> s[c]]), e)
<1>1. ASSUME NEW o, o.cid \in w
      PROVE  CollectResponse(Built(q, s, w, k, g, e), o) =
               Built(q, s, w \ {o.cid}, k, Append(g, [cid |-> o.cid, request |-> s[o.cid]]), e)
  BY <1>1 DEF CollectResponse, Built
<1>2. CollectOp(c, time).cid = c
  BY DEF CollectOp
<1> QED
  BY <1>1, <1>2

LEMMA RunSend ==
  ASSUME NEW run, Whole(run), Unended(run), NEW c, NEW i
  PROVE  RunOp(run, SendOp(i, c)) =
           IF i \in DOMAIN run.requests
           THEN Built(run.requests, Bind(run.sent, c, run.requests[i]), run.queued \cup {c},
                      run.registered \cup {c}, run.got, run.error)
           ELSE Failed(run, "request not found")
<1>1. RunOp(run, SendOp(i, c)) = SendRequest(run, SendOp(i, c)) /\ SendOp(i, c).id = i
  BY DEF RunOp, SendOp, Unended
<1>2. CASE i \in DOMAIN run.requests
  <2>1. SendRequest(Built(run.requests, run.sent, run.queued, run.registered, run.got, run.error),
                    SendOp(i, c)) =
          Built(run.requests, Bind(run.sent, c, run.requests[i]), run.queued \cup {c},
                run.registered \cup {c}, run.got, run.error)
    BY <1>2, BuiltSends
  <2>2. run = Built(run.requests, run.sent, run.queued, run.registered, run.got, run.error)
    BY DEF Whole
  <2>3. RunOp(run, SendOp(i, c)) =
          Built(run.requests, Bind(run.sent, c, run.requests[i]), run.queued \cup {c},
                run.registered \cup {c}, run.got, run.error)
    BY <1>1, <2>1, <2>2, Zenon
  <2> QED
    BY <1>2, <2>3
<1>3. CASE ~ (i \in DOMAIN run.requests)
  <2>1. SendRequest(run, SendOp(i, c)) = Failed(run, "request not found")
    BY <1>1, <1>3, Zenon DEF SendRequest
  <2> QED
    BY <1>1, <1>3, <2>1
<1> QED
  BY <1>2, <1>3

LEMMA RunCollect ==
  ASSUME NEW run, Whole(run), Unended(run), NEW c, NEW time
  PROVE  RunOp(run, CollectOp(c, time)) =
           IF c \in run.queued
           THEN Built(run.requests, run.sent, run.queued \ {c}, run.registered,
                      Append(run.got, [cid |-> c, request |-> run.sent[c]]), run.error)
           ELSE Failed(run, "timeout")
<1>1. RunOp(run, CollectOp(c, time)) = CollectResponse(run, CollectOp(c, time))
      /\ CollectOp(c, time).cid = c
  BY DEF RunOp, CollectOp, Unended
<1>2. CASE c \in run.queued
  <2>1. CollectResponse(Built(run.requests, run.sent, run.queued, run.registered, run.got, run.error),
                        CollectOp(c, time)) =
          Built(run.requests, run.sent, run.queued \ {c}, run.registered,
                Append(run.got, [cid |-> c, request |-> run.sent[c]]), run.error)
    BY <1>2, BuiltCollects
  <2>2. run = Built(run.requests, run.sent, run.queued, run.registered, run.got, run.error)
    BY DEF Whole
  <2>3. RunOp(run, CollectOp(c, time)) =
          Built(run.requests, run.sent, run.queued \ {c}, run.registered,
                Append(run.got, [cid |-> c, request |-> run.sent[c]]), run.error)
    BY <1>1, <2>1, <2>2, Zenon
  <2> QED
    BY <1>2, <2>3
<1>3. CASE ~ (c \in run.queued)
  <2>1. CollectResponse(run, CollectOp(c, time)) = Failed(run, "timeout")
    BY <1>1, <1>3, Zenon DEF CollectResponse
  <2> QED
    BY <1>1, <1>3, <2>1
<1> QED
  BY <1>2, <1>3

LEMMA RunEnded ==
  ASSUME NEW run, ~ Unended(run), NEW o
  PROVE  RunOp(run, o) = run
  BY DEF RunOp, Unended

LEMMA FreshRun == RunOK(Fresh) /\ Unended(Fresh)
  BY DEF Fresh, RunOK, Unended, Whole, Built

LEMMA MadeGrows ==
  ASSUME NEW r \in Made, NEW p \in Paths
  PROVE  [r EXCEPT !.paths = Append(@, p)] \in Made
  BY DEF Made

RunAdvances(run, next) == RunOK(next) /\ run.registered \subseteq next.registered

LEMMA FailedAdvances ==
  ASSUME NEW run, RunOK(run), NEW e
  PROVE  RunAdvances(run, Failed(run, e))
  BY RunFails, BuiltFields DEF RunOK, RunAdvances

LEMMA RunKeeps ==
  ASSUME NEW run, RunOK(run), NEW o \in AllOps
  PROVE  RunAdvances(run, RunOp(run, o))
<1>1. CASE ~ Unended(run)
  BY <1>1, RunEnded DEF RunAdvances
<1>2. CASE Unended(run)
  <2>0. Whole(run)
    BY DEF RunOK
  <2>1. CASE o = StartOp \/ \E s \in Services : o = OpenOp(s)
    BY <2>1, RunStartOpen DEF RunAdvances
  <2>2. ASSUME NEW s \in Services, NEW t \in Types, NEW i \in Nat, o = CreateOp(s, t, i)
        PROVE  RunAdvances(run, RunOp(run, o))
    <3> DEFINE made == [service |-> s, type |-> t, paths |-> <<>>]
               all  == Bind(run.requests, i, made)
    <3>1. made \in Made
      BY DEF Made
    <3>2. RunOp(run, o) = Built(all, run.sent, run.queued, run.registered, run.got, run.error)
      BY <1>2, <2>0, <2>2, RunCreate
    <3> HIDE DEF made
    <3>3. all = [k \in DOMAIN all |-> all[k]] /\ \A k \in DOMAIN all : all[k] \in Made
      BY <3>1 DEF Bind, RunOK
    <3> HIDE DEF all
    <3> QED
      BY <3>2, <3>3, BuiltFields DEF RunOK, RunAdvances
  <2>3. ASSUME NEW p \in Paths, NEW i \in Nat, o = PutOp(i, p)
        PROVE  RunAdvances(run, RunOp(run, o))
    <3>1. CASE i \in DOMAIN run.requests
      <4> DEFINE more == [run.requests[i] EXCEPT !.paths = Append(@, p)]
                 all  == [run.requests EXCEPT ![i] = more]
      <4>1. more \in Made
        BY <3>1, MadeGrows DEF RunOK
      <4>2. RunOp(run, o) = Built(all, run.sent, run.queued, run.registered, run.got, run.error)
        BY <1>2, <2>0, <2>3, <3>1, RunPut
      <4> HIDE DEF more
      <4>3. all = [k \in DOMAIN all |-> all[k]] /\ \A k \in DOMAIN all : all[k] \in Made
        BY <4>1 DEF RunOK
      <4> HIDE DEF all
      <4> QED
        BY <4>2, <4>3, BuiltFields DEF RunOK, RunAdvances
    <3>2. CASE i \notin DOMAIN run.requests
      BY <1>2, <2>0, <2>3, <3>2, RunPut, FailedAdvances
    <3> QED
      BY <3>1, <3>2
  <2>4. ASSUME NEW i \in Nat, NEW c \in Nat, o = SendOp(i, c)
        PROVE  RunAdvances(run, RunOp(run, o))
    <3>1. CASE i \in DOMAIN run.requests
      <4> DEFINE out == Bind(run.sent, c, run.requests[i])
      <4>1. RunOp(run, o) = Built(run.requests, out, run.queued \cup {c}, run.registered \cup {c},
                                  run.got, run.error)
        BY <1>2, <2>0, <2>4, <3>1, RunSend
      <4>2. \A d \in run.queued \cup {c} : d \in DOMAIN out /\ out[d] \in Made
        BY <3>1 DEF RunOK, Bind
      <4> HIDE DEF out
      <4> QED
        BY <4>1, <4>2, BuiltFields DEF RunOK, RunAdvances
    <3>2. CASE i \notin DOMAIN run.requests
      BY <1>2, <2>0, <2>4, <3>2, RunSend, FailedAdvances
    <3> QED
      BY <3>1, <3>2
  <2>5. ASSUME NEW c \in Nat, o = CollectOp(c, Timeout)
        PROVE  RunAdvances(run, RunOp(run, o))
    <3>1. CASE c \in run.queued
      <4> DEFINE answer == [cid |-> c, request |-> run.sent[c]]
      <4>1. answer \in Gotten
        BY <3>1 DEF Gotten, RunOK
      <4>2. RunOp(run, o) = Built(run.requests, run.sent, run.queued \ {c}, run.registered,
                                  Append(run.got, answer), run.error)
        BY <1>2, <2>0, <2>5, <3>1, RunCollect
      <4> HIDE DEF answer
      <4> DEFINE results == Append(run.got, answer)
      <4>5. RunOp(run, o) = Built(run.requests, run.sent, run.queued \ {c}, run.registered,
                                  results, run.error)
        BY <4>2
      <4>3. results \in Seq(Gotten)
        BY <4>1 DEF RunOK
      <4> HIDE DEF results
      <4>4. \A d \in run.queued \ {c} : d \in DOMAIN run.sent /\ run.sent[d] \in Made
        BY DEF RunOK
      <4> QED
        BY <4>3, <4>4, <4>5, BuiltFields DEF RunOK, RunAdvances
    <3>2. CASE c \notin run.queued
      BY <1>2, <2>0, <2>5, <3>2, RunCollect, FailedAdvances
    <3> QED
      BY <3>1, <3>2
  <2> QED
    BY <2>1, <2>2, <2>3, <2>4, <2>5, OpForms
<1> QED
  BY <1>1, <1>2

(* The run of the first n operations of a plan.                            *)
After(plan, n) == Execute(SubSeq(plan, 1, n))

LEMMA AfterNext ==
  ASSUME NEW plan \in Seq(AllOps), NEW n \in Nat, n < Len(plan)
  PROVE  /\ plan[n + 1] \in AllOps
         /\ After(plan, n + 1) = RunOp(After(plan, n), plan[n + 1])
<1>1. /\ plan[n + 1] \in AllOps /\ SubSeq(plan, 1, n) \in Seq(AllOps)
      /\ SubSeq(plan, 1, n + 1) = Append(SubSeq(plan, 1, n), plan[n + 1])
  OBVIOUS
<1> QED
  BY <1>1, ExecuteOneMore DEF After

LEMMA AfterAll ==
  ASSUME NEW plan \in Seq(AllOps)
  PROVE  After(plan, 0) = Fresh /\ After(plan, Len(plan)) = Execute(plan)
<1>1. SubSeq(plan, 1, 0) = <<>> /\ SubSeq(plan, 1, Len(plan)) = plan
  OBVIOUS
<1> QED
  BY <1>1, ExecuteNothing DEF After

LEMMA AfterIsRun ==
  ASSUME NEW plan \in Seq(AllOps), NEW n \in 0..Len(plan)
  PROVE  RunOK(After(plan, n))
<1> DEFINE Fine == {m \in Nat : m <= Len(plan) => RunOK(After(plan, m))}
<1>1. 0 \in Fine
  BY AfterAll, FreshRun
<1>2. ASSUME NEW m \in Nat, m \in Fine PROVE m + 1 \in Fine
  <2> SUFFICES ASSUME m + 1 <= Len(plan) PROVE RunOK(After(plan, m + 1))
    OBVIOUS
  <2>1. RunOK(After(plan, m)) /\ m < Len(plan)
    BY <1>2
  <2> QED
    BY <2>1, AfterNext, RunKeeps DEF RunAdvances
<1> HIDE DEF Fine
<1>3. n \in Fine
  BY <1>1, <1>2, Folds!NatSetInduction
<1> QED
  BY <1>3 DEF Fine

LEMMA ExecuteIsRun ==
  ASSUME NEW plan \in Seq(AllOps)
  PROVE  RunOK(Execute(plan))
  BY AfterAll, AfterIsRun

(* What a plan has registered it keeps, and after an error it does nothing. *)
LEMMA AfterGrows ==
  ASSUME NEW plan \in Seq(AllOps), NEW m \in 0..Len(plan), NEW n \in m..Len(plan)
  PROVE  /\ After(plan, m).registered \subseteq After(plan, n).registered
         /\ Unended(After(plan, n)) => Unended(After(plan, m))
<1> DEFINE Grows(k) == /\ After(plan, m).registered \subseteq After(plan, m + k).registered
                       /\ Unended(After(plan, m + k)) => Unended(After(plan, m))
           Fine == {k \in Nat : m + k <= Len(plan) => Grows(k)}
<1>1. 0 \in Fine
  OBVIOUS
<1>2. ASSUME NEW k \in Nat, k \in Fine PROVE k + 1 \in Fine
  <2> SUFFICES ASSUME m + (k + 1) <= Len(plan) PROVE Grows(k + 1)
    OBVIOUS
  <2>1. Grows(k) /\ m + k \in 0..Len(plan) /\ m + k < Len(plan) /\ m + (k + 1) = (m + k) + 1
    BY <1>2
  <2>2. RunOK(After(plan, m + k))
    BY <2>1, AfterIsRun
  <2>3. /\ plan[(m + k) + 1] \in AllOps
        /\ After(plan, (m + k) + 1) = RunOp(After(plan, m + k), plan[(m + k) + 1])
    BY <2>1, AfterNext
  <2> QED
    BY <2>1, <2>2, <2>3, RunKeeps, RunEnded DEF RunAdvances
<1> HIDE DEF Fine
<1>3. n - m \in Nat /\ m + (n - m) = n
  OBVIOUS
<1>4. n - m \in Fine
  BY <1>1, <1>2, <1>3, Folds!NatSetInduction
<1> QED
  BY <1>3, <1>4 DEF Fine


(* What the session records.                                               *)

LEMMA SetMadeSequence ==
  ASSUME NEW S, IsFiniteSet(S)
  PROVE  SetToSeq(S) \in Seq(S)
<1>1. PICK n \in Nat : Cardinality(S) = n /\ ExistsBijection(1..n, S)
  BY FS_CardinalityType
<1>2. PICK f \in [1..n -> S] : IsInjective(f)
  BY <1>1 DEF ExistsBijection, Bijection, Injection, IsInjective
<1>3. SetToSeq(S) \in [1..n -> S]
  BY <1>1, <1>2 DEF SetToSeq
<1> QED
  BY <1>3

LEMMA AllOpsHas ==
  /\ StartOp \in AllOps
  /\ \A s \in Services : OpenOp(s) \in AllOps
  /\ \A s \in Services, t \in Types, i \in Nat : CreateOp(s, t, i) \in AllOps
  /\ \A i \in Nat, p \in Paths : PutOp(i, p) \in AllOps
  /\ \A i \in Nat, c \in Nat : SendOp(i, c) \in AllOps
  /\ \A c \in Nat : CollectOp(c, Timeout) \in AllOps
<1> DEFINE a == {StartOp}  b == {OpenOp(s) : s \in Services}
           d == {CreateOp(s, t, i) : s \in Services, t \in Types, i \in Nat}
           e == {PutOp(i, p) : i \in Nat, p \in Paths}  f == {SendOp(i, c) : i \in Nat, c \in Nat}
           g == {CollectOp(c, Timeout) : c \in Nat}
<1>1. AllOps = UNION {a, b, d, e, f, g}
  BY DEF AllOps
<1>2. StartOp \in a
  OBVIOUS
<1>3. \A s \in Services : OpenOp(s) \in b
  OBVIOUS
<1>4. \A s \in Services, t \in Types, i \in Nat : CreateOp(s, t, i) \in d
  OBVIOUS
<1>5. \A i \in Nat, p \in Paths : PutOp(i, p) \in e
  OBVIOUS
<1>6. \A i \in Nat, c \in Nat : SendOp(i, c) \in f
  OBVIOUS
<1>7. \A c \in Nat : CollectOp(c, Timeout) \in g
  OBVIOUS
<1> HIDE DEF a, b, d, e, f, g
<1> QED
  BY <1>1, <1>2, <1>3, <1>4, <1>5, <1>6, <1>7

(* The kind of an operation is told by its op.                             *)
LEMMA KindOfOp ==
  ASSUME NEW o \in AllOps
  PROVE  /\ o.op = "send_request" => \E i \in Nat, c \in Nat : o = SendOp(i, c) /\ o.cid = c /\ o.id = i
         /\ o.op = "collect_response" => \E c \in Nat : o = CollectOp(c, Timeout) /\ o.cid = c
<1>1. ASSUME NEW i \in Nat, NEW p \in Paths
      PROVE  PutOp(i, p).op \in {"append", "set"}
  BY DEF PutOp, AppendOp, SetOp
<1>2. /\ StartOp.op = "start_session" /\ \A s \in Services : OpenOp(s).op = "open_service"
      /\ \A s \in Services, t \in Types, i \in Nat : CreateOp(s, t, i).op = "create_request"
  BY DEF StartOp, OpenOp, CreateOp
<1>3. /\ \A i \in Nat, c \in Nat : SendOp(i, c).op = "send_request" /\ SendOp(i, c).cid = c /\ SendOp(i, c).id = i
      /\ \A c \in Nat : CollectOp(c, Timeout).op = "collect_response" /\ CollectOp(c, Timeout).cid = c
  BY DEF SendOp, CollectOp
<1> QED
  BY <1>1, <1>2, <1>3, OpForms


SendsFirst(plan) ==
  \A m \in Positions(plan, "send_request"), n \in Positions(plan, "collect_response") :
    plan[m].cid = plan[n].cid => m < n

(* A collect whose queue stays registered has no send: a send before it    *)
(* would have run, since the plan came as far as the collect, and would    *)
(* have registered the queue in the run.                                   *)
LEMMA LoneCollect ==
  ASSUME NEW plan \in Seq(AllOps), SendsFirst(plan), NEW c \in LeftRegistered(plan, Execute(plan))
  PROVE  /\ CollectOp(c, Timeout) \in OpsOf(plan, "collect_response")
         /\ c \notin {o.cid : o \in OpsOf(plan, "send_request")}
<1>1. PICK n \in Positions(plan, "collect_response") :
        /\ plan[n].cid = c /\ Unended(Execute(SubSeq(plan, 1, n - 1)))
  BY DEF LeftRegistered, Unended
<1>2. c \notin Execute(plan).registered
  BY DEF LeftRegistered
<1>3. n \in 1..Len(plan) /\ plan[n].op = "collect_response" /\ plan[n] \in AllOps
  BY <1>1 DEF Positions
<1>4. plan[n] = CollectOp(c, Timeout)
  BY <1>1, <1>3, KindOfOp
<1>5. CollectOp(c, Timeout) \in OpsOf(plan, "collect_response")
  BY <1>1, <1>4 DEF OpsOf, Positions
<1>6. ASSUME NEW o \in OpsOf(plan, "send_request"), o.cid = c
      PROVE  FALSE
  <2>1. PICK m \in DOMAIN plan : plan[m].op = "send_request" /\ plan[m] = o
    BY DEF OpsOf
  <2>2. m \in 1..Len(plan) /\ plan[m] \in AllOps
    BY <2>1
  <2>3. PICK i \in Nat : plan[m] = SendOp(i, c)
    BY <1>6, <2>1, <2>2, KindOfOp
  <2>4. m < n
    BY <1>1, <1>6, <2>1 DEF SendsFirst, Positions
  <2>5. /\ m - 1 \in 0..Len(plan) /\ m \in 0..Len(plan) /\ n - 1 \in m..Len(plan)
        /\ m \in (m - 1)..Len(plan) /\ Len(plan) \in m..Len(plan)
        /\ m - 1 < Len(plan) /\ (m - 1) + 1 = m /\ m - 1 \in Nat
    BY <1>3, <2>2, <2>4
  <2>6. Unended(After(plan, m))
    BY <1>1, <2>5, AfterGrows DEF After
  <2>7. Unended(After(plan, m - 1))
    BY <2>5, <2>6, AfterGrows
  <2>8. RunOK(After(plan, m - 1)) /\ After(plan, m) = RunOp(After(plan, m - 1), SendOp(i, c))
    BY <2>3, <2>5, AfterNext, AfterIsRun
  <2> DEFINE run == After(plan, m - 1)
  <2>9. Whole(run) /\ Unended(run) /\ After(plan, m) = RunOp(run, SendOp(i, c))
    BY <2>7, <2>8 DEF RunOK
  <2> HIDE DEF run
  <2>10. c \in After(plan, m).registered
    <3>1. CASE i \in DOMAIN run.requests
      <4>1. RunOp(run, SendOp(i, c)) =
              Built(run.requests, Bind(run.sent, c, run.requests[i]), run.queued \cup {c},
                    run.registered \cup {c}, run.got, run.error)
        BY <2>9, <3>1, RunSend
      <4>2. RunOp(run, SendOp(i, c)).registered = run.registered \cup {c}
        BY <4>1, BuiltFields
      <4> QED
        BY <2>9, <4>2
    <3>2. CASE ~ (i \in DOMAIN run.requests)
      <4>1. RunOp(run, SendOp(i, c)) = Failed(run, "request not found")
        BY <2>9, <3>2, RunSend
      <4>2. Failed(run, "request not found").error = "request not found"
        BY <2>9, FailedHas
      <4> QED
        BY <2>6, <2>9, <4>1, <4>2 DEF Unended
    <3> QED
      BY <3>1, <3>2
  <2> QED
    BY <1>2, <2>5, <2>10, AfterAll, AfterGrows
<1> QED
  BY <1>5, <1>6


(* The operations recorded with correlation ids up to k.                   *)
CidsUpTo(plan, k) ==
  \A n \in Positions(plan, "send_request") \cup Positions(plan, "collect_response") : plan[n].cid \in 1..k

Recorded(plan, k) == plan \in Seq(AllOps) /\ CidsUpTo(plan, k) /\ SendsFirst(plan)

Quiet(o) == o.op \notin {"send_request", "collect_response"}

LEMMA QuietOps ==
  /\ Quiet(StartOp) /\ \A s \in Services : Quiet(OpenOp(s))
  /\ \A s \in Services, t \in Types, i \in Nat : Quiet(CreateOp(s, t, i))
  /\ \A i \in Nat, p \in Paths : Quiet(PutOp(i, p))
  BY DEF Quiet, StartOp, OpenOp, CreateOp, PutOp, AppendOp, SetOp

LEMMA RecordQuietly ==
  ASSUME NEW plan, NEW k \in Nat, Recorded(plan, k), NEW o \in AllOps, Quiet(o)
  PROVE  Recorded(Append(plan, o), k)
<1>1. plan \in Seq(AllOps)
  BY DEF Recorded
<1> DEFINE more == Append(plan, o)
<1>2. /\ more \in Seq(AllOps) /\ DOMAIN more = 1..(Len(plan) + 1) /\ DOMAIN plan = 1..Len(plan)
      /\ more[Len(plan) + 1] = o /\ \A n \in DOMAIN plan : more[n] = plan[n]
  BY <1>1
<1> HIDE DEF more
<1>3. /\ Positions(more, "send_request") = Positions(plan, "send_request")
      /\ Positions(more, "collect_response") = Positions(plan, "collect_response")
  BY <1>1, <1>2 DEF Positions, Quiet
<1>4. \A n \in Positions(plan, "send_request") \cup Positions(plan, "collect_response") : more[n] = plan[n]
  BY <1>2 DEF Positions
<1> QED
  BY <1>2, <1>3, <1>4 DEF Recorded, CidsUpTo, SendsFirst, more

LEMMA RecordCollect ==
  ASSUME NEW plan, NEW k \in Nat, Recorded(plan, k), NEW c \in 1..k
  PROVE  Recorded(Append(plan, CollectOp(c, Timeout)), k)
<1>1. plan \in Seq(AllOps) /\ CollectOp(c, Timeout) \in AllOps
  BY AllOpsHas DEF Recorded
<1> DEFINE o == CollectOp(c, Timeout)
           more == Append(plan, o)
<1>2. /\ more \in Seq(AllOps) /\ DOMAIN more = 1..(Len(plan) + 1) /\ DOMAIN plan = 1..Len(plan)
      /\ more[Len(plan) + 1] = o /\ \A n \in DOMAIN plan : more[n] = plan[n]
  BY <1>1
<1>3. o.op = "collect_response" /\ o.cid = c
  BY DEF CollectOp
<1> HIDE DEF more, o
<1>4. /\ Positions(more, "send_request") = Positions(plan, "send_request")
      /\ Positions(more, "collect_response") = Positions(plan, "collect_response") \cup {Len(plan) + 1}
  BY <1>1, <1>2, <1>3 DEF Positions
<1>5. /\ \A n \in Positions(plan, "send_request") \cup Positions(plan, "collect_response") : more[n] = plan[n]
      /\ \A n \in Positions(plan, "send_request") : n < Len(plan) + 1
  BY <1>1, <1>2 DEF Positions
<1> QED
  BY <1>2, <1>3, <1>4, <1>5 DEF Recorded, CidsUpTo, SendsFirst, more, o

LEMMA RecordSend ==
  ASSUME NEW plan, NEW k \in Nat, Recorded(plan, k),
         NEW puts \in Seq(AllOps), \A n \in DOMAIN puts : Quiet(puts[n]), NEW i \in Nat
  PROVE  Recorded(plan \o (puts \o <<SendOp(i, k + 1)>>), k + 1)
<1>1. plan \in Seq(AllOps) /\ SendOp(i, k + 1) \in AllOps
  BY AllOpsHas DEF Recorded
<1> DEFINE o == SendOp(i, k + 1)
           more == plan \o (puts \o <<o>>)
           end  == Len(plan) + Len(puts) + 1
<1>2. /\ more \in Seq(AllOps) /\ DOMAIN more = 1..end /\ DOMAIN plan = 1..Len(plan)
      /\ more[end] = o /\ \A n \in DOMAIN plan : more[n] = plan[n]
      /\ \A n \in DOMAIN more : n \notin DOMAIN plan /\ n # end => Quiet(more[n])
  <2>1. /\ puts \o <<o>> \in Seq(AllOps) /\ Len(puts \o <<o>>) = Len(puts) + 1
        /\ (puts \o <<o>>)[Len(puts) + 1] = o /\ \A n \in 1..Len(puts) : (puts \o <<o>>)[n] = puts[n]
    BY <1>1
  <2> DEFINE tail == puts \o <<o>>
  <2> HIDE DEF tail, o
  <2>2. /\ plan \o tail \in Seq(AllOps) /\ Len(plan \o tail) = Len(plan) + Len(tail)
        /\ \A n \in 1..(Len(plan) + Len(tail)) :
             (plan \o tail)[n] = IF n <= Len(plan) THEN plan[n] ELSE tail[n - Len(plan)]
    BY <1>1, <2>1 DEF tail
  <2>3. /\ more \in Seq(AllOps) /\ DOMAIN more = 1..end /\ DOMAIN plan = 1..Len(plan)
        /\ \A n \in DOMAIN more : more[n] = IF n <= Len(plan) THEN plan[n] ELSE tail[n - Len(plan)]
    BY <1>1, <2>1, <2>2 DEF tail
  <2> HIDE DEF more
  <2>4. end - Len(plan) = Len(puts) + 1 /\ ~ (end <= Len(plan)) /\ end \in 1..end
    BY <1>1
  <2>5. more[end] = o
    BY <2>1, <2>3, <2>4 DEF tail
  <2>6. \A n \in DOMAIN plan : more[n] = plan[n]
    BY <1>1, <2>3
  <2>7. ASSUME NEW n \in DOMAIN more, n \notin DOMAIN plan, n # end PROVE Quiet(more[n])
    <3>0. /\ n \in 1..end /\ n \notin 1..Len(plan) /\ Len(plan) \in Nat /\ Len(puts) \in Nat
          /\ n # Len(plan) + Len(puts) + 1
      BY <1>1, <2>3, <2>7
    <3>1. n - Len(plan) \in 1..Len(puts) /\ ~ (n <= Len(plan))
      BY <3>0
    <3>2. more[n] = puts[n - Len(plan)]
      BY <2>1, <2>3, <3>1 DEF tail
    <3> QED
      BY <3>1, <3>2
  <2> QED
    BY <2>3, <2>5, <2>6, <2>7
<1>3. o.op = "send_request" /\ o.cid = k + 1
  BY DEF SendOp
<1>0. end \in Nat /\ end \notin DOMAIN plan /\ end \in 1..end
  BY <1>1
<1> HIDE DEF more, o, end
<1>4. /\ Positions(more, "send_request") = Positions(plan, "send_request") \cup {end}
      /\ Positions(more, "collect_response") = Positions(plan, "collect_response")
  <2>1. DOMAIN plan \subseteq DOMAIN more
    BY <1>0, <1>1, <1>2 DEF end
  <2> QED
    BY <1>0, <1>2, <1>3, <2>1 DEF Positions, Quiet
<1>5. \A n \in Positions(plan, "send_request") \cup Positions(plan, "collect_response") : more[n] = plan[n]
  BY <1>2 DEF Positions
<1>6. CidsUpTo(more, k + 1)
  BY <1>2, <1>3, <1>4, <1>5 DEF Recorded, CidsUpTo
<1>7. SendsFirst(more)
  BY <1>2, <1>3, <1>4, <1>5 DEF Recorded, CidsUpTo, SendsFirst
<1> QED
  BY <1>2, <1>6, <1>7 DEF Recorded, more, o

LEMMA RecordNothing ==
  ASSUME NEW plan \in Seq(AllOps), \A n \in DOMAIN plan : Quiet(plan[n]), NEW k \in Nat
  PROVE  Recorded(plan, k)
  BY DEF Recorded, CidsUpTo, SendsFirst, Positions, Quiet


(* The state of a session.                                                 *)
RequestObjects ==
  [service : Services, type : Types, id : Nat, paths : Seq(Paths), done : BOOLEAN, epoch : Nat]

SessionTypes ==
  /\ started \in BOOLEAN /\ documented \in BOOLEAN
  /\ counter \in [Services -> {-1} \cup Nat] /\ IsFiniteSet(Open)
  /\ requests \in Seq(RequestObjects)
  /\ cids \in Nat /\ opens \in Nat /\ cleared \in Nat
  /\ DOMAIN pending \subseteq 1..cids /\ \A c \in DOMAIN pending : pending[c] \in DOMAIN requests
  /\ Recorded(ops, cids)

LEMMA ObjectGrows ==
  ASSUME NEW r \in RequestObjects, NEW p \in Paths
  PROVE  [r EXCEPT !.paths = Append(@, p)] \in RequestObjects
  BY DEF RequestObjects

PutsOf(r) == [m \in DOMAIN r.paths |-> PutOp(r.id, r.paths[m])]

LEMMA PutsAreOps ==
  ASSUME NEW r \in RequestObjects
  PROVE  /\ PutsOf(r) \in Seq(AllOps) /\ Len(PutsOf(r)) = Len(r.paths)
         /\ \A m \in DOMAIN PutsOf(r) : Quiet(PutsOf(r)[m])
<1>1. r.paths \in Seq(Paths) /\ r.id \in Nat
  BY DEF RequestObjects
<1>2. \A m \in 1..Len(r.paths) : PutOp(r.id, r.paths[m]) \in AllOps /\ Quiet(PutOp(r.id, r.paths[m]))
  BY <1>1, AllOpsHas, QuietOps
<1> QED
  BY <1>1, <1>2 DEF PutsOf

LEMMA SentIs ==
  ASSUME NEW n, NEW c
  PROVE  Sent(n, c) = PutsOf(requests[n]) \o <<SendOp(requests[n].id, c)>>
  BY DEF Sent, PutsOf

OpenOps == {StartOp} \cup {OpenOp(s) : s \in Services}

LEMMA ReopenedIs ==
  ASSUME IsFiniteSet(Open)
  PROVE  /\ Reopened \in Seq(AllOps)
         /\ \A n \in DOMAIN Reopened : /\ Quiet(Reopened[n])
                                       /\ Reopened[n] = StartOp \/ \E s \in Open : Reopened[n] = OpenOp(s)
<1> DEFINE S == {OpenOp(s) : s \in Open}
<1>1. IsFiniteSet(S)
  <2> DEFINE f == [s \in Open |-> OpenOp(s)]
  <2>1. S = {f[s] : s \in Open} /\ f \in Surjection(Open, S)
    BY DEF Surjection
  <2> QED
    BY <2>1, FS_Surjection
<1>2. SetToSeq(S) \in Seq(S)
  BY <1>1, SetMadeSequence
<1>3. S \subseteq AllOps /\ \A o \in S : Quiet(o) /\ \E s \in Open : o = OpenOp(s)
  BY AllOpsHas, QuietOps DEF Open
<1> HIDE DEF S
<1> DEFINE q == SetToSeq(S)
<1>4. q \in Seq(AllOps) /\ \A n \in 1..Len(q) : q[n] \in S
  BY <1>2, <1>3
<1>5. Reopened = <<StartOp>> \o q
  BY DEF Reopened, S
<1> HIDE DEF q
<1>6. /\ Reopened \in Seq(AllOps) /\ DOMAIN Reopened = 1..(Len(q) + 1)
      /\ Reopened[1] = StartOp /\ \A n \in 2..(Len(q) + 1) : Reopened[n] = q[n - 1]
  BY <1>4, <1>5, AllOpsHas
<1>7. ASSUME NEW n \in DOMAIN Reopened
      PROVE  Quiet(Reopened[n]) /\ (Reopened[n] = StartOp \/ \E s \in Open : Reopened[n] = OpenOp(s))
  <2>1. CASE n = 1
    BY <2>1, <1>6, QuietOps
  <2>2. CASE n # 1
    <3>1. n - 1 \in 1..Len(q) /\ Reopened[n] = q[n - 1]
      BY <2>2, <1>4, <1>6
    <3> QED
      BY <3>1, <1>3, <1>4
  <2> QED
    BY <2>1, <2>2
<1> QED
  BY <1>6, <1>7

LEMMA SessionTypesInit == SessionInit => SessionTypes
<1> SUFFICES ASSUME SessionInit PROVE SessionTypes
  OBVIOUS
<1>1. Open = {}
  BY DEF SessionInit, Open
<1>2. IsFiniteSet(Open)
  BY <1>1, FS_EmptySet
<1>3. <<>> \in Seq(AllOps) /\ \A n \in DOMAIN <<>> : Quiet(<<>>[n])
  OBVIOUS
<1>4. Recorded(<<>>, 0)
  BY <1>3, RecordNothing
<1>5. counter = [s \in Services |-> -1] /\ cids = 0 /\ ops = <<>> /\ requests = <<>> /\ pending = <<>>
      /\ started = FALSE /\ documented = TRUE /\ opens = 0 /\ cleared = 0
  BY DEF SessionInit
<1>6. counter \in [Services -> {-1} \cup Nat] /\ requests \in Seq(RequestObjects) /\ DOMAIN pending = {}
  BY <1>5
<1> QED
  BY <1>2, <1>4, <1>5, <1>6 DEF SessionTypes

LEMMA OpenAfter ==
  ASSUME SessionTypes, NEW s \in Services, NEW k \in Nat, counter' = [counter EXCEPT ![s] = k]
  PROVE  Open' = Open \cup {s} /\ counter' \in [Services -> {-1} \cup Nat] /\ IsFiniteSet(Open')
<1>1. counter \in [Services -> {-1} \cup Nat] /\ IsFiniteSet(Open)
  BY DEF SessionTypes
<1>2. \A t \in Services : counter'[t] = IF t = s THEN k ELSE counter[t]
  BY <1>1
<1>3. Open' = Open \cup {s}
  BY <1>2 DEF Open
<1> QED
  BY <1>1, <1>3, FS_AddElement


LEMMA RecordedLater ==
  ASSUME NEW plan, NEW k \in Nat, Recorded(plan, k)
  PROVE  Recorded(plan, k + 1)
  BY DEF Recorded, CidsUpTo

LEMMA SessionTypesStep == SessionTypes /\ [SessionNext]_sessionVars => SessionTypes'
<1> SUFFICES ASSUME SessionTypes, [SessionNext]_sessionVars PROVE SessionTypes'
  OBVIOUS
<1>0. /\ Recorded(ops, cids) /\ ops \in Seq(AllOps) /\ cids \in Nat /\ opens \in Nat /\ cleared \in Nat
      /\ requests \in Seq(RequestObjects) /\ started \in BOOLEAN /\ documented \in BOOLEAN
      /\ DOMAIN pending \subseteq 1..cids /\ \A c \in DOMAIN pending : pending[c] \in DOMAIN requests
      /\ counter \in [Services -> {-1} \cup Nat] /\ IsFiniteSet(Open)
  BY DEF SessionTypes, Recorded
<1>1. CASE StartSession
  <2>1. Recorded(ops', cids')
    BY <1>0, <1>1, RecordQuietly, AllOpsHas, QuietOps DEF StartSession
  <2> QED
    BY <1>0, <1>1, <2>1 DEF SessionTypes, StartSession, Open
<1>2. CASE StopSession
  <2>1. <<>> \in Seq(AllOps) /\ \A n \in DOMAIN <<>> : Quiet(<<>>[n])
    OBVIOUS
  <2>2. Recorded(ops', cids')
    BY <1>0, <1>2, <2>1, RecordNothing DEF StopSession
  <2>3. Open' = {} /\ counter' \in [Services -> {-1} \cup Nat]
    BY <1>2 DEF StopSession, Open
  <2>4. IsFiniteSet(Open')
    BY <2>3, FS_EmptySet
  <2>6. pending' = <<>> /\ cleared' = cleared + 1
    BY <1>2 DEF StopSession
  <2>7. DOMAIN pending' = {}
    BY <2>6
  <2>5. documented' \in BOOLEAN
    BY <1>2, Zenon DEF StopSession
  <2>8. cleared' \in Nat
    BY <1>0, <2>6
  <2> QED
    BY <1>0, <1>2, <2>2, <2>3, <2>4, <2>5, <2>7, <2>8 DEF SessionTypes, StopSession
<1>3. ASSUME NEW s \in Services, OpenService(s) PROVE SessionTypes'
  <2>1. Recorded(ops', cids')
    BY <1>0, <1>3, RecordQuietly, AllOpsHas, QuietOps DEF OpenService
  <2>2. counter' \in [Services -> {-1} \cup Nat] /\ IsFiniteSet(Open')
    BY <1>3, OpenAfter DEF OpenService
  <2> QED
    BY <1>0, <1>3, <2>1, <2>2 DEF SessionTypes, OpenService
<1>4. ASSUME NEW s \in Services, NEW t \in Types, CreateRequestCall(s, t) PROVE SessionTypes'
  <2> DEFINE id == NextId(s)
             new == [service |-> s, type |-> t, id |-> id, paths |-> <<>>, done |-> FALSE, epoch |-> cleared]
  <2>1. id \in Nat
    BY <1>0, <1>4 DEF CreateRequestCall, NextId
  <2>2. Recorded(ops', cids')
    BY <1>0, <1>4, <2>1, RecordQuietly, AllOpsHas, QuietOps DEF CreateRequestCall
  <2>3. counter' \in [Services -> {-1} \cup Nat] /\ IsFiniteSet(Open')
    BY <1>4, <2>1, OpenAfter DEF CreateRequestCall
  <2>4. new \in RequestObjects /\ requests' = Append(requests, new)
    BY <1>0, <1>4, <2>1 DEF CreateRequestCall, RequestObjects
  <2>5. requests' \in Seq(RequestObjects) /\ DOMAIN requests \subseteq DOMAIN requests'
    BY <1>0, <2>4
  <2>6. UNCHANGED <<started, pending, cids, opens, cleared>> /\ documented' \in BOOLEAN
    BY <1>4 DEF CreateRequestCall
  <2> QED
    BY <1>0, <2>2, <2>3, <2>5, <2>6 DEF SessionTypes
<1>5. ASSUME NEW n \in 1..MaxRequests, NEW p \in Paths, Put(n, p) PROVE SessionTypes'
  <2> DEFINE more == [requests[n] EXCEPT !.paths = Append(@, p)]
  <2>1. requests[n] \in RequestObjects /\ n \in DOMAIN requests
    BY <1>0, <1>5 DEF Put
  <2>2. more \in RequestObjects
    BY <2>1, ObjectGrows
  <2>3. requests' = [requests EXCEPT ![n] = more]
    BY <1>5 DEF Put
  <2> HIDE DEF more
  <2>4. requests' \in Seq(RequestObjects) /\ DOMAIN requests' = DOMAIN requests
    BY <1>0, <2>1, <2>2, <2>3
  <2>5. UNCHANGED <<started, counter, ops, pending, cids, opens, cleared>> /\ documented' \in BOOLEAN
    BY <1>5 DEF Put
  <2> QED
    BY <1>0, <2>4, <2>5 DEF SessionTypes, Open
<1>6. ASSUME NEW n \in 1..MaxRequests, SendRequestCall(n) PROVE SessionTypes'
  <2>0. n \in DOMAIN requests
    BY <1>6 DEF SendRequestCall
  <2>7. requests[n] \in RequestObjects
    BY <1>0, <2>0
  <2>1. requests[n] \in RequestObjects /\ n \in DOMAIN requests /\ requests[n].id \in Nat
    BY <2>0, <2>7 DEF RequestObjects
  <2>2. cids' = cids + 1 /\ ops' = ops \o Sent(n, cids') /\ pending' = Bind(pending, cids', n)
    BY <1>6 DEF SendRequestCall
  <2>3. Recorded(ops', cids')
    BY <1>0, <2>1, <2>2, PutsAreOps, SentIs, RecordSend
  <2>4. DOMAIN pending' = DOMAIN pending \cup {cids + 1} /\ \A c \in DOMAIN pending' : pending'[c] \in DOMAIN requests
    BY <1>0, <2>1, <2>2 DEF Bind
  <2>5. DOMAIN pending' \subseteq 1..cids'
    BY <1>0, <2>2, <2>4
  <2>6. UNCHANGED <<started, counter, requests, opens, cleared>> /\ documented' \in BOOLEAN
    BY <1>6 DEF SendRequestCall
  <2> QED
    BY <1>0, <2>2, <2>3, <2>4, <2>5, <2>6 DEF SessionTypes, Open
<1>7. ASSUME NEW c, NEW status, NEW run, CollectRaises(c, status, run) PROVE SessionTypes'
  <2>1. c \in 1..cids
    BY <1>0, <1>7 DEF CollectRaises, CollectCall
  <2>2. Recorded(ops', cids')
    BY <1>0, <1>7, <2>1, RecordCollect DEF CollectRaises, Plan
  <2> QED
    BY <1>0, <1>7, <2>2 DEF SessionTypes, CollectRaises, Open
<1>8. ASSUME NEW c \in 1..MaxSends, Answered(c) PROVE SessionTypes'
  <2>1. CASE CollectRaises(c, "error", Execute(Plan(c)))
    BY <1>7, <2>1
  <2>2. CASE ~ CollectRaises(c, "error", Execute(Plan(c)))
    <3>1. /\ c \in DOMAIN pending /\ pending' = NoLongerPending(c)
          /\ requests' = [requests EXCEPT ![pending[c]].done = TRUE]
          /\ ops' = Reopened /\ cleared' = cleared + 1
          /\ UNCHANGED <<started, counter, cids, documented, opens>>
      BY <1>8, <2>2 DEF Answered
    <3>2. Recorded(ops', cids')
      BY <1>0, <3>1, ReopenedIs, RecordNothing
    <3> DEFINE n == pending[c]
               over == [requests[n] EXCEPT !.done = TRUE]
    <3>3. n \in DOMAIN requests /\ requests[n] \in RequestObjects
      BY <1>0, <3>1
    <3>4. over \in RequestObjects
      BY <3>3 DEF RequestObjects
    <3>5. requests' = [requests EXCEPT ![n] = over]
      BY <3>1
    <3> HIDE DEF over
    <3>6. requests' \in Seq(RequestObjects) /\ DOMAIN requests' = DOMAIN requests
      BY <1>0, <3>3, <3>4, <3>5
    <3>7. DOMAIN pending' \subseteq DOMAIN pending /\ \A d \in DOMAIN pending' : pending'[d] = pending[d]
      BY <3>1 DEF NoLongerPending
    <3> QED
      BY <1>0, <3>1, <3>2, <3>6, <3>7 DEF SessionTypes, Open
  <2> QED
    BY <2>1, <2>2
<1>9. ASSUME NEW c \in 1..MaxSends, NotReached(c) \/ LostAnswer(c) \/ Rejected(c) PROVE SessionTypes'
  BY <1>7, <1>9 DEF NotReached, LostAnswer, Rejected
<1>10. CASE UNCHANGED sessionVars
  BY <1>0, <1>10 DEF sessionVars, client, SessionTypes, Open
<1> QED
  BY <1>1, <1>2, <1>3, <1>4, <1>5, <1>6, <1>8, <1>9, <1>10 DEF SessionNext


(* The recording session's variables keep their types, and in every plan it *)
(* records a send stands before the collects of its cid and uses a cid that *)
(* was given out (Session._ops and _correlation_counter, proxy/session.py). *)
THEOREM SessionTypeCorrect == SessionSpec => []SessionTypes
<1>1. SessionInit => SessionTypes
  BY SessionTypesInit
<1>2. SessionTypes /\ [SessionNext]_sessionVars => SessionTypes'
  BY SessionTypesStep
<1> QED
  BY <1>1, <1>2, PTL DEF SessionSpec

(* Sends stand before the collects of their cid also in the plan of a      *)
(* collect, which the call adds at its end.                                *)
LEMMA PlanIsRecorded ==
  ASSUME SessionTypes, NEW c \in DOMAIN pending
  PROVE  Recorded(Plan(c), cids)
<1>1. c \in 1..cids /\ cids \in Nat /\ Recorded(ops, cids)
  BY DEF SessionTypes
<1> QED
  BY <1>1, RecordCollect DEF Plan

QueueStep ==
  \A c \in queues' \ queues :
    /\ CollectOp(c, Timeout) \in OpsOf(last'.plan, "collect_response")
    /\ c \notin {o.cid : o \in OpsOf(last'.plan, "send_request")}

LEMMA ServedLeaves ==
  ASSUME SessionTypes, NEW c \in DOMAIN pending, Served(c, Execute(Plan(c))),
         NEW status, last' = Outcome(c, status, Fresh) \/ last' = Outcome(c, status, Execute(Plan(c)))
  PROVE  QueueStep
<1>1. last'.plan = Plan(c)
  BY DEF Outcome
<1>2. queues' \ queues \subseteq LeftRegistered(Plan(c), Execute(Plan(c)))
  BY DEF Served
<1>3. Plan(c) \in Seq(AllOps) /\ SendsFirst(Plan(c))
  BY PlanIsRecorded DEF Recorded
<1> QED
  BY <1>1, <1>2, <1>3, LoneCollect DEF QueueStep

LEMMA QueuesStep ==
  ASSUME SessionTypes, [SessionNext]_sessionVars
  PROVE  QueueStep \/ UNCHANGED sessionVars
<1>1. CASE queues' = queues
  BY <1>1 DEF QueueStep
<1>2. ASSUME NEW c, LostAnswer(c) PROVE QueueStep
  BY <1>2, ServedLeaves DEF LostAnswer, CollectRaises, CollectCall
<1>3. ASSUME NEW c, Answered(c) PROVE QueueStep
  <2>1. Served(c, Execute(Plan(c))) /\ c \in DOMAIN pending
    BY <1>3 DEF Answered
  <2>2. \E status : last' = Outcome(c, status, Execute(Plan(c)))
    BY <1>3 DEF Answered, CollectRaises
  <2> QED
    BY <2>1, <2>2, ServedLeaves
<1>4. CASE SessionNext
  <2>1. CASE \E c \in 1..MaxSends : NotReached(c) \/ LostAnswer(c) \/ Rejected(c) \/ Answered(c)
    BY <1>1, <1>2, <1>3, <2>1 DEF NotReached, Rejected
  <2>2. CASE StartSession \/ StopSession
    BY <1>1, <2>2 DEF StartSession, StopSession
  <2>3. CASE \E s \in Services : OpenService(s) \/ \E t \in Types : CreateRequestCall(s, t)
    BY <1>1, <2>3 DEF OpenService, CreateRequestCall
  <2>4. CASE \E n \in 1..MaxRequests : SendRequestCall(n) \/ \E p \in Paths : Put(n, p)
    BY <1>1, <2>4 DEF SendRequestCall, Put
  <2> QED
    BY <1>4, <2>1, <2>2, <2>3, <2>4 DEF SessionNext
<1> QED
  BY <1>4

(* A queue that a served plan leaves registered in the session manager is   *)
(* one that the plan collects and never sends: the finally clause of        *)
(* execute_plan unregisters every cid a send registered.                    *)
THEOREM OnlyLoneCollectsLeaveQueues == SessionSpec => QueueLeftOnlyByLoneCollect
<1>1. SessionTypes /\ [SessionNext]_sessionVars => [QueueStep]_sessionVars
  BY QueuesStep
<1>2. SessionSpec => []SessionTypes
  BY SessionTypeCorrect
<1>3. SessionSpec => [][QueueStep]_sessionVars
  BY <1>1, <1>2, PTL DEF SessionSpec
<1> QED
  BY <1>3 DEF QueueStep, QueueLeftOnlyByLoneCollect


(* What a session's plan comes to.                                         *)
Ran == Execute(ops)

Longer(made, q) == [service |-> made.service, type |-> made.type, paths |-> made.paths \o q]

Filled(run, i, q) ==
  Built([run.requests EXCEPT ![i] = Longer(run.requests[i], q)],
        run.sent, run.queued, run.registered, run.got, run.error)

LEMMA FilledFields ==
  ASSUME NEW run, NEW i \in DOMAIN run.requests, NEW q
  PROVE  /\ Filled(run, i, q).requests[i] = Longer(run.requests[i], q)
         /\ DOMAIN Filled(run, i, q).requests = DOMAIN run.requests
         /\ \A j \in DOMAIN run.requests : j # i => Filled(run, i, q).requests[j] = run.requests[j]
         /\ Filled(run, i, q).sent = run.sent /\ Filled(run, i, q).queued = run.queued
         /\ Filled(run, i, q).registered = run.registered
         /\ Filled(run, i, q).got = run.got /\ Filled(run, i, q).error = run.error
         /\ Whole(Filled(run, i, q))
<1> DEFINE all == [run.requests EXCEPT ![i] = Longer(run.requests[i], q)]
<1>1. /\ all[i] = Longer(run.requests[i], q) /\ DOMAIN all = DOMAIN run.requests
      /\ \A j \in DOMAIN run.requests : j # i => all[j] = run.requests[j]
  OBVIOUS
<1>2. Filled(run, i, q) = Built(all, run.sent, run.queued, run.registered, run.got, run.error)
  BY DEF Filled
<1> HIDE DEF all
<1> QED
  BY <1>1, <1>2, BuiltFields

LEMMA PathsReplaced ==
  ASSUME NEW r, NEW s, NEW t, NEW q, r = [service |-> s, type |-> t, paths |-> q], NEW e
  PROVE  [r EXCEPT !.paths = e] = [service |-> s, type |-> t, paths |-> e]
  OBVIOUS

LEMMA PathsLonger ==
  ASSUME NEW r, NEW s, NEW t, NEW q, r = [service |-> s, type |-> t, paths |-> q], NEW p
  PROVE  [r EXCEPT !.paths = Append(@, p)] = [service |-> s, type |-> t, paths |-> Append(q, p)]
<1>1. r.paths = q
  OBVIOUS
<1> DEFINE e == Append(r.paths, p)
<1>2. [r EXCEPT !.paths = e] = [service |-> s, type |-> t, paths |-> e]
  <2> HIDE DEF e
  <2> QED
    BY PathsReplaced
<1> QED
  BY <1>1, <1>2

LEMMA MadeLonger ==
  ASSUME NEW r \in Made, NEW p \in Paths
  PROVE  [r EXCEPT !.paths = Append(@, p)] = Longer(r, <<p>>)
<1>1. PICK s \in Services, t \in Types, q \in Seq(Paths) : r = [service |-> s, type |-> t, paths |-> q]
  BY DEF Made
<1>2. [r EXCEPT !.paths = Append(@, p)] = [service |-> s, type |-> t, paths |-> Append(q, p)]
  BY <1>1, PathsLonger
<1>3. Longer(r, <<p>>) = [service |-> s, type |-> t, paths |-> q \o <<p>>]
  BY <1>1 DEF Longer
<1>4. Append(q, p) = q \o <<p>>
  BY <1>1, AppendIsConcat
<1> QED
  BY <1>2, <1>3, <1>4

LEMMA AppendToConcat ==
  ASSUME NEW s \in Seq(Paths), NEW q \in Seq(Paths), NEW p \in Paths
  PROVE  (s \o q) \o <<p>> = s \o Append(q, p)
<1>1. s \o q \in Seq(Paths) /\ <<p>> \in Seq(Paths)
  OBVIOUS
<1>2. Append(s \o q, p) = (s \o q) \o <<p>> /\ Append(q, p) = q \o <<p>>
  BY <1>1, AppendIsConcat
<1> QED
  BY <1>1, <1>2, ConcatAssociative

LEMMA FillMore ==
  ASSUME NEW run, RunOK(run), Unended(run), NEW i \in DOMAIN run.requests,
         NEW q \in Seq(Paths), NEW p \in Paths
  PROVE  RunOp(Filled(run, i, q), PutOp(i, p)) = Filled(run, i, Append(q, p))
<1> DEFINE part == Filled(run, i, q)
<1>1. /\ part.requests[i] = Longer(run.requests[i], q) /\ DOMAIN part.requests = DOMAIN run.requests
      /\ part.sent = run.sent /\ part.queued = run.queued /\ part.registered = run.registered
      /\ part.got = run.got /\ part.error = run.error /\ Whole(part) /\ Unended(part)
      /\ part.requests = [run.requests EXCEPT ![i] = Longer(run.requests[i], q)]
  BY FilledFields, BuiltFields DEF Unended, Filled
<1> HIDE DEF part
<1>2. RunOp(part, PutOp(i, p)) =
        Built([part.requests EXCEPT ![i] = [part.requests[i] EXCEPT !.paths = Append(@, p)]],
              part.sent, part.queued, part.registered, part.got, part.error)
  BY <1>1, RunPut
<1>3. [part.requests[i] EXCEPT !.paths = Append(@, p)] = Longer(run.requests[i], Append(q, p))
  <2>1. PICK s \in Services, t \in Types, d \in Seq(Paths) :
          run.requests[i] = [service |-> s, type |-> t, paths |-> d]
    BY DEF RunOK, Made
  <2>2. part.requests[i] = [service |-> s, type |-> t, paths |-> d \o q] /\ part.requests[i] \in Made
    BY <1>1, <2>1 DEF Longer, Made
  <2>3. [part.requests[i] EXCEPT !.paths = Append(@, p)] = Longer(part.requests[i], <<p>>)
    BY <2>2, MadeLonger
  <2>4. Longer(part.requests[i], <<p>>) = [service |-> s, type |-> t, paths |-> (d \o q) \o <<p>>]
    BY <2>2 DEF Longer
  <2>5. (d \o q) \o <<p>> = d \o Append(q, p)
    BY <2>1, AppendToConcat
  <2>6. Longer(run.requests[i], Append(q, p)) = [service |-> s, type |-> t, paths |-> d \o Append(q, p)]
    BY <2>1 DEF Longer
  <2>7. Longer(part.requests[i], <<p>>) = Longer(run.requests[i], Append(q, p))
    BY <2>4, <2>5, <2>6
  <2> QED
    BY <2>3, <2>7, Zenon
<1> DEFINE once == Longer(run.requests[i], q)  twice == Longer(run.requests[i], Append(q, p))
<1>4. [part.requests EXCEPT ![i] = twice] = [run.requests EXCEPT ![i] = twice]
  <2> HIDE DEF twice
  <2> QED
    BY <1>1
<1> QED
  BY <1>1, <1>2, <1>3, <1>4 DEF Filled, part

LEMMA FillNothing ==
  ASSUME NEW run, RunOK(run), NEW i \in DOMAIN run.requests
  PROVE  Filled(run, i, <<>>) = run
<1>1. PICK s \in Services, t \in Types, q \in Seq(Paths) :
        run.requests[i] = [service |-> s, type |-> t, paths |-> q]
  BY DEF RunOK, Made
<1>2. Longer(run.requests[i], <<>>) = run.requests[i]
  BY <1>1 DEF Longer
<1>3. [run.requests EXCEPT ![i] = run.requests[i]] = run.requests
  BY DEF RunOK
<1> QED
  BY <1>2, <1>3 DEF Filled, RunOK, Whole


LEMMA PutsThenOne ==
  ASSUME NEW plan \in Seq(AllOps), NEW puts \in Seq(AllOps), NEW o \in AllOps,
         NEW more, more = plan \o (puts \o <<o>>)
  PROVE  /\ more \in Seq(AllOps) /\ Len(more) = Len(plan) + Len(puts) + 1
         /\ SubSeq(more, 1, Len(plan)) = plan
         /\ \A n \in 1..Len(plan) : more[n] = plan[n]
         /\ \A k \in 1..Len(puts) : more[Len(plan) + k] = puts[k]
         /\ more[Len(plan) + Len(puts) + 1] = o
<1> DEFINE tail == puts \o <<o>>
<1>1. /\ tail \in Seq(AllOps) /\ Len(tail) = Len(puts) + 1
      /\ tail[Len(puts) + 1] = o /\ \A n \in 1..Len(puts) : tail[n] = puts[n]
  OBVIOUS
<1> HIDE DEF tail
<1>2. /\ more \in Seq(AllOps) /\ Len(more) = Len(plan) + Len(tail)
      /\ \A n \in 1..(Len(plan) + Len(tail)) :
           more[n] = IF n <= Len(plan) THEN plan[n] ELSE tail[n - Len(plan)]
  BY <1>1 DEF tail
<1>3. ASSUME NEW k \in 1..(Len(puts) + 1) PROVE more[Len(plan) + k] = tail[k]
  <2>1. /\ Len(plan) + k \in 1..(Len(plan) + Len(tail)) /\ ~ (Len(plan) + k <= Len(plan))
        /\ (Len(plan) + k) - Len(plan) = k
    BY <1>1
  <2> QED
    BY <1>2, <2>1
<1>4. \A n \in 1..Len(plan) : more[n] = plan[n]
  BY <1>1, <1>2
<1>5. SubSeq(more, 1, Len(plan)) = plan
  BY <1>1, <1>2, <1>4
<1>6. Len(puts) + 1 \in 1..(Len(puts) + 1) /\ Len(plan) + (Len(puts) + 1) = Len(plan) + Len(puts) + 1
  OBVIOUS
<1> QED
  BY <1>1, <1>2, <1>3, <1>4, <1>5, <1>6

SentRun(run, r, c) ==
  Built([run.requests EXCEPT ![r.id] = Longer(run.requests[r.id], r.paths)],
        Bind(run.sent, c, Longer(run.requests[r.id], r.paths)),
        run.queued \cup {c}, run.registered \cup {c}, run.got, run.error)

(* A run that has put the elements q into the request i.                   *)
PutRun(run, i, q) ==
  IF ~ Unended(run) THEN run
  ELSE IF i \in DOMAIN run.requests THEN Filled(run, i, q)
  ELSE IF q = <<>> THEN run ELSE Failed(run, "request not found")

LEMMA PutRunNext ==
  ASSUME NEW run, RunOK(run), NEW i \in Nat, NEW q \in Seq(Paths), NEW p \in Paths
  PROVE  RunOp(PutRun(run, i, q), PutOp(i, p)) = PutRun(run, i, Append(q, p))
<1>1. CASE ~ Unended(run)
  BY <1>1, RunEnded DEF PutRun
<1>2. CASE Unended(run) /\ i \in DOMAIN run.requests
  BY <1>2, FillMore DEF PutRun
<1>3. CASE Unended(run) /\ i \notin DOMAIN run.requests
  <2>1. Append(q, p) # <<>>
    <3>1. Len(Append(q, p)) = Len(q) + 1 /\ Len(q) \in Nat /\ Len(<<>>) = 0
      OBVIOUS
    <3> QED
      BY <3>1
  <2>2. Whole(run)
    BY DEF RunOK
  <2>3. PutRun(run, i, Append(q, p)) = Failed(run, "request not found")
    BY <1>3, <2>1 DEF PutRun
  <2>4. CASE q = <<>>
    <3>1. PutRun(run, i, q) = run
      BY <1>3, <2>4 DEF PutRun
    <3>2. RunOp(run, PutOp(i, p)) = Failed(run, "request not found")
      BY <1>3, <2>2, RunPut
    <3> QED
      BY <2>3, <3>1, <3>2
  <2>5. CASE q # <<>>
    <3>1. PutRun(run, i, q) = Failed(run, "request not found")
      BY <1>3, <2>5 DEF PutRun
    <3>2. ~ Unended(Failed(run, "request not found"))
      <4>1. Failed(run, "request not found").error = "request not found"
        BY <2>2, FailedHas
      <4> QED
        BY <4>1 DEF Unended
    <3> QED
      BY <2>3, <3>1, <3>2, RunEnded
  <2> QED
    BY <2>4, <2>5
<1> QED
  BY <1>1, <1>2, <1>3

LEMMA PutsEffect ==
  ASSUME NEW more \in Seq(AllOps), NEW m \in Nat, NEW q \in Seq(Paths), NEW i \in Nat,
         m + Len(q) <= Len(more), \A k \in 1..Len(q) : more[m + k] = PutOp(i, q[k]),
         NEW run, run = After(more, m), RunOK(run)
  PROVE  After(more, m + Len(q)) = PutRun(run, i, q)
<1> DEFINE Fine == {k \in Nat : k <= Len(q) => After(more, m + k) = PutRun(run, i, SubSeq(q, 1, k))}
<1>1. 0 \in Fine
  <2>1. SubSeq(q, 1, 0) = <<>> /\ m + 0 = m
    OBVIOUS
  <2>2. PutRun(run, i, <<>>) = run
    BY FillNothing DEF PutRun
  <2> QED
    BY <2>1, <2>2
<1>2. ASSUME NEW k \in Nat, k \in Fine PROVE k + 1 \in Fine
  <2> SUFFICES ASSUME k + 1 <= Len(q) PROVE After(more, m + (k + 1)) = PutRun(run, i, SubSeq(q, 1, k + 1))
    OBVIOUS
  <2>1. /\ k <= Len(q) /\ k + 1 \in 1..Len(q) /\ m + k \in Nat /\ m + k < Len(more)
        /\ (m + k) + 1 = m + (k + 1)
    OBVIOUS
  <2>2. After(more, m + k) = PutRun(run, i, SubSeq(q, 1, k))
    BY <1>2, <2>1
  <2>3. /\ q[k + 1] \in Paths /\ SubSeq(q, 1, k) \in Seq(Paths)
        /\ SubSeq(q, 1, k + 1) = Append(SubSeq(q, 1, k), q[k + 1])
    BY <2>1
  <2> HIDE DEF Fine
  <2>4. After(more, (m + k) + 1) = RunOp(After(more, m + k), more[(m + k) + 1])
    BY <2>1, AfterNext
  <2>5. more[(m + k) + 1] = PutOp(i, q[k + 1])
    BY <2>1
  <2> DEFINE s == SubSeq(q, 1, k)  p == q[k + 1]
  <2>6. RunOp(PutRun(run, i, s), PutOp(i, p)) = PutRun(run, i, Append(s, p))
    <3> HIDE DEF s, p
    <3>1. s \in Seq(Paths) /\ p \in Paths
      BY <2>3 DEF s, p
    <3> QED
      BY <3>1, PutRunNext
  <2>7. After(more, m + (k + 1)) = RunOp(PutRun(run, i, s), PutOp(i, p))
    BY <2>1, <2>2, <2>4, <2>5
  <2> QED
    BY <2>3, <2>6, <2>7
<1> HIDE DEF Fine
<1>3. Len(q) \in Nat
  OBVIOUS
<1>4. Len(q) \in Fine
  BY <1>1, <1>2, <1>3, Folds!NatSetInduction
<1>5. SubSeq(q, 1, Len(q)) = q
  OBVIOUS
<1>6. Len(q) <= Len(q) => After(more, m + Len(q)) = PutRun(run, i, SubSeq(q, 1, Len(q)))
  BY <1>4 DEF Fine
<1>7. Len(q) <= Len(q)
  BY <1>3
<1> QED
  BY <1>5, <1>6, <1>7, Zenon

LEMMA SentEffect ==
  ASSUME NEW run, RunOK(run), NEW r, NEW c
  PROVE  RunOp(PutRun(run, r.id, r.paths), SendOp(r.id, c)) =
           IF ~ Unended(run) THEN run
           ELSE IF r.id \in DOMAIN run.requests THEN SentRun(run, r, c)
           ELSE Failed(run, "request not found")
<1> DEFINE i == r.id  full == PutRun(run, i, r.paths)
<1>0. Whole(run)
  BY DEF RunOK
<1>1. CASE ~ Unended(run)
  BY <1>1, RunEnded DEF PutRun
<1>2. CASE Unended(run) /\ i \in DOMAIN run.requests
  <2>1. full = Filled(run, i, r.paths)
    BY <1>2 DEF PutRun
  <2>2. /\ full.requests = [run.requests EXCEPT ![i] = Longer(run.requests[i], r.paths)]
        /\ full.requests[i] = Longer(run.requests[i], r.paths) /\ i \in DOMAIN full.requests
        /\ full.sent = run.sent /\ full.queued = run.queued /\ full.registered = run.registered
        /\ full.got = run.got /\ full.error = run.error /\ Whole(full)
    <3> HIDE DEF i
    <3> QED
      BY <1>2, <2>1, FilledFields, BuiltFields DEF Filled
  <2> HIDE DEF full
  <2>3. Unended(full)
    BY <1>2, <2>2 DEF Unended
  <2>4. RunOp(full, SendOp(i, c)) =
          Built(full.requests, Bind(full.sent, c, full.requests[i]), full.queued \cup {c},
                full.registered \cup {c}, full.got, full.error)
    BY <2>2, <2>3, RunSend
  <2> QED
    BY <1>2, <2>2, <2>4 DEF SentRun, full
<1>3. CASE Unended(run) /\ ~ (i \in DOMAIN run.requests)
  <2>1. ~ Unended(Failed(run, "request not found"))
    <3>1. Failed(run, "request not found").error = "request not found"
      BY <1>0, FailedHas
    <3> QED
      BY <3>1 DEF Unended
  <2>2. RunOp(run, SendOp(i, c)) = Failed(run, "request not found")
    BY <1>0, <1>3, RunSend
  <2>3. full = run \/ full = Failed(run, "request not found")
    BY <1>3 DEF PutRun
  <2>4. RunOp(full, SendOp(i, c)) = Failed(run, "request not found")
    BY <2>1, <2>2, <2>3, RunEnded
  <2> QED
    BY <1>3, <2>4
<1> QED
  BY <1>1, <1>2, <1>3

LEMMA SendEffect ==
  ASSUME NEW plan \in Seq(AllOps), NEW r \in RequestObjects, NEW c \in Nat
  PROVE  Execute(plan \o (PutsOf(r) \o <<SendOp(r.id, c)>>)) =
           IF ~ Unended(Execute(plan)) THEN Execute(plan)
           ELSE IF r.id \in DOMAIN Execute(plan).requests THEN SentRun(Execute(plan), r, c)
           ELSE Failed(Execute(plan), "request not found")
<1>1. r.id \in Nat /\ r.paths \in Seq(Paths)
  BY DEF RequestObjects
<1>2. PutsOf(r) \in Seq(AllOps) /\ Len(PutsOf(r)) = Len(r.paths) /\ SendOp(r.id, c) \in AllOps
  BY <1>1, PutsAreOps, AllOpsHas
<1>3. PICK more, m, q, i, run, puts, o :
        /\ puts = PutsOf(r) /\ o = SendOp(r.id, c) /\ more = plan \o (puts \o <<o>>)
        /\ m = Len(plan) /\ q = r.paths /\ i = r.id /\ run = Execute(plan)
  OBVIOUS
<1>a. puts \in Seq(AllOps) /\ Len(puts) = Len(q) /\ o \in AllOps
  BY <1>2, <1>3
<1>4. /\ more \in Seq(AllOps) /\ Len(more) = Len(plan) + Len(puts) + 1
      /\ SubSeq(more, 1, Len(plan)) = plan
      /\ \A k \in 1..Len(puts) : more[Len(plan) + k] = puts[k]
      /\ more[Len(plan) + Len(puts) + 1] = o
  <2>1. more = plan \o (puts \o <<o>>)
    BY <1>3
  <2> QED
    BY <1>a, <2>1, PutsThenOne
<1>5. \A k \in 1..Len(q) : more[m + k] = PutOp(i, q[k])
  <2>1. \A k \in 1..Len(q) : puts[k] = PutOp(i, q[k])
    BY <1>1, <1>3 DEF PutsOf
  <2> QED
    BY <1>3, <1>4, <1>a, <2>1
<1>6. RunOK(run) /\ run = After(more, m)
  BY <1>3, <1>4, ExecuteIsRun DEF After
<1>7. /\ q \in Seq(Paths) /\ i \in Nat /\ m \in Nat /\ m + Len(q) <= Len(more) /\ m + Len(q) \in Nat
      /\ m + Len(q) < Len(more) /\ (m + Len(q)) + 1 = Len(more) /\ more[(m + Len(q)) + 1] = SendOp(i, c)
  BY <1>1, <1>3, <1>4, <1>a
<1>8. After(more, m + Len(q)) = PutRun(run, i, q)
  <2>1. more \in Seq(AllOps) /\ q \in Seq(Paths) /\ i \in Nat /\ m \in Nat /\ m + Len(q) <= Len(more)
    BY <1>4, <1>7
  <2>2. RunOK(After(more, m)) /\ run = After(more, m)
    BY <1>6
  <2>3. After(more, m + Len(q)) = PutRun(After(more, m), i, q)
    BY <1>5, <2>1, <2>2, PutsEffect
  <2> QED
    BY <2>2, <2>3
<1>9. Execute(more) = RunOp(PutRun(run, i, q), SendOp(i, c))
  <2>1. After(more, (m + Len(q)) + 1) = RunOp(After(more, m + Len(q)), more[(m + Len(q)) + 1])
    BY <1>4, <1>7, AfterNext
  <2>2. After(more, Len(more)) = Execute(more)
    BY <1>4, AfterAll
  <2> QED
    BY <1>7, <1>8, <2>1, <2>2
<1>10. RunOp(PutRun(run, i, q), SendOp(i, c)) =
         IF ~ Unended(run) THEN run
         ELSE IF i \in DOMAIN run.requests THEN SentRun(run, r, c)
         ELSE Failed(run, "request not found")
  BY <1>3, <1>6, SentEffect
<1> QED
  BY <1>3, <1>9, <1>10


(* While one service was opened once, the ids of the requests tell them    *)
(* apart, and the run holds of every id only what its request was given.   *)
OneName ==
  /\ opens = 0 => requests = <<>> /\ Open = {}
  /\ \A s, t \in Open : s = t
  /\ \A s \in Open, n \in DOMAIN requests : requests[n].id <= counter[s]
  /\ \A m, n \in DOMAIN requests : requests[m].id = requests[n].id => m = n

Stems(made, object) == made.type = object.type /\ ToSet(made.paths) \subseteq ToSet(object.paths)

Fits(run, objects, waiting) ==
  /\ \A i \in DOMAIN run.requests :
       \E n \in DOMAIN objects : objects[n].id = i /\ Stems(run.requests[i], objects[n])
  /\ \A c \in run.queued \cap DOMAIN waiting : Stems(run.sent[c], objects[waiting[c]])

NamesInv ==
  /\ Ran.queued \subseteq 1..cids
  /\ opens <= 1 => OneName /\ Fits(Ran, requests, pending)

Extends(more, objects) ==
  /\ DOMAIN objects \subseteq DOMAIN more
  /\ \A n \in DOMAIN objects : /\ more[n].id = objects[n].id /\ more[n].type = objects[n].type
                               /\ ToSet(objects[n].paths) \subseteq ToSet(more[n].paths)

LEMMA FitsStill ==
  ASSUME NEW run, NEW objects, NEW waiting, Fits(run, objects, waiting),
         \A c \in DOMAIN waiting : waiting[c] \in DOMAIN objects,
         NEW next, next.requests = run.requests, next.sent = run.sent, next.queued \subseteq run.queued,
         NEW more, Extends(more, objects),
         NEW fewer, DOMAIN fewer \subseteq DOMAIN waiting, \A c \in DOMAIN fewer : fewer[c] = waiting[c]
  PROVE  Fits(next, more, fewer)
<1>1. ASSUME NEW i \in DOMAIN next.requests
      PROVE  \E n \in DOMAIN more : more[n].id = i /\ Stems(next.requests[i], more[n])
  <2>1. PICK n \in DOMAIN objects : objects[n].id = i /\ Stems(run.requests[i], objects[n])
    BY <1>1 DEF Fits
  <2> QED
    BY <2>1 DEF Extends, Stems
<1>2. ASSUME NEW c \in next.queued \cap DOMAIN fewer
      PROVE  Stems(next.sent[c], more[fewer[c]])
  <2>1. Stems(run.sent[c], objects[waiting[c]]) /\ fewer[c] = waiting[c] /\ waiting[c] \in DOMAIN objects
    BY <1>2 DEF Fits
  <2> QED
    BY <2>1 DEF Extends, Stems
<1> QED
  BY <1>1, <1>2 DEF Fits

LEMMA ExtendsItself == \A objects : Extends(objects, objects)
  BY DEF Extends

LEMMA FitsNothing ==
  ASSUME NEW objects, NEW waiting
  PROVE  Fits(Fresh, objects, waiting)
<1>1. DOMAIN Fresh.requests = {} /\ Fresh.queued = {}
  BY DEF Fresh
<1> QED
  BY <1>1 DEF Fits

LEMMA FitsCreated ==
  ASSUME NEW run, NEW objects \in Seq(RequestObjects), NEW waiting, Fits(run, objects, waiting),
         \A c \in DOMAIN waiting : waiting[c] \in DOMAIN objects,
         NEW new \in RequestObjects, new.paths = <<>>, NEW s,
         NEW next, next.requests = Bind(run.requests, new.id, [service |-> s, type |-> new.type, paths |-> <<>>]),
         next.sent = run.sent, next.queued = run.queued
  PROVE  Fits(next, Append(objects, new), waiting)
<1> DEFINE more == Append(objects, new)  last0 == Len(objects) + 1
<1>1. /\ DOMAIN objects \subseteq DOMAIN more /\ last0 \in DOMAIN more /\ more[last0] = new
      /\ \A n \in DOMAIN objects : more[n] = objects[n]
  OBVIOUS
<1> HIDE DEF more, last0
<1>2. Extends(more, objects)
  BY <1>1 DEF Extends
<1>3. ASSUME NEW i \in DOMAIN next.requests
      PROVE  \E n \in DOMAIN more : more[n].id = i /\ Stems(next.requests[i], more[n])
  <2>1. CASE i = new.id
    <3>1. next.requests[i] = [service |-> s, type |-> new.type, paths |-> <<>>]
      BY <2>1 DEF Bind
    <3>2. Stems(next.requests[i], new)
      BY <3>1 DEF Stems
    <3> QED
      BY <1>1, <2>1, <3>2
  <2>2. CASE i # new.id
    <3>1. i \in DOMAIN run.requests /\ next.requests[i] = run.requests[i]
      BY <1>3, <2>2 DEF Bind
    <3>2. PICK n \in DOMAIN objects : objects[n].id = i /\ Stems(run.requests[i], objects[n])
      BY <3>1 DEF Fits
    <3> QED
      BY <1>1, <3>1, <3>2
  <2> QED
    BY <2>1, <2>2
<1>4. ASSUME NEW c \in next.queued \cap DOMAIN waiting
      PROVE  Stems(next.sent[c], more[waiting[c]])
  BY <1>1, <1>4 DEF Fits
<1> QED
  BY <1>3, <1>4 DEF Fits, more

LEMMA SentRunFields ==
  ASSUME NEW run, RunOK(run), NEW r, r.id \in DOMAIN run.requests, NEW c
  PROVE  LET full == Longer(run.requests[r.id], r.paths)
         IN  /\ DOMAIN SentRun(run, r, c).requests = DOMAIN run.requests
             /\ SentRun(run, r, c).requests[r.id] = full
             /\ \A i \in DOMAIN run.requests : i # r.id => SentRun(run, r, c).requests[i] = run.requests[i]
             /\ SentRun(run, r, c).sent[c] = full
             /\ \A d \in DOMAIN run.sent : d # c => SentRun(run, r, c).sent[d] = run.sent[d]
             /\ SentRun(run, r, c).queued = run.queued \cup {c}
             /\ SentRun(run, r, c).got = run.got /\ SentRun(run, r, c).error = run.error
<1> DEFINE full == Longer(run.requests[r.id], r.paths)
           all  == [run.requests EXCEPT ![r.id] = full]
           out  == Bind(run.sent, c, full)
<1>1. /\ SentRun(run, r, c).requests = all /\ SentRun(run, r, c).sent = out
      /\ SentRun(run, r, c).queued = run.queued \cup {c}
      /\ SentRun(run, r, c).got = run.got /\ SentRun(run, r, c).error = run.error
  <2>1. SentRun(run, r, c) = Built(all, out, run.queued \cup {c}, run.registered \cup {c}, run.got, run.error)
    BY DEF SentRun
  <2> HIDE DEF all, out
  <2> QED
    BY <2>1, BuiltFields
<1> HIDE DEF full
<1>2. /\ DOMAIN all = DOMAIN run.requests /\ all[r.id] = full
      /\ \A i \in DOMAIN run.requests : i # r.id => all[i] = run.requests[i]
  OBVIOUS
<1>3. out[c] = full /\ \A d \in DOMAIN run.sent : d # c => out[d] = run.sent[d]
  BY DEF Bind
<1> HIDE DEF all, out
<1> QED
  BY <1>1, <1>2, <1>3 DEF full


LEMMA ToSetConcat ==
  ASSUME NEW q \in Seq(Paths), NEW r \in Seq(Paths)
  PROVE  ToSet(q \o r) = ToSet(q) \cup ToSet(r)
<1>1. DOMAIN (q \o r) = 1..(Len(q) + Len(r)) /\ DOMAIN q = 1..Len(q) /\ DOMAIN r = 1..Len(r)
  OBVIOUS
<1>2. ASSUME NEW k \in DOMAIN q PROVE k \in DOMAIN (q \o r) /\ (q \o r)[k] = q[k]
  OBVIOUS
<1>3. ASSUME NEW k \in DOMAIN r
      PROVE  Len(q) + k \in DOMAIN (q \o r) /\ (q \o r)[Len(q) + k] = r[k]
  OBVIOUS
<1>4. ASSUME NEW k \in DOMAIN (q \o r), k \notin DOMAIN q
      PROVE  k - Len(q) \in DOMAIN r /\ Len(q) + (k - Len(q)) = k
  <2>1. k \in 1..(Len(q) + Len(r)) /\ Len(q) \in Nat /\ Len(r) \in Nat /\ k \notin 1..Len(q)
    BY <1>1, <1>4
  <2> QED
    BY <1>1, <2>1
<1> DEFINE both == q \o r
<1> HIDE DEF both
<1>5. /\ \A k \in DOMAIN q : k \in DOMAIN both /\ both[k] = q[k]
      /\ \A k \in DOMAIN r : Len(q) + k \in DOMAIN both /\ both[Len(q) + k] = r[k]
      /\ \A k \in DOMAIN both : k \in DOMAIN q \/ (k - Len(q) \in DOMAIN r /\ both[k] = r[k - Len(q)])
  BY <1>2, <1>3, <1>4 DEF both
<1>6. ToSet(both) \subseteq ToSet(q) \cup ToSet(r)
  BY <1>5 DEF ToSet
<1>7. ToSet(q) \subseteq ToSet(both) /\ ToSet(r) \subseteq ToSet(both)
  BY <1>5 DEF ToSet
<1> QED
  BY <1>6, <1>7 DEF both

LEMMA StemsLonger ==
  ASSUME NEW made \in Made, NEW object \in RequestObjects, Stems(made, object)
  PROVE  Stems(Longer(made, object.paths), object)
<1>1. /\ Longer(made, object.paths).type = made.type
      /\ Longer(made, object.paths).paths = made.paths \o object.paths
  BY DEF Longer
<1>2. made.paths \in Seq(Paths) /\ object.paths \in Seq(Paths)
  BY DEF Made, RequestObjects
<1>3. ToSet(made.paths \o object.paths) \subseteq ToSet(made.paths) \cup ToSet(object.paths)
  BY <1>2, ToSetConcat
<1> QED
  BY <1>1, <1>3 DEF Stems

LEMMA FitsSent ==
  ASSUME NEW run, RunOK(run), NEW objects \in Seq(RequestObjects), NEW waiting, Fits(run, objects, waiting),
         \A d \in DOMAIN waiting : waiting[d] \in DOMAIN objects,
         \A m, n \in DOMAIN objects : objects[m].id = objects[n].id => m = n,
         NEW n \in DOMAIN objects, NEW c, c \notin run.queued, c \notin DOMAIN waiting,
         objects[n].id \in DOMAIN run.requests
  PROVE  Fits(SentRun(run, objects[n], c), objects, Bind(waiting, c, n))
<1> DEFINE r == objects[n]  next == SentRun(run, r, c)  more == Bind(waiting, c, n)
           full == Longer(run.requests[r.id], r.paths)
<1>1. /\ DOMAIN next.requests = DOMAIN run.requests /\ next.requests[r.id] = full
      /\ \A i \in DOMAIN run.requests : i # r.id => next.requests[i] = run.requests[i]
      /\ next.sent[c] = full /\ \A d \in DOMAIN run.sent : d # c => next.sent[d] = run.sent[d]
  BY SentRunFields
<1>1a. next.queued = run.queued \cup {c}
  BY SentRunFields
<1>2. /\ DOMAIN more = DOMAIN waiting \cup {c} /\ more[c] = n
      /\ \A d \in DOMAIN waiting : more[d] = waiting[d]
  BY DEF Bind
<1>3. Stems(full, r)
  <2>1. run.requests[r.id] \in Made /\ r \in RequestObjects
    BY DEF RunOK
  <2>2. PICK m \in DOMAIN objects : objects[m].id = r.id /\ Stems(run.requests[r.id], objects[m])
    BY DEF Fits
  <2>3. m = n
    BY <2>2
  <2> QED
    BY <2>1, <2>2, <2>3, StemsLonger
<1> HIDE DEF next, more, full
<1>4. ASSUME NEW i \in DOMAIN next.requests
      PROVE  \E m \in DOMAIN objects : objects[m].id = i /\ Stems(next.requests[i], objects[m])
  BY <1>1, <1>3, <1>4 DEF Fits
<1>5. ASSUME NEW d \in next.queued \cap DOMAIN more
      PROVE  Stems(next.sent[d], objects[more[d]])
  <2>1. CASE d = c
    BY <1>1, <1>2, <1>3, <2>1
  <2>2. CASE d # c
    <3>1. d \in run.queued /\ d \in DOMAIN waiting /\ d \in DOMAIN run.sent
      BY <1>1a, <1>2, <1>5, <2>2 DEF RunOK
    <3> QED
      BY <1>1, <1>2, <2>2, <3>1 DEF Fits
  <2> QED
    BY <2>1, <2>2
<1> QED
  BY <1>4, <1>5 DEF Fits, next, more

(* What the actions make of the run.                                       *)
LEMMA RanAppended ==
  ASSUME SessionTypes, NEW o \in AllOps, ops' = Append(ops, o)
  PROVE  Ran' = RunOp(Ran, o)
  BY ExecuteOneMore DEF Ran, SessionTypes, Recorded

LEMMA RanSent ==
  ASSUME SessionTypes, NEW n \in DOMAIN requests, NEW c \in Nat, ops' = ops \o Sent(n, c)
  PROVE  Ran' = IF ~ Unended(Ran) THEN Ran
                ELSE IF requests[n].id \in DOMAIN Ran.requests THEN SentRun(Ran, requests[n], c)
                ELSE Failed(Ran, "request not found")
<1>1. requests[n] \in RequestObjects /\ ops \in Seq(AllOps)
  BY DEF SessionTypes, Recorded
<1> QED
  BY <1>1, SentIs, SendEffect DEF Ran

LEMMA RanCollected ==
  ASSUME SessionTypes, NEW c \in DOMAIN pending
  PROVE  /\ Execute(Plan(c)) = RunOp(Ran, CollectOp(c, Timeout))
         /\ Execute(Plan(c)).requests = Ran.requests /\ Execute(Plan(c)).sent = Ran.sent
         /\ Execute(Plan(c)).queued \subseteq Ran.queued
         /\ Unended(Execute(Plan(c))) =>
              /\ Unended(Ran) /\ c \in Ran.queued
              /\ Execute(Plan(c)).got = Append(Ran.got, [cid |-> c, request |-> Ran.sent[c]])
         /\ Unended(Ran) /\ c \in Ran.queued => Unended(Execute(Plan(c)))
<1>1. ops \in Seq(AllOps) /\ CollectOp(c, Timeout) \in AllOps
  BY AllOpsHas DEF SessionTypes, Recorded
<1>2. Execute(Plan(c)) = RunOp(Ran, CollectOp(c, Timeout)) /\ RunOK(Ran)
  BY <1>1, ExecuteOneMore, ExecuteIsRun DEF Plan, Ran
<1> DEFINE next == RunOp(Ran, CollectOp(c, Timeout))
<1>3. Whole(Ran)
  BY <1>2 DEF RunOK
<1>4. CASE ~ Unended(Ran)
  BY <1>2, <1>4, RunEnded
<1>5. CASE Unended(Ran) /\ c \in Ran.queued
  <2> DEFINE results == Append(Ran.got, [cid |-> c, request |-> Ran.sent[c]])
  <2>1. next = Built(Ran.requests, Ran.sent, Ran.queued \ {c}, Ran.registered, results, Ran.error)
    BY <1>3, <1>5, RunCollect
  <2> HIDE DEF next, results
  <2>2. /\ next.requests = Ran.requests /\ next.sent = Ran.sent /\ next.queued = Ran.queued \ {c}
        /\ next.got = results /\ next.error = Ran.error
    BY <2>1, BuiltFields
  <2> QED
    BY <1>2, <1>5, <2>2 DEF next, results, Unended
<1>6. CASE Unended(Ran) /\ ~ (c \in Ran.queued)
  <2>1. next = Failed(Ran, "timeout")
    BY <1>3, <1>6, RunCollect
  <2>2. Failed(Ran, "timeout") = Built(Ran.requests, Ran.sent, Ran.queued, Ran.registered, Ran.got, "timeout")
    BY <1>3, RunFails
  <2> HIDE DEF next
  <2>3. /\ next.requests = Ran.requests /\ next.sent = Ran.sent /\ next.queued = Ran.queued
        /\ next.error = "timeout"
    BY <2>1, <2>2, BuiltFields
  <2> QED
    BY <1>2, <1>6, <2>3 DEF next, Unended
<1> QED
  BY <1>4, <1>5, <1>6


LEMMA ReopenedIsFresh ==
  ASSUME IsFiniteSet(Open)
  PROVE  Execute(Reopened) = Fresh
<1>1. /\ Reopened \in Seq(AllOps)
      /\ \A n \in DOMAIN Reopened : Reopened[n] = StartOp \/ \E s \in Open : Reopened[n] = OpenOp(s)
  BY ReopenedIs
<1> DEFINE Fine == {n \in Nat : n <= Len(Reopened) => After(Reopened, n) = Fresh}
<1>2. 0 \in Fine
  BY <1>1, AfterAll
<1>3. ASSUME NEW n \in Nat, n \in Fine PROVE n + 1 \in Fine
  <2> SUFFICES ASSUME n + 1 <= Len(Reopened) PROVE After(Reopened, n + 1) = Fresh
    OBVIOUS
  <2>1. n < Len(Reopened) /\ n + 1 \in DOMAIN Reopened /\ After(Reopened, n) = Fresh
    BY <1>1, <1>3
  <2>2. After(Reopened, n + 1) = RunOp(After(Reopened, n), Reopened[n + 1])
    BY <1>1, <2>1, AfterNext
  <2> QED
    BY <1>1, <2>1, <2>2, RunStartOpen
<1>4. Len(Reopened) \in Nat
  BY <1>1
<1> HIDE DEF Fine
<1>5. Len(Reopened) \in Fine
  BY <1>2, <1>3, <1>4, Folds!NatSetInduction
<1>6. Len(Reopened) <= Len(Reopened) => After(Reopened, Len(Reopened)) = Fresh
  BY <1>5 DEF Fine
<1> QED
  BY <1>1, <1>4, <1>6, AfterAll

LEMMA PutExtends ==
  ASSUME NEW objects \in Seq(RequestObjects), NEW n \in DOMAIN objects, NEW p \in Paths,
         NEW more, more = [objects EXCEPT ![n].paths = Append(@, p)]
  PROVE  DOMAIN more = DOMAIN objects /\ Extends(more, objects)
<1>1. objects[n] \in RequestObjects
  OBVIOUS
<1> DEFINE r == objects[n]  new == [r EXCEPT !.paths = Append(@, p)]
<1>2. new.id = r.id /\ new.type = r.type /\ new.paths = Append(r.paths, p) /\ r.paths \in Seq(Paths)
  BY <1>1 DEF RequestObjects
<1>3. ToSet(r.paths) \subseteq ToSet(new.paths)
  <2>1. \A k \in DOMAIN r.paths : k \in DOMAIN new.paths /\ new.paths[k] = r.paths[k]
    BY <1>2
  <2> QED
    BY <2>1 DEF ToSet
<1>4. more = [objects EXCEPT ![n] = new]
  OBVIOUS
<1> HIDE DEF new
<1>5. /\ DOMAIN more = DOMAIN objects /\ more[n] = new
      /\ \A m \in DOMAIN objects : m # n => more[m] = objects[m]
  BY <1>4
<1> QED
  BY <1>2, <1>3, <1>5 DEF Extends

Finished(objects, n) == [objects EXCEPT ![n].done = TRUE]

LEMMA DoneKeeps ==
  ASSUME NEW objects \in Seq(RequestObjects), NEW n \in DOMAIN objects,
         NEW more, more = Finished(objects, n)
  PROVE  /\ DOMAIN more = DOMAIN objects /\ more[n].done # FALSE
         /\ \A m \in DOMAIN objects : m # n => more[m] = objects[m]
         /\ \A m \in DOMAIN objects : more[m].id = objects[m].id /\ more[m].paths = objects[m].paths
<1>1. objects[n] \in RequestObjects
  OBVIOUS
<1> DEFINE r == objects[n]  new == [r EXCEPT !.done = TRUE]
<1>2. new.id = r.id /\ new.done = TRUE /\ new.paths = r.paths
  BY <1>1 DEF RequestObjects
<1>3. more = [objects EXCEPT ![n] = new]
  BY DEF Finished
<1> HIDE DEF new
<1>4. /\ DOMAIN more = DOMAIN objects /\ more[n] = new
      /\ \A m \in DOMAIN objects : m # n => more[m] = objects[m]
  BY <1>3
<1> QED
  BY <1>2, <1>4

LEMMA NamesCreate ==
  ASSUME SessionTypes, NamesInv, NEW s \in Services, NEW t \in Types, CreateRequestCall(s, t),
         Ran'.queued = Ran.queued,
         Fits(Ran, requests, pending) => Fits(Ran, requests, pending)'
  PROVE  NamesInv'
<1> DEFINE id == NextId(s)
           new == [service |-> s, type |-> t, id |-> id, paths |-> <<>>, done |-> FALSE, epoch |-> cleared]
<1>1. /\ requests' = Append(requests, new) /\ new.id = id
      /\ requests \in Seq(RequestObjects) /\ UNCHANGED <<pending, cids, opens>>
      /\ counter \in [Services -> {-1} \cup Nat] /\ counter' = [counter EXCEPT ![s] = id]
      /\ s \in Open /\ id = counter[s] + 1 /\ counter[s] \in Nat
  BY DEF CreateRequestCall, SessionTypes, NextId, Open
<1>1a. SessionTypes /\ id \in Nat
  BY <1>1
<1>2. Open' = Open \cup {s} /\ id \in Nat
  <2> HIDE DEF id
  <2> QED
    BY <1>1, <1>1a, OpenAfter
<1> HIDE DEF new, id
<1> DEFINE last0 == Len(requests) + 1
<1>3. /\ DOMAIN requests' = DOMAIN requests \cup {last0} /\ requests'[last0] = new
      /\ \A n \in DOMAIN requests : requests'[n] = requests[n]
      /\ last0 \notin DOMAIN requests
  BY <1>1
<1> HIDE DEF last0
<1>4. ASSUME OneName PROVE OneName'
  <2>1. Open' = {s} /\ counter'[s] = id
    BY <1>1, <1>2, <1>4 DEF OneName
  <2>2. \A n \in DOMAIN requests : requests[n].id <= counter[s] /\ requests[n].id \in Nat
    <3>1. \A n \in DOMAIN requests : requests[n] \in RequestObjects
      BY <1>1
    <3> QED
      BY <1>1, <1>4, <3>1 DEF OneName, RequestObjects
  <2>3. opens # 0
    BY <1>1, <1>4 DEF OneName
  <2>4. \A n \in DOMAIN requests' : requests'[n].id <= id
    BY <1>1, <1>3, <2>2
  <2>5. \A m, n \in DOMAIN requests' : requests'[m].id = requests'[n].id => m = n
    BY <1>1, <1>3, <1>4, <2>2 DEF OneName
  <2> QED
    BY <1>1, <2>1, <2>3, <2>4, <2>5 DEF OneName
<1> QED
  BY <1>1, <1>4 DEF NamesInv

LEMMA NamesInit == SessionInit => NamesInv
<1> SUFFICES ASSUME SessionInit PROVE NamesInv
  OBVIOUS
<1>1. Ran = Fresh
  BY ExecuteNothing DEF SessionInit, Ran
<1>2. Fresh.queued = {}
  BY DEF Fresh
<1>3. Open = {} /\ requests = <<>> /\ DOMAIN requests = {}
  BY DEF SessionInit, Open
<1> QED
  BY <1>1, <1>2, <1>3, FitsNothing DEF NamesInv, OneName

LEMMA NamesCollect ==
  ASSUME SessionTypes, NamesInv, NEW c \in DOMAIN pending, ops' = Plan(c),
         UNCHANGED <<counter, requests, pending, cids, opens>>
  PROVE  NamesInv'
<1>1. Ran' = Execute(Plan(c))
  BY DEF Ran
<1>2. Ran'.requests = Ran.requests /\ Ran'.sent = Ran.sent /\ Ran'.queued \subseteq Ran.queued
  BY <1>1, RanCollected
<1>3. Fits(Ran, requests, pending) => Fits(Ran', requests, pending)
  BY <1>2, FitsStill, ExtendsItself DEF SessionTypes
<1>4. OneName => OneName'
  BY DEF OneName, Open
<1>5. Fits(Ran', requests, pending) => Fits(Ran, requests, pending)'
  OBVIOUS
<1> QED
  BY <1>2, <1>3, <1>4, <1>5 DEF NamesInv

LEMMA NamesStep == SessionTypes /\ NamesInv /\ [SessionNext]_sessionVars => NamesInv'
<1> SUFFICES ASSUME SessionTypes, NamesInv, [SessionNext]_sessionVars PROVE NamesInv'
  OBVIOUS
<1>0. /\ ops \in Seq(AllOps) /\ cids \in Nat /\ opens \in Nat /\ cleared \in Nat
      /\ requests \in Seq(RequestObjects)
      /\ DOMAIN pending \subseteq 1..cids /\ \A c \in DOMAIN pending : pending[c] \in DOMAIN requests
      /\ counter \in [Services -> {-1} \cup Nat] /\ IsFiniteSet(Open)
  BY DEF SessionTypes, Recorded
<1>a. RunOK(Ran) /\ Whole(Ran) /\ Ran.queued \subseteq 1..cids
  BY <1>0, ExecuteIsRun DEF Ran, RunOK, NamesInv
<1>1. CASE StartSession
  <2>1. Ran' = Ran
    BY <1>1, RanAppended, AllOpsHas, RunStartOpen DEF StartSession
  <2>2. UNCHANGED <<counter, requests, pending, cids, opens>>
    BY <1>1 DEF StartSession
  <2> QED
    BY <2>1, <2>2 DEF NamesInv, OneName, Open, Fits, Stems
<1>2. CASE StopSession
  <2>1. Ran' = Fresh /\ Fresh.queued = {}
    BY <1>2, ExecuteNothing DEF StopSession, Ran, Fresh
  <2>2. Open' = {} /\ UNCHANGED <<requests, opens>> /\ cids' \in Nat
    BY <1>0, <1>2 DEF StopSession, Open
  <2>3. Fits(Ran', requests', pending')
    BY <2>1, FitsNothing
  <2>4. OneName => OneName'
    BY <2>2 DEF OneName
  <2> QED
    BY <2>1, <2>2, <2>3, <2>4 DEF NamesInv
<1>3. ASSUME NEW s \in Services, OpenService(s) PROVE NamesInv'
  <2>1. Ran' = Ran
    BY <1>3, RanAppended, AllOpsHas, RunStartOpen DEF OpenService
  <2>2. UNCHANGED <<requests, pending, cids>> /\ opens' = opens + 1
    BY <1>3 DEF OpenService
  <2>3. CASE opens = 0
    <3>1. OneName /\ Fits(Ran, requests, pending)
      BY <2>3 DEF NamesInv
    <3>2. requests' = <<>> /\ Open = {} /\ DOMAIN requests' = {}
      BY <2>2, <2>3, <3>1 DEF OneName
    <3>3. Open' = {s}
      BY <1>3, <3>2, OpenAfter DEF OpenService
    <3>4. OneName'
      BY <2>2, <2>3, <3>2, <3>3 DEF OneName
    <3>5. Fits(Ran, requests, pending)'
      BY <2>1, <2>2, <3>1 DEF Fits, Stems
    <3> QED
      BY <1>a, <2>1, <2>2, <3>4, <3>5 DEF NamesInv
  <2>4. CASE opens # 0
    BY <1>0, <1>a, <2>1, <2>2, <2>4 DEF NamesInv
  <2> QED
    BY <2>3, <2>4
<1>4. ASSUME NEW s \in Services, NEW t \in Types, CreateRequestCall(s, t) PROVE NamesInv'
  <2> DEFINE id == NextId(s)
             new == [service |-> s, type |-> t, id |-> id, paths |-> <<>>, done |-> FALSE, epoch |-> cleared]
             made == [service |-> s, type |-> t, paths |-> <<>>]
  <2>1. id \in Nat /\ s \in Open /\ id = counter[s] + 1 /\ counter[s] \in Nat
    BY <1>0, <1>4 DEF CreateRequestCall, NextId, Open
  <2>2. new \in RequestObjects /\ requests' = Append(requests, new) /\ new.paths = <<>> /\ new.id = id /\ new.type = t
    BY <1>0, <1>4, <2>1 DEF CreateRequestCall, RequestObjects
  <2>3. ops' = Append(ops, CreateOp(s, t, id)) /\ UNCHANGED <<pending, cids, opens>>
        /\ counter' = [counter EXCEPT ![s] = id]
    BY <1>4 DEF CreateRequestCall
  <2>4. Ran' = RunOp(Ran, CreateOp(s, t, id))
    BY <2>1, <2>3, RanAppended, AllOpsHas
  <2> HIDE DEF new, id
  <2>5. CASE ~ Unended(Ran)
    <3>1. Ran' = Ran
      BY <2>4, <2>5, RunEnded
    <3>2. DOMAIN requests \subseteq DOMAIN requests' /\ \A n \in DOMAIN requests : requests'[n] = requests[n]
      BY <1>0, <2>2
    <3>3. Extends(requests', requests)
      BY <3>2 DEF Extends
    <3>4. Fits(Ran, requests, pending) => Fits(Ran, requests, pending)'
      BY <1>0, <2>3, <3>1, <3>3, FitsStill
    <3> QED
      BY <1>4, <3>1, <3>4, NamesCreate
  <2>6. CASE Unended(Ran)
    <3>1. Ran' = Built(Bind(Ran.requests, id, made), Ran.sent, Ran.queued, Ran.registered, Ran.got, Ran.error)
      BY <1>a, <2>4, <2>6, RunCreate
    <3> DEFINE all == Bind(Ran.requests, id, made)
    <3> HIDE DEF all
    <3>2. Ran'.requests = all /\ Ran'.sent = Ran.sent /\ Ran'.queued = Ran.queued
      BY <3>1, BuiltFields DEF all
    <3>3. Fits(Ran, requests, pending) => Fits(Ran', Append(requests, new), pending)
      BY <1>0, <2>2, <3>2, FitsCreated DEF all
    <3> QED
      <4>1. Fits(Ran', Append(requests, new), pending) => Fits(Ran, requests, pending)'
        BY <2>2, <2>3
      <4> QED
        BY <1>4, <3>2, <3>3, <4>1, NamesCreate
  <2> QED
    BY <2>5, <2>6
<1>5. ASSUME NEW n \in 1..MaxRequests, NEW p \in Paths, Put(n, p) PROVE NamesInv'
  <2>1. n \in DOMAIN requests /\ requests' = [requests EXCEPT ![n].paths = Append(@, p)]
        /\ UNCHANGED <<counter, ops, pending, cids, opens>>
    BY <1>5 DEF Put
  <2>2. DOMAIN requests' = DOMAIN requests /\ Extends(requests', requests)
    BY <1>0, <2>1, PutExtends
  <2>3. Ran' = Ran
    BY <2>1 DEF Ran
  <2>4. Fits(Ran, requests, pending) => Fits(Ran, requests, pending)'
    BY <1>0, <2>1, <2>2, <2>3, FitsStill
  <2>5. \A m \in DOMAIN requests : requests'[m].id = requests[m].id
    BY <2>2 DEF Extends
  <2>6. requests = <<>> => FALSE
    BY <2>1
  <2>7. OneName => OneName'
    BY <2>1, <2>2, <2>5, <2>6 DEF OneName, Open
  <2> QED
    BY <1>a, <2>1, <2>3, <2>4, <2>7 DEF NamesInv
<1>6. ASSUME NEW n \in 1..MaxRequests, SendRequestCall(n) PROVE NamesInv'
  <2> DEFINE c == cids + 1
  <2>1. /\ n \in DOMAIN requests /\ cids' = c /\ ops' = ops \o Sent(n, c) /\ pending' = Bind(pending, c, n)
        /\ UNCHANGED <<counter, requests, opens>>
    BY <1>6 DEF SendRequestCall
  <2>2. c \in Nat /\ c \notin DOMAIN pending /\ c \notin 1..cids /\ 1..cids \subseteq 1..c /\ c \in 1..c
    BY <1>0
  <2>3. Ran' = IF ~ Unended(Ran) THEN Ran
               ELSE IF requests[n].id \in DOMAIN Ran.requests THEN SentRun(Ran, requests[n], c)
               ELSE Failed(Ran, "request not found")
    BY <2>1, <2>2, RanSent
  <2>4. DOMAIN pending' = DOMAIN pending \cup {c} /\ \A d \in DOMAIN pending : pending'[d] = pending[d]
    BY <2>1, <2>2 DEF Bind
  <2>5. OneName => OneName'
    BY <2>1 DEF OneName, Open
  <2> HIDE DEF c
  <2>6. CASE Unended(Ran) /\ requests[n].id \in DOMAIN Ran.requests
    <3>1. Ran' = SentRun(Ran, requests[n], c)
      BY <2>3, <2>6
    <3>2. Ran'.queued = Ran.queued \cup {c}
      BY <1>a, <2>6, <3>1, SentRunFields
    <3>3. OneName /\ Fits(Ran, requests, pending) => Fits(Ran', requests, pending')
      BY <1>0, <1>a, <2>1, <2>2, <2>6, <3>1, FitsSent DEF OneName
    <3>4. Fits(Ran', requests, pending') => Fits(Ran, requests, pending)'
      BY <2>1
    <3> QED
      BY <1>a, <2>1, <2>2, <2>5, <3>2, <3>3, <3>4 DEF NamesInv
  <2>7. CASE ~ (Unended(Ran) /\ requests[n].id \in DOMAIN Ran.requests)
    <3>1. Ran' = Ran \/ Ran' = Failed(Ran, "request not found")
      BY <2>3, <2>7
    <3>2. Ran'.requests = Ran.requests /\ Ran'.sent = Ran.sent /\ Ran'.queued = Ran.queued
      <4>1. ASSUME NEW next, next = Failed(Ran, "request not found")
            PROVE  next.requests = Ran.requests /\ next.sent = Ran.sent /\ next.queued = Ran.queued
        BY <1>a, <4>1, FailedLeaves
      <4>2. CASE Ran' = Failed(Ran, "request not found")
        BY <4>1, <4>2
      <4> QED
        BY <3>1, <4>2
    <3>3. ASSUME Fits(Ran, requests, pending) PROVE Fits(Ran, requests, pending)'
      <4>1. \A d \in Ran.queued \cap DOMAIN pending' : d \in DOMAIN pending /\ pending'[d] = pending[d]
        BY <1>a, <2>2, <2>4
      <4>2. \A d \in Ran.queued \cap DOMAIN pending' : Stems(Ran.sent[d], requests[pending'[d]])
        BY <3>3, <4>1 DEF Fits
      <4>3. \A i \in DOMAIN Ran.requests :
              \E m \in DOMAIN requests : requests[m].id = i /\ Stems(Ran.requests[i], requests[m])
        BY <3>3 DEF Fits
      <4>4. Fits(Ran', requests', pending')
        BY <2>1, <3>2, <4>2, <4>3 DEF Fits
      <4> QED
        BY <4>4
    <3> QED
      BY <1>a, <2>1, <2>2, <2>5, <3>2, <3>3 DEF NamesInv
  <2> QED
    BY <2>6, <2>7
<1>7. ASSUME NEW c, NEW status, NEW run, CollectRaises(c, status, run) PROVE NamesInv'
  BY <1>7, NamesCollect DEF CollectRaises, CollectCall
<1>8. ASSUME NEW c \in 1..MaxSends, Answered(c) PROVE NamesInv'
  <2>1. CASE CollectRaises(c, "error", Execute(Plan(c)))
    BY <1>7, <2>1
  <2>2. CASE ~ CollectRaises(c, "error", Execute(Plan(c)))
    <3>1. /\ c \in DOMAIN pending /\ requests' = [requests EXCEPT ![pending[c]].done = TRUE]
          /\ ops' = Reopened /\ UNCHANGED <<counter, cids, opens>>
      BY <1>8, <2>2 DEF Answered
    <3>2. Ran' = Fresh /\ Fresh.queued = {}
      BY <1>0, <3>1, ReopenedIsFresh DEF Ran, Fresh
    <3>3. Fits(Ran', requests', pending')
      BY <3>2, FitsNothing
    <3>4. DOMAIN requests' = DOMAIN requests /\ \A m \in DOMAIN requests : requests'[m].id = requests[m].id
      BY <1>0, <3>1, DoneKeeps
    <3>5. requests = <<>> => FALSE
      BY <1>0, <3>1
    <3>6. OneName => OneName'
      BY <3>1, <3>4, <3>5 DEF OneName, Open
    <3> QED
      BY <1>0, <3>1, <3>2, <3>3, <3>6 DEF NamesInv
  <2> QED
    BY <2>1, <2>2
<1>9. ASSUME NEW c \in 1..MaxSends, NotReached(c) \/ LostAnswer(c) \/ Rejected(c) PROVE NamesInv'
  BY <1>7, <1>9 DEF NotReached, LostAnswer, Rejected
<1>10. CASE UNCHANGED sessionVars
  BY <1>10 DEF sessionVars, client, NamesInv, OneName, Open, Fits, Stems, Ran
<1> QED
  BY <1>1, <1>2, <1>3, <1>4, <1>5, <1>6, <1>8, <1>9, <1>10 DEF SessionNext


(* What a step leaves in last.                                             *)
LEMMA LastStep ==
  ASSUME [SessionNext]_sessionVars
  PROVE  \/ last' = <<>>
         \/ last' = last
         \/ \E c \in DOMAIN pending : \E run : last' = Outcome(c, "lost", run)
         \/ \E c \in DOMAIN pending : last' = Outcome(c, "rejected", Fresh) /\ ~ Valid(Plan(c))
         \/ \E c \in DOMAIN pending : last' = Outcome(c, Status(Execute(Plan(c))), Execute(Plan(c)))
<1>1. CASE UNCHANGED sessionVars
  BY <1>1 DEF sessionVars
<1>2. CASE StartSession \/ StopSession
  BY <1>2 DEF StartSession, StopSession
<1>3. CASE \E s \in Services : OpenService(s) \/ \E t \in Types : CreateRequestCall(s, t)
  BY <1>3 DEF OpenService, CreateRequestCall
<1>4. CASE \E n \in 1..MaxRequests : SendRequestCall(n) \/ \E p \in Paths : Put(n, p)
  BY <1>4 DEF SendRequestCall, Put
<1>5. ASSUME NEW c, NotReached(c) \/ LostAnswer(c)
      PROVE  \E run : c \in DOMAIN pending /\ last' = Outcome(c, "lost", run)
  BY <1>5 DEF NotReached, LostAnswer, CollectRaises, CollectCall
<1>6. ASSUME NEW c, Rejected(c)
      PROVE  c \in DOMAIN pending /\ last' = Outcome(c, "rejected", Fresh) /\ ~ Valid(Plan(c))
  BY <1>6 DEF Rejected, CollectRaises
<1>7. ASSUME NEW c, Answered(c)
      PROVE  c \in DOMAIN pending /\ last' = Outcome(c, Status(Execute(Plan(c))), Execute(Plan(c)))
  BY <1>7 DEF Answered, CollectRaises
<1>8. CASE \E c \in 1..MaxSends : NotReached(c) \/ LostAnswer(c) \/ Rejected(c) \/ Answered(c)
  BY <1>5, <1>6, <1>7, <1>8
<1> QED
  BY <1>1, <1>2, <1>3, <1>4, <1>8 DEF SessionNext

LEMMA OutcomeFields ==
  ASSUME NEW c, NEW status, NEW run
  PROVE  /\ Outcome(c, status, run).cid = c /\ Outcome(c, status, run).status = status
         /\ Outcome(c, status, run).got = run.got /\ Outcome(c, status, run).want = requests[pending[c]]
         /\ Outcome(c, status, run).documented = documented
         /\ Outcome(c, status, run).plan = Plan(c) /\ Outcome(c, status, run).opens = opens
  BY DEF Outcome

LEMMA AnsweredOk ==
  ASSUME SessionTypes, NamesInv, opens = 1, NEW c \in DOMAIN pending, Status(Execute(Plan(c))) = "ok"
  PROVE  LET answer == Last(Execute(Plan(c)).got)
         IN  answer.cid = c /\ Stems(answer.request, requests[pending[c]])
<1> DEFINE run == Execute(Plan(c))
<1>1. Unended(run)
  BY DEF Status, Unended
<1>2. /\ c \in Ran.queued /\ run.got = Append(Ran.got, [cid |-> c, request |-> Ran.sent[c]])
  BY <1>1, RanCollected
<1>3. Fits(Ran, requests, pending)
  BY DEF NamesInv
<1>4. RunOK(Ran)
  BY ExecuteIsRun DEF SessionTypes, Recorded, Ran
<1> HIDE DEF run
<1> DEFINE answer == [cid |-> c, request |-> Ran.sent[c]]
<1>5. answer.cid = c /\ answer.request = Ran.sent[c]
  OBVIOUS
<1> HIDE DEF answer
<1>6. Last(run.got) = answer
  <2>1. Ran.got \in Seq(Gotten) /\ run.got = Append(Ran.got, answer)
    BY <1>2, <1>4 DEF RunOK, answer
  <2> QED
    BY <2>1 DEF Last
<1>7. Stems(Ran.sent[c], requests[pending[c]])
  BY <1>2, <1>3 DEF Fits
<1> QED
  BY <1>5, <1>6, <1>7 DEF run

LEMMA AnswersStep ==
  SessionTypes /\ NamesInv /\ AnswersTheRequest /\ [SessionNext]_sessionVars => AnswersTheRequest'
<1> SUFFICES ASSUME SessionTypes, NamesInv, AnswersTheRequest, [SessionNext]_sessionVars,
                    last' # <<>>, last'.status = "ok", last'.opens = 1
             PROVE  /\ Last(last'.got).cid = last'.cid
                    /\ Last(last'.got).request.type = last'.want.type
                    /\ ToSet(Last(last'.got).request.paths) \subseteq ToSet(last'.want.paths)
  BY DEF AnswersTheRequest
<1>1. CASE last' = last
  BY <1>1 DEF AnswersTheRequest
<1>2. ASSUME NEW c \in DOMAIN pending, last' = Outcome(c, Status(Execute(Plan(c))), Execute(Plan(c)))
      PROVE  /\ Last(last'.got).cid = last'.cid
             /\ Last(last'.got).request.type = last'.want.type
             /\ ToSet(Last(last'.got).request.paths) \subseteq ToSet(last'.want.paths)
  <2>1. /\ last'.cid = c /\ last'.got = Execute(Plan(c)).got /\ last'.want = requests[pending[c]]
        /\ Status(Execute(Plan(c))) = "ok" /\ opens = 1
    BY <1>2, OutcomeFields
  <2> QED
    BY <2>1, AnsweredOk DEF Stems
<1>3. ASSUME NEW c, NEW status, NEW run, last' = Outcome(c, status, run), status # "ok" PROVE FALSE
  BY <1>3, OutcomeFields
<1> QED
  BY <1>1, <1>2, <1>3, LastStep

(* While one service was opened once, an answer without an error ends with  *)
(* the answer to the request that collectResponse was called for, of its    *)
(* type and with no element it was not given.                               *)
THEOREM AnswersStem == SessionSpec => []AnswersTheRequest
<1> DEFINE Inv == SessionTypes /\ NamesInv /\ AnswersTheRequest
<1>1. SessionInit => Inv
  BY SessionTypesInit, NamesInit DEF SessionInit, AnswersTheRequest
<1>2. Inv /\ [SessionNext]_sessionVars => Inv'
  BY SessionTypesStep, NamesStep, AnswersStep
<1>3. Inv => AnswersTheRequest
  OBVIOUS
<1> QED
  BY <1>1, <1>2, <1>3, PTL DEF SessionSpec


(* What is recorded of each kind.                                          *)
PutOps(plan) == OpsOf(plan, "append") \cup OpsOf(plan, "set")

AppendsOnce(plan) ==
  \A i, j \in Positions(plan, "append") : plan[i].path = plan[j].path => i = j

LEMMA OpsOfAppend ==
  ASSUME NEW plan \in Seq(AllOps), NEW o \in AllOps, NEW kind
  PROVE  OpsOf(Append(plan, o), kind) = OpsOf(plan, kind) \cup (IF o.op = kind THEN {o} ELSE {})
<1> DEFINE more == Append(plan, o)
<1>1. /\ DOMAIN more = DOMAIN plan \cup {Len(plan) + 1}
      /\ more[Len(plan) + 1] = o /\ \A n \in DOMAIN plan : more[n] = plan[n]
  OBVIOUS
<1> HIDE DEF more
<1>2. OpsOf(more, kind) \subseteq OpsOf(plan, kind) \cup (IF o.op = kind THEN {o} ELSE {})
  BY <1>1 DEF OpsOf
<1>3. OpsOf(plan, kind) \subseteq OpsOf(more, kind)
  BY <1>1 DEF OpsOf
<1>4. o.op = kind => o \in OpsOf(more, kind)
  BY <1>1 DEF OpsOf
<1> QED
  BY <1>2, <1>3, <1>4 DEF more

LEMMA PutOpFields ==
  ASSUME NEW i, NEW p
  PROVE  /\ PutOp(i, p).op = IF p \in Arrays THEN "append" ELSE "set"
         /\ PutOp(i, p).id = i /\ PutOp(i, p).path = p
  BY DEF PutOp, AppendOp, SetOp

LEMMA OtherOpFields ==
  /\ StartOp.op = "start_session"
  /\ \A s : OpenOp(s).op = "open_service" /\ OpenOp(s).service = s
  /\ \A s, t, i : /\ CreateOp(s, t, i).op = "create_request" /\ CreateOp(s, t, i).service = s
                  /\ CreateOp(s, t, i).type = t /\ CreateOp(s, t, i).id = i
  /\ \A i, c : SendOp(i, c).op = "send_request" /\ SendOp(i, c).id = i /\ SendOp(i, c).cid = c
  /\ \A c, t : CollectOp(c, t).op = "collect_response" /\ CollectOp(c, t).cid = c /\ CollectOp(c, t).timeout = t
  BY DEF StartOp, OpenOp, CreateOp, SendOp, CollectOp

(* What a send adds to the plan.                                           *)
SentPlan(plan, r, c) == plan \o (PutsOf(r) \o <<SendOp(r.id, c)>>)
SendStart(plan) == Len(plan)
SendEnd(plan, r) == Len(plan) + Len(r.paths) + 1

LEMMA SentParts ==
  ASSUME NEW plan \in Seq(AllOps), NEW r \in RequestObjects, NEW c \in Nat,
         NEW more, more = SentPlan(plan, r, c),
         NEW m, m = SendStart(plan), NEW end, end = SendEnd(plan, r)
  PROVE  /\ m \in Nat /\ end \in DOMAIN more /\ more[end] = SendOp(r.id, c)
         /\ \A n \in DOMAIN plan : n \in DOMAIN more /\ more[n] = plan[n]
         /\ \A k \in DOMAIN r.paths : m + k \in DOMAIN more /\ more[m + k] = PutOp(r.id, r.paths[k])
         /\ \A n \in DOMAIN more : \/ n \in DOMAIN plan
                                   \/ n = end
                                   \/ n - m \in DOMAIN r.paths /\ m + (n - m) = n
<1>1. r.id \in Nat /\ r.paths \in Seq(Paths)
  BY DEF RequestObjects
<1>2. PICK puts, o, l : puts = PutsOf(r) /\ o = SendOp(r.id, c) /\ l = Len(r.paths)
  OBVIOUS
<1>3. puts \in Seq(AllOps) /\ Len(puts) = l /\ o \in AllOps /\ m \in Nat /\ l \in Nat
  BY <1>1, <1>2, PutsAreOps, AllOpsHas DEF SendStart
<1>4. more = plan \o (puts \o <<o>>)
  BY <1>2 DEF SentPlan
<1>5. /\ more \in Seq(AllOps) /\ Len(more) = Len(plan) + Len(puts) + 1
      /\ \A n \in 1..Len(plan) : more[n] = plan[n]
      /\ \A k \in 1..Len(puts) : more[Len(plan) + k] = puts[k]
      /\ more[Len(plan) + Len(puts) + 1] = o
  <2>1. puts \in Seq(AllOps) /\ o \in AllOps
    BY <1>3
  <2> QED
    BY <1>4, <2>1, PutsThenOne
<1>6. \A k \in 1..l : puts[k] = PutOp(r.id, r.paths[k])
  BY <1>1, <1>2 DEF PutsOf
<1>7. /\ DOMAIN more = 1..end /\ DOMAIN plan = 1..m /\ DOMAIN r.paths = 1..l
      /\ end = m + l + 1
  BY <1>1, <1>2, <1>3, <1>5 DEF SendStart, SendEnd
<1>8. end \in 1..end /\ (\A n \in 1..m : n \in 1..end) /\ \A k \in 1..l : m + k \in 1..end
  <2>1. m \in Nat /\ l \in Nat /\ end = m + l + 1
    BY <1>3, <1>7
  <2>2. end \in 1..end
    BY <2>1
  <2>3. \A n \in 1..m : n \in 1..end
    BY <2>1
  <2>4. \A k \in 1..l : m + k \in 1..end
    BY <2>1
  <2> QED
    BY <2>2, <2>3, <2>4
<1>9. ASSUME NEW n \in 1..end, n # end, n \notin 1..m PROVE n - m \in 1..l /\ m + (n - m) = n
  BY <1>3, <1>7, <1>9
<1>10. more[end] = o /\ (\A n \in 1..m : more[n] = plan[n]) /\ \A k \in 1..l : more[m + k] = puts[k]
  BY <1>3, <1>5, <1>7 DEF SendStart
<1> QED
  BY <1>2, <1>3, <1>6, <1>7, <1>8, <1>9, <1>10

LEMMA OpsOfIs == \A plan, kind : OpsOf(plan, kind) = {o \in ToSet(plan) : o.op = kind}
  BY DEF OpsOf, ToSet

LEMMA SentSet ==
  ASSUME NEW plan \in Seq(AllOps), NEW r \in RequestObjects, NEW c \in Nat,
         NEW more, more = SentPlan(plan, r, c)
  PROVE  ToSet(more) = ToSet(plan) \cup {PutOp(r.id, p) : p \in ToSet(r.paths)} \cup {SendOp(r.id, c)}
<1>1. PICK m, end : m = SendStart(plan) /\ end = SendEnd(plan, r)
  OBVIOUS
<1>2. /\ end \in DOMAIN more /\ more[end] = SendOp(r.id, c)
      /\ \A n \in DOMAIN plan : n \in DOMAIN more /\ more[n] = plan[n]
      /\ \A k \in DOMAIN r.paths : m + k \in DOMAIN more /\ more[m + k] = PutOp(r.id, r.paths[k])
  BY <1>1, SentParts
<1>3. \A n \in DOMAIN more : \/ n \in DOMAIN plan
                             \/ n = end
                             \/ n - m \in DOMAIN r.paths /\ m + (n - m) = n
  BY <1>1, SentParts
<1>4. ToSet(more) \subseteq ToSet(plan) \cup {PutOp(r.id, p) : p \in ToSet(r.paths)} \cup {SendOp(r.id, c)}
  <2>1. ASSUME NEW n \in DOMAIN more
        PROVE  more[n] \in ToSet(plan) \cup {PutOp(r.id, p) : p \in ToSet(r.paths)} \cup {SendOp(r.id, c)}
    <3>1. CASE n \in DOMAIN plan
      BY <1>2, <3>1 DEF ToSet
    <3>2. CASE n = end
      BY <1>2, <3>2
    <3>3. CASE n - m \in DOMAIN r.paths /\ m + (n - m) = n
      <4>1. more[n] = PutOp(r.id, r.paths[n - m]) /\ r.paths[n - m] \in ToSet(r.paths)
        BY <1>2, <3>3 DEF ToSet
      <4> QED
        BY <4>1
    <3> QED
      BY <1>3, <3>1, <3>2, <3>3
  <2> QED
    BY <2>1 DEF ToSet
<1>5. ToSet(plan) \subseteq ToSet(more) /\ SendOp(r.id, c) \in ToSet(more)
  BY <1>2 DEF ToSet
<1>6. ASSUME NEW p \in ToSet(r.paths) PROVE PutOp(r.id, p) \in ToSet(more)
  BY <1>2 DEF ToSet
<1> QED
  BY <1>4, <1>5, <1>6

PutsMade(r) == {PutOp(r.id, p) : p \in ToSet(r.paths)}

LEMMA OpsOfSent ==
  ASSUME NEW plan \in Seq(AllOps), NEW r \in RequestObjects, NEW c \in Nat,
         NEW more, more = SentPlan(plan, r, c)
  PROVE  /\ \A kind \in {"open_service", "create_request", "collect_response"} :
              OpsOf(more, kind) = OpsOf(plan, kind)
         /\ OpsOf(more, "send_request") = OpsOf(plan, "send_request") \cup {SendOp(r.id, c)}
         /\ PutOps(more) = PutOps(plan) \cup PutsMade(r)
<1> DEFINE puts == PutsMade(r)
<1>1. PICK o : o = SendOp(r.id, c)
  OBVIOUS
<1>2. ToSet(more) = ToSet(plan) \cup puts \cup {o} /\ o.op = "send_request"
  <2>1. ToSet(more) = ToSet(plan) \cup puts \cup {o}
    BY <1>1, SentSet DEF PutsMade
  <2> QED
    BY <1>1, <2>1, OtherOpFields
<1>3. \A u \in puts : u.op \in {"append", "set"}
  BY PutOpFields DEF PutsMade
<1> HIDE DEF puts
<1>4. ASSUME NEW kind \in {"open_service", "create_request", "collect_response"}
      PROVE  OpsOf(more, kind) = OpsOf(plan, kind)
  BY <1>2, <1>3, OpsOfIs
<1>5. OpsOf(more, "send_request") = OpsOf(plan, "send_request") \cup {o}
  BY <1>2, <1>3, OpsOfIs
<1>6. PutOps(more) = PutOps(plan) \cup puts
  BY <1>2, <1>3, OpsOfIs DEF PutOps
<1> QED
  BY <1>1, <1>4, <1>5, <1>6 DEF puts

LEMMA AppendsOnceSent ==
  ASSUME NEW plan \in Seq(AllOps), OpsOf(plan, "append") = {}, NEW r \in RequestObjects, NEW c \in Nat,
         \A i, j \in DOMAIN r.paths : r.paths[i] = r.paths[j] => i = j,
         NEW more, more = SentPlan(plan, r, c)
  PROVE  AppendsOnce(more)
<1>1. PICK m, end : m = SendStart(plan) /\ end = SendEnd(plan, r)
  OBVIOUS
<1>2. /\ end \in DOMAIN more /\ more[end] = SendOp(r.id, c)
      /\ \A n \in DOMAIN plan : n \in DOMAIN more /\ more[n] = plan[n]
      /\ \A k \in DOMAIN r.paths : m + k \in DOMAIN more /\ more[m + k] = PutOp(r.id, r.paths[k])
  BY <1>1, SentParts
<1>3. \A n \in DOMAIN more : \/ n \in DOMAIN plan
                             \/ n = end
                             \/ n - m \in DOMAIN r.paths /\ m + (n - m) = n
  BY <1>1, SentParts
<1>4. more[end].op = "send_request"
  BY <1>2, OtherOpFields
<1>5. \A n \in DOMAIN plan : more[n].op # "append"
  BY <1>2 DEF OpsOf
<1>6. ASSUME NEW n \in Positions(more, "append")
      PROVE  n - m \in DOMAIN r.paths /\ m + (n - m) = n /\ more[n].path = r.paths[n - m]
  <2>1. n - m \in DOMAIN r.paths /\ m + (n - m) = n
    BY <1>3, <1>4, <1>5 DEF Positions
  <2> QED
    BY <1>2, <2>1, PutOpFields
<1>7. ASSUME NEW i \in Positions(more, "append"), NEW j \in Positions(more, "append"),
             more[i].path = more[j].path
      PROVE  i = j
  <2>1. i - m = j - m
    BY <1>6, <1>7
  <2>2. m + (i - m) = i /\ m + (j - m) = j
    BY <1>6
  <2> QED
    BY <2>1, <2>2
<1> QED
  BY <1>7 DEF AppendsOnce


(* The documented use: one service, one request at a time.                 *)
Bare(r) == [service |-> r.service, type |-> r.type, paths |-> <<>>]
Asked(r) == [service |-> r.service, type |-> r.type, paths |-> r.paths]

InProgress(r) ==
  /\ r.service \in Open
  /\ OpsOf(ops, "create_request") = {CreateOp(r.service, r.type, r.id)}
  /\ r.id \in DOMAIN Ran.requests
  /\ DOMAIN pending = {} =>
       PutOps(ops) = {} /\ OpsOf(ops, "send_request") = {} /\ Ran.requests[r.id] = Bare(r)

Waiting(r, c) ==
  /\ Required[r.type] \subseteq ToSet(r.paths)
  /\ OpsOf(ops, "send_request") = {SendOp(r.id, c)}
  /\ PutOps(ops) = PutsMade(r)
  /\ AppendsOnce(ops)
  /\ c \in Ran.queued /\ Ran.sent[c] = Asked(r)

OneAtATime ==
  /\ \A s, t \in Open : s = t
  /\ \A n \in DOMAIN requests : requests[n].done = FALSE => n = Len(requests)
  /\ \A n \in DOMAIN requests : \A i, j \in DOMAIN requests[n].paths :
       requests[n].paths[i] = requests[n].paths[j] => i = j
  /\ \A c, d \in DOMAIN pending : c = d
  /\ \A c \in DOMAIN pending : requests[pending[c]].done = FALSE

DocumentedRun ==
  /\ Unended(Ran) /\ Ran.got = <<>>
  /\ \A o \in OpsOf(ops, "open_service") : o.service \in Open
  /\ OpsOf(ops, "collect_response") = {}
  /\ (\A n \in DOMAIN requests : requests[n].done # FALSE) =>
       OpsOf(ops, "create_request") = {} /\ PutOps(ops) = {} /\ OpsOf(ops, "send_request") = {}
  /\ \A n \in DOMAIN requests : requests[n].done = FALSE => InProgress(requests[n])
  /\ \A c \in DOMAIN pending : Waiting(requests[pending[c]], c)

DocumentedInv == documented => OneAtATime /\ DocumentedRun

(* The server takes the plan of such a request, but for what it does not   *)
(* allow.                                                                  *)
LEMMA AtMostOneAppend ==
  ASSUME NEW plan, AppendsOnce(plan), NEW path, NEW k \in Nat, k # 0
  PROVE  Appends(plan, path) <= k
<1> DEFINE S == {n \in Positions(plan, "append") : plan[n].path = path}
<1>1. \A i, j \in S : i = j
  BY DEF AppendsOnce
<1>2. Appends(plan, path) = Cardinality(S)
  BY DEF Appends
<1> HIDE DEF S
<1>3. CASE S = {}
  <2>1. Cardinality(S) = 0
    BY <1>3, FS_EmptySet
  <2> QED
    BY <1>2, <2>1
<1>4. CASE S # {}
  <2>1. PICK i : S = {i}
    BY <1>1, <1>4
  <2>2. Cardinality(S) = 1
    BY <2>1, FS_Singleton
  <2> QED
    BY <1>2, <2>2
<1> QED
  BY <1>3, <1>4

LEMMA LastTypeOfOnly ==
  ASSUME NEW plan \in Seq(AllOps), NEW o, OpsOf(plan, "create_request") = {o}
  PROVE  LastType(plan, o.id) = o.type
<1> DEFINE ns == {n \in Positions(plan, "create_request") : plan[n].id = o.id}
<1>1. \A n \in ns : plan[n] = o
  BY DEF OpsOf, Positions
<1>2. ns # {} /\ ns \in SUBSET (1..Len(plan))
  BY DEF OpsOf, Positions
<1>3. LastType(plan, o.id) = plan[CHOOSE n \in ns : \A m \in ns : m <= n].type
  BY DEF LastType
<1> HIDE DEF ns
<1>4. \E n \in ns : \A m \in ns : m <= n
  <2>1. Len(plan) \in Nat
    OBVIOUS
  <2> QED
    BY <1>2, <2>1, Folds!LastPlace
<1> QED
  BY <1>1, <1>3, <1>4

LEMMA PlanOps ==
  ASSUME SessionTypes, NEW c \in DOMAIN pending, NEW kind
  PROVE  /\ OpsOf(Plan(c), kind) =
              OpsOf(ops, kind) \cup (IF kind = "collect_response" THEN {CollectOp(c, Timeout)} ELSE {})
         /\ Plan(c) \in Seq(AllOps)
<1>1. ops \in Seq(AllOps) /\ CollectOp(c, Timeout) \in AllOps
  BY AllOpsHas DEF SessionTypes, Recorded
<1> QED
  BY <1>1, OpsOfAppend, OtherOpFields DEF Plan

LEMMA AppendsOnceMore ==
  ASSUME NEW plan \in Seq(AllOps), NEW o \in AllOps, o.op # "append", AppendsOnce(plan)
  PROVE  AppendsOnce(Append(plan, o))
<1> DEFINE more == Append(plan, o)  m == Len(plan) + 1
<1>1. /\ DOMAIN more = DOMAIN plan \cup {m} /\ more[m] = o
      /\ \A n \in DOMAIN plan : more[n] = plan[n]
  OBVIOUS
<1> HIDE DEF more, m
<1>2. \A n \in Positions(more, "append") : n \in Positions(plan, "append") /\ more[n] = plan[n]
  BY <1>1 DEF Positions
<1>3. AppendsOnce(more)
  BY <1>2 DEF AppendsOnce
<1> QED
  BY <1>3 DEF more

LEMMA PlanAppendsOnce ==
  ASSUME SessionTypes, NEW c \in DOMAIN pending, AppendsOnce(ops)
  PROVE  AppendsOnce(Plan(c))
<1>1. ops \in Seq(AllOps) /\ CollectOp(c, Timeout) \in AllOps /\ CollectOp(c, Timeout).op # "append"
  BY AllOpsHas, OtherOpFields DEF SessionTypes, Recorded
<1> QED
  BY <1>1, AppendsOnceMore DEF Plan

LEMMA DocumentedValid ==
  ASSUME SessionTypes, OneAtATime, DocumentedRun, NEW c \in DOMAIN pending,
         NEW r, r = requests[pending[c]],
         r.service \in AllowedServices, r.type \in AllowedTypes,
         MaxSecurities # 0, MaxFields # 0, Timeout <= MaxTimeout
  PROVE  Valid(Plan(c))
<1>1. /\ r.service \in Open /\ Waiting(r, c)
      /\ OpsOf(ops, "create_request") = {CreateOp(r.service, r.type, r.id)}
  <2>1. pending[c] \in DOMAIN requests /\ r.done = FALSE
    BY DEF SessionTypes, OneAtATime
  <2>2. InProgress(r)
    BY <2>1 DEF DocumentedRun
  <2>3. Waiting(r, c)
    BY DEF DocumentedRun
  <2> QED
    BY <2>2, <2>3 DEF InProgress
<1>2. PICK plan : plan = Plan(c)
  OBVIOUS
<1>3. /\ OpsOf(plan, "create_request") = {CreateOp(r.service, r.type, r.id)}
      /\ OpsOf(plan, "open_service") = OpsOf(ops, "open_service")
      /\ OpsOf(plan, "collect_response") = {CollectOp(c, Timeout)}
      /\ OpsOf(plan, "append") = OpsOf(ops, "append") /\ OpsOf(plan, "set") = OpsOf(ops, "set")
      /\ plan \in Seq(AllOps)
  <2>1. \A kind : kind # "collect_response" => OpsOf(plan, kind) = OpsOf(ops, kind)
    BY <1>2, PlanOps
  <2>2. OpsOf(plan, "collect_response") = {CollectOp(c, Timeout)} /\ plan \in Seq(AllOps)
    BY <1>2, PlanOps DEF DocumentedRun
  <2> QED
    BY <1>1, <2>1, <2>2
<1>4. CreateOp(r.service, r.type, r.id).service = r.service /\ CreateOp(r.service, r.type, r.id).type = r.type
      /\ CreateOp(r.service, r.type, r.id).id = r.id /\ CollectOp(c, Timeout).timeout = Timeout
  BY OtherOpFields
<1>5. ServiceAllowed(plan)
  <2>1. \A o \in OpsOf(plan, "open_service") : o.service = r.service
    BY <1>1, <1>3 DEF DocumentedRun, OneAtATime
  <2> QED
    BY <1>3, <1>4, <2>1 DEF ServiceAllowed
<1>6. TypeAllowed(plan)
  BY <1>3, <1>4 DEF TypeAllowed
<1>7. ElementsPresent(plan)
  <2>1. LastType(plan, r.id) = r.type
    <3>1. PICK o : o = CreateOp(r.service, r.type, r.id)
      OBVIOUS
    <3>2. LastType(plan, o.id) = o.type
      BY <1>3, <3>1, LastTypeOfOnly
    <3> QED
      BY <1>4, <3>1, <3>2
  <2>2. PutOps(plan) = PutsMade(r)
    BY <1>1, <1>3 DEF PutOps, Waiting
  <2>3. ASSUME NEW p \in ToSet(r.paths) PROVE p \in PathsSeen(plan, r.id)
    <3>1. PutOp(r.id, p) \in OpsOf(plan, "append") \cup OpsOf(plan, "set")
      BY <2>2 DEF PutOps, PutsMade
    <3>2. PutOp(r.id, p).id = r.id /\ PutOp(r.id, p).path = p
      BY PutOpFields
    <3> QED
      BY <3>1, <3>2 DEF PathsSeen
  <2>4. Required[r.type] \subseteq PathsSeen(plan, r.id)
    BY <1>1, <2>3 DEF Waiting
  <2> QED
    BY <1>3, <1>4, <2>1, <2>4 DEF ElementsPresent
<1>8. TimeoutsAllowed(plan)
  BY <1>3, <1>4 DEF TimeoutsAllowed
<1>9. AppendsOnce(plan)
  BY <1>1, <1>2, PlanAppendsOnce DEF Waiting
<1>10. MaxSecurities \in Nat /\ MaxFields \in Nat
  BY PlanExecutionAssumption
<1>11. Appends(plan, "securities") <= MaxSecurities /\ Appends(plan, "fields") <= MaxFields
  BY <1>9, <1>10, AtMostOneAppend
<1> QED
  BY <1>2, <1>5, <1>6, <1>7, <1>8, <1>11 DEF Valid


LEMMA DocumentedInit == SessionInit => DocumentedInv
<1> SUFFICES ASSUME SessionInit PROVE OneAtATime /\ DocumentedRun
  BY DEF DocumentedInv
<1>1. Ran = Fresh /\ Unended(Fresh) /\ Fresh.got = <<>>
  BY ExecuteNothing DEF SessionInit, Ran, Fresh, Unended
<1>2. Open = {} /\ DOMAIN requests = {} /\ DOMAIN pending = {} /\ DOMAIN ops = {}
  BY DEF SessionInit, Open
<1>3. \A kind : OpsOf(ops, kind) = {}
  BY <1>2 DEF OpsOf
<1> QED
  BY <1>1, <1>2, <1>3 DEF OneAtATime, DocumentedRun, PutOps

(* Opening the session or the service adds nothing to the request.         *)
LEMMA DocumentedStart ==
  ASSUME SessionTypes, DocumentedInv, NEW o \in AllOps, ops' = Append(ops, o),
         o.op = "start_session" \/ (o.op = "open_service" /\ o.service \in Open'),
         Ran' = Ran, UNCHANGED <<requests, pending>>,
         Open \subseteq Open', \A s, t \in Open' : s = t, documented
  PROVE  OneAtATime' /\ DocumentedRun'
<1>1. OneAtATime /\ DocumentedRun
  BY DEF DocumentedInv
<1>2. ops \in Seq(AllOps)
  BY DEF SessionTypes, Recorded
<1>3. \A kind : OpsOf(ops', kind) = OpsOf(ops, kind) \cup (IF o.op = kind THEN {o} ELSE {})
  BY <1>2, OpsOfAppend
<1>4. /\ OpsOf(ops', "create_request") = OpsOf(ops, "create_request")
      /\ OpsOf(ops', "send_request") = OpsOf(ops, "send_request")
      /\ OpsOf(ops', "collect_response") = OpsOf(ops, "collect_response")
      /\ PutOps(ops') = PutOps(ops)
      /\ \A u \in OpsOf(ops', "open_service") : u.service \in Open'
  <2>1. \A kind : kind # o.op => OpsOf(ops', kind) = OpsOf(ops, kind)
    BY <1>3
  <2>2. \A u \in OpsOf(ops', "open_service") :
          u \in OpsOf(ops, "open_service") \/ (u = o /\ o.op = "open_service")
    BY <1>3
  <2> QED
    BY <1>1, <2>1, <2>2 DEF PutOps, DocumentedRun
<1>5. AppendsOnce(ops) => AppendsOnce(ops')
  BY <1>2, AppendsOnceMore
<1>6. OneAtATime'
  BY <1>1 DEF OneAtATime
<1>7. \A r : InProgress(r) => InProgress(r)'
  BY <1>4 DEF InProgress
<1>8. \A r, c : Waiting(r, c) => Waiting(r, c)'
  BY <1>4, <1>5 DEF Waiting
<1>9. DocumentedRun'
  BY <1>1, <1>4, <1>7, <1>8 DEF DocumentedRun
<1> QED
  BY <1>6, <1>9

(* A request is created when every earlier one is done.                    *)
LEMMA DocumentedCreate ==
  ASSUME SessionTypes, DocumentedInv, NEW s \in Services, NEW t \in Types, CreateRequestCall(s, t), documented'
  PROVE  OneAtATime' /\ DocumentedRun'
<1>0. PICK id, new, made :
        /\ id = NextId(s) /\ made = [service |-> s, type |-> t, paths |-> <<>>]
        /\ new = [service |-> s, type |-> t, id |-> id, paths |-> <<>>, done |-> FALSE, epoch |-> cleared]
  OBVIOUS
<1>1. /\ requests' = Append(requests, new) /\ pending' = pending
      /\ counter' = [counter EXCEPT ![s] = id] /\ ops' = Append(ops, CreateOp(s, t, id))
  BY <1>0 DEF CreateRequestCall
<1>a. /\ requests \in Seq(RequestObjects) /\ ops \in Seq(AllOps)
      /\ \A c \in DOMAIN pending : pending[c] \in DOMAIN requests
  BY DEF SessionTypes, Recorded
<1>b. id \in Nat /\ s \in Open /\ CreateOp(s, t, id) \in AllOps
  <2>1. id \in Nat /\ s \in Open
    BY <1>0 DEF CreateRequestCall, SessionTypes, NextId, Open
  <2> QED
    BY <2>1, AllOpsHas
<1>2. documented /\ \A n \in DOMAIN requests : requests[n].done
  BY DEF CreateRequestCall
<1>3. OneAtATime /\ DocumentedRun
  BY <1>2 DEF DocumentedInv
<1>4. \A n \in DOMAIN requests : requests[n].done # FALSE
  BY <1>2
<1>5. DOMAIN pending = {}
  BY <1>a, <1>3, <1>4 DEF OneAtATime
<1>6. new.done = FALSE /\ new.paths = <<>> /\ new.service = s /\ new.type = t /\ new.id = id
  BY <1>0
<1>7. Bare(new) = made
  BY <1>0, <1>6 DEF Bare
<1>8. Open' = Open
  BY <1>1, <1>b, OpenAfter
<1> DEFINE m == Len(requests) + 1
<1>9. /\ DOMAIN requests' = DOMAIN requests \cup {m} /\ requests'[m] = new /\ Len(requests') = m
      /\ \A n \in DOMAIN requests : requests'[n] = requests[n]
  BY <1>1, <1>a
<1> HIDE DEF m
<1>10. OneAtATime'
  <2>1. \A i, j \in DOMAIN new.paths : new.paths[i] = new.paths[j] => i = j
    BY <1>6
  <2>2. \A n \in DOMAIN requests' : requests'[n].done = FALSE => n = Len(requests')
    BY <1>4, <1>9
  <2>3. \A n \in DOMAIN requests' : \A i, j \in DOMAIN requests'[n].paths :
          requests'[n].paths[i] = requests'[n].paths[j] => i = j
    BY <1>3, <1>9, <2>1 DEF OneAtATime
  <2> QED
    BY <1>1, <1>3, <1>5, <1>8, <2>2, <2>3 DEF OneAtATime
<1>11. /\ Ran'.requests = Bind(Ran.requests, id, made)
       /\ Ran'.got = <<>> /\ Unended(Ran')
  <2>1. RunOK(Ran) /\ Whole(Ran) /\ Unended(Ran) /\ Ran.got = <<>>
    BY <1>a, <1>3, ExecuteIsRun DEF Ran, RunOK, DocumentedRun
  <2>2. Ran' = RunOp(Ran, CreateOp(s, t, id))
    BY <1>1, <1>b, RanAppended
  <2>3. Ran' = Built(Bind(Ran.requests, id, made), Ran.sent, Ran.queued, Ran.registered, Ran.got, Ran.error)
    BY <1>0, <2>1, <2>2, RunCreate
  <2> DEFINE all == Bind(Ran.requests, id, made)
  <2> HIDE DEF all
  <2>4. Ran'.requests = all /\ Ran'.got = Ran.got /\ Ran'.error = Ran.error
    BY <2>3, BuiltFields DEF all
  <2> QED
    BY <2>1, <2>4 DEF all, Unended
<1>12. id \in DOMAIN Ran'.requests /\ Ran'.requests[id] = made
  BY <1>11 DEF Bind
<1>13. \A kind : OpsOf(ops', kind) =
                   OpsOf(ops, kind) \cup (IF kind = "create_request" THEN {CreateOp(s, t, id)} ELSE {})
  BY <1>1, <1>a, <1>b, OpsOfAppend, OtherOpFields
<1>14. /\ OpsOf(ops', "create_request") = {CreateOp(s, t, id)}
       /\ OpsOf(ops', "send_request") = {} /\ PutOps(ops') = {} /\ OpsOf(ops', "collect_response") = {}
       /\ OpsOf(ops', "open_service") = OpsOf(ops, "open_service")
  BY <1>3, <1>4, <1>13 DEF DocumentedRun, PutOps
<1>15. InProgress(new)'
  BY <1>b, <1>6, <1>7, <1>8, <1>12, <1>14 DEF InProgress
<1>16. \A n \in DOMAIN requests' : requests'[n].done = FALSE => requests'[n] = new
  BY <1>4, <1>9
<1>17. m \in DOMAIN requests' /\ requests'[m].done = FALSE
  BY <1>6, <1>9
<1>18. \A n \in DOMAIN requests' : requests'[n].done = FALSE => InProgress(requests[n])'
  BY <1>15, <1>16 DEF InProgress
<1> QED
  BY <1>1, <1>3, <1>5, <1>8, <1>10, <1>11, <1>14, <1>17, <1>18 DEF DocumentedRun
(* An element is put into the request that is under way, before its send.  *)
WithPath(objects, n, p) == [objects EXCEPT ![n].paths = Append(@, p)]

LEMMA PutKeeps ==
  ASSUME NEW objects \in Seq(RequestObjects), NEW n \in DOMAIN objects, NEW p \in Paths,
         NEW more, more = WithPath(objects, n, p),
         NEW q, q = Append(objects[n].paths, p)
  PROVE  /\ DOMAIN more = DOMAIN objects /\ Len(more) = Len(objects)
         /\ more[n].paths = q
         /\ \A m \in DOMAIN objects : m # n => more[m] = objects[m]
         /\ \A m \in DOMAIN objects :
              /\ more[m].service = objects[m].service /\ more[m].type = objects[m].type
              /\ more[m].id = objects[m].id /\ more[m].done = objects[m].done
<1>1. objects[n] \in RequestObjects
  OBVIOUS
<1> DEFINE r == objects[n]  new == [r EXCEPT !.paths = Append(@, p)]
<1>2. /\ new.service = r.service /\ new.type = r.type /\ new.id = r.id /\ new.done = r.done
      /\ new.paths = q
  BY <1>1 DEF RequestObjects
<1>3. more = [objects EXCEPT ![n] = new]
  BY DEF WithPath
<1> HIDE DEF new
<1>4. /\ DOMAIN more = DOMAIN objects /\ Len(more) = Len(objects) /\ more[n] = new
      /\ \A m \in DOMAIN objects : m # n => more[m] = objects[m]
  BY <1>3
<1> QED
  BY <1>2, <1>4

LEMMA DistinctAppend ==
  ASSUME NEW q \in Seq(Paths), \A i, j \in DOMAIN q : q[i] = q[j] => i = j,
         NEW p \in Paths, p \notin ToSet(q)
  PROVE  \A i, j \in DOMAIN Append(q, p) : Append(q, p)[i] = Append(q, p)[j] => i = j
<1> DEFINE more == Append(q, p)  m == Len(q) + 1
<1>1. DOMAIN more = DOMAIN q \cup {m} /\ more[m] = p /\ \A i \in DOMAIN q : more[i] = q[i]
  OBVIOUS
<1>2. \A i \in DOMAIN q : q[i] # p
  BY DEF ToSet
<1> HIDE DEF more, m
<1>3. \A i, j \in DOMAIN more : more[i] = more[j] => i = j
  BY <1>1, <1>2
<1> QED
  BY <1>3 DEF more

LEMMA DocumentedPut ==
  ASSUME SessionTypes, DocumentedInv, NEW n, NEW p \in Paths, Put(n, p), documented'
  PROVE  OneAtATime' /\ DocumentedRun'
<1>1. /\ n \in DOMAIN requests /\ p \notin ToSet(requests[n].paths)
      /\ requests' = [requests EXCEPT ![n].paths = Append(@, p)]
      /\ documented /\ n \notin {pending[c] : c \in DOMAIN pending} /\ requests[n].done = FALSE
      /\ UNCHANGED <<counter, ops, pending>>
  <2>1. requests[n] \in RequestObjects
    BY DEF SessionTypes, Put
  <2>2. requests[n].done \in BOOLEAN
    BY <2>1 DEF RequestObjects
  <2>3. ~ requests[n].done
    BY DEF Put
  <2>4. requests[n].done = FALSE
    BY <2>2, <2>3
  <2> QED
    BY <2>4 DEF Put
<1>2. OneAtATime /\ DocumentedRun
  BY <1>1 DEF DocumentedInv
<1>3. requests \in Seq(RequestObjects) /\ \A c \in DOMAIN pending : pending[c] \in DOMAIN requests
  BY DEF SessionTypes
<1>4. DOMAIN pending = {}
  <2>1. ASSUME NEW c \in DOMAIN pending PROVE FALSE
    <3>1. pending[c] = Len(requests) /\ n = Len(requests)
      BY <1>1, <1>2, <1>3 DEF OneAtATime
    <3> QED
      BY <1>1, <3>1
  <2> QED
    BY <2>1
<1>5. PICK more, longer : more = requests' /\ longer = Append(requests[n].paths, p)
  OBVIOUS
<1>6. /\ DOMAIN more = DOMAIN requests /\ Len(more) = Len(requests)
      /\ more[n].paths = longer
      /\ \A m \in DOMAIN requests : m # n => more[m] = requests[m]
      /\ \A m \in DOMAIN requests :
           /\ more[m].service = requests[m].service /\ more[m].type = requests[m].type
           /\ more[m].id = requests[m].id /\ more[m].done = requests[m].done
  <2>1. /\ DOMAIN requests' = DOMAIN requests /\ Len(requests') = Len(requests)
        /\ requests'[n].paths = longer
        /\ \A m \in DOMAIN requests : m # n => requests'[m] = requests[m]
        /\ \A m \in DOMAIN requests :
             /\ requests'[m].service = requests[m].service /\ requests'[m].type = requests[m].type
             /\ requests'[m].id = requests[m].id /\ requests'[m].done = requests[m].done
    <3>1. requests' = WithPath(requests, n, p)
      BY <1>1 DEF WithPath
    <3>2. requests \in Seq(RequestObjects) /\ longer = Append(requests[n].paths, p) /\ n \in DOMAIN requests
      BY <1>1, <1>3, <1>5
    <3> QED
      BY <3>1, <3>2, PutKeeps
  <2> QED
    BY <1>5, <2>1
<1>7. Open' = Open /\ Ran' = Ran
  BY <1>1 DEF Open, Ran
<1>8. OneAtATime'
  <2>1. \A i, j \in DOMAIN more[n].paths : more[n].paths[i] = more[n].paths[j] => i = j
    <3>0. requests[n] \in RequestObjects
      BY <1>1, <1>3
    <3>1. requests[n].paths \in Seq(Paths)
      BY <3>0 DEF RequestObjects
    <3>2. \A i, j \in DOMAIN requests[n].paths : requests[n].paths[i] = requests[n].paths[j] => i = j
      BY <1>1, <1>2 DEF OneAtATime
    <3>3. PICK q : q = requests[n].paths
      OBVIOUS
    <3>4. q \in Seq(Paths) /\ p \notin ToSet(q) /\ \A i, j \in DOMAIN q : q[i] = q[j] => i = j
      BY <1>1, <3>1, <3>2, <3>3
    <3>5. more[n].paths = Append(q, p)
      BY <1>5, <1>6, <3>3
    <3>6. \A i, j \in DOMAIN Append(q, p) : Append(q, p)[i] = Append(q, p)[j] => i = j
      BY <3>4, DistinctAppend
    <3> QED
      BY <3>5, <3>6
  <2>2. \A m \in DOMAIN more : \A i, j \in DOMAIN more[m].paths :
          more[m].paths[i] = more[m].paths[j] => i = j
    BY <1>2, <1>6, <2>1 DEF OneAtATime
  <2>3. \A m \in DOMAIN more : more[m].done = FALSE => m = Len(more)
    BY <1>2, <1>6 DEF OneAtATime
  <2>4. (\A s, t \in Open' : s = t) /\ DOMAIN pending' = {}
    BY <1>1, <1>2, <1>4, <1>7 DEF OneAtATime
  <2> QED
    BY <1>5, <2>2, <2>3, <2>4 DEF OneAtATime
<1>9. ASSUME NEW m \in DOMAIN requests, InProgress(requests[m])
      PROVE  InProgress(requests[m])'
  <2>1. PICK r, new : r = requests[m] /\ new = more[m]
    OBVIOUS
  <2>2. new.service = r.service /\ new.type = r.type /\ new.id = r.id /\ Bare(new) = Bare(r)
    BY <1>6, <2>1 DEF Bare
  <2>3. InProgress(new)'
    BY <1>1, <1>7, <1>9, <2>1, <2>2 DEF InProgress
  <2> QED
    BY <1>5, <2>1, <2>3 DEF InProgress
<1>10. \A m \in DOMAIN requests' : requests'[m].done = FALSE => InProgress(requests[m])'
  <2>1. ASSUME NEW m \in DOMAIN requests, requests'[m].done = FALSE PROVE InProgress(requests[m])'
    <3>1. requests[m].done = FALSE
      BY <1>5, <1>6, <2>1
    <3> QED
      BY <1>2, <1>9, <3>1 DEF DocumentedRun
  <2>2. DOMAIN requests' = DOMAIN requests
    BY <1>5, <1>6
  <2> QED
    BY <2>1, <2>2
<1>11. (\A m \in DOMAIN requests' : requests'[m].done # FALSE) =>
         \A m \in DOMAIN requests : requests[m].done # FALSE
  BY <1>5, <1>6
<1> QED
  BY <1>1, <1>2, <1>4, <1>7, <1>8, <1>10, <1>11 DEF DocumentedRun

(* The send takes the request with all its elements.                       *)
LEMMA BareGrows ==
  ASSUME NEW r \in RequestObjects
  PROVE  Longer(Bare(r), r.paths) = Asked(r)
<1>1. r.paths \in Seq(Paths)
  BY DEF RequestObjects
<1>2. <<>> \o r.paths = r.paths
  BY <1>1
<1> QED
  BY <1>2 DEF Longer, Bare, Asked

LEMMA DocumentedSend ==
  ASSUME SessionTypes, DocumentedInv, NEW n, SendRequestCall(n), documented'
  PROVE  OneAtATime' /\ DocumentedRun'
<1>1. PICK r, c : r = requests[n] /\ c = cids + 1
  OBVIOUS
<1>2. /\ n \in DOMAIN requests /\ ops' = ops \o Sent(n, c) /\ pending' = Bind(pending, c, n)
      /\ documented /\ ~ r.done /\ n \notin {pending[d] : d \in DOMAIN pending}
      /\ Required[r.type] \subseteq ToSet(r.paths)
      /\ UNCHANGED <<counter, requests>>
  BY <1>1 DEF SendRequestCall
<1>3. /\ requests \in Seq(RequestObjects) /\ ops \in Seq(AllOps) /\ c \in Nat
      /\ \A d \in DOMAIN pending : pending[d] \in DOMAIN requests
  BY <1>1 DEF SessionTypes, Recorded
<1>4. r \in RequestObjects
  BY <1>1, <1>2, <1>3
<1>5. r.done = FALSE
  <2>1. r.done \in BOOLEAN
    BY <1>4 DEF RequestObjects
  <2> QED
    BY <1>2, <2>1
<1>6. OneAtATime /\ DocumentedRun
  BY <1>2 DEF DocumentedInv
<1>7. n = Len(requests)
  BY <1>1, <1>2, <1>5, <1>6 DEF OneAtATime
<1>8. DOMAIN pending = {}
  <2>1. ASSUME NEW d \in DOMAIN pending PROVE FALSE
    <3>1. pending[d] = Len(requests)
      BY <1>3, <1>6 DEF OneAtATime
    <3> QED
      BY <1>2, <1>7, <3>1
  <2> QED
    BY <2>1
<1>9. InProgress(r)
  BY <1>1, <1>2, <1>5, <1>6 DEF DocumentedRun
<1>10. /\ PutOps(ops) = {} /\ OpsOf(ops, "send_request") = {}
       /\ r.id \in DOMAIN Ran.requests /\ Ran.requests[r.id] = Bare(r) /\ r.service \in Open
       /\ OpsOf(ops, "create_request") = {CreateOp(r.service, r.type, r.id)}
  BY <1>8, <1>9 DEF InProgress
<1>11. DOMAIN pending' = {c} /\ pending'[c] = n
  BY <1>2, <1>8 DEF Bind
<1>12. RunOK(Ran) /\ Unended(Ran) /\ Ran.got = <<>>
  BY <1>3, <1>6, ExecuteIsRun DEF Ran, DocumentedRun
<1>13. Ran' = SentRun(Ran, r, c)
  BY <1>1, <1>2, <1>3, <1>10, <1>12, RanSent
<1>14. /\ Ran'.got = <<>> /\ Unended(Ran') /\ c \in Ran'.queued /\ r.id \in DOMAIN Ran'.requests
       /\ Ran'.sent[c] = Asked(r)
  <2>1. Longer(Ran.requests[r.id], r.paths) = Asked(r)
    BY <1>4, <1>10, BareGrows
  <2>2. PICK next : next = SentRun(Ran, r, c)
    OBVIOUS
  <2>3. /\ next.got = Ran.got /\ next.error = Ran.error /\ c \in next.queued /\ r.id \in DOMAIN next.requests
        /\ next.sent[c] = Longer(Ran.requests[r.id], r.paths)
    BY <1>10, <1>12, <2>2, SentRunFields
  <2>4. next = Ran'
    BY <1>13, <2>2
  <2> QED
    BY <1>12, <2>1, <2>3, <2>4 DEF Unended
<1>15. /\ OpsOf(ops', "open_service") = OpsOf(ops, "open_service")
       /\ OpsOf(ops', "create_request") = OpsOf(ops, "create_request")
       /\ OpsOf(ops', "collect_response") = OpsOf(ops, "collect_response")
       /\ OpsOf(ops', "send_request") = {SendOp(r.id, c)}
       /\ PutOps(ops') = PutsMade(r)
       /\ AppendsOnce(ops')
  <2>1. PICK more : more = ops'
    OBVIOUS
  <2>2. more = SentPlan(ops, r, c)
    BY <1>1, <1>2, <2>1, SentIs DEF SentPlan
  <2>3. /\ \A kind \in {"open_service", "create_request", "collect_response"} :
              OpsOf(more, kind) = OpsOf(ops, kind)
        /\ OpsOf(more, "send_request") = OpsOf(ops, "send_request") \cup {SendOp(r.id, c)}
        /\ PutOps(more) = PutOps(ops) \cup PutsMade(r)
    <3>1. ops \in Seq(AllOps) /\ r \in RequestObjects /\ c \in Nat /\ more = SentPlan(ops, r, c)
      BY <1>3, <1>4, <2>2
    <3>2. \A kind \in {"open_service", "create_request", "collect_response"} :
            OpsOf(more, kind) = OpsOf(ops, kind)
      BY <3>1, OpsOfSent
    <3>3. OpsOf(more, "send_request") = OpsOf(ops, "send_request") \cup {SendOp(r.id, c)}
      BY <3>1, OpsOfSent
    <3>4. PutOps(more) = PutOps(ops) \cup PutsMade(r)
      BY <3>1, OpsOfSent
    <3> QED
      BY <3>2, <3>3, <3>4
  <2>4. OpsOf(ops, "append") = {}
    BY <1>10 DEF PutOps
  <2>5. \A i, j \in DOMAIN r.paths : r.paths[i] = r.paths[j] => i = j
    BY <1>1, <1>2, <1>6 DEF OneAtATime
  <2>6. AppendsOnce(more)
    BY <1>3, <1>4, <2>2, <2>4, <2>5, AppendsOnceSent
  <2> QED
    BY <1>10, <2>1, <2>3, <2>6
<1>16. Open' = Open
  BY <1>2 DEF Open
<1>17. OneAtATime'
  BY <1>1, <1>2, <1>5, <1>6, <1>11, <1>16 DEF OneAtATime
<1>18. InProgress(r)'
  BY <1>10, <1>11, <1>14, <1>15, <1>16 DEF InProgress
<1>19. Waiting(r, c)'
  BY <1>2, <1>14, <1>15 DEF Waiting
<1>20. \A m \in DOMAIN requests' : requests'[m].done = FALSE => requests'[m] = r
  BY <1>1, <1>2, <1>6, <1>7 DEF OneAtATime
<1>21. \A m \in DOMAIN requests' : requests'[m].done = FALSE => InProgress(requests[m])'
  BY <1>18, <1>20 DEF InProgress
<1>22. \A d \in DOMAIN pending' : Waiting(requests[pending[d]], d)'
  BY <1>1, <1>2, <1>11, <1>19 DEF Waiting
<1>23. n \in DOMAIN requests' /\ requests'[n].done = FALSE
  BY <1>1, <1>2, <1>5
<1> QED
  BY <1>6, <1>14, <1>15, <1>16, <1>17, <1>21, <1>22, <1>23 DEF DocumentedRun

(* An answer ends the request, and the next plan begins anew.              *)
LEMMA DocumentedAnswered ==
  ASSUME SessionTypes, DocumentedInv, NEW c \in DOMAIN pending, documented,
         pending' = NoLongerPending(c), requests' = [requests EXCEPT ![pending[c]].done = TRUE],
         ops' = Reopened, UNCHANGED counter
  PROVE  OneAtATime' /\ DocumentedRun'
<1>1. OneAtATime /\ DocumentedRun
  BY DEF DocumentedInv
<1>2. requests \in Seq(RequestObjects) /\ pending[c] \in DOMAIN requests /\ IsFiniteSet(Open)
  BY DEF SessionTypes
<1>3. DOMAIN pending' = {}
  BY <1>1 DEF OneAtATime, NoLongerPending
<1>4. PICK n, more : n = pending[c] /\ more = requests'
  OBVIOUS
<1>5. /\ DOMAIN more = DOMAIN requests /\ more[n].done # FALSE
      /\ \A m \in DOMAIN requests : m # n => more[m] = requests[m]
      /\ \A m \in DOMAIN requests : more[m].paths = requests[m].paths
  <2>1. PICK objects : objects = requests
    OBVIOUS
  <2>2. more = Finished(objects, n) /\ n \in DOMAIN objects /\ objects \in Seq(RequestObjects)
    BY <1>2, <1>4, <2>1 DEF Finished
  <2>3. /\ DOMAIN more = DOMAIN objects /\ more[n].done # FALSE
        /\ \A m \in DOMAIN objects : m # n => more[m] = objects[m]
        /\ \A m \in DOMAIN objects : more[m].paths = objects[m].paths
    BY <2>2, DoneKeeps
  <2> QED
    BY <2>1, <2>3
<1>6. \A m \in DOMAIN more : more[m].done # FALSE
  <2>1. ASSUME NEW m \in DOMAIN requests, m # n PROVE requests[m].done # FALSE
    <3>1. n = Len(requests)
      BY <1>1, <1>2, <1>4 DEF OneAtATime
    <3> QED
      BY <1>1, <2>1, <3>1 DEF OneAtATime
  <2> QED
    BY <1>5, <2>1
<1>7. Open' = Open
  BY DEF Open
<1>8. OneAtATime'
  <2>1. \A m \in DOMAIN more : \A i, j \in DOMAIN more[m].paths : more[m].paths[i] = more[m].paths[j] => i = j
    BY <1>1, <1>5 DEF OneAtATime
  <2> QED
    BY <1>1, <1>3, <1>4, <1>6, <1>7, <2>1 DEF OneAtATime
<1>9. Unended(Ran') /\ Ran'.got = <<>>
  <2>1. Ran' = Fresh
    BY <1>2, ReopenedIsFresh DEF Ran
  <2> QED
    BY <2>1 DEF Fresh, Unended
<1>10. \A k \in DOMAIN ops' : ops'[k] = StartOp \/ \E s \in Open : ops'[k] = OpenOp(s)
  BY <1>2, ReopenedIs
<1>11. \A k \in DOMAIN ops' : \/ ops'[k].op = "start_session"
                              \/ ops'[k].op = "open_service" /\ ops'[k].service \in Open'
  BY <1>7, <1>10, OtherOpFields
<1>12. \A o \in OpsOf(ops', "open_service") : o.service \in Open'
  BY <1>11 DEF OpsOf
<1>13. /\ OpsOf(ops', "create_request") = {} /\ OpsOf(ops', "send_request") = {}
       /\ OpsOf(ops', "collect_response") = {} /\ PutOps(ops') = {}
  BY <1>11 DEF OpsOf, PutOps
<1>14. \A m \in DOMAIN requests' : requests'[m].done # FALSE
  BY <1>4, <1>6
<1> QED
  BY <1>3, <1>8, <1>9, <1>12, <1>13, <1>14 DEF DocumentedRun

LEMMA DocumentedStep ==
  SessionTypes /\ DocumentedInv /\ [SessionNext]_sessionVars => DocumentedInv'
<1> SUFFICES ASSUME SessionTypes, DocumentedInv, [SessionNext]_sessionVars, documented'
             PROVE  OneAtATime' /\ DocumentedRun'
  BY DEF DocumentedInv
<1>0. counter \in [Services -> {-1} \cup Nat] /\ ops \in Seq(AllOps) /\ RunOK(Ran)
  BY ExecuteIsRun DEF SessionTypes, Recorded, Ran
<1>1. CASE StartSession
  <2>1. /\ documented /\ ops' = Append(ops, StartOp) /\ UNCHANGED <<counter, requests, pending>>
    BY <1>1 DEF StartSession
  <2>2. Ran' = Ran
    BY <1>0, <2>1, AllOpsHas, RanAppended, RunStartOpen
  <2>3. Open' = Open /\ \A s, t \in Open : s = t
    BY <2>1 DEF Open, DocumentedInv, OneAtATime
  <2> QED
    BY <2>1, <2>2, <2>3, AllOpsHas, OtherOpFields, DocumentedStart
<1>2. ASSUME NEW s \in Services, OpenService(s) PROVE OneAtATime' /\ DocumentedRun'
  <2>1. /\ documented /\ Open = {} /\ ops' = Append(ops, OpenOp(s)) /\ UNCHANGED <<requests, pending>>
        /\ counter' = [counter EXCEPT ![s] = 0]
    BY <1>2 DEF OpenService
  <2>2. OpenOp(s) \in AllOps /\ OpenOp(s).op = "open_service" /\ OpenOp(s).service = s
    BY AllOpsHas, OtherOpFields
  <2>3. Ran' = Ran
    BY <1>0, <2>1, <2>2, RanAppended, RunStartOpen
  <2>4. Open' = {s}
    BY <1>0, <2>1 DEF Open
  <2>5. PICK o : o = OpenOp(s)
    OBVIOUS
  <2> QED
    BY <2>1, <2>2, <2>3, <2>4, <2>5, DocumentedStart
<1>3. ASSUME NEW s \in Services, NEW t \in Types, CreateRequestCall(s, t) PROVE OneAtATime' /\ DocumentedRun'
  BY <1>3, DocumentedCreate
<1>4. ASSUME NEW n, NEW p \in Paths, Put(n, p) PROVE OneAtATime' /\ DocumentedRun'
  BY <1>4, DocumentedPut
<1>5. ASSUME NEW n, SendRequestCall(n) PROVE OneAtATime' /\ DocumentedRun'
  BY <1>5, DocumentedSend
<1>6. ASSUME NEW c, NotReached(c) \/ LostAnswer(c) \/ Rejected(c) PROVE FALSE
  BY <1>6 DEF NotReached, LostAnswer, Rejected, CollectRaises
<1>7. ASSUME NEW c, Answered(c) PROVE OneAtATime' /\ DocumentedRun'
  <2>1. CASE CollectRaises(c, "error", Execute(Plan(c)))
    BY <2>1 DEF CollectRaises
  <2>2. CASE ~ CollectRaises(c, "error", Execute(Plan(c)))
    <3>1. /\ c \in DOMAIN pending /\ pending' = NoLongerPending(c)
          /\ requests' = [requests EXCEPT ![pending[c]].done = TRUE]
          /\ ops' = Reopened /\ UNCHANGED counter /\ documented
      BY <1>7, <2>2 DEF Answered
    <3> QED
      BY <3>1, DocumentedAnswered
  <2> QED
    BY <2>1, <2>2
<1>8. CASE UNCHANGED sessionVars
  <2>1. UNCHANGED <<counter, requests, ops, pending, documented>>
    BY <1>8 DEF sessionVars, client
  <2>2. OneAtATime /\ DocumentedRun /\ Open' = Open /\ Ran' = Ran
    BY <2>1 DEF DocumentedInv, Open, Ran
  <2>3. OneAtATime'
    BY <2>1, <2>2 DEF OneAtATime
  <2>4. \A r : InProgress(r) => InProgress(r)'
    BY <2>1, <2>2 DEF InProgress
  <2>5. \A r, c : Waiting(r, c) => Waiting(r, c)'
    BY <2>1, <2>2 DEF Waiting
  <2>6. DocumentedRun'
    BY <2>1, <2>2, <2>4, <2>5 DEF DocumentedRun
  <2> QED
    BY <2>3, <2>6
<1>9. CASE StopSession
  BY <1>9 DEF StopSession
<1> QED
  BY <1>1, <1>2, <1>3, <1>4, <1>5, <1>6, <1>7, <1>8, <1>9 DEF SessionNext

(* What a documented collect comes to.                                     *)
LEMMA DocumentedServed ==
  ASSUME SessionTypes, OneAtATime, DocumentedRun, NEW c \in DOMAIN pending,
         NEW r, r = requests[pending[c]]
  PROVE  /\ Status(Execute(Plan(c))) = "ok"
         /\ OpsOf(Plan(c), "send_request") = {SendOp(r.id, c)}
         /\ Execute(Plan(c)).got = <<[cid |-> c, request |-> Asked(r)]>>
<1>1. Waiting(r, c) /\ Unended(Ran) /\ Ran.got = <<>>
  BY DEF DocumentedRun
<1>2. c \in Ran.queued /\ Ran.sent[c] = Asked(r) /\ OpsOf(ops, "send_request") = {SendOp(r.id, c)}
  BY <1>1 DEF Waiting
<1>3. Unended(Execute(Plan(c)))
  BY <1>1, <1>2, RanCollected
<1>4. Status(Execute(Plan(c))) = "ok"
  BY <1>3 DEF Status, Unended
<1>5. Execute(Plan(c)).got = Append(Ran.got, [cid |-> c, request |-> Ran.sent[c]])
  BY <1>3, RanCollected
<1>6. Append(Ran.got, [cid |-> c, request |-> Ran.sent[c]]) = <<[cid |-> c, request |-> Asked(r)]>>
  BY <1>1, <1>2
<1>7. OpsOf(Plan(c), "send_request") = {SendOp(r.id, c)}
  BY <1>2, PlanOps
<1> QED
  BY <1>4, <1>5, <1>6, <1>7

LEMMA DocumentedWorksStep ==
  SessionTypes /\ DocumentedInv /\ DocumentedUseWorks /\ [SessionNext]_sessionVars => DocumentedUseWorks'
<1> SUFFICES ASSUME SessionTypes, DocumentedInv, DocumentedUseWorks, [SessionNext]_sessionVars
             PROVE  DocumentedUseWorks'
  OBVIOUS
<1>1. CASE last' = <<>> \/ last' = last
  BY <1>1 DEF DocumentedUseWorks
<1>2. ASSUME NEW c \in DOMAIN pending, NEW run, last' = Outcome(c, "lost", run) PROVE DocumentedUseWorks'
  BY <1>2, OutcomeFields DEF DocumentedUseWorks
<1>3. ASSUME NEW c \in DOMAIN pending, last' = Outcome(c, "rejected", Fresh), ~ Valid(Plan(c)), last'.documented
      PROVE  DocumentedUseWorks'
  <2>1. PICK r : r = requests[pending[c]]
    OBVIOUS
  <2>2. last'.want = r /\ last'.status = "rejected" /\ OneAtATime /\ DocumentedRun
    BY <1>3, <2>1, OutcomeFields DEF DocumentedInv
  <2>3. \/ r.service \notin AllowedServices \/ r.type \notin AllowedTypes
        \/ MaxSecurities = 0 \/ MaxFields = 0 \/ ~ (Timeout <= MaxTimeout)
    BY <1>3, <2>1, <2>2, DocumentedValid
  <2>4. ~ (Timeout <= MaxTimeout) => Timeout > MaxTimeout
    BY SessionAssumption, PlanExecutionAssumption
  <2> QED
    BY <2>2, <2>3, <2>4 DEF DocumentedUseWorks
<1>4. ASSUME NEW c \in DOMAIN pending, last' = Outcome(c, Status(Execute(Plan(c))), Execute(Plan(c))),
             last'.documented
      PROVE  DocumentedUseWorks'
  <2>1. PICK r : r = requests[pending[c]]
    OBVIOUS
  <2>2. OneAtATime /\ DocumentedRun
    BY <1>4, OutcomeFields DEF DocumentedInv
  <2>3. /\ last'.want = r /\ last'.cid = c /\ last'.status = Status(Execute(Plan(c)))
        /\ last'.got = Execute(Plan(c)).got /\ last'.plan = Plan(c)
    BY <1>4, <2>1, OutcomeFields
  <2>4. /\ Status(Execute(Plan(c))) = "ok"
        /\ OpsOf(Plan(c), "send_request") = {SendOp(r.id, c)}
        /\ Execute(Plan(c)).got = <<[cid |-> c, request |-> Asked(r)]>>
    BY <2>1, <2>2, DocumentedServed
  <2>5. /\ last'.status = "ok"
        /\ OpsOf(last'.plan, "send_request") = {SendOp(last'.want.id, last'.cid)}
        /\ last'.got = <<[cid |-> last'.cid, request |-> Asked(last'.want)]>>
    BY <2>3, <2>4
  <2> QED
    BY <2>5 DEF DocumentedUseWorks, Asked
<1>5. CASE last' # <<>> /\ ~ last'.documented
  BY <1>5 DEF DocumentedUseWorks
<1> QED
  BY <1>1, <1>2, <1>3, <1>4, <1>5, LastStep

(* A user who keeps to the example in the docstring of Session, one service *)
(* and one request at a time, gets for each collect that the server answers *)
(* exactly the answer to that request, with all its elements; the server    *)
(* turns such a plan away only for a service, a type or a limit it does not *)
(* allow, and never answers it with an error.                               *)
THEOREM DocumentedUseIsServed == SessionSpec => []DocumentedUseWorks
<1> DEFINE Inv == SessionTypes /\ DocumentedInv /\ DocumentedUseWorks
<1>1. SessionInit => Inv
  BY SessionTypesInit, DocumentedInit DEF SessionInit, DocumentedUseWorks
<1>2. Inv /\ [SessionNext]_sessionVars => Inv'
  BY SessionTypesStep, DocumentedStep, DocumentedWorksStep
<1>3. Inv => DocumentedUseWorks
  OBVIOUS
<1> QED
  BY <1>1, <1>2, <1>3, PTL DEF SessionSpec
=============================================================================
