---------------------------- MODULE SchemaCache ----------------------------
(***************************************************************************)
(* Service schemas are cached twice: by each server (schema_cache.py),     *)
(* which introspects a service once, and by the client process (data.py    *)
(* get_service_schema), which asks with the ETag of what it has.  The      *)
(* client's cache is one for all its hosts and threads.                    *)
(*                                                                         *)
(* One service.  A schema is a version number, Broken for one that the     *)
(* server assembled although blpapi raised (it swallows the exceptions);   *)
(* an ETag is a hash of the schema, so the schema stands for it.           *)
(***************************************************************************)
EXTENDS Integers

CONSTANTS SchemaThreads, SchemaHosts, NoSchema, Broken,
          MaxVersion, MaxRestarts, MaxCalls   \* bounds

VARIABLES
  version,    \* the schema Bloomberg has
  reachable,  \* host -> its session with Bloomberg is up
  cached,     \* host -> SchemaCache._cache
  seen,       \* history: host -> the versions since it booted
  restarts,
  local,      \* _SCHEMA_CACHE: the client's (etag, body)
  at,         \* thread -> "idle", "asked", "answered"
  target,     \* thread -> the host of its call
  sent,       \* thread -> the cache entry it read, whose ETag it sent
  answer,     \* thread -> [status, body] of the response
  returned,   \* thread -> [body, had]: what a call returned, and what the
              \* server had when it answered
  calls

server == <<version, reachable, cached, seen, restarts>>
client == <<local, at, target, sent, answer, returned, calls>>
schemaVars == <<server, client>>

NoAnswer == [status |-> 0, body |-> NoSchema, had |-> NoSchema]
NoResult == [body |-> NoSchema, had |-> NoSchema]

SchemaInit ==
  /\ version = 1
  /\ reachable = [h \in SchemaHosts |-> TRUE]
  /\ cached = [h \in SchemaHosts |-> NoSchema]
  /\ seen = [h \in SchemaHosts |-> {1}]
  /\ restarts = 0
  /\ local = NoSchema
  /\ at = [t \in SchemaThreads |-> "idle"]
  /\ target = [t \in SchemaThreads |-> CHOOSE h \in SchemaHosts : TRUE]
  /\ sent = [t \in SchemaThreads |-> NoSchema]
  /\ answer = [t \in SchemaThreads |-> NoAnswer]
  /\ returned = [t \in SchemaThreads |-> NoResult]
  /\ calls = 0

----------------------------------------------------------------------------
(* The servers.                                                            *)

\* A Terminal update.
Upgrade ==
  /\ version < MaxVersion
  /\ version' = version + 1
  /\ seen' = [h \in SchemaHosts |-> seen[h] \cup {version'}]
  /\ UNCHANGED <<reachable, cached, restarts, client>>

\* The session is lost, or a new one is up.  The cache is left as it is.
SessionChanges(h) ==
  /\ reachable' = [reachable EXCEPT ![h] = ~@]
  /\ UNCHANGED <<version, cached, seen, restarts, client>>

\* The lifespan of a server makes a new cache.
Restart(h) ==
  /\ restarts < MaxRestarts
  /\ restarts' = restarts + 1
  /\ cached' = [cached EXCEPT ![h] = NoSchema]
  /\ seen' = [seen EXCEPT ![h] = {version}]
  /\ UNCHANGED <<version, reachable, client>>

\* warm(): what the service says of itself, or as much as could be read of it.
Introspected == {version, Broken}

Respond(t, s) ==
  /\ answer' = [answer EXCEPT ![t] = [status |-> IF sent[t] = s THEN 304 ELSE 200, body |-> s, had |-> s]]
  /\ at' = [at EXCEPT ![t] = "answered"]
  /\ UNCHANGED <<version, reachable, seen, restarts, local, target, sent, returned, calls>>

ServeCached(t) ==
  /\ at[t] = "asked" /\ cached[target[t]] # NoSchema
  /\ Respond(t, cached[target[t]])
  /\ UNCHANGED cached

ServeWarmed(t) ==
  /\ at[t] = "asked" /\ cached[target[t]] = NoSchema /\ reachable[target[t]]
  /\ \E s \in Introspected :
       /\ cached' = [cached EXCEPT ![target[t]] = s]
       /\ Respond(t, s)

\* get_service raises: 502, and the call raises too.
ServeFails(t) ==
  /\ at[t] = "asked" /\ cached[target[t]] = NoSchema /\ ~reachable[target[t]]
  /\ at' = [at EXCEPT ![t] = "idle"]
  /\ UNCHANGED <<server, local, target, sent, answer, returned, calls>>

----------------------------------------------------------------------------
(* get_service_schema.                                                     *)

\* With force the client sends no ETag.
Ask(t, h, force) ==
  /\ at[t] = "idle" /\ calls < MaxCalls
  /\ calls' = calls + 1
  /\ sent' = [sent EXCEPT ![t] = IF force THEN NoSchema ELSE local]
  /\ target' = [target EXCEPT ![t] = h]
  /\ at' = [at EXCEPT ![t] = "asked"]
  /\ UNCHANGED <<server, local, answer, returned>>

Shared(t) == local   \* faulty: looks the entry up again

Kept(t) == sent[t]

\* 304: the entry it read before asking; 200: the new body, which is kept.
Return(t) ==
  /\ at[t] = "answered"
  /\ LET body == IF answer[t].status = 304 THEN Kept(t) ELSE answer[t].body
     IN  returned' = [returned EXCEPT ![t] = [body |-> body, had |-> answer[t].had]]
  /\ local' = IF answer[t].status = 200 THEN answer[t].body ELSE local
  /\ at' = [at EXCEPT ![t] = "idle"]
  /\ answer' = [answer EXCEPT ![t] = NoAnswer]
  /\ sent' = [sent EXCEPT ![t] = NoSchema]
  /\ UNCHANGED <<server, target, calls>>

SchemaNext ==
  \/ Upgrade
  \/ \E h \in SchemaHosts : SessionChanges(h) \/ Restart(h)
  \/ \E t \in SchemaThreads :
       \/ \E h \in SchemaHosts, force \in BOOLEAN : Ask(t, h, force)
       \/ ServeCached(t) \/ ServeWarmed(t) \/ ServeFails(t) \/ Return(t)

SchemaSpec == SchemaInit /\ [][SchemaNext]_schemaVars

----------------------------------------------------------------------------

\* A call returns the schema that the server it asked had when it answered, also
\* when another thread, or a call to another server, has replaced the entry
\* whose ETag it sent: a 304 is about the entry the call read.
BodyIsTheServers == \A t \in SchemaThreads : returned[t].body = returned[t].had
============================================================================
