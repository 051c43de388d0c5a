-------------------------- MODULE SseStreamProofs ---------------------------
(***************************************************************************)
(* Live subscriptions, for any number of streams, workers, events and lost *)
(* sessions: an open stream is sent every event, in order, with one job in *)
(* the pool at the most, and one that was closed leaves nothing behind;    *)
(* and the client's end of a stream, which is given the frames that were   *)
(* sent.                                                                   *)
(* The argument is in README.md.                                           *)
(***************************************************************************)
EXTENDS SseStream, SseClient, SequenceTheorems, FiniteSetTheorems, TLAPS

-----------------------------------------------------------------------------
(* Sequences                                                               *)

LEMMA Regroup ==
  ASSUME NEW S, NEW x \in Seq(S), NEW y \in Seq(S), NEW z \in Seq(S)
  PROVE  x \o (y \o z) = (x \o y) \o z
  BY ConcatAssociative

LEMMA HeadAndTail ==
  ASSUME NEW S, NEW q \in Seq(S), q # <<>>
  PROVE  <<Head(q)>> \o Tail(q) = q
<1>1. Head(q) \in S /\ Tail(q) \in Seq(S) /\ Len(Tail(q)) = Len(q) - 1
      /\ \A i \in 1..Len(Tail(q)) : Tail(q)[i] = q[i + 1]
  BY HeadTailProperties
<1>2. <<Head(q)>> \in Seq(S) /\ Len(<<Head(q)>>) = 1 /\ <<Head(q)>>[1] = q[1]
  BY <1>1
<1>3. Len(q) \in Nat
  BY LenProperties
<1>4. /\ <<Head(q)>> \o Tail(q) \in Seq(S)
      /\ Len(<<Head(q)>> \o Tail(q)) = Len(q)
      /\ \A i \in 1..Len(q) : (<<Head(q)>> \o Tail(q))[i]
           = IF i <= 1 THEN <<Head(q)>>[i] ELSE Tail(q)[i - 1]
  BY <1>1, <1>2, <1>3, ConcatProperties
<1>5. \A i \in 1..Len(q) : (<<Head(q)>> \o Tail(q))[i] = q[i]
  BY <1>1, <1>2, <1>3, <1>4
<1> QED
  BY <1>4, <1>5, SeqEqual

(* The head of the queue moves into the hand of the stream.                *)
LEMMA MoveHead ==
  ASSUME NEW S, NEW h \in Seq(S), NEW q \in Seq(S), q # <<>>
  PROVE  (h \o <<Head(q)>>) \o Tail(q) = (h \o <<>>) \o q
<1>1. Head(q) \in S /\ Tail(q) \in Seq(S)
  BY HeadTailProperties
<1>2. <<Head(q)>> \in Seq(S)
  BY <1>1
<1>3. (h \o <<Head(q)>>) \o Tail(q) = h \o (<<Head(q)>> \o Tail(q))
  BY <1>1, <1>2, ConcatAssociative
<1>4. h \o <<>> = h
  BY ConcatEmptySeq
<1> QED
  BY <1>3, <1>4, HeadAndTail

(* The numbers up to n, and one more.                                      *)
Upto(n) == [i \in 1..n |-> i]

LEMMA OneMore ==
  ASSUME NEW n \in Nat, NEW S, n + 1 \in S, NEW h \in Seq(S), NEW q \in Seq(S), h \o q = Upto(n)
  PROVE  h \o Append(q, n + 1) = Upto(n + 1)
<1>1. Append(q, n + 1) = q \o <<n + 1>> /\ <<n + 1>> \in Seq(S)
  BY AppendIsConcat
<1>2. h \o (q \o <<n + 1>>) = (h \o q) \o <<n + 1>>
  BY <1>1, Regroup
<1>3. h \o q \in Seq(S)
  BY ConcatProperties
<1>4. (h \o q) \o <<n + 1>> = Append(h \o q, n + 1)
  BY <1>3, AppendIsConcat
<1>5. Upto(n) \in Seq(S) /\ Len(Upto(n)) = n
  BY <1>3 DEF Upto
<1>6. /\ Append(Upto(n), n + 1) \in Seq(S)
      /\ Len(Append(Upto(n), n + 1)) = n + 1
      /\ \A i \in 1..n : Append(Upto(n), n + 1)[i] = Upto(n)[i]
      /\ Append(Upto(n), n + 1)[n + 1] = n + 1
  BY <1>5, AppendProperties
<1>7. \A i \in 1..(n + 1) : Append(Upto(n), n + 1)[i] = i
  BY <1>6 DEF Upto
<1>8. Append(Upto(n), n + 1) = [i \in 1..(n + 1) |-> Append(Upto(n), n + 1)[i]]
  BY <1>6, LenProperties
<1>9. Append(Upto(n), n + 1) = Upto(n + 1)
  BY <1>7, <1>8 DEF Upto
<1> QED
  BY <1>1, <1>2, <1>4, <1>9

(* A sequence of distinct elements loses one of them.                      *)
Distinct(q) == \A i \in 1..Len(q), j \in 1..Len(q) : q[i] = q[j] => i = j
In(x, q)    == \E i \in 1..Len(q) : q[i] = x

LEMMA RemoveDistinct ==
  ASSUME NEW S, NEW q \in Seq(S), Distinct(q), NEW k \in 1..Len(q)
  PROVE  /\ RemoveAt(q, k) \in Seq(S)
         /\ Distinct(RemoveAt(q, k))
         /\ \A x : In(x, RemoveAt(q, k)) <=> In(x, q) /\ x # q[k]
<1> DEFINE n == Len(q)
           a == SubSeq(q, 1, k - 1)
           b == SubSeq(q, k + 1, n)
           r == a \o b
<1>1. n \in Nat /\ k \in Nat /\ \A i \in 1..n : q[i] \in S
  BY LenProperties, ElementOfSeq
<1>2. /\ a \in Seq(S) /\ Len(a) = k - 1
      /\ \A i \in 1..(k - 1) : a[i] = q[i]
  <2>1. /\ a \in Seq(S) /\ Len(a) = IF 1 <= k - 1 THEN (k - 1) - 1 + 1 ELSE 0
        /\ \A i \in 1..((k - 1) - 1 + 1) : a[i] = q[1 + i - 1]
    BY <1>1, SubSeqProperties
  <2> QED
    BY <1>1, <2>1
<1>3. /\ b \in Seq(S) /\ Len(b) = n - k
      /\ \A i \in 1..(n - k) : b[i] = q[i + k]
  <2>1. /\ b \in Seq(S) /\ Len(b) = IF k + 1 <= n THEN n - (k + 1) + 1 ELSE 0
        /\ \A i \in 1..(n - (k + 1) + 1) : b[i] = q[(k + 1) + i - 1]
    BY <1>1, SubSeqProperties
  <2> QED
    BY <1>1, <2>1
<1> HIDE DEF a, b
<1>4. /\ r \in Seq(S) /\ Len(r) = n - 1
      /\ \A i \in 1..(n - 1) : r[i] = IF i <= k - 1 THEN a[i] ELSE b[i - (k - 1)]
  <2>1. /\ r \in Seq(S) /\ Len(r) = Len(a) + Len(b)
        /\ \A i \in 1..(Len(a) + Len(b)) : r[i] = IF i <= Len(a) THEN a[i] ELSE b[i - Len(a)]
    BY <1>2, <1>3, ConcatProperties
  <2>2. Len(a) + Len(b) = n - 1
    BY <1>1, <1>2, <1>3
  <2> QED
    BY <1>2, <2>1, <2>2
<1> HIDE DEF r
<1>5. ASSUME NEW i \in 1..(n - 1) PROVE r[i] = IF i < k THEN q[i] ELSE q[i + 1]
  <2>1. CASE i < k
    BY <1>1, <1>2, <1>4, <2>1
  <2>2. CASE ~ (i < k)
    <3>1. i - (k - 1) \in 1..(n - k) /\ (i - (k - 1)) + k = i + 1
      BY <1>1, <2>2
    <3> QED
      BY <1>1, <1>3, <1>4, <2>2, <3>1
  <2> QED
    BY <2>1, <2>2
<1>6. RemoveAt(q, k) = r
  BY DEF RemoveAt, a, b, r
<1>7. Distinct(r)
  BY <1>1, <1>4, <1>5 DEF Distinct
<1>8. ASSUME NEW x, In(x, r) PROVE In(x, q) /\ x # q[k]
  <2>1. PICK i \in 1..(n - 1) : r[i] = x
    BY <1>1, <1>4, <1>8 DEF In
  <2>2. PICK j \in 1..n : q[j] = x /\ j # k
    <3>1. CASE i < k
      BY <1>1, <1>5, <2>1, <3>1
    <3>2. CASE ~ (i < k)
      BY <1>1, <1>5, <2>1, <3>2
    <3> QED
      BY <3>1, <3>2
  <2> QED
    BY <1>1, <2>2 DEF In, Distinct
<1>9. ASSUME NEW x, In(x, q), x # q[k] PROVE In(x, r)
  <2>1. PICK i \in 1..n : q[i] = x /\ i # k
    BY <1>9 DEF In
  <2>2. CASE i < k
    <3>1. i \in 1..(n - 1)
      BY <1>1, <2>1, <2>2
    <3>2. r[i] = x
      BY <1>5, <2>1, <2>2, <3>1
    <3> QED
      BY <1>4, <3>1, <3>2 DEF In
  <2>3. CASE i > k
    <3>1. i - 1 \in 1..(n - 1) /\ r[i - 1] = x
      BY <1>1, <1>5, <2>1, <2>3
    <3> QED
      BY <1>4, <3>1 DEF In
  <2> QED
    BY <1>1, <2>1, <2>2, <2>3
<1> QED
  BY <1>4, <1>6, <1>7, <1>8, <1>9

-----------------------------------------------------------------------------
(* The invariant                                                           *)

Before   == {"idle", "opening", "registering", "subscribing"}
HasQueue == {"subscribing", "confirming", "waiting", "yielding", "pinging",
             "closing", "unregistering", "leaving", "gone"}
OpenPC   == {"confirming", "waiting", "yielding", "pinging"}

(* What a stream has at each point of its life; its events are in what its *)
(* client heard, in its hand and in its queue, in this order.              *)
Lives(s) ==
  /\ pc[s] \in Before => /\ s \notin subs /\ s \notin busy /\ sent[s] = 0
                         /\ content[s] = <<>> /\ result[s] = <<>> /\ heard[s] = <<>>
  /\ pc[s] \in {"confirming", "waiting", "pinging"} => result[s] = <<>>
  /\ pc[s] \in HasQueue => s \in table
  /\ pc[s] \in {"idle", "opening", "registering", "closed", "left"} => s \notin table
  /\ pc[s] \in {"unregistering", "closed"} => s \notin subs
  /\ pc[s] \in OpenPC => (heard[s] \o result[s]) \o content[s] = Upto(sent[s])

PoolOK ==
  /\ Distinct(jobs)
  /\ \A s \in Streams :
       /\ At(s, "waiting") <=> In(s, jobs) \/ (s \in busy /\ pc[s] \in OpenPC)
       /\ ~ (In(s, jobs) /\ s \in busy)

StreamTypes == TypeOK /\ IsFiniteSet(busy)

StreamLives ==
  /\ StreamTypes /\ PoolOK
  /\ link # "connected" => subs = {}
  /\ \A s \in Streams : Lives(s)

LEMMA StreamInit == Init => StreamLives
<1> SUFFICES ASSUME Init PROVE StreamLives
  OBVIOUS
<1>1. IsFiniteSet({}) /\ Cardinality({}) = 0
  BY FS_EmptySet
<1>2. StreamTypes
  BY <1>1, BoundsAssumption DEF Init, StreamTypes, TypeOK, PC
<1>3. PoolOK
  BY DEF Init, PoolOK, Distinct, In, At
<1>4. \A s \in Streams : Lives(s)
  BY DEF Init, Lives, HasQueue, OpenPC
<1> QED
  BY <1>2, <1>3, <1>4 DEF Init, StreamLives

(* A stream that does not wait for the pool, before or after.              *)
LEMMA PoolQuiet ==
  ASSUME StreamTypes, PoolOK, NEW s \in Streams, NEW l, Goto(s, l), UNCHANGED pool,
         pc[s] # "waiting", l # "waiting", l \in OpenPC => s \notin busy
  PROVE  PoolOK'
<1>1. pc'[s] = l /\ \A q \in Streams \ {s} : pc'[q] = pc[q]
  BY DEF Goto, StreamTypes, TypeOK
<1>2. jobs' = jobs /\ busy' = busy
  BY DEF pool
<1>3. ASSUME NEW q \in Streams
      PROVE  /\ At(q, "waiting")' <=> In(q, jobs') \/ (q \in busy' /\ pc'[q] \in OpenPC)
             /\ ~ (In(q, jobs') /\ q \in busy')
  <2>1. CASE q = s
    BY <1>1, <1>2, <2>1 DEF PoolOK, At
  <2>2. CASE q # s
    BY <1>1, <1>2, <2>2 DEF PoolOK, At
  <2> QED
    BY <2>1, <2>2
<1> QED
  BY <1>2, <1>3 DEF PoolOK

(* The other streams, when one moves.                                      *)
LEMMA OthersLive ==
  ASSUME StreamLives, NEW q \in Streams,
         pc'[q] = pc[q], sent'[q] = sent[q], content'[q] = content[q],
         result'[q] = result[q], heard'[q] = heard[q],
         q \in table' <=> q \in table, q \in subs' => q \in subs, q \in busy' => q \in busy
  PROVE  Lives(q)'
  BY DEF StreamLives, Lives

(* A stream that moves alone and touches the table and the subscriptions.  *)
LEMMA MovesAlone ==
  ASSUME StreamLives, NEW s \in Streams, NEW l \in PC, Goto(s, l),
         UNCHANGED <<session, sent, content, pool, result, heard>>,
         pc[s] # "waiting", l # "waiting", l \in OpenPC => s \notin busy,
         subs' \subseteq subs \cup {s}, link # "connected" => subs' \subseteq subs,
         table' \in SUBSET Streams, \A q \in Streams \ {s} : q \in table' <=> q \in table,
         Lives(s)'
  PROVE  StreamLives'
<1>1. pc' = [pc EXCEPT ![s] = l] /\ \A q \in Streams \ {s} : pc'[q] = pc[q]
  BY DEF Goto, StreamLives, StreamTypes, TypeOK
<1>2. StreamTypes'
  BY <1>1 DEF StreamLives, StreamTypes, TypeOK, session, pool
<1>3. PoolOK'
  BY PoolQuiet DEF StreamLives
<1>4. ASSUME NEW q \in Streams, q # s PROVE Lives(q)'
  BY <1>1, <1>4, OthersLive DEF pool
<1>5. link' # "connected" => subs' = {}
  BY DEF StreamLives, session
<1> QED
  BY <1>2, <1>3, <1>4, <1>5 DEF StreamLives

LEMMA OpeningSteps ==
  ASSUME StreamLives, NEW s \in Streams,
         Request(s) \/ OpenMktdata(s) \/ RegisterQueue(s) \/ Subscribe(s) \/ SubscribeRaises(s)
           \/ Abandon(s) \/ Unsubscribe(s) \/ UnsubscribeRaises(s) \/ UnregisterQueue(s)
  PROVE  StreamLives'
<1> USE DEF PC, Before, HasQueue, OpenPC, At
<1>1. Lives(s) /\ StreamTypes /\ table \subseteq Streams /\ (link # "connected" => subs = {})
      /\ \A l : Goto(s, l) => pc'[s] = l
  BY DEF StreamLives, StreamTypes, TypeOK, Goto
<1>2. CASE Request(s) \/ OpenMktdata(s)
  <2>1. PICK l \in {"opening", "registering", "closed"} : Goto(s, l)
    BY <1>2 DEF Request, OpenMktdata
  <2>2. /\ pc[s] \in {"idle", "opening"} /\ pc'[s] = l
        /\ UNCHANGED <<session, subs, sent, queues, pool, result, heard>>
    BY <1>1, <1>2, <2>1 DEF Request, OpenMktdata
  <2>3. Lives(s)'
    BY <1>1, <2>1, <2>2 DEF Lives, queues, pool
  <2> QED
    BY <1>1, <2>1, <2>2, <2>3, MovesAlone DEF queues
<1>3. CASE RegisterQueue(s)
  <2>1. /\ pc[s] = "registering" /\ Goto(s, "subscribing") /\ pc'[s] = "subscribing"
        /\ table' = table \cup {s}
        /\ UNCHANGED <<session, subs, sent, content, pool, result, heard>>
    BY <1>1, <1>3 DEF RegisterQueue, Listed
  <2>2. Lives(s)'
    BY <1>1, <2>1 DEF Lives, pool
  <2> QED
    BY <1>1, <2>1, <2>2, MovesAlone
<1>4. CASE Subscribe(s)
  <2>1. /\ pc[s] = "subscribing" /\ Goto(s, "confirming") /\ pc'[s] = "confirming"
        /\ subs' \subseteq subs \cup {s} /\ (link # "connected" => subs' = subs)
        /\ UNCHANGED <<session, sent, queues, pool, result, heard>>
    BY <1>1, <1>4 DEF Subscribe
  <2>2. s \notin busy /\ s \in table /\ sent[s] = 0
        /\ content[s] = <<>> /\ result[s] = <<>> /\ heard[s] = <<>>
    BY <1>1, <2>1 DEF Lives
  <2>3. (<<>> \o <<>>) \o <<>> = Upto(0)
    BY DEF Upto
  <2>4. Lives(s)'
    BY <2>1, <2>2, <2>3 DEF Lives, queues, pool
  <2> QED
    BY <1>1, <2>1, <2>2, <2>4, MovesAlone DEF queues
<1>5. CASE SubscribeRaises(s)
  <2>1. /\ pc[s] = "subscribing" /\ Goto(s, "closed") /\ pc'[s] = "closed"
        /\ table' = table \ {s}
        /\ UNCHANGED <<session, subs, sent, content, pool, result, heard>>
    BY <1>1, <1>5 DEF SubscribeRaises
  <2>2. Lives(s)'
    BY <1>1, <2>1 DEF Lives
  <2> QED
    BY <1>1, <2>1, <2>2, MovesAlone
<1>6. CASE Abandon(s)
  <2>1. /\ pc[s] = "confirming" /\ Goto(s, "gone") /\ pc'[s] = "gone"
        /\ UNCHANGED <<session, subs, sent, queues, pool, result, heard>>
    BY <1>1, <1>6 DEF Abandon
  <2>2. Lives(s)'
    BY <1>1, <2>1 DEF Lives, queues
  <2> QED
    BY <1>1, <2>1, <2>2, MovesAlone DEF queues
<1>7. CASE Unsubscribe(s)
  <2>1. /\ pc[s] = "closing" /\ Goto(s, "unregistering") /\ pc'[s] = "unregistering"
        /\ subs' \subseteq subs /\ s \notin subs'
        /\ UNCHANGED <<session, sent, queues, pool, result, heard>>
    BY <1>1, <1>7 DEF Unsubscribe, Unsubscribed
  <2>2. Lives(s)'
    BY <1>1, <2>1 DEF Lives, queues
  <2> QED
    BY <1>1, <2>1, <2>2, MovesAlone DEF queues
<1>8. CASE UnsubscribeRaises(s)
  <2>1. /\ pc[s] = "closing" /\ Goto(s, "leaving") /\ pc'[s] = "leaving"
        /\ UNCHANGED <<session, subs, sent, queues, pool, result, heard>>
    BY <1>1, <1>8 DEF UnsubscribeRaises
  <2>2. Lives(s)'
    BY <1>1, <2>1 DEF Lives, queues
  <2> QED
    BY <1>1, <2>1, <2>2, MovesAlone DEF queues
<1>9. CASE UnregisterQueue(s)
  <2>1. PICK l \in {"closed", "left"} :
          /\ Goto(s, l) /\ pc'[s] = l
          /\ pc[s] = IF l = "closed" THEN "unregistering" ELSE "leaving"
    BY <1>1, <1>9 DEF UnregisterQueue
  <2>2. table' = table \ {s} /\ UNCHANGED <<session, subs, sent, content, pool, result, heard>>
    BY <1>9 DEF UnregisterQueue
  <2>3. Lives(s)'
    BY <1>1, <2>1, <2>2 DEF Lives
  <2> QED
    BY <1>1, <2>1, <2>2, <2>3, MovesAlone
<1> QED
  BY <1>2, <1>3, <1>4, <1>5, <1>6, <1>7, <1>8, <1>9

-----------------------------------------------------------------------------
(* The loop and the pool                                                   *)

(* q.get() is submitted: the stream waits behind the others.               *)
LEMMA PoolSubmits ==
  ASSUME StreamTypes, PoolOK, NEW s \in Streams, pc[s] \in OpenPC, pc[s] # "waiting",
         Goto(s, "waiting"), jobs' = Append(jobs, s), UNCHANGED busy
  PROVE  PoolOK' /\ jobs' \in Seq(Streams)
<1>1. pc'[s] = "waiting" /\ \A q \in Streams \ {s} : pc'[q] = pc[q]
  BY DEF Goto, StreamTypes, TypeOK
<1>2. ~ In(s, jobs) /\ s \notin busy
  BY DEF PoolOK, At
<1>3. /\ jobs' \in Seq(Streams) /\ Len(jobs') = Len(jobs) + 1 /\ Len(jobs) \in Nat
      /\ \A i \in 1..Len(jobs) : jobs'[i] = jobs[i]
      /\ jobs'[Len(jobs) + 1] = s
  BY AppendProperties, LenProperties DEF StreamTypes, TypeOK
<1>4. Distinct(jobs')
  <2> SUFFICES ASSUME NEW i \in 1..Len(jobs'), NEW j \in 1..Len(jobs'), jobs'[i] = jobs'[j]
               PROVE  i = j
    BY DEF Distinct
  <2>1. CASE i <= Len(jobs) /\ j <= Len(jobs)
    BY <1>3, <2>1 DEF PoolOK, Distinct
  <2>2. CASE i = Len(jobs) + 1 /\ j <= Len(jobs)
    BY <1>2, <1>3, <2>2 DEF In
  <2>3. CASE i <= Len(jobs) /\ j = Len(jobs) + 1
    BY <1>2, <1>3, <2>3 DEF In
  <2> QED
    BY <1>3, <2>1, <2>2, <2>3
<1>5. \A q : In(q, jobs') <=> In(q, jobs) \/ q = s
  <2> SUFFICES ASSUME NEW q PROVE In(q, jobs') <=> In(q, jobs) \/ q = s
    OBVIOUS
  <2>1. ASSUME In(q, jobs') PROVE In(q, jobs) \/ q = s
    BY <1>3, <2>1 DEF In
  <2>2. ASSUME In(q, jobs) PROVE In(q, jobs')
    <3>1. PICK i \in 1..Len(jobs) : jobs[i] = q
      BY <2>2 DEF In
    <3>2. i \in 1..Len(jobs') /\ jobs'[i] = q
      BY <1>3, <3>1
    <3> QED
      BY <3>2 DEF In
  <2>3. In(s, jobs')
    <3>1. Len(jobs) + 1 \in 1..Len(jobs')
      BY <1>3
    <3> QED
      BY <1>3, <3>1 DEF In
  <2> QED
    BY <2>1, <2>2, <2>3
<1>6. ASSUME NEW q \in Streams
      PROVE  /\ At(q, "waiting")' <=> In(q, jobs') \/ (q \in busy' /\ pc'[q] \in OpenPC)
             /\ ~ (In(q, jobs') /\ q \in busy')
  <2>1. CASE q = s
    BY <1>1, <1>2, <1>5, <2>1 DEF At
  <2>2. CASE q # s
    BY <1>1, <1>5, <2>2 DEF PoolOK, At
  <2> QED
    BY <2>1, <2>2
<1> QED
  BY <1>3, <1>4, <1>6 DEF PoolOK

LEMMA ConfirmKeeps ==
  ASSUME StreamLives, NEW s \in Streams, Confirm(s)
  PROVE  StreamLives'
<1>1. /\ pc[s] = "confirming" /\ Goto(s, "waiting") /\ jobs' = Append(jobs, s)
      /\ UNCHANGED <<session, subs, sent, queues, busy, result, heard>>
  BY DEF Confirm, At
<1>2. pc' = [pc EXCEPT ![s] = "waiting"] /\ pc'[s] = "waiting"
      /\ \A q \in Streams \ {s} : pc'[q] = pc[q]
  BY <1>1 DEF Goto, StreamLives, StreamTypes, TypeOK
<1>3. PoolOK' /\ jobs' \in Seq(Streams)
  BY <1>1, PoolSubmits DEF StreamLives, OpenPC
<1>4. StreamTypes'
  BY <1>1, <1>2, <1>3 DEF StreamLives, StreamTypes, TypeOK, PC, session, queues
<1>5. Lives(s)'
  BY <1>1, <1>2 DEF StreamLives, Lives, Before, HasQueue, OpenPC, queues
<1>6. ASSUME NEW q \in Streams, q # s PROVE Lives(q)'
  BY <1>1, <1>2, <1>6, OthersLive DEF queues
<1> QED
  BY <1>1, <1>3, <1>4, <1>5, <1>6 DEF StreamLives, session

(* A frame goes out: what was in the stream's hand is heard.               *)
LEMMA YieldKeeps ==
  ASSUME StreamLives, NEW s \in Streams, Yield(s)
  PROVE  StreamLives'
<1>1. /\ pc[s] \in {"yielding", "pinging"} /\ Goto(s, "waiting") /\ jobs' = Append(jobs, s)
      /\ heard' = [heard EXCEPT ![s] = heard[s] \o result[s]]
      /\ result' = [result EXCEPT ![s] = <<>>]
      /\ UNCHANGED <<session, subs, sent, queues, busy>>
  BY DEF Yield, At
<1>2. pc' = [pc EXCEPT ![s] = "waiting"] /\ pc'[s] = "waiting"
      /\ \A q \in Streams \ {s} : pc'[q] = pc[q]
  BY <1>1 DEF Goto, StreamLives, StreamTypes, TypeOK
<1>3. PoolOK' /\ jobs' \in Seq(Streams)
  BY <1>1, PoolSubmits DEF StreamLives, OpenPC
<1>4. heard[s] \in Seq(Events) /\ result[s] \in Seq(Events)
  BY DEF StreamLives, StreamTypes, TypeOK
<1>5. heard[s] \o result[s] \in Seq(Events) /\ (heard[s] \o result[s]) \o <<>> = heard[s] \o result[s]
  <2>1. heard[s] \o result[s] \in Seq(Events)
    BY <1>4, ConcatProperties
  <2> QED
    BY <2>1, ConcatEmptySeq
<1>6. heard'[s] = heard[s] \o result[s] /\ result'[s] = <<>>
      /\ \A q \in Streams \ {s} : heard'[q] = heard[q] /\ result'[q] = result[q]
  BY <1>1 DEF StreamLives, StreamTypes, TypeOK
<1>7. heard' \in [Streams -> Seq(Events)] /\ result' \in [Streams -> Seq(Events)]
  BY <1>1, <1>5, EmptySeq DEF StreamLives, StreamTypes, TypeOK
<1>8. StreamTypes'
  BY <1>1, <1>2, <1>3, <1>7 DEF StreamLives, StreamTypes, TypeOK, PC, session, queues
<1>9. Lives(s)'
  BY <1>1, <1>2, <1>5, <1>6 DEF StreamLives, Lives, Before, HasQueue, OpenPC, queues
<1>10. ASSUME NEW q \in Streams, q # s PROVE Lives(q)'
  BY <1>1, <1>2, <1>6, <1>10, OthersLive DEF queues
<1> QED
  BY <1>1, <1>3, <1>8, <1>9, <1>10 DEF StreamLives, session

(* The stream that goes takes its job out of the line.                     *)
LEMMA DisconnectKeeps ==
  ASSUME StreamLives, NEW s \in Streams, Disconnect(s)
  PROVE  StreamLives'
<1>1. /\ pc[s] \in {"waiting", "yielding", "pinging"} /\ Goto(s, "closing")
      /\ jobs' = Cancelled(s)
      /\ UNCHANGED <<session, subs, sent, queues, busy, result, heard>>
  BY DEF Disconnect
<1>2. pc' = [pc EXCEPT ![s] = "closing"] /\ pc'[s] = "closing"
      /\ \A q \in Streams \ {s} : pc'[q] = pc[q]
  BY <1>1 DEF Goto, StreamLives, StreamTypes, TypeOK
<1>3. jobs \in Seq(Streams) /\ Distinct(jobs) /\ DOMAIN jobs = 1..Len(jobs)
  BY LenProperties DEF StreamLives, StreamTypes, TypeOK, PoolOK
<1>4. jobs' \in Seq(Streams) /\ Distinct(jobs') /\ \A q : In(q, jobs') <=> In(q, jobs) /\ q # s
  <2>1. CASE JobOf(s) = {}
    BY <1>1, <1>3, <2>1 DEF Cancelled, JobOf, In
  <2>2. CASE JobOf(s) # {}
    <3> DEFINE k == CHOOSE i \in JobOf(s) : TRUE
    <3>1. k \in JobOf(s)
      BY <2>2
    <3>2. k \in 1..Len(jobs) /\ jobs[k] = s /\ jobs' = RemoveAt(jobs, k)
      BY <1>1, <1>3, <2>2, <3>1 DEF Cancelled, JobOf
    <3> HIDE DEF k
    <3> QED
      BY <1>3, <3>2, RemoveDistinct
  <2> QED
    BY <2>1, <2>2
<1>5. PoolOK'
  <2>1. ASSUME NEW q \in Streams
        PROVE  /\ At(q, "waiting")' <=> In(q, jobs') \/ (q \in busy' /\ pc'[q] \in OpenPC)
               /\ ~ (In(q, jobs') /\ q \in busy')
    <3>1. CASE q = s
      BY <1>2, <1>4, <3>1 DEF At, OpenPC
    <3>2. CASE q # s
      BY <1>1, <1>2, <1>4, <3>2 DEF StreamLives, PoolOK, At
    <3> QED
      BY <3>1, <3>2
  <2> QED
    BY <1>4, <2>1 DEF PoolOK
<1>6. StreamTypes'
  BY <1>1, <1>2, <1>4 DEF StreamLives, StreamTypes, TypeOK, PC, session, queues
<1>7. Lives(s)'
  BY <1>1, <1>2 DEF StreamLives, Lives, Before, HasQueue, OpenPC, queues
<1>8. ASSUME NEW q \in Streams, q # s PROVE Lives(q)'
  BY <1>1, <1>2, <1>8, OthersLive DEF queues
<1> QED
  BY <1>1, <1>5, <1>6, <1>7, <1>8 DEF StreamLives, session

(* The first job of the line gets a worker.                                *)
LEMMA StartJobKeeps ==
  ASSUME StreamLives, StartJob
  PROVE  StreamLives'
<1> DEFINE h == Head(jobs)
<1>1. /\ jobs # <<>> /\ Cardinality(busy) < Workers
      /\ busy' = busy \cup {h} /\ jobs' = Tail(jobs)
      /\ UNCHANGED <<session, subs, sent, queues, locals>>
  BY DEF StartJob, WorkerFree
<1>2. jobs \in Seq(Streams) /\ Distinct(jobs) /\ Len(jobs) \in Nat
  BY LenProperties DEF StreamLives, StreamTypes, TypeOK, PoolOK
<1>3. /\ h \in Streams /\ jobs' \in Seq(Streams) /\ Len(jobs') = Len(jobs) - 1
      /\ \A i \in 1..Len(jobs') : jobs'[i] = jobs[i + 1]
      /\ h = jobs[1] /\ Len(jobs) > 0
  BY <1>1, <1>2, HeadTailProperties, EmptySeq
<1>4. Distinct(jobs') /\ \A q : In(q, jobs') <=> In(q, jobs) /\ q # h
  <2> HIDE DEF h
  <2>1. \A i \in 1..Len(jobs') : i + 1 \in 1..Len(jobs) /\ jobs'[i] = jobs[i + 1] /\ i \in Int
    BY <1>2, <1>3
  <2>2. Distinct(jobs')
    BY <1>2, <2>1 DEF Distinct
  <2>3. ASSUME NEW q, In(q, jobs') PROVE In(q, jobs) /\ q # h
    <3>1. PICK i \in 1..Len(jobs') : jobs'[i] = q
      BY <2>3 DEF In
    <3>2. i + 1 \in 1..Len(jobs) /\ jobs[i + 1] = q /\ i + 1 # 1 /\ 1 \in 1..Len(jobs)
      BY <1>2, <1>3, <2>1, <3>1
    <3> QED
      BY <1>2, <1>3, <3>2 DEF In, Distinct
  <2>4. ASSUME NEW q, In(q, jobs), q # h PROVE In(q, jobs')
    <3>1. PICK i \in 1..Len(jobs) : jobs[i] = q
      BY <2>4 DEF In
    <3>2. i - 1 \in 1..Len(jobs')
      BY <1>2, <1>3, <2>4, <3>1
    <3>3. jobs'[i - 1] = q
      BY <1>3, <3>1, <3>2
    <3> QED
      BY <3>2, <3>3 DEF In
  <2> QED
    BY <2>2, <2>3, <2>4
<1>5. In(h, jobs)
  <2>1. 1 \in 1..Len(jobs)
    BY <1>2, <1>3
  <2> QED
    BY <1>3, <2>1 DEF In
<1>6. h \notin busy /\ pc[h] = "waiting"
  BY <1>3, <1>5 DEF StreamLives, PoolOK, At
<1>7. IsFiniteSet(busy') /\ Cardinality(busy') <= Workers
  <2> HIDE DEF h
  <2>1. IsFiniteSet(busy) /\ Cardinality(busy) \in Nat
    BY FS_CardinalityType DEF StreamLives, StreamTypes
  <2>2. IsFiniteSet(busy') /\ Cardinality(busy') = Cardinality(busy) + 1
    BY <1>1, <1>6, <2>1, FS_AddElement
  <2> QED
    BY <1>1, <2>1, <2>2, BoundsAssumption
<1>8. UNCHANGED <<pc, result, heard, table, content, link, losses, subs, sent>>
  BY <1>1 DEF session, queues, locals
<1> HIDE DEF h
<1>9. StreamTypes'
  BY <1>1, <1>3, <1>7, <1>8 DEF StreamLives, StreamTypes, TypeOK
<1>10. PoolOK'
  <2>1. ASSUME NEW q \in Streams
        PROVE  /\ At(q, "waiting")' <=> In(q, jobs') \/ (q \in busy' /\ pc'[q] \in OpenPC)
               /\ ~ (In(q, jobs') /\ q \in busy')
    <3>1. CASE q = h
      BY <1>1, <1>4, <1>6, <1>8, <3>1 DEF At, OpenPC
    <3>2. CASE q # h
      BY <1>1, <1>4, <1>8, <3>2 DEF StreamLives, PoolOK, At
    <3> QED
      BY <3>1, <3>2
  <2> QED
    BY <1>4, <2>1 DEF PoolOK
<1>11. ASSUME NEW q \in Streams PROVE Lives(q)'
  <2>1. CASE q = h
    BY <1>6, <1>8, <2>1 DEF StreamLives, Lives, Before
  <2>2. CASE q # h
    BY <1>1, <1>8, <2>2 DEF StreamLives, Lives
  <2> QED
    BY <2>1, <2>2
<1> QED
  BY <1>8, <1>9, <1>10, <1>11 DEF StreamLives

(* A q.get() that ends wakes its stream, if that still waits.              *)
LEMMA JobEnds ==
  ASSUME StreamLives, NEW s \in Streams, s \in busy, busy' = busy \ {s},
         NEW l \in {"yielding", "pinging"}, Resume(s, l), UNCHANGED jobs
  PROVE  /\ PoolOK'
         /\ IsFiniteSet(busy') /\ Cardinality(busy') <= Workers
         /\ pc' \in [Streams -> PC]
         /\ \A q \in Streams \ {s} : pc'[q] = pc[q]
         /\ pc'[s] = (IF pc[s] = "waiting" THEN l ELSE pc[s])
         /\ pc[s] \notin Before /\ (pc[s] \in OpenPC => pc[s] = "waiting")
<1>1. pc \in [Streams -> PC]
  BY DEF StreamLives, StreamTypes, TypeOK
<1>2. pc' = IF pc[s] = "waiting" THEN [pc EXCEPT ![s] = l] ELSE pc
  BY DEF Resume, At, Goto
<1>3. /\ pc' \in [Streams -> PC] /\ \A q \in Streams \ {s} : pc'[q] = pc[q]
      /\ pc'[s] = (IF pc[s] = "waiting" THEN l ELSE pc[s])
  BY <1>1, <1>2 DEF PC
<1>4. ~ In(s, jobs) /\ (pc[s] \in OpenPC => pc[s] = "waiting")
  BY DEF StreamLives, PoolOK, At
<1>5. pc[s] \notin Before
  BY DEF StreamLives, Lives
<1>6. IsFiniteSet(busy') /\ Cardinality(busy') <= Workers
  <2>1. IsFiniteSet(busy) /\ Cardinality(busy) \in Nat /\ Cardinality(busy) <= Workers
    BY FS_CardinalityType DEF StreamLives, StreamTypes, TypeOK
  <2>2. IsFiniteSet(busy') /\ Cardinality(busy') = Cardinality(busy) - 1
    BY <2>1, FS_RemoveElement
  <2> QED
    BY <2>1, <2>2, BoundsAssumption
<1>7. PoolOK'
  <2>1. ASSUME NEW q \in Streams
        PROVE  /\ At(q, "waiting")' <=> In(q, jobs') \/ (q \in busy' /\ pc'[q] \in OpenPC)
               /\ ~ (In(q, jobs') /\ q \in busy')
    <3>1. CASE q = s
      BY <1>3, <1>4, <3>1 DEF At
    <3>2. CASE q # s
      BY <1>3, <3>2 DEF StreamLives, PoolOK, At
    <3> QED
      BY <3>1, <3>2
  <2> QED
    BY <2>1 DEF StreamLives, PoolOK
<1> QED
  BY <1>3, <1>4, <1>5, <1>6, <1>7

(* The worker takes the event for the stream. A stream that is gone does   *)
(* not get it, and needs none.                                             *)
LEMMA JobGetsKeeps ==
  ASSUME StreamLives, NEW s \in Streams, JobGets(s)
  PROVE  StreamLives'
<1>1. /\ s \in busy /\ busy' = busy \ {s} /\ content[s] # <<>> /\ Resume(s, "yielding")
      /\ content' = [content EXCEPT ![s] = Tail(content[s])]
      /\ result' = [result EXCEPT ![s] = <<Head(content[s])>>]
      /\ UNCHANGED <<session, subs, sent, table, jobs, heard>>
  BY DEF JobGets
<1>2. /\ content[s] \in Seq(Events) /\ heard[s] \in Seq(Events)
      /\ Head(content[s]) \in Events /\ Tail(content[s]) \in Seq(Events)
  BY <1>1, HeadTailProperties DEF StreamLives, StreamTypes, TypeOK
<1>3. /\ PoolOK'
      /\ IsFiniteSet(busy') /\ Cardinality(busy') <= Workers
      /\ pc' \in [Streams -> PC]
      /\ \A q \in Streams \ {s} : pc'[q] = pc[q]
      /\ pc'[s] = (IF pc[s] = "waiting" THEN "yielding" ELSE pc[s])
      /\ pc[s] \notin Before /\ (pc[s] \in OpenPC => pc[s] = "waiting")
  BY <1>1, JobEnds
<1>4. content' \in [Streams -> Seq(Events)] /\ result' \in [Streams -> Seq(Events)]
  <2>1. <<Head(content[s])>> \in Seq(Events)
    BY <1>2
  <2> QED
    BY <1>1, <1>2, <2>1 DEF StreamLives, StreamTypes, TypeOK
<1>5. /\ content'[s] = Tail(content[s]) /\ result'[s] = <<Head(content[s])>>
      /\ \A q \in Streams \ {s} : content'[q] = content[q] /\ result'[q] = result[q]
  BY <1>1 DEF StreamLives, StreamTypes, TypeOK
<1>6. StreamTypes'
  BY <1>1, <1>3, <1>4 DEF StreamLives, StreamTypes, TypeOK, session
<1>7. Lives(s)'
  <2>1. CASE pc[s] = "waiting"
    <3>1. (heard[s] \o <<>>) \o content[s] = Upto(sent[s]) /\ s \in table
      BY <2>1 DEF StreamLives, Lives, HasQueue, OpenPC
    <3>2. (heard'[s] \o result'[s]) \o content'[s] = Upto(sent'[s])
      <4>1. (heard[s] \o <<Head(content[s])>>) \o Tail(content[s])
              = (heard[s] \o <<>>) \o content[s]
        BY <1>1, <1>2, MoveHead
      <4> QED
        BY <1>1, <1>5, <3>1, <4>1
    <3> QED
      BY <1>1, <1>3, <2>1, <3>1, <3>2 DEF Lives, Before
  <2>2. CASE pc[s] # "waiting"
    BY <1>1, <1>3, <2>2 DEF StreamLives, Lives, Before, HasQueue, OpenPC
  <2> QED
    BY <2>1, <2>2
<1>8. ASSUME NEW q \in Streams, q # s PROVE Lives(q)'
  BY <1>1, <1>3, <1>5, <1>8, OthersLive
<1> QED
  BY <1>1, <1>3, <1>6, <1>7, <1>8 DEF StreamLives, session

LEMMA JobTimesOutKeeps ==
  ASSUME StreamLives, NEW s \in Streams, JobTimesOut(s)
  PROVE  StreamLives'
<1>1. /\ s \in busy /\ busy' = busy \ {s} /\ Resume(s, "pinging")
      /\ UNCHANGED <<session, subs, sent, queues, jobs, result, heard>>
  BY DEF JobTimesOut
<1>2. /\ PoolOK'
      /\ IsFiniteSet(busy') /\ Cardinality(busy') <= Workers
      /\ pc' \in [Streams -> PC]
      /\ \A q \in Streams \ {s} : pc'[q] = pc[q]
      /\ pc'[s] = (IF pc[s] = "waiting" THEN "pinging" ELSE pc[s])
      /\ pc[s] \notin Before /\ (pc[s] \in OpenPC => pc[s] = "waiting")
  BY <1>1, JobEnds
<1>3. StreamTypes'
  BY <1>1, <1>2 DEF StreamLives, StreamTypes, TypeOK, session, queues
<1>4. Lives(s)'
  BY <1>1, <1>2 DEF StreamLives, Lives, Before, HasQueue, OpenPC, queues
<1>5. ASSUME NEW q \in Streams, q # s PROVE Lives(q)'
  BY <1>1, <1>2, <1>5, OthersLive DEF queues
<1> QED
  BY <1>1, <1>2, <1>3, <1>4, <1>5 DEF StreamLives, session

-----------------------------------------------------------------------------
(* Bloomberg's side                                                        *)

LEMMA DeliverKeeps ==
  ASSUME StreamLives, NEW s \in Streams, Deliver(s)
  PROVE  StreamLives'
<1> DEFINE n == sent[s]
<1>1. /\ s \in subs /\ n < MaxEvents /\ sent' = [sent EXCEPT ![s] = n + 1]
      /\ content' = IF s \in table THEN [content EXCEPT ![s] = Append(content[s], n + 1)]
                                   ELSE content
      /\ UNCHANGED <<session, subs, table, pool, locals>>
  BY DEF Deliver
<1>2. n \in Nat /\ n + 1 \in Events /\ n + 1 \in 0..MaxEvents
  BY <1>1, BoundsAssumption DEF StreamLives, StreamTypes, TypeOK, Events
<1>3. UNCHANGED <<link, losses, jobs, busy, pc, result, heard>>
  BY <1>1 DEF session, pool, locals
<1>4. content[s] \in Seq(Events) /\ heard[s] \in Seq(Events) /\ result[s] \in Seq(Events)
  BY DEF StreamLives, StreamTypes, TypeOK
<1>5. Append(content[s], n + 1) \in Seq(Events)
  BY <1>2, <1>4, AppendProperties
<1>6. /\ \A q \in Streams \ {s} : sent'[q] = sent[q] /\ content'[q] = content[q]
      /\ sent'[s] = n + 1 /\ (s \in table => content'[s] = Append(content[s], n + 1))
      /\ sent' \in [Streams -> 0..MaxEvents] /\ content' \in [Streams -> Seq(Events)]
  BY <1>1, <1>2, <1>5 DEF StreamLives, StreamTypes, TypeOK
<1>7. StreamTypes'
  BY <1>1, <1>3, <1>6 DEF StreamLives, StreamTypes, TypeOK
<1>8. PoolOK'
  BY <1>3 DEF StreamLives, PoolOK, At
<1>9. Lives(s)'
  <2>1. pc[s] \notin Before
    BY <1>1 DEF StreamLives, Lives
  <2>2. ASSUME pc[s] \in OpenPC
        PROVE  (heard[s] \o result[s]) \o content'[s] = Upto(n + 1)
    <3>1. s \in table /\ (heard[s] \o result[s]) \o content[s] = Upto(n)
      BY <2>2 DEF StreamLives, Lives, HasQueue, OpenPC
    <3> DEFINE h == heard[s] \o result[s]
    <3>2. h \in Seq(Events)
      BY <1>4, ConcatProperties
    <3>3. s \in table /\ h \o content[s] = Upto(n)
      BY <3>1
    <3> HIDE DEF n, h
    <3>4. h \o Append(content[s], n + 1) = Upto(n + 1)
      BY <1>2, <1>4, <3>2, <3>3, OneMore
    <3>5. content'[s] = Append(content[s], n + 1)
      BY <1>6, <3>3
    <3> QED
      BY <3>4, <3>5 DEF h
  <2> QED
    BY <1>1, <1>3, <1>6, <2>1, <2>2 DEF StreamLives, Lives
<1>10. ASSUME NEW q \in Streams, q # s PROVE Lives(q)'
  BY <1>1, <1>3, <1>6, <1>10, OthersLive
<1> QED
  BY <1>1, <1>3, <1>7, <1>8, <1>9, <1>10 DEF StreamLives

LEMMA SessionKeeps ==
  ASSUME StreamLives, SessionLost \/ SessionReplaced \/ UNCHANGED vars
  PROVE  StreamLives'
<1>1. /\ subs' \subseteq subs /\ (link' # "connected" => subs' = {})
      /\ link' \in {"connected", "broken", "none"} /\ losses' \in 0..MaxLosses
      /\ UNCHANGED <<sent, queues, pool, locals>>
  <2>1. CASE SessionLost
    BY <2>1, BoundsAssumption DEF SessionLost, StreamLives, StreamTypes, TypeOK
  <2>2. CASE SessionReplaced
    BY <2>2 DEF SessionReplaced, StreamLives, StreamTypes, TypeOK
  <2>3. CASE UNCHANGED vars
    BY <2>3 DEF vars, session, StreamLives, StreamTypes, TypeOK
  <2> QED
    BY <2>1, <2>2, <2>3
<1>2. UNCHANGED <<sent, table, content, jobs, busy, pc, result, heard>>
  BY <1>1 DEF queues, pool, locals
<1>3. StreamTypes'
  BY <1>1, <1>2 DEF StreamLives, StreamTypes, TypeOK
<1>4. PoolOK'
  BY <1>2 DEF StreamLives, PoolOK, At
<1>5. ASSUME NEW q \in Streams PROVE Lives(q)'
  BY <1>1, <1>2, OthersLive
<1> QED
  BY <1>1, <1>3, <1>4, <1>5 DEF StreamLives

LEMMA StreamsStep == StreamLives /\ [Next]_vars => StreamLives'
<1> SUFFICES ASSUME StreamLives, [Next]_vars PROVE StreamLives'
  OBVIOUS
<1>1. ASSUME NEW s \in Streams,
             \/ Request(s) \/ StreamStep(s) \/ Abandon(s) \/ Disconnect(s)
             \/ JobStep(s) \/ Deliver(s)
      PROVE  StreamLives'
  BY <1>1, OpeningSteps, ConfirmKeeps, YieldKeeps, DisconnectKeeps, JobGetsKeeps,
     JobTimesOutKeeps, DeliverKeeps DEF StreamStep, JobStep
<1> QED
  BY <1>1, StartJobKeeps, SessionKeeps DEF Next

LEMMA StreamsAlways == Spec => []StreamLives
  BY StreamInit, StreamsStep, PTL DEF Spec

-----------------------------------------------------------------------------
(* What follows                                                            *)

LEMMA OneJob ==
  ASSUME StreamTypes, PoolOK, NEW s \in Streams
  PROVE  Cardinality(JobOf(s)) <= 1 /\ (JobOf(s) # {} <=> In(s, jobs))
<1>1. DOMAIN jobs = 1..Len(jobs)
  BY LenProperties DEF StreamTypes, TypeOK
<1>2. JobOf(s) # {} <=> In(s, jobs)
  BY <1>1 DEF JobOf, In
<1>3. CASE JobOf(s) = {}
  BY <1>2, <1>3, FS_EmptySet
<1>4. CASE JobOf(s) # {}
  <2>1. PICK i \in JobOf(s) : TRUE
    BY <1>4
  <2>2. JobOf(s) = {i}
    BY <1>1, <2>1 DEF PoolOK, Distinct, JobOf
  <2>3. Cardinality(JobOf(s)) = 1
    BY <2>2, FS_Singleton
  <2> QED
    BY <1>2, <2>3
<1> QED
  BY <1>3, <1>4

(* The loop of stream_subscription (sse.py:182-195): an open stream is     *)
(* sent what Bloomberg sends, complete and in order, whatever the callback *)
(* thread, the pool and the other streams do meanwhile, and it never has   *)
(* more than one q.get() in the pool.                                      *)
THEOREM StreamsLoseNothing == Spec => []StreamInv
<1>1. StreamLives => StreamInv
  <2> SUFFICES ASSUME StreamLives PROVE StreamInv
    OBVIOUS
  <2>1. NoEventLost
    BY DEF StreamLives, Lives, NoEventLost, Open, OpenPC, Upto
  <2>2. OneJobPerWaiter
    BY OneJob DEF StreamLives, PoolOK, OneJobPerWaiter, Open, OpenPC
  <2> QED
    BY <2>1, <2>2 DEF StreamInv, StreamLives, StreamTypes
<1> QED
  BY <1>1, StreamsAlways, PTL

(* Its cleanup (sse.py:199-204): a stream that ended has no queue in the   *)
(* table and no subscription on the session in force, also when the        *)
(* session was lost and replaced between the two. A disconnect at the      *)
(* "subscribed" frame (:177), outside the try, is the exception: "gone".   *)
THEOREM StreamsCleanUp == Spec => []ClosedIsCleanedUp
<1>1. StreamLives => ClosedIsCleanedUp
  BY DEF StreamLives, Lives, ClosedIsCleanedUp, At
<1> QED
  BY <1>1, StreamsAlways, PTL

-----------------------------------------------------------------------------
(* What the caller is given                                                *)

NextShown(frame, given) == WithShown(given, frame)
LastOf(places) == Max(places)
Showing == INSTANCE FoldFacts WITH Op <- NextShown, Base <- <<>>, Pick <- LastOf

LEMMA LastOfIsLatest == Showing!Latest
<1>1. ASSUME NEW n \in Nat, NEW S \in SUBSET (1..n), S # {}
      PROVE  Max(S) \in S /\ \A i \in S : i <= Max(S)
  <2>1. PICK x \in S : \A y \in S : y <= x
    BY <1>1, Showing!LastPlace
  <2> QED
    BY <2>1 DEF Max
<1> QED
  BY <1>1 DEF Showing!Latest, LastOf

LEMMA ShownFolds ==
  ASSUME NEW all
  PROVE  ShownOf(all) = Showing!Fold(all, DOMAIN all)
  BY DEF ShownOf, FoldLeft, MapThenFoldSet, Showing!Fold, Showing!MapThenFoldSet, NextShown, LastOf

(* One frame more is given to the caller, or is filtered.                  *)
LEMMA ShownOneMore ==
  ASSUME NEW T, NEW all \in Seq(T), NEW n \in 0..(Len(all) - 1)
  PROVE  ShownOf(SubSeq(all, 1, n + 1)) = WithShown(ShownOf(SubSeq(all, 1, n)), all[n + 1])
<1>1. SubSeq(all, 1, n) \in Seq(T) /\ all[n + 1] \in T
  BY SubSeqProperties
<1>2. SubSeq(all, 1, n + 1) = Append(SubSeq(all, 1, n), all[n + 1])
  BY <1>1
<1>3. ShownOf(Append(SubSeq(all, 1, n), all[n + 1])) = WithShown(ShownOf(SubSeq(all, 1, n)), all[n + 1])
  BY <1>1, ShownFolds, LastOfIsLatest, Showing!FoldOfAppend DEF NextShown
<1> QED
  BY <1>2, <1>3

LEMMA ShownNothing ==
  ASSUME NEW all
  PROVE  ShownOf(SubSeq(all, 1, 0)) = <<>>
<1>1. SubSeq(all, 1, 0) = <<>>
  BY SubSeqEmpty
<1> QED
  BY <1>1, ShownFolds, Showing!FoldOfEmpty

-----------------------------------------------------------------------------
(* The lines on the way                                                    *)

Lines == [field : {"event"}, value : Names] \cup [field : {"data"}, value : Nat]
           \cup [field : {"blank", "comment"}]
Frames == [event : Names, data : Seq(Nat)]

Blanks(lines) == {i \in DOMAIN lines : lines[i].field = "blank"}

LEMMA BlanksFinite ==
  ASSUME NEW lines \in Seq(Lines)
  PROVE  IsFiniteSet(Blanks(lines)) /\ Cardinality(Blanks(lines)) \in Nat
<1>1. IsFiniteSet(1..Len(lines))
  BY FS_Interval
<1> QED
  BY <1>1, FS_Subset, FS_CardinalityType DEF Blanks

LEMMA BlanksGrow ==
  ASSUME NEW lines \in Seq(Lines), NEW line \in Lines
  PROVE  Cardinality(Blanks(Append(lines, line)))
           = Cardinality(Blanks(lines)) + (IF line.field = "blank" THEN 1 ELSE 0)
<1>1. IsFiniteSet(Blanks(lines)) /\ Cardinality(Blanks(lines)) \in Nat
  BY BlanksFinite
<1>2. Len(lines) + 1 \notin Blanks(lines)
  BY DEF Blanks
<1>3. Blanks(Append(lines, line)) = Blanks(lines) \cup (IF line.field = "blank" THEN {Len(lines) + 1} ELSE {})
  BY DEF Blanks
<1>4. Cardinality(Blanks(lines) \cup {Len(lines) + 1}) = Cardinality(Blanks(lines)) + 1
  BY <1>1, <1>2, FS_AddElement
<1>5. CASE line.field = "blank"
  BY <1>3, <1>4, <1>5
<1>6. CASE line.field # "blank"
  <2>1. Blanks(Append(lines, line)) = Blanks(lines)
    BY <1>3, <1>6
  <2> QED
    BY <1>1, <1>6, <2>1
<1> QED
  BY <1>5, <1>6

LEMMA BlanksStay ==
  ASSUME NEW lines \in Seq(Lines), NEW line \in Lines, line.field # "blank"
  PROVE  Cardinality(Blanks(Append(lines, line))) = Cardinality(Blanks(lines))
<1>1. Blanks(Append(lines, line)) = Blanks(lines)
  BY DEF Blanks
<1> QED
  BY <1>1

LEMMA BlanksShrink ==
  ASSUME NEW lines \in Seq(Lines), lines # <<>>
  PROVE  Cardinality(Blanks(Tail(lines)))
           = Cardinality(Blanks(lines)) - (IF Head(lines).field = "blank" THEN 1 ELSE 0)
<1> DEFINE rest == Tail(lines)
           B == Blanks(lines)
           C == Blanks(rest)
           f == [i \in C |-> i + 1]
<1>1. /\ rest \in Seq(Lines) /\ Len(rest) = Len(lines) - 1 /\ Len(lines) \in Nat
      /\ \A i \in 1..Len(rest) : rest[i] = lines[i + 1]
      /\ Head(lines) = lines[1] /\ DOMAIN lines = 1..Len(lines) /\ DOMAIN rest = 1..Len(rest)
  BY HeadTailProperties
<1>2. IsFiniteSet(B) /\ Cardinality(B) \in Nat
  BY BlanksFinite
<1>3. C = {i \in 1..Len(rest) : lines[i + 1].field = "blank"}
  BY <1>1 DEF Blanks
<1>4. B = {i \in 1..Len(lines) : lines[i].field = "blank"}
  BY <1>1 DEF Blanks
<1> HIDE DEF B, C
<1>5. B \ {1} = {i + 1 : i \in C}
  <2>1. ASSUME NEW j \in B \ {1} PROVE \E i \in C : j = i + 1
    <3>1. j - 1 \in C
      BY <1>1, <1>3, <1>4, <2>1
    <3> QED
      BY <1>1, <1>4, <2>1, <3>1
  <2>2. ASSUME NEW i \in C PROVE i + 1 \in B \ {1}
    BY <1>1, <1>3, <1>4, <2>2
  <2> QED
    BY <2>1, <2>2
<1>6. C \subseteq Int
  BY <1>3
<1>7. f \in Bijection(C, B \ {1})
  <2>1. f \in [C -> B \ {1}]
    BY <1>5
  <2>2. \A i, j \in C : f[i] = f[j] => i = j
    BY <1>6
  <2>3. \A b \in B \ {1} : \E i \in C : f[i] = b
    BY <1>5
  <2> HIDE DEF f
  <2> QED
    BY <2>1, <2>2, <2>3 DEF Bijection, Injection, Surjection, IsInjective
<1>8. Cardinality(C) = Cardinality(B \ {1})
  <2>1. IsFiniteSet(C)
    BY <1>1, BlanksFinite DEF C
  <2>2. ExistsBijection(C, B \ {1})
    BY <1>7 DEF ExistsBijection
  <2> QED
    BY <2>1, <2>2, FS_Bijection
<1>9. 1 \in B <=> Head(lines).field = "blank"
  <2>1. 1 \in 1..Len(lines)
    BY <1>1
  <2> QED
    BY <1>1, <1>4, <2>1
<1>10. Cardinality(B \ {1}) = IF 1 \in B THEN Cardinality(B) - 1 ELSE Cardinality(B)
  BY <1>2, FS_RemoveElement
<1> QED
  BY <1>2, <1>8, <1>9, <1>10 DEF B, C

(* The j-th line of the server, from 0: three for each frame.              *)
IsLine(line, j, all) ==
  \E n \in 0..(Len(all) - 1) :
    \/ j = 3 * n /\ line = [field |-> "event", value |-> all[n + 1].event]
    \/ j = 3 * n + 1 /\ line = [field |-> "data", value |-> n + 1]
    \/ j = 3 * n + 2 /\ line = [field |-> "blank"]

(* Place i of the lines is a comment, or line j of the server; k is next.  *)
Goes(line, j, k, all) ==
  \/ line = [field |-> "comment"] /\ k = j
  \/ IsLine(line, j, all) /\ k = j + 1

(* at[i] is the number of the next line of the server from place i on.     *)
InOrder(at, lines, all) ==
  /\ at \in [1..(Len(lines) + 1) -> Nat] /\ at[Len(lines) + 1] = 3 * Len(all)
  /\ \A i \in 1..Len(lines) : Goes(lines[i], at[i], at[i + 1], all)

(* What the parser has of frame n + 1, when line j is the next.            *)
Parsed(j, n, name, parts, all) ==
  \/ j = 3 * n /\ name = None /\ parts = <<>>
  \/ j = 3 * n + 1 /\ n < Len(all) /\ name = all[n + 1].event /\ parts = <<>>
  \/ j = 3 * n + 2 /\ n < Len(all) /\ name = all[n + 1].event /\ parts = <<n + 1>>

Numbered(all) == \A n \in 1..Len(all) : all[n].data = <<n>>

StreamOK ==
  /\ frames \in Seq(Frames) /\ wire \in Seq(Lines) /\ Numbered(frames)
  /\ FramesRead \in 0..Len(frames)
  /\ yielded = ShownOf(SubSeq(frames, 1, FramesRead))
  /\ \E at : InOrder(at, wire, frames) /\ Parsed(at[1], FramesRead, eventName, dataParts, frames)

(* While nothing is late, the client has not waited longer than the server *)
(* when no line is on the way.                                             *)
TimersOK ==
  /\ sinceGet \in 0..Heartbeat /\ sinceRead \in Nat /\ late \in BOOLEAN
  /\ ~late => sinceRead <= Heartbeat /\ (wire = <<>> => sinceRead <= sinceGet)
  /\ stream = "quiet" => late

SseInv == StreamOK /\ TimersOK

LEMMA SseStarts == SseInit => SseInv
<1> SUFFICES ASSUME SseInit PROVE SseInv
  OBVIOUS
<1>1. frames = <<>> /\ wire = <<>> /\ Len(frames) = 0 /\ Len(wire) = 0
  BY DEF SseInit
<1>2. FramesRead = 0
  <2>1. {i \in DOMAIN wire : wire[i].field = "blank"} = {}
    BY <1>1
  <2> QED
    BY <1>1, <2>1, FS_EmptySet DEF FramesRead
<1>3. yielded = ShownOf(SubSeq(frames, 1, FramesRead))
  BY <1>2, ShownNothing DEF SseInit
<1>4. InOrder([i \in 1..1 |-> 0], wire, frames) /\ Parsed(0, 0, eventName, dataParts, frames)
  BY <1>1 DEF InOrder, Parsed, SseInit
<1>5. StreamOK
  <2>1. [i \in 1..1 |-> 0][1] = 0
    OBVIOUS
  <2> QED
    BY <1>1, <1>2, <1>3, <1>4, <2>1 DEF StreamOK, Numbered
<1>6. TimersOK
  <2>1. ~late /\ late \in BOOLEAN /\ sinceGet = 0 /\ sinceRead = 0 /\ stream = "open"
    BY DEF SseInit
  <2>2. 0 \in 0..Heartbeat
    BY SseClientAssumption
  <2> QED
    BY <2>1, <2>2, SseClientAssumption DEF TimersOK
<1> QED
  BY <1>5, <1>6 DEF SseInv

(* The server's next frame goes to the end of the lines.                   *)
LEMMA FrameGoesLast ==
  ASSUME NEW all \in Seq(Frames), Numbered(all), NEW lines \in Seq(Lines), NEW name \in Names,
         NEW at, InOrder(at, lines, all),
         NEW k, k = Len(all) + 1,
         NEW e, e = [field |-> "event", value |-> name],
         NEW d, d = [field |-> "data", value |-> k],
         NEW b, b = [field |-> "blank"],
         NEW frame, frame = [event |-> name, data |-> <<k>>]
  PROVE  /\ lines \o <<e, d, b>> \in Seq(Lines) /\ lines \o <<e, d, b>> # <<>>
         /\ Append(all, frame) \in Seq(Frames) /\ Numbered(Append(all, frame))
         /\ \E to : InOrder(to, lines \o <<e, d, b>>, Append(all, frame)) /\ to[1] = at[1]
         /\ Cardinality(Blanks(lines \o <<e, d, b>>)) = Cardinality(Blanks(lines)) + 1
<1> DEFINE more == Append(all, frame)
           long == lines \o <<e, d, b>>
           m == Len(lines)
<1>1. k \in Nat \ {0} /\ m \in Nat /\ Len(all) = k - 1
  OBVIOUS
<1>2. frame \in Frames /\ frame.event = name /\ frame.data = <<k>>
  BY <1>1 DEF Frames
<1>3. /\ more \in Seq(Frames) /\ Len(more) = k /\ \A n \in 1..(k - 1) : more[n] = all[n]
      /\ more[k] = frame
  BY <1>1, <1>2
<1>4. e \in Lines /\ d \in Lines /\ b \in Lines /\ e.field = "event" /\ d.field = "data" /\ b.field = "blank"
  BY <1>1 DEF Lines
<1>5. /\ long \in Seq(Lines) /\ Len(long) = m + 3 /\ \A i \in 1..m : long[i] = lines[i]
      /\ long[m + 1] = e /\ long[m + 2] = d /\ long[m + 3] = b
  BY <1>1, <1>4
<1>6. long = Append(Append(Append(lines, e), d), b)
  BY <1>1, <1>4
<1>7. Numbered(more)
  <2>1. \A n \in 1..(k - 1) : more[n].data = <<n>>
    BY <1>1, <1>3 DEF Numbered
  <2> QED
    BY <1>1, <1>2, <1>3, <2>1 DEF Numbered
<1> HIDE DEF more, long
<1>8. Cardinality(Blanks(long)) = Cardinality(Blanks(lines)) + 1
  <2>0. Append(lines, e) \in Seq(Lines) /\ Append(Append(lines, e), d) \in Seq(Lines)
    BY <1>4
  <2>1. PICK p \in Seq(Lines) : p = Append(lines, e)
    BY <2>0
  <2>2. PICK q \in Seq(Lines) : q = Append(p, d)
    BY <2>0, <2>1
  <2>3. long = Append(q, b)
    BY <1>6, <2>1, <2>2
  <2>4. e.field # "blank" /\ d.field # "blank"
    BY <1>4
  <2>5. Cardinality(Blanks(p)) = Cardinality(Blanks(lines))
    BY <1>4, <2>1, <2>4, BlanksStay
  <2>6. Cardinality(Blanks(q)) = Cardinality(Blanks(p))
    BY <1>4, <2>2, <2>4, BlanksStay
  <2>7. Cardinality(Blanks(Append(q, b))) = Cardinality(Blanks(q)) + 1
    BY <1>4, BlanksGrow
  <2> QED
    BY <2>3, <2>5, <2>6, <2>7
<1> DEFINE to == [i \in 1..(m + 4) |-> IF i <= m + 1 THEN at[i] ELSE 3 * k - 3 + (i - m - 1)]
<1>9. at \in [1..(m + 1) -> Nat] /\ at[m + 1] = 3 * (k - 1)
  BY <1>1 DEF InOrder
<1>10. /\ to \in [1..(m + 4) -> Nat] /\ to[1] = at[1] /\ \A i \in 1..(m + 1) : to[i] = at[i]
       /\ to[m + 1] = 3 * (k - 1) /\ to[m + 2] = 3 * (k - 1) + 1
       /\ to[m + 3] = 3 * (k - 1) + 2 /\ to[m + 4] = 3 * k
  BY <1>1, <1>9
<1> HIDE DEF to
<1>11. ASSUME NEW i \in 1..(m + 3)
       PROVE  Goes(long[i], to[i], to[i + 1], more)
  <2>1. CASE i \in 1..m
    <3>0. i \in 1..(m + 1) /\ i + 1 \in 1..(m + 1)
      BY <1>1, <2>1
    <3>1. to[i] = at[i] /\ to[i + 1] = at[i + 1] /\ long[i] = lines[i]
      BY <1>5, <1>10, <2>1, <3>0
    <3>2. Goes(lines[i], at[i], at[i + 1], all)
      BY <2>1 DEF InOrder
    <3>3. IsLine(lines[i], at[i], all) => IsLine(lines[i], at[i], more)
      <4>1. \A n \in 0..(Len(all) - 1) : n \in 0..(Len(more) - 1) /\ more[n + 1] = all[n + 1]
        BY <1>1, <1>3
      <4> QED
        BY <4>1 DEF IsLine
    <3> QED
      BY <3>1, <3>2, <3>3 DEF Goes
  <2>2. k - 1 \in 0..(Len(more) - 1) /\ more[(k - 1) + 1].event = name
    BY <1>1, <1>2, <1>3
  <2>3. CASE i = m + 1
    <3>1. IsLine(e, 3 * (k - 1), more)
      BY <2>2 DEF IsLine
    <3> QED
      BY <1>1, <1>5, <1>10, <2>3, <3>1 DEF Goes
  <2>4. CASE i = m + 2
    <3>1. IsLine(d, 3 * (k - 1) + 1, more)
      BY <1>1, <2>2 DEF IsLine
    <3> QED
      BY <1>1, <1>5, <1>10, <2>4, <3>1 DEF Goes
  <2>5. CASE i = m + 3
    <3>1. IsLine(b, 3 * (k - 1) + 2, more)
      BY <2>2 DEF IsLine
    <3> QED
      BY <1>1, <1>5, <1>10, <2>5, <3>1 DEF Goes
  <2> QED
    BY <1>1, <2>1, <2>3, <2>4, <2>5
<1>12. InOrder(to, long, more)
  BY <1>1, <1>3, <1>5, <1>10, <1>11 DEF InOrder
<1>13. lines \o <<e, d, b>> # <<>>
  BY <1>1, <1>5 DEF long
<1> QED
  BY <1>3, <1>5, <1>7, <1>8, <1>10, <1>12, <1>13 DEF more, long

LEMMA ServerSendsKeepsStream ==
  ASSUME SseInv, ServerSends
  PROVE  SseInv'
<1>1. PICK name \in Names : Yields(name)
  BY DEF ServerSends, Subscribed, Message, Ping, Names
<1>2. UNCHANGED <<eventName, dataParts, yielded, sinceRead, stream, late>>
  BY DEF ServerSends, parser
<1>3. /\ frames \in Seq(Frames) /\ wire \in Seq(Lines) /\ Numbered(frames)
      /\ FramesRead \in 0..Len(frames) /\ yielded = ShownOf(SubSeq(frames, 1, FramesRead))
  BY DEF SseInv, StreamOK
<1>4. PICK at : InOrder(at, wire, frames) /\ Parsed(at[1], FramesRead, eventName, dataParts, frames)
  BY DEF SseInv, StreamOK
<1>5. PICK k, e, d, b, frame :
        /\ k = Len(frames) + 1 /\ e = [field |-> "event", value |-> name]
        /\ d = [field |-> "data", value |-> k] /\ b = [field |-> "blank"]
        /\ frame = [event |-> name, data |-> <<k>>]
  OBVIOUS
<1>6. wire' = wire \o <<e, d, b>> /\ frames' = Append(frames, frame) /\ sinceGet' = 0
  BY <1>1, <1>5 DEF Yields, FormatSse
<1>7. /\ wire' \in Seq(Lines) /\ wire' # <<>> /\ frames' \in Seq(Frames) /\ Numbered(frames')
      /\ \E to : InOrder(to, wire', frames') /\ to[1] = at[1]
      /\ Cardinality(Blanks(wire')) = Cardinality(Blanks(wire)) + 1
  BY <1>3, <1>4, <1>5, <1>6, FrameGoesLast
<1>8. frame \in Frames
  BY <1>3, <1>5 DEF Frames
<1>9. /\ Len(frames) \in Nat /\ Len(frames') = Len(frames) + 1
      /\ \A n \in 1..Len(frames) : frames'[n] = frames[n]
  BY <1>3, <1>6, <1>8
<1>10. FramesRead' = FramesRead
  <2>1. FramesRead = Len(frames) - Cardinality(Blanks(wire)) /\ Cardinality(Blanks(wire)) \in Nat
    BY <1>3, BlanksFinite DEF FramesRead, Blanks
  <2>2. FramesRead' = Len(frames') - Cardinality(Blanks(wire'))
    BY DEF FramesRead, Blanks
  <2> QED
    BY <1>7, <1>9, <2>1, <2>2
<1>11. SubSeq(frames', 1, FramesRead) = SubSeq(frames, 1, FramesRead)
  BY <1>3, <1>6, <1>8
<1>12. Parsed(at[1], FramesRead, eventName, dataParts, frames')
  <2>1. FramesRead < Len(frames) =>
          FramesRead < Len(frames') /\ frames'[FramesRead + 1] = frames[FramesRead + 1]
    BY <1>3, <1>9
  <2> QED
    BY <1>4, <2>1 DEF Parsed
<1>13. StreamOK'
  <2>1. PICK to : InOrder(to, wire', frames') /\ to[1] = at[1]
    BY <1>7
  <2>2. Parsed(to[1], FramesRead', eventName', dataParts', frames')
    BY <1>2, <1>10, <1>12, <2>1
  <2>3. FramesRead' \in 0..Len(frames')
    BY <1>3, <1>9, <1>10
  <2>4. yielded' = ShownOf(SubSeq(frames', 1, FramesRead'))
    BY <1>2, <1>3, <1>10, <1>11
  <2> QED
    BY <1>7, <2>1, <2>2, <2>3, <2>4 DEF StreamOK
<1>14. TimersOK'
  BY <1>2, <1>6, <1>7, SseClientAssumption DEF SseInv, TimersOK
<1> QED
  BY <1>13, <1>14 DEF SseInv

(* A line is taken off the head; its number is that of the place before.   *)
LEMMA LineIsTaken ==
  ASSUME NEW all, NEW lines \in Seq(Lines), lines # <<>>, NEW at, InOrder(at, lines, all)
  PROVE  /\ Goes(Head(lines), at[1], at[2], all)
         /\ \E to : InOrder(to, Tail(lines), all) /\ to[1] = at[2]
<1> DEFINE m == Len(lines)
           rest == Tail(lines)
           to == [i \in 1..m |-> at[i + 1]]
<1>1. /\ m \in Nat \ {0} /\ rest \in Seq(Lines) /\ Len(rest) = m - 1
      /\ \A i \in 1..(m - 1) : rest[i] = lines[i + 1]
      /\ Head(lines) = lines[1]
  BY HeadTailProperties
<1>2. at \in [1..(m + 1) -> Nat] /\ at[m + 1] = 3 * Len(all)
  BY DEF InOrder
<1>3. \A i \in 1..m : Goes(lines[i], at[i], at[i + 1], all)
  BY DEF InOrder
<1> HIDE DEF m, rest
<1>4. 1 \in 1..m /\ 1 + 1 = 2 /\ (m - 1) + 1 = m /\ m \in 1..m
  BY <1>1
<1>5. Goes(Head(lines), at[1], at[2], all)
  BY <1>1, <1>3, <1>4
<1>6. /\ to \in [1..m -> Nat] /\ to[1] = at[2] /\ to[m] = 3 * Len(all)
      /\ \A i \in 1..(m - 1) : to[i] = at[i + 1] /\ to[i + 1] = at[(i + 1) + 1] /\ i + 1 \in 1..m
  BY <1>1, <1>2, <1>4
<1> HIDE DEF to
<1>7. \A i \in 1..(m - 1) : Goes(rest[i], to[i], to[i + 1], all)
  BY <1>1, <1>3, <1>6
<1>8. InOrder(to, rest, all)
  BY <1>1, <1>4, <1>6, <1>7 DEF InOrder
<1> QED
  BY <1>5, <1>6, <1>8 DEF rest

(* A keepalive comment goes to the end of the lines.                       *)
LEMMA CommentGoesLast ==
  ASSUME NEW all \in Seq(Frames), NEW lines \in Seq(Lines), NEW at, InOrder(at, lines, all),
         NEW c, c = [field |-> "comment"]
  PROVE  /\ Append(lines, c) \in Seq(Lines) /\ Append(lines, c) # <<>>
         /\ Cardinality(Blanks(Append(lines, c))) = Cardinality(Blanks(lines))
         /\ \E to : InOrder(to, Append(lines, c), all) /\ to[1] = at[1]
<1> DEFINE m == Len(lines)
           long == Append(lines, c)
           to == [i \in 1..(m + 2) |-> IF i <= m + 1 THEN at[i] ELSE at[m + 1]]
<1>1. c \in Lines /\ c.field = "comment" /\ m \in Nat
  BY DEF Lines
<1>2. /\ long \in Seq(Lines) /\ Len(long) = m + 1 /\ long[m + 1] = c /\ long # <<>>
      /\ \A i \in 1..m : long[i] = lines[i]
  BY <1>1
<1>3. Cardinality(Blanks(long)) = Cardinality(Blanks(lines))
  BY <1>1, BlanksGrow, BlanksFinite
<1>4. at \in [1..(m + 1) -> Nat] /\ at[m + 1] = 3 * Len(all)
  BY DEF InOrder
<1>5. \A i \in 1..m : Goes(lines[i], at[i], at[i + 1], all)
  BY DEF InOrder
<1> HIDE DEF m, long
<1>6. /\ to \in [1..(m + 2) -> Nat] /\ to[1] = at[1] /\ to[(m + 1) + 1] = to[m + 1]
      /\ to[m + 2] = 3 * Len(all) /\ to[m + 1] = at[m + 1]
      /\ \A i \in 1..m : to[i] = at[i] /\ to[i + 1] = at[i + 1]
  BY <1>1, <1>4
<1> HIDE DEF to
<1>7. ASSUME NEW i \in 1..(m + 1) PROVE Goes(long[i], to[i], to[i + 1], all)
  <2>1. CASE i \in 1..m
    BY <1>2, <1>5, <1>6, <2>1
  <2>2. CASE i = m + 1
    BY <1>2, <1>6, <2>2 DEF Goes
  <2> QED
    BY <1>1, <2>1, <2>2
<1>8. (m + 1) + 1 = m + 2
  BY <1>1
<1>9. InOrder(to, long, all)
  BY <1>2, <1>6, <1>7, <1>8 DEF InOrder
<1> QED
  BY <1>2, <1>3, <1>6, <1>9 DEF long

LEMMA CommentKeepsStream ==
  ASSUME SseInv, Comment
  PROVE  SseInv'
<1>1. UNCHANGED <<frames, eventName, dataParts, yielded, sinceGet, sinceRead, stream, late>>
  BY DEF Comment, parser, timers
<1>2. PICK c : c = [field |-> "comment"]
  OBVIOUS
<1>3. wire' = Append(wire, c)
  BY <1>2 DEF Comment
<1>4. PICK at : InOrder(at, wire, frames) /\ Parsed(at[1], FramesRead, eventName, dataParts, frames)
  BY DEF SseInv, StreamOK
<1>5. /\ frames \in Seq(Frames) /\ wire \in Seq(Lines) /\ Numbered(frames)
      /\ FramesRead \in 0..Len(frames) /\ yielded = ShownOf(SubSeq(frames, 1, FramesRead))
  BY DEF SseInv, StreamOK
<1>6. /\ wire' \in Seq(Lines) /\ wire' # <<>>
      /\ Cardinality(Blanks(wire')) = Cardinality(Blanks(wire))
      /\ \E to : InOrder(to, wire', frames) /\ to[1] = at[1]
  BY <1>2, <1>3, <1>4, <1>5, CommentGoesLast
<1>7. FramesRead' = FramesRead
  BY <1>1, <1>6 DEF FramesRead, Blanks
<1>8. StreamOK'
  BY <1>1, <1>4, <1>5, <1>6, <1>7 DEF StreamOK
<1>9. TimersOK'
  BY <1>1, <1>6 DEF SseInv, TimersOK
<1> QED
  BY <1>8, <1>9 DEF SseInv

(* The line that the parser takes is the next one of its frame; the empty  *)
(* line gives the frame to the caller.                                     *)
LEMMA ParseKeepsStream ==
  ASSUME SseInv, ParseLine
  PROVE  SseInv'
<1>1. UNCHANGED <<frames, sinceGet, stream, late>> /\ wire # <<>> /\ wire' = Tail(wire) /\ sinceRead' = 0
  BY DEF ParseLine
<1>2. PICK at : InOrder(at, wire, frames) /\ Parsed(at[1], FramesRead, eventName, dataParts, frames)
  BY DEF SseInv, StreamOK
<1>3. /\ frames \in Seq(Frames) /\ wire \in Seq(Lines) /\ Numbered(frames)
      /\ FramesRead \in 0..Len(frames) /\ yielded = ShownOf(SubSeq(frames, 1, FramesRead))
  BY DEF SseInv, StreamOK
<1>4. Goes(Head(wire), at[1], at[2], frames) /\ \E to : InOrder(to, wire', frames) /\ to[1] = at[2]
  BY <1>1, <1>2, <1>3, LineIsTaken
<1>5. PICK line, k, n : line = Head(wire) /\ k = Len(frames) /\ n = FramesRead
  OBVIOUS
<1>6. wire' \in Seq(Lines) /\ k \in Nat /\ n \in 0..k
  BY <1>1, <1>3, <1>5
<1>7. FramesRead' = IF line.field = "blank" THEN n + 1 ELSE n
  <2>1. n = k - Cardinality(Blanks(wire)) /\ Cardinality(Blanks(wire)) \in Nat
    BY <1>3, <1>5, BlanksFinite DEF FramesRead, Blanks
  <2>2. FramesRead' = k - Cardinality(Blanks(wire'))
    BY <1>1, <1>5 DEF FramesRead, Blanks
  <2>3. Cardinality(Blanks(wire')) = Cardinality(Blanks(wire)) - (IF line.field = "blank" THEN 1 ELSE 0)
    BY <1>1, <1>3, <1>5, BlanksShrink
  <2> QED
    BY <1>6, <2>1, <2>2, <2>3
<1>8. at[1] \in Nat /\ at[2] \in Nat
  <2>1. 1 \in 1..(Len(wire) + 1) /\ 2 \in 1..(Len(wire) + 1)
    BY <1>1, <1>3
  <2> QED
    BY <1>2, <2>1 DEF InOrder
<1> DEFINE Follows == /\ FramesRead' \in 0..k /\ yielded' = ShownOf(SubSeq(frames, 1, FramesRead'))
                      /\ Parsed(at[2], FramesRead', eventName', dataParts', frames)
<1>9. Follows
  <2>1. CASE line = [field |-> "comment"]
    <3>1. line.field = "comment" /\ UNCHANGED <<eventName, dataParts, yielded>>
      BY <1>5, <2>1 DEF ParseLine, parser
    <3>2. at[2] = at[1]
      BY <1>4, <1>5, <2>1 DEF Goes, IsLine
    <3> QED
      BY <1>2, <1>3, <1>5, <1>6, <1>7, <3>1, <3>2
  <2>2. ASSUME NEW p \in 0..(k - 1), at[1] = 3 * p, at[2] = 3 * p + 1,
               line = [field |-> "event", value |-> frames[p + 1].event]
        PROVE  Follows
    <3>1. line.field = "event" /\ eventName' = frames[p + 1].event /\ UNCHANGED <<dataParts, yielded>>
      BY <1>5, <2>2 DEF ParseLine
    <3>2. n = p /\ dataParts = <<>>
      BY <1>2, <1>5, <1>6, <2>2 DEF Parsed
    <3>3. Parsed(3 * p + 1, p, eventName', dataParts', frames)
      BY <1>5, <1>6, <3>1, <3>2 DEF Parsed
    <3> QED
      BY <1>3, <1>5, <1>6, <1>7, <2>2, <3>1, <3>2, <3>3
  <2>3. ASSUME NEW p \in 0..(k - 1), at[1] = 3 * p + 1, at[2] = 3 * p + 2,
               line = [field |-> "data", value |-> p + 1]
        PROVE  Follows
    <3>1. line.field = "data" /\ dataParts' = Append(dataParts, p + 1) /\ UNCHANGED <<eventName, yielded>>
      BY <1>5, <2>3 DEF ParseLine
    <3>2. n = p /\ dataParts = <<>> /\ eventName = frames[p + 1].event
      BY <1>2, <1>5, <1>6, <2>3 DEF Parsed
    <3>3. dataParts' = <<p + 1>>
      BY <3>1, <3>2
    <3>4. Parsed(3 * p + 2, p, eventName', dataParts', frames)
      BY <1>5, <1>6, <3>1, <3>2, <3>3 DEF Parsed
    <3> QED
      BY <1>3, <1>5, <1>6, <1>7, <2>3, <3>1, <3>2, <3>4
  <2>4. ASSUME NEW p \in 0..(k - 1), at[1] = 3 * p + 2, at[2] = 3 * p + 3, line = [field |-> "blank"]
        PROVE  Follows
    <3>1. line.field = "blank" /\ Dispatch
      BY <1>5, <2>4 DEF ParseLine
    <3>2. n = p /\ dataParts = <<p + 1>> /\ eventName = frames[p + 1].event
      BY <1>2, <1>5, <1>6, <2>4 DEF Parsed
    <3>3. frames[p + 1] = [event |-> eventName, data |-> dataParts] /\ frames[p + 1].event = eventName
      <4>1. p + 1 \in 1..Len(frames) /\ frames[p + 1] \in Frames
        BY <1>3, <1>5, <1>6
      <4>2. frames[p + 1] = [event |-> frames[p + 1].event, data |-> frames[p + 1].data]
        BY <4>1 DEF Frames
      <4>3. frames[p + 1].data = <<p + 1>>
        BY <1>3, <4>1 DEF Numbered
      <4> QED
        BY <3>2, <4>2, <4>3
    <3>4. yielded' = WithShown(yielded, frames[p + 1])
      <4>1. dataParts # <<>>
        BY <3>2
      <4> QED
        BY <3>1, <3>3, <4>1 DEF Dispatch, WithShown
    <3>5. yielded' = ShownOf(SubSeq(frames, 1, p + 1))
      <4>1. p \in 0..(Len(frames) - 1)
        BY <1>5
      <4> QED
        BY <1>3, <1>5, <3>2, <3>4, <4>1, ShownOneMore
    <3>6. eventName' = None /\ dataParts' = <<>>
      BY <3>1 DEF Dispatch, NoParts
    <3>7. Parsed(3 * p + 3, p + 1, eventName', dataParts', frames)
      BY <1>6, <3>6 DEF Parsed
    <3> QED
      BY <1>6, <1>7, <2>4, <3>1, <3>2, <3>5, <3>7
  <2> QED
    BY <1>4, <1>5, <1>8, <2>1, <2>2, <2>3, <2>4 DEF Goes, IsLine
<1>10. StreamOK'
  BY <1>1, <1>3, <1>4, <1>5, <1>6, <1>9 DEF StreamOK
<1>11. TimersOK'
  BY <1>1, SseClientAssumption DEF SseInv, TimersOK
<1> QED
  BY <1>10, <1>11 DEF SseInv

LEMMA TimePassesKeepsStream ==
  ASSUME SseInv, Tick \/ ReadTimesOut \/ Ends \/ UNCHANGED streamVars
  PROVE  SseInv'
<1>1. UNCHANGED <<frames, wire, eventName, dataParts, yielded>>
  BY DEF Tick, ReadTimesOut, Ends, streamVars, parser
<1>2. StreamOK'
  BY <1>1 DEF SseInv, StreamOK, FramesRead
<1>3. TimersOK'
  <2>1. CASE Tick
    <3>1. CASE late'
      BY <2>1, <3>1, SseClientAssumption DEF Tick, SseInv, TimersOK
    <3>2. CASE ~late'
      <4>1. ~late /\ sinceGet < Heartbeat /\ wire = <<>>
        <5>1. ~(late \/ frames = <<>> \/ sinceGet >= Heartbeat \/ wire # <<>>)
          BY <2>1, <3>2, Zenon DEF Tick
        <5> QED
          BY <5>1, SseClientAssumption DEF SseInv, TimersOK
      <4> QED
        BY <2>1, <3>2, <4>1, SseClientAssumption DEF Tick, SseInv, TimersOK
    <3> QED
      BY <3>1, <3>2
  <2>2. CASE ReadTimesOut
    BY <2>2, SseClientAssumption DEF ReadTimesOut, SseInv, TimersOK, timers
  <2>3. CASE Ends
    BY <2>3 DEF Ends, SseInv, TimersOK, timers
  <2>4. CASE UNCHANGED streamVars
    BY <2>4 DEF streamVars, SseInv, TimersOK, timers
  <2> QED
    BY <2>1, <2>2, <2>3, <2>4
<1> QED
  BY <1>2, <1>3 DEF SseInv

LEMMA SseStep == SseInv /\ [SseNext]_streamVars => SseInv'
  BY ServerSendsKeepsStream, ParseKeepsStream, CommentKeepsStream, TimePassesKeepsStream DEF SseNext

(* The caller of subscribe() is given the frames the server sent, whole,   *)
(* in order and each once, and is told that the stream went quiet only if  *)
(* the server or the network was late (subscribe.py:47-83, 169-176), for   *)
(* any number of frames, any comments between their lines and any pauses.  *)
THEOREM FramesArrive == SseSpec => []CallerSeesTheStream
<1>1. SseInv => CallerSeesTheStream
  BY DEF SseInv, StreamOK, TimersOK, CallerSeesTheStream
<1> QED
  BY <1>1, SseStarts, SseStep, PTL DEF SseSpec
=============================================================================
