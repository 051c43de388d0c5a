------------------------ MODULE CoordChannelProofs -------------------------
(***************************************************************************)
(* What holds of the coordination channel for any number of users, readers,*)
(* workers and messages, any size of the inbox and any faults: nobody      *)
(* sleeps over a message; messages are in order, in one place and answered *)
(* in time. The argument is in README.md.                                  *)
(***************************************************************************)
EXTENDS CoordChannel, SequenceTheorems, FiniteSetTheorems, TLAPS

-----------------------------------------------------------------------------
(* Wake-ups                                                                *)

(* The part of the type invariant the wake-up argument rests on.           *)
WorkersOK ==
  /\ pc \in [Workers -> WorkerPC]
  /\ reader \in [Workers -> Readers \cup {NoReader}]
  /\ inbox \in [Users -> Seq(Msgs)]
  /\ \A w \in Workers : pc[w] # "free" => reader[w] \in Readers

(* A worker that is parked works for a reader whose inbox is empty.        *)
WakeupInv == WorkersOK /\ NoLostWakeup

LEMMA MineIsUser ==
  ASSUME WorkersOK, NEW w \in Workers, pc[w] # "free"
  PROVE  Mine(w) \in Users
  BY ReadersAssumption DEF WorkersOK, Mine

(* Trimming a sequence of messages gives one.                              *)
LEMMA TrimType ==
  ASSUME NEW s \in Seq(Msgs)
  PROVE  Trim(s) \in Seq(Msgs)
  BY BoundsAssumption DEF Trim

LEMMA WakeupInit == Init => WakeupInv
  BY DEF Init, WakeupInv, WorkersOK, NoLostWakeup, WorkerPC

(* A post wakes every parked worker, so none is left to miss it.           *)
LEMMA PostWakes ==
  ASSUME WakeupInv, NEW m \in Msgs, NEW u \in Users, Post(m, u)
  PROVE  WakeupInv'
<1>1. pc' = [w \in Workers |-> IF pc[w] = "waiting" THEN "woken" ELSE pc[w]]
  BY DEF Post, WakeAll
<1>2. pc' \in [Workers -> WorkerPC]
  BY <1>1 DEF WakeupInv, WorkersOK, WorkerPC
<1>3. Append(inbox[u], m) \in Seq(Msgs)
  BY DEF WakeupInv, WorkersOK
<1>4. inbox' \in [Users -> Seq(Msgs)]
  BY <1>3, TrimType DEF WakeupInv, WorkersOK, Post
<1>5. NoLostWakeup'
  BY <1>1 DEF NoLostWakeup
<1>6. \A w \in Workers : pc'[w] # "free" => reader'[w] \in Readers
  BY <1>1 DEF WakeupInv, WorkersOK, Post
<1> QED
  BY <1>2, <1>4, <1>5, <1>6 DEF WakeupInv, WorkersOK, Post

(* Taking only empties inboxes; parking needs an empty one.                *)
LEMMA TakeOrPark ==
  ASSUME WakeupInv, NEW w \in Workers, pc[w] # "free", UNCHANGED reader,
         Take(w) \/ (Park(w) /\ inbox[Mine(w)] = <<>>)
  PROVE  WakeupInv'
<1>1. Mine(w) \in Users
  BY MineIsUser DEF WakeupInv
<1>2. CASE Take(w)
  <2>1. \A u \in Users : inbox'[u] \in {inbox[u], <<>>}
    BY <1>1, <1>2 DEF Take, Cleared, WakeupInv, WorkersOK
  <2>2. inbox' \in [Users -> Seq(Msgs)]
    BY <1>1, <1>2 DEF Take, Cleared, WakeupInv, WorkersOK
  <2>3. pc' \in [Workers -> WorkerPC]
    BY <1>2 DEF Take, WakeupInv, WorkersOK, WorkerPC
  <2>4. \A v \in Workers : pc'[v] # "free" => pc[v] # "free"
    BY <1>2 DEF Take, WakeupInv, WorkersOK
  <2>5. ASSUME NEW v \in Workers, pc'[v] = "waiting"
        PROVE  (inbox[Mine(v)])' = <<>>
    <3>1. pc[v] = "waiting"
      BY <1>2, <2>5 DEF Take, WakeupInv, WorkersOK
    <3>2. inbox[Mine(v)] = <<>> /\ Mine(v) \in Users
      BY <3>1, MineIsUser DEF WakeupInv, NoLostWakeup
    <3> QED
      BY <3>2, <2>1 DEF Mine
  <2> QED
    BY <2>2, <2>3, <2>4, <2>5 DEF WakeupInv, WorkersOK, NoLostWakeup
<1>3. CASE Park(w) /\ inbox[Mine(w)] = <<>>
  <2>1. pc' = [pc EXCEPT ![w] = "waiting"] /\ inbox' = inbox /\ reader' = reader
    BY <1>3 DEF Park
  <2>2. WorkersOK'
    BY <2>1 DEF WakeupInv, WorkersOK, WorkerPC
  <2>3. NoLostWakeup'
    BY <1>3, <2>1 DEF WakeupInv, WorkersOK, NoLostWakeup, Mine
  <2> QED
    BY <2>2, <2>3 DEF WakeupInv
<1> QED
  BY <1>2, <1>3

LEMMA WakeupStep == WakeupInv /\ [Next]_vars => WakeupInv'
<1> SUFFICES ASSUME WakeupInv, [Next]_vars PROVE WakeupInv'
  OBVIOUS
<1>1. ASSUME NEW m \in Msgs, NEW u \in Users, Post(m, u) PROVE WakeupInv'
  BY <1>1, PostWakes
<1>2. ASSUME NEW w \in Workers, DrainBegins(w) PROVE WakeupInv'
  <2>1. Take(w) \/ (Park(w) /\ inbox[Mine(w)] = <<>>)
    BY <1>2 DEF DrainBegins, MayPark
  <2> QED
    BY <1>2, <2>1, TakeOrPark DEF DrainBegins
<1>3. ASSUME NEW w \in Workers, Recheck(w) PROVE WakeupInv'
  <2>1. Take(w) \/ (Park(w) /\ inbox[Mine(w)] = <<>>)
    BY <1>3 DEF Recheck, ParksAgain
  <2> QED
    BY <1>3, <2>1, TakeOrPark DEF Recheck
<1>4. ASSUME NEW w \in Workers, DeadlinePasses(w) PROVE WakeupInv'
  BY <1>4 DEF DeadlinePasses, server, WakeupInv, WorkersOK, WorkerPC,
              NoLostWakeup, Mine
<1>5. ASSUME NEW w \in Workers, Return(w) PROVE WakeupInv'
  <2>1. /\ pc' = [pc EXCEPT ![w] = "free"]
        /\ reader' = [reader EXCEPT ![w] = NoReader]
        /\ inbox' = inbox
    BY <1>5 DEF Return, server
  <2> QED
    BY <2>1 DEF WakeupInv, WorkersOK, WorkerPC, NoLostWakeup, Mine
<1>6. ASSUME NEW w \in Workers, ConnectionLost(w) \/ ReplyUnreadable(w)
      PROVE  WakeupInv'
  BY <1>6 DEF ConnectionLost, ReplyUnreadable, server, WakeupInv, WorkersOK, NoLostWakeup, Mine
<1>7. ASSUME NEW r \in Readers, Poll(r) PROVE WakeupInv'
  <2>1. PICK w \in Workers : /\ pc[w] = "free"
                             /\ pc' = [pc EXCEPT ![w] = "called"]
                             /\ reader' = [reader EXCEPT ![w] = r]
    BY <1>7 DEF Poll
  <2>2. inbox' = inbox
    BY <1>7 DEF Poll, server
  <2> QED
    BY <2>1, <2>2 DEF WakeupInv, WorkersOK, WorkerPC, NoLostWakeup, Mine
<1>8. ASSUME NEW r \in Readers, RequestFails(r) \/ BackoffElapsed(r)
      PROVE  WakeupInv'
  BY <1>8 DEF RequestFails, BackoffElapsed, server, calls, WakeupInv,
              WorkersOK, NoLostWakeup, Mine
<1>9. ASSUME Restart PROVE WakeupInv'
  BY <1>9 DEF Restart, WakeupInv, WorkersOK, WorkerPC, NoLostWakeup
<1>10. ASSUME UNCHANGED vars PROVE WakeupInv'
  BY <1>10 DEF vars, server, calls, WakeupInv, WorkersOK, NoLostWakeup, Mine
<1> QED
  BY <1>1, <1>2, <1>3, <1>4, <1>5, <1>6, <1>7, <1>8, <1>9, <1>10
     DEF Next, Drain

(* drain() of coord.py loses no wake-up, however many users, readers and   *)
(* parked workers share the one condition: NoLostWakeup is an invariant.   *)
THEOREM NoWakeupIsLost == Spec => []NoLostWakeup
<1>1. WakeupInv => NoLostWakeup
  BY DEF WakeupInv
<1> QED
  BY WakeupInit, WakeupStep, <1>1, PTL DEF Spec

-----------------------------------------------------------------------------
(* Families of sequences in which no message occurs twice                  *)

Unique(s) ==
  \A p \in DOMAIN s, q \in DOMAIN s :
    \A i \in 1..Len(s[p]), j \in 1..Len(s[q]) : s[p][i] = s[q][j] => p = q /\ i = j

Within(s, M) == \A p \in DOMAIN s : \A i \in 1..Len(s[p]) : s[p][i] \in M

LEMMA UniqueAt ==
  ASSUME NEW s, Unique(s), NEW p \in DOMAIN s, NEW q \in DOMAIN s,
         NEW i \in 1..Len(s[p]), NEW j \in 1..Len(s[q]), s[p][i] = s[q][j]
  PROVE  p = q /\ i = j
  BY DEF Unique

(* Sequences may be dropped.                                               *)
LEMMA DropKeepsUnique ==
  ASSUME NEW P, NEW M, NEW s, NEW z, DOMAIN s = P, DOMAIN z = P,
         \A p \in P : z[p] = s[p] \/ z[p] = <<>>,
         Unique(s), Within(s, M)
  PROVE  Unique(z) /\ Within(z, M)
<1>1. \A p \in P : 1..Len(z[p]) \subseteq 1..Len(s[p])
  <2> TAKE p \in P
  <2>1. Len(<<>>) = 0
    BY EmptySeq
  <2> QED
    BY <2>1
<1>2. \A p \in P : \A i \in 1..Len(z[p]) : z[p][i] = s[p][i]
  <2> TAKE p \in P
  <2> TAKE i \in 1..Len(z[p])
  <2>1. Len(<<>>) = 0
    BY EmptySeq
  <2> QED
    BY <2>1
<1> QED
  BY <1>1, <1>2 DEF Unique, Within

(* One sequence may be emptied to the end of another.                      *)
Moves(P, s, z, p, q) ==
  /\ s \in [P -> Seq(Msgs)] /\ z \in [P -> Seq(Msgs)]
  /\ p \in P /\ q \in P /\ p # q
  /\ z[p] = <<>> /\ z[q] = s[q] \o s[p]
  /\ \A r \in P \ {p, q} : z[r] = s[r]

LEMMA MoveKeepsUnique ==
  ASSUME NEW P, NEW M, NEW s, NEW z, NEW p, NEW q, Moves(P, s, z, p, q),
         Unique(s), Within(s, M)
  PROVE  Unique(z) /\ Within(z, M)
<1> USE DEF Moves
<1> DEFINE From(r, i, o, k) ==
             /\ z[r][i] = s[o][k]
             /\ \/ o = r /\ k = i
                \/ o = p /\ r = q /\ k = i - Len(s[q])
<1>1. ASSUME NEW r \in P, NEW i \in 1..Len(z[r])
      PROVE  r # p /\ \E o \in P : \E k \in 1..Len(s[o]) : From(r, i, o, k)
  <2>1. r # p
    BY <1>1, EmptySeq
  <2>2. CASE r = q
    <3>1. /\ Len(s[q] \o s[p]) = Len(s[q]) + Len(s[p])
          /\ \A k \in 1..Len(s[q]) + Len(s[p]) :
               (s[q] \o s[p])[k] = IF k <= Len(s[q]) THEN s[q][k] ELSE s[p][k - Len(s[q])]
      BY ConcatProperties
    <3>2. Len(s[q]) \in Nat /\ Len(s[p]) \in Nat
      BY LenProperties
    <3>3. i \in 1..Len(s[q]) + Len(s[p])
      BY <1>1, <2>2, <3>1
    <3>4. CASE i <= Len(s[q])
      <4>1. i \in 1..Len(s[q]) /\ From(r, i, q, i)
        BY <2>2, <3>1, <3>2, <3>3, <3>4
      <4> QED
        BY <2>1, <4>1
    <3>5. CASE i > Len(s[q])
      <4>1. i - Len(s[q]) \in 1..Len(s[p])
        BY <3>2, <3>3, <3>5
      <4>2. From(r, i, p, i - Len(s[q]))
        BY <2>2, <3>1, <3>2, <3>3, <3>5
      <4> QED
        BY <2>1, <4>1, <4>2
    <3> QED
      BY <3>2, <3>3, <3>4, <3>5
  <2>3. CASE r # q
    BY <1>1, <2>1, <2>3
  <2> QED
    BY <2>2, <2>3
<1>2. ASSUME NEW r \in P, NEW i \in 1..Len(z[r]) PROVE z[r][i] \in M
  <2>1. PICK o \in P : \E k \in 1..Len(s[o]) : From(r, i, o, k)
    BY <1>1
  <2> QED
    BY <2>1 DEF Within
<1>3. ASSUME NEW r \in P, NEW t \in P, NEW i \in 1..Len(z[r]), NEW j \in 1..Len(z[t]),
             z[r][i] = z[t][j]
      PROVE  r = t /\ i = j
  <2>1. PICK o \in P : \E k \in 1..Len(s[o]) : From(r, i, o, k)
    BY <1>1
  <2>2. PICK k \in 1..Len(s[o]) : From(r, i, o, k)
    BY <2>1
  <2>3. PICK o1 \in P : \E l \in 1..Len(s[o1]) : From(t, j, o1, l)
    BY <1>1
  <2>4. PICK l \in 1..Len(s[o1]) : From(t, j, o1, l)
    BY <2>3
  <2>5. s[o][k] = s[o1][l]
    BY <1>3, <2>2, <2>4
  <2>6. o = o1 /\ k = l
    BY <2>5, UniqueAt
  <2>7. r # p /\ t # p
    BY <1>1
  <2>8. Len(s[q]) \in Nat /\ i \in Int /\ j \in Int
    BY LenProperties
  <2>9. (o = r /\ k = i) \/ (o = p /\ r = q /\ k = i - Len(s[q]))
    BY <2>2
  <2>10. (o = t /\ k = j) \/ (o = p /\ t = q /\ k = j - Len(s[q]))
    BY <2>4, <2>6
  <2>11. CASE o = p
    <3>1. r = q /\ t = q /\ i - Len(s[q]) = j - Len(s[q])
      BY <2>7, <2>9, <2>10, <2>11
    <3> QED
      BY <2>8, <3>1
  <2>12. CASE o # p
    BY <2>9, <2>10, <2>12
  <2> QED
    BY <2>11, <2>12
<1> QED
  BY <1>2, <1>3 DEF Unique, Within

(* A new message may join one of them.                                     *)
Grows(P, s, z, q, m) ==
  /\ s \in [P -> Seq(Msgs)] /\ z \in [P -> Seq(Msgs)]
  /\ q \in P /\ m \in Msgs
  /\ z[q] = Append(s[q], m) /\ \A r \in P \ {q} : z[r] = s[r]

LEMMA AppendKeepsUnique ==
  ASSUME NEW P, NEW M, NEW N, NEW s, NEW z, NEW q, NEW m, Grows(P, s, z, q, m),
         m \in N \ M, M \subseteq N, Unique(s), Within(s, M)
  PROVE  Unique(z) /\ Within(z, N)
<1> USE DEF Grows
<1> DEFINE New(r, i) == r = q /\ i = Len(s[q]) + 1 /\ z[r][i] = m
           Old(r, i) == i \in 1..Len(s[r]) /\ z[r][i] = s[r][i] /\ s[r][i] \in M
<1>1. ASSUME NEW r \in P, NEW i \in 1..Len(z[r]) PROVE New(r, i) \/ Old(r, i)
  <2>1. CASE r = q
    <3>1. /\ Len(Append(s[q], m)) = Len(s[q]) + 1
          /\ \A k \in 1..Len(s[q]) : Append(s[q], m)[k] = s[q][k]
          /\ Append(s[q], m)[Len(s[q]) + 1] = m
      BY AppendProperties
    <3>2. Len(s[q]) \in Nat
      BY LenProperties
    <3> QED
      BY <1>1, <2>1, <3>1, <3>2 DEF Within
  <2>2. CASE r # q
    BY <1>1, <2>2 DEF Within
  <2> QED
    BY <2>1, <2>2
<1>2. ASSUME NEW r \in P, NEW t \in P, NEW i \in 1..Len(z[r]), NEW j \in 1..Len(z[t]),
             z[r][i] = z[t][j]
      PROVE  r = t /\ i = j
  <2>1. \/ New(r, i) /\ New(t, j)
        \/ Old(r, i) /\ Old(t, j)
    BY <1>1, <1>2
  <2>2. CASE New(r, i) /\ New(t, j)
    BY <2>2
  <2>3. CASE Old(r, i) /\ Old(t, j)
    <3>1. i \in 1..Len(s[r]) /\ j \in 1..Len(s[t]) /\ s[r][i] = s[t][j]
      BY <1>2, <2>3
    <3> QED
      BY <3>1, UniqueAt
  <2> QED
    BY <2>1, <2>2, <2>3
<1>3. Within(z, N)
  BY <1>1 DEF Within
<1> QED
  BY <1>2, <1>3 DEF Unique

(* The first message of one of them may leave.                             *)
LEMMA TailKeepsUnique ==
  ASSUME NEW P, NEW S, NEW M, NEW s \in [P -> Seq(S)], NEW z \in [P -> Seq(S)],
         NEW q \in P, s[q] # <<>>,
         z[q] = Tail(s[q]), \A r \in P \ {q} : z[r] = s[r],
         Unique(s), Within(s, M)
  PROVE  Unique(z) /\ Within(z, M)
<1> DEFINE From(r, i, k) == k = (IF r = q THEN i + 1 ELSE i) /\ z[r][i] = s[r][k]
<1>1. ASSUME NEW r \in P, NEW i \in 1..Len(z[r])
      PROVE  \E k \in 1..Len(s[r]) : From(r, i, k)
  <2>1. CASE r = q
    <3>1. /\ Len(Tail(s[q])) = Len(s[q]) - 1
          /\ \A k \in 1..Len(Tail(s[q])) : Tail(s[q])[k] = s[q][k + 1]
      BY HeadTailProperties
    <3>2. Len(s[q]) \in Nat
      BY LenProperties
    <3>3. i + 1 \in 1..Len(s[q])
      BY <1>1, <2>1, <3>1, <3>2
    <3> QED
      BY <1>1, <2>1, <3>1, <3>3
  <2>2. CASE r # q
    BY <1>1, <2>2
  <2> QED
    BY <2>1, <2>2
<1>2. ASSUME NEW r \in P, NEW t \in P, NEW i \in 1..Len(z[r]), NEW j \in 1..Len(z[t]),
             z[r][i] = z[t][j]
      PROVE  r = t /\ i = j
  <2>1. PICK k \in 1..Len(s[r]) : From(r, i, k)
    BY <1>1
  <2>2. PICK l \in 1..Len(s[t]) : From(t, j, l)
    BY <1>1
  <2>3. s[r][k] = s[t][l]
    BY <1>2, <2>1, <2>2
  <2>4. r = t /\ k = l
    BY <2>3, UniqueAt
  <2> QED
    BY <2>1, <2>2, <2>4
<1>3. Within(z, M)
  BY <1>1 DEF Within
<1> QED
  BY <1>2, <1>3 DEF Unique

-----------------------------------------------------------------------------
(* The type invariant                                                      *)

LEMMA TypeToWorkers == TypeOK => WorkersOK
  BY DEF TypeOK, WorkersOK

LEMMA TrimFits ==
  ASSUME NEW s \in Seq(Msgs), NEW m \in Msgs, Len(s) <= InboxMax
  PROVE  /\ Trim(Append(s, m)) \in Seq(Msgs)
         /\ Len(Trim(Append(s, m))) <= InboxMax
<1>1. /\ Append(s, m) \in Seq(Msgs)
      /\ Append(s, m) # <<>>
      /\ Len(Append(s, m)) = Len(s) + 1
  BY AppendProperties
<1>2. /\ Tail(Append(s, m)) \in Seq(Msgs)
      /\ Len(Tail(Append(s, m))) = Len(s)
  <2>1. Len(s) \in Nat
    BY LenProperties
  <2> QED
    BY <1>1, <2>1, HeadTailProperties
<1> QED
  BY <1>1, <1>2, BoundsAssumption, LenProperties DEF Trim

LEMMA TypeInit == Init => TypeOK
<1> SUFFICES ASSUME Init PROVE TypeOK
  OBVIOUS
<1>1. Len(<<>>) = 0 /\ <<>> \in Seq(Msgs)
  BY EmptySeq
<1> QED
  BY <1>1, BoundsAssumption DEF Init, TypeOK, WorkerPC

LEMMA PostType ==
  ASSUME TypeOK, NEW m \in Msgs, NEW u \in Users, Post(m, u)
  PROVE  TypeOK'
<1>1. /\ inbox' = [inbox EXCEPT ![u] = Trim(Append(inbox[u], m))]
      /\ posts' = [posts EXCEPT ![u] = Append(posts[u], m)]
      /\ pc' = [w \in Workers |-> IF pc[w] = "waiting" THEN "woken" ELSE pc[w]]
  BY DEF Post, WakeAll
<1>2. /\ Trim(Append(inbox[u], m)) \in Seq(Msgs)
      /\ Len(Trim(Append(inbox[u], m))) <= InboxMax
  BY TrimFits DEF TypeOK
<1>3. Append(posts[u], m) \in Seq(Msgs)
  BY AppendProperties DEF TypeOK
<1>4. inbox' \in [Users -> Seq(Msgs)] /\ \A v \in Users : Len(inbox'[v]) <= InboxMax
  BY <1>1, <1>2 DEF TypeOK
<1>5. posts' \in [Users -> Seq(Msgs)]
  BY <1>1, <1>3 DEF TypeOK
<1>6. pc' \in [Workers -> WorkerPC] /\ \A w \in Workers : pc'[w] # "free" => pc[w] # "free"
  BY <1>1 DEF TypeOK, WorkerPC
<1> QED
  BY <1>4, <1>5, <1>6 DEF TypeOK, Post, client, bounds

LEMMA TakeOrParkType ==
  ASSUME TypeOK, NEW w \in Workers, pc[w] # "free", Take(w) \/ Park(w),
         UNCHANGED <<posts, reader, attached, expired, client, bounds>>
  PROVE  TypeOK'
<1>1. Mine(w) \in Users
  BY MineIsUser, TypeToWorkers
<1>2. CASE Take(w)
  <2>1. /\ got' = [got EXCEPT ![w] = inbox[Mine(w)]]
        /\ pc' = [pc EXCEPT ![w] = "returning"]
        /\ inbox' = inbox \/ inbox' = [inbox EXCEPT ![Mine(w)] = <<>>]
    BY <1>2 DEF Take, Cleared
  <2>2. inbox' \in [Users -> Seq(Msgs)] /\ \A u \in Users : Len(inbox'[u]) <= InboxMax
    <3>1. Len(<<>>) = 0 /\ <<>> \in Seq(Msgs)
      BY EmptySeq
    <3>2. \A u \in Users : inbox'[u] = inbox[u] \/ inbox'[u] = <<>>
      BY <1>1, <2>1 DEF TypeOK
    <3>3. inbox' = [u \in Users |-> inbox'[u]]
      BY <2>1 DEF TypeOK
    <3>4. inbox' \in [Users -> Seq(Msgs)]
      BY <3>1, <3>2, <3>3 DEF TypeOK
    <3>5. ASSUME NEW u \in Users PROVE Len(inbox'[u]) <= InboxMax
      <4>1. CASE inbox'[u] = inbox[u]
        BY <4>1 DEF TypeOK
      <4>2. CASE inbox'[u] = <<>>
        <5>1. Len(inbox'[u]) = 0
          BY <3>1, <4>2
        <5> QED
          BY <5>1, BoundsAssumption
      <4> QED
        BY <3>2, <4>1, <4>2
    <3> QED
      BY <3>4, <3>5
  <2>3. got' \in [Workers -> Seq(Msgs)] /\ pc' \in [Workers -> WorkerPC]
    BY <1>1, <2>1 DEF TypeOK, WorkerPC
  <2>4. \A v \in Workers : pc'[v] # "free" => reader[v] \in Readers
    BY <2>1 DEF TypeOK
  <2> QED
    BY <2>2, <2>3, <2>4 DEF TypeOK, client, bounds
<1>3. CASE Park(w)
  BY <1>3 DEF Park, TypeOK, WorkerPC, client, bounds
<1> QED
  BY <1>2, <1>3

LEMMA ReturnType ==
  ASSUME TypeOK, NEW w \in Workers, Return(w)
  PROVE  TypeOK'
<1>1. reader[w] \in Readers
  BY DEF Return, TypeOK
<1>2. /\ pc' = [pc EXCEPT ![w] = "free"]
      /\ reader' = [reader EXCEPT ![w] = NoReader]
      /\ attached' = [attached EXCEPT ![w] = FALSE]
      /\ expired' = [expired EXCEPT ![w] = FALSE]
      /\ got' = [got EXCEPT ![w] = <<>>]
  BY DEF Return
<1>3. /\ pc' \in [Workers -> WorkerPC]
      /\ reader' \in [Workers -> Readers \cup {NoReader}]
      /\ \A v \in Workers : pc'[v] # "free" => reader'[v] \in Readers
      /\ attached' \in [Workers -> BOOLEAN]
      /\ expired' \in [Workers -> BOOLEAN]
      /\ got' \in [Workers -> Seq(Msgs)]
  BY <1>2, EmptySeq DEF TypeOK, WorkerPC
<1>4. /\ at' \in [Readers -> {"idle", "polling", "backoff", "done"}]
      /\ printed' \in [Readers -> Seq(Msgs)]
  <2>1. CASE attached[w]
    <3>1. printed[reader[w]] \o got[w] \in Seq(Msgs)
      BY <1>1, ConcatProperties DEF TypeOK
    <3> QED
      BY <1>1, <2>1, <3>1 DEF Return, TypeOK
  <2>2. CASE ~ attached[w]
    BY <2>2 DEF Return, TypeOK, client
  <2> QED
    BY <2>1, <2>2
<1> QED
  BY <1>3, <1>4 DEF Return, TypeOK, server, bounds

(* Calls that begin, fail or lose their reader.                            *)
LEMMA PollType ==
  ASSUME TypeOK, NEW r \in Readers, Poll(r)
  PROVE  TypeOK'
<1>1. PICK w \in Workers : /\ pc[w] = "free"
                           /\ pc' = [pc EXCEPT ![w] = "called"]
                           /\ reader' = [reader EXCEPT ![w] = r]
                           /\ attached' = [attached EXCEPT ![w] = TRUE]
  BY DEF Poll
<1> QED
  BY <1>1 DEF Poll, TypeOK, WorkerPC, server, bounds

LEMMA FaultType ==
  ASSUME TypeOK, \/ \E w \in Workers : ConnectionLost(w) \/ ReplyUnreadable(w)
                 \/ \E r \in Readers : RequestFails(r)
  PROVE  TypeOK'
<1>1. faults' \in 0..MaxFaults /\ restarts' = restarts
  BY BoundsAssumption DEF ConnectionLost, ReplyUnreadable, RequestFails, TypeOK
<1>2. at' \in [Readers -> {"idle", "polling", "backoff", "done"}]
  BY DEF ConnectionLost, ReplyUnreadable, RequestFails, TypeOK, AfterError
<1>3. attached' \in [Workers -> BOOLEAN]
  BY DEF ConnectionLost, ReplyUnreadable, RequestFails, TypeOK, calls
<1>4. UNCHANGED <<inbox, posts, pc, reader, expired, got, printed>>
  BY DEF ConnectionLost, ReplyUnreadable, RequestFails, server, calls
<1> QED
  BY <1>1, <1>2, <1>3, <1>4 DEF TypeOK

LEMMA RestartType ==
  ASSUME TypeOK, Restart
  PROVE  TypeOK'
<1>1. inbox' \in [Users -> Seq(Msgs)] /\ \A u \in Users : Len(inbox'[u]) <= InboxMax
  <2>1. Len(<<>>) = 0 /\ <<>> \in Seq(Msgs)
    BY EmptySeq
  <2> QED
    BY <2>1, BoundsAssumption DEF Restart
<1>2. /\ pc' \in [Workers -> WorkerPC]
      /\ \A w \in Workers : pc'[w] = "free"
      /\ reader' \in [Workers -> Readers \cup {NoReader}]
      /\ attached' \in [Workers -> BOOLEAN]
      /\ expired' \in [Workers -> BOOLEAN]
      /\ got' \in [Workers -> Seq(Msgs)]
  BY EmptySeq DEF Restart, WorkerPC
<1>3. at' \in [Readers -> {"idle", "polling", "backoff", "done"}]
  BY DEF Restart, AfterError, TypeOK
<1>4. restarts' \in 0..MaxRestarts
  BY BoundsAssumption DEF Restart, TypeOK
<1> QED
  BY <1>1, <1>2, <1>3, <1>4 DEF Restart, TypeOK

LEMMA TypeStep == TypeOK /\ [Next]_vars => TypeOK'
<1> SUFFICES ASSUME TypeOK, [Next]_vars PROVE TypeOK'
  OBVIOUS
<1>1. ASSUME NEW m \in Msgs, NEW u \in Users, Post(m, u) PROVE TypeOK'
  BY <1>1, PostType
<1>2. ASSUME NEW w \in Workers, DrainBegins(w) PROVE TypeOK'
  BY <1>2, TakeOrParkType DEF DrainBegins
<1>3. ASSUME NEW w \in Workers, Recheck(w) PROVE TypeOK'
  BY <1>3, TakeOrParkType DEF Recheck
<1>4. ASSUME NEW w \in Workers, Return(w) PROVE TypeOK'
  BY <1>4, ReturnType
<1>5. ASSUME NEW w \in Workers, DeadlinePasses(w) PROVE TypeOK'
  BY <1>5 DEF DeadlinePasses, TypeOK, WorkerPC, server, client, bounds
<1>6. ASSUME NEW r \in Readers, Poll(r) PROVE TypeOK'
  BY <1>6, PollType
<1>7. CASE \/ \E w \in Workers : ConnectionLost(w) \/ ReplyUnreadable(w)
           \/ \E r \in Readers : RequestFails(r)
  BY <1>7, FaultType
<1>8. ASSUME NEW r \in Readers, BackoffElapsed(r) PROVE TypeOK'
  BY <1>8 DEF BackoffElapsed, TypeOK, server, calls, bounds
<1>9. CASE Restart
  BY <1>9, RestartType
<1>10. CASE UNCHANGED vars
  BY <1>10 DEF vars, server, calls, client, bounds, TypeOK
<1> QED
  BY <1>1, <1>2, <1>3, <1>4, <1>5, <1>6, <1>7, <1>8, <1>9, <1>10 DEF Next, Drain

-----------------------------------------------------------------------------
(* Each message is in one place                                            *)

Box(u)    == <<"inbox", u>>
Call(w)   == <<"call", w>>
Paper(r)  == <<"printed", r>>
Places == ({"inbox"} \X Users) \cup ({"call"} \X Workers) \cup ({"printed"} \X Readers)

(* What the inboxes, the draining calls and the readers hold; a peek has   *)
(* copies, which do not count.                                             *)
InCall(w)  == IF Takes(w) THEN got[w] ELSE <<>>
Printed(r) == IF Mode[r] = "peek" THEN <<>> ELSE printed[r]
Mail == [p \in Places |-> IF p[1] = "inbox" THEN inbox[p[2]]
                          ELSE IF p[1] = "call" THEN InCall(p[2]) ELSE Printed(p[2])]

Posted == {m \in Msgs : \E u \in Users : m \in Range(posts[u])}

MailOnce == Unique(Mail) /\ Within(Mail, Posted)

LEMMA MailAt ==
  /\ DOMAIN Mail = Places
  /\ \A u \in Users : Box(u) \in Places /\ Mail[Box(u)] = inbox[u]
  /\ \A w \in Workers : Call(w) \in Places /\ Mail[Call(w)] = InCall(w)
  /\ \A r \in Readers : Paper(r) \in Places /\ Mail[Paper(r)] = Printed(r)
  BY DEF Mail, Places, Box, Call, Paper

LEMMA MailAtNext ==
  /\ DOMAIN Mail' = Places
  /\ \A u \in Users : Box(u) \in Places /\ Mail'[Box(u)] = inbox'[u]
  /\ \A w \in Workers : Call(w) \in Places /\ Mail'[Call(w)] = InCall(w)'
  /\ \A r \in Readers : Paper(r) \in Places /\ Mail'[Paper(r)] = Printed(r)'
  BY DEF Mail, Places, Box, Call, Paper

LEMMA PlaceCases ==
  ASSUME NEW p \in Places
  PROVE  \/ \E u \in Users : p = Box(u)
         \/ \E w \in Workers : p = Call(w)
         \/ \E r \in Readers : p = Paper(r)
  BY DEF Places, Box, Call, Paper

LEMMA MailType == TypeOK => Mail \in [Places -> Seq(Msgs)]
<1> SUFFICES ASSUME TypeOK PROVE Mail \in [Places -> Seq(Msgs)]
  OBVIOUS
<1>1. <<>> \in Seq(Msgs)
  BY EmptySeq
<1>2. ASSUME NEW p \in Places PROVE Mail[p] \in Seq(Msgs)
  <2>1. ASSUME NEW u \in Users, p = Box(u) PROVE Mail[p] \in Seq(Msgs)
    BY <2>1, MailAt DEF TypeOK
  <2>2. ASSUME NEW w \in Workers, p = Call(w) PROVE Mail[p] \in Seq(Msgs)
    BY <1>1, <2>2, MailAt DEF TypeOK, InCall
  <2>3. ASSUME NEW r \in Readers, p = Paper(r) PROVE Mail[p] \in Seq(Msgs)
    BY <1>1, <2>3, MailAt DEF TypeOK, Printed
  <2> QED
    BY <2>1, <2>2, <2>3, PlaceCases
<1>3. Mail = [p \in Places |-> Mail[p]]
  BY DEF Mail
<1> QED
  BY <1>2, <1>3

LEMMA MailTypeNext == TypeOK' => Mail' \in [Places -> Seq(Msgs)]
<1> SUFFICES ASSUME TypeOK' PROVE Mail' \in [Places -> Seq(Msgs)]
  OBVIOUS
<1>1. <<>> \in Seq(Msgs)
  BY EmptySeq
<1>2. ASSUME NEW p \in Places PROVE Mail'[p] \in Seq(Msgs)
  <2>1. ASSUME NEW u \in Users, p = Box(u) PROVE Mail'[p] \in Seq(Msgs)
    BY <2>1, MailAtNext DEF TypeOK
  <2>2. ASSUME NEW w \in Workers, p = Call(w) PROVE Mail'[p] \in Seq(Msgs)
    BY <1>1, <2>2, MailAtNext DEF TypeOK, InCall
  <2>3. ASSUME NEW r \in Readers, p = Paper(r) PROVE Mail'[p] \in Seq(Msgs)
    BY <1>1, <2>3, MailAtNext DEF TypeOK, Printed
  <2> QED
    BY <2>1, <2>2, <2>3, PlaceCases
<1>3. Mail' = [p \in Places |-> Mail'[p]]
  BY DEF Mail
<1> QED
  BY <1>2, <1>3

LEMMA MailInit == Init => MailOnce
<1> SUFFICES ASSUME Init PROVE MailOnce
  OBVIOUS
<1>1. ASSUME NEW p \in Places PROVE Mail[p] = <<>>
  BY MailAt, PlaceCases DEF Init, InCall, Printed, Takes
<1>2. Len(<<>>) = 0
  BY EmptySeq
<1> QED
  BY <1>1, <1>2, MailAt DEF MailOnce, Unique, Within

(* A step that moves nothing, or only loses what a place held.             *)
LEMMA NothingMoves ==
  ASSUME MailOnce, UNCHANGED posts,
         \A u \in Users : inbox'[u] = inbox[u] \/ inbox'[u] = <<>>,
         \A w \in Workers : InCall(w)' = InCall(w) \/ InCall(w)' = <<>>,
         \A r \in Readers : Printed(r)' = Printed(r) \/ Printed(r)' = <<>>
  PROVE  MailOnce'
<1>1. \A p \in Places : Mail'[p] = Mail[p] \/ Mail'[p] = <<>>
  BY MailAt, MailAtNext, PlaceCases
<1>2. Posted' = Posted
  BY DEF Posted
<1>3. Unique(Mail') /\ Within(Mail', Posted)
  BY <1>1, MailAt, MailAtNext, DropKeepsUnique DEF MailOnce
<1> QED
  BY <1>2, <1>3 DEF MailOnce, Unique, Within

LEMMA PostMail ==
  ASSUME TypeOK, TypeOK', MailOnce, NEW m \in Msgs, NEW u \in Users, Post(m, u)
  PROVE  MailOnce'
<1> DEFINE full == [Mail EXCEPT ![Box(u)] = Append(inbox[u], m)]
<1>1. Box(u) \in Places /\ Mail[Box(u)] = inbox[u]
  BY MailAt
<1>2. m \notin Posted
  BY DEF Post, Posted
<1>3. /\ inbox' = [inbox EXCEPT ![u] = Trim(Append(inbox[u], m))]
      /\ posts' = [posts EXCEPT ![u] = Append(posts[u], m)]
      /\ pc' = [w \in Workers |-> IF pc[w] = "waiting" THEN "woken" ELSE pc[w]]
      /\ UNCHANGED <<reader, got, printed>>
  BY DEF Post, WakeAll, client
<1>4. /\ Append(inbox[u], m) \in Seq(Msgs)
      /\ Append(inbox[u], m) # <<>>
  <2>1. inbox[u] \in Seq(Msgs)
    BY DEF TypeOK
  <2> QED
    BY <2>1, AppendProperties
<1>5. full \in [Places -> Seq(Msgs)]
  BY <1>4, MailType
<1>6. Unique(full) /\ Within(full, Posted \cup {m})
  <2>1. full[Box(u)] = Append(Mail[Box(u)], m) /\ \A p \in Places \ {Box(u)} : full[p] = Mail[p]
    BY <1>1, MailType
  <2>2. Grows(Places, Mail, full, Box(u), m)
    BY <1>1, <1>5, <2>1, MailType DEF Grows
  <2> DEFINE all == Posted \cup {m}
  <2>3. Posted \subseteq all /\ m \in all \ Posted
    BY <1>2
  <2> HIDE DEF full, all
  <2>4. Unique(full) /\ Within(full, all)
    BY <2>2, <2>3, AppendKeepsUnique DEF MailOnce
  <2> QED
    BY <2>4 DEF all
<1>7. \A w \in Workers : InCall(w)' = InCall(w)
  BY <1>3 DEF InCall, Takes
<1>8. \A r \in Readers : Printed(r)' = Printed(r)
  BY <1>3 DEF Printed
<1>9. \A p \in Places \ {Box(u)} : Mail'[p] = full[p]
  <2> TAKE p \in Places \ {Box(u)}
  <2>1. full[p] = Mail[p]
    BY MailType
  <2>2. ASSUME NEW v \in Users, p = Box(v) PROVE Mail'[p] = Mail[p]
    BY <1>3, <2>2, MailAt, MailAtNext DEF TypeOK
  <2>3. ASSUME NEW w \in Workers, p = Call(w) PROVE Mail'[p] = Mail[p]
    BY <1>7, <2>3, MailAt, MailAtNext
  <2>4. ASSUME NEW r \in Readers, p = Paper(r) PROVE Mail'[p] = Mail[p]
    BY <1>8, <2>4, MailAt, MailAtNext
  <2> QED
    BY <2>1, <2>2, <2>3, <2>4, PlaceCases
<1>10. Mail'[Box(u)] = Trim(full[Box(u)]) /\ full[Box(u)] # <<>>
  BY <1>1, <1>3, <1>4, MailType, MailAtNext DEF TypeOK
<1>11. Unique(Mail') /\ Within(Mail', Posted \cup {m})
  <2> HIDE DEF full
  <2>1. Mail' \in [Places -> Seq(Msgs)]
    BY MailTypeNext
  <2>2. CASE Mail'[Box(u)] = Tail(full[Box(u)])
    BY <1>1, <1>5, <1>6, <1>9, <1>10, <2>1, <2>2, TailKeepsUnique
  <2>3. CASE Mail'[Box(u)] = full[Box(u)]
    <3>1. \A p \in Places : Mail'[p] = full[p]
      BY <1>9, <2>3
    <3> QED
      BY <1>5, <1>6, <2>1, <3>1, DropKeepsUnique
  <2> QED
    BY <1>10, <2>2, <2>3 DEF Trim
<1>12. Posted \cup {m} \subseteq Posted'
  <2>1. posts[u] \in Seq(Msgs) /\ posts'[u] = Append(posts[u], m)
    BY <1>3 DEF TypeOK
  <2>2. Range(posts'[u]) = Range(posts[u]) \cup {m}
    <3>1. /\ posts'[u] \in Seq(Msgs)
          /\ Len(posts'[u]) = Len(posts[u]) + 1
          /\ \A i \in 1..Len(posts[u]) : posts'[u][i] = posts[u][i]
          /\ posts'[u][Len(posts[u]) + 1] = m
      BY <2>1, AppendProperties
    <3>2. /\ Range(posts[u]) = {posts[u][i] : i \in 1..Len(posts[u])}
          /\ Range(posts'[u]) = {posts'[u][i] : i \in 1..Len(posts'[u])}
      BY <2>1, <3>1, RangeEquality
    <3>3. 1..Len(posts'[u]) = 1..Len(posts[u]) \cup {Len(posts[u]) + 1}
      <4>1. Len(posts[u]) \in Nat
        BY <2>1, LenProperties
      <4> QED
        BY <3>1, <4>1
    <3> DEFINE old == posts[u]
               new == posts'[u]
               n == Len(posts[u]) + 1
    <3>4. {new[i] : i \in 1..Len(new)} = {new[i] : i \in 1..Len(old)} \cup {new[n]}
      BY <3>3
    <3>5. {new[i] : i \in 1..Len(old)} = {old[i] : i \in 1..Len(old)}
      BY <3>1
    <3> QED
      BY <3>1, <3>2, <3>4, <3>5
  <2>3. \A v \in Users \ {u} : posts'[v] = posts[v]
    BY <1>3 DEF TypeOK
  <2> QED
    BY <2>2, <2>3 DEF Posted
<1> QED
  BY <1>11, <1>12 DEF MailOnce, Unique, Within

LEMMA TakeMail ==
  ASSUME TypeOK, TypeOK', MailOnce, NEW w \in Workers, pc[w] \in {"called", "woken"},
         Take(w), UNCHANGED <<posts, reader, printed>>
  PROVE  MailOnce'
<1>1. /\ got' = [got EXCEPT ![w] = inbox[Mine(w)]]
      /\ inbox' = IF Mode[reader[w]] = "peek" THEN inbox ELSE [inbox EXCEPT ![Mine(w)] = <<>>]
      /\ pc' = [pc EXCEPT ![w] = "returning"]
  BY DEF Take, Cleared
<1>2. Mine(w) \in Users
  BY MineIsUser, TypeToWorkers
<1>3. InCall(w) = <<>>
  BY DEF InCall, Takes
<1>4. \A v \in Workers \ {w} : InCall(v)' = InCall(v)
  BY <1>1 DEF InCall, Takes, TypeOK
<1>5. \A r \in Readers : Printed(r)' = Printed(r)
  BY DEF Printed
<1>6. CASE Mode[reader[w]] = "peek"
  <2>1. InCall(w)' = <<>>
    BY <1>1, <1>6 DEF InCall, Takes
  <2> QED
    BY <1>1, <1>3, <1>4, <1>5, <1>6, <2>1, NothingMoves
<1>7. CASE Mode[reader[w]] # "peek"
  <2>1. InCall(w)' = inbox[Mine(w)]
    BY <1>1, <1>7 DEF InCall, Takes, TypeOK
  <2> DEFINE p == Box(Mine(w))
             q == Call(w)
  <2>2. p \in Places /\ q \in Places /\ p # q
    BY <1>2, MailAt DEF Box, Call
  <2>3. Mail'[p] = <<>>
    BY <1>1, <1>2, <1>7, MailAtNext DEF TypeOK
  <2>4. Mail'[q] = Mail[q] \o Mail[p]
    <3>1. <<>> \o inbox[Mine(w)] = inbox[Mine(w)]
      BY <1>2, ConcatEmptySeq DEF TypeOK
    <3> QED
      BY <1>2, <1>3, <2>1, <3>1, MailAt, MailAtNext
  <2>5. \A r \in Places \ {p, q} : Mail'[r] = Mail[r]
    <3> TAKE r \in Places \ {p, q}
    <3>1. ASSUME NEW u \in Users, r = Box(u) PROVE Mail'[r] = Mail[r]
      BY <1>1, <1>7, <3>1, MailAt, MailAtNext DEF TypeOK
    <3>2. ASSUME NEW v \in Workers, r = Call(v) PROVE Mail'[r] = Mail[r]
      BY <1>4, <3>2, MailAt, MailAtNext
    <3>3. ASSUME NEW x \in Readers, r = Paper(x) PROVE Mail'[r] = Mail[r]
      BY <1>5, <3>3, MailAt, MailAtNext
    <3> QED
      BY <3>1, <3>2, <3>3, PlaceCases
  <2>6. Unique(Mail') /\ Within(Mail', Posted)
    <3>1. Moves(Places, Mail, Mail', p, q)
      BY <2>2, <2>3, <2>4, <2>5, MailType, MailTypeNext DEF Moves
    <3> QED
      BY <3>1, MoveKeepsUnique DEF MailOnce
  <2>7. Posted' = Posted
    BY DEF Posted
  <2> QED
    BY <2>6, <2>7 DEF MailOnce, Unique, Within
<1> QED
  BY <1>6, <1>7

LEMMA ReturnMail ==
  ASSUME TypeOK, TypeOK', MailOnce, NEW w \in Workers, Return(w)
  PROVE  MailOnce'
<1>1. PICK x \in Readers : x = reader[w]
  BY DEF Return, TypeOK
<1>2. /\ pc[w] = "returning"
      /\ pc' = [pc EXCEPT ![w] = "free"]
      /\ reader' = [reader EXCEPT ![w] = NoReader]
      /\ got' = [got EXCEPT ![w] = <<>>]
      /\ UNCHANGED <<inbox, posts>>
  BY DEF Return, server
<1>3. InCall(w)' = <<>> /\ \A v \in Workers \ {w} : InCall(v)' = InCall(v)
  BY <1>2 DEF InCall, Takes, TypeOK
<1>4. CASE ~ attached[w] \/ Mode[x] = "peek"
  <2>1. ASSUME NEW r \in Readers PROVE Printed(r)' = Printed(r)
    <3>1. CASE ~ attached[w]
      BY <3>1 DEF Return, client, Printed
    <3>2. CASE attached[w] /\ Mode[x] = "peek"
      <4>1. printed' = [printed EXCEPT ![x] = printed[x] \o got[w]]
        BY <1>1, <3>2 DEF Return
      <4> QED
        BY <3>2, <4>1 DEF Printed, TypeOK
    <3> QED
      BY <1>4, <3>1, <3>2
  <2> QED
    BY <1>2, <1>3, <2>1, NothingMoves
<1>5. CASE attached[w] /\ Mode[x] # "peek"
  <2>1. printed' = [printed EXCEPT ![x] = printed[x] \o got[w]]
    BY <1>1, <1>5 DEF Return
  <2> DEFINE p == Call(w)
             q == Paper(x)
  <2>2. p \in Places /\ q \in Places /\ p # q
    BY <1>1, MailAt DEF Call, Paper
  <2>3. Mail'[p] = <<>>
    BY <1>3, MailAtNext
  <2>4. Mail'[q] = Mail[q] \o Mail[p]
    <3>1. InCall(w) = got[w]
      BY <1>1, <1>2, <1>5 DEF InCall, Takes
    <3>2. Printed(x)' = printed[x] \o got[w] /\ Printed(x) = printed[x]
      BY <1>5, <2>1 DEF Printed, TypeOK
    <3> QED
      BY <1>1, <3>1, <3>2, MailAt, MailAtNext
  <2>5. \A r \in Places \ {p, q} : Mail'[r] = Mail[r]
    <3> TAKE r \in Places \ {p, q}
    <3>1. ASSUME NEW u \in Users, r = Box(u) PROVE Mail'[r] = Mail[r]
      BY <1>2, <3>1, MailAt, MailAtNext
    <3>2. ASSUME NEW v \in Workers, r = Call(v) PROVE Mail'[r] = Mail[r]
      BY <1>3, <3>2, MailAt, MailAtNext
    <3>3. ASSUME NEW y \in Readers, r = Paper(y) PROVE Mail'[r] = Mail[r]
      <4>1. Printed(y)' = Printed(y)
        BY <1>5, <2>1, <3>3 DEF Printed, TypeOK
      <4> QED
        BY <3>3, <4>1, MailAt, MailAtNext
    <3> QED
      BY <3>1, <3>2, <3>3, PlaceCases
  <2>6. Unique(Mail') /\ Within(Mail', Posted)
    <3>1. Moves(Places, Mail, Mail', p, q)
      BY <2>2, <2>3, <2>4, <2>5, MailType, MailTypeNext DEF Moves
    <3> QED
      BY <3>1, MoveKeepsUnique DEF MailOnce
  <2>7. Posted' = Posted
    BY <1>2 DEF Posted
  <2> QED
    BY <2>6, <2>7 DEF MailOnce, Unique, Within
<1> QED
  BY <1>4, <1>5

(* Parking, waking and starting a call move no message.                    *)
LEMMA OutsideReturning ==
  ASSUME MailOnce, UNCHANGED <<inbox, posts, got, printed>>,
         \A w \in Workers : /\ (pc'[w] = "returning") = (pc[w] = "returning")
                            /\ pc[w] = "returning" => reader'[w] = reader[w]
  PROVE  MailOnce'
<1>1. \A w \in Workers : InCall(w)' = InCall(w)
  BY DEF InCall, Takes
<1>2. \A r \in Readers : Printed(r)' = Printed(r)
  BY DEF Printed
<1> QED
  BY <1>1, <1>2, NothingMoves

LEMMA MailStep == TypeOK /\ TypeOK' /\ MailOnce /\ [Next]_vars => MailOnce'
<1> SUFFICES ASSUME TypeOK, TypeOK', MailOnce, [Next]_vars PROVE MailOnce'
  OBVIOUS
<1>1. ASSUME NEW m \in Msgs, NEW u \in Users, Post(m, u) PROVE MailOnce'
  BY <1>1, PostMail
<1>2. ASSUME NEW w \in Workers, DrainBegins(w) \/ Recheck(w) PROVE MailOnce'
  <2>1. /\ pc[w] \in {"called", "woken"}
        /\ UNCHANGED <<posts, reader, printed>>
    BY <1>2 DEF DrainBegins, Recheck, client
  <2>2. CASE Take(w)
    BY <2>1, <2>2, TakeMail
  <2>3. CASE Park(w)
    BY <2>1, <2>3, OutsideReturning DEF Park, TypeOK
  <2> QED
    BY <1>2, <2>2, <2>3 DEF DrainBegins, Recheck
<1>3. ASSUME NEW w \in Workers, Return(w) PROVE MailOnce'
  BY <1>3, ReturnMail
<1>4. ASSUME NEW w \in Workers, DeadlinePasses(w) PROVE MailOnce'
  BY <1>4, OutsideReturning DEF DeadlinePasses, TypeOK, server, client
<1>5. ASSUME NEW r \in Readers, Poll(r) PROVE MailOnce'
  <2>1. PICK w \in Workers : /\ pc[w] = "free"
                             /\ pc' = [pc EXCEPT ![w] = "called"]
                             /\ reader' = [reader EXCEPT ![w] = r]
    BY <1>5 DEF Poll
  <2> QED
    BY <1>5, <2>1, OutsideReturning DEF Poll, TypeOK, server
<1>6. ASSUME NEW w \in Workers, ConnectionLost(w) \/ ReplyUnreadable(w) PROVE MailOnce'
  BY <1>6, OutsideReturning DEF ConnectionLost, ReplyUnreadable, server
<1>7. ASSUME NEW r \in Readers, RequestFails(r) \/ BackoffElapsed(r) PROVE MailOnce'
  BY <1>7, OutsideReturning DEF RequestFails, BackoffElapsed, server, calls
<1>8. CASE Restart
  <2>1. /\ \A u \in Users : inbox'[u] = <<>>
        /\ UNCHANGED <<posts, printed>>
    BY <1>8 DEF Restart
  <2>2. \A w \in Workers : InCall(w)' = <<>>
    BY <1>8 DEF Restart, InCall, Takes
  <2>3. \A r \in Readers : Printed(r)' = Printed(r)
    BY <2>1 DEF Printed
  <2> QED
    BY <2>1, <2>2, <2>3, NothingMoves
<1>9. CASE UNCHANGED vars
  BY <1>9, OutsideReturning DEF vars, server, calls, client
<1> QED
  BY <1>1, <1>2, <1>3, <1>4, <1>5, <1>6, <1>7, <1>8, <1>9 DEF Next, Drain

(* One place, one position: at most one holder.                            *)
LEMMA OnceMeansOneHolder ==
  ASSUME TypeOK, MailOnce
  PROVE  DeliveredOnce
<1> SUFFICES ASSUME NEW m \in Msgs PROVE Cardinality(Holders(m)) <= 1
  BY DEF DeliveredOnce
<1> DEFINE At(x, p, i) ==
             /\ p \in Places /\ i \in 1..Len(Mail[p]) /\ Mail[p][i] = m
             /\ \/ \E u \in Users : p = Box(u) /\ x = <<u, 1>>
                \/ \E w \in Workers : p = Call(w) /\ x = <<w, 1>>
                \/ \E r \in Readers : p = Paper(r) /\ x = <<r, i>>
<1>1. ASSUME NEW x \in Holders(m) PROVE \E p, i : At(x, p, i)
  <2>1. CASE \E u \in Users : x = <<u, 1>> /\ m \in Range(inbox[u])
    <3>1. PICK u \in Users : x = <<u, 1>> /\ m \in Range(inbox[u])
      BY <2>1
    <3>2. PICK i \in 1..Len(inbox[u]) : inbox[u][i] = m
      BY <3>1, RangeEquality DEF TypeOK
    <3>3. At(x, Box(u), i)
      BY <3>1, <3>2, MailAt
    <3> QED
      BY <3>3
  <2>2. CASE \E w \in Workers : x = <<w, 1>> /\ Takes(w) /\ m \in Range(got[w])
    <3>1. PICK w \in Workers : x = <<w, 1>> /\ Takes(w) /\ m \in Range(got[w])
      BY <2>2
    <3>2. PICK i \in 1..Len(got[w]) : got[w][i] = m
      <4>1. got[w] \in Seq(Msgs)
        BY DEF TypeOK
      <4> QED
        BY <3>1, <4>1, RangeEquality
    <3>3. At(x, Call(w), i)
      BY <3>1, <3>2, MailAt DEF InCall
    <3> QED
      BY <3>3
  <2>3. CASE \E r \in Readers, i \in 1..Cardinality(Msgs) :
               /\ x = <<r, i>> /\ Mode[r] # "peek"
               /\ i \in DOMAIN printed[r] /\ printed[r][i] = m
    <3>1. PICK r \in Readers, i \in 1..Cardinality(Msgs) :
               /\ x = <<r, i>> /\ Mode[r] # "peek"
               /\ i \in DOMAIN printed[r] /\ printed[r][i] = m
      BY <2>3
    <3>2. i \in 1..Len(printed[r])
      BY <3>1, LenProperties DEF TypeOK
    <3>3. At(x, Paper(r), i)
      BY <3>1, <3>2, MailAt DEF Printed
    <3> QED
      BY <3>3
  <2> QED
    BY <2>1, <2>2, <2>3 DEF Holders
<1>2. ASSUME NEW x \in Holders(m), NEW y \in Holders(m) PROVE x = y
  <2>1. PICK p, i : At(x, p, i)
    BY <1>1
  <2>2. PICK q, j : At(y, q, j)
    BY <1>1
  <2>3. p = q /\ i = j
    <3>1. p \in DOMAIN Mail /\ q \in DOMAIN Mail /\ Mail[p][i] = Mail[q][j]
      BY <2>1, <2>2, MailAt
    <3> QED
      BY <2>1, <2>2, <3>1, UniqueAt DEF MailOnce
  <2> QED
    BY <2>1, <2>2, <2>3 DEF Box, Call, Paper
<1>3. CASE Holders(m) = {}
  BY <1>3, FS_EmptySet
<1>4. CASE Holders(m) # {}
  <2>1. PICK x : x \in Holders(m)
    BY <1>4
  <2>2. Holders(m) = {x}
    BY <1>2, <2>1
  <2> QED
    BY <2>2, FS_Singleton
<1> QED
  BY <1>3, <1>4

-----------------------------------------------------------------------------
(* The order of an inbox                                                   *)

(* IsSuffix, element by element.                                           *)
Ends(s, t) ==
  /\ Len(s) <= Len(t)
  /\ \A i \in 1..Len(s) : s[i] = t[Len(t) - Len(s) + i]

LEMMA ReverseProperties ==
  ASSUME NEW s \in Seq(Msgs)
  PROVE  /\ Reverse(s) \in Seq(Msgs)
         /\ Len(Reverse(s)) = Len(s)
         /\ \A i \in 1..Len(s) : Reverse(s)[i] = s[Len(s) - i + 1]
<1>1. Len(s) \in Nat /\ \A i \in 1..Len(s) : s[i] \in Msgs
  BY LenProperties, ElementOfSeq
<1>2. \A i \in 1..Len(s) : (Len(s) - i) + 1 \in 1..Len(s)
  BY <1>1
<1>3. Reverse(s) = [i \in 1..Len(s) |-> s[(Len(s) - i) + 1]]
  BY DEF Reverse
<1>4. \A i \in 1..Len(s) : Reverse(s)[i] \in Msgs
  BY <1>1, <1>2, <1>3
<1>5. Reverse(s) \in [1..Len(s) -> Msgs]
  BY <1>3, <1>4
<1>6. Reverse(s) \in Seq(Msgs)
  BY <1>1, <1>5, SeqDef
<1>7. Len(Reverse(s)) = Len(s)
  BY <1>1, <1>5, <1>6, LenProperties
<1> QED
  BY <1>3, <1>6, <1>7

LEMMA SuffixEnds ==
  ASSUME NEW s \in Seq(Msgs), NEW t \in Seq(Msgs)
  PROVE  IsSuffix(s, t) <=> Ends(s, t)
<1> DEFINE n == Len(s)
           m == Len(t)
<1>1. n \in Nat /\ m \in Nat
  BY LenProperties
<1>2. IsSuffix(s, t) <=> /\ n <= m
                         /\ SubSeq(Reverse(s), 1, n) = SubSeq(Reverse(t), 1, n)
  BY ReverseProperties DEF IsSuffix, IsPrefix
<1>3. ASSUME n <= m
      PROVE  SubSeq(Reverse(s), 1, n) = SubSeq(Reverse(t), 1, n)
               <=> \A i \in 1..n : s[n - i + 1] = t[m - i + 1]
  <2>1. /\ SubSeq(Reverse(s), 1, n) \in Seq(Msgs)
        /\ Len(SubSeq(Reverse(s), 1, n)) = n
        /\ \A i \in 1..n : SubSeq(Reverse(s), 1, n)[i] = Reverse(s)[i]
    <3>1. \A i \in 1..n : Reverse(s)[i] \in Msgs
      BY ReverseProperties, ElementOfSeq
    <3> QED
      BY <1>1, <3>1, SubSeqProperties
  <2>2. /\ SubSeq(Reverse(t), 1, n) \in Seq(Msgs)
        /\ Len(SubSeq(Reverse(t), 1, n)) = n
        /\ \A i \in 1..n : SubSeq(Reverse(t), 1, n)[i] = Reverse(t)[i]
    <3>1. \A i \in 1..n : Reverse(t)[i] \in Msgs
      BY <1>1, <1>3, ReverseProperties, ElementOfSeq
    <3> QED
      BY <1>1, <3>1, SubSeqProperties
  <2>3. SubSeq(Reverse(s), 1, n) = SubSeq(Reverse(t), 1, n)
          <=> \A i \in 1..n : Reverse(s)[i] = Reverse(t)[i]
    BY <2>1, <2>2, SeqEqual
  <2>4. \A i \in 1..n : /\ Reverse(s)[i] = s[n - i + 1]
                        /\ Reverse(t)[i] = t[m - i + 1]
    BY <1>1, <1>3, ReverseProperties
  <2> QED
    BY <2>3, <2>4
<1>4. ASSUME n <= m
      PROVE  (\A i \in 1..n : s[n - i + 1] = t[m - i + 1])
               <=> \A i \in 1..n : s[i] = t[m - n + i]
  <2>1. ASSUME \A i \in 1..n : s[n - i + 1] = t[m - i + 1], NEW i \in 1..n
        PROVE  s[i] = t[m - n + i]
    <3> DEFINE k == n - i + 1
    <3>1. k \in 1..n /\ n - k + 1 = i /\ m - k + 1 = m - n + i
      BY <1>1
    <3> QED
      BY <2>1, <3>1
  <2>2. ASSUME \A i \in 1..n : s[i] = t[m - n + i], NEW i \in 1..n
        PROVE  s[n - i + 1] = t[m - i + 1]
    <3> DEFINE k == n - i + 1
    <3>1. k \in 1..n /\ m - n + k = m - i + 1
      BY <1>1
    <3> QED
      BY <2>2, <3>1
  <2> QED
    BY <2>1, <2>2
<1> QED
  BY <1>2, <1>3, <1>4 DEF Ends

LEMMA EmptyIsSuffix ==
  ASSUME NEW t \in Seq(Msgs)
  PROVE  IsSuffix(<<>>, t)
<1>1. <<>> \in Seq(Msgs) /\ Len(<<>>) = 0 /\ Len(t) \in Nat
  BY EmptySeq, LenProperties
<1>2. 1..Len(<<>>) = {}
  BY <1>1
<1>3. Ends(<<>>, t)
  BY <1>1, <1>2 DEF Ends
<1> QED
  BY <1>1, <1>3, SuffixEnds

LEMMA LatestInit == Init => InboxIsLatest
<1> SUFFICES ASSUME Init, NEW u \in Users PROVE IsSuffix(inbox[u], posts[u])
  BY DEF InboxIsLatest
<1>1. inbox[u] = <<>> /\ posts[u] = <<>>
  BY DEF Init
<1> QED
  BY <1>1, EmptySeq, EmptyIsSuffix

LEMMA LatestAfterPost ==
  ASSUME NEW s \in Seq(Msgs), NEW t \in Seq(Msgs), NEW m \in Msgs, IsSuffix(s, t),
         Len(s) <= InboxMax
  PROVE  IsSuffix(Trim(Append(s, m)), Append(t, m))
<1> DEFINE a == Append(s, m)
           b == Append(t, m)
<1>1. Ends(s, t)
  BY SuffixEnds
<1>2. /\ a \in Seq(Msgs) /\ a # <<>> /\ Len(a) = Len(s) + 1 /\ a[Len(s) + 1] = m
      /\ \A i \in 1..Len(s) : a[i] = s[i]
  BY AppendProperties
<1>3. /\ b \in Seq(Msgs) /\ Len(b) = Len(t) + 1 /\ b[Len(t) + 1] = m
      /\ \A i \in 1..Len(t) : b[i] = t[i]
  BY AppendProperties
<1>4. Len(s) \in Nat /\ Len(t) \in Nat
  BY LenProperties
<1> HIDE DEF a, b
<1>5. Ends(a, b)
  <2>1. Len(a) <= Len(b)
    BY <1>1, <1>2, <1>3, <1>4 DEF Ends
  <2>2. ASSUME NEW i \in 1..Len(a) PROVE a[i] = b[Len(b) - Len(a) + i]
    <3>1. Len(b) - Len(a) + i = Len(t) - Len(s) + i
      BY <1>2, <1>3, <1>4
    <3>2. CASE i = Len(s) + 1
      <4>1. Len(t) - Len(s) + i = Len(t) + 1
        BY <1>4, <3>2
      <4> QED
        BY <1>2, <1>3, <3>1, <3>2, <4>1
    <3>3. CASE i \in 1..Len(s)
      <4>1. Len(t) - Len(s) + i \in 1..Len(t)
        BY <1>1, <1>4, <3>3 DEF Ends
      <4>2. s[i] = t[Len(t) - Len(s) + i]
        BY <1>1, <3>3 DEF Ends
      <4> QED
        BY <1>2, <1>3, <3>1, <3>3, <4>1, <4>2
    <3> QED
      BY <1>2, <1>4, <3>2, <3>3
  <2> QED
    BY <2>1, <2>2 DEF Ends
<1>6. Ends(Tail(a), b)
  <2> DEFINE c == Tail(a)
  <2>1. /\ Len(c) = Len(a) - 1
        /\ \A i \in 1..Len(c) : c[i] = a[i + 1]
    BY <1>2, HeadTailProperties
  <2> HIDE DEF c
  <2>2. Len(c) = Len(s) /\ Len(a) = Len(s) + 1 /\ Len(b) = Len(t) + 1
    BY <1>2, <1>3, <1>4, <2>1
  <2>3. ASSUME NEW i \in 1..Len(c) PROVE c[i] = b[Len(b) - Len(c) + i]
    <3>1. i + 1 \in 1..Len(a) /\ Len(b) - Len(c) + i = Len(b) - Len(a) + (i + 1)
      BY <1>4, <2>2
    <3> QED
      BY <1>5, <2>1, <3>1 DEF Ends
  <2>4. Len(c) <= Len(b)
    BY <1>1, <1>4, <2>2 DEF Ends
  <2> QED
    BY <2>3, <2>4 DEF Ends, c
<1>7. Tail(a) \in Seq(Msgs)
  BY <1>2, HeadTailProperties
<1>8. IsSuffix(a, b) /\ IsSuffix(Tail(a), b)
  BY <1>2, <1>3, <1>5, <1>6, <1>7, SuffixEnds
<1> QED
  BY <1>8 DEF Trim, a, b

LEMMA LatestStep == TypeOK /\ InboxIsLatest /\ [Next]_vars => InboxIsLatest'
<1> SUFFICES ASSUME TypeOK, InboxIsLatest, [Next]_vars, NEW v \in Users
             PROVE  IsSuffix(inbox'[v], posts'[v])
  BY DEF InboxIsLatest
<1>1. inbox[v] \in Seq(Msgs) /\ posts[v] \in Seq(Msgs) /\ IsSuffix(inbox[v], posts[v])
  BY DEF TypeOK, InboxIsLatest
<1>2. IsSuffix(<<>>, posts[v])
  BY <1>1, EmptyIsSuffix
<1>3. ASSUME NEW m \in Msgs, NEW u \in Users, Post(m, u)
      PROVE  IsSuffix(inbox'[v], posts'[v])
  <2>1. CASE v = u
    <3>1. inbox'[v] = Trim(Append(inbox[v], m)) /\ posts'[v] = Append(posts[v], m)
      BY <1>3, <2>1 DEF Post, TypeOK
    <3>2. Len(inbox[v]) <= InboxMax
      BY DEF TypeOK
    <3> QED
      BY <1>1, <3>1, <3>2, LatestAfterPost
  <2>2. CASE v # u
    BY <1>1, <1>3, <2>2 DEF Post, TypeOK
  <2> QED
    BY <2>1, <2>2
<1>4. ASSUME NEW w \in Workers, DrainBegins(w) \/ Recheck(w)
      PROVE  IsSuffix(inbox'[v], posts'[v])
  <2>1. inbox'[v] = inbox[v] \/ inbox'[v] = <<>>
    BY <1>4 DEF DrainBegins, Recheck, Take, Park, Cleared, TypeOK
  <2>2. posts'[v] = posts[v]
    BY <1>4 DEF DrainBegins, Recheck
  <2> QED
    BY <1>1, <1>2, <2>1, <2>2
<1>5. CASE Restart
  BY <1>2, <1>5 DEF Restart
<1>6. CASE UNCHANGED server
  BY <1>1, <1>6 DEF server
<1>7. CASE \E w \in Workers : \/ Return(w) \/ DeadlinePasses(w)
                              \/ ConnectionLost(w) \/ ReplyUnreadable(w)
  BY <1>6, <1>7 DEF Return, DeadlinePasses, ConnectionLost, ReplyUnreadable
<1>8. CASE \E r \in Readers : Poll(r) \/ RequestFails(r) \/ BackoffElapsed(r)
  BY <1>6, <1>8 DEF Poll, RequestFails, BackoffElapsed
<1>9. CASE UNCHANGED vars
  BY <1>6, <1>9 DEF vars
<1> QED
  BY <1>3, <1>4, <1>5, <1>7, <1>8, <1>9 DEF Next, Drain

-----------------------------------------------------------------------------
(* Empty-handed answers                                                    *)

LEMMA DeadlineStep == TypeOK /\ EmptyOnlyAtDeadline /\ [Next]_vars => EmptyOnlyAtDeadline'
<1> SUFFICES ASSUME TypeOK, EmptyOnlyAtDeadline, [Next]_vars PROVE EmptyOnlyAtDeadline'
  OBVIOUS
<1>1. ASSUME NEW m \in Msgs, NEW u \in Users, Post(m, u) PROVE EmptyOnlyAtDeadline'
  BY <1>1 DEF Post, WakeAll, EmptyOnlyAtDeadline
<1>2. ASSUME NEW w \in Workers, Take(w), ~ MayPark(w) \/ expired[w] \/ inbox[Mine(w)] # <<>>,
             UNCHANGED <<reader, expired>>
      PROVE  EmptyOnlyAtDeadline'
  <2>1. /\ got' = [got EXCEPT ![w] = inbox[Mine(w)]]
        /\ pc' = [pc EXCEPT ![w] = "returning"]
    BY <1>2 DEF Take
  <2> QED
    BY <1>2, <2>1 DEF EmptyOnlyAtDeadline, MayPark, TypeOK
<1>3. ASSUME NEW w \in Workers, Park(w), UNCHANGED <<reader, expired>>
      PROVE  EmptyOnlyAtDeadline'
  BY <1>3 DEF Park, EmptyOnlyAtDeadline, TypeOK
<1>4. ASSUME NEW w \in Workers, DrainBegins(w) \/ Recheck(w) PROVE EmptyOnlyAtDeadline'
  BY <1>2, <1>3, <1>4 DEF DrainBegins, Recheck, ParksAgain
<1>5. ASSUME NEW w \in Workers, Return(w) PROVE EmptyOnlyAtDeadline'
  <2>1. /\ pc' = [pc EXCEPT ![w] = "free"]
        /\ reader' = [reader EXCEPT ![w] = NoReader]
        /\ expired' = [expired EXCEPT ![w] = FALSE]
        /\ got' = [got EXCEPT ![w] = <<>>]
    BY <1>5 DEF Return
  <2> QED
    BY <2>1 DEF EmptyOnlyAtDeadline, TypeOK
<1>6. ASSUME NEW w \in Workers, DeadlinePasses(w) PROVE EmptyOnlyAtDeadline'
  BY <1>6 DEF DeadlinePasses, EmptyOnlyAtDeadline, TypeOK
<1>7. ASSUME NEW r \in Readers, Poll(r) PROVE EmptyOnlyAtDeadline'
  BY <1>7 DEF Poll, EmptyOnlyAtDeadline, TypeOK
<1>8. CASE \/ \E w \in Workers : ConnectionLost(w) \/ ReplyUnreadable(w)
           \/ \E r \in Readers : RequestFails(r) \/ BackoffElapsed(r)
           \/ UNCHANGED vars
  BY <1>8 DEF ConnectionLost, ReplyUnreadable, RequestFails, BackoffElapsed, vars, calls,
              EmptyOnlyAtDeadline
<1>9. CASE Restart
  BY <1>9 DEF Restart, EmptyOnlyAtDeadline
<1> QED
  BY <1>1, <1>4, <1>5, <1>6, <1>7, <1>8, <1>9 DEF Next, Drain

-----------------------------------------------------------------------------
MailProof == TypeOK /\ MailOnce /\ InboxIsLatest /\ EmptyOnlyAtDeadline

(* coord.py delivers in order, once and without a false alarm, however     *)
(* many users, readers and parked workers share it and whatever requests,  *)
(* connections and restarts cut short: MailInv is an invariant.            *)
THEOREM MailIsDelivered == Spec => []MailInv
<1>1. Init => MailProof
  <2>1. Init => EmptyOnlyAtDeadline
    BY DEF Init, EmptyOnlyAtDeadline
  <2> QED
    BY <2>1, TypeInit, MailInit, LatestInit DEF MailProof
<1>2. MailProof /\ [Next]_vars => MailProof'
  BY TypeStep, MailStep, LatestStep, DeadlineStep DEF MailProof
<1>3. MailProof => MailInv
  BY OnceMeansOneHolder DEF MailProof, MailInv
<1> QED
  BY <1>1, <1>2, <1>3, PTL DEF Spec

=============================================================================
