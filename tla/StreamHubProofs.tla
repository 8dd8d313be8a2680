-------------------------- MODULE StreamHubProofs --------------------------
(***************************************************************************)
(* Proofs about StreamHub, for any clients, channel capacity and number of *)
(* payloads.  The inductive invariant is TypeOK and the named parts below. *)
(***************************************************************************)
EXTENDS StreamHub, SequenceTheorems, TLAPS

Payloads == 1 .. MaxSent

\* The map holds the connections between Register and Unregister; the range
\* is over it, and only while the read lock is held.
HubInv ==
  /\ clients = {c \in Clients : conn[c] \in {"stream", "leaving"}}
  /\ todo \subseteq clients /\ room \subseteq Clients
  /\ caster # "range" => todo = {}
  /\ caster = "range" => room \subseteq clients
  /\ caster = "rlock" => sent < MaxSent
  /\ caster = "range" => sent > 0

\* A channel that is not registered yet is new.
NewInv == \A c \in Clients : conn[c] = "joining" => buf[c] = <<>> /\ feed[c] = <<>>

\* What a connection registered when s payloads were sent has got, g, when
\* it was offered o of them.
Feed(g, s, o) ==
  /\ \A i, j \in 1 .. Len(g) : i < j => g[i] < g[j]
  /\ \A i \in 1 .. Len(g) :
       /\ s < g[i] /\ g[i] <= s + o
       /\ i <= Cap => g[i] = s + i
  /\ Len(g) >= Cap \/ Len(g) = o

FeedInv == \A c \in clients : Feed(Got(c), since[c], Offered(c))

\* A channel that had room still has when its turn comes, and has the payload
\* afterwards.
RoomInv ==
  caster = "range" =>
    \A c \in room : IF c \in todo THEN Len(buf[c]) < Cap
                    ELSE Len(Got(c)) > 0 /\ Got(c)[Len(Got(c))] = sent

IInv == TypeOK /\ HubInv /\ NewInv /\ FeedInv /\ RoomInv

USE CapAssumption, SentAssumption, NoneAssumption

---------------------------------------------------------------------------
(* Sequences *)

(***************************************************************************)
(* Taking the first payload out of the channel and writing it to the       *)
(* client changes nothing in what the connection has got.                  *)
(***************************************************************************)
LEMMA MoveHead ==
  ASSUME NEW S, NEW f \in Seq(S), NEW b \in Seq(S), b # <<>>
  PROVE  Append(f, Head(b)) \o Tail(b) = f \o b
<1>1. Head(b) \in S /\ Tail(b) \in Seq(S) /\ Len(Tail(b)) = Len(b) - 1 /\ Len(b) > 0
  BY HeadTailProperties, EmptySeq
<1>2. \A i \in 1 .. Len(Tail(b)) : Tail(b)[i] = b[i + 1]
  BY HeadTailProperties
<1>3. /\ Append(f, Head(b)) \in Seq(S) /\ Len(Append(f, Head(b))) = Len(f) + 1
      /\ \A i \in 1 .. Len(f) : Append(f, Head(b))[i] = f[i]
      /\ Append(f, Head(b))[Len(f) + 1] = b[1]
  BY <1>1, AppendProperties
<1> DEFINE l == Append(f, Head(b)) \o Tail(b)
           r == f \o b
<1>4. /\ l \in Seq(S) /\ Len(l) = Len(f) + Len(b)
      /\ \A i \in 1 .. Len(f) + Len(b) :
           l[i] = IF i <= Len(f) + 1 THEN Append(f, Head(b))[i] ELSE Tail(b)[i - (Len(f) + 1)]
  BY <1>1, <1>3, ConcatProperties
<1>5. /\ r \in Seq(S) /\ Len(r) = Len(f) + Len(b)
      /\ \A i \in 1 .. Len(f) + Len(b) : r[i] = IF i <= Len(f) THEN f[i] ELSE b[i - Len(f)]
  BY ConcatProperties
<1> HIDE DEF l, r
<1>6. \A i \in 1 .. Len(f) + Len(b) : l[i] = r[i]
  <2> TAKE i \in 1 .. Len(f) + Len(b)
  <2>1. CASE i <= Len(f)
    <3>1. i \in 1 .. Len(f) /\ i <= Len(f) + 1
      BY <2>1, LenProperties
    <3>2. QED
      BY <1>3, <1>4, <1>5, <2>1, <3>1
  <2>2. CASE i = Len(f) + 1
    BY <1>1, <1>3, <1>4, <1>5, <2>2
  <2>3. CASE i > Len(f) + 1
    <3>1. Len(f) \in Nat /\ Len(b) \in Nat
      OBVIOUS
    <3>2. i - (Len(f) + 1) \in 1 .. Len(Tail(b)) /\ (i - (Len(f) + 1)) + 1 = i - Len(f)
      BY <1>1, <2>3, <3>1
    <3>3. Tail(b)[i - (Len(f) + 1)] = b[i - Len(f)]
      BY <1>2, <3>2
    <3>4. QED
      BY <1>4, <1>5, <2>3, <3>1, <3>3
  <2>4. QED
    BY <2>1, <2>2, <2>3
<1>7. l = r
  BY <1>4, <1>5, <1>6, SeqEqual
<1>8. QED
  BY <1>7 DEF l, r

(***************************************************************************)
(* A payload put into the channel is the last one the connection has got.  *)
(***************************************************************************)
LEMMA PutLast ==
  ASSUME NEW S, NEW f \in Seq(S), NEW b \in Seq(S), NEW x \in S
  PROVE  /\ f \o Append(b, x) = Append(f \o b, x)
         /\ f \o b \in Seq(S)
         /\ Len(f \o Append(b, x)) = Len(f \o b) + 1
         /\ \A i \in 1 .. Len(f \o b) : (f \o Append(b, x))[i] = (f \o b)[i]
         /\ (f \o Append(b, x))[Len(f \o b) + 1] = x
<1>1. Append(b, x) = b \o <<x>> /\ <<x>> \in Seq(S)
  BY AppendIsConcat
<1>2. f \o b \in Seq(S) /\ (f \o b) \o <<x>> = f \o (b \o <<x>>)
  BY <1>1, ConcatAssociative, ConcatProperties
<1>3. f \o Append(b, x) = Append(f \o b, x)
  BY <1>1, <1>2, AppendIsConcat
<1>4. QED
  BY <1>2, <1>3, AppendProperties

---------------------------------------------------------------------------
(* Types and the hub's own bookkeeping *)

\* The steps of a client's connection.
Connection(c) ==
  Connect(c) \/ Lock(c) \/ Cancel(c) \/ Register(c) \/ Receive(c) \/ Leave(c) \/ Unregister(c)

(***************************************************************************)
(* Every step of the stream is a broadcast step or one of a connection.    *)
(***************************************************************************)
LEMMA Steps ==
  ASSUME [Next]_vars
  PROVE  \/ Broadcast \/ RUnlock \/ UNCHANGED vars
         \/ \E c \in Clients : Offer(c) \/ Connection(c)
  BY DEF Next, Serve, Connection

(***************************************************************************)
(* When a writer unlocks, the broadcast that waited for it begins, and     *)
(* nothing else of the broadcast changes.                                  *)
(***************************************************************************)
LEMMA UnlockType ==
  ASSUME TypeOK, HubInv, NEW C, C \subseteq Clients, Unlock(C)
  PROVE  /\ caster' \in {"idle", "rlock", "range"} /\ todo' \subseteq Clients
         /\ room' \subseteq Clients /\ sent' \in 0 .. MaxSent
         /\ writer' \in Clients \cup {None} /\ clients' \subseteq Clients
<1> USE DEF TypeOK, HubInv, Unlock, cast
<1>1. CASE caster = "rlock"
  BY <1>1 DEF BeginRange
<1>2. CASE caster # "rlock"
  BY <1>2
<1>3. QED
  BY <1>1, <1>2

(***************************************************************************)
(* Every step of the stream keeps the types and the channels' capacity.    *)
(***************************************************************************)
LEMMA TypeStep == TypeOK /\ HubInv /\ [Next]_vars => TypeOK'
<1> SUFFICES ASSUME TypeOK, HubInv, [Next]_vars PROVE TypeOK'
  OBVIOUS
<1> USE DEF TypeOK, handler, hub, cast
<1>1. CASE Broadcast
  BY <1>1 DEF Broadcast, BeginRange
<1>2. CASE RUnlock
  BY <1>2 DEF RUnlock
<1>3. ASSUME NEW c \in Clients, Offer(c)
      PROVE  TypeOK'
  <2>1. CASE Len(buf[c]) < Cap
    <3>1. sent \in Payloads
      BY <1>3 DEF Offer, HubInv, Payloads
    <3>2. /\ Append(buf[c], sent) \in Seq(Payloads)
          /\ Len(Append(buf[c], sent)) = Len(buf[c]) + 1
      BY <3>1, AppendProperties DEF Payloads
    <3>3. QED
      BY <1>3, <2>1, <3>2 DEF Offer, Payloads
  <2>2. CASE ~(Len(buf[c]) < Cap)
    BY <1>3, <2>2 DEF Offer
  <2>3. QED
    BY <2>1, <2>2
<1>4. ASSUME NEW c \in Clients, Connect(c)
      PROVE  TypeOK'
  <2>1. <<>> \in Seq(1 .. MaxSent) /\ Len(<<>>) = 0
    BY EmptySeq
  <2>2. QED
    BY <1>4, <2>1 DEF Connect
<1>5. ASSUME NEW c \in Clients, Lock(c)
      PROVE  TypeOK'
  BY <1>5 DEF Lock
<1>6. ASSUME NEW c \in Clients, Cancel(c)
      PROVE  TypeOK'
  BY <1>6 DEF Cancel
<1>7. ASSUME NEW c \in Clients, Register(c)
      PROVE  TypeOK'
  BY <1>7, UnlockType DEF Register
<1>8. ASSUME NEW c \in Clients, Receive(c)
      PROVE  TypeOK'
  <2>1. /\ buf[c] \in Seq(1 .. MaxSent) /\ buf[c] # <<>>
        /\ feed[c] \in Seq(1 .. MaxSent)
    BY <1>8 DEF Receive
  <2>2. /\ Head(buf[c]) \in 1 .. MaxSent /\ Tail(buf[c]) \in Seq(1 .. MaxSent)
        /\ Len(Tail(buf[c])) = Len(buf[c]) - 1 /\ Len(buf[c]) \in Nat
    BY <2>1, HeadTailProperties, LenProperties
  <2>3. Append(feed[c], Head(buf[c])) \in Seq(1 .. MaxSent)
    BY <2>1, <2>2, AppendProperties
  <2>4. QED
    BY <1>8, <2>2, <2>3 DEF Receive
<1>9. ASSUME NEW c \in Clients, Leave(c)
      PROVE  TypeOK'
  BY <1>9 DEF Leave
<1>10. ASSUME NEW c \in Clients, Unregister(c)
       PROVE  TypeOK'
  BY <1>10, UnlockType DEF Unregister
<1>11. CASE UNCHANGED vars
  BY <1>11 DEF vars
<1>12. QED
  BY Steps, <1>1, <1>2, <1>3, <1>4, <1>5, <1>6, <1>7, <1>8, <1>9, <1>10, <1>11
  DEF Connection

(***************************************************************************)
(* The map of channels changes only under the write lock, so the range is  *)
(* always over channels that are registered.                               *)
(***************************************************************************)
LEMMA HubStep == TypeOK /\ HubInv /\ [Next]_vars => HubInv'
<1> SUFFICES ASSUME TypeOK, HubInv, [Next]_vars PROVE HubInv'
  OBVIOUS
<1> USE DEF TypeOK, HubInv, handler, hub, cast
<1>1. CASE Broadcast
  BY <1>1 DEF Broadcast, BeginRange
<1>2. CASE RUnlock
  BY <1>2 DEF RUnlock
<1>3. ASSUME NEW c \in Clients, Offer(c)
      PROVE  HubInv'
  BY <1>3 DEF Offer
<1>4. ASSUME NEW c \in Clients, Connect(c)
      PROVE  HubInv'
  BY <1>4 DEF Connect
<1>5. ASSUME NEW c \in Clients, Lock(c)
      PROVE  HubInv'
  BY <1>5 DEF Lock
<1>6. ASSUME NEW c \in Clients, Cancel(c)
      PROVE  HubInv'
  BY <1>6 DEF Cancel
<1>7. ASSUME NEW c \in Clients, Register(c)
      PROVE  HubInv'
  BY <1>7 DEF Register, Unlock, BeginRange
<1>8. ASSUME NEW c \in Clients, Receive(c)
      PROVE  HubInv'
  BY <1>8 DEF Receive
<1>9. ASSUME NEW c \in Clients, Leave(c)
      PROVE  HubInv'
  BY <1>9 DEF Leave
<1>10. ASSUME NEW c \in Clients, Unregister(c)
       PROVE  HubInv'
  BY <1>10 DEF Unregister, Unlock, BeginRange
<1>11. CASE UNCHANGED vars
  BY <1>11 DEF vars
<1>12. QED
  BY Steps, <1>1, <1>2, <1>3, <1>4, <1>5, <1>6, <1>7, <1>8, <1>9, <1>10, <1>11
  DEF Connection

(***************************************************************************)
(* A channel that is not registered yet is new.                            *)
(***************************************************************************)
LEMMA NewStep == TypeOK /\ HubInv /\ NewInv /\ [Next]_vars => NewInv'
<1> SUFFICES ASSUME TypeOK, HubInv, NewInv, [Next]_vars PROVE NewInv'
  OBVIOUS
<1> USE DEF TypeOK, NewInv, handler, hub, cast
<1>1. CASE Broadcast
  BY <1>1 DEF Broadcast
<1>2. CASE RUnlock
  BY <1>2 DEF RUnlock
<1>3. ASSUME NEW c \in Clients, Offer(c)
      PROVE  NewInv'
  <2>1. conn[c] # "joining"
    BY <1>3 DEF Offer, HubInv
  <2>2. QED
    BY <1>3, <2>1 DEF Offer
<1>4. ASSUME NEW c \in Clients, Connect(c)
      PROVE  NewInv'
  BY <1>4 DEF Connect
<1>5. ASSUME NEW c \in Clients, Lock(c)
      PROVE  NewInv'
  BY <1>5 DEF Lock
<1>6. ASSUME NEW c \in Clients, Cancel(c)
      PROVE  NewInv'
  BY <1>6 DEF Cancel
<1>7. ASSUME NEW c \in Clients, Register(c)
      PROVE  NewInv'
  BY <1>7 DEF Register
<1>8. ASSUME NEW c \in Clients, Receive(c)
      PROVE  NewInv'
  BY <1>8 DEF Receive
<1>9. ASSUME NEW c \in Clients, Leave(c)
      PROVE  NewInv'
  BY <1>9 DEF Leave
<1>10. ASSUME NEW c \in Clients, Unregister(c)
       PROVE  NewInv'
  BY <1>10 DEF Unregister
<1>11. CASE UNCHANGED vars
  BY <1>11 DEF vars
<1>12. QED
  BY Steps, <1>1, <1>2, <1>3, <1>4, <1>5, <1>6, <1>7, <1>8, <1>9, <1>10, <1>11
  DEF Connection

---------------------------------------------------------------------------
(* What connections get *)

(***************************************************************************)
(* A connection that was offered nothing has got nothing.                  *)
(***************************************************************************)
LEMMA FeedEmpty == ASSUME NEW s \in Nat PROVE Feed(<<>>, s, 0)
  BY EmptySeq DEF Feed

(***************************************************************************)
(* Offering a payload that fits: it is the newest one, and it follows the  *)
(* one before if nothing was missed so far.                                *)
(***************************************************************************)
LEMMA FeedFits ==
  ASSUME NEW g \in Seq(Payloads), NEW s \in Nat, NEW o \in Int, Feed(g, s, o),
         NEW h \in Seq(Payloads), Len(h) = Len(g) + 1,
         \A i \in 1 .. Len(g) : h[i] = g[i],
         h[Len(g) + 1] = s + o + 1
  PROVE  Feed(h, s, o + 1)
<1>1. Len(g) \in Nat /\ \A i \in 1 .. Len(g) : g[i] \in Int
  BY LenProperties, ElementOfSeq DEF Payloads
<1>2. o >= 0
  BY <1>1 DEF Feed
<1>3. ASSUME NEW i \in 1 .. Len(h)
      PROVE  \/ i \in 1 .. Len(g) /\ h[i] = g[i]
             \/ i = Len(g) + 1 /\ h[i] = s + o + 1
  BY <1>1
<1>4. ASSUME NEW i \in 1 .. Len(h), NEW j \in 1 .. Len(h), i < j
      PROVE  h[i] < h[j]
  <2>1. i \in 1 .. Len(g) /\ h[i] = g[i]
    BY <1>1, <1>4
  <2>2. CASE j \in 1 .. Len(g)
    BY <1>4, <2>1, <2>2 DEF Feed
  <2>3. CASE j = Len(g) + 1
    BY <1>1, <2>1, <2>3 DEF Feed
  <2>4. QED
    BY <1>3, <2>2, <2>3
<1>5. ASSUME NEW i \in 1 .. Len(h)
      PROVE  s < h[i] /\ h[i] <= s + (o + 1) /\ (i <= Cap => h[i] = s + i)
  <2>1. CASE i \in 1 .. Len(g)
    BY <1>1, <2>1 DEF Feed
  <2>2. CASE i = Len(g) + 1
    <3>1. h[i] = s + o + 1
      BY <2>2
    <3>2. i <= Cap => Len(g) = o
      BY <1>1, <2>2 DEF Feed
    <3>3. QED
      BY <1>1, <1>2, <2>2, <3>1, <3>2
  <2>3. QED
    BY <1>3, <2>1, <2>2
<1>6. Len(h) >= Cap \/ Len(h) = o + 1
  BY <1>1 DEF Feed
<1>7. QED
  BY <1>4, <1>5, <1>6 DEF Feed

(***************************************************************************)
(* Offering a payload that does not fit loses it for this connection only, *)
(* which has then got at least a channel full.                             *)
(***************************************************************************)
LEMMA FeedFull ==
  ASSUME NEW g \in Seq(Payloads), NEW s \in Nat, NEW o \in Int, Feed(g, s, o),
         Len(g) >= Cap
  PROVE  Feed(g, s, o + 1)
<1>1. Len(g) \in Nat /\ \A i \in 1 .. Len(g) : g[i] \in Int
  BY LenProperties, ElementOfSeq DEF Payloads
<1>2. QED
  BY <1>1 DEF Feed

(***************************************************************************)
(* What a connection has got is a sequence of payloads.                    *)
(***************************************************************************)
LEMMA GotType ==
  ASSUME TypeOK, NEW c \in Clients
  PROVE  Got(c) \in Seq(Payloads) /\ Len(Got(c)) = Len(feed[c]) + Len(buf[c])
<1>1. feed[c] \in Seq(Payloads) /\ buf[c] \in Seq(Payloads)
  BY DEF TypeOK, Payloads
<1>2. QED
  BY <1>1, ConcatProperties DEF Got

(***************************************************************************)
(* A step that leaves the channel, the writes and the bookkeeping of a     *)
(* registered connection alone keeps what it is due.                       *)
(***************************************************************************)
LEMMA FeedSame ==
  ASSUME FeedInv, NEW c \in clients,
         feed'[c] = feed[c], buf'[c] = buf[c], since'[c] = since[c],
         Offered(c)' = Offered(c)
  PROVE  Feed(Got(c), since[c], Offered(c))'
<1>1. Got(c)' = Got(c)
  BY DEF Got
<1>2. QED
  BY <1>1 DEF FeedInv, Feed

(***************************************************************************)
(* A broadcast that begins has offered its payload to nobody yet.          *)
(***************************************************************************)
LEMMA BeginOffered ==
  ASSUME TypeOK, NEW C, BeginRange(C), NEW c \in C, c \in Clients, c \notin todo,
         since'[c] = since[c]
  PROVE  Offered(c)' = Offered(c)
<1>1. /\ todo' = C /\ sent' = sent + 1
      /\ sent \in Nat /\ since[c] \in Nat
  BY DEF TypeOK, BeginRange
<1>2. Offered(c)' = (sent + 1) - since[c] - 1
  BY <1>1 DEF Offered
<1>3. QED
  BY <1>1, <1>2 DEF Offered

(***************************************************************************)
(* No connection misses a payload before it was offered a channel full,    *)
(* and none gets one twice or out of order.                                *)
(***************************************************************************)
LEMMA FeedStep == TypeOK /\ HubInv /\ NewInv /\ FeedInv /\ [Next]_vars => FeedInv'
<1> SUFFICES ASSUME TypeOK, HubInv, NewInv, FeedInv, [Next]_vars,
                    NEW d \in clients'
             PROVE  Feed(Got(d), since[d], Offered(d))'
  BY DEF FeedInv
<1> USE DEF handler, hub, cast
<1>0. clients \subseteq Clients
  BY DEF TypeOK
<1>1. CASE Broadcast
  <2>1. d \in clients /\ UNCHANGED <<feed, buf, since>>
    BY <1>1 DEF Broadcast
  <2>2. CASE writer = None
    <3>1. BeginRange(clients) /\ d \notin todo
      BY <1>1, <2>2 DEF Broadcast, HubInv
    <3>2. QED
      BY <1>0, <2>1, <3>1, BeginOffered, FeedSame
  <2>3. CASE writer # None
    <3>1. UNCHANGED <<todo, sent>>
      BY <1>1, <2>3 DEF Broadcast
    <3>2. QED
      BY <2>1, <3>1, FeedSame DEF Offered
  <2>4. QED
    BY <2>2, <2>3
<1>2. CASE RUnlock
  BY <1>2, FeedSame DEF RUnlock, Offered
<1>3. ASSUME NEW c \in Clients, Offer(c)
      PROVE  Feed(Got(d), since[d], Offered(d))'
  <2>1. /\ c \in todo /\ todo' = todo \ {c}
        /\ d \in clients /\ UNCHANGED <<feed, since, sent, clients>>
    BY <1>3 DEF Offer
  <2>2. CASE d # c
    <3>1. Offered(d)' = Offered(d)
      BY <2>1, <2>2 DEF Offered
    <3>2. buf'[d] = buf[d]
      BY <1>0, <1>3, <2>1, <2>2 DEF Offer, TypeOK
    <3>3. QED
      BY <2>1, <3>1, <3>2, FeedSame
  <2>3. CASE d = c
    <3>1. /\ sent \in Payloads /\ since[c] \in Nat
          /\ feed[c] \in Seq(Payloads) /\ buf[c] \in Seq(Payloads)
      BY <1>3 DEF TypeOK, HubInv, Offer, Payloads
    <3>2. Offered(c) = sent - since[c] - 1
      BY <2>1 DEF Offered
    <3>3. Offered(c)' = sent - since[c]
      <4>1. c \notin todo' /\ sent' = sent /\ since' = since
        BY <2>1
      <4>2. Offered(c)' = sent - since[c] - 0
        BY <4>1 DEF Offered
      <4>3. QED
        BY <3>1, <4>2 DEF Payloads
    <3>4. Offered(c) \in Int /\ Offered(c)' = Offered(c) + 1
          /\ sent = since[c] + Offered(c) + 1
      BY <3>1, <3>2, <3>3 DEF Payloads
    <3>5. Feed(Got(c), since[c], Offered(c))
      BY <2>1, <2>3 DEF FeedInv
    <3>6. Got(c) \in Seq(Payloads) /\ Len(Got(c)) = Len(feed[c]) + Len(buf[c])
      BY GotType
    <3>7. CASE Len(buf[c]) < Cap
      <4>1. Got(c)' = feed[c] \o Append(buf[c], sent)
        BY <1>3, <2>1, <3>7 DEF Offer, TypeOK, Got
      <4>2. /\ Len(Got(c)') = Len(Got(c)) + 1
            /\ \A i \in 1 .. Len(Got(c)) : Got(c)'[i] = Got(c)[i]
            /\ Got(c)'[Len(Got(c)) + 1] = sent
        <5> DEFINE b == buf[c]
                   f == feed[c]
        <5>1. f \in Seq(Payloads) /\ b \in Seq(Payloads) /\ sent \in Payloads
          BY <3>1
        <5> HIDE DEF b, f
        <5>2. /\ Len(f \o Append(b, sent)) = Len(f \o b) + 1
              /\ \A i \in 1 .. Len(f \o b) : (f \o Append(b, sent))[i] = (f \o b)[i]
              /\ (f \o Append(b, sent))[Len(f \o b) + 1] = sent
          BY <5>1, PutLast
        <5>3. Got(c) = f \o b /\ Got(c)' = f \o Append(b, sent)
          BY <4>1 DEF Got, f, b
        <5>4. QED
          BY <5>2, <5>3
      <4>3. Got(c)' \in Seq(Payloads)
        BY <3>1, <3>6, <4>1, PutLast, AppendProperties DEF Got
      <4>4. Feed(Got(c)', since[c], Offered(c) + 1)
        BY <3>1, <3>4, <3>5, <3>6, <4>2, <4>3, FeedFits
      <4>5. QED
        BY <2>1, <2>3, <3>4, <4>4 DEF Feed
    <3>8. CASE ~(Len(buf[c]) < Cap)
      <4>1. Got(c)' = Got(c)
        BY <1>3, <2>1, <3>8 DEF Offer, Got
      <4>2. Len(Got(c)) >= Cap
        <5>1. Len(buf[c]) \in Nat /\ Len(feed[c]) \in Nat
          BY <3>1, LenProperties
        <5>2. \A a, b, k \in Nat : ~(b < k) => a + b >= k
          OBVIOUS
        <5>3. QED
          BY <3>6, <3>8, <5>1, <5>2
      <4>3. Feed(Got(c), since[c], Offered(c) + 1)
        BY <3>1, <3>4, <3>5, <3>6, <4>2, FeedFull
      <4>4. QED
        BY <2>1, <2>3, <3>4, <4>1, <4>3 DEF Feed
    <3>9. QED
      BY <3>7, <3>8
  <2>4. QED
    BY <2>2, <2>3
<1>4. ASSUME NEW c \in Clients, Connect(c)
      PROVE  Feed(Got(d), since[d], Offered(d))'
  <2>1. d \in clients /\ d # c /\ UNCHANGED <<since, todo, sent>>
    BY <1>4 DEF Connect, HubInv
  <2>2. feed'[d] = feed[d] /\ buf'[d] = buf[d]
    BY <1>0, <1>4, <2>1 DEF Connect, TypeOK
  <2>3. QED
    BY <2>1, <2>2, FeedSame DEF Offered
<1>5. ASSUME NEW c \in Clients, Lock(c) \/ Cancel(c) \/ Leave(c)
      PROVE  Feed(Got(d), since[d], Offered(d))'
  <2>1. d \in clients /\ UNCHANGED <<feed, buf, since, todo, sent>>
    BY <1>5 DEF Lock, Cancel, Leave
  <2>2. QED
    BY <2>1, FeedSame DEF Offered
<1>6. ASSUME NEW c \in Clients, Register(c)
      PROVE  Feed(Got(d), since[d], Offered(d))'
  <2>1. /\ Unlock(clients \cup {c}) /\ clients' = clients \cup {c} /\ todo = {}
        /\ since' = [since EXCEPT ![c] = sent] /\ UNCHANGED <<feed, buf>>
        /\ c \notin clients /\ conn[c] = "joining"
    BY <1>6 DEF Register, Unlock, HubInv
  <2>2. CASE d = c
    <3>1. Got(c)' = <<>> \o <<>>
      BY <2>1 DEF NewInv, Got
    <3>2. <<>> \o <<>> = <<>>
      BY ConcatEmptySeq, EmptySeq
    <3>3. since'[c] = sent /\ sent \in Nat
      BY <2>1 DEF TypeOK
    <3>4. Offered(c)' = 0
      <4>1. CASE caster = "rlock"
        <5>1. sent' = sent + 1 /\ c \in todo'
          BY <2>1, <4>1 DEF Unlock, BeginRange
        <5>2. Offered(c)' = sent' - since'[c] - (IF c \in todo' THEN 1 ELSE 0)
          BY DEF Offered
        <5>3. Offered(c)' = (sent + 1) - sent - 1
          BY <3>3, <5>1, <5>2
        <5>4. QED
          BY <3>3, <5>3
      <4>2. CASE caster # "rlock"
        <5>1. sent' = sent /\ c \notin todo'
          BY <2>1, <4>2 DEF Unlock
        <5>2. Offered(c)' = sent' - since'[c] - (IF c \in todo' THEN 1 ELSE 0)
          BY DEF Offered
        <5>3. Offered(c)' = sent - sent - 0
          BY <3>3, <5>1, <5>2
        <5>4. QED
          BY <3>3, <5>3
      <4>3. QED
        BY <4>1, <4>2
    <3>5. Feed(<<>>, sent, 0)
      BY <3>3, FeedEmpty
    <3>6. QED
      BY <2>2, <3>1, <3>2, <3>3, <3>4, <3>5 DEF Feed
  <2>3. CASE d # c
    <3>1. d \in clients /\ since'[d] = since[d]
      BY <1>0, <2>1, <2>3 DEF TypeOK
    <3>2. Offered(d)' = Offered(d)
      <4>1. CASE caster = "rlock"
        BY <1>0, <2>1, <3>1, <4>1, BeginOffered DEF Unlock
      <4>2. CASE caster # "rlock"
        BY <2>1, <3>1, <4>2 DEF Unlock, Offered
      <4>3. QED
        BY <4>1, <4>2
    <3>3. QED
      BY <2>1, <3>1, <3>2, FeedSame
  <2>4. QED
    BY <2>2, <2>3
<1>7. ASSUME NEW c \in Clients, Receive(c)
      PROVE  Feed(Got(d), since[d], Offered(d))'
  <2>1. d \in clients /\ UNCHANGED <<since, todo, sent>>
    BY <1>7 DEF Receive
  <2>2. Offered(d)' = Offered(d)
    BY <2>1 DEF Offered
  <2>3. CASE d # c
    <3>1. feed'[d] = feed[d] /\ buf'[d] = buf[d]
      BY <1>0, <1>7, <2>1, <2>3 DEF Receive, TypeOK
    <3>2. QED
      BY <2>1, <2>2, <3>1, FeedSame
  <2>4. CASE d = c
    <3>1. /\ feed[c] \in Seq(Payloads) /\ buf[c] \in Seq(Payloads) /\ buf[c] # <<>>
      BY <1>7 DEF Receive, TypeOK, Payloads
    <3>2. Got(c)' = Append(feed[c], Head(buf[c])) \o Tail(buf[c])
      BY <1>7 DEF Receive, TypeOK, Got
    <3>3. Got(c)' = Got(c)
      BY <3>1, <3>2, MoveHead DEF Got
    <3>4. Feed(Got(c), since[c], Offered(c))
      BY <2>1, <2>4 DEF FeedInv
    <3>5. QED
      BY <2>1, <2>2, <2>4, <3>3, <3>4 DEF Feed
  <2>5. QED
    BY <2>3, <2>4
<1>8. ASSUME NEW c \in Clients, Unregister(c)
      PROVE  Feed(Got(d), since[d], Offered(d))'
  <2>1. /\ Unlock(clients \ {c}) /\ d \in clients \ {c} /\ todo = {}
        /\ UNCHANGED <<feed, buf, since>>
    BY <1>8 DEF Unregister, Unlock, HubInv
  <2>2. Offered(d)' = Offered(d)
    <3>1. CASE caster = "rlock"
      BY <1>0, <2>1, <3>1, BeginOffered DEF Unlock
    <3>2. CASE caster # "rlock"
      BY <2>1, <3>2 DEF Unlock, Offered
    <3>3. QED
      BY <3>1, <3>2
  <2>3. QED
    BY <2>1, <2>2, FeedSame
<1>9. CASE UNCHANGED vars
  BY <1>9, FeedSame DEF vars, Offered
<1>10. QED
  BY Steps, <1>1, <1>2, <1>3, <1>4, <1>5, <1>6, <1>7, <1>8, <1>9 DEF Connection

---------------------------------------------------------------------------
(* What a broadcast does for those who have room *)

(***************************************************************************)
(* A channel that had room when the range began is only ever emptied       *)
(* before its turn, and holds the payload, or has passed it on, after it.  *)
(***************************************************************************)
LEMMA RoomStep == TypeOK /\ HubInv /\ RoomInv /\ [Next]_vars => RoomInv'
<1> SUFFICES ASSUME TypeOK, HubInv, RoomInv, [Next]_vars, caster' = "range",
                    NEW d \in room'
             PROVE  IF d \in todo' THEN Len(buf'[d]) < Cap
                    ELSE Len(Got(d)') > 0 /\ Got(d)'[Len(Got(d)')] = sent'
  BY DEF RoomInv
<1> USE DEF handler, hub, cast
<1>0. room \subseteq Clients /\ clients \subseteq Clients
  BY DEF TypeOK
\* A range that begins has everything still to do.
<1>1. ASSUME NEW C, BeginRange(C), UNCHANGED buf
      PROVE  d \in todo' /\ Len(buf'[d]) < Cap
  BY <1>1 DEF BeginRange
\* A step that is not the range's own and takes nothing from d.
<1>2. ASSUME UNCHANGED cast, buf'[d] = buf[d], feed'[d] = feed[d]
      PROVE  IF d \in todo' THEN Len(buf'[d]) < Cap
             ELSE Len(Got(d)') > 0 /\ Got(d)'[Len(Got(d)')] = sent'
  <2>1. Got(d)' = Got(d)
    BY <1>2 DEF Got
  <2>2. QED
    BY <1>2, <2>1 DEF RoomInv
<1>3. CASE Broadcast
  BY <1>1, <1>3 DEF Broadcast
<1>4. CASE RUnlock
  BY <1>4 DEF RUnlock
<1>5. ASSUME NEW c \in Clients, Offer(c)
      PROVE  IF d \in todo' THEN Len(buf'[d]) < Cap
             ELSE Len(Got(d)') > 0 /\ Got(d)'[Len(Got(d)')] = sent'
  <2>1. /\ c \in todo /\ todo' = todo \ {c} /\ caster = "range" /\ d \in room
        /\ UNCHANGED <<feed, sent, room>>
    BY <1>5 DEF Offer
  <2>2. CASE d # c
    <3>1. buf'[d] = buf[d]
      BY <1>0, <1>5, <2>1, <2>2 DEF Offer, TypeOK
    <3>2. Got(d)' = Got(d)
      BY <2>1, <3>1 DEF Got
    <3>3. QED
      BY <2>1, <2>2, <3>1, <3>2 DEF RoomInv
  <2>3. CASE d = c
    <3>1. /\ sent \in Payloads
          /\ feed[c] \in Seq(Payloads) /\ buf[c] \in Seq(Payloads)
      BY <1>5 DEF TypeOK, HubInv, Offer, Payloads
    <3>2. Len(buf[c]) < Cap
      BY <2>1, <2>3 DEF RoomInv
    <3>3. Got(c)' = feed[c] \o Append(buf[c], sent)
      BY <1>5, <2>1, <3>2 DEF Offer, TypeOK, Got
    <3>4. /\ Len(Got(c)') = Len(Got(c)) + 1
          /\ Got(c)'[Len(Got(c)) + 1] = sent
      <4> DEFINE b == buf[c]
                 f == feed[c]
      <4>1. f \in Seq(Payloads) /\ b \in Seq(Payloads) /\ sent \in Payloads
        BY <3>1
      <4> HIDE DEF b, f
      <4>2. /\ Len(f \o Append(b, sent)) = Len(f \o b) + 1
            /\ (f \o Append(b, sent))[Len(f \o b) + 1] = sent
        BY <4>1, PutLast
      <4>3. Got(c) = f \o b /\ Got(c)' = f \o Append(b, sent)
        BY <3>3 DEF Got, f, b
      <4>4. QED
        BY <4>2, <4>3
    <3>5. Len(Got(c)) \in Nat
      BY GotType, LenProperties
    <3>6. Len(Got(c)') > 0 /\ Got(c)'[Len(Got(c)')] = sent
      BY <3>4, <3>5
    <3>7. QED
      BY <2>1, <2>3, <3>6
  <2>4. QED
    BY <2>2, <2>3
<1>6. ASSUME NEW c \in Clients, Connect(c)
      PROVE  IF d \in todo' THEN Len(buf'[d]) < Cap
             ELSE Len(Got(d)') > 0 /\ Got(d)'[Len(Got(d)')] = sent'
  <2>1. UNCHANGED cast /\ d \in Clients /\ d # c
    BY <1>0, <1>6 DEF Connect, HubInv
  <2>2. buf'[d] = buf[d] /\ feed'[d] = feed[d]
    BY <1>6, <2>1 DEF Connect, TypeOK
  <2>3. QED
    BY <1>2, <2>1, <2>2
<1>7. ASSUME NEW c \in Clients, Lock(c) \/ Cancel(c) \/ Leave(c)
      PROVE  IF d \in todo' THEN Len(buf'[d]) < Cap
             ELSE Len(Got(d)') > 0 /\ Got(d)'[Len(Got(d)')] = sent'
  BY <1>2, <1>7 DEF Lock, Cancel, Leave
<1>8. ASSUME NEW c \in Clients, Register(c) \/ Unregister(c)
      PROVE  IF d \in todo' THEN Len(buf'[d]) < Cap
             ELSE Len(Got(d)') > 0 /\ Got(d)'[Len(Got(d)')] = sent'
  <2>1. /\ Unlock(clients \cup {c}) \/ Unlock(clients \ {c})
        /\ caster # "range" /\ UNCHANGED buf
    BY <1>8 DEF Register, Unregister
  <2>2. caster = "rlock"
    BY <2>1 DEF Unlock
  <2>3. BeginRange(clients \cup {c}) \/ BeginRange(clients \ {c})
    BY <2>1, <2>2 DEF Unlock
  <2>4. QED
    BY <1>1, <2>1, <2>3
<1>9. ASSUME NEW c \in Clients, Receive(c)
      PROVE  IF d \in todo' THEN Len(buf'[d]) < Cap
             ELSE Len(Got(d)') > 0 /\ Got(d)'[Len(Got(d)')] = sent'
  <2>1. UNCHANGED cast /\ d \in room
    BY <1>9 DEF Receive
  <2>2. CASE d # c
    <3>1. buf'[d] = buf[d] /\ feed'[d] = feed[d]
      BY <1>0, <1>9, <2>1, <2>2 DEF Receive, TypeOK
    <3>2. QED
      BY <1>2, <2>1, <3>1
  <2>3. CASE d = c
    <3>1. /\ feed[c] \in Seq(Payloads) /\ buf[c] \in Seq(Payloads) /\ buf[c] # <<>>
          /\ buf'[c] = Tail(buf[c])
      BY <1>9 DEF Receive, TypeOK, Payloads
    <3>2. Got(c)' = Append(feed[c], Head(buf[c])) \o Tail(buf[c])
      BY <1>9 DEF Receive, TypeOK, Got
    <3>3. Got(c)' = Got(c)
      BY <3>1, <3>2, MoveHead DEF Got
    <3>4. Len(Tail(buf[c])) = Len(buf[c]) - 1 /\ Len(buf[c]) \in Nat
      BY <3>1, HeadTailProperties, LenProperties
    <3>5. c \in todo => Len(buf[c]) < Cap
      BY <2>1, <2>3 DEF RoomInv
    <3>6. c \in todo => Len(buf'[c]) < Cap
      BY <3>1, <3>4, <3>5
    <3>7. QED
      BY <2>1, <2>3, <3>3, <3>6 DEF RoomInv
  <2>4. QED
    BY <2>2, <2>3
<1>10. CASE UNCHANGED vars
  BY <1>2, <1>10 DEF vars
<1>11. QED
  BY Steps, <1>3, <1>4, <1>5, <1>6, <1>7, <1>8, <1>9, <1>10 DEF Connection

---------------------------------------------------------------------------
(* The theorems *)

(***************************************************************************)
(* The inductive invariant: types, the hub's bookkeeping, and what every   *)
(* connection is due.                                                      *)
(***************************************************************************)
THEOREM Invariance == Spec => []IInv
<1>1. Init => IInv
  <2> SUFFICES ASSUME Init PROVE IInv
    OBVIOUS
  <2>1. <<>> \in Seq(1 .. MaxSent) /\ Len(<<>>) = 0
    BY EmptySeq
  <2>2. QED
    BY <2>1 DEF Init, IInv, TypeOK, HubInv, NewInv, FeedInv, RoomInv
<1>2. IInv /\ [Next]_vars => IInv'
  BY TypeStep, HubStep, NewStep, FeedStep, RoomStep DEF IInv
<1>3. QED
  BY <1>1, <1>2, PTL DEF Spec

(***************************************************************************)
(* Every variable keeps its type, and no channel holds more than Cap.      *)
(***************************************************************************)
THEOREM TypeCorrect == Spec => []TypeOK
<1>1. IInv => TypeOK
  BY DEF IInv
<1>2. QED
  BY <1>1, Invariance, PTL

(***************************************************************************)
(* Broadcast never sends on a channel that Unregister has closed.          *)
(***************************************************************************)
THEOREM ChannelsOpen == Spec => []NoSendOnClosed
<1>1. IInv => NoSendOnClosed
  BY DEF IInv, HubInv, NoSendOnClosed, Open
<1>2. QED
  BY <1>1, Invariance, PTL

(***************************************************************************)
(* Payloads reach every connection in order, none twice, and none missing  *)
(* before a channel full was offered.                                      *)
(***************************************************************************)
THEOREM FeedsInOrder == Spec => []FeedInOrder
<1>1. IInv => FeedInOrder
  <2> SUFFICES ASSUME IInv, NEW c \in clients
               PROVE  /\ \A i, j \in 1 .. Len(Got(c)) : i < j => Got(c)[i] < Got(c)[j]
                      /\ \A i \in 1 .. Len(Got(c)) :
                           /\ since[c] < Got(c)[i] /\ Got(c)[i] <= sent
                           /\ i <= Cap => Got(c)[i] = since[c] + i
                      /\ Len(Got(c)) >= Cap \/ Len(Got(c)) = Offered(c)
    BY DEF FeedInOrder
  <2>1. c \in Clients /\ sent \in Nat /\ since[c] \in Nat
    BY DEF IInv, TypeOK
  <2>2. Got(c) \in Seq(Payloads)
    BY <2>1, GotType DEF IInv
  <2>3. \A i \in 1 .. Len(Got(c)) : Got(c)[i] \in Nat
    BY <2>2, ElementOfSeq DEF Payloads
  <2>4. since[c] + Offered(c) <= sent
    BY <2>1 DEF Offered
  <2>5. Offered(c) \in Int
    BY <2>1 DEF Offered
  <2>6. Feed(Got(c), since[c], Offered(c))
    BY DEF IInv, FeedInv
  <2>7. QED
    BY <2>1, <2>3, <2>4, <2>5, <2>6 DEF Feed
<1>2. QED
  BY <1>1, Invariance, PTL

(***************************************************************************)
(* A broadcast that ends has served everyone whose channel had room.       *)
(***************************************************************************)
THEOREM RoomServed == Spec => SlowClientsHarmNobody
<1>1. ASSUME IInv, [Next]_vars, caster = "range", caster' = "idle"
      PROVE  \A c \in room : Len(Got(c)) > 0 /\ Got(c)[Len(Got(c))] = sent
  <2>1. todo = {}
    <3>1. CASE RUnlock
      BY <3>1 DEF RUnlock
    <3>2. ~RUnlock => caster' = caster
      BY <1>1, Steps DEF Broadcast, Offer, Connection, Connect, Lock, Cancel, Register,
         Receive, Leave, Unregister, Unlock, cast, vars
    <3>3. QED
      BY <1>1, <3>1, <3>2
  <2>2. QED
    BY <1>1, <2>1 DEF IInv, RoomInv
<1>2. IInv /\ [Next]_vars
        => [caster = "range" /\ caster' = "idle" =>
              \A c \in room : Len(Got(c)) > 0 /\ Got(c)[Len(Got(c))] = sent]_vars
  BY <1>1
<1>3. QED
  BY <1>2, Invariance, PTL DEF Spec, SlowClientsHarmNobody
=============================================================================
