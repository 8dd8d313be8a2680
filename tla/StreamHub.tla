----------------------------- MODULE StreamHub -----------------------------
(***************************************************************************)
(* The status stream: StreamHub (service/stream.go), the connections that  *)
(* sseHandler serves, and the ticker that broadcasts to them.              *)
(*                                                                         *)
(* Register and Unregister take the write lock of a sync.RWMutex, Broadcast *)
(* the read lock.  A Lock that waits holds new RLocks back; Unlock lets    *)
(* the RLock it held back in first.  Payloads are numbered in the order in *)
(* which they are broadcast.                                               *)
(***************************************************************************)
EXTENDS Integers, Sequences

CONSTANTS
  Clients,      \* browsers, each with at most one connection at a time
  Cap,          \* capacity of a connection's channel (16)
  MaxSent,      \* bound: payloads broadcast
  None          \* no writer

ASSUME CapAssumption == Cap \in Nat \ {0}
ASSUME SentAssumption == MaxSent \in Nat
ASSUME NoneAssumption == None \notin Clients

VARIABLES
  conn,         \* what the handler of each client's connection does
  ended,        \* its request context is done
  clients,      \* StreamHub.clients: whose channels are registered
  buf,          \* the channel of each connection
  writer,       \* whose Lock is pending or held in StreamHub.mu
  caster,       \* the ticker's goroutine: "idle", "rlock", "range"
  todo,         \* channels its range has yet to visit
  sent,         \* number of the last payload
  feed,         \* payloads written to each connection
  since,        \* sent, when the connection was registered (ghost)
  room          \* channels that had room when the range began (ghost)

handler == <<conn, ended>>
hub == <<clients, writer>>
cast == <<caster, todo, sent, room>>
vars == <<handler, hub, buf, cast, feed, since>>

Init ==
  /\ conn = [c \in Clients |-> "off"]
  /\ ended = [c \in Clients |-> FALSE]
  /\ clients = {} /\ writer = None
  /\ buf = [c \in Clients |-> <<>>]
  /\ caster = "idle" /\ todo = {} /\ sent = 0 /\ room = {}
  /\ feed = [c \in Clients |-> <<>>]
  /\ since = [c \in Clients |-> 0]

\* Connections with an open channel.
Open == {c \in Clients : conn[c] \in {"joining", "stream", "leaving"}}

---------------------------------------------------------------------------
(* Broadcast *)

\* The read lock is granted and the range over C begins.
BeginRange(C) ==
  /\ caster' = "range" /\ todo' = C
  /\ sent' = sent + 1
  /\ room' = {c \in C : Len(buf[c]) < Cap}

\* The ticker fires and calls Broadcast, whose RLock is granted when no
\* writer is pending and waits otherwise.
Broadcast ==
  /\ caster = "idle" /\ sent < MaxSent
  /\ IF writer = None
     THEN BeginRange(clients)
     ELSE caster' = "rlock" /\ UNCHANGED <<todo, sent, room>>
  /\ UNCHANGED <<handler, hub, buf, feed, since>>

(* Planted faults: no part of Next. *)

\* A plain send: it waits for room.
OfferBlocking(c) ==
  /\ caster = "range" /\ c \in todo /\ Len(buf[c]) < Cap
  /\ todo' = todo \ {c}
  /\ buf' = [buf EXCEPT ![c] = Append(@, sent)]
  /\ UNCHANGED <<handler, hub, caster, sent, room, feed, since>>

\* A queue in place of the channel.
OfferUnbounded(c) ==
  /\ caster = "range" /\ c \in todo
  /\ todo' = todo \ {c}
  /\ buf' = [buf EXCEPT ![c] = Append(@, sent)]
  /\ UNCHANGED <<handler, hub, caster, sent, room, feed, since>>

\* The default branch leaves the loop.
OfferGivingUp(c) ==
  /\ caster = "range" /\ c \in todo
  /\ IF Len(buf[c]) < Cap
     THEN todo' = todo \ {c} /\ buf' = [buf EXCEPT ![c] = Append(@, sent)]
     ELSE todo' = {} /\ UNCHANGED buf
  /\ UNCHANGED <<handler, hub, caster, sent, room, feed, since>>

\* A full channel loses its oldest payload instead of the new one.
OfferEvicting(c) ==
  /\ caster = "range" /\ c \in todo
  /\ todo' = todo \ {c}
  /\ buf' = [buf EXCEPT ![c] = Append(IF Len(@) < Cap THEN @ ELSE Tail(@), sent)]
  /\ UNCHANGED <<handler, hub, caster, sent, room, feed, since>>

\* One turn of the range, in any order: a send that never blocks.
Offer(c) ==
  /\ caster = "range" /\ c \in todo
  /\ todo' = todo \ {c}
  /\ buf' = IF Len(buf[c]) < Cap THEN [buf EXCEPT ![c] = Append(@, sent)] ELSE buf
  /\ UNCHANGED <<handler, hub, caster, sent, room, feed, since>>

\* The deferred RUnlock.
RUnlock ==
  /\ caster = "range" /\ todo = {}
  /\ caster' = "idle"
  /\ UNCHANGED <<handler, hub, buf, todo, sent, room, feed, since>>

---------------------------------------------------------------------------
(* Register, Unregister and the handler between them *)

\* GET /api/stream: sseHandler starts, Register makes a channel.
Connect(c) ==
  /\ conn[c] = "off"
  /\ conn' = [conn EXCEPT ![c] = "joining"]
  /\ ended' = [ended EXCEPT ![c] = FALSE]
  /\ buf' = [buf EXCEPT ![c] = <<>>]
  /\ feed' = [feed EXCEPT ![c] = <<>>]
  /\ UNCHANGED <<hub, cast, since>>

\* h.mu.Lock() of Register or Unregister: now RLocks are held back.
Lock(c) ==
  /\ conn[c] \in {"joining", "leaving"} /\ writer = None
  /\ writer' = c
  /\ UNCHANGED <<handler, clients, buf, cast, feed, since>>

\* h.mu.Unlock() with C registered: a Broadcast that waits gets its RLock.
Unlock(C) ==
  /\ writer' = None
  /\ clients' = C
  /\ IF caster = "rlock" THEN BeginRange(C) ELSE UNCHANGED cast

\* Register once the readers are gone.
Register(c) ==
  /\ writer = c /\ conn[c] = "joining" /\ caster # "range"
  /\ Unlock(clients \cup {c})
  /\ conn' = [conn EXCEPT ![c] = "stream"]
  /\ since' = [since EXCEPT ![c] = sent]
  /\ UNCHANGED <<ended, buf, feed>>

\* The select takes a payload, the handler writes and flushes it.
Receive(c) ==
  /\ conn[c] = "stream" /\ buf[c] # <<>>
  /\ buf' = [buf EXCEPT ![c] = Tail(@)]
  /\ feed' = [feed EXCEPT ![c] = Append(@, Head(buf[c]))]
  /\ UNCHANGED <<handler, hub, cast, since>>

\* chi's Timeout (8 s) fires, or the browser goes away.
Cancel(c) ==
  /\ conn[c] \in {"joining", "stream"} /\ ~ended[c]
  /\ ended' = [ended EXCEPT ![c] = TRUE]
  /\ UNCHANGED <<conn, hub, buf, cast, feed, since>>

\* Planted fault: a handler that stays when the connection is cancelled
\* before the stream began.
LeaveIfFed(c) ==
  /\ conn[c] = "stream" /\ ended[c] /\ feed[c] # <<>>
  /\ conn' = [conn EXCEPT ![c] = "leaving"]
  /\ UNCHANGED <<ended, hub, buf, cast, feed, since>>

\* The select takes r.Context().Done(), whatever the channel still holds.
Leave(c) ==
  /\ conn[c] = "stream" /\ ended[c]
  /\ conn' = [conn EXCEPT ![c] = "leaving"]
  /\ UNCHANGED <<ended, hub, buf, cast, feed, since>>

\* Planted fault: close and delete under the read lock only.
UnregisterAmongReaders(c) ==
  /\ writer = c /\ conn[c] = "leaving"
  /\ writer' = None
  /\ clients' = clients \ {c}
  /\ IF caster = "rlock" THEN BeginRange(clients \ {c}) ELSE UNCHANGED cast
  /\ conn' = [conn EXCEPT ![c] = "off"]
  /\ UNCHANGED <<ended, buf, feed, since>>

\* Unregister once the readers are gone: delete, close; the handler returns.
Unregister(c) ==
  /\ writer = c /\ conn[c] = "leaving" /\ caster # "range"
  /\ Unlock(clients \ {c})
  /\ conn' = [conn EXCEPT ![c] = "off"]
  /\ UNCHANGED <<ended, buf, feed, since>>

Serve(c) == Register(c) \/ Receive(c) \/ Leave(c) \/ Unregister(c)

Next ==
  \/ Broadcast \/ RUnlock
  \/ \E c \in Clients :
       Offer(c) \/ Connect(c) \/ Lock(c) \/ Cancel(c) \/ Serve(c)

Spec == Init /\ [][Next]_vars

\* Goroutines that can run do; the select does not pass a ready case over for
\* ever; sync.Mutex hands itself to a Lock that has waited long; every request
\* context ends, by chi's Timeout at the latest.
Fairness ==
  /\ WF_vars(RUnlock) /\ WF_vars(\E c \in Clients : Offer(c))
  /\ \A c \in Clients :
       /\ WF_vars(Register(c)) /\ WF_vars(Receive(c)) /\ WF_vars(Unregister(c))
       /\ WF_vars(Leave(c)) /\ WF_vars(Cancel(c))
       /\ SF_vars(Lock(c))

FairSpec == Spec /\ Fairness

---------------------------------------------------------------------------
(* Properties *)

(***************************************************************************)
(* The type of every variable.                                             *)
(***************************************************************************)
TypeOK ==
  /\ conn \in [Clients -> {"off", "joining", "stream", "leaving"}]
  /\ ended \in [Clients -> BOOLEAN]
  /\ clients \subseteq Clients /\ todo \subseteq Clients /\ room \subseteq Clients
  /\ writer \in Clients \cup {None}
  /\ caster \in {"idle", "rlock", "range"}
  /\ sent \in 0 .. MaxSent
  /\ buf \in [Clients -> Seq(1 .. MaxSent)]
  /\ \A c \in Clients : Len(buf[c]) <= Cap
  /\ feed \in [Clients -> Seq(1 .. MaxSent)]
  /\ since \in [Clients -> 0 .. MaxSent]

(***************************************************************************)
(* Broadcast never sends on a closed channel (Go would panic and take the  *)
(* process down): every channel its range has yet to visit is open and     *)
(* still registered, although Unregister closes channels at any time.      *)
(***************************************************************************)
NoSendOnClosed == todo \subseteq Open \cap clients

\* Everything that got into a connection's channel, in order.
Got(c) == feed[c] \o buf[c]

\* How many payloads the hub has offered a registered connection.
Offered(c) == sent - since[c] - (IF c \in todo THEN 1 ELSE 0)

(***************************************************************************)
(* A connection sees payloads in the order of the broadcasts, none twice   *)
(* and none from before it was registered; and while it was offered no     *)
(* more than the channel holds it has missed none.                         *)
(***************************************************************************)
FeedInOrder ==
  \A c \in clients :
    /\ \A i, j \in 1 .. Len(Got(c)) : i < j => Got(c)[i] < Got(c)[j]
    /\ \A i \in 1 .. Len(Got(c)) :
         /\ since[c] < Got(c)[i] /\ Got(c)[i] <= sent
         /\ i <= Cap => Got(c)[i] = since[c] + i
    /\ Len(Got(c)) >= Cap \/ Len(Got(c)) = Offered(c)

(***************************************************************************)
(* A slow connection costs nobody but itself: when a broadcast ends, every *)
(* connection whose channel had room when it began has got the payload,    *)
(* whatever full channels the range met on its way (stream.go:46).         *)
(***************************************************************************)
SlowClientsHarmNobody ==
  [][caster = "range" /\ caster' = "idle" =>
       \A c \in room : Len(Got(c)) > 0 /\ Got(c)[Len(Got(c))] = sent]_vars

(***************************************************************************)
(* Broadcast always returns: the ticker is never stuck, neither on a full  *)
(* channel of a handler that waits for the lock nor behind writers.        *)
(***************************************************************************)
BroadcastReturns == caster # "idle" ~> caster = "idle"

(***************************************************************************)
(* Every connection is taken out of the hub again: Unregister is reached   *)
(* and gets the write lock although broadcasts and other connections come  *)
(* and go.                                                                 *)
(***************************************************************************)
ConnectionsEnd == \A c \in Clients : conn[c] = "joining" ~> conn[c] = "off"
=============================================================================
