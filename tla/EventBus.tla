------------------------------- MODULE EventBus -------------------------------
(***************************************************************************)
(* app/events.py and the generator behind GET /v1/events: every subscriber *)
(* has a bounded queue, and a full one gives up its oldest event.          *)
(***************************************************************************)
EXTENDS Naturals, Sequences

CONSTANTS
  Client,     \* the clients of GET /v1/events
  Capacity,   \* asyncio.Queue(maxsize=100)
  MaxEvents   \* bound: how many events are emitted

ASSUME CapacityIsPositive == Capacity \in Nat \ {0} /\ MaxEvents \in Nat

VARIABLES
  emitted,     \* the number of events emitted; an event is its number
  subscribed,  \* _subscribers
  queue,       \* queue[c]: the queue of c's generator
  last,        \* last[c]: the last event c was sent, or emitted when it subscribed
  since,       \* history: emitted when c subscribed
  sent,        \* history: how many events c was sent since
  missed       \* history: how many events c's full queue gave up since

busVars == <<emitted, subscribed, queue, last, since, sent, missed>>

BusTypeOK ==
  /\ emitted \in Nat /\ subscribed \subseteq Client
  /\ queue \in [Client -> Seq(Nat)] /\ \A c \in Client \ subscribed : queue[c] = <<>>
  /\ last \in [Client -> Nat] /\ since \in [Client -> Nat]
  /\ sent \in [Client -> Nat] /\ missed \in [Client -> Nat]

BusInit ==
  /\ emitted = 0 /\ subscribed = {}
  /\ queue = [c \in Client |-> <<>>]
  /\ last = [c \in Client |-> 0] /\ since = last /\ sent = last /\ missed = last

(* The stream is opened: the generator runs up to its first yield.         *)
Subscribe(c) ==
  /\ c \notin subscribed
  /\ subscribed' = subscribed \cup {c}
  /\ queue' = [queue EXCEPT ![c] = <<>>]
  /\ last' = [last EXCEPT ![c] = emitted] /\ since' = [since EXCEPT ![c] = emitted]
  /\ sent' = [sent EXCEPT ![c] = 0] /\ missed' = [missed EXCEPT ![c] = 0]
  /\ UNCHANGED emitted

(* The client goes away, whatever the generator is waiting for.            *)
Unsubscribe(c) ==
  /\ c \in subscribed
  /\ subscribed' = subscribed \ {c}
  /\ queue' = [queue EXCEPT ![c] = <<>>]
  /\ UNCHANGED <<emitted, last, since, sent, missed>>

Full(c) == Len(queue[c]) >= Capacity

(* Mutant: a full queue drops the new event.                               *)
PutDropsNewest(c, e) == IF Full(c) THEN queue[c] ELSE Append(queue[c], e)

Put(c, e) == Append(IF Full(c) THEN Tail(queue[c]) ELSE queue[c], e)

(* Every subscriber gets the event; a full queue gives up one for it.      *)
Emit ==
  /\ emitted < MaxEvents
  /\ emitted' = emitted + 1
  /\ queue' = [c \in Client |-> IF c \in subscribed THEN Put(c, emitted') ELSE queue[c]]
  /\ missed' = [c \in Client |-> IF c \in subscribed /\ Full(c) THEN missed[c] + 1 ELSE missed[c]]
  /\ UNCHANGED <<subscribed, last, since, sent>>

(* Mutant: the newest event is sent first.                                 *)
DeliverNewest(c) ==
  /\ c \in subscribed /\ queue[c] # <<>>
  /\ last' = [last EXCEPT ![c] = queue[c][Len(queue[c])]]
  /\ queue' = [queue EXCEPT ![c] = SubSeq(@, 1, Len(@) - 1)]
  /\ sent' = [sent EXCEPT ![c] = @ + 1]
  /\ UNCHANGED <<emitted, subscribed, since, missed>>

(* q.get returns and the event is sent; a keep-alive sends nothing.        *)
Deliver(c) ==
  /\ c \in subscribed /\ queue[c] # <<>>
  /\ last' = [last EXCEPT ![c] = Head(queue[c])]
  /\ queue' = [queue EXCEPT ![c] = Tail(@)]
  /\ sent' = [sent EXCEPT ![c] = @ + 1]
  /\ UNCHANGED <<emitted, subscribed, since, missed>>

BusNext ==
  \/ Emit
  \/ \E c \in Client : Subscribe(c) \/ Unsubscribe(c) \/ Deliver(c)

BusSpec == BusInit /\ [][BusNext]_busVars

--------------------------------------------------------------------------------
(***************************************************************************)
(* Properties.                                                             *)
(***************************************************************************)

(* A slow client never makes its queue grow beyond the bound, and what     *)
(* waits for it is an unbroken run of events that ends with the newest:    *)
(* only the oldest were given up, and only by a full queue, for every event*)
(* since the client subscribed was sent, is waiting, or made room.         *)
OnlyOldestAreLost ==
  \A c \in subscribed :
    /\ Len(queue[c]) <= Capacity
    /\ \A i \in DOMAIN queue[c] : queue[c][i] + Len(queue[c]) = emitted + i
    /\ emitted = since[c] + sent[c] + Len(queue[c]) + missed[c]

(* A client is sent events in the order they were emitted, none twice.     *)
SentInOrder ==
  [][\A c \in Client : c \in subscribed /\ c \in subscribed' => last'[c] >= last[c]
        /\ (queue'[c] # queue[c] /\ emitted' = emitted => last'[c] > last[c])]_busVars
================================================================================
