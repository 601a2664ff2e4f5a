---------------------------- MODULE ServicesProofs ----------------------------
(***************************************************************************)
(* The three small services of the proxy that share no state with the      *)
(* rest: the token store, the event bus and the gateway; and all six parts *)
(* that MCServices puts side by side.                                      *)
(***************************************************************************)
EXTENDS MCServices, ContextTrimProofs, Exl3StreamProofs, ChatRelayProofs, FiniteSetTheorems, TLAPS

--------------------------------------------------------------------------------
(* The token store: every set of counters and amounts                      *)

(* Nothing waits to be saved while the proxy is down: without this a start *)
(* would drop it.                                                          *)
NothingWaits == life = "down" => pending = None

StoreInv == TokenTypeOK /\ NothingWaits /\ Balanced /\ RenderedIsTrue

LEMMA NoneType == None \in Counts
  BY DEF None, Counts

LEMMA PlusType == ASSUME NEW f \in Counts, NEW g \in Counts PROVE Plus(f, g) \in Counts
  BY DEF Plus, Counts

LEMMA WithType ==
  ASSUME NEW f \in Counts, NEW k \in Counter, NEW n \in Nat
  PROVE  With(f, k, n) \in Counts
  BY DEF With, Counts

(* Saved or not, what is on disk and what waits have the same sum, and     *)
(* nothing more waits than did before.                                     *)
LEMMA FlushKeepsSum ==
  ASSUME db \in Counts, due \in BOOLEAN, NEW p \in Counts, Flush(p)
  PROVE  /\ db' \in Counts /\ pending' \in Counts /\ due' \in BOOLEAN
         /\ \A k \in Counter : db'[k] + pending'[k] = db[k] + p[k] /\ pending'[k] <= p[k]
<1>1. CASE p # None /\ open /\ db' = Plus(db, p) /\ pending' = None /\ due' = FALSE
  <2>1. db' \in Counts /\ pending' \in Counts
    BY <1>1, NoneType, PlusType
  <2>2. ASSUME NEW k \in Counter
        PROVE  db'[k] + pending'[k] = db[k] + p[k] /\ pending'[k] <= p[k]
    <3>1. db'[k] = db[k] + p[k] /\ pending'[k] = 0
      BY <1>1 DEF Plus, None
    <3>2. db[k] \in Nat /\ p[k] \in Nat
      BY DEF Counts
    <3> QED
      BY <3>1, <3>2
  <2> QED
    BY <1>1, <2>1, <2>2
<1>2. CASE db' = db /\ pending' = p /\ due' = due
  BY <1>2 DEF Counts
<1> QED
  BY <1>1, <1>2 DEF Flush

LEMMA InitStoreInv == TokenInit => StoreInv
<1> SUFFICES ASSUME TokenInit PROVE StoreInv
  OBVIOUS
<1>1. TokenTypeOK
  BY NoneType DEF TokenInit, TokenTypeOK
<1>2. Balanced
  <2> SUFFICES ASSUME NEW k \in Counter PROVE db[k] + pending[k] + lost[k] = counted[k]
    BY DEF Balanced
  <2>1. db[k] = 0 /\ pending[k] = 0 /\ lost[k] = 0 /\ counted[k] = 0
    BY DEF TokenInit, None
  <2> QED
    BY <2>1
<1> QED
  BY <1>1, <1>2 DEF TokenInit, StoreInv, NothingWaits, RenderedIsTrue

LEMMA StartsStoreInv == ASSUME StoreInv, Starts PROVE StoreInv'
<1> USE DEF StoreInv, TokenTypeOK, Starts
<1>1. baseline' \in Counts
  <2>1. CASE baseline' = db
    BY <2>1
  <2>2. CASE \E read \in SUBSET Counter : baseline' = [k \in Counter |-> IF k \in read THEN db[k] ELSE 0]
    BY <2>2 DEF Counts
  <2> QED
    BY <2>1, <2>2
<1>2. TokenTypeOK'
  BY <1>1, NoneType
<1>3. Balanced'
  BY DEF Balanced, NothingWaits
<1>4. RenderedIsTrue'
  <2> SUFFICES ASSUME NEW k \in Counter
               PROVE  /\ pending'[k] <= baseline'[k] + session'[k]
                      /\ baseline'[k] + session'[k] <= db'[k] + pending'[k]
                      /\ open' => baseline'[k] + session'[k] = db'[k] + pending'[k]
    BY DEF RenderedIsTrue
  <2>1. session'[k] = 0 /\ pending'[k] = 0 /\ db'[k] = db[k] /\ db[k] \in Nat
    BY DEF None, Counts
  <2>2. baseline'[k] \in {0, db[k]} /\ (open' => baseline'[k] = db[k])
    OBVIOUS
  <2> QED
    BY <2>1, <2>2
<1> QED
  BY <1>2, <1>3, <1>4 DEF NothingWaits

LEMMA AddStoreInv ==
  ASSUME StoreInv, NEW k \in Counter, NEW n \in Amount, Add(k, n)
  PROVE  StoreInv'
<1> USE DEF StoreInv, TokenTypeOK
<1> DEFINE waiting == With(pending, k, n)
<1>0. n \in Nat
  BY AmountsAreIntegers DEF Add
<1>1. waiting \in Counts /\ session' \in Counts /\ counted' \in Counts
  BY <1>0, WithType DEF Add
<1>2. /\ db' \in Counts /\ pending' \in Counts /\ due' \in BOOLEAN
      /\ \A c \in Counter : db'[c] + pending'[c] = db[c] + waiting[c] /\ pending'[c] <= waiting[c]
  <2>1. CASE due
    BY <1>1, <2>1, FlushKeepsSum DEF Add
  <2>2. CASE ~due
    BY <1>1, <2>2 DEF Add, Counts
  <2> QED
    BY <2>1, <2>2
<1>3. ASSUME NEW c \in Counter
      PROVE  /\ db[c] \in Nat /\ pending[c] \in Nat /\ session[c] \in Nat /\ counted[c] \in Nat
             /\ lost[c] \in Nat /\ baseline[c] \in Nat /\ db'[c] \in Nat /\ pending'[c] \in Nat
  BY <1>2, <1>3 DEF Counts
<1>4. ASSUME NEW c \in Counter
      PROVE  \E more \in Nat : /\ session'[c] = session[c] + more
                               /\ counted'[c] = counted[c] + more
                               /\ waiting[c] = pending[c] + more
  <2>1. CASE c = k
    BY <1>0, <2>1 DEF Add, With, Counts
  <2>2. CASE c # k
    <3>1. session'[c] = session[c] /\ counted'[c] = counted[c] /\ waiting[c] = pending[c]
      BY <2>2 DEF Add, With, Counts
    <3> WITNESS 0 \in Nat
    <3> QED
      BY <1>3, <3>1
  <2> QED
    BY <2>1, <2>2
<1>5. Balanced'
  <2> SUFFICES ASSUME NEW c \in Counter
               PROVE  db'[c] + pending'[c] + lost'[c] = counted'[c]
    BY DEF Balanced
  <2>1. db[c] + pending[c] + lost[c] = counted[c] /\ lost' = lost
    BY DEF Balanced, Add
  <2> QED
    <3>0. PICK more \in Nat : /\ session'[c] = session[c] + more
                              /\ counted'[c] = counted[c] + more
                              /\ waiting[c] = pending[c] + more
      BY <1>4
    <3>1. db'[c] + pending'[c] = db[c] + waiting[c]
      BY <1>2
    <3> HIDE DEF waiting
    <3> QED
      BY <1>3, <2>1, <3>0, <3>1
<1>6. RenderedIsTrue'
  <2> SUFFICES ASSUME NEW c \in Counter
               PROVE  /\ pending'[c] <= baseline'[c] + session'[c]
                      /\ baseline'[c] + session'[c] <= db'[c] + pending'[c]
                      /\ open' => baseline'[c] + session'[c] = db'[c] + pending'[c]
    BY DEF RenderedIsTrue
  <2>1. /\ pending[c] <= baseline[c] + session[c]
        /\ baseline[c] + session[c] <= db[c] + pending[c]
        /\ open => baseline[c] + session[c] = db[c] + pending[c]
        /\ baseline' = baseline /\ open' = open
    BY DEF RenderedIsTrue, Add
  <2> QED
    <3>0. PICK more \in Nat : /\ session'[c] = session[c] + more
                              /\ counted'[c] = counted[c] + more
                              /\ waiting[c] = pending[c] + more
      BY <1>4
    <3>1. db'[c] + pending'[c] = db[c] + waiting[c] /\ pending'[c] <= waiting[c]
      BY <1>2
    <3> HIDE DEF waiting
    <3> QED
      BY <1>3, <2>1, <3>0, <3>1
<1> QED
  BY <1>1, <1>2, <1>5, <1>6 DEF Add, NothingWaits

LEMMA StopsStoreInv == ASSUME StoreInv, Stops PROVE StoreInv'
<1> USE DEF StoreInv, TokenTypeOK
<1>1. /\ db' \in Counts /\ pending' \in Counts /\ due' \in BOOLEAN
      /\ \A k \in Counter : db'[k] + pending'[k] = db[k] + pending[k] /\ pending'[k] <= pending[k]
  BY FlushKeepsSum DEF Stops
<1>2. Balanced'
  BY <1>1 DEF Balanced, Stops
<1>3. RenderedIsTrue'
  <2> SUFFICES ASSUME NEW k \in Counter
               PROVE  /\ pending'[k] <= baseline'[k] + session'[k]
                      /\ baseline'[k] + session'[k] <= db'[k] + pending'[k]
                      /\ open' => baseline'[k] + session'[k] = db'[k] + pending'[k]
    BY DEF RenderedIsTrue
  <2>1. /\ db'[k] + pending'[k] = db[k] + pending[k] /\ pending'[k] <= pending[k]
        /\ {db[k], pending[k], db'[k], pending'[k], baseline[k], session[k]} \subseteq Nat
    BY <1>1 DEF Counts
  <2>2. /\ pending[k] <= baseline[k] + session[k]
        /\ baseline[k] + session[k] <= db[k] + pending[k]
        /\ open => baseline[k] + session[k] = db[k] + pending[k]
        /\ baseline' = baseline /\ session' = session /\ open' = open
    BY DEF RenderedIsTrue, Stops
  <2> QED
    BY <2>1, <2>2
<1> QED
  BY <1>1, <1>2, <1>3 DEF Stops, NothingWaits

LEMMA ProcessEndsStoreInv ==
  ASSUME StoreInv, NEW saving \in BOOLEAN, ProcessEnds(saving)
  PROVE  StoreInv'
<1> USE DEF StoreInv, TokenTypeOK, ProcessEnds
<1>1. TokenTypeOK'
  <2>1. CASE db' = Plus(db, pending) /\ lost' = lost
    BY <2>1, NoneType, PlusType
  <2>2. CASE db' = db /\ lost' = Plus(lost, pending)
    BY <2>2, NoneType, PlusType
  <2> QED
    BY <2>1, <2>2
<1>2. Balanced'
  <2> SUFFICES ASSUME NEW k \in Counter
               PROVE  db'[k] + pending'[k] + lost'[k] = counted'[k]
    BY DEF Balanced
  <2>1. db[k] + pending[k] + lost[k] = counted[k] /\ {db[k], pending[k], lost[k], counted[k]} \subseteq Nat
    BY DEF Balanced, Counts
  <2>2. pending'[k] = 0
    BY DEF None
  <2>3. \/ db'[k] = db[k] + pending[k] /\ lost'[k] = lost[k]
        \/ db'[k] = db[k] /\ lost'[k] = lost[k] + pending[k]
    BY DEF Plus
  <2> QED
    BY <2>1, <2>2, <2>3
<1> QED
  BY <1>1, <1>2 DEF NothingWaits, RenderedIsTrue

LEMMA NextStoreInv == StoreInv /\ [TokenNext]_storeVars => StoreInv'
<1> SUFFICES ASSUME StoreInv, [TokenNext]_storeVars PROVE StoreInv'
  OBVIOUS
<1>1. CASE Starts
  BY <1>1, StartsStoreInv
<1>2. CASE BecomesDue
  BY <1>2 DEF BecomesDue, StoreInv, TokenTypeOK, NothingWaits, Balanced, RenderedIsTrue
<1>3. CASE Stops
  BY <1>3, StopsStoreInv
<1>4. CASE Exits \/ Crashes
  BY <1>4, ProcessEndsStoreInv DEF Exits, Crashes
<1>5. CASE \E k \in Counter, n \in Amount : Add(k, n)
  BY <1>5, AddStoreInv
<1>6. CASE UNCHANGED storeVars
  BY <1>6 DEF storeVars, StoreInv, TokenTypeOK, NothingWaits, Balanced, RenderedIsTrue
<1> QED
  BY <1>1, <1>2, <1>3, <1>4, <1>5, <1>6 DEF TokenNext

(* Tokens are saved once, pending, or lost with their process, whatever is *)
(* counted, whichever flush fails and whenever the proxy dies.             *)
THEOREM TokensBalance == TokenSpec => []Balanced
<1>1. StoreInv => Balanced
  BY DEF StoreInv
<1> QED
  BY InitStoreInv, NextStoreInv, <1>1, PTL DEF TokenSpec

(* /metrics shows what is saved or about to be, across every restart.      *)
THEOREM TokensRendered == TokenSpec => []RenderedIsTrue
<1>1. StoreInv => RenderedIsTrue
  BY DEF StoreInv
<1> QED
  BY InitStoreInv, NextStoreInv, <1>1, PTL DEF TokenSpec

--------------------------------------------------------------------------------
(* The event bus: every set of clients and every capacity                  *)

(* Everything that waits for a client is newer than all it was sent.       *)
NothingOldWaits ==
  \A c \in subscribed : last[c] + Len(queue[c]) <= emitted

BusInv == BusTypeOK /\ OnlyOldestAreLost /\ NothingOldWaits

LEMMA InitBusInv == BusInit => BusInv
<1> SUFFICES ASSUME BusInit PROVE BusInv
  OBVIOUS
<1>1. BusTypeOK
  BY DEF BusInit, BusTypeOK
<1> QED
  BY <1>1 DEF BusInit, BusInv, OnlyOldestAreLost, NothingOldWaits

LEMMA SeqFacts == ASSUME NEW s \in Seq(Nat) PROVE Len(s) \in Nat /\ DOMAIN s = 1..Len(s)
  OBVIOUS

LEMMA ElementFacts == ASSUME NEW s \in Seq(Nat), NEW i \in DOMAIN s PROVE s[i] \in Nat
  OBVIOUS

LEMMA TailFacts ==
  ASSUME NEW s \in Seq(Nat), s # <<>>
  PROVE  /\ Tail(s) \in Seq(Nat) /\ Len(Tail(s)) = Len(s) - 1 /\ Len(s) \in Nat \ {0}
         /\ DOMAIN s = 1..Len(s) /\ DOMAIN Tail(s) = 1..(Len(s) - 1)
         /\ \A i \in 1..(Len(s) - 1) : Tail(s)[i] = s[i + 1]
         /\ Head(s) = s[1] /\ Head(s) \in Nat
  OBVIOUS

LEMMA AppendFacts ==
  ASSUME NEW s \in Seq(Nat), NEW e \in Nat
  PROVE  /\ Append(s, e) \in Seq(Nat) /\ Len(Append(s, e)) = Len(s) + 1
         /\ DOMAIN Append(s, e) = 1..(Len(s) + 1)
         /\ \A i \in 1..Len(s) : Append(s, e)[i] = s[i]
         /\ Append(s, e)[Len(s) + 1] = e
  OBVIOUS

(* What Put does to a queue within its bound: the new event is its last,   *)
(* and if it was full its first is gone.                                   *)
LEMMA PutFacts ==
  ASSUME BusInv, NEW c \in subscribed
  PROVE  LET q == Put(c, emitted + 1) IN
         /\ q \in Seq(Nat)
         /\ Full(c) => Len(q) = Len(queue[c])
         /\ ~Full(c) => Len(q) = Len(queue[c]) + 1
         /\ Len(q) <= Capacity
         /\ \A i \in DOMAIN q : q[i] + Len(q) = (emitted + 1) + i
<1> USE CapacityIsPositive
<1>0. /\ queue[c] \in Seq(Nat) /\ emitted \in Nat /\ Len(queue[c]) <= Capacity
      /\ \A i \in DOMAIN queue[c] : queue[c][i] + Len(queue[c]) = emitted + i
  BY DEF BusInv, BusTypeOK, OnlyOldestAreLost
<1>1. CASE Full(c)
  <2>1. Len(queue[c]) = Capacity /\ queue[c] # <<>>
    BY <1>0, <1>1 DEF Full
  <2> DEFINE t == Tail(queue[c])
  <2>2. /\ t \in Seq(Nat) /\ Len(t) = Capacity - 1
        /\ \A i \in 1..(Capacity - 1) : t[i] = queue[c][i + 1]
    BY <1>0, <2>1
  <2>3. \A i \in 1..(Capacity - 1) : t[i] + Capacity = (emitted + 1) + i
    <3> SUFFICES ASSUME NEW i \in 1..(Capacity - 1) PROVE t[i] + Capacity = (emitted + 1) + i
      OBVIOUS
    <3>1. i + 1 \in DOMAIN queue[c]
      BY <1>0, <2>1
    <3>2. queue[c][i + 1] + Capacity = emitted + (i + 1) /\ t[i] = queue[c][i + 1]
      BY <1>0, <2>1, <2>2, <3>1
    <3> HIDE DEF t
    <3> QED
      BY <1>0, <3>2
  <2> HIDE DEF t
  <2>4. Put(c, emitted + 1) = Append(t, emitted + 1)
    BY <1>1 DEF Put, t
  <2>5. emitted + 1 \in Nat /\ Capacity \in Nat /\ (Capacity - 1) + 1 = Capacity
    BY <1>0
  <2> DEFINE q == Put(c, emitted + 1)
  <2>8. /\ Append(t, emitted + 1) \in Seq(Nat) /\ Len(Append(t, emitted + 1)) = Len(t) + 1
        /\ DOMAIN Append(t, emitted + 1) = 1..(Len(t) + 1)
        /\ \A i \in 1..Len(t) : Append(t, emitted + 1)[i] = t[i]
        /\ Append(t, emitted + 1)[Len(t) + 1] = emitted + 1
    BY <2>2, <2>5, AppendFacts
  <2>6. /\ q \in Seq(Nat) /\ Len(q) = Capacity /\ DOMAIN q = 1..Capacity
        /\ \A i \in 1..(Capacity - 1) : q[i] = t[i]
        /\ q[Capacity] = emitted + 1
    BY <2>2, <2>4, <2>5, <2>8
  <2> HIDE DEF q
  <2>7. \A i \in DOMAIN q : q[i] + Len(q) = (emitted + 1) + i
    <3> SUFFICES ASSUME NEW i \in 1..Capacity PROVE q[i] + Capacity = (emitted + 1) + i
      BY <2>6
    <3>1. CASE i = Capacity
      BY <1>0, <2>5, <2>6, <3>1
    <3>2. CASE i # Capacity
      <4>1. i \in 1..(Capacity - 1)
        BY <2>5, <3>2
      <4> QED
        BY <2>3, <2>6, <4>1
    <3> QED
      BY <3>1, <3>2
  <2> QED
    BY <1>1, <2>1, <2>5, <2>6, <2>7 DEF q
<1>2. CASE ~Full(c)
  <2>1. Put(c, emitted + 1) = Append(queue[c], emitted + 1)
    BY <1>2 DEF Put
  <2>2. Len(queue[c]) < Capacity
    BY <1>0, <1>2 DEF Full
  <2>3. emitted + 1 \in Nat /\ Capacity \in Nat /\ Len(queue[c]) \in Nat
    BY <1>0
  <2> DEFINE q == Put(c, emitted + 1)
  <2>4. /\ q \in Seq(Nat) /\ Len(q) = Len(queue[c]) + 1 /\ DOMAIN q = 1..(Len(queue[c]) + 1)
        /\ \A i \in 1..Len(queue[c]) : q[i] = queue[c][i]
        /\ q[Len(queue[c]) + 1] = emitted + 1
    <3>1. /\ Append(queue[c], emitted + 1) \in Seq(Nat)
          /\ Len(Append(queue[c], emitted + 1)) = Len(queue[c]) + 1
          /\ DOMAIN Append(queue[c], emitted + 1) = 1..(Len(queue[c]) + 1)
          /\ \A i \in 1..Len(queue[c]) : Append(queue[c], emitted + 1)[i] = queue[c][i]
          /\ Append(queue[c], emitted + 1)[Len(queue[c]) + 1] = emitted + 1
      BY <1>0, <2>3, AppendFacts
    <3> QED
      BY <2>1, <3>1
  <2> HIDE DEF q
  <2>5. \A i \in DOMAIN q : q[i] + Len(q) = (emitted + 1) + i
    <3> SUFFICES ASSUME NEW i \in 1..(Len(queue[c]) + 1)
                 PROVE  q[i] + (Len(queue[c]) + 1) = (emitted + 1) + i
      BY <2>4
    <3>1. CASE i = Len(queue[c]) + 1
      BY <1>0, <2>3, <2>4, <3>1
    <3>2. CASE i # Len(queue[c]) + 1
      <4>1. i \in 1..Len(queue[c]) /\ i \in DOMAIN queue[c] /\ i \in Nat
        BY <1>0, <2>3, <3>2, SeqFacts
      <4>5. q[i] = queue[c][i]
        BY <2>4, <4>1
      <4>6. queue[c][i] \in Nat
        BY <1>0, <4>1, ElementFacts
      <4>7. queue[c][i] + Len(queue[c]) = emitted + i
        BY <1>0, <4>1, Zenon
      <4>2. q[i] = queue[c][i] /\ q[i] \in Nat /\ queue[c][i] + Len(queue[c]) = emitted + i
        BY <4>5, <4>6, <4>7
      <4>3. emitted \in Nat
        BY <1>0
      <4> QED
        BY <2>3, <4>1, <4>2, <4>3
    <3> QED
      BY <3>1, <3>2
  <2> QED
    BY <1>2, <2>2, <2>3, <2>4, <2>5 DEF q
<1> QED
  BY <1>1, <1>2

LEMMA EmitBusInv == ASSUME BusInv, Emit PROVE BusInv'
<1>0. /\ emitted \in Nat /\ emitted' = emitted + 1 /\ subscribed \subseteq Client
      /\ UNCHANGED <<subscribed, last, since, sent>>
  BY DEF Emit, BusInv, BusTypeOK
<1>1. ASSUME NEW c \in Client \ subscribed
      PROVE  queue'[c] = queue[c] /\ missed'[c] = missed[c]
  BY DEF Emit
<1>2. ASSUME NEW c \in subscribed
      PROVE  /\ queue'[c] = Put(c, emitted + 1)
             /\ missed'[c] = IF Full(c) THEN missed[c] + 1 ELSE missed[c]
  BY <1>0 DEF Emit
<1>3. ASSUME NEW c \in subscribed
      PROVE  /\ queue'[c] \in Seq(Nat) /\ missed'[c] \in Nat
             /\ Len(queue'[c]) <= Capacity
             /\ \A i \in DOMAIN queue'[c] : queue'[c][i] + Len(queue'[c]) = emitted' + i
             /\ emitted' = since'[c] + sent'[c] + Len(queue'[c]) + missed'[c]
             /\ last'[c] + Len(queue'[c]) <= emitted'
  <2>1. /\ emitted = since[c] + sent[c] + Len(queue[c]) + missed[c]
        /\ {since[c], sent[c], missed[c], last[c], Len(queue[c])} \subseteq Nat
        /\ last[c] + Len(queue[c]) <= emitted
    BY <1>0 DEF BusInv, BusTypeOK, OnlyOldestAreLost, NothingOldWaits
  <2> DEFINE q == Put(c, emitted + 1)
  <2>2. /\ q \in Seq(Nat) /\ Len(q) <= Capacity
        /\ Full(c) => Len(q) = Len(queue[c])
        /\ ~Full(c) => Len(q) = Len(queue[c]) + 1
        /\ \A i \in DOMAIN q : q[i] + Len(q) = (emitted + 1) + i
    BY PutFacts
  <2>3. queue'[c] = q /\ missed'[c] = IF Full(c) THEN missed[c] + 1 ELSE missed[c]
    BY <1>2
  <2> HIDE DEF q
  <2>6. Len(q) \in Nat /\ since[c] \in Nat /\ sent[c] \in Nat /\ missed[c] \in Nat /\ last[c] \in Nat
        /\ Len(queue[c]) \in Nat
    BY <2>1, <2>2, SeqFacts
  <2>4. emitted' = since[c] + sent[c] + Len(q) + missed'[c] /\ last[c] + Len(q) <= emitted'
    <3>3. /\ emitted + 1 = since[c] + sent[c] + Len(queue[c]) + (missed[c] + 1)
          /\ emitted + 1 = since[c] + sent[c] + (Len(queue[c]) + 1) + missed[c]
      <4>1. emitted = since[c] + sent[c] + Len(queue[c]) + missed[c] /\ emitted \in Nat
        BY <1>0, <2>1
      <4>2. /\ (since[c] + sent[c] + Len(queue[c]) + missed[c]) + 1
                 = since[c] + sent[c] + Len(queue[c]) + (missed[c] + 1)
            /\ (since[c] + sent[c] + Len(queue[c]) + missed[c]) + 1
                 = since[c] + sent[c] + (Len(queue[c]) + 1) + missed[c]
        <5> DEFINE s == since[c]  d == sent[c]  w == Len(queue[c])  m == missed[c]
        <5>1. s \in Nat /\ d \in Nat /\ w \in Nat /\ m \in Nat
          BY <2>6
        <5> HIDE DEF s, d, w, m
        <5>2. /\ (s + d + w + m) + 1 = s + d + w + (m + 1)
              /\ (s + d + w + m) + 1 = s + d + (w + 1) + m
          BY <5>1
        <5> QED
          BY <5>2, Zenon DEF s, d, w, m
      <4> QED
        BY <4>1, <4>2, Zenon
    <3>4. /\ last[c] + Len(queue[c]) <= emitted + 1
          /\ last[c] + (Len(queue[c]) + 1) <= emitted + 1
      <4>1. last[c] + Len(queue[c]) <= emitted /\ emitted \in Nat
        BY <1>0, <2>1
      <4> QED
        BY <2>6, <4>1
    <3>5. emitted' = emitted + 1
      BY <1>0
    <3>1. CASE Full(c)
      <4>1. Len(q) = Len(queue[c]) /\ missed'[c] = missed[c] + 1
        BY <2>2, <2>3, <3>1
      <4> QED
        BY <3>3, <3>4, <3>5, <4>1, Zenon
    <3>2. CASE ~Full(c)
      <4>1. Len(q) = Len(queue[c]) + 1 /\ missed'[c] = missed[c]
        BY <2>2, <2>3, <3>2
      <4> QED
        BY <3>3, <3>4, <3>5, <4>1, Zenon
    <3> QED
      BY <3>1, <3>2
  <2>5. missed'[c] \in Nat
    BY <2>1, <2>3
  <2> QED
    BY <1>0, <2>1, <2>2, <2>3, <2>4, <2>5
<1>4. BusTypeOK'
  <2>1. \A c \in Client : queue'[c] \in Seq(Nat) /\ missed'[c] \in Nat
    BY <1>1, <1>3 DEF BusInv, BusTypeOK
  <2>2. \A c \in Client \ subscribed' : queue'[c] = <<>>
    BY <1>0, <1>1 DEF BusInv, BusTypeOK
  <2>3. DOMAIN queue' = Client /\ DOMAIN missed' = Client /\ queue' = [c \in Client |-> queue'[c]] /\ missed' = [c \in Client |-> missed'[c]]
    BY DEF Emit
  <2> QED
    BY <1>0, <2>1, <2>2, <2>3 DEF BusInv, BusTypeOK
<1> QED
  BY <1>0, <1>3, <1>4 DEF BusInv, OnlyOldestAreLost, NothingOldWaits

LEMMA SubscribeBusInv == ASSUME BusInv, NEW c \in Client, Subscribe(c) PROVE BusInv'
<1>1. BusTypeOK'
  BY DEF BusInv, BusTypeOK, Subscribe
<1>2. ASSUME NEW d \in subscribed', d # c
      PROVE  /\ d \in subscribed
             /\ queue'[d] = queue[d] /\ since'[d] = since[d] /\ sent'[d] = sent[d]
             /\ missed'[d] = missed[d] /\ last'[d] = last[d]
  BY <1>2 DEF Subscribe, BusInv, BusTypeOK
<1>3. queue'[c] = <<>> /\ since'[c] = emitted /\ sent'[c] = 0 /\ missed'[c] = 0 /\ last'[c] = emitted
  BY DEF Subscribe, BusInv, BusTypeOK
<1>4. emitted' = emitted /\ emitted \in Nat
  BY DEF Subscribe, BusInv, BusTypeOK
<1>5. ASSUME NEW d \in subscribed'
      PROVE  /\ Len(queue'[d]) <= Capacity
             /\ \A i \in DOMAIN queue'[d] : queue'[d][i] + Len(queue'[d]) = emitted' + i
             /\ emitted' = since'[d] + sent'[d] + Len(queue'[d]) + missed'[d]
             /\ last'[d] + Len(queue'[d]) <= emitted'
  <2>1. CASE d = c
    BY CapacityIsPositive, <1>3, <1>4, <2>1
  <2>2. CASE d # c
    BY <1>2, <1>4, <2>2 DEF BusInv, OnlyOldestAreLost, NothingOldWaits
  <2> QED
    BY <2>1, <2>2
<1> QED
  BY <1>1, <1>5 DEF BusInv, OnlyOldestAreLost, NothingOldWaits

LEMMA UnsubscribeBusInv == ASSUME BusInv, NEW c \in Client, Unsubscribe(c) PROVE BusInv'
<1>1. BusTypeOK'
  BY DEF BusInv, BusTypeOK, Unsubscribe
<1>2. ASSUME NEW d \in subscribed' PROVE d \in subscribed /\ queue'[d] = queue[d]
  BY DEF Unsubscribe, BusInv, BusTypeOK
<1>3. UNCHANGED <<emitted, last, since, sent, missed>>
  BY DEF Unsubscribe
<1> QED
  BY <1>1, <1>2, <1>3 DEF BusInv, OnlyOldestAreLost, NothingOldWaits

(* The head of a queue is older than all that stays in it.                 *)
LEMMA DeliverBusInv ==
  ASSUME BusInv, NEW c \in Client, Deliver(c)
  PROVE  BusInv' /\ last'[c] > last[c]
<1>0. /\ c \in subscribed /\ queue[c] \in Seq(Nat) /\ queue[c] # <<>> /\ emitted \in Nat
      /\ since[c] \in Nat /\ sent[c] \in Nat /\ missed[c] \in Nat /\ last[c] \in Nat
      /\ Len(queue[c]) <= Capacity /\ Capacity \in Nat
      /\ \A i \in DOMAIN queue[c] : queue[c][i] + Len(queue[c]) = emitted + i
      /\ emitted = since[c] + sent[c] + Len(queue[c]) + missed[c]
      /\ last[c] + Len(queue[c]) <= emitted
  BY CapacityIsPositive DEF Deliver, BusInv, BusTypeOK, OnlyOldestAreLost, NothingOldWaits
<1> DEFINE t == Tail(queue[c])
           h == Head(queue[c])
<1>1. /\ queue'[c] = t /\ last'[c] = h /\ sent'[c] = sent[c] + 1
      /\ UNCHANGED <<emitted, subscribed, since, missed>>
  BY DEF Deliver, BusInv, BusTypeOK
<1>2. /\ t \in Seq(Nat) /\ h \in Nat /\ h = queue[c][1] /\ 1 \in DOMAIN queue[c]
      /\ Len(t) \in Nat /\ Len(queue[c]) = Len(t) + 1
      /\ \A i \in DOMAIN t : i \in Nat /\ i + 1 \in DOMAIN queue[c] /\ t[i] = queue[c][i + 1]
  <2>1. /\ t \in Seq(Nat) /\ h \in Nat /\ h = queue[c][1] /\ Len(queue[c]) \in Nat \ {0}
        /\ Len(t) = Len(queue[c]) - 1 /\ DOMAIN queue[c] = 1..Len(queue[c])
        /\ DOMAIN t = 1..(Len(queue[c]) - 1)
        /\ \A i \in 1..(Len(queue[c]) - 1) : t[i] = queue[c][i + 1]
    BY <1>0, TailFacts
  <2> HIDE DEF t, h
  <2>2. ASSUME NEW n \in Nat \ {0}
        PROVE  n - 1 \in Nat /\ n = (n - 1) + 1 /\ 1 \in 1..n /\ \A i \in 1..(n - 1) : i \in Nat /\ i + 1 \in 1..n
    OBVIOUS
  <2> QED
    BY <2>1, <2>2
<1>3. BusTypeOK'
  BY <1>2 DEF BusInv, BusTypeOK, Deliver
<1> HIDE DEF t, h
<1>4. h + Len(t) = emitted
  <2>1. h + Len(queue[c]) = emitted + 1 /\ h \in Nat /\ emitted \in Nat
    BY <1>0, <1>2
  <2>2. Len(t) \in Nat /\ Len(queue[c]) = Len(t) + 1
    BY <1>2
  <2> QED
    BY <2>1, <2>2
<1>5. \A i \in DOMAIN t : t[i] + Len(t) = emitted + i
  <2> SUFFICES ASSUME NEW i \in DOMAIN t PROVE t[i] + Len(t) = emitted + i
    OBVIOUS
  <2>1. queue[c][i + 1] + Len(queue[c]) = emitted + (i + 1)
    BY <1>0, <1>2
  <2>2. t[i] = queue[c][i + 1] /\ t[i] \in Nat /\ i \in Nat
    BY <1>2
  <2>3. Len(t) \in Nat /\ Len(queue[c]) = Len(t) + 1 /\ emitted \in Nat
    BY <1>0, <1>2
  <2>4. t[i] + (Len(t) + 1) = emitted + (i + 1)
    BY <2>1, <2>2, <2>3, Zenon
  <2>5. t[i] \in Nat /\ Len(t) \in Nat /\ emitted \in Nat /\ i \in Nat
    BY <2>2, <2>3
  <2> QED
    BY <2>4, <2>5
<1>6. /\ Len(t) <= Capacity /\ emitted = since[c] + (sent[c] + 1) + Len(t) + missed[c]
      /\ h > last[c]
  <2>1. /\ Len(t) \in Nat /\ Len(queue[c]) = Len(t) + 1 /\ emitted \in Nat /\ h \in Nat
        /\ since[c] \in Nat /\ sent[c] \in Nat /\ missed[c] \in Nat /\ last[c] \in Nat
        /\ Len(queue[c]) <= Capacity /\ Capacity \in Nat
        /\ emitted = since[c] + sent[c] + Len(queue[c]) + missed[c]
        /\ last[c] + Len(queue[c]) <= emitted
    BY <1>0, <1>2
  <2>2. emitted = since[c] + sent[c] + (Len(t) + 1) + missed[c] /\ last[c] + (Len(t) + 1) <= emitted
    BY <2>1, Zenon
  <2>5. /\ Len(t) \in Nat /\ emitted \in Nat /\ h \in Nat
        /\ since[c] \in Nat /\ sent[c] \in Nat /\ missed[c] \in Nat /\ last[c] \in Nat
    BY <2>1
  <2>6. emitted = since[c] + (sent[c] + 1) + Len(t) + missed[c]
    <3>1. emitted = since[c] + sent[c] + (Len(t) + 1) + missed[c]
      BY <2>2
    <3>2. since[c] + sent[c] + (Len(t) + 1) + missed[c] = since[c] + (sent[c] + 1) + Len(t) + missed[c]
      <4> DEFINE s == since[c]  d == sent[c]  w == Len(t)  m == missed[c]
      <4>1. s \in Nat /\ d \in Nat /\ w \in Nat /\ m \in Nat
        BY <2>5
      <4> HIDE DEF s, d, w, m
      <4>2. s + d + (w + 1) + m = s + (d + 1) + w + m
        BY <4>1
      <4> QED
        BY <4>2, Zenon DEF s, d, w, m
    <3> QED
      BY <3>1, <3>2, Zenon
  <2>7. h > last[c]
    <3>1. last[c] + (Len(t) + 1) <= h + Len(t)
      BY <1>4, <2>2, Zenon
    <3> QED
      BY <2>5, <3>1
  <2>3. emitted = since[c] + (sent[c] + 1) + Len(t) + missed[c] /\ h > last[c]
    BY <2>6, <2>7
  <2>4. Len(t) <= Capacity
    BY <2>1
  <2> QED
    BY <2>3, <2>4
<1>8. ASSUME NEW d \in subscribed', d # c
      PROVE  queue'[d] = queue[d] /\ last'[d] = last[d] /\ sent'[d] = sent[d]
  BY <1>1, <1>8 DEF Deliver, BusInv, BusTypeOK
<1>9. ASSUME NEW d \in subscribed'
      PROVE  /\ Len(queue'[d]) <= Capacity
             /\ \A i \in DOMAIN queue'[d] : queue'[d][i] + Len(queue'[d]) = emitted' + i
             /\ emitted' = since'[d] + sent'[d] + Len(queue'[d]) + missed'[d]
             /\ last'[d] + Len(queue'[d]) <= emitted'
  <2>1. CASE d = c
    <3>1. since'[d] = since[c] /\ missed'[d] = missed[c] /\ emitted' = emitted
      BY <1>1, <2>1
    <3>2. queue'[d] = t /\ last'[d] = h /\ sent'[d] = sent[c] + 1
      BY <1>1, <2>1
    <3>3. h + Len(t) <= emitted
      BY <1>0, <1>4
    <3> QED
      BY <1>5, <1>6, <3>1, <3>2, <3>3
  <2>2. CASE d # c
    BY <1>1, <1>8, <2>2 DEF BusInv, OnlyOldestAreLost, NothingOldWaits
  <2> QED
    BY <2>1, <2>2
<1> QED
  BY <1>1, <1>3, <1>6, <1>9 DEF BusInv, OnlyOldestAreLost, NothingOldWaits

LEMMA NextBusInv == BusInv /\ [BusNext]_busVars => BusInv'
<1> SUFFICES ASSUME BusInv, [BusNext]_busVars PROVE BusInv'
  OBVIOUS
<1>1. CASE UNCHANGED busVars
  BY <1>1 DEF busVars, BusInv, BusTypeOK, OnlyOldestAreLost, NothingOldWaits
<1> QED
  BY <1>1, EmitBusInv, SubscribeBusInv, UnsubscribeBusInv, DeliverBusInv DEF BusNext

(* What waits for a subscriber is an unbroken run of events that ends with *)
(* the newest, never longer than the bound, however slow he is.            *)
THEOREM QueuesKeepTheNewest == BusSpec => []OnlyOldestAreLost
<1>1. BusInv => OnlyOldestAreLost
  BY DEF BusInv
<1> QED
  BY InitBusInv, NextBusInv, <1>1, PTL DEF BusSpec
(* A client is sent events in the order they were emitted, none twice.     *)
THEOREM EventsAreSentInOrder == BusSpec => SentInOrder
<1>1. BusInv /\ [BusNext]_busVars =>
        [\A c \in Client : c \in subscribed /\ c \in subscribed' => last'[c] >= last[c]
           /\ (queue'[c] # queue[c] /\ emitted' = emitted => last'[c] > last[c])]_busVars
  <2> SUFFICES ASSUME BusInv, BusNext, NEW c \in Client, c \in subscribed, c \in subscribed'
               PROVE  last'[c] >= last[c] /\ (queue'[c] # queue[c] /\ emitted' = emitted => last'[c] > last[c])
    BY DEF busVars
  <2>0. last[c] \in Nat
    BY DEF BusInv, BusTypeOK
  <2>1. CASE Emit
    BY <2>0, <2>1 DEF Emit, BusInv, BusTypeOK
  <2>2. ASSUME NEW d \in Client, Subscribe(d) PROVE last'[c] = last[c] /\ queue'[c] = queue[c]
    BY <2>2 DEF Subscribe, BusInv, BusTypeOK
  <2>3. ASSUME NEW d \in Client, Unsubscribe(d) PROVE last'[c] = last[c] /\ queue'[c] = queue[c]
    BY <2>3 DEF Unsubscribe, BusInv, BusTypeOK
  <2>4. ASSUME NEW d \in Client, Deliver(d)
        PROVE  last'[c] > last[c] \/ (last'[c] = last[c] /\ queue'[c] = queue[c])
    <3>1. CASE c = d
      BY <2>4, <3>1, DeliverBusInv
    <3>2. CASE c # d
      BY <2>4, <3>2 DEF Deliver, BusInv, BusTypeOK
    <3> QED
      BY <3>1, <3>2
  <2>5. last'[c] \in Nat
    <3>1. BusInv'
      BY NextBusInv
    <3> QED
      BY <3>1 DEF BusInv, BusTypeOK
  <2> QED
    BY <2>0, <2>1, <2>2, <2>3, <2>4, <2>5 DEF BusNext
<1> QED
  BY InitBusInv, NextBusInv, <1>1, PTL DEF BusSpec, SentInOrder

--------------------------------------------------------------------------------
(* The gateway: every set of requests, every cap, every status             *)

GatewayInv == GatewayTypeOK /\ IsFiniteSet(Inside) /\ InflightCounts

LEMMA InitGatewayInv == GatewayInit => GatewayInv
<1> SUFFICES ASSUME GatewayInit PROVE GatewayInv
  OBVIOUS
<1>1. GatewayTypeOK
  BY DEF GatewayInit, GatewayTypeOK, Path, Credential, Codes, NoReply
<1>2. Inside = {}
  BY DEF GatewayInit, Inside
<1>3. IsFiniteSet(Inside) /\ Cardinality(Inside) = 0
  BY <1>2, FS_EmptySet
<1>4. Limits => inflight = Cardinality(Inside) /\ inflight <= settings.max_concurrency
  <2>1. settings.max_concurrency \in Nat /\ inflight = 0
    BY CapsAreNaturals DEF GatewayInit
  <2>2. 0 <= settings.max_concurrency
    BY <2>1
  <2> QED
    BY <1>3, <2>1, <2>2, Zenon
<1> QED
  BY <1>1, <1>3, <1>4 DEF GatewayInv, InflightCounts

(* The refusals and the answers leave the set of requests inside alone.    *)
LEMMA InsideKept ==
  ASSUME GatewayInv, GatewayTypeOK', Inside' = Inside, inflight' = inflight, settings' = settings
  PROVE  GatewayInv'
BY DEF GatewayInv, InflightCounts, Limits

LEMMA RefuseType ==
  ASSUME GatewayInv, NEW r \in Request, NEW s \in Codes, NEW p \in Path, NEW k \in Credential,
         settings' = settings, path' = [path EXCEPT ![r] = p], key' = [key EXCEPT ![r] = k],
         Refuse(r, s), stage[r] = "idle"
  PROVE  GatewayInv'
<1>1. GatewayTypeOK'
  BY DEF GatewayInv, GatewayTypeOK, Refuse, IncRequest
<1>2. Inside' = Inside
  BY DEF GatewayInv, GatewayTypeOK, Refuse, Inside
<1> QED
  BY <1>1, <1>2, InsideKept DEF Refuse

(* One more request is inside, and it had room.                            *)
LEMMA AdmitInv ==
  ASSUME GatewayInv, NEW r \in Request, NEW p \in Path, NEW k \in Credential,
         settings' = settings, path' = [path EXCEPT ![r] = p], key' = [key EXCEPT ![r] = k],
         Admit(r), stage[r] = "idle"
  PROVE  GatewayInv'
<1>1. GatewayTypeOK'
  BY DEF GatewayInv, GatewayTypeOK, Admit
<1>2. Inside' = Inside \cup {r} /\ r \notin Inside
  BY DEF GatewayInv, GatewayTypeOK, Admit, Inside
<1>3. IsFiniteSet(Inside') /\ Cardinality(Inside') = Cardinality(Inside) + 1
  BY <1>2, FS_AddElement DEF GatewayInv
<1>4. settings.max_concurrency \in Nat
  BY CapsAreNaturals DEF GatewayInv, GatewayTypeOK
<1>5. Limits => inflight' = Cardinality(Inside') /\ inflight' <= settings.max_concurrency
  BY <1>3, <1>4 DEF GatewayInv, GatewayTypeOK, InflightCounts, Admit
<1> QED
  BY <1>1, <1>3, <1>5 DEF GatewayInv, InflightCounts, Limits

LEMMA ArrivesInv ==
  ASSUME GatewayInv, NEW r \in Request, NEW p \in Path, NEW k \in Credential, Arrives(r, p, k)
  PROVE  GatewayInv'
<1>1. Refuse(r, 401) \/ Admit(r) \/ Refuse(r, 429)
  BY DEF Arrives
<1>2. /\ stage[r] = "idle" /\ settings' = settings
      /\ path' = [path EXCEPT ![r] = p] /\ key' = [key EXCEPT ![r] = k]
  BY DEF Arrives
<1>3. 401 \in Codes /\ 429 \in Codes
  BY DEF Codes
<1> QED
  BY <1>1, <1>2, <1>3, RefuseType, AdmitInv

LEMMA AnswersInv ==
  ASSUME GatewayInv, NEW r \in Request, NEW s \in Status, Answers(r, s)
  PROVE  GatewayInv'
<1>1. GatewayTypeOK'
  BY DEF GatewayInv, GatewayTypeOK, Answers, Codes
<1> QED
  BY <1>1, InsideKept DEF Answers, Inside

(* The request that ends was inside, so the counter was not zero.          *)
LEMMA EndsInv == ASSUME GatewayInv, NEW r \in Request, Ends(r) PROVE GatewayInv'
<1>1. Inside' = Inside \ {r} /\ r \in Inside
  BY DEF GatewayInv, GatewayTypeOK, Ends, Inside
<1>2. IsFiniteSet(Inside') /\ Cardinality(Inside') = Cardinality(Inside) - 1
  BY <1>1, FS_RemoveElement DEF GatewayInv
<1>3. Cardinality(Inside) \in Nat /\ Cardinality(Inside') \in Nat
  BY <1>2, FS_CardinalityType DEF GatewayInv
<1>4. settings.max_concurrency \in Nat /\ inflight \in Nat
  BY CapsAreNaturals DEF GatewayInv, GatewayTypeOK
<1>5. Limits => inflight' = Cardinality(Inside') /\ inflight' <= settings.max_concurrency
  BY <1>2, <1>3, <1>4 DEF GatewayInv, InflightCounts, Ends
<1>6. inflight' \in Nat
  BY <1>3, <1>4, <1>5 DEF Ends
<1>7. GatewayTypeOK'
  BY <1>6 DEF GatewayInv, GatewayTypeOK, Ends, IncRequest
<1>8. settings' = settings
  BY DEF Ends
<1> QED
  BY <1>2, <1>5, <1>7, <1>8 DEF GatewayInv, InflightCounts, Limits

LEMMA NextGatewayInv == GatewayInv /\ [GatewayNext]_gatewayVars => GatewayInv'
<1> SUFFICES ASSUME GatewayInv, [GatewayNext]_gatewayVars PROVE GatewayInv'
  OBVIOUS
<1>1. CASE UNCHANGED gatewayVars
  <2>1. GatewayTypeOK'
    BY <1>1 DEF GatewayInv, GatewayTypeOK, gatewayVars
  <2> QED
    BY <1>1, <2>1, InsideKept DEF gatewayVars, Inside
<1> QED
  BY <1>1, ArrivesInv, AnswersInv, EndsInv DEF GatewayNext

(* The counter of __call__ is the number of requests inside, whatever they *)
(* are answered and however they end: no slot leaks, and a refusal gives   *)
(* none back.                                                              *)
THEOREM SlotsAreCounted == GatewaySpec => []InflightCounts
<1>1. GatewayInv => InflightCounts
  BY DEF GatewayInv
<1> QED
  BY InitGatewayInv, NextGatewayInv, <1>1, PTL DEF GatewaySpec

--------------------------------------------------------------------------------
(* Side by side                                                            *)

(* The parts do not disturb each other: of every behaviour of MCServices   *)
(* each part sees one of its own, and what is proved of it holds there.    *)
THEOREM PartsKeepTheirSpecs ==
  Spec => TokenSpec /\ BusSpec /\ GatewaySpec /\ TrimSpec /\ ExlSpec /\ RelaySpec
<1>1. Init => TokenInit /\ BusInit /\ GatewayInit /\ TrimInit /\ ExlInit /\ RelayInit
  BY DEF Init
<1> DEFINE allVars == <<subject, storeVars, busVars, gatewayVars, trimVars, exlVars, relayVars>>
<1>2. [Next]_allVars => [TokenNext]_storeVars /\ [BusNext]_busVars /\ [GatewayNext]_gatewayVars
  BY DEF Next
<1>3. [Next]_allVars => [TrimNext]_trimVars /\ [ExlNext]_exlVars /\ [RelayNext]_relayVars
  BY DEF Next
<1> QED
  BY <1>1, <1>2, <1>3, PTL DEF Spec, TokenSpec, BusSpec, GatewaySpec, TrimSpec, ExlSpec, RelaySpec

(* MCServices!TypeOK: all six keep their types.                            *)
THEOREM ServicesTypeCorrect == Spec => []TypeOK
<1>1. StoreInv => TokenTypeOK
  BY DEF StoreInv
<1>2. BusInv => BusTypeOK
  BY DEF BusInv
<1>3. GatewayInv => GatewayTypeOK
  BY DEF GatewayInv
<1>4. TokenSpec => []TokenTypeOK
  BY <1>1, InitStoreInv, NextStoreInv, PTL DEF TokenSpec
<1>5. BusSpec => []BusTypeOK
  BY <1>2, InitBusInv, NextBusInv, PTL DEF BusSpec
<1>6. GatewaySpec => []GatewayTypeOK
  BY <1>3, InitGatewayInv, NextGatewayInv, PTL DEF GatewaySpec
<1>7. TokenTypeOK /\ BusTypeOK /\ GatewayTypeOK /\ TrimTypeOK /\ ExlTypeOK /\ RelayTypeOK => TypeOK
  BY DEF TypeOK
<1> QED
  BY <1>4, <1>5, <1>6, <1>7, TrimTypeCorrect, ExlTypeCorrect, RelayTypeCorrect, PartsKeepTheirSpecs, PTL
================================================================================
