-------------------------- MODULE ClientFanoutProofs --------------------------
(***************************************************************************)
(* Theorems about ClientFanout, for any clients, any capacities of the     *)
(* ring, the write queues and the sockets, and any number of events.       *)
(***************************************************************************)
EXTENDS ClientFanout, SequenceTheorems, TLAPS

-----------------------------------------------------------------------------
(* Messages on their way.                                                  *)

\* A message that moves from the head of one sequence to the end of the one
\* before it leaves their concatenation as it is.
LEMMA HeadMoves ==
    ASSUME NEW S, NEW s \in Seq(S), NEW t \in Seq(S), t # << >>
    PROVE  Append(s, Head(t)) \o Tail(t) = s \o t
<1>1. Head(t) \in S /\ Tail(t) \in Seq(S) /\ Append(s, Head(t)) \in Seq(S)
  BY HeadTailProperties, AppendProperties
<1>2. Append(s, Head(t)) = s \o <<Head(t)>> /\ <<Head(t)>> \in Seq(S)
  BY <1>1, AppendIsConcat
<1>3. (s \o <<Head(t)>>) \o Tail(t) = s \o (<<Head(t)>> \o Tail(t))
  BY <1>1, <1>2, ConcatAssociative
<1>4. <<Head(t)>> \o Tail(t) = t
  BY <1>1
<1> QED BY <1>2, <1>3, <1>4

\* So it does behind what has gone before.
LEMMA HeadMovesAfter ==
    \A r, s, t \in Seq(Message) :
      t # << >> => r \o Append(s, Head(t)) \o Tail(t) = r \o s \o t
<1> DEFINE S == Message
<1> SUFFICES ASSUME NEW r \in Seq(S), NEW s \in Seq(S), NEW t \in Seq(S), t # << >>
             PROVE  r \o Append(s, Head(t)) \o Tail(t) = r \o s \o t
  OBVIOUS
<1> HIDE DEF S
<1>1. \A x, y, z \in Seq(S) : x \o y \o z = x \o (y \o z)
  <2> TAKE x, y, z \in Seq(S)
  <2> QED BY ConcatAssociative
<1>2. Append(s, Head(t)) \in Seq(S) /\ Tail(t) \in Seq(S)
  BY HeadTailProperties, AppendProperties
<1>3. r \o Append(s, Head(t)) \o Tail(t) = r \o (Append(s, Head(t)) \o Tail(t))
  BY <1>1, <1>2, Zenon
<1>4. r \o s \o t = r \o (s \o t)
  BY <1>1, Zenon
<1>5. Append(s, Head(t)) \o Tail(t) = s \o t
  BY HeadMoves
<1> QED BY <1>3, <1>4, <1>5, Zenon

\* The stream t is the stream s with the message m at its end.
Adds(s, t, m) ==
    /\ Len(t) = Len(s) + 1
    /\ t[Len(s) + 1] = m
    /\ \A i \in 1 .. Len(s) : t[i] = s[i]

\* The stream t is what is left of the stream s when its end is cut off.
Cut(s, t) ==
    /\ Len(t) <= Len(s)
    /\ \A i \in 1 .. Len(t) : t[i] = s[i]

\* The queue is the end of the stream.
LEMMA QueueIsTheEnd ==
    ASSUME NEW a \in Seq(Message), NEW b \in Seq(Message), NEW q \in Seq(Message)
    PROVE  /\ a \o b \o q \in Seq(Message)
           /\ \A m \in Message : Adds(a \o b \o q, a \o b \o Append(q, m), m)
           /\ Cut(a \o b \o q, a \o b \o << >>)
<1> DEFINE p == a \o b
<1>1. p \in Seq(Message) /\ p \o q \in Seq(Message) /\ p \o << >> = p
  BY ConcatProperties, ConcatEmptySeq
<1>2. /\ Len(p \o q) = Len(p) + Len(q)
      /\ \A i \in 1 .. Len(p) + Len(q) : (p \o q)[i] = IF i <= Len(p) THEN p[i] ELSE q[i - Len(p)]
      /\ Len(p) \in Nat /\ Len(q) \in Nat
  BY <1>1, ConcatProperties, LenProperties
<1> HIDE DEF p
<1>3. ASSUME NEW m \in Message PROVE Adds(p \o q, p \o Append(q, m), m)
  <2> DEFINE t == Append(q, m)
  <2>1. /\ t \in Seq(Message) /\ Len(t) = Len(q) + 1
        /\ \A i \in 1 .. Len(q) : t[i] = q[i]
        /\ t[Len(q) + 1] = m
    BY AppendProperties
  <2>2. /\ Len(p \o t) = Len(p) + Len(t)
        /\ \A i \in 1 .. Len(p) + Len(t) : (p \o t)[i] = IF i <= Len(p) THEN p[i] ELSE t[i - Len(p)]
    BY <1>1, <2>1, ConcatProperties
  <2> HIDE DEF t
  <2>3. ASSUME NEW i \in 1 .. Len(p \o q) PROVE (p \o t)[i] = (p \o q)[i]
    <3>1. CASE i <= Len(p)
      BY <1>2, <2>1, <2>2, <3>1
    <3>2. CASE i > Len(p)
      <4>1. i - Len(p) \in 1 .. Len(q)
        BY <1>2, <3>2
      <4> QED BY <1>2, <2>1, <2>2, <3>2, <4>1
    <3>3. Len(p) \in Int /\ Len(p \o q) \in Int
      BY <1>2
    <3>4. i \in Int
      BY <3>3
    <3>5. i <= Len(p) \/ i > Len(p)
      BY <3>3, <3>4
    <3> QED BY <3>1, <3>2, <3>5
  <2>4. (p \o t)[Len(p \o q) + 1] = m
    BY <1>2, <2>1, <2>2
  <2>5. Len(p \o t) = Len(p \o q) + 1
    BY <1>2, <2>1, <2>2
  <2> QED BY <2>3, <2>4, <2>5 DEF Adds, t
<1>4. Cut(p \o q, p)
  BY <1>2 DEF Cut
<1> QED BY <1>1, <1>3, <1>4 DEF p

-----------------------------------------------------------------------------
(* What a stream may hold.                                                 *)

\* The events of s come after base, up to last, each after those before it.
Rising(s, base, last) ==
    \A i \in 1 .. Len(s) : IsEvent(s[i]) =>
      /\ base < s[i].at /\ s[i].at <= last
      /\ \A j \in 1 .. i - 1 : IsEvent(s[j]) => s[j].at < s[i].at

\* No event is missing from s before one that is there.
Gapless(s, base) ==
    \A i \in 1 .. Len(s) : IsEvent(s[i]) =>
      \A n \in base + 1 .. s[i].at - 1 : \E j \in 1 .. i - 1 : s[j] = Event(n)

Holds(s, n) == \E i \in 1 .. Len(s) : s[i] = Event(n)
HoldsTo(s, base, last) == \A n \in base + 1 .. last : Holds(s, n)

\* A stream that is cut keeps its order and has no new gap.
LEMMA CutKeepsOrder ==
    ASSUME NEW s \in Seq(Message), NEW t \in Seq(Message), Cut(s, t), NEW base, NEW last
    PROVE  /\ Rising(s, base, last) => Rising(t, base, last)
           /\ Gapless(s, base) => Gapless(t, base)
<1>1. Len(s) \in Nat /\ Len(t) \in Nat
  BY LenProperties
<1>2. ASSUME NEW i \in 1 .. Len(t)
      PROVE  /\ i \in 1 .. Len(s) /\ t[i] = s[i]
             /\ \A j \in 1 .. i - 1 : t[j] = s[j]
  BY <1>1 DEF Cut
<1>3. Rising(s, base, last) => Rising(t, base, last)
  BY <1>2 DEF Rising
<1>4. Gapless(s, base) => Gapless(t, base)
  BY <1>2 DEF Gapless
<1> QED BY <1>3, <1>4

\* The next event goes to the end of a stream that has all events before it.
LEMMA NextEventFits ==
    ASSUME NEW s \in Seq(Message), NEW t \in Seq(Message),
           NEW base \in Nat, NEW last \in Nat, base <= last,
           Adds(s, t, Event(last + 1)), Rising(s, base, last)
    PROVE  /\ Rising(t, base, last + 1)
           /\ Gapless(s, base) /\ HoldsTo(s, base, last)
                => Gapless(t, base) /\ HoldsTo(t, base, last + 1)
<1> DEFINE n == Len(s) + 1
<1>1. /\ Len(s) \in Nat /\ Len(t) = n /\ t[n] = Event(last + 1)
      /\ \A i \in 1 .. Len(s) : t[i] = s[i] /\ s[i].at \in Int
      /\ \A i \in 1 .. n : i # n => i \in 1 .. Len(s)
  <2>1. Len(s) \in Nat /\ \A i \in 1 .. Len(s) : s[i] \in Message
    BY LenProperties, ElementOfSeq
  <2>2. \A m \in Message : m.at \in Int
    BY DEF Message
  <2> QED BY <2>1, <2>2 DEF Adds
<1>2. IsEvent(Event(last + 1)) /\ Event(last + 1).at = last + 1
  BY DEF IsEvent, Event
<1> HIDE DEF n
<1>3. ASSUME NEW i \in 1 .. Len(t), IsEvent(t[i])
      PROVE  /\ base < t[i].at /\ t[i].at <= last + 1
             /\ \A j \in 1 .. i - 1 : IsEvent(t[j]) => t[j].at < t[i].at
  <2>1. CASE i = n
    <3>1. ASSUME NEW j \in 1 .. i - 1, IsEvent(t[j]) PROVE t[j].at < t[i].at
      <4>1. j \in 1 .. Len(s) /\ t[j] = s[j] /\ s[j].at \in Int
        BY <1>1, <2>1 DEF n
      <4>2. s[j].at <= last
        BY <3>1, <4>1 DEF Rising
      <4> QED BY <1>1, <1>2, <2>1, <4>1, <4>2
    <3> QED BY <1>1, <1>2, <2>1, <3>1
  <2>2. CASE i # n
    <3>1. i \in 1 .. Len(s) /\ t[i] = s[i] /\ \A j \in 1 .. i - 1 : t[j] = s[j]
      BY <1>1, <2>2
    <3> QED BY <1>1, <1>3, <3>1 DEF Rising
  <2> QED BY <2>1, <2>2
<1>4. ASSUME Gapless(s, base), HoldsTo(s, base, last),
             NEW i \in 1 .. Len(t), IsEvent(t[i]), NEW m \in base + 1 .. t[i].at - 1
      PROVE  \E j \in 1 .. i - 1 : t[j] = Event(m)
  <2>1. CASE i = n
    <3>1. m \in base + 1 .. last
      BY <1>1, <1>2, <1>4, <2>1
    <3>2. PICK j \in 1 .. Len(s) : s[j] = Event(m)
      BY <1>4, <3>1 DEF HoldsTo, Holds
    <3> QED BY <1>1, <2>1, <3>2 DEF n
  <2>2. CASE i # n
    <3>1. i \in 1 .. Len(s) /\ t[i] = s[i] /\ \A j \in 1 .. i - 1 : t[j] = s[j]
      BY <1>1, <2>2
    <3> QED BY <1>4, <3>1 DEF Gapless
  <2> QED BY <2>1, <2>2
<1>5. ASSUME HoldsTo(s, base, last), NEW m \in base + 1 .. last + 1 PROVE Holds(t, m)
  <2>1. CASE m = last + 1
    BY <1>1, <2>1 DEF Holds, n
  <2>2. CASE m # last + 1
    <3>1. m \in base + 1 .. last
      BY <2>2
    <3>2. PICK j \in 1 .. Len(s) : s[j] = Event(m)
      BY <1>5, <3>1 DEF HoldsTo, Holds
    <3> QED BY <1>1, <3>2 DEF Holds, n
  <2> QED BY <2>1, <2>2
<1>6. Rising(t, base, last + 1)
  BY <1>3 DEF Rising
<1>7. Gapless(s, base) /\ HoldsTo(s, base, last) => Gapless(t, base) /\ HoldsTo(t, base, last + 1)
  BY <1>4, <1>5 DEF Gapless, HoldsTo
<1> QED BY <1>6, <1>7

\* A snapshot at the end of a stream changes nothing for its events.
LEMMA SnapshotFits ==
    ASSUME NEW s \in Seq(Message), NEW t \in Seq(Message), NEW at,
           Adds(s, t, Snapshot(at)), NEW base, NEW last
    PROVE  /\ Rising(s, base, last) => Rising(t, base, last)
           /\ Gapless(s, base) => Gapless(t, base)
           /\ HoldsTo(s, base, last) => HoldsTo(t, base, last)
<1>1. /\ Len(s) \in Nat /\ Len(t) = Len(s) + 1 /\ ~IsEvent(t[Len(s) + 1])
      /\ \A i \in 1 .. Len(s) : t[i] = s[i]
  BY LenProperties DEF Adds, Snapshot, IsEvent
<1>2. ASSUME NEW i \in 1 .. Len(t), IsEvent(t[i])
      PROVE  i \in 1 .. Len(s) /\ t[i] = s[i] /\ \A j \in 1 .. i - 1 : t[j] = s[j]
  <2>1. i # Len(s) + 1
    BY <1>1, <1>2
  <2> QED BY <1>1, <2>1
<1>3. Rising(s, base, last) => Rising(t, base, last)
  BY <1>2 DEF Rising
<1>4. Gapless(s, base) => Gapless(t, base)
  BY <1>2 DEF Gapless
<1>5. HoldsTo(s, base, last) => HoldsTo(t, base, last)
  <2>1. ASSUME NEW n, Holds(s, n) PROVE Holds(t, n)
    BY <1>1, <2>1 DEF Holds
  <2> QED BY <2>1 DEF HoldsTo
<1> QED BY <1>3, <1>4, <1>5

-----------------------------------------------------------------------------
(* The invariant.                                                          *)

USE FanoutAssumption

\* A connection: its events are in order and come from what its receiver
\* consumed; as long as the forwarder and the writer run and the receiver did
\* not lag, they are all that it consumed.  A connection whose client is there
\* and which is not about to be cut has both tasks.
Connection(c) ==
    /\ snapshot[c] <= cursor[c] /\ cursor[c] <= version
    /\ phase[c] \in {"idle", "backlog"} => taken[c] = << >> /\ wire[c] = << >> /\ queue[c] = << >>
    /\ phase[c] \in {"idle", "backlog", "closed"} => ~forwarding[c] /\ ~writing[c]
    /\ ~writing[c] => queue[c] = << >>
    /\ Rising(Stream(c), snapshot[c], cursor[c])
    /\ ~lagged[c] => Gapless(Stream(c), snapshot[c])
    /\ forwarding[c] /\ writing[c] /\ ~lagged[c] => HoldsTo(Stream(c), snapshot[c], cursor[c])
    /\ phase[c] = "open" /\ ~gone[c] /\ ~overflowed[c] => forwarding[c] /\ writing[c]

FanoutInv == TypeOK /\ \A c \in Clients : Connection(c)

\* Nothing of a connection changes.
Untouched(c) ==
    /\ phase'[c] = phase[c] /\ snapshot'[c] = snapshot[c] /\ cursor'[c] = cursor[c]
    /\ forwarding'[c] = forwarding[c] /\ writing'[c] = writing[c]
    /\ overflowed'[c] = overflowed[c] /\ lagged'[c] = lagged[c]
    /\ queue'[c] = queue[c] /\ wire'[c] = wire[c] /\ taken'[c] = taken[c] /\ gone'[c] = gone[c]

\* A stream is a sequence of messages.
LEMMA StreamIsTyped ==
    ASSUME TypeOK, NEW c \in Clients
    PROVE  Stream(c) \in Seq(Message)
<1>1. taken[c] \in Seq(Message) /\ wire[c] \in Seq(Message) /\ queue[c] \in Seq(Message)
  BY DEF TypeOK
<1> QED BY <1>1, QueueIsTheEnd DEF Stream

\* Nothing sent is an empty stream.
LEMMA NothingSent == << >> \o << >> \o << >> = << >> /\ Len(<< >>) = 0
<1>1. << >> \in Seq(Message) /\ Len(<< >>) = 0
  BY EmptySeq
<1> QED BY <1>1, ConcatEmptySeq

\* A step of one connection leaves the others as they are.
LEMMA OneConnectionMoves ==
    ASSUME FanoutInv, TypeOK', version' = version, NEW c \in Clients, Connection(c)',
           \A d \in Clients \ {c} : Untouched(d)
    PROVE  FanoutInv'
<1>1. ASSUME NEW d \in Clients, d # c PROVE Connection(d)'
  BY <1>1 DEF FanoutInv, Connection, Untouched, Stream
<1> QED BY <1>1 DEF FanoutInv

\* Events, and what may be missed of them, stay above the base when the
\* receiver moves on without sending.
LEMMA RisingGoesOn ==
    ASSUME NEW s \in Seq(Message), NEW base, NEW last \in Int, NEW next \in Int, last <= next,
           Rising(s, base, last)
    PROVE  Rising(s, base, next)
<1>1. \A i \in 1 .. Len(s) : s[i].at \in Int
  <2>1. Len(s) \in Nat /\ \A i \in 1 .. Len(s) : s[i] \in Message
    BY LenProperties, ElementOfSeq
  <2> QED BY <2>1 DEF Message
<1> QED BY <1>1 DEF Rising

\* The daemon's loop.
LEMMA EventsKeep ==
    ASSUME FanoutInv, ApplyEvent
    PROVE  FanoutInv'
<1>1. TypeOK'
  BY DEF FanoutInv, TypeOK, ApplyEvent, serverVars
<1>2. ASSUME NEW c \in Clients PROVE Connection(c)'
  <2>1. Connection(c) /\ version \in Nat /\ cursor[c] \in Nat
    BY DEF FanoutInv, TypeOK
  <2>2. version' = version + 1 /\ Stream(c)' = Stream(c)
    BY DEF ApplyEvent, Stream
  <2> QED BY <2>1, <2>2 DEF Connection, ApplyEvent, serverVars
<1> QED BY <1>1, <1>2 DEF FanoutInv

LEMMA AcceptKeeps ==
    ASSUME FanoutInv, NEW c \in Clients, Accept(c) \/ Drop(c)
    PROVE  FanoutInv'
<1>1. TypeOK /\ Connection(c) /\ version \in Nat
  BY DEF FanoutInv, TypeOK
<1>2. TypeOK' /\ version' = version /\ \A d \in Clients \ {c} : Untouched(d)
  <2>1. CASE Accept(c)
    BY <1>1, <2>1 DEF TypeOK, Accept, Untouched
  <2>2. CASE Drop(c)
    BY <1>1, <2>2 DEF TypeOK, Drop, Untouched
  <2> QED BY <2>1, <2>2
<1>3. /\ taken'[c] = << >> /\ wire'[c] = << >> /\ queue'[c] = << >>
      /\ phase[c] = "backlog" /\ ~forwarding[c] /\ ~writing[c]
  BY <1>1 DEF Connection, Accept, Drop
<1>4. Len(Stream(c)') = 0
  <2>1. Stream(c)' = << >> \o << >> \o << >>
    BY <1>3 DEF Stream
  <2> QED BY <2>1, NothingSent
<1>5. \A base, last : Rising(Stream(c)', base, last) /\ Gapless(Stream(c)', base)
  BY <1>4 DEF Rising, Gapless
<1>6. Connection(c)'
  <2>1. CASE Accept(c)
    <3>1. /\ phase'[c] = "open" /\ snapshot'[c] = version /\ cursor'[c] = version
          /\ forwarding'[c] /\ writing'[c]
      BY <1>1, <2>1 DEF Accept, TypeOK
    <3>2. HoldsTo(Stream(c)', snapshot'[c], cursor'[c])
      BY <1>1, <3>1 DEF HoldsTo
    <3> QED BY <1>1, <1>2, <1>3, <1>5, <3>1, <3>2 DEF Connection
  <2>2. CASE Drop(c)
    <3>1. /\ phase'[c] = "closed"
          /\ UNCHANGED <<snapshot, cursor, forwarding, writing>>
      BY <1>1, <2>2 DEF Drop, TypeOK
    <3> QED BY <1>1, <1>2, <1>3, <1>5, <3>1 DEF Connection
  <2> QED BY <2>1, <2>2
<1> QED BY <1>1, <1>2, <1>6, OneConnectionMoves
\* The forwarder.
LEMMA ForwarderKeeps ==
    ASSUME FanoutInv, NEW c \in Clients,
           Lag(c) \/ Forward(c) \/ Overflow(c) \/ ForwarderEnds(c)
    PROVE  FanoutInv'
<1>1. /\ TypeOK /\ Connection(c) /\ version \in 0 .. MaxEvents /\ MaxEvents \in Nat
      /\ snapshot[c] \in Nat /\ cursor[c] \in Nat /\ RingSize \in Nat \ {0}
      /\ taken[c] \in Seq(Message) /\ wire[c] \in Seq(Message) /\ queue[c] \in Seq(Message)
  BY DEF FanoutInv, TypeOK
<1>2. HasNews(c) /\ forwarding[c] /\ cursor[c] < version
  BY DEF Lag, Forward, Overflow, ForwarderEnds, Consume, HasNews
<1>3. phase[c] \notin {"idle", "backlog", "closed"}
  BY <1>1, <1>2 DEF Connection
<1>4. Stream(c) \in Seq(Message)
  BY <1>1, StreamIsTyped
<1>5. CASE Lag(c)
  <2>1. /\ cursor' = [cursor EXCEPT ![c] = Forgotten] /\ lagged' = [lagged EXCEPT ![c] = TRUE]
        /\ UNCHANGED <<version, phase, snapshot, forwarding, writing, overflowed,
                       queue, wire, hello, taken, gone>>
        /\ cursor[c] < Forgotten
    BY <1>5 DEF Lag
  <2>2. Forgotten \in 0 .. version
    BY <1>1 DEF Forgotten
  <2>3. TypeOK' /\ \A d \in Clients \ {c} : Untouched(d)
    <3>1. cursor' \in [Clients -> 0 .. MaxEvents] /\ lagged' \in [Clients -> BOOLEAN]
      BY <1>1, <2>1, <2>2 DEF TypeOK
    <3> QED BY <1>1, <2>1, <3>1 DEF TypeOK, Untouched
  <2>4. Rising(Stream(c), snapshot[c], Forgotten)
    BY <1>1, <1>4, <2>1, <2>2, RisingGoesOn DEF Connection
  <2>5. Stream(c)' = Stream(c) /\ cursor'[c] = Forgotten /\ lagged'[c]
    BY <1>1, <2>1 DEF Stream, TypeOK
  <2>6. Connection(c)'
    BY <1>1, <2>1, <2>2, <2>4, <2>5 DEF Connection
  <2> QED BY <2>1, <2>3, <2>6, OneConnectionMoves
<1>6. ASSUME Consume(c) PROVE cursor' = [cursor EXCEPT ![c] = cursor[c] + 1] /\ cursor'[c] = cursor[c] + 1
                              /\ cursor' \in [Clients -> 0 .. MaxEvents]
  BY <1>1, <1>2, <1>6 DEF Consume, TypeOK
<1>7. Rising(Stream(c), snapshot[c], cursor[c] + 1)
  BY <1>1, <1>4, RisingGoesOn DEF Connection
<1>8. CASE Forward(c)
  <2> DEFINE m == Event(cursor[c] + 1)
  <2>1. /\ queue' = [queue EXCEPT ![c] = Append(queue[c], m)]
        /\ UNCHANGED <<version, phase, snapshot, forwarding, writing, overflowed, lagged,
                       wire, hello, taken, gone>>
        /\ writing[c] /\ Len(queue[c]) < QueueSize
        /\ Consume(c)
    BY <1>8 DEF Forward
  <2>2. m \in Message
    BY <1>1, <1>2 DEF Event, Message
  <2>3. /\ queue'[c] = Append(queue[c], m) /\ queue'[c] \in Seq(Message)
        /\ Len(queue'[c]) = Len(queue[c]) + 1
    BY <1>1, <2>1, <2>2, AppendProperties DEF TypeOK
  <2>4. TypeOK' /\ \A d \in Clients \ {c} : Untouched(d)
    <3>1. queue' \in [Clients -> Seq(Message)] /\ \A d \in Clients : Len(queue'[d]) <= QueueSize
      <4>1. Len(queue[c]) \in Nat /\ QueueSize \in Nat
        BY <1>1, LenProperties
      <4>2. Len(queue'[c]) <= QueueSize
        BY <2>1, <2>3, <4>1
      <4>3. \A d \in Clients : d # c => queue'[d] = queue[d]
        BY <1>1, <2>1 DEF TypeOK
      <4> HIDE DEF m
      <4> QED BY <1>1, <2>1, <2>3, <4>2, <4>3 DEF TypeOK
    <3>2. \A d \in Clients \ {c} : Untouched(d)
      BY <1>1, <1>6, <2>1 DEF TypeOK, Untouched
    <3> QED BY <1>1, <1>6, <2>1, <3>1, <3>2 DEF TypeOK
  <2>5. Adds(Stream(c), Stream(c)', m)
    BY <1>1, <2>1, <2>2, <2>3, QueueIsTheEnd DEF Stream
  <2>6. Stream(c)' \in Seq(Message)
    BY <1>1, <2>1, <2>3, QueueIsTheEnd DEF Stream
  <2>7. /\ Rising(Stream(c)', snapshot[c], cursor[c] + 1)
        /\ Gapless(Stream(c), snapshot[c]) /\ HoldsTo(Stream(c), snapshot[c], cursor[c])
             => Gapless(Stream(c)', snapshot[c]) /\ HoldsTo(Stream(c)', snapshot[c], cursor[c] + 1)
    BY <1>1, <1>4, <2>5, <2>6, NextEventFits DEF Connection
  <2>8. ~lagged[c] => Gapless(Stream(c), snapshot[c]) /\ HoldsTo(Stream(c), snapshot[c], cursor[c])
    BY <1>1, <1>2, <2>1 DEF Connection
  <2>9. Connection(c)'
    BY <1>1, <1>2, <1>3, <1>6, <2>1, <2>7, <2>8 DEF Connection
  <2> QED BY <2>1, <2>4, <2>9, OneConnectionMoves
<1>9. CASE Overflow(c)
  <2>1. /\ overflowed' = [overflowed EXCEPT ![c] = TRUE]
        /\ forwarding' = [forwarding EXCEPT ![c] = FALSE]
        /\ UNCHANGED <<version, phase, snapshot, writing, lagged, queue, wire, hello, taken, gone>>
        /\ Consume(c)
    BY <1>9 DEF Overflow
  <2>2. TypeOK' /\ \A d \in Clients \ {c} : Untouched(d)
    BY <1>1, <1>6, <2>1 DEF TypeOK, Untouched
  <2>3. Stream(c)' = Stream(c) /\ overflowed'[c] /\ ~forwarding'[c]
    BY <1>1, <2>1 DEF Stream, TypeOK
  <2>4. Connection(c)'
    BY <1>1, <1>2, <1>3, <1>6, <1>7, <2>1, <2>3 DEF Connection
  <2> QED BY <2>1, <2>2, <2>4, OneConnectionMoves
<1>10. CASE ForwarderEnds(c)
  <2>1. /\ forwarding' = [forwarding EXCEPT ![c] = FALSE] /\ ~writing[c]
        /\ UNCHANGED <<version, phase, snapshot, writing, overflowed, lagged,
                       queue, wire, hello, taken, gone>>
        /\ Consume(c)
    BY <1>10 DEF ForwarderEnds
  <2>2. TypeOK' /\ \A d \in Clients \ {c} : Untouched(d)
    BY <1>1, <1>6, <2>1 DEF TypeOK, Untouched
  <2>3. Stream(c)' = Stream(c) /\ ~forwarding'[c]
    BY <1>1, <2>1 DEF Stream, TypeOK
  <2>4. Connection(c)'
    BY <1>1, <1>2, <1>3, <1>6, <1>7, <2>1, <2>3 DEF Connection
  <2> QED BY <2>1, <2>2, <2>4, OneConnectionMoves
<1> QED BY <1>5, <1>8, <1>9, <1>10

\* The writer.
LEMMA WriterKeeps ==
    ASSUME FanoutInv, NEW c \in Clients, Write(c) \/ WriteFails(c)
    PROVE  FanoutInv'
<1>1. /\ TypeOK /\ Connection(c) /\ WireSize \in Nat \ {0}
      /\ taken[c] \in Seq(Message) /\ wire[c] \in Seq(Message) /\ queue[c] \in Seq(Message)
  BY DEF FanoutInv, TypeOK
<1>2. writing[c] /\ queue[c] # << >> /\ phase[c] \notin {"idle", "backlog", "closed"}
  BY <1>1 DEF Write, WriteFails, Connection
<1>3. CASE Write(c)
  <2>1. /\ wire' = [wire EXCEPT ![c] = Append(wire[c], Head(queue[c]))]
        /\ queue' = [queue EXCEPT ![c] = Tail(queue[c])]
        /\ UNCHANGED <<version, serverVars, hello, taken, gone>>
        /\ Len(wire[c]) < WireSize
    BY <1>3 DEF Write
  <2>2. /\ wire'[c] = Append(wire[c], Head(queue[c])) /\ queue'[c] = Tail(queue[c])
        /\ \A d \in Clients : d # c => wire'[d] = wire[d] /\ queue'[d] = queue[d]
    BY <1>1, <2>1 DEF TypeOK
  <2>3. /\ Head(queue[c]) \in Message /\ Tail(queue[c]) \in Seq(Message)
        /\ Len(Tail(queue[c])) = Len(queue[c]) - 1
    BY <1>1, <1>2, HeadTailProperties
  <2>4. wire'[c] \in Seq(Message) /\ Len(wire'[c]) = Len(wire[c]) + 1
    BY <1>1, <2>2, <2>3, AppendProperties
  <2>5. Len(wire'[c]) <= WireSize /\ Len(queue'[c]) <= QueueSize
    <3>1. Len(wire[c]) \in Nat /\ Len(queue[c]) \in Nat /\ QueueSize \in Nat
          /\ Len(queue[c]) <= QueueSize
      BY <1>1, LenProperties DEF TypeOK
    <3> QED BY <1>1, <2>1, <2>2, <2>3, <2>4, <3>1
  <2>6. TypeOK' /\ \A d \in Clients \ {c} : Untouched(d)
    <3>1. wire' \in [Clients -> Seq(Message)] /\ queue' \in [Clients -> Seq(Message)]
      BY <1>1, <2>1, <2>2, <2>3, <2>4 DEF TypeOK
    <3>2. \A d \in Clients : Len(queue'[d]) <= QueueSize /\ Len(wire'[d]) <= WireSize
      BY <1>1, <2>2, <2>5 DEF TypeOK
    <3> QED BY <1>1, <2>1, <2>2, <3>1, <3>2 DEF TypeOK, Untouched, serverVars
  <2>7. Stream(c)' = Stream(c)
    <3>1. Stream(c)' = taken[c] \o Append(wire[c], Head(queue[c])) \o Tail(queue[c])
      BY <2>1, <2>2 DEF Stream
    <3>2. Stream(c) = taken[c] \o wire[c] \o queue[c]
      BY DEF Stream
    <3>3. taken[c] \o Append(wire[c], Head(queue[c])) \o Tail(queue[c])
            = taken[c] \o wire[c] \o queue[c]
      BY <1>1, <1>2, HeadMovesAfter, Zenon
    <3> QED BY <3>1, <3>2, <3>3, Zenon
  <2>8. Connection(c)'
    BY <1>1, <1>2, <2>1, <2>7 DEF Connection, serverVars
  <2> QED BY <2>1, <2>6, <2>8, OneConnectionMoves DEF serverVars
<1>4. CASE WriteFails(c)
  <2>1. /\ writing' = [writing EXCEPT ![c] = FALSE]
        /\ queue' = [queue EXCEPT ![c] = << >>]
        /\ UNCHANGED <<version, phase, snapshot, cursor, forwarding, overflowed, lagged,
                       wire, hello, taken, gone>>
        /\ gone[c]
    BY <1>4 DEF WriteFails
  <2>2. writing'[c] = FALSE /\ queue'[c] = << >>
        /\ \A d \in Clients : d # c => writing'[d] = writing[d] /\ queue'[d] = queue[d]
    BY <1>1, <2>1 DEF TypeOK
  <2>3. << >> \in Seq(Message) /\ Len(<< >>) = 0 /\ QueueSize \in Nat
    BY EmptySeq
  <2>4. TypeOK' /\ \A d \in Clients \ {c} : Untouched(d)
    <3>1. queue' \in [Clients -> Seq(Message)] /\ writing' \in [Clients -> BOOLEAN]
          /\ \A d \in Clients : Len(queue'[d]) <= QueueSize
      BY <1>1, <2>1, <2>2, <2>3 DEF TypeOK
    <3> QED BY <1>1, <2>1, <2>2, <3>1 DEF TypeOK, Untouched
  <2>5. Cut(Stream(c), Stream(c)')
    BY <1>1, <2>1, <2>2, QueueIsTheEnd DEF Stream
  <2>6. Connection(c)'
    <3>1. Stream(c) \in Seq(Message) /\ Stream(c)' \in Seq(Message)
      BY <1>1, <2>1, <2>2, <2>3, QueueIsTheEnd DEF Stream
    <3> QED BY <1>1, <1>2, <2>1, <2>2, <2>5, <3>1, CutKeepsOrder DEF Connection
  <2> QED BY <2>1, <2>4, <2>6, OneConnectionMoves
<1> QED BY <1>3, <1>4
\* The read loop.
LEMMA ReaderKeeps ==
    ASSUME FanoutInv, NEW c \in Clients, AnswerHello(c) \/ ReadEnds(c) \/ ReadFails(c)
    PROVE  FanoutInv'
<1>1. /\ TypeOK /\ Connection(c) /\ phase[c] = "open"
      /\ taken[c] \in Seq(Message) /\ wire[c] \in Seq(Message) /\ queue[c] \in Seq(Message)
      /\ Stream(c) \in Seq(Message)
  BY StreamIsTyped DEF FanoutInv, TypeOK, AnswerHello, ReadEnds, ReadFails
<1>2. CASE AnswerHello(c)
  <2>1. /\ hello' = [hello EXCEPT ![c] = "answered"]
        /\ UNCHANGED <<version, serverVars, wire, taken, gone>>
    BY <1>2 DEF AnswerHello
  <2>2. CASE writing[c] /\ Len(queue[c]) < QueueSize
    <3> DEFINE m == Snapshot(snapshot[c])
    <3>1. m \in Message
      BY <1>1 DEF Snapshot, Message, TypeOK
    <3>2. /\ queue' = [queue EXCEPT ![c] = Append(queue[c], m)]
          /\ queue'[c] = Append(queue[c], m)
          /\ \A d \in Clients : d # c => queue'[d] = queue[d]
      BY <1>1, <1>2, <2>2 DEF AnswerHello, TypeOK
    <3>3. queue'[c] \in Seq(Message) /\ Len(queue'[c]) = Len(queue[c]) + 1
      BY <1>1, <3>1, <3>2, AppendProperties
    <3>4. TypeOK' /\ \A d \in Clients \ {c} : Untouched(d)
      <4>1. Len(queue'[c]) <= QueueSize
        <5>1. Len(queue[c]) \in Nat /\ QueueSize \in Nat
          BY <1>1, LenProperties
        <5> QED BY <2>2, <3>3, <5>1
      <4>2. queue' \in [Clients -> Seq(Message)] /\ \A d \in Clients : Len(queue'[d]) <= QueueSize
        <5> HIDE DEF m
        <5> QED BY <1>1, <3>2, <3>3, <4>1 DEF TypeOK
      <4>3. hello' \in [Clients -> {"unsent", "sent", "answered"}]
        BY <1>1, <2>1 DEF TypeOK
      <4> QED BY <1>1, <2>1, <3>2, <4>2, <4>3 DEF TypeOK, Untouched, serverVars
    <3>5. Adds(Stream(c), Stream(c)', m)
      BY <1>1, <2>1, <3>1, <3>2, QueueIsTheEnd DEF Stream
    <3>6. Stream(c)' \in Seq(Message)
      BY <1>1, <2>1, <3>3, QueueIsTheEnd DEF Stream
    <3>7. Connection(c)'
      <4>1. \A base, last :
              /\ Rising(Stream(c), base, last) => Rising(Stream(c)', base, last)
              /\ Gapless(Stream(c), base) => Gapless(Stream(c)', base)
              /\ HoldsTo(Stream(c), base, last) => HoldsTo(Stream(c)', base, last)
        BY <1>1, <3>5, <3>6, SnapshotFits
      <4> QED BY <1>1, <2>1, <2>2, <4>1 DEF Connection, serverVars
    <3> QED BY <2>1, <3>4, <3>7, OneConnectionMoves DEF serverVars
  <2>3. CASE ~(writing[c] /\ Len(queue[c]) < QueueSize)
    <3>1. queue' = queue
      BY <1>2, <2>3 DEF AnswerHello
    <3>2. TypeOK' /\ \A d \in Clients \ {c} : Untouched(d)
      BY <1>1, <2>1, <3>1 DEF TypeOK, Untouched, serverVars
    <3>3. Connection(c)'
      BY <1>1, <2>1, <3>1 DEF Connection, Stream, serverVars
    <3> QED BY <2>1, <3>2, <3>3, OneConnectionMoves DEF serverVars
  <2> QED BY <2>2, <2>3
<1>3. CASE ReadEnds(c)
  <2>1. /\ phase' = [phase EXCEPT ![c] = "closed"]
        /\ forwarding' = [forwarding EXCEPT ![c] = FALSE]
        /\ writing' = [writing EXCEPT ![c] = FALSE]
        /\ queue' = [queue EXCEPT ![c] = << >>]
        /\ UNCHANGED <<version, snapshot, cursor, overflowed, lagged, wire, hello, taken, gone>>
    BY <1>3 DEF ReadEnds
  <2>2. /\ phase'[c] = "closed" /\ ~forwarding'[c] /\ ~writing'[c] /\ queue'[c] = << >>
        /\ \A d \in Clients : d # c => queue'[d] = queue[d]
    BY <1>1, <2>1 DEF TypeOK
  <2>3. << >> \in Seq(Message) /\ Len(<< >>) = 0 /\ QueueSize \in Nat
    BY EmptySeq
  <2>4. TypeOK' /\ \A d \in Clients \ {c} : Untouched(d)
    <3>1. queue' \in [Clients -> Seq(Message)] /\ \A d \in Clients : Len(queue'[d]) <= QueueSize
      BY <1>1, <2>1, <2>2, <2>3 DEF TypeOK
    <3> QED BY <1>1, <2>1, <3>1 DEF TypeOK, Untouched
  <2>5. Cut(Stream(c), Stream(c)') /\ Stream(c)' \in Seq(Message)
    BY <1>1, <2>1, <2>2, <2>3, QueueIsTheEnd DEF Stream
  <2>6. Connection(c)'
    BY <1>1, <2>1, <2>2, <2>5, CutKeepsOrder DEF Connection
  <2> QED BY <2>1, <2>4, <2>6, OneConnectionMoves
<1>4. CASE ReadFails(c)
  <2>1. /\ phase' = [phase EXCEPT ![c] = "failed"]
        /\ UNCHANGED <<version, snapshot, cursor, forwarding, writing, overflowed, lagged,
                       queue, wire, hello, taken, gone>>
    BY <1>4 DEF ReadFails
  <2>2. TypeOK' /\ phase'[c] = "failed" /\ \A d \in Clients \ {c} : Untouched(d)
    BY <1>1, <2>1 DEF TypeOK, Untouched
  <2>3. Connection(c)'
    BY <1>1, <2>1, <2>2 DEF Connection, Stream
  <2> QED BY <2>1, <2>2, <2>3, OneConnectionMoves
<1> QED BY <1>2, <1>3, <1>4

\* The client.
LEMMA ClientKeeps ==
    ASSUME FanoutInv, NEW c \in Clients, Use(c)
    PROVE  FanoutInv'
<1>1. /\ TypeOK /\ Connection(c)
      /\ taken[c] \in Seq(Message) /\ wire[c] \in Seq(Message) /\ queue[c] \in Seq(Message)
  BY DEF FanoutInv, TypeOK
<1>2. CASE Connect(c)
  <2>1. /\ phase' = [phase EXCEPT ![c] = "backlog"] /\ phase[c] = "idle"
        /\ UNCHANGED <<version, snapshot, cursor, forwarding, writing, overflowed, lagged,
                       queue, wire, hello, taken, gone>>
    BY <1>2 DEF Connect
  <2>2. TypeOK' /\ phase'[c] = "backlog" /\ \A d \in Clients \ {c} : Untouched(d)
    BY <1>1, <2>1 DEF TypeOK, Untouched
  <2>3. Connection(c)'
    BY <1>1, <2>1, <2>2 DEF Connection, Stream
  <2> QED BY <2>1, <2>2, <2>3, OneConnectionMoves
<1>3. CASE SayHello(c)
  <2>1. /\ hello' = [hello EXCEPT ![c] = "sent"]
        /\ UNCHANGED <<version, serverVars, queue, wire, taken, gone>>
    BY <1>3 DEF SayHello
  <2>2. TypeOK' /\ \A d \in Clients \ {c} : Untouched(d)
    BY <1>1, <2>1 DEF TypeOK, Untouched, serverVars
  <2>3. Connection(c)'
    BY <1>1, <2>1 DEF Connection, Stream, serverVars
  <2> QED BY <2>1, <2>2, <2>3, OneConnectionMoves DEF serverVars
<1>4. CASE Take(c)
  <2>1. /\ taken' = [taken EXCEPT ![c] = Append(taken[c], Head(wire[c]))]
        /\ wire' = [wire EXCEPT ![c] = Tail(wire[c])]
        /\ gone' = [gone EXCEPT ![c] = c \in Probes]
        /\ UNCHANGED <<version, serverVars, queue, hello>>
        /\ wire[c] # << >> /\ ~gone[c]
    BY <1>4 DEF Take
  <2>2. /\ taken'[c] = Append(taken[c], Head(wire[c])) /\ wire'[c] = Tail(wire[c])
        /\ \A d \in Clients : d # c => wire'[d] = wire[d] /\ taken'[d] = taken[d] /\ gone'[d] = gone[d]
    BY <1>1, <2>1 DEF TypeOK
  <2>3. /\ Head(wire[c]) \in Message /\ Tail(wire[c]) \in Seq(Message)
        /\ Len(Tail(wire[c])) = Len(wire[c]) - 1
    BY <1>1, <2>1, HeadTailProperties
  <2>4. taken'[c] \in Seq(Message)
    BY <1>1, <2>2, <2>3, AppendProperties
  <2>5. Len(wire'[c]) <= WireSize
    <3>1. Len(wire[c]) \in Nat /\ WireSize \in Nat /\ Len(wire[c]) <= WireSize
      BY <1>1, LenProperties DEF TypeOK
    <3> QED BY <2>2, <2>3, <3>1
  <2>6. TypeOK' /\ \A d \in Clients \ {c} : Untouched(d)
    <3>1. taken' \in [Clients -> Seq(Message)] /\ wire' \in [Clients -> Seq(Message)]
          /\ gone' \in [Clients -> BOOLEAN]
      BY <1>1, <2>1, <2>2, <2>3, <2>4 DEF TypeOK
    <3>2. \A d \in Clients : Len(wire'[d]) <= WireSize
      BY <1>1, <2>2, <2>5 DEF TypeOK
    <3> QED BY <1>1, <2>1, <2>2, <3>1, <3>2 DEF TypeOK, Untouched, serverVars
  <2>7. Stream(c)' = Stream(c)
    <3>1. taken'[c] \o wire'[c] = taken[c] \o wire[c]
      <4>1. Append(taken[c], Head(wire[c])) \o Tail(wire[c]) = taken[c] \o wire[c]
        BY <1>1, <2>1, HeadMoves
      <4> QED BY <2>2, <4>1
    <3>2. Stream(c)' = taken'[c] \o wire'[c] \o queue[c]
      BY <2>1 DEF Stream
    <3>3. Stream(c) = taken[c] \o wire[c] \o queue[c]
      BY DEF Stream
    <3> QED BY <3>1, <3>2, <3>3
  <2>8. phase[c] \notin {"idle", "backlog"}
    BY <1>1, <2>1 DEF Connection
  <2>9. Connection(c)'
    BY <1>1, <2>1, <2>7, <2>8 DEF Connection, serverVars
  <2> QED BY <2>1, <2>6, <2>9, OneConnectionMoves DEF serverVars
<1>5. CASE Leave(c)
  <2>1. /\ gone' = [gone EXCEPT ![c] = TRUE]
        /\ UNCHANGED <<version, serverVars, queue, wire, hello, taken>>
    BY <1>5 DEF Leave
  <2>2. TypeOK' /\ gone'[c] /\ \A d \in Clients \ {c} : Untouched(d)
    BY <1>1, <2>1 DEF TypeOK, Untouched, serverVars
  <2>3. Connection(c)'
    BY <1>1, <2>1, <2>2 DEF Connection, Stream, serverVars
  <2> QED BY <2>1, <2>2, <2>3, OneConnectionMoves DEF serverVars
<1>6. CASE Forget(c)
  <2>1. /\ phase' = [phase EXCEPT ![c] = "idle"]
        /\ snapshot' = [snapshot EXCEPT ![c] = 0] /\ cursor' = [cursor EXCEPT ![c] = 0]
        /\ overflowed' = [overflowed EXCEPT ![c] = FALSE] /\ lagged' = [lagged EXCEPT ![c] = FALSE]
        /\ wire' = [wire EXCEPT ![c] = << >>] /\ hello' = [hello EXCEPT ![c] = "unsent"]
        /\ taken' = [taken EXCEPT ![c] = << >>] /\ gone' = [gone EXCEPT ![c] = FALSE]
        /\ UNCHANGED <<version, forwarding, writing, queue>>
        /\ ~forwarding[c] /\ ~writing[c]
    BY <1>6 DEF Forget
  <2>2. /\ phase'[c] = "idle" /\ snapshot'[c] = 0 /\ cursor'[c] = 0
        /\ wire'[c] = << >> /\ taken'[c] = << >> /\ queue'[c] = << >>
        /\ \A d \in Clients : d # c => wire'[d] = wire[d]
    BY <1>1, <2>1 DEF TypeOK, Connection
  <2>3. << >> \in Seq(Message) /\ Len(<< >>) = 0 /\ WireSize \in Nat /\ MaxEvents \in Nat
    BY EmptySeq
  <2>4. TypeOK'
    <3>1. /\ wire' \in [Clients -> Seq(Message)] /\ taken' \in [Clients -> Seq(Message)]
          /\ \A d \in Clients : Len(wire'[d]) <= WireSize
      BY <1>1, <2>1, <2>2, <2>3 DEF TypeOK
    <3>2. snapshot' \in [Clients -> 0 .. MaxEvents] /\ cursor' \in [Clients -> 0 .. MaxEvents]
      BY <1>1, <2>1, <2>3 DEF TypeOK
    <3> QED BY <1>1, <2>1, <3>1, <3>2 DEF TypeOK
  <2>5. \A d \in Clients \ {c} : Untouched(d)
    BY <1>1, <2>1 DEF TypeOK, Untouched
  <2>6. Len(Stream(c)') = 0
    <3>1. Stream(c)' = << >> \o << >> \o << >>
      BY <2>2 DEF Stream
    <3> QED BY <3>1, NothingSent
  <2>7. \A base, last : Rising(Stream(c)', base, last) /\ Gapless(Stream(c)', base)
    BY <2>6 DEF Rising, Gapless
  <2>8. Connection(c)'
    <3>1. version' \in Nat /\ ~forwarding'[c] /\ ~writing'[c]
      BY <1>1, <2>1 DEF TypeOK
    <3> QED BY <2>2, <2>7, <3>1 DEF Connection
  <2> QED BY <2>1, <2>4, <2>5, <2>8, OneConnectionMoves
<1> QED BY <1>2, <1>3, <1>4, <1>5, <1>6 DEF Use

\* Every connection is consistent in every reachable state.
LEMMA ConnectionsAreConsistent == Spec => []FanoutInv
<1>1. Init => FanoutInv
  <2> SUFFICES ASSUME Init PROVE FanoutInv
    OBVIOUS
  <2>1. << >> \in Seq(Message) /\ Len(<< >>) = 0
    BY EmptySeq
  <2>2. TypeOK
    BY <2>1 DEF Init, TypeOK
  <2>3. ASSUME NEW c \in Clients PROVE Connection(c)
    <3>1. Len(Stream(c)) = 0
      <4>1. Stream(c) = << >> \o << >> \o << >>
        BY DEF Stream, Init
      <4> QED BY <4>1, NothingSent
    <3>2. \A base, last : Rising(Stream(c), base, last) /\ Gapless(Stream(c), base)
      BY <3>1 DEF Rising, Gapless
    <3> QED BY <3>2 DEF Connection, Init
  <2> QED BY <2>2, <2>3 DEF FanoutInv
<1>2. FanoutInv /\ [Next]_vars => FanoutInv'
  <2> SUFFICES ASSUME FanoutInv, [Next]_vars PROVE FanoutInv'
    OBVIOUS
  <2>1. ASSUME NEW c \in Clients, Serve(c) PROVE FanoutInv'
    BY <2>1, AcceptKeeps, ForwarderKeeps, WriterKeeps, ReaderKeeps DEF Serve
  <2>2. CASE UNCHANGED vars
    BY <2>2 DEF vars, serverVars, FanoutInv, TypeOK, Connection, Stream
  <2> QED BY <2>1, <2>2, EventsKeep, ClientKeeps DEF Next
<1> QED BY <1>1, <1>2, PTL DEF Spec

-----------------------------------------------------------------------------
(* Theorems.                                                               *)

\* The state of the daemon's connections is well typed and no write queue and
\* no socket holds more than its capacity (try_send, handle_client).
THEOREM FanoutIsTyped == Spec => []TypeOK
<1>1. FanoutInv => TypeOK
  BY DEF FanoutInv
<1> QED BY <1>1, ConnectionsAreConsistent, PTL

\* What a client gets continues its snapshot: events in order and none twice,
\* through lags, overflows, failed writes and reconnects, and without a lag
\* none missing (the accept arm of run, spawn_event_forwarder, handle_client).
THEOREM StreamsAreContinuous == Spec => []StreamContinuesTheSnapshot
<1>1. FanoutInv => StreamContinuesTheSnapshot
  BY DEF FanoutInv, Connection, Rising, Gapless, StreamContinuesTheSnapshot
<1> QED BY <1>1, ConnectionsAreConsistent, PTL

\* An open connection whose client is there and whose queue did not overflow is
\* served: both tasks run and, unless it lagged, the client was sent every
\* event that its receiver consumed.  Only what the forwarder has still to
\* consume can be outstanding; that it is consumed is a matter of fairness.
NoConnectionIsSilent ==
    \A c \in Clients :
      phase[c] = "open" /\ ~gone[c] /\ ~overflowed[c] =>
        /\ forwarding[c] /\ writing[c]
        /\ ~lagged[c] => \A n \in snapshot[c] + 1 .. cursor[c] : Sent(c, n)

\* No connection stays open without the tasks that serve it: the safety that
\* EventsAreSentOrTheConnectionEnds rests on (spawn_event_forwarder cancels the
\* read loop when the queue is full; the writer stops only when its client is
\* gone or the read loop ends).
THEOREM OpenConnectionsAreServed == Spec => []NoConnectionIsSilent
<1>1. FanoutInv => NoConnectionIsSilent
  BY DEF FanoutInv, Connection, HoldsTo, Holds, NoConnectionIsSilent, Sent
<1> QED BY <1>1, ConnectionsAreConsistent, PTL
=============================================================================
