---------------------------- MODULE ClientFanout ----------------------------
(***************************************************************************)
(* The daemon's client connections (src/daemon.rs: the accept arm of run,  *)
(* spawn_event_forwarder and handle_client) and the clients that talk to   *)
(* them (fetch_snapshot of src/ipc.rs, events of the web's ipc_client.rs). *)
(*                                                                         *)
(* A connection is served by three tasks.  The forwarder copies events     *)
(* from the bounded broadcast ring to the bounded write queue, the writer  *)
(* moves the queue to the socket, and the read loop answers Hello with the *)
(* snapshot taken when the connection was accepted.  An event is its       *)
(* number; a snapshot is the number of the last event it includes.         *)
(***************************************************************************)
EXTENDS Integers, FiniteSets, Sequences

CONSTANTS
    Streams,      \* clients that stay and follow the events
    Probes,       \* clients that want one snapshot
    RingSize,     \* capacity of the broadcast channel (256)
    QueueSize,    \* capacity of a connection's write queue (256)
    WireSize,     \* messages the socket buffers hold
    MaxClients,   \* MAX_CLIENT_TASKS (64)
    MaxEvents     \* bound on the events of a behaviour

Clients == Streams \union Probes

ASSUME FanoutAssumption ==
  /\ Streams \intersect Probes = {}
  /\ \A n \in {RingSize, QueueSize, WireSize, MaxClients} : n \in Nat \ {0}
  /\ MaxEvents \in Nat

VARIABLES
    version,     \* events the daemon has applied and broadcast
    phase,       \* client -> where its connection is
    snapshot,    \* client -> the snapshot captured for it
    cursor,      \* client -> the last event its receiver consumed
    forwarding,  \* client -> its forwarder runs
    writing,     \* client -> its writer runs
    overflowed,  \* client -> conn_cancel
    lagged,      \* client -> its receiver skipped events
    queue,       \* client -> its write queue
    wire,        \* client -> messages in the socket
    hello,       \* client -> progress of its Hello
    taken,       \* client -> the messages it read
    gone         \* client -> it closed its end

serverVars == <<phase, snapshot, cursor, forwarding, writing, overflowed, lagged>>
vars == <<version, serverVars, queue, wire, hello, taken, gone>>

Event(n) == [kind |-> "event", at |-> n]
Snapshot(n) == [kind |-> "snapshot", at |-> n]
Message == [kind : {"event", "snapshot"}, at : 0 .. MaxEvents]

Served == {c \in Clients : phase[c] = "open"}

Init ==
  /\ version = 0
  /\ phase = [c \in Clients |-> "idle"]
  /\ snapshot = [c \in Clients |-> 0]
  /\ cursor = [c \in Clients |-> 0]
  /\ forwarding = [c \in Clients |-> FALSE]
  /\ writing = [c \in Clients |-> FALSE]
  /\ overflowed = [c \in Clients |-> FALSE]
  /\ lagged = [c \in Clients |-> FALSE]
  /\ queue = [c \in Clients |-> << >>]
  /\ wire = [c \in Clients |-> << >>]
  /\ hello = [c \in Clients |-> "unsent"]
  /\ taken = [c \in Clients |-> << >>]
  /\ gone = [c \in Clients |-> FALSE]

-----------------------------------------------------------------------------
(* The daemon's event loop                                                 *)

ApplyEvent ==
  /\ version < MaxEvents
  /\ version' = version + 1
  /\ UNCHANGED <<serverVars, queue, wire, hello, taken, gone>>

\* The snapshot is captured and the receiver subscribed in one step of the loop.
Accept(c) ==
  /\ phase[c] = "backlog"
  /\ Cardinality(Served) < MaxClients
  /\ phase' = [phase EXCEPT ![c] = "open"]
  /\ snapshot' = [snapshot EXCEPT ![c] = version]
  /\ cursor' = [cursor EXCEPT ![c] = version]
  /\ forwarding' = [forwarding EXCEPT ![c] = TRUE]
  /\ writing' = [writing EXCEPT ![c] = TRUE]
  /\ UNCHANGED <<version, overflowed, lagged, queue, wire, hello, taken, gone>>

Drop(c) ==
  /\ phase[c] = "backlog"
  /\ Cardinality(Served) >= MaxClients
  /\ phase' = [phase EXCEPT ![c] = "closed"]
  /\ UNCHANGED <<version, snapshot, cursor, forwarding, writing, overflowed, lagged,
                 queue, wire, hello, taken, gone>>

-----------------------------------------------------------------------------
(* A connection's forwarder and writer                                     *)

HasNews(c) == forwarding[c] /\ cursor[c] < version

\* The oldest event the ring still holds comes after this one.
Forgotten == IF version > RingSize THEN version - RingSize ELSE 0

\* recv returns Lagged and the receiver continues at the oldest event kept.
Lag(c) ==
  /\ HasNews(c)
  /\ cursor[c] < Forgotten
  /\ cursor' = [cursor EXCEPT ![c] = Forgotten]
  /\ lagged' = [lagged EXCEPT ![c] = TRUE]
  /\ UNCHANGED <<version, phase, snapshot, forwarding, writing, overflowed,
                 queue, wire, hello, taken, gone>>

Consume(c) ==
  /\ HasNews(c)
  /\ cursor[c] >= Forgotten
  /\ cursor' = [cursor EXCEPT ![c] = @ + 1]

Forward(c) ==
  /\ Consume(c)
  /\ writing[c]
  /\ Len(queue[c]) < QueueSize
  /\ queue' = [queue EXCEPT ![c] = Append(@, Event(cursor[c] + 1))]
  /\ UNCHANGED <<version, phase, snapshot, forwarding, writing, overflowed, lagged,
                 wire, hello, taken, gone>>

\* Mutant: a full queue loses the event and nothing else.
SkipEvent(c) ==
  /\ Consume(c)
  /\ writing[c]
  /\ Len(queue[c]) >= QueueSize
  /\ UNCHANGED <<version, phase, snapshot, forwarding, writing, overflowed, lagged,
                 queue, wire, hello, taken, gone>>

\* Mutant: the forwarder stops at a full queue without cancelling the read loop.
StopForwarding(c) ==
  /\ Consume(c)
  /\ writing[c]
  /\ Len(queue[c]) >= QueueSize
  /\ forwarding' = [forwarding EXCEPT ![c] = FALSE]
  /\ UNCHANGED <<version, phase, snapshot, writing, overflowed, lagged,
                 queue, wire, hello, taken, gone>>

\* The event that did not fit is lost, and the connection with it.
Overflow(c) ==
  /\ Consume(c)
  /\ writing[c]
  /\ Len(queue[c]) >= QueueSize
  /\ overflowed' = [overflowed EXCEPT ![c] = TRUE]
  /\ forwarding' = [forwarding EXCEPT ![c] = FALSE]
  /\ UNCHANGED <<version, phase, snapshot, writing, lagged, queue, wire, hello, taken, gone>>

\* The writer is over: the queue is closed and so ends the forwarder.
ForwarderEnds(c) ==
  /\ Consume(c)
  /\ ~writing[c]
  /\ forwarding' = [forwarding EXCEPT ![c] = FALSE]
  /\ UNCHANGED <<version, phase, snapshot, writing, overflowed, lagged,
                 queue, wire, hello, taken, gone>>

\* A message waits in the queue until the socket takes it.
Write(c) ==
  /\ writing[c]
  /\ queue[c] # << >>
  /\ ~gone[c]
  /\ Len(wire[c]) < WireSize
  /\ wire' = [wire EXCEPT ![c] = Append(@, Head(queue[c]))]
  /\ queue' = [queue EXCEPT ![c] = Tail(@)]
  /\ UNCHANGED <<version, serverVars, hello, taken, gone>>

WriteFails(c) ==
  /\ writing[c]
  /\ queue[c] # << >>
  /\ gone[c]
  /\ writing' = [writing EXCEPT ![c] = FALSE]
  /\ queue' = [queue EXCEPT ![c] = << >>]
  /\ UNCHANGED <<version, phase, snapshot, cursor, forwarding, overflowed, lagged,
                 wire, hello, taken, gone>>

-----------------------------------------------------------------------------
(* A connection's read loop                                                *)

\* The snapshot goes through the write queue; a full queue swallows it.
AnswerHello(c) ==
  /\ phase[c] = "open"
  /\ hello[c] = "sent"
  /\ hello' = [hello EXCEPT ![c] = "answered"]
  /\ queue' = IF writing[c] /\ Len(queue[c]) < QueueSize
              THEN [queue EXCEPT ![c] = Append(@, Snapshot(snapshot[c]))]
              ELSE queue
  /\ UNCHANGED <<version, serverVars, wire, taken, gone>>

\* End of input or conn_cancel: both tasks are aborted, the queue is lost.
ReadEnds(c) ==
  /\ phase[c] = "open"
  /\ overflowed[c] \/ (gone[c] /\ hello[c] # "sent")
  /\ phase' = [phase EXCEPT ![c] = "closed"]
  /\ forwarding' = [forwarding EXCEPT ![c] = FALSE]
  /\ writing' = [writing EXCEPT ![c] = FALSE]
  /\ queue' = [queue EXCEPT ![c] = << >>]
  /\ UNCHANGED <<version, snapshot, cursor, overflowed, lagged, wire, hello, taken, gone>>

\* A read error leaves handle_client before it aborts the other two tasks.
ReadFails(c) ==
  /\ phase[c] = "open"
  /\ gone[c]
  /\ phase' = [phase EXCEPT ![c] = "failed"]
  /\ UNCHANGED <<version, snapshot, cursor, forwarding, writing, overflowed, lagged,
                 queue, wire, hello, taken, gone>>

-----------------------------------------------------------------------------
(* The clients                                                             *)

Connect(c) ==
  /\ phase[c] = "idle"
  /\ phase' = [phase EXCEPT ![c] = "backlog"]
  /\ UNCHANGED <<version, snapshot, cursor, forwarding, writing, overflowed, lagged,
                 queue, wire, hello, taken, gone>>

SayHello(c) ==
  /\ phase[c] \in {"backlog", "open"}
  /\ hello[c] = "unsent"
  /\ ~gone[c]
  /\ hello' = [hello EXCEPT ![c] = "sent"]
  /\ UNCHANGED <<version, serverVars, queue, wire, taken, gone>>

\* A client reads after its Hello; a probe is content with one message.
Take(c) ==
  /\ hello[c] # "unsent"
  /\ ~gone[c]
  /\ wire[c] # << >>
  /\ taken' = [taken EXCEPT ![c] = Append(@, Head(wire[c]))]
  /\ wire' = [wire EXCEPT ![c] = Tail(@)]
  /\ gone' = [gone EXCEPT ![c] = c \in Probes]
  /\ UNCHANGED <<version, serverVars, queue, hello>>

Leave(c) ==
  /\ phase[c] # "idle"
  /\ ~gone[c]
  /\ gone' = [gone EXCEPT ![c] = TRUE]
  /\ UNCHANGED <<version, serverVars, queue, wire, hello, taken>>

\* Once a connection is over on both sides the client may open another.
Forget(c) ==
  /\ phase[c] \in {"closed", "failed"}
  /\ ~forwarding[c] /\ ~writing[c]
  /\ gone[c] \/ wire[c] = << >>
  /\ phase' = [phase EXCEPT ![c] = "idle"]
  /\ snapshot' = [snapshot EXCEPT ![c] = 0]
  /\ cursor' = [cursor EXCEPT ![c] = 0]
  /\ overflowed' = [overflowed EXCEPT ![c] = FALSE]
  /\ lagged' = [lagged EXCEPT ![c] = FALSE]
  /\ wire' = [wire EXCEPT ![c] = << >>]
  /\ hello' = [hello EXCEPT ![c] = "unsent"]
  /\ taken' = [taken EXCEPT ![c] = << >>]
  /\ gone' = [gone EXCEPT ![c] = FALSE]
  /\ UNCHANGED <<version, forwarding, writing, queue>>

Serve(c) ==
  \/ Accept(c) \/ Drop(c)
  \/ Lag(c) \/ Forward(c) \/ Overflow(c) \/ ForwarderEnds(c)
  \/ Write(c) \/ WriteFails(c)
  \/ AnswerHello(c) \/ ReadEnds(c) \/ ReadFails(c)

Use(c) == Connect(c) \/ SayHello(c) \/ Take(c) \/ Leave(c) \/ Forget(c)

Next == ApplyEvent \/ \E c \in Clients : Serve(c) \/ Use(c)

Spec == Init /\ [][Next]_vars

\* The runtime polls a forwarder that has an event to consume and a read loop
\* whose token is cancelled; it can make no client read.
Fairness ==
  \A c \in Clients : /\ WF_vars(Lag(c) \/ Forward(c) \/ Overflow(c) \/ ForwarderEnds(c))
                     /\ WF_vars(ReadEnds(c))

FairSpec == Spec /\ Fairness

-----------------------------------------------------------------------------
(* Properties                                                              *)

\* Every variable holds a value of its type, and the queues are bounded.
TypeOK ==
  /\ version \in 0 .. MaxEvents
  /\ phase \in [Clients -> {"idle", "backlog", "open", "failed", "closed"}]
  /\ snapshot \in [Clients -> 0 .. MaxEvents]
  /\ cursor \in [Clients -> 0 .. MaxEvents]
  /\ forwarding \in [Clients -> BOOLEAN]
  /\ writing \in [Clients -> BOOLEAN]
  /\ overflowed \in [Clients -> BOOLEAN]
  /\ lagged \in [Clients -> BOOLEAN]
  /\ queue \in [Clients -> Seq(Message)]
  /\ wire \in [Clients -> Seq(Message)]
  /\ hello \in [Clients -> {"unsent", "sent", "answered"}]
  /\ taken \in [Clients -> Seq(Message)]
  /\ gone \in [Clients -> BOOLEAN]
  /\ \A c \in Clients : Len(queue[c]) <= QueueSize /\ Len(wire[c]) <= WireSize

IsEvent(m) == m.kind = "event"

\* The messages a client was sent on its connection, read or not.
Stream(c) == taken[c] \o wire[c] \o queue[c]

\* What a client receives continues the snapshot captured for it.  The events
\* come after the snapshot and in order, none twice, also when the receiver
\* lagged; if it did not, none is missing before one that is there, up to where
\* the connection was cut.  A client that applies the snapshot and then every
\* event numbered after it has the daemon's state as of the last one.
StreamContinuesTheSnapshot ==
  \A c \in Clients : LET s == Stream(c) IN
    \A i \in 1 .. Len(s) : IsEvent(s[i]) =>
      /\ snapshot[c] < s[i].at
      /\ \A j \in 1 .. i - 1 : IsEvent(s[j]) => s[j].at < s[i].at
      /\ ~lagged[c] =>
           \A n \in snapshot[c] + 1 .. s[i].at - 1 : \E j \in 1 .. i - 1 : s[j] = Event(n)

Sent(c, n) == \E i \in 1 .. Len(Stream(c)) : Stream(c)[i] = Event(n)

\* An event is sent to every connection that is open when it happens, or the
\* connection ends or has lagged: a client that does not read is cut off and
\* cannot stay connected to a silent stream.
EventsAreSentOrTheConnectionEnds ==
  \A c \in Clients, n \in 1 .. MaxEvents :
    phase[c] = "open" /\ ~gone[c] /\ snapshot[c] < n /\ n <= version
      ~> Sent(c, n) \/ phase[c] # "open" \/ gone[c] \/ lagged[c]

\* The comment of the web's event stream (ipc_client.rs): the first message of
\* a connection is the snapshot, and the events are everything after it.
FirstMessageIsTheSnapshot ==
  \A c \in Clients : taken[c] # << >> => Head(taken[c]).kind = "snapshot"
=============================================================================
