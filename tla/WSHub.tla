------------------------------- MODULE WSHub -------------------------------
(***************************************************************************)
(* The WebSocket channel hub (src/unnamed/part_000, package kldws) and the *)
(* event-stream action that delivers batches through it                   *)
(* (src/unnamed/part_004, webSocketAction.attemptBatch), on one topic.     *)
(* Topics share nothing but the server mutex, so one topic shows every     *)
(* interleaving of its senders and subscribers.                            *)
(*                                                                         *)
(* A topic is three channels: senderChannel and receiverChannel are        *)
(* unbuffered, so a batch send and an ack are rendezvous; closingChannel   *)
(* is closed and replaced by cycleTopic whenever a listening connection    *)
(* goes away.  A channel value is identified by its generation number:     *)
(* closingGen is the generation t.closingChannel holds now, closed the     *)
(* generations that have been closed.                                      *)
(*                                                                         *)
(* The connection's read and write pumps are not in the repository; they   *)
(* follow spec 4.D: a listening connection takes batches from              *)
(* senderChannel and writes them to its client, and the client's ack frame *)
(* is sent on receiverChannel (the frame's batchNumber does not travel:    *)
(* receiverChannel is a chan error).  The client acks its batches in the   *)
(* order it received them.  The event stream's outer loop (spec 4.E) calls *)
(* attemptBatch again for the same batch after an error and moves to the   *)
(* next batch after nil.                                                   *)
(***************************************************************************)
EXTENDS Naturals, Sequences, FiniteSets

CONSTANTS
    Streams,        \* event streams whose action targets the topic
    Conns,          \* WebSocket connections accepted by handler
    MaxBatch,       \* batches each stream delivers
    MaxInterrupts,  \* updateInterrupt signals (stream reconfigurations)
    None

ASSUME MaxBatch \in Nat \ {0} /\ MaxInterrupts \in Nat

VARIABLES
    topic,       \* s.topics[topic] exists
    closingGen,  \* generation of t.closingChannel
    closed,      \* generations of closingChannel that have been closed
    conn,        \* connection state: absent, open, listening, closed
    held,        \* batches written to a connection's client, not yet acked
    pc,          \* where each stream's attemptBatch is: idle, send, wait
    batch,       \* number of the batch the stream delivers next
    snap,        \* the closing channel attemptBatch got from GetChannels
    taker,       \* the connection that took the stream's current send
    interrupts,  \* updateInterrupt signals so far
    acked,       \* history: batches a client acknowledged successfully
    srv,         \* the server: running, closing (inside Close), closed
    toVisit      \* connections Close's range over s.connections may still yield

hubVars    == <<topic, closingGen, closed, conn, held>>
streamVars == <<pc, batch, snap, taker, interrupts>>
closeVars  == <<srv, toVisit>>
vars       == <<hubVars, streamVars, acked, closeVars>>

BatchIds == Streams \X (1..MaxBatch)

-----------------------------------------------------------------------------
(* The hub: webSocketServer.                                               *)

\* NewWebSocketServer: no topics and no connections.
Init ==
    /\ topic = FALSE
    /\ closingGen = 0
    /\ closed = {}
    /\ conn = [c \in Conns |-> "absent"]
    /\ held = [c \in Conns |-> <<>>]
    /\ pc = [s \in Streams |-> "idle"]
    /\ batch = [s \in Streams |-> 1]
    /\ snap = [s \in Streams |-> None]
    /\ taker = [s \in Streams |-> None]
    /\ interrupts = 0
    /\ acked = {}
    /\ srv = "running"
    /\ toVisit = {}

\* getTopic: under the mutex, create the topic with fresh channels the
\* first time it is named.  Its closingChannel is generation closingGen.
GetTopic == topic' = TRUE

\* handler: a successful upgrade registers a new connection.  The router
\* keeps accepting during and after Close.  An entry added while Close's
\* range is under way may or may not be yielded by it (Go map iteration).
Connect(c) ==
    /\ conn[c] = "absent"
    /\ conn' = [conn EXCEPT ![c] = "open"]
    /\ \/ srv # "closing" /\ UNCHANGED toVisit
       \/ srv = "closing" /\ toVisit' = toVisit \cup {c}
    /\ UNCHANGED <<topic, closingGen, closed, held, streamVars, acked,
                   srv>>

\* A connection's listen frame (spec 4.D) names the topic, which is looked
\* up (and created) with getTopic.
Listen(c) ==
    /\ conn[c] = "open"
    /\ GetTopic
    /\ conn' = [conn EXCEPT ![c] = "listening"]
    /\ UNCHANGED <<closingGen, closed, held, streamVars, acked, closeVars>>

\* cycleTopic with its two statements in the opposite order: the fresh
\* channel is installed first and then closed.
CycleTopicSwapped ==
    /\ closingGen' = closingGen + 1
    /\ closed' = closed \cup {closingGen + 1}

\* cycleTopic: close(t.closingChannel), then install a fresh channel.
CycleTopic ==
    /\ closed' = closed \cup {closingGen}
    /\ closingGen' = closingGen + 1

\* A connection goes away: connectionClosed deletes it from the server,
\* and a connection that listened on the topic cycles it.  Whatever its
\* client had not acknowledged is lost with it.
DropConnection(c) ==
    /\ conn[c] \in {"open", "listening"}
    /\ IF conn[c] = "listening" THEN CycleTopic
                                ELSE UNCHANGED <<closingGen, closed>>
    /\ conn' = [conn EXCEPT ![c] = "closed"]
    /\ held' = [held EXCEPT ![c] = <<>>]
    /\ UNCHANGED <<topic, streamVars, acked>>

\* The client or the network ends the connection.
Disconnect(c) == DropConnection(c) /\ UNCHANGED closeVars

-----------------------------------------------------------------------------
(* Shutdown: webSocketServer.Close, a range over s.connections calling     *)
(* c.close() on each, without the mutex.                                   *)

\* Close is called (once, at process shutdown): the range starts over the
\* connections registered now.
BeginClose ==
    /\ srv = "running"
    /\ LET live == {c \in Conns : conn[c] \in {"open", "listening"}}
       IN  srv' = "closing" /\ toVisit' = live
    /\ UNCHANGED <<hubVars, streamVars, acked>>

\* The range yields a connection still in the map and c.close() ends it;
\* its pumps exit through connectionClosed (and cycleTopic if listening).
CloseConn(c) ==
    /\ srv = "closing"
    /\ c \in toVisit
    /\ DropConnection(c)
    /\ toVisit' = toVisit \ {c}
    /\ UNCHANGED srv

\* The range ends when no entry it would still yield is in the map: entries
\* deleted before they were reached are not yielded.
CloseReturn ==
    /\ srv = "closing"
    /\ \A c \in toVisit : conn[c] = "closed"
    /\ srv' = "closed"
    /\ UNCHANGED <<hubVars, streamVars, acked, toVisit>>

-----------------------------------------------------------------------------
(* The sender: webSocketAction.attemptBatch.                               *)

\* Back to the stream's loop with an error: the same batch is attempted
\* again.
ReturnError(s) ==
    /\ pc' = [pc EXCEPT ![s] = "idle"]
    /\ taker' = [taker EXCEPT ![s] = None]

\* attemptBatch is called for the stream's next batch: GetChannels
\* (getTopic, then a read of t.closingChannel) hands it the channels.
StartAttempt(s) ==
    /\ pc[s] = "idle"
    /\ batch[s] <= MaxBatch
    /\ GetTopic
    /\ snap' = [snap EXCEPT ![s] = closingGen]
    /\ pc' = [pc EXCEPT ![s] = "send"]
    /\ UNCHANGED <<closingGen, closed, conn, held, batch, taker, interrupts,
                   acked, closeVars>>

\* First select, case channel <- events: a listening connection takes the
\* batch and writes it to its client.
Deliver(s, c) ==
    /\ pc[s] = "send"
    /\ conn[c] = "listening"
    /\ held' = [held EXCEPT ![c] = Append(@, <<s, batch[s]>>)]
    /\ pc' = [pc EXCEPT ![s] = "wait"]
    /\ taker' = [taker EXCEPT ![s] = c]
    /\ UNCHANGED <<topic, closingGen, closed, conn, batch, snap, interrupts,
                   acked, closeVars>>

\* First select, case <-w.es.updateInterrupt: InterruptedSend.
SendInterrupted(s) ==
    /\ pc[s] = "send"
    /\ interrupts < MaxInterrupts
    /\ interrupts' = interrupts + 1
    /\ ReturnError(s)
    /\ UNCHANGED <<hubVars, batch, snap, acked, closeVars>>

\* First select, case <-closing: InterruptedSend.
SendClosing(s) ==
    /\ pc[s] = "send"
    /\ snap[s] \in closed
    /\ ReturnError(s)
    /\ UNCHANGED <<hubVars, batch, snap, interrupts, acked, closeVars>>

\* Second select, case err = <-receiver: the ack a client sent through its
\* connection.  It is the first unacknowledged batch of that client, which
\* need not be the batch this stream sent.  A nil error completes the
\* stream's batch; an error makes the stream retry it.
Ack(c, s, ok) ==
    /\ conn[c] = "listening"
    /\ held[c] # <<>>
    /\ pc[s] = "wait"
    /\ held' = [held EXCEPT ![c] = Tail(@)]
    /\ acked' = IF ok THEN acked \cup {Head(held[c])} ELSE acked
    /\ batch' = IF ok THEN [batch EXCEPT ![s] = @ + 1] ELSE batch
    /\ ReturnError(s)
    /\ UNCHANGED <<topic, closingGen, closed, conn, snap, interrupts, closeVars>>

\* Second select, case <-w.es.updateInterrupt: InterruptedReceive.
WaitInterrupted(s) ==
    /\ pc[s] = "wait"
    /\ interrupts < MaxInterrupts
    /\ interrupts' = interrupts + 1
    /\ ReturnError(s)
    /\ UNCHANGED <<hubVars, batch, snap, acked, closeVars>>

\* Second select, case <-closing: InterruptedReceive.
WaitClosing(s) ==
    /\ pc[s] = "wait"
    /\ snap[s] \in closed
    /\ ReturnError(s)
    /\ UNCHANGED <<hubVars, batch, snap, interrupts, acked, closeVars>>

-----------------------------------------------------------------------------

Next ==
    \/ \E c \in Conns : Connect(c) \/ Listen(c) \/ Disconnect(c)
    \/ \E s \in Streams :
          \/ StartAttempt(s) \/ SendInterrupted(s) \/ SendClosing(s)
          \/ WaitInterrupted(s) \/ WaitClosing(s)
          \/ \E c \in Conns : Deliver(s, c)
    \/ \E c \in Conns, s \in Streams, ok \in BOOLEAN : Ack(c, s, ok)
    \/ BeginClose \/ CloseReturn \/ \E c \in Conns : CloseConn(c)

\* The stream goroutines run: a select whose closing channel is closed is
\* left.  The goroutine inside Close runs its loop to the end.  Clients,
\* connections, reconfigurations and the shutdown signal owe nothing.
Fairness ==
    /\ \A s \in Streams : WF_vars(SendClosing(s)) /\ WF_vars(WaitClosing(s))
    /\ \A c \in Conns : WF_vars(CloseConn(c))
    /\ WF_vars(CloseReturn)

Spec == Init /\ [][Next]_vars /\ Fairness

-----------------------------------------------------------------------------

TypeOK ==
    /\ topic \in BOOLEAN
    /\ closingGen \in Nat /\ closed \subseteq 0..closingGen - 1
    /\ conn \in [Conns -> {"absent", "open", "listening", "closed"}]
    /\ held \in [Conns -> Seq(BatchIds)]
    /\ pc \in [Streams -> {"idle", "send", "wait"}]
    /\ batch \in [Streams -> 1..MaxBatch + 1]
    /\ snap \in [Streams -> Nat \cup {None}]
    /\ taker \in [Streams -> Conns \cup {None}]
    /\ interrupts \in 0..MaxInterrupts
    /\ acked \subseteq BatchIds
    /\ srv \in {"running", "closing", "closed"}
    /\ toVisit \subseteq Conns

\* attemptBatch returns nil only after the client acknowledged the very
\* batch it sent (spec scenario S5: the ack frame carries batchNumber).
AdvanceOnlyAfterAck ==
    \A s \in Streams : \A n \in 1..batch[s] - 1 : <<s, n>> \in acked

\* Spec 8.5: a stream blocked in attemptBatch on a batch taken by a
\* connection that has since disconnected eventually returns; cycleTopic's
\* close of closingChannel is what wakes it.
WaiterReleasedOnDisconnect ==
    \A s \in Streams :
        (pc[s] = "wait" /\ taker[s] # None /\ conn[taker[s]] = "closed")
            ~> pc[s] # "wait"

=============================================================================
