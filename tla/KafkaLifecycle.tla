--------------------------- MODULE KafkaLifecycle ---------------------------
(***************************************************************************)
(* The Kafka bridge lifecycle (src/internal/kldkafka/kafkacommon.go,       *)
(* kafkaCommon.Start): connect, startConsumer with its three goroutines    *)
(* on consumerWG, startProducer with its two goroutines on producerWG, and *)
(* the shutdown on os.Interrupt: producer.AsyncClose, consumer.Close, then *)
(* producerWG.Wait and consumerWG.Wait.                                    *)
(*                                                                         *)
(* The consumer's message goroutine is the legacy reply processor          *)
(* (src/internal/kldwebhooks/replyprocessor.go, ConsumerMessagesLoop and   *)
(* processReply): each reply is inserted into the MongoDB collection with  *)
(* _id = headers.requestId; it never marks an offset.  A reply is a model  *)
(* value with the id it carries, or NoId when parsing, the headers or the  *)
(* requestId check drop it.  The producer goroutines are the KafkaGoRoutines*)
(* the bridge passes in (not in the repository): they range over           *)
(* Successes() and Errors() and call wg.Done() when the channel closes, as *)
(* spec 5 describes.  sarama's AsyncClose reports every in-flight message  *)
(* before it closes those channels; Close closes Messages, Errors and      *)
(* Notifications.  Before Start, connectMongoDB sets the collection       *)
(* (w.mongo), or leaves it nil when no URL is configured.                  *)
(***************************************************************************)
EXTENDS Naturals, Sequences, FiniteSets

CONSTANTS
    Ids,             \* request ids replies carry
    NoId,            \* a reply processReply drops (bad JSON, headers, requestId)
    ReplyId,         \* reply -> the id it carries, or NoId
    BusReplies,      \* the replies on the consumer's topic, in offset order
    Requests,        \* messages ingress produces
    StartErrors,     \* whether mgo.Dial / NewClient / NewConsumer / NewProducer may fail
    FileErrors,      \* whether loading the configured TLS files may fail
    MongoURLSet,     \* the values "conf.MongoDB.URL is set" may take
    InsertErrors,    \* whether a MongoDB Insert may fail transiently
    None

ConsumerLoops == {"consumerErrors", "notifications", "messages"}
ProducerLoops == {"producerErrors", "producerSuccesses"}
Loops == ConsumerLoops \cup ProducerLoops

ASSUME /\ NoId \notin Ids /\ ReplyId \in [DOMAIN ReplyId -> Ids \cup {NoId}]
       /\ BusReplies \in Seq(DOMAIN ReplyId)
       /\ MongoURLSet \subseteq BOOLEAN
       /\ StartErrors \in BOOLEAN /\ InsertErrors \in BOOLEAN /\ FileErrors \in BOOLEAN

VARIABLES
    mongo,       \* w.mongo # nil
    phase,       \* where Start is: connectMongo, connect ... running, waitProducer,
                 \* waitConsumer, returned, failed (Start returned an error)
    consumer,    \* k.consumer: none, open, closed
    producer,    \* k.producer: none, open, closing (AsyncClose), closed
    loop,        \* goroutine -> none, running, done
    consumerWG,
    producerWG,
    bus,         \* replies the consumer has yet to deliver
    stored,      \* the MongoDB collection: id -> reply inserted under it
    inflight,    \* messages produced, not yet reported by the producer
    sent,        \* history: messages produced
    reported     \* history: messages whose success or error a loop took

startVars == <<mongo, phase, consumer, producer, loop, consumerWG, producerWG>>
vars == <<startVars, bus, stored, inflight, sent, reported>>

-----------------------------------------------------------------------------
(* Start                                                                   *)

\* NewKafkaCommon: nothing created yet; the topic already holds its replies.
Init ==
    /\ mongo = FALSE
    /\ phase = "connectMongo"
    /\ consumer = "none"
    /\ producer = "none"
    /\ loop = [l \in Loops |-> "none"]
    /\ consumerWG = 0
    /\ producerWG = 0
    /\ bus = BusReplies
    /\ stored = [i \in Ids |-> None]
    /\ inflight = {}
    /\ sent = {}
    /\ reported = {}

\* connectMongoDB: no URL leaves w.mongo nil (receipt store disabled); a
\* failed mgo.Dial is returned; otherwise the collection is taken and its
\* Create, which fails when the collection exists, is only logged.
ConnectMongoDB ==
    /\ phase = "connectMongo"
    /\ \E url \in MongoURLSet :
          \/ ~url /\ phase' = "connect" /\ UNCHANGED mongo
          \/ url /\ phase' = "connect" /\ mongo' = TRUE
          \/ url /\ StartErrors /\ phase' = "failed" /\ UNCHANGED mongo
    /\ UNCHANGED <<consumer, producer, loop, consumerWG, producerWG, bus, stored,
                   inflight, sent, reported>>

\* A failed step of Start returns its error at once.
StartFails ==
    /\ phase' = "failed"
    /\ UNCHANGED <<mongo, consumer, producer, loop, consumerWG, producerWG>>

\* SaramaKafkaFactory.NewClient and saramaKafkaClient.NewConsumer and
\* NewProducer hand sarama's error back unchanged, with no client created.
ClientCallFails == StartErrors /\ StartFails

(* Configuration: which brokers, topics, TLS files and SASL credentials   *)
(* the command line or the KAFKA_* variables name.  Only whether a value  *)
(* is set decides any branch.                                              *)
Configs ==
    [topicOut : BOOLEAN, topicIn : BOOLEAN, consumerGroup : BOOLEAN,
     clientCerts : BOOLEAN, clientKey : BOOLEAN, username : BOOLEAN,
     password : BOOLEAN, tlsEnabled : BOOLEAN, caCerts : BOOLEAN]

\* kldutils.AllOrNoneReqd: an error when one flag of the pair is set
\* without the other.
AllOrNoneReqd(a, b) == a = b

\* CobraPreRunE: the three topic and group checks, then both flag pairs.
\* Cobra runs the command, and so Start, only when it returned nil.
CobraPreRunE(c) ==
    /\ c.topicOut /\ c.topicIn /\ c.consumerGroup
    /\ AllOrNoneReqd(c.clientCerts, c.clientKey)
    /\ AllOrNoneReqd(c.username, c.password)

\* CreateTLSConfiguration returns an error only with TLS enabled, when the
\* client key pair (both files named) or the CA file fails to load.
TLSLoadMayFail(c) ==
    /\ c.tlsEnabled /\ FileErrors
    /\ (c.clientCerts /\ c.clientKey) \/ c.caCerts

\* connect: CreateTLSConfiguration, SASL and producer settings, then
\* factory.NewClient; either error is returned.
Connect ==
    /\ phase = "connect"
    /\ \E c \in {cf \in Configs : CobraPreRunE(cf)} :
          \/ /\ phase' = "startConsumer"
             /\ UNCHANGED <<mongo, consumer, producer, loop, consumerWG, producerWG>>
          \/ TLSLoadMayFail(c) /\ StartFails
          \/ ClientCallFails
    /\ UNCHANGED <<bus, stored, inflight, sent, reported>>

Spawn(ls) == [l \in Loops |-> IF l \in ls THEN "running" ELSE loop[l]]

\* startConsumer: client.NewConsumer, consumerWG.Add(3), and the error,
\* notification and message goroutines.
StartConsumer ==
    /\ phase = "startConsumer"
    /\ \/ /\ phase' = "startProducer"
          /\ consumer' = "open"
          /\ consumerWG' = consumerWG + 3
          /\ loop' = Spawn(ConsumerLoops)
          /\ UNCHANGED <<mongo, producer, producerWG>>
       \/ ClientCallFails
    /\ UNCHANGED <<bus, stored, inflight, sent, reported>>

\* startProducer with producerWG.Add(1) for its two goroutines.
StartProducerAddOne ==
    /\ phase = "startProducer"
    /\ phase' = "running"
    /\ producer' = "open"
    /\ producerWG' = 1
    /\ loop' = Spawn(ProducerLoops)
    /\ UNCHANGED <<mongo, consumer, consumerWG, bus, stored, inflight, sent, reported>>

\* startProducer: client.NewProducer, producerWG.Add(2), and the error and
\* success goroutines.  A failure returns with the consumer left running.
StartProducer ==
    /\ phase = "startProducer"
    /\ \/ /\ phase' = "running"
          /\ producer' = "open"
          /\ producerWG' = producerWG + 2
          /\ loop' = Spawn(ProducerLoops)
          /\ UNCHANGED <<mongo, consumer, consumerWG>>
       \/ ClientCallFails
    /\ UNCHANGED <<bus, stored, inflight, sent, reported>>

\* The signal case without consumer.Close.
SignalWithoutClose ==
    /\ phase = "running"
    /\ phase' = "waitProducer"
    /\ producer' = "closing"
    /\ UNCHANGED <<mongo, consumer, loop, consumerWG, producerWG, bus, stored,
                   inflight, sent, reported>>

\* case <-k.signals: producer.AsyncClose() and consumer.Close().
Signal ==
    /\ phase = "running"
    /\ phase' = "waitProducer"
    /\ producer' = "closing"
    /\ consumer' = "closed"
    /\ UNCHANGED <<mongo, loop, consumerWG, producerWG, bus, stored, inflight, sent,
                   reported>>

\* producerWG.Wait() returning without the wait.
WaitProducerSkipped ==
    /\ phase = "waitProducer"
    /\ phase' = "waitConsumer"
    /\ UNCHANGED <<mongo, consumer, producer, loop, consumerWG, producerWG, bus,
                   stored, inflight, sent, reported>>

\* producerWG.Wait() returns once both producer goroutines called Done.
WaitProducer ==
    /\ phase = "waitProducer" /\ producerWG = 0
    /\ phase' = "waitConsumer"
    /\ UNCHANGED <<mongo, consumer, producer, loop, consumerWG, producerWG, bus,
                   stored, inflight, sent, reported>>

\* Start returning without consumerWG.Wait().
WaitConsumerSkipped ==
    /\ phase = "waitConsumer"
    /\ phase' = "returned"
    /\ UNCHANGED <<mongo, consumer, producer, loop, consumerWG, producerWG, bus,
                   stored, inflight, sent, reported>>

\* consumerWG.Wait() returns; Start returns nil.
WaitConsumer ==
    /\ phase = "waitConsumer" /\ consumerWG = 0
    /\ phase' = "returned"
    /\ UNCHANGED <<mongo, consumer, producer, loop, consumerWG, producerWG, bus,
                   stored, inflight, sent, reported>>

-----------------------------------------------------------------------------
(* The goroutines                                                          *)

\* Ingress hands a message to producer.Input() while the producer is open.
Produce(q) ==
    /\ producer = "open" /\ q \notin sent
    /\ inflight' = inflight \cup {q}
    /\ sent' = sent \cup {q}
    /\ UNCHANGED <<startVars, bus, stored, reported>>

\* A producer goroutine takes the success or the error of a message.
Report(q, l) ==
    /\ l \in ProducerLoops /\ loop[l] = "running"
    /\ q \in inflight
    /\ inflight' = inflight \ {q}
    /\ reported' = reported \cup {q}
    /\ UNCHANGED <<startVars, bus, stored, sent>>

\* AsyncClose has flushed every in-flight message: Successes() and
\* Errors() are closed.
ProducerDrained ==
    /\ producer = "closing" /\ inflight = {}
    /\ producer' = "closed"
    /\ UNCHANGED <<mongo, phase, consumer, loop, consumerWG, producerWG, bus, stored,
                   inflight, sent, reported>>

\* A goroutine's range loop ends when its channel is closed; it calls
\* wg.Done() on its wait group.
LoopEnds(l) ==
    /\ loop[l] = "running"
    /\ IF l \in ConsumerLoops THEN consumer = "closed" ELSE producer = "closed"
    /\ loop' = [loop EXCEPT ![l] = "done"]
    /\ IF l \in ConsumerLoops
       THEN consumerWG' = consumerWG - 1 /\ UNCHANGED producerWG
       ELSE producerWG' = producerWG - 1 /\ UNCHANGED consumerWG
    /\ UNCHANGED <<mongo, phase, consumer, producer, bus, stored, inflight, sent,
                   reported>>

\* mongo.Insert with _id = requestId: a second document with an _id already
\* in the collection fails with a duplicate-key error, which is logged.
Insert(i, r) == IF stored[i] # None THEN stored ELSE [stored EXCEPT ![i] = r]

\* ConsumerMessagesLoop -> processReply of the next reply: a reply without
\* a usable requestId is logged and dropped; with w.mongo nil every reply
\* is dropped; otherwise it is inserted, and a failed insert is logged and
\* dropped.  No offset is marked.
ProcessReply ==
    /\ loop["messages"] = "running" /\ consumer = "open" /\ bus # <<>>
    /\ LET r == Head(bus)
       IN  \/ ReplyId[r] = NoId /\ UNCHANGED stored
           \/ ReplyId[r] # NoId /\ ~mongo /\ UNCHANGED stored
           \/ ReplyId[r] # NoId /\ mongo /\ stored' = Insert(ReplyId[r], r)
           \/ ReplyId[r] # NoId /\ mongo /\ InsertErrors /\ UNCHANGED stored
    /\ bus' = Tail(bus)
    /\ UNCHANGED <<startVars, inflight, sent, reported>>

Next ==
    \/ ConnectMongoDB \/ Connect \/ StartConsumer \/ StartProducer
    \/ Signal \/ WaitProducer \/ WaitConsumer
    \/ \E q \in Requests : Produce(q) \/ \E l \in ProducerLoops : Report(q, l)
    \/ ProducerDrained \/ ProcessReply
    \/ \E l \in Loops : LoopEnds(l)

\* Start's goroutine, sarama's and the five loops keep running; the signal
\* and ingress owe nothing.
Fairness ==
    /\ WF_vars(ConnectMongoDB) /\ WF_vars(Connect) /\ WF_vars(StartConsumer) /\ WF_vars(StartProducer)
    /\ WF_vars(WaitProducer) /\ WF_vars(WaitConsumer)
    /\ WF_vars(ProducerDrained) /\ WF_vars(ProcessReply)
    /\ \A l \in Loops : WF_vars(LoopEnds(l))
    /\ \A l \in ProducerLoops : WF_vars(\E q \in Requests : Report(q, l))

Spec == Init /\ [][Next]_vars /\ Fairness

-----------------------------------------------------------------------------

TypeOK ==
    /\ mongo \in BOOLEAN
    /\ phase \in {"connectMongo", "connect", "startConsumer", "startProducer", "running",
                  "waitProducer", "waitConsumer", "returned", "failed"}
    /\ consumer \in {"none", "open", "closed"}
    /\ producer \in {"none", "open", "closing", "closed"}
    /\ loop \in [Loops -> {"none", "running", "done"}]
    /\ consumerWG \in Nat /\ producerWG \in Nat
    /\ stored \in [Ids -> DOMAIN ReplyId \cup {None}]
    /\ inflight \subseteq sent /\ sent \subseteq Requests
    /\ reported \subseteq sent

\* Start returns nil only after every goroutine startConsumer and
\* startProducer spawned has ended (the two WaitGroup.Wait calls).
ReturnedAfterLoops ==
    phase = "returned" => \A l \in Loops : loop[l] = "done"

\* Once producerWG.Wait returned, every message handed to the producer has
\* had its success or error taken by a producer goroutine: shutdown loses
\* no delivery report.
AllProducedReported ==
    phase \in {"waitConsumer", "returned"} => reported = sent

\* After the interrupt signal, Start eventually returns: AsyncClose and
\* Close end every goroutine, so neither Wait blocks for ever.
ShutdownTerminates ==
    phase = "waitProducer" ~> phase = "returned"

=============================================================================
