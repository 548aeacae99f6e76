---------------------------- MODULE ReceiptStore ----------------------------
(***************************************************************************)
(* The request/reply bridge core around the receipt store                  *)
(* (src/internal/eth/privacygroup.go, package rest, receiptStore):         *)
(*                                                                         *)
(*  - HTTP ingress handlers admit a request: reserveID, produce it on the  *)
(*    request topic, writeAccepted, release the reservation;               *)
(*  - the downstream worker (environment) consumes requests and produces   *)
(*    replies, and on a duplicate request a redelivery-prevented reply;    *)
(*  - the single reply consumer runs processReply per message, whose       *)
(*    writeReceipt(overwrite=true) retries until success or the retry      *)
(*    deadline, where it panics;                                           *)
(*  - the consumer group commits the processed offset;                     *)
(*  - the process may restart: in-memory state is lost, the consumer       *)
(*    resumes from the committed offset.                                   *)
(***************************************************************************)
EXTENDS Naturals, Sequences, FiniteSets, SequencesExt

CONSTANTS
    Ids,              \* request ids callers supply
    Handlers,         \* concurrent HTTP ingress handlers
    ReplyTypes,       \* reply types the worker may produce for a request
    Persistence,      \* "mongo" (document store) or "memory" (memoryReceipts)
    MaxDocs,          \* conf.MaxDocs of memoryReceipts
    ReadErrors,       \* persistence GetReceipt may fail transiently
    WriteErrors,      \* persistence AddReceipt may fail transiently
    RetryLimit,       \* failed writeReceipt attempts before RetryTimeoutMS passes
    MaxRequests,      \* bound: ingress requests started
    MaxExtraReplies,  \* bound: redelivery-prevented and malformed replies
    MaxCrashes,       \* bound: process restarts
    None

\* headers.type values (messages.MsgType*)
Success             == "TransactionSuccess"
Failure             == "TransactionFailure"
Error               == "Error"
RedeliveryPrevented == "TransactionRedeliveryPrevented"
Request             == "SendTransaction"    \* the request written by writeAccepted

ReplyKinds == {Success, Failure, Error, RedeliveryPrevented}

ASSUME /\ ReplyTypes \subseteq {Success, Failure, Error}
       /\ Persistence \in {"mongo", "memory"}
       /\ ReadErrors \in BOOLEAN /\ WriteErrors \in BOOLEAN
       /\ \A n \in {MaxDocs, RetryLimit, MaxRequests, MaxExtraReplies, MaxCrashes} : n \in Nat

P == INSTANCE ReceiptPersistence

VARIABLES
    store,      \* the persistence: receipts, newest first
    reserved,   \* receiptStore.reservedIDs
    handler,    \* per ingress handler: [pc, id]
    started,    \* ingress requests started (bounded)
    requests,   \* request topic: ids in offset order
    worked,     \* request offset the worker has consumed up to
    replies,    \* reply topic (one partition): [id, type] in offset order
    extra,      \* extra replies produced (bounded)
    consumed,   \* reply offset processReply has finished
    committed,  \* consumer group committed offset
    inflight,   \* receipt held by the writeReceipt retry loop, or None
    attempt,    \* failed attempts of that loop
    crashes     \* restarts so far (bounded)

ingressVars  == <<reserved, handler, started>>
busVars      == <<requests, worked, replies, extra>>
consumerVars == <<consumed, committed, inflight, attempt>>
vars == <<store, ingressVars, busVars, consumerVars, crashes>>

ReadOutcomes  == IF ReadErrors THEN BOOLEAN ELSE {TRUE}
WriteOutcomes == IF WriteErrors THEN BOOLEAN ELSE {TRUE}

Idle == [pc |-> "idle", id |-> None]

\* The persistence configured for the store.
AddReceipt(rec, overwrite) ==
    IF Persistence = "mongo" THEN P!MongoAddReceipt(store, rec, overwrite)
                             ELSE P!MemoryAddReceipt(store, rec)

StoredType(i) ==
    LET r == P!GetReceipt(store, i) IN IF r = None THEN None ELSE r.type

-----------------------------------------------------------------------------
(* Ingress (spec 4.F) around reserveID / writeAccepted                      *)

\* Fault variant of Reservable: the reservation set is not consulted.
ReservableIgnoringReservations(i, readOk) ==
    /\ readOk
    /\ P!GetReceipt(store, i) = None

\* reserveID: under reservationMux, no stored receipt and no reservation.
Reservable(i, readOk) ==
    /\ readOk
    /\ P!GetReceipt(store, i) = None
    /\ i \notin reserved

\* The release handle returned by reserveID.
Release(i) == reserved' = reserved \ {i}

ReserveID(h, i) ==
    /\ handler[h].pc = "idle"
    /\ started < MaxRequests
    /\ started' = started + 1
    /\ \E readOk \in ReadOutcomes :
          IF Reservable(i, readOk)
          THEN /\ reserved' = reserved \cup {i}
               /\ handler' = [handler EXCEPT ![h] = [pc |-> "reserved", id |-> i]]
          ELSE UNCHANGED <<reserved, handler>>   \* error or KeyNotUnique: 409/500
    /\ UNCHANGED <<store, busVars, consumerVars, crashes>>

\* Produce to the request topic; on failure release and return 500.
Produce(h) ==
    /\ handler[h].pc = "reserved"
    /\ \/ /\ requests' = Append(requests, handler[h].id)
          /\ handler' = [handler EXCEPT ![h].pc = "produced"]
          /\ UNCHANGED reserved
       \/ /\ Release(handler[h].id)
          /\ handler' = [handler EXCEPT ![h] = Idle]
          /\ UNCHANGED requests
    /\ UNCHANGED <<store, started, worked, replies, extra, consumerVars, crashes>>

\* Fault variant of WriteAccepted: the accepted write overwrites.
WriteAcceptedOverwrite(h) ==
    LET rec == [id |-> handler[h].id, type |-> Request]
    IN  /\ handler[h].pc = "produced"
        /\ store' = AddReceipt(rec, TRUE).store
        /\ Release(rec.id)
        /\ handler' = [handler EXCEPT ![h] = Idle]
        /\ UNCHANGED <<started, busVars, consumerVars, crashes>>

\* writeAccepted: one writeReceipt attempt with overwrite=false, whose error
\* is returned at once; then the reservation is released.
WriteAccepted(h) ==
    LET rec == [id |-> handler[h].id, type |-> Request]
    IN  /\ handler[h].pc = "produced"
        /\ \E writeOk \in WriteOutcomes :
              store' = IF writeOk THEN AddReceipt(rec, FALSE).store ELSE store
        /\ Release(rec.id)
        /\ handler' = [handler EXCEPT ![h] = Idle]
        /\ UNCHANGED <<started, busVars, consumerVars, crashes>>

-----------------------------------------------------------------------------
(* The downstream worker (environment, outside the repository)             *)

WorkerReply ==
    /\ worked < Len(requests)
    /\ worked' = worked + 1
    /\ \E t \in ReplyTypes :
          replies' = Append(replies, [id |-> requests[worked + 1], type |-> t])
    /\ UNCHANGED <<store, ingressVars, requests, extra, consumerVars, crashes>>

\* A request seen again by the worker is answered redelivery-prevented.
WorkerRedelivery ==
    /\ extra < MaxExtraReplies
    /\ extra' = extra + 1
    /\ \E o \in 1..worked :
          replies' = Append(replies, [id |-> requests[o], type |-> RedeliveryPrevented])
    /\ UNCHANGED <<store, ingressVars, requests, worked, consumerVars, crashes>>

\* A reply that is not JSON, has no headers or no headers.requestId.
MalformedReply ==
    /\ extra < MaxExtraReplies
    /\ extra' = extra + 1
    /\ replies' = Append(replies, [id |-> None, type |-> None])
    /\ UNCHANGED <<store, ingressVars, requests, worked, consumerVars, crashes>>

-----------------------------------------------------------------------------
(* The reply consumer: processReply and writeReceipt                        *)

\* The redelivery-prevented branch keeps an existing receipt only when the
\* read succeeded and its headers.type is TransactionFailure or Success.
AlreadyReceipted(existing) ==
    existing # None /\ existing.type \in {Failure, Success}

ProcessReply ==
    /\ inflight = None
    /\ consumed < Len(replies)
    /\ LET r == replies[consumed + 1]
       IN  \E readOk \in ReadOutcomes :
             IF \/ r.id = None
                \/ /\ r.type = RedeliveryPrevented
                   /\ readOk
                   /\ AlreadyReceipted(P!GetReceipt(store, r.id))
             THEN /\ consumed' = consumed + 1          \* dropped
                  /\ UNCHANGED inflight
             ELSE /\ inflight' = r                     \* stamp _id, writeReceipt
                  /\ UNCHANGED consumed
    /\ UNCHANGED <<store, ingressVars, busVars, committed, attempt, crashes>>

WriteReceiptOk ==
    /\ inflight # None
    /\ store' = AddReceipt(inflight, TRUE).store
    /\ consumed' = consumed + 1
    /\ inflight' = None
    /\ attempt' = 0
    /\ UNCHANGED <<ingressVars, busVars, committed, crashes>>

\* Process restart: in-memory state (reservations, handlers, the retry loop,
\* memoryReceipts) is lost; the consumer resumes after the committed offset.
Restart ==
    /\ crashes < MaxCrashes
    /\ crashes' = crashes + 1
    /\ store' = IF Persistence = "memory" THEN <<>> ELSE store
    /\ reserved' = {}
    /\ handler' = [h \in Handlers |-> Idle]
    /\ consumed' = committed
    /\ inflight' = None
    /\ attempt' = 0
    /\ UNCHANGED <<started, busVars, committed>>

\* Fault variant of WriteReceiptFail: the retry deadline is never checked.
WriteReceiptFailNoDeadline ==
    /\ inflight # None
    /\ WriteErrors
    /\ attempt' = attempt + 1
    /\ UNCHANGED <<store, ingressVars, busVars, consumed, committed, inflight, crashes>>

\* A failed attempt sleeps and retries; past the deadline log.Panicf.
WriteReceiptFail ==
    /\ inflight # None
    /\ WriteErrors
    /\ \/ /\ attempt < RetryLimit
          /\ attempt' = attempt + 1
          /\ UNCHANGED <<store, ingressVars, busVars, consumed, committed, inflight, crashes>>
       \/ /\ attempt = RetryLimit
          /\ Restart

\* Fault variant of Commit: the offset of the next message is marked
\* before processReply has persisted it.
CommitAhead ==
    /\ committed <= consumed
    /\ consumed < Len(replies)
    /\ committed' = consumed + 1
    /\ UNCHANGED <<store, ingressVars, busVars, consumed, inflight, attempt, crashes>>

\* The consumer group commits the offset of processed replies.
Commit ==
    /\ committed < consumed
    /\ committed' = consumed
    /\ UNCHANGED <<store, ingressVars, busVars, consumed, inflight, attempt, crashes>>

-----------------------------------------------------------------------------
Init ==
    /\ store = <<>>
    /\ reserved = {}
    /\ handler = [h \in Handlers |-> Idle]
    /\ started = 0
    /\ requests = <<>>
    /\ worked = 0
    /\ replies = <<>>
    /\ extra = 0
    /\ consumed = 0
    /\ committed = 0
    /\ inflight = None
    /\ attempt = 0
    /\ crashes = 0

Next ==
    \/ \E h \in Handlers, i \in Ids : ReserveID(h, i)
    \/ \E h \in Handlers : Produce(h) \/ WriteAccepted(h)
    \/ WorkerReply \/ WorkerRedelivery \/ MalformedReply
    \/ ProcessReply \/ WriteReceiptOk \/ WriteReceiptFail
    \/ Commit \/ Restart

\* The consumer goroutine and the worker keep running; the persistence
\* eventually accepts a write (else the deadline panics, and restarts are
\* bounded).  Ingress, failures and restarts get no fairness.
Fairness ==
    /\ WF_vars(WorkerReply)
    /\ WF_vars(ProcessReply)
    /\ WF_vars(WriteReceiptOk)
    /\ WF_vars(Commit)

Spec == Init /\ [][Next]_vars /\ Fairness

-----------------------------------------------------------------------------
(* Properties                                                               *)

StoredTypes == ReplyKinds \cup {Request}
ReplyRecs == [id : Ids, type : ReplyKinds] \cup {[id |-> None, type |-> None]}

TypeOK ==
    /\ store \in Seq([id : Ids, type : StoredTypes])
    /\ reserved \subseteq Ids
    /\ handler \in [Handlers -> [pc : {"idle", "reserved", "produced"}, id : Ids \cup {None}]]
    /\ started \in 0..MaxRequests
    /\ requests \in Seq(Ids)
    /\ replies \in Seq(ReplyRecs)
    /\ worked \in 0..Len(requests)
    /\ consumed \in 0..Len(replies)
    /\ committed \in 0..consumed
    /\ inflight \in ReplyRecs \cup {None}
    /\ attempt \in 0..RetryLimit
    /\ crashes \in 0..MaxCrashes

\* Receipts in these states are final (spec 3 and the state machine of 4.C:
\* success, failure/error, and the synthetic error of redelivery-prevented).
TerminalTypes == ReplyKinds

\* The state of the receipt of id i in the terms of spec 4.C.
ReceiptState(i) ==
    CASE StoredType(i) = None    -> "none"
      [] StoredType(i) = Request -> "pending"
      [] OTHER                   -> "terminal"

Abstract == INSTANCE ReceiptAbstract WITH receipt <- [i \in Ids |-> ReceiptState(i)]

\* The store implements the per-id state machine of spec 4.C: in any
\* interleaving of ingress handlers, replies, redeliveries, failed writes and
\* restarts, a receipt is only ever created pending or terminal, goes from
\* pending only to terminal, never leaves terminal and never disappears
\* (writeAccepted with overwrite=false, processReply with overwrite=true).
\* The abstract liveness, a pending receipt is eventually completed, follows
\* from ReceiptEventuallyTerminal: a receipt is pending only once its request
\* is on the bus.
ReceiptLifecycle == Abstract!SafeSpec

\* Spec 8.2 and the 4.C state machine: once the receipt of a request is a
\* success or a failure (an Error reply is the failure of the state machine),
\* a redelivery-prevented reply leaves it unchanged; processReply must never
\* replace it by the synthetic resubmission-prevented error.
RedeliveryKeepsTerminal ==
    [][\A i \in Ids :
         StoredType(i) \in {Success, Failure, Error} =>
            StoredType(i)' # RedeliveryPrevented]_store

\* Spec S2 and 4.C reservation protocol: a request id is admitted to the bus
\* at most once; a second submission with the same id, concurrent or later,
\* is refused with KeyNotUnique.
AdmitOnce ==
    \A i \in Ids : Cardinality({k \in DOMAIN requests : requests[k] = i}) <= 1

\* Spec 8.4: every request produced to the bus eventually has a terminal
\* receipt, across lost in-flight writes, panics and restarts.
ReceiptEventuallyTerminal ==
    \A i \in Ids :
        (\E k \in DOMAIN requests : requests[k] = i) ~> (StoredType(i) \in TerminalTypes)

=============================================================================
