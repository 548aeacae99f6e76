----------------------------- MODULE ReplyQuery -----------------------------
(***************************************************************************)
(* The receipt query API of the receipt store                              *)
(* (src/internal/eth/privacygroup.go: getReplies, getReply,                *)
(* marshalAndReply) over the in-memory persistence (src/unnamed/part_001,  *)
(* memoryReceipts: AddReceipt, GetReceipts, GetReceipt).                   *)
(*                                                                         *)
(* A request is a record of parameter classes: whether auth passes, the    *)
(* id filter (none, all valid, one invalid), limit and skip (absent, not   *)
(* an integer, or a number), since (absent, RFC3339, epoch ms, neither).   *)
(* The handler's answer is the sequence of responses it writes: the HTTP   *)
(* status and, for 200, the receipts it serialises.  A receipt is          *)
(* [id |-> request id, n |-> the number of the write that stored it], so   *)
(* two receipts of one id are told apart.  The memoryReceipts of part_001  *)
(* take skip, limit and ids only; the since/from/to/start filters the      *)
(* handler passes are not applied by it.                                   *)
(***************************************************************************)
EXTENDS Naturals, Sequences, SequencesExt

CONSTANTS
    Ids,           \* request ids receipts are written for
    MaxDocs,       \* conf.MaxDocs (newReceiptStore makes it > 0)
    QueryLimit,    \* conf.QueryLimit
    Nums,          \* the numbers a limit or skip parameter may carry
    StoreEnabled,  \* whether r.persistence may be nil (FALSE) or set (TRUE)
    MaxWrites,     \* receipts written in a run
    None

ASSUME /\ MaxDocs \in Nat \ {0} /\ QueryLimit \in Nat /\ Nums \subseteq Int
       /\ StoreEnabled \subseteq BOOLEAN /\ StoreEnabled # {}

P == INSTANCE ReceiptPersistence

\* privacygroup.go: the page size when the request names no limit.
defaultReceiptLimit == 10

NumParam == [kind : {"absent", "bad"}, n : {0}] \cup [kind : {"num"}, n : Nums]

Requests ==
    [auth : BOOLEAN, ids : {"none", "valid", "invalid"},
     limit : NumParam, skip : NumParam,
     since : {"absent", "rfc3339", "ms", "bad"}]

VARIABLES
    persistence,  \* r.persistence # nil
    store,        \* memoryReceipts.receipts, front first
    written,      \* history: the ids of the receipts written, oldest first
    answer        \* the last request handled and the responses it wrote

vars == <<persistence, store, written, answer>>

-----------------------------------------------------------------------------
(* memoryReceipts                                                          *)

\* The skip loop of GetReceipts: advance curElem skip times or to nil.
RECURSIVE SkipOneMore(_, _)
SkipOneMore(s, k) == IF k < 0 \/ s = <<>> THEN s ELSE SkipOneMore(Tail(s), k - 1)

RECURSIVE Skip(_, _)
Skip(s, k) == IF k <= 0 \/ s = <<>> THEN s ELSE Skip(Tail(s), k - 1)

\* The limit loop of GetReceipts: append up to limit elements.
RECURSIVE Take(_, _)
Take(s, k) == IF k <= 0 \/ s = <<>> THEN <<>> ELSE <<Head(s)>> \o Take(Tail(s), k - 1)

\* memoryReceipts.GetReceipts: an id filter is an error; otherwise the page.
GetReceipts(skip, limit, ids) ==
    IF ids # "none" THEN [ok |-> FALSE, page |-> None]
    ELSE [ok |-> TRUE, page |-> Take(Skip(store, skip), limit)]

\* A receipt is written (writeAccepted or writeReceipt of the store):
\* memoryReceipts.AddReceipt, which drops the back element at MaxDocs.
AddReceipt(i) ==
    /\ persistence /\ Len(written) < MaxWrites
    /\ store' = P!MemoryAddReceipt(store, [id |-> i, n |-> Len(written) + 1]).store
    /\ written' = Append(written, i)
    /\ answer' = None
    /\ UNCHANGED persistence

-----------------------------------------------------------------------------
(* The handlers                                                            *)

Status(code) == [status |-> code, body |-> None]

\* marshalAndReply: 200 with the JSON of the result.
Reply(result) == [status |-> 200, body |-> result]

\* limit: with ids the default is 0 (no limit); a number above QueryLimit
\* is rejected; a positive one replaces the default; 0 or less keeps it.
LimitOf(q) ==
    IF q.limit.kind = "num" /\ q.limit.n > 0 THEN q.limit.n
    ELSE IF q.ids # "none" THEN 0 ELSE defaultReceiptLimit

\* The checks of getReplies that end the request with an error, in order.
Rejected(q) ==
    CASE ~q.auth                                          -> 401
      [] ~persistence                                     -> 405
      [] q.ids = "invalid"                                -> 400
      [] q.limit.kind = "bad"                             -> 400
      [] q.limit.kind = "num" /\ q.limit.n > QueryLimit   -> 400
      [] q.skip.kind = "bad"                              -> 400
      [] q.skip.kind = "num" /\ q.skip.n <= 0             -> 400
      [] OTHER                                            -> 0

\* An unparsable since sends 400 and does not return.
SinceResponses(q) == IF q.since = "bad" THEN <<Status(400)>> ELSE <<>>

\* getReplies marshalling the result without checking the query's error.
GetRepliesResponsesNoErrCheck(q) ==
    IF Rejected(q) # 0 THEN <<Status(Rejected(q))>>
    ELSE LET r == GetReceipts(IF q.skip.kind = "num" THEN q.skip.n ELSE 0,
                              LimitOf(q), q.ids)
         IN  SinceResponses(q) \o <<Reply(r.page)>>

\* getReplies: the error of the first failing check, or the since error (if
\* any) followed by the query's 500 or 200.
GetRepliesResponses(q) ==
    IF Rejected(q) # 0 THEN <<Status(Rejected(q))>>
    ELSE LET r == GetReceipts(IF q.skip.kind = "num" THEN q.skip.n ELSE 0,
                              LimitOf(q), q.ids)
         IN  SinceResponses(q) \o
             <<IF r.ok THEN Reply(r.page) ELSE Status(500)>>

\* getReply: auth, then persistence.GetReceipt with no nil check: a nil
\* persistence panics, and net/http drops the connection with no response.
GetReplyResponses(i, auth) ==
    CASE ~auth                       -> <<Status(401)>>
      [] ~persistence                -> <<>>
      [] P!GetReceipt(store, i) = None -> <<Status(404)>>
      [] OTHER                       -> <<Reply(P!GetReceipt(store, i))>>

GetReplies(q) ==
    /\ answer' = [op |-> "replies", req |-> q, out |-> GetRepliesResponses(q)]
    /\ UNCHANGED <<persistence, store, written>>

GetReply(i, auth) ==
    /\ answer' = [op |-> "reply", id |-> i, out |-> GetReplyResponses(i, auth)]
    /\ UNCHANGED <<persistence, store, written>>

Init ==
    /\ persistence \in StoreEnabled
    /\ store = <<>>
    /\ written = <<>>
    /\ answer = None

Next ==
    \/ \E i \in Ids : AddReceipt(i)
    \/ \E q \in Requests : GetReplies(q)
    \/ \E i \in Ids, auth \in BOOLEAN : GetReply(i, auth)

Spec == Init /\ [][Next]_vars

-----------------------------------------------------------------------------
(* Properties                                                              *)

Receipt == [id : Ids, n : 1..MaxWrites]
ResponseOK(r, bodies) ==
    /\ r.status \in {200, 400, 401, 404, 405, 500}
    /\ r.status = 200 => r.body \in bodies
    /\ r.status # 200 => r.body = None

TypeOK ==
    /\ persistence \in BOOLEAN
    /\ store \in Seq(Receipt)
    /\ written \in Seq(Ids) /\ Len(written) <= MaxWrites
    /\ answer = None \/
       \A k \in DOMAIN answer.out :
           ResponseOK(answer.out[k],
                      IF answer.op = "replies" THEN Seq(Receipt) ELSE Receipt)

\* The receipt a write stored, named by its number.
WriteNo(k) == [id |-> written[k], n |-> k]

\* The window a page request asks for: skip receipts from the front, then
\* at most limit of them.
Window(s, skip, limit) == SubSeq(s, Min({skip, Len(s)}) + 1, Min({skip + limit, Len(s)}))

\* memoryReceipts.AddReceipt keeps the newest MaxDocs receipts, newest
\* first: after any sequence of writes the list is exactly the last
\* Min(n, MaxDocs) writes in reverse order (the eviction at MaxDocs).
EvictionKeepsNewest ==
    store = [k \in 1..Min({Len(written), MaxDocs}) |-> WriteNo(Len(written) + 1 - k)]

\* A 200 of getReplies carries the window the request named: skip (0 when
\* absent) receipts skipped, then the limit given, or 10 when none is given,
\* over the list as it stands (the skip and limit loops of GetReceipts).
PageIsRequestedWindow ==
    answer # None /\ answer.op = "replies" /\ Last(answer.out).status = 200 =>
        LET q == answer.req
        IN  Last(answer.out).body =
              Window(store, IF q.skip.kind = "num" THEN q.skip.n ELSE 0,
                     IF q.limit.kind = "num" /\ q.limit.n > 0 THEN q.limit.n ELSE 10)

\* The number of the newest write of receipt id i (0 if none).
LatestWrite(i) ==
    LET ks == {k \in DOMAIN written : written[k] = i}
    IN  IF ks = {} THEN 0 ELSE Max(ks)

\* getReply returns the newest receipt written for the id, as long as the
\* store still holds one, and 404 only when it holds none (GetReceipt's
\* front-first scan over a list that may hold an id more than once).
ReplyIsNewest ==
    answer # None /\ answer.op = "reply" /\ answer.out # <<>> =>
        /\ answer.out[1].status = 200 =>
               answer.out[1].body = WriteNo(LatestWrite(answer.id))
        /\ answer.out[1].status = 404 =>
               \A k \in DOMAIN store : store[k].id # answer.id

\* Every request is answered with exactly one response (spec 6: GET /replies
\* answers 200 with a JSON array or 400 on malformed params): getReplies
\* after an unparsable since, and getReply with no persistence, break it.
OneResponse == answer # None => Len(answer.out) = 1

=============================================================================
