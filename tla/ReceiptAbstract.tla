--------------------------- MODULE ReceiptAbstract ---------------------------
(***************************************************************************)
(* What the receipt store promises a client about one request id: the     *)
(* state machine of spec 4.C.  A receipt is absent, pending (the accepted  *)
(* write of ingress) or terminal (a reply: success, failure, error, or the *)
(* synthetic error of a redelivery-prevented reply).  A reply may arrive   *)
(* before the accepted write, so an id can go straight to terminal.  A     *)
(* terminal receipt never returns to pending and no receipt disappears.    *)
(***************************************************************************)
CONSTANT Ids

VARIABLE receipt

States == {"none", "pending", "terminal"}

Init == receipt = [i \in Ids |-> "none"]

\* Ingress: the accepted write of an admitted request.
Accept(i) ==
    /\ receipt[i] = "none"
    /\ receipt' = [receipt EXCEPT ![i] = "pending"]

\* Reply ingestion completes a pending request.
Resolve(i) ==
    /\ receipt[i] = "pending"
    /\ receipt' = [receipt EXCEPT ![i] = "terminal"]

\* The reply is stored before the accepted write of its own request.
Overtake(i) ==
    /\ receipt[i] = "none"
    /\ receipt' = [receipt EXCEPT ![i] = "terminal"]

Next == \E i \in Ids : Accept(i) \/ Resolve(i) \/ Overtake(i)

\* The safety part: the transitions the store may take.
SafeSpec == Init /\ [][Next]_receipt

\* A pending request is eventually completed: the bus delivers the reply
\* and the reply path retries its write until it succeeds.
Spec == Init /\ [][Next]_receipt /\ \A i \in Ids : WF_receipt(Resolve(i))

=============================================================================
