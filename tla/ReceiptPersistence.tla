------------------------- MODULE ReceiptPersistence -------------------------
(***************************************************************************)
(* The receipt persistence tier (spec 4.B) as operators over one value:    *)
(* the stored receipts as a sequence, newest first.  A receipt is a record *)
(* [id |-> request id, type |-> headers.type]; everything else in the      *)
(* document (hashes, payloads, receivedAt) is data no property tells apart.*)
(*                                                                         *)
(* Two implementations:                                                    *)
(*  - the document store (MongoDB): _id is the primary key, so at most one *)
(*    receipt per id; AddReceipt with overwrite=false fails KeyNotUnique.  *)
(*    Its driver is not part of the repository: modelled from spec 4.B.    *)
(*  - memoryReceipts (src/unnamed/part_001): a container/list, newest at   *)
(*    the front, capped at MaxDocs by dropping the back; AddReceipt takes  *)
(*    only the document, so it neither checks the key nor replaces.        *)
(***************************************************************************)
EXTENDS Naturals, Sequences, SequencesExt

CONSTANTS
    MaxDocs,    \* conf.MaxDocs of the in-memory list
    None        \* "no receipt"

\* GetReceipt scanning from the back (the oldest match first).
GetReceiptOldest(store, id) ==
    LET ks == {k \in DOMAIN store : store[k].id = id}
    IN  IF ks = {} THEN None ELSE store[Max(ks)]

\* memoryReceipts.GetReceipt: scan from the front, first receipt whose _id
\* matches.  On the document store the key is unique, so the first match is
\* the only one.
GetReceipt(store, id) ==
    LET k == SelectInSeq(store, LAMBDA r : r.id = id)
    IN  IF k = 0 THEN None ELSE store[k]

\* AddReceipt evicting only above MaxDocs (> in place of >=).
MemoryAddReceiptOverCap(store, rec) ==
    LET kept == IF Len(store) > 0 /\ Len(store) > MaxDocs
                THEN SubSeq(store, 1, Len(store) - 1)
                ELSE store
    IN  [ok |-> TRUE, store |-> <<rec>> \o kept]

\* memoryReceipts.AddReceipt: when the list is non-empty and at MaxDocs,
\* remove the back element; then push the receipt on the front.  Never fails.
MemoryAddReceipt(store, rec) ==
    LET kept == IF Len(store) > 0 /\ Len(store) >= MaxDocs
                THEN SubSeq(store, 1, Len(store) - 1)
                ELSE store
    IN  [ok |-> TRUE, store |-> <<rec>> \o kept]

\* Document store AddReceipt(id, receipt, overwrite) (spec 4.B): with
\* overwrite the document for the key is replaced; without it an existing key
\* is a KeyNotUnique error and nothing is written.
MongoAddReceipt(store, rec, overwrite) ==
    LET others == SelectSeq(store, LAMBDA r : r.id # rec.id)
    IN  IF ~overwrite /\ GetReceipt(store, rec.id) # None
        THEN [ok |-> FALSE, store |-> store]
        ELSE [ok |-> TRUE, store |-> <<rec>> \o others]

=============================================================================
