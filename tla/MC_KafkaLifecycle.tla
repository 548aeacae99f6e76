-------------------------- MODULE MC_KafkaLifecycle --------------------------
EXTENDS KafkaLifecycle, TLC

CONSTANTS i1, i2, r1, r2, r3, q1, q2

MCIds == {i1, i2}
MCRequests == {q1, q2}

\* r1 and r2 carry the same requestId (a redelivered or duplicate reply);
\* r3 is dropped by processReply.
MCReplyId == (r1 :> i1) @@ (r2 :> i1) @@ (r3 :> NoId)
MCBusReplies == <<r1, r3, r2>>

=============================================================================
