---------------------------- MODULE MC_ReplyQuery ----------------------------
EXTENDS ReplyQuery

\* Numbers a limit or skip parameter carries: below zero, zero, and up to
\* one above QueryLimit.
MCNums == -1..(QueryLimit + 1)
=============================================================================
