---------------------------- MODULE LogConsumer ----------------------------
(***************************************************************************)
(* What the indexing engine promises its aggregators: it consumes a        *)
(* growing log of blocks at least once.  The cursor only moves past        *)
(* entries that were delivered or reported as missing, a stored cursor is  *)
(* never ahead of what was consumed, and a restart continues from it.      *)
(* Loops, ranges and the pins inside an entry do not appear here.          *)
(***************************************************************************)
EXTENDS Naturals

CONSTANTS
    Length,  \* entries that the log has in the end
    Start    \* the cursor of a consumer that has stored none

VARIABLES
    tip,        \* entries in the log
    cursor,     \* position of the running consumer
    saved,      \* stored position, 0 when there is none
    delivered,  \* entries that have been delivered
    missing     \* entries that could not be read

vars == <<tip, cursor, saved, delivered, missing>>

Init ==
    /\ tip = 0
    /\ cursor = Start /\ saved = 0
    /\ delivered = {} /\ missing = {}

Grow ==
    /\ tip < Length
    /\ tip' = tip + 1
    /\ UNCHANGED <<cursor, saved, delivered, missing>>

\* Entries after the cursor are delivered, again after a restart.
Deliver(k) ==
    /\ k \in (cursor + 1)..tip
    /\ delivered' = delivered \cup {k}
    /\ UNCHANGED <<tip, cursor, saved, missing>>

Miss(k) ==
    /\ k \in (cursor + 1)..tip
    /\ missing' = missing \cup {k}
    /\ UNCHANGED <<tip, cursor, saved, delivered>>

\* The cursor moves past k, which has been delivered, and everything before it
\* has been dealt with.  The position may not reach the store.
Acknowledge(k) ==
    /\ k \in (cursor + 1)..tip
    /\ k \in delivered'
    /\ \A j \in (cursor + 1)..k : j \in delivered' \cup missing
    /\ delivered' \in {delivered, delivered \cup {k}}
    /\ cursor' = k
    /\ saved' \in {k, saved}
    /\ UNCHANGED <<tip, missing>>

Restart ==
    /\ cursor' = IF saved > 0 THEN saved ELSE Start
    /\ UNCHANGED <<tip, saved, delivered, missing>>

Next ==
    \/ Grow \/ Restart
    \/ \E k \in 1..Length : Deliver(k) \/ Miss(k) \/ Acknowledge(k)

Spec == Init /\ [][Next]_vars
=============================================================================
