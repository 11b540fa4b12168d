------------------------- MODULE MCPublishedContent -------------------------
(***************************************************************************)
(* An instance of PublishedContent for TLC.  The chain holds a create and  *)
(* two modifies, the second one of the first; or a create, a modify and a  *)
(* revoke; or a create, a revoke and a modify without a payload.  The      *)
(* engine's two goroutines run together, or the scan and a replay, or one  *)
(* goroutine runs alone.  The publisher has three more records: one that   *)
(* only his address leads to, one with all his ids, and a hidden one.      *)
(* The first modify may be polled again, when there is no crash.           *)
(***************************************************************************)
EXTENDS ContentSections

CONSTANTS c, m1, m2, m3, r, o1, o2, o3

MCChains == {<<c, m1, m2>>, <<c, m1, r>>, <<c, r, m3>>}
MCWriterSets == {{"scan", "mempool"}, {"scan", "replay"}, {"scan"}, {"backfill"}, {"replay"}}

MCOpOf(p) == IF p = c THEN "create" ELSE IF p = r THEN "revoke" ELSE "modify"
MCTargetOf(p) == IF p = c THEN NoPin ELSE IF p = m2 THEN m1 ELSE c

MCOp == [p \in {c, m1, m2, m3, r} |-> MCOpOf(p)]
MCTarget == [p \in {c, m1, m2, m3, r} |-> MCTargetOf(p)]
\* Block times follow the chain; a mempool time is later than the block's.
MCRank == [p \in {c, m1, m2, m3, r} |-> CASE p = c -> 1 [] p = m1 -> 3 [] OTHER -> 5]
\* The time of the revoke's block is before that of the block below it.
MCMinedAt == [p \in {c, m1, m2, m3, r} |-> CASE p = c -> 1 [] p = m1 -> 3 [] p = r -> 2 [] OTHER -> 4]
MCStamp == [t \in {c, m1, m2, m3, r} \X BOOLEAN |-> 10 * MCRank[t[1]] + (IF t[2] THEN 25 ELSE 0)]
MCOthers ==
    {[id |-> o1, ids |-> {"address"}, hidden |-> FALSE, stamp |-> 20],
     [id |-> o2, ids |-> {"global", "metaid", "address"}, hidden |-> FALSE, stamp |-> 40],
     [id |-> o3, ids |-> {"global", "address"}, hidden |-> TRUE, stamp |-> 60]}

MCNext == Next /\ \A p \in Pins : polled'[p] > 1 => p = m1 /\ crashes' = 0
MCSpec == Init /\ [][MCNext]_vars
=============================================================================
