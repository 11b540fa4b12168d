--------------------------- MODULE MCSkillService ---------------------------
(***************************************************************************)
(* An instance of SkillService for TLC: a service that is modified twice;  *)
(* one that is revoked and then modified; one with a rating that names it  *)
(* by its second version; one with a modify that cannot be decoded and a   *)
(* grade out of range; one that is modified and whose create is then       *)
(* revoked; and one whose create cannot be decoded.  There are three more  *)
(* services: two of the same provider, on this chain and on another one,   *)
(* and one of another provider; a page holds one service less than the     *)
(* provider can have.  The first of two modifies may be polled again, when *)
(* there is no crash.                                                      *)
(***************************************************************************)
EXTENDS SkillCatalog

CONSTANTS c, m1, m2, r, m3, g1, m0, g0, c0, m4, o1, o2, o3

MCChains == {<<c, m1, m2>>, <<c, r, m3>>, <<c, m1, g1>>, <<c, m0, g0>>,
              <<c, m1, r>>, <<c0, m4>>}
MCWriterSets == {{"scan", "mempool"}, {"scan"}}

MCPins == {c, m1, m2, r, m3, g1, m0, g0, c0, m4}
MCOp ==
    [p \in MCPins |->
        CASE p \in {c, c0} -> "create" [] p = r -> "revoke" [] p \in {g0, g1} -> "rate" [] OTHER -> "modify"]
MCTarget ==
    [p \in MCPins |->
        CASE p \in {c, c0} -> NoPin [] p \in {m2, g1} -> m1 [] p = m3 -> r [] p = m4 -> c0 [] OTHER -> c]
MCRate == [p \in MCPins |-> CASE p = g1 -> 3 [] p = g0 -> 6 [] OTHER -> 0]
\* Block times follow the chain; a mempool time is later than the block's.
MCRank == [p \in MCPins |-> CASE p \in {c, c0} -> 1 [] p \in {m1, r, m0, m4} -> 3 [] OTHER -> 5]
MCStamp == [t \in MCPins \X BOOLEAN |-> 10 * MCRank[t[1]] + (IF t[2] THEN 25 ELSE 0)]
MCBefore ==
    <<[id |-> o1, chain |-> "btc", visible |-> TRUE, ours |-> TRUE, stamp |-> 20, sum |-> 5, count |-> 1]>>
MCAfter ==
    <<[id |-> o2, chain |-> "mvc", visible |-> TRUE, ours |-> TRUE, stamp |-> 40, sum |-> 0, count |-> 0],
      [id |-> o3, chain |-> "mvc", visible |-> TRUE, ours |-> FALSE, stamp |-> 60, sum |-> 3, count |-> 1]>>

MCNext == Next /\ \A p \in Pins : polled'[p] > 1 => p = m1 /\ chain = <<c, m1, m2>> /\ crashes' = 0
MCSpec == Init /\ [][MCNext]_vars
=============================================================================
