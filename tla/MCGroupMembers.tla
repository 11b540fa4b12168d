--------------------------- MODULE MCGroupMembers ---------------------------
(***************************************************************************)
(* An instance of GroupMembers for TLC.  The creator is a.  A user joins,  *)
(* becomes an admin and leaves (with the scan alone); joins and leaves; a  *)
(* pin names two admins, one of whom is then blocked; a user chats without *)
(* having joined and leaves, joins, or chats again; the creator is         *)
(* blocked, and creates the group again; pins cannot be decoded, or name   *)
(* nobody.  A message may be polled again, unless there is a crash; with   *)
(* messages only the scan alone meets a crash.                             *)
(***************************************************************************)
EXTENDS GroupMembers

CONSTANTS a, b, c, create, join, leave, admin, admins, block, blockA, again, chat, chat2, bad, nobody

MCChains ==
    {<<create, join, admin, leave>>, <<create, join, leave>>, <<create, admins, block>>,
     <<create, chat, leave>>, <<create, chat, join>>, <<create, chat, chat2>>, <<create, blockA, join>>, <<create, blockA, again>>,
     <<create, bad, nobody>>}
MCWriterSets == {{"scan"}, {"scan", "mempool"}}
MCInit == Init /\ (Len(chain) = 4 => writers = {"scan"})
MCNext ==
    /\ Next
    /\ \A p \in Pins : polled'[p] > 1 => p = chat /\ crashes' = 0
    /\ crashes' = 0 \/ chat \notin PinsOf(chain) \/ writers = {"scan"}
MCSpec == MCInit /\ [][MCNext]_vars

MCPins == {create, join, leave, admin, admins, block, blockA, again, chat, chat2, bad, nobody}
MCOp ==
    [p \in MCPins |->
        CASE p \in {create, again} -> "create" [] p = join -> "join" [] p = leave -> "leave"
          [] p \in {block, blockA} -> "block" [] p \in {chat, chat2, bad} -> "chat" [] OTHER -> "admin"]
MCBy == [p \in MCPins |-> IF p \in {join, leave, chat, chat2, bad} THEN b ELSE a]
MCNamed ==
    [p \in MCPins |->
        CASE p \in {admin, block} -> <<b>> [] p = admins -> <<c, b>> [] p = blockA -> <<a>>
          [] OTHER -> << >>]
=============================================================================
