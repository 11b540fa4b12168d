----------------------------- MODULE MCChatLog -----------------------------
(***************************************************************************)
(* An instance of ChatHomes for TLC: two messages of a room in two blocks, *)
(* where the mempool goroutine runs; with the scan alone, three in two     *)
(* blocks, or a channel, a message in it and a pin that cannot be decoded. *)
(* The client reads the first room.  Only a single goroutine meets a       *)
(* crash; the first pin may be polled again, when there is none.           *)
(***************************************************************************)
EXTENDS ChatHomes

MCChains == {<<1, 2>>, <<1, 2, 3>>, <<1, 6, 4, 5>>}
MCWriterSets == {{"scan"}, {"mempool"}, {"scan", "mempool"}}
MCRoom == <<"root", "root", "root", "channel", "root", "channel">>
MCBlockTime == <<2, 4, 4, 2, 4, 2>>

MCInit ==
    /\ Init
    /\ room = "root"
    /\ (Len(chain) = 2) = ("mempool" \in writers)
MCNext ==
    /\ Next
    /\ crashes' = 0 \/ Cardinality(writers) = 1
    /\ \A p \in Pins : polled'[p] > 1 => p = 1 /\ crashes' = 0
MCSpec == MCInit /\ [][MCNext]_vars
=============================================================================
