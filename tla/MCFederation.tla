---------------------------- MODULE MCFederation ----------------------------
(***************************************************************************)
(* The instance of Federation for TLC.  Peers share only the order of the  *)
(* pull loop, so one node is enough for the properties of a snapshot.      *)
(*                                                                         *)
(* User a has two connections to this node and one to the remote node, b   *)
(* is on the remote node only and leaves it with its second snapshot, and  *)
(* the bot, on this node, was seen last long ago: the remote users push it *)
(* off the page that its homepage reads.                                   *)
(***************************************************************************)
EXTENDS GlobalPresence

CONSTANTS a, b, bot

MCUserRank == [u \in {a, b, bot} |-> CASE u = a -> 1 [] u = b -> 2 [] OTHER -> 3]

MCLocal ==
    <<[user |-> a, type |-> "app", connected |-> 3, seen |-> 4],
      [user |-> bot, type |-> "pc", connected |-> 1, seen |-> 1],
      [user |-> a, type |-> "app", connected |-> 0, seen |-> 3]>>
MCItems ==
    [n \in Node |->
        <<<<[user |-> a, type |-> "app", connected |-> 2, seen |-> 5],
            [user |-> b, type |-> "app", connected |-> 4, seen |-> 4],
            [user |-> b, type |-> "pc", connected |-> 4, seen |-> 4]>>,
          <<[user |-> a, type |-> "pc", connected |-> 5, seen |-> 6],
            [user |-> a, type |-> "app", connected |-> 4, seen |-> 2]>>>>]
=============================================================================
