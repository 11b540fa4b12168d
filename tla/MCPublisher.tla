---------------------------- MODULE MCPublisher ----------------------------
(***************************************************************************)
(* The instance of Publisher for TLC: the validity is four intervals, as   *)
(* in the default configuration (24h and 6h), and a publication takes up   *)
(* to a quarter of an interval.                                            *)
(***************************************************************************)
EXTENDS Publisher
=============================================================================
