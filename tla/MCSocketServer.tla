--------------------------- MODULE MCSocketServer ---------------------------
(***************************************************************************)
(* Instances of SocketServer for TLC.  One user and one type are enough    *)
(* for the device limit and the eviction order, which never look at the    *)
(* connections of another user or type; x1 is a connection whose handshake *)
(* has no metaid.                                                          *)
(***************************************************************************)
EXTENDS SocketServer, TLC

CONSTANTS p1, p2, p3, x1, u1

MCDevices == {p1, p2, p3}
MCDevicesSymmetry == Permutations(MCDevices)

MCSock == MCDevices \cup {x1}
MCMetaIdOf == [s \in MCSock |-> IF s = x1 THEN NoMetaId ELSE u1]
MCTypeOf == [s \in MCSock |-> "pc"]

\* For the liveness runs, where no symmetry may be used.
MCMetaIdOfDevices == [s \in MCDevices |-> u1]
MCTypeOfDevices == [s \in MCDevices |-> "pc"]
=============================================================================
