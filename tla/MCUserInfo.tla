----------------------------- MODULE MCUserInfo -----------------------------
(***************************************************************************)
(* An instance of UserInfo for TLC.  A user changes the name while avatar  *)
(* and chat key are missing; sets both; registers and has a role; or       *)
(* changes the role, which a backfill goes through as well.  One reader    *)
(* makes a bounded number of requests; with the backfill there is a single *)
(* request, and no crash.                                                  *)
(***************************************************************************)
EXTENDS UserInfo, TLC

CONSTANTS i1, n1, n2, k1, a1, r1, r2, x1, q1, MaxRequests

MCChains == {<<n1, n2>>, <<a1, k1>>, <<i1, r1>>, <<r1, r2>>, <<x1, r1>>}
MCField == (i1 :> "init" @@ n1 :> "name" @@ n2 :> "name" @@ k1 :> "key" @@ a1 :> "avatar"
            @@ r1 :> "role" @@ r2 :> "role" @@ x1 :> "other")
MCWriterSets == {{"scan"}, {"scan", "backfill"}}
MCReaders == {q1}
MCModes == {"local-first", "remote-only"}
MCOwnIds == {"metaid", "address"}
MCRemoteIds == {[metaid |-> "metaid", global |-> "global"]}

VARIABLE requests

\* The modes differ where a profile is complete.
MCInit ==
    /\ Init /\ requests = 0
    /\ mode = "remote-only" => k1 \in PinsOf(chain)
    /\ "backfill" \in writers <=> PinsOf(chain) \cap {r2, x1} # {}

Begun == \E c \in Readers : ~Busy(c) /\ phase'[c] # "idle"
MCNext ==
    /\ Next
    /\ requests' = IF Begun THEN requests + 1 ELSE requests
    /\ requests' <= IF "backfill" \in writers THEN 1 ELSE MaxRequests
    /\ crashes' = 0 \/ ("backfill" \notin writers /\ mode = "local-first")

MCSpec == MCInit /\ [][MCNext]_<<vars, requests>>
=============================================================================
