----------------------------- MODULE Federation -----------------------------
(***************************************************************************)
(* Federated presence as one node sees it (internal/federation): the Store *)
(* of peers and snapshots, the Discovery loop that keeps the peers, the    *)
(* Puller loop that keeps the snapshots, and the peers' SnapshotBuilders.  *)
(*                                                                         *)
(* Discovery and the puller are two goroutines.  Every Store method is one *)
(* critical section, so a DiscoverOnce or a pullPeer is several steps that *)
(* the other loop can fall between.                                        *)
(*                                                                         *)
(* A point in time is represented by the time left until it (ValidUntil,   *)
(* generatedAt + ttl, nextEligiblePullAt): Tick lowers every one of them.  *)
(* It has expired when the rest is negative, as in the strict comparisons  *)
(* of peerExpired and snapshotExpired.                                     *)
(***************************************************************************)
EXTENDS Integers, FiniteSets

CONSTANTS
    NumNodes,      \* the remote nodes are 1..NumNodes, in the order of their ids
    MaxPeers,      \* Discovery.maxPeers; 0 is no limit
    TTL,           \* ttlSeconds of a snapshot
    Validity,      \* time for which a registry pin is valid
    BackoffBase, BackoffMax,
    ReqTimeout,    \* Puller.requestTimeout
    MaxSeq,        \* bound: a node restarts before its sequence gets past it
    MaxSkew,       \* by how much a remote clock may be ahead of ours
    RevokeAllowed  \* whether registrations may be revoked

Node == 1..NumNodes
NoNode == 0
Expired == -1

\* ValidUntil = 0: the registration never expires.
Forever == Validity + 1

ASSUME FederationAssumption ==
    /\ NumNodes \in Nat /\ MaxPeers \in Nat
    /\ TTL \in Nat \ {0} /\ Validity \in Nat
    /\ BackoffBase \in Nat \ {0} /\ BackoffMax \in Nat /\ BackoffBase <= BackoffMax
    /\ ReqTimeout \in Nat /\ MaxSeq \in Nat \ {0}
    /\ MaxSkew \in Nat /\ RevokeAllowed \in BOOLEAN

VARIABLES
    \* outside this process
    reg,       \* newest registry pin of a node: kind and time left
    seq,       \* nextSeq of the node's SnapshotBuilder, in memory
    skew,      \* how far the node's clock is ahead
    silent,    \* time since the node last returned a snapshot (history)
    \* Store
    peers,     \* keys of Store.peers
    validLeft, \* their ValidUntil
    snaps,     \* keys of Store.snapshots
    snapLeft,  \* their generatedAt + ttl
    snapSeq,   \* their Sequence
    \* Discovery goroutine
    removing,  \* candidates still to be passed to RemovePeer
    accepting, \* accepted nodes still to be passed to UpsertPeer
    acceptLeft,\* the ValidUntil they were listed with
    \* Puller goroutine
    todo,      \* rest of the list PullOnce got from ActivePeers
    todoLeft,  \* ValidUntil in that copy
    cur,       \* the peer being pulled
    phase,     \* "idle", "request", "response", "upsert"
    reqAge,    \* age of the request
    respLeft,  \* the snapshot in flight
    respSeq,
    failDelay, \* Puller.failures: backoffDelay(count), 0 without an entry
    failWait   \* nextEligiblePullAt

envVars == <<reg, seq, skew, silent>>
storeVars == <<peers, validLeft, snaps, snapLeft, snapSeq>>
discVars == <<removing, accepting, acceptLeft>>
pullVars == <<todo, todoLeft, cur, phase, reqAge, respLeft, respSeq>>
failVars == <<failDelay, failWait>>
vars == <<envVars, storeVars, discVars, pullVars, failVars>>

-----------------------------------------------------------------------------

\* backoffDelay(count + 1), given delay = backoffDelay(count): the base doubled
\* with every failure, at most BackoffMax.
backoffDelay(delay) ==
    IF delay = 0 THEN BackoffBase
    ELSE IF 2 * delay > BackoffMax THEN BackoffMax
    ELSE 2 * delay

\* One unit of time less is left.
Left(l) == IF l = Forever THEN Forever ELSE IF l < 0 THEN Expired ELSE l - 1
SnapLeft(l) == IF l < 0 THEN Expired ELSE l - 1

ValidTimes == Expired..Forever
SnapTimes == Expired..(TTL + MaxSkew)

\* silent is not counted beyond this.
LongSilent == TTL + MaxSkew + 1

TypeOK ==
    /\ reg \in [Node -> [kind : {"none", "live", "revoked"}, left : ValidTimes]]
    /\ seq \in [Node -> 0..MaxSeq]
    /\ skew \in [Node -> 0..MaxSkew]
    /\ silent \in [Node -> 0..LongSilent]
    /\ peers \in SUBSET Node /\ validLeft \in [Node -> ValidTimes]
    /\ snaps \in SUBSET Node
    /\ snapLeft \in [Node -> SnapTimes] /\ snapSeq \in [Node -> 0..MaxSeq]
    /\ removing \in SUBSET Node
    /\ accepting \in SUBSET Node /\ acceptLeft \in [Node -> ValidTimes]
    /\ todo \in SUBSET Node /\ todoLeft \in [Node -> ValidTimes]
    /\ cur \in Node \cup {NoNode}
    /\ phase \in {"idle", "request", "response", "upsert"}
    /\ reqAge \in 0..ReqTimeout
    /\ respLeft \in SnapTimes /\ respSeq \in 0..MaxSeq
    /\ failDelay \in [Node -> 0..BackoffMax]
    /\ failWait \in [Node -> 0..BackoffMax]

Init ==
    /\ reg = [n \in Node |-> [kind |-> "none", left |-> Expired]]
    /\ seq = [n \in Node |-> 0]
    /\ skew \in [Node -> 0..MaxSkew]
    /\ silent = [n \in Node |-> LongSilent]
    /\ peers = {} /\ validLeft = [n \in Node |-> Expired]
    /\ snaps = {}
    /\ snapLeft = [n \in Node |-> Expired] /\ snapSeq = [n \in Node |-> 0]
    /\ removing = {}
    /\ accepting = {} /\ acceptLeft = [n \in Node |-> Expired]
    /\ todo = {} /\ todoLeft = [n \in Node |-> Expired]
    /\ cur = NoNode /\ phase = "idle" /\ reqAge = 0
    /\ respLeft = Expired /\ respSeq = 0
    /\ failDelay = [n \in Node |-> 0]
    /\ failWait = [n \in Node |-> 0]

-----------------------------------------------------------------------------
(* Outside: the chain's registry, the remote nodes, time *)

\* A node publishes a create or modify registry pin, with or without an end.
Register(n) ==
    \E left \in {Validity, Forever} :
        /\ reg[n] # [kind |-> "live", left |-> left]
        /\ reg' = [reg EXCEPT ![n] = [kind |-> "live", left |-> left]]
        /\ UNCHANGED <<seq, skew, silent, storeVars, discVars, pullVars, failVars>>

\* A revoke pin is confirmed.
Revoke(n) ==
    /\ RevokeAllowed
    /\ reg[n].kind = "live"
    /\ reg' = [reg EXCEPT ![n] = [kind |-> "revoked", left |-> Expired]]
    /\ UNCHANGED <<seq, skew, silent, storeVars, discVars, pullVars, failVars>>

\* The remote process restarts; nextSeq starts again.
Restart(n) ==
    /\ seq[n] # 0
    /\ seq' = [seq EXCEPT ![n] = 0]
    /\ UNCHANGED <<reg, skew, silent, storeVars, discVars, pullVars, failVars>>

\* Somebody else pulls the node.
ServeOther(n) ==
    /\ seq[n] < MaxSeq - 1
    /\ seq' = [seq EXCEPT ![n] = @ + 1]
    /\ UNCHANGED <<reg, skew, silent, storeVars, discVars, pullVars, failVars>>

\* Time passes.  A request does not outlive its timeout, and the step from a
\* validated snapshot to the store takes no time.
Tick ==
    /\ phase \in {"request", "response"} => reqAge < ReqTimeout
    /\ phase # "upsert"
    /\ reqAge' = IF phase \in {"request", "response"} THEN reqAge + 1 ELSE reqAge
    /\ reg' = [n \in Node |-> [reg[n] EXCEPT !.left = Left(@)]]
    /\ silent' = [n \in Node |-> IF silent[n] < LongSilent THEN silent[n] + 1 ELSE silent[n]]
    /\ validLeft' = [n \in Node |-> Left(validLeft[n])]
    /\ snapLeft' = [n \in Node |-> SnapLeft(snapLeft[n])]
    /\ acceptLeft' = [n \in Node |-> Left(acceptLeft[n])]
    /\ todoLeft' = [n \in Node |-> Left(todoLeft[n])]
    /\ respLeft' = SnapLeft(respLeft)
    /\ failWait' = [n \in Node |-> IF failWait[n] = 0 THEN 0 ELSE failWait[n] - 1]
    /\ UNCHANGED <<seq, skew, peers, snaps, snapSeq, removing, accepting,
                   todo, cur, phase, respSeq, failDelay>>

-----------------------------------------------------------------------------
(* Discovery.DiscoverOnce *)

\* The loops over node ids are sorted.
First(n, S) == n \in S /\ \A m \in S : n <= m

\* The first MaxPeers nodes in the order of their ids.
Truncate(S) ==
    IF MaxPeers = 0 THEN S
    ELSE {n \in S : Cardinality({m \in S : m < n}) < MaxPeers}

\* fetchRegistryPins returned a page that lists some of the nodes, each with
\* its newest pin; candidateFromPin and the truncation.  A failed fetch changes
\* nothing.
FetchRegistryPins(listed) ==
    LET remove == {n \in listed : reg[n].kind = "revoked" \/ reg[n].left < 0}
    IN  /\ removing = {} /\ accepting = {}
        /\ listed # {}
        /\ \A n \in listed : reg[n].kind # "none"
        /\ removing' = remove
        /\ accepting' = Truncate(listed \ remove)
        /\ acceptLeft' = [n \in Node |-> IF n \in accepting' THEN reg[n].left ELSE Expired]
        /\ UNCHANGED <<envVars, storeVars, pullVars, failVars>>

\* Mutant of RemovePeer: only the snapshot is deleted.
RemoveOnlySnapshot(n) ==
    /\ First(n, removing)
    /\ snaps' = snaps \ {n}
    /\ snapLeft' = [snapLeft EXCEPT ![n] = Expired]
    /\ snapSeq' = [snapSeq EXCEPT ![n] = 0]
    /\ removing' = removing \ {n}
    /\ UNCHANGED <<envVars, peers, validLeft, accepting, acceptLeft, pullVars, failVars>>

RemovePeer(n) ==
    /\ First(n, removing)
    /\ peers' = peers \ {n}
    /\ validLeft' = [validLeft EXCEPT ![n] = Expired]
    /\ snaps' = snaps \ {n}
    /\ snapLeft' = [snapLeft EXCEPT ![n] = Expired]
    /\ snapSeq' = [snapSeq EXCEPT ![n] = 0]
    /\ removing' = removing \ {n}
    /\ UNCHANGED <<envVars, accepting, acceptLeft, pullVars, failVars>>

UpsertPeer(n) ==
    /\ removing = {}
    /\ First(n, accepting)
    /\ peers' = peers \cup {n}
    /\ validLeft' = [validLeft EXCEPT ![n] = acceptLeft[n]]
    /\ accepting' = accepting \ {n}
    /\ acceptLeft' = [acceptLeft EXCEPT ![n] = Expired]
    /\ UNCHANGED <<envVars, snaps, snapLeft, snapSeq, removing, pullVars, failVars>>

-----------------------------------------------------------------------------
(* Puller.PullOnce *)

ActivePeers == {n \in peers : validLeft[n] >= 0}

\* A tick of the pull loop: the list of peers is copied.
PullOnce ==
    /\ phase = "idle" /\ todo = {}
    /\ ActivePeers # {}
    /\ todo' = ActivePeers
    /\ todoLeft' = [n \in Node |-> IF n \in ActivePeers THEN validLeft[n] ELSE Expired]
    /\ UNCHANGED <<envVars, storeVars, discVars, failVars, cur, phase, reqAge,
                   respLeft, respSeq>>

\* The copy has expired in the meantime, or the peer is in backoff.
SkipPeer(n) ==
    /\ phase = "idle"
    /\ First(n, todo)
    /\ todoLeft[n] < 0 \/ failWait[n] > 0
    /\ todo' = todo \ {n}
    /\ todoLeft' = [todoLeft EXCEPT ![n] = Expired]
    /\ UNCHANGED <<envVars, storeVars, discVars, failVars, cur, phase,
                   reqAge, respLeft, respSeq>>

\* pullPeer sends its request.
RequestSnapshot(n) ==
    /\ phase = "idle"
    /\ First(n, todo)
    /\ todoLeft[n] >= 0 /\ failWait[n] = 0
    /\ todo' = todo \ {n}
    /\ todoLeft' = [todoLeft EXCEPT ![n] = Expired]
    /\ cur' = n
    /\ phase' = "request"
    /\ UNCHANGED <<envVars, storeVars, discVars, failVars, reqAge, respLeft, respSeq>>

\* The remote SnapshotBuilder.Snapshot: generatedAt from the node's own clock,
\* the next sequence number, signed.
Snapshot ==
    /\ phase = "request"
    /\ seq[cur] < MaxSeq
    /\ seq' = [seq EXCEPT ![cur] = @ + 1]
    /\ silent' = [silent EXCEPT ![cur] = 0]
    /\ respSeq' = seq[cur] + 1
    /\ respLeft' = TTL + skew[cur]
    /\ phase' = "response"
    /\ UNCHANGED <<reg, skew, storeVars, discVars, failVars, todo, todoLeft, cur, reqAge>>

\* Mutant of ValidateSnapshot: any sequence is good.
ValidateAnySequence == respLeft >= 0

\* Mutant of ValidateSnapshot: an expired snapshot still holds back a node
\* that has started over.
ValidateAgainstExpired ==
    /\ respLeft >= 0
    /\ cur \in snaps => respSeq > snapSeq[cur]

\* validateSnapshot, with the snapshot the store holds at this moment.
ValidateSnapshot ==
    /\ respLeft >= 0
    /\ cur \in snaps /\ snapLeft[cur] >= 0 => respSeq > snapSeq[cur]

\* recordFailure: one more failure in a row.
RecordFailure ==
    /\ failDelay' = [failDelay EXCEPT ![cur] = backoffDelay(@)]
    /\ failWait' = [failWait EXCEPT ![cur] = backoffDelay(failDelay[cur])]

\* pullPeer has returned; the loop goes on with the next peer.
EndPull ==
    /\ phase' = "idle" /\ cur' = NoNode
    /\ reqAge' = 0 /\ respLeft' = Expired /\ respSeq' = 0
    /\ UNCHANGED <<todo, todoLeft>>

\* The snapshot arrives and is valid.
AcceptSnapshot ==
    /\ phase = "response"
    /\ ValidateSnapshot
    /\ phase' = "upsert"
    /\ UNCHANGED <<envVars, storeVars, discVars, failVars, todo, todoLeft, cur, reqAge,
                   respLeft, respSeq>>

\* The snapshot arrives and is not valid.
RejectSnapshot ==
    /\ phase = "response"
    /\ ~ValidateSnapshot
    /\ RecordFailure
    /\ EndPull
    /\ UNCHANGED <<envVars, storeVars, discVars>>

\* Connection error, HTTP error, oversized or malformed body, or the timeout.
PullFails ==
    /\ phase \in {"request", "response"}
    /\ RecordFailure
    /\ EndPull
    /\ UNCHANGED <<envVars, storeVars, discVars>>

\* Mutant of UpsertSnapshot: the time to live counts from the arrival.
UpsertFresh ==
    /\ phase = "upsert"
    /\ snaps' = snaps \cup {cur}
    /\ snapLeft' = [snapLeft EXCEPT ![cur] = TTL + skew[cur]]
    /\ snapSeq' = [snapSeq EXCEPT ![cur] = respSeq]
    /\ failDelay' = [failDelay EXCEPT ![cur] = 0]
    /\ failWait' = [failWait EXCEPT ![cur] = 0]
    /\ EndPull
    /\ UNCHANGED <<envVars, peers, validLeft, discVars>>

\* UpsertSnapshot, then clearFailure.  The peer is not looked up again.
UpsertSnapshot ==
    /\ phase = "upsert"
    /\ snaps' = snaps \cup {cur}
    /\ snapLeft' = [snapLeft EXCEPT ![cur] = respLeft]
    /\ snapSeq' = [snapSeq EXCEPT ![cur] = respSeq]
    /\ failDelay' = [failDelay EXCEPT ![cur] = 0]
    /\ failWait' = [failWait EXCEPT ![cur] = 0]
    /\ EndPull
    /\ UNCHANGED <<envVars, peers, validLeft, discVars>>

-----------------------------------------------------------------------------

DiscoverOnce ==
    \/ \E listed \in SUBSET Node : FetchRegistryPins(listed)
    \/ \E n \in Node : RemovePeer(n) \/ UpsertPeer(n)

PullerStep ==
    \/ PullOnce
    \/ \E n \in Node : SkipPeer(n) \/ RequestSnapshot(n)
    \/ AcceptSnapshot \/ RejectSnapshot \/ UpsertSnapshot

Environment ==
    \/ \E n \in Node : Register(n) \/ Revoke(n) \/ Restart(n) \/ ServeOther(n)
    \/ Tick

Next == Environment \/ DiscoverOnce \/ PullerStep \/ Snapshot \/ PullFails

Spec == Init /\ [][Next]_vars

\* Time passes and both loops keep running.  The registry lists every node
\* again and again, and a node that is asked again and again answers in time
\* again and again; any number of fetches and pulls may fail in between.
\* A node whose sequence has reached the bound restarts.
FairSpec ==
    /\ Spec
    /\ WF_vars(Tick) /\ WF_vars(DiscoverOnce) /\ WF_vars(PullerStep)
    /\ \A n \in Node :
          /\ SF_vars(\E listed \in SUBSET Node : n \in listed /\ FetchRegistryPins(listed))
          /\ SF_vars(cur = n /\ Snapshot)
          /\ SF_vars(cur = n /\ AcceptSnapshot)
          /\ WF_vars(seq[n] = MaxSeq /\ Restart(n))

-----------------------------------------------------------------------------
(* Properties *)

\* activeSnapshots: what the global list and the global stats are made of.
ActiveSnapshots == {n \in snaps : n \in peers /\ validLeft[n] >= 0 /\ snapLeft[n] >= 0}

\* A node that no longer returns snapshots leaves the global list after at most
\* the time to live and the skew of its clock, however long its last snapshot
\* was under way and whatever discovery did to its peer meanwhile.
VisibleIsRecent == \A n \in ActiveSnapshots : silent[n] <= TTL + skew[n]

\* The snapshot that is shown for a node is only replaced by one with a higher
\* sequence while it is valid, across restarts of the node, concurrent
\* RemovePeer calls and late responses.
SequenceMonotone ==
    [][\A n \in Node :
          /\ n \in snaps /\ snapLeft[n] >= 0 /\ n \in snaps'
          /\ snapSeq'[n] # snapSeq[n] \/ snapLeft'[n] > snapLeft[n]
          => snapSeq'[n] > snapSeq[n]]_vars

\* A node that stays registered is in the global list again and again, although
\* its sequence starts over with every restart and its pulls back off.
RegisteredIsSeen ==
    \A n \in Node :
        <>[](reg[n] = [kind |-> "live", left |-> Forever]) => []<>(n \in ActiveSnapshots)

\* A node whose registration stays revoked leaves the global list for good,
\* even when the revocation is discovered while the node is being pulled or is
\* about to be upserted from an older page.
RevokedDisappears ==
    \A n \in Node :
        <>[](reg[n].kind = "revoked") => <>[](n \notin ActiveSnapshots)
=============================================================================
