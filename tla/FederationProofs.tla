-------------------------- MODULE FederationProofs --------------------------
(***************************************************************************)
(* Both sides of federated presence, for any number of nodes and any       *)
(* timing.  The first part is about the node that looks at others          *)
(* (Federation): what it shows is recent, and only newer snapshots replace *)
(* older ones.  The second part is about the node that is looked at        *)
(* (Publisher), for any validity, renewal interval, request delay, number  *)
(* of failures to survive, fee rate, balances and sizes that satisfy       *)
(* PublisherAssumption: a running node stays registered, and what is       *)
(* broadcast pays for itself.                                              *)
(***************************************************************************)
EXTENDS Federation, Publisher, FiniteSetTheorems, TLAPS

-----------------------------------------------------------------------------
(* Federation: the inductive invariant *)

\* A pull in progress is a pull of some node.
PullHasPeer == phase # "idle" => cur \in Node

\* What is left of a stored snapshot and the silence of its node since make up
\* no more than the time to live and the skew.
StoredIsRecent ==
    \A n \in snaps : snapLeft[n] >= 0 => snapLeft[n] + silent[n] <= TTL + skew[n]

\* The same for the snapshot under way.
ResponseIsRecent ==
    phase \in {"response", "upsert"} /\ respLeft >= 0
        => respLeft + silent[cur] <= TTL + skew[cur]

\* What validateSnapshot found is still true when the snapshot is stored: the
\* puller is the only writer, and RemovePeer only takes the old one away.
StillNewer ==
    phase = "upsert" /\ cur \in snaps /\ snapLeft[cur] >= 0 => respSeq > snapSeq[cur]

Inv == TypeOK /\ PullHasPeer /\ StoredIsRecent /\ ResponseIsRecent /\ StillNewer

-----------------------------------------------------------------------------

\* The invariant holds before the first pull.
LEMMA InitInv == Init => Inv
<1> SUFFICES ASSUME Init PROVE Inv
    OBVIOUS
<1> USE FederationAssumption
<1>1. TypeOK
    BY DEF Init, TypeOK, Node, NoNode, Expired, Forever, ValidTimes, SnapTimes, LongSilent
<1>2. PullHasPeer /\ StoredIsRecent /\ ResponseIsRecent /\ StillNewer
    BY DEF Init, PullHasPeer, StoredIsRecent, ResponseIsRecent, StillNewer
<1> QED
    BY <1>1, <1>2 DEF Inv

\* A registration's time left stays in its range as time passes.
LEMMA LeftType == \A l \in ValidTimes : Left(l) \in ValidTimes
    BY FederationAssumption DEF Left, ValidTimes, Expired, Forever

\* A snapshot's time left stays in its range as time passes.
LEMMA SnapLeftType == \A l \in SnapTimes : SnapLeft(l) \in SnapTimes
    BY FederationAssumption DEF SnapLeft, SnapTimes, Expired

\* The delay never falls from one failure to the next, is never zero and never
\* exceeds the maximum.
LEMMA BackoffType ==
    ASSUME NEW d \in 0..BackoffMax
    PROVE  backoffDelay(d) \in 0..BackoffMax /\ backoffDelay(d) >= d /\ backoffDelay(d) > 0
    BY FederationAssumption DEF backoffDelay

\* Steps outside the process: only the registry and the sequences change, and
\* no invariant but the types speaks of them.
LEMMA OutsideInv ==
    ASSUME Inv, NEW n \in Node, Register(n) \/ Revoke(n) \/ Restart(n) \/ ServeOther(n)
    PROVE  Inv'
<1> USE FederationAssumption
<1>1. reg' \in [Node -> [kind : {"none", "live", "revoked"}, left : ValidTimes]]
    <2>1. Expired \in ValidTimes /\ Validity \in ValidTimes /\ Forever \in ValidTimes
        BY DEF ValidTimes, Expired, Forever
    <2>2. CASE Register(n)
        <3>1. PICK until \in {Validity, Forever} :
                  reg' = [reg EXCEPT ![n] = [kind |-> "live", left |-> until]]
            BY <2>2 DEF Register
        <3>2. [kind |-> "live", left |-> until]
                  \in [kind : {"none", "live", "revoked"}, left : ValidTimes]
            BY <2>1, <3>1
        <3> QED
            BY <3>1, <3>2 DEF Inv, TypeOK
    <2>3. CASE Revoke(n)
        <3>1. [kind |-> "revoked", left |-> Expired]
                  \in [kind : {"none", "live", "revoked"}, left : ValidTimes]
            BY <2>1
        <3> QED
            BY <2>3, <3>1 DEF Revoke, Inv, TypeOK
    <2> QED
        BY <2>2, <2>3 DEF Inv, TypeOK, Restart, ServeOther
<1>2. seq' \in [Node -> 0..MaxSeq]
    BY DEF Inv, TypeOK, Register, Revoke, Restart, ServeOther
<1>3. UNCHANGED <<skew, silent, storeVars, discVars, pullVars, failVars>>
    BY DEF Register, Revoke, Restart, ServeOther
<1> QED
    BY <1>1, <1>2, <1>3 DEF Inv, TypeOK, PullHasPeer, StoredIsRecent, ResponseIsRecent, StillNewer,
        storeVars, discVars, pullVars, failVars

\* Time: what a snapshot has left falls as fast as the silence grows.
LEMMA TickInv == ASSUME Inv, Tick PROVE Inv'
<1> USE FederationAssumption
<1>1. TypeOK'
    <2>1. /\ reg' \in [Node -> [kind : {"none", "live", "revoked"}, left : ValidTimes]]
          /\ validLeft' \in [Node -> ValidTimes]
          /\ acceptLeft' \in [Node -> ValidTimes]
          /\ todoLeft' \in [Node -> ValidTimes]
        BY LeftType DEF Inv, TypeOK, Tick
    <2>2. /\ snapLeft' \in [Node -> SnapTimes]
          /\ respLeft' \in SnapTimes
        BY SnapLeftType DEF Inv, TypeOK, Tick
    <2>3. /\ silent' \in [Node -> 0..LongSilent]
          /\ reqAge' \in 0..ReqTimeout
          /\ failWait' \in [Node -> 0..BackoffMax]
        BY DEF Inv, TypeOK, Tick, LongSilent
    <2> QED
        BY <2>1, <2>2, <2>3 DEF Inv, TypeOK, Tick
<1>2. PullHasPeer' /\ StillNewer'
    BY DEF Inv, TypeOK, Tick, PullHasPeer, StillNewer
<1>3. StoredIsRecent'
    <2> SUFFICES ASSUME NEW n \in snaps, snapLeft'[n] >= 0
                 PROVE  snapLeft'[n] + silent'[n] <= TTL + skew[n]
        BY DEF StoredIsRecent, Tick
    <2>1. n \in Node /\ snapLeft[n] \in Int /\ silent[n] \in 0..LongSilent /\ skew[n] \in 0..MaxSkew
        BY DEF Inv, TypeOK, SnapTimes, Expired
    <2>2. snapLeft'[n] = SnapLeft(snapLeft[n]) /\ silent'[n] <= silent[n] + 1
        BY <2>1 DEF Tick, LongSilent
    <2>3. snapLeft[n] >= 1 /\ snapLeft'[n] = snapLeft[n] - 1
        BY <2>1, <2>2 DEF SnapLeft, Expired
    <2>4. snapLeft[n] + silent[n] <= TTL + skew[n]
        BY <2>1, <2>3 DEF Inv, StoredIsRecent
    <2>5. silent'[n] \in Int
        BY <2>1 DEF Tick, LongSilent
    <2> QED
        BY <2>1, <2>2, <2>3, <2>4, <2>5
<1>4. ResponseIsRecent'
    BY DEF Inv, TypeOK, Tick, PullHasPeer, ResponseIsRecent, SnapLeft, SnapTimes, Expired,
        LongSilent
<1> QED
    BY <1>1, <1>2, <1>3, <1>4 DEF Inv

\* Discovery writes only peers, and takes snapshots away.
LEMMA DiscoverInv == ASSUME Inv, DiscoverOnce PROVE Inv'
<1> USE FederationAssumption
<1>1. ASSUME NEW listed \in SUBSET Node, FetchRegistryPins(listed)
      PROVE  Inv'
    <2>1. removing' \in SUBSET Node /\ accepting' \in SUBSET Node
        BY <1>1 DEF FetchRegistryPins, Truncate
    <2>2. acceptLeft' \in [Node -> ValidTimes]
        BY <1>1 DEF FetchRegistryPins, Inv, TypeOK, ValidTimes, Expired, Forever
    <2>3. UNCHANGED <<envVars, storeVars, pullVars, failVars>>
        BY <1>1 DEF FetchRegistryPins
    <2> QED
        BY <2>1, <2>2, <2>3 DEF Inv, TypeOK, PullHasPeer, StoredIsRecent, ResponseIsRecent,
            StillNewer, envVars, storeVars, pullVars, failVars
<1>2. ASSUME NEW n \in Node, RemovePeer(n)
      PROVE  Inv'
    <2>1. TypeOK'
        BY <1>2 DEF RemovePeer, Inv, TypeOK, ValidTimes, SnapTimes, Expired, Forever,
            envVars, pullVars, failVars
    <2>2. PullHasPeer' /\ StoredIsRecent' /\ ResponseIsRecent' /\ StillNewer'
        BY <1>2 DEF RemovePeer, Inv, TypeOK, PullHasPeer, StoredIsRecent, ResponseIsRecent,
            StillNewer, Expired, envVars, pullVars
    <2> QED
        BY <2>1, <2>2 DEF Inv
<1>3. ASSUME NEW n \in Node, UpsertPeer(n)
      PROVE  Inv'
    <2>1. TypeOK'
        BY <1>3 DEF UpsertPeer, Inv, TypeOK, ValidTimes, Expired, Forever, envVars, pullVars,
            failVars
    <2>2. PullHasPeer' /\ StoredIsRecent' /\ ResponseIsRecent' /\ StillNewer'
        BY <1>3 DEF UpsertPeer, Inv, PullHasPeer, StoredIsRecent, ResponseIsRecent,
            StillNewer, envVars, pullVars
    <2> QED
        BY <2>1, <2>2 DEF Inv
<1> QED
    BY <1>1, <1>2, <1>3 DEF DiscoverOnce

\* A step that ends a pull without a snapshot.
LEMMA FailureInv ==
    ASSUME Inv, cur \in Node, RecordFailure, EndPull, UNCHANGED <<envVars, storeVars, discVars>>
    PROVE  Inv'
<1> USE FederationAssumption
<1>1. failDelay' \in [Node -> 0..BackoffMax] /\ failWait' \in [Node -> 0..BackoffMax]
    BY BackoffType DEF RecordFailure, Inv, TypeOK
<1>2. TypeOK'
    BY <1>1 DEF EndPull, Inv, TypeOK, SnapTimes, Expired, NoNode, envVars, storeVars, discVars
<1>3. PullHasPeer' /\ StoredIsRecent' /\ ResponseIsRecent' /\ StillNewer'
    BY DEF EndPull, Inv, PullHasPeer, StoredIsRecent, ResponseIsRecent, StillNewer,
        envVars, storeVars
<1> QED
    BY <1>2, <1>3 DEF Inv

\* The puller, with the node that answers it.
LEMMA PullInv == ASSUME Inv, PullerStep \/ Snapshot \/ PullFails PROVE Inv'
<1> USE FederationAssumption
<1>1. CASE PullOnce
    <2>1. TypeOK'
        BY <1>1 DEF PullOnce, ActivePeers, Inv, TypeOK, ValidTimes, Expired, Forever,
            envVars, storeVars, discVars, failVars
    <2>2. PullHasPeer' /\ StoredIsRecent' /\ ResponseIsRecent' /\ StillNewer'
        BY <1>1 DEF PullOnce, Inv, PullHasPeer, StoredIsRecent, ResponseIsRecent, StillNewer,
            envVars, storeVars
    <2> QED
        BY <2>1, <2>2 DEF Inv
<1>2. ASSUME NEW n \in Node, SkipPeer(n) \/ RequestSnapshot(n)
      PROVE  Inv'
    <2>1. TypeOK'
        <3>1. todoLeft' \in [Node -> ValidTimes]
            <4>1. Expired \in ValidTimes
                BY DEF ValidTimes, Expired, Forever
            <4>2. todoLeft' = [todoLeft EXCEPT ![n] = Expired]
                BY <1>2 DEF SkipPeer, RequestSnapshot
            <4> QED
                BY <4>1, <4>2 DEF Inv, TypeOK
        <3>2. /\ todo' \in SUBSET Node /\ cur' \in Node \cup {NoNode}
              /\ phase' \in {"idle", "request", "response", "upsert"}
            BY <1>2 DEF SkipPeer, RequestSnapshot, Inv, TypeOK
        <3>3. UNCHANGED <<envVars, storeVars, discVars, failVars, reqAge, respLeft, respSeq>>
            BY <1>2 DEF SkipPeer, RequestSnapshot
        <3> QED
            BY <3>1, <3>2, <3>3 DEF Inv, TypeOK, envVars, storeVars, discVars, failVars
    <2>2. PullHasPeer' /\ StoredIsRecent' /\ ResponseIsRecent' /\ StillNewer'
        BY <1>2 DEF SkipPeer, RequestSnapshot, Inv, PullHasPeer, StoredIsRecent,
            ResponseIsRecent, StillNewer, envVars, storeVars
    <2> QED
        BY <2>1, <2>2 DEF Inv
<1>3. CASE Snapshot
    <2>1. cur \in Node
        BY <1>3 DEF Snapshot, Inv, PullHasPeer
    <2>2. TypeOK'
        BY <1>3, <2>1 DEF Snapshot, Inv, TypeOK, SnapTimes, Expired, LongSilent,
            storeVars, discVars, failVars
    <2>3. PullHasPeer' /\ StillNewer'
        BY <1>3, <2>1 DEF Snapshot, Inv, PullHasPeer, StillNewer
    <2>4. StoredIsRecent'
        BY <1>3, <2>1 DEF Snapshot, Inv, TypeOK, StoredIsRecent, SnapTimes, Expired, LongSilent,
            storeVars
    <2>5. ResponseIsRecent'
        BY <1>3, <2>1 DEF Snapshot, Inv, TypeOK, ResponseIsRecent
    <2> QED
        BY <2>2, <2>3, <2>4, <2>5 DEF Inv
<1>4. CASE AcceptSnapshot
    <2>1. TypeOK'
        BY <1>4 DEF AcceptSnapshot, Inv, TypeOK, envVars, storeVars, discVars, failVars
    <2>2. PullHasPeer' /\ StoredIsRecent' /\ ResponseIsRecent' /\ StillNewer'
        BY <1>4 DEF AcceptSnapshot, ValidateSnapshot, Inv, PullHasPeer, StoredIsRecent,
            ResponseIsRecent, StillNewer, envVars, storeVars
    <2> QED
        BY <2>1, <2>2 DEF Inv
<1>5. CASE RejectSnapshot \/ PullFails
    BY <1>5, FailureInv DEF RejectSnapshot, PullFails, Inv, PullHasPeer
<1>6. CASE UpsertSnapshot
    <2>1. cur \in Node
        BY <1>6 DEF UpsertSnapshot, Inv, PullHasPeer
    <2>2. TypeOK'
        BY <1>6, <2>1 DEF UpsertSnapshot, EndPull, Inv, TypeOK, SnapTimes, Expired, NoNode,
            envVars, discVars
    <2>3. PullHasPeer' /\ ResponseIsRecent' /\ StillNewer'
        BY <1>6 DEF UpsertSnapshot, EndPull, PullHasPeer, ResponseIsRecent, StillNewer
    <2>4. StoredIsRecent'
        BY <1>6, <2>1 DEF UpsertSnapshot, EndPull, Inv, TypeOK, StoredIsRecent,
            ResponseIsRecent, envVars
    <2> QED
        BY <2>2, <2>3, <2>4 DEF Inv
<1> QED
    BY <1>1, <1>2, <1>3, <1>4, <1>5, <1>6 DEF PullerStep

\* The invariant is inductive.
LEMMA NextInv == Inv /\ [Next]_vars => Inv'
<1> SUFFICES ASSUME Inv, [Next]_vars PROVE Inv'
    OBVIOUS
<1>1. CASE Environment
    BY <1>1, OutsideInv, TickInv DEF Environment
<1>2. CASE DiscoverOnce
    BY <1>2, DiscoverInv
<1>3. CASE PullerStep \/ Snapshot \/ PullFails
    BY <1>3, PullInv
<1>4. CASE UNCHANGED vars
    BY <1>4 DEF vars, envVars, storeVars, discVars, pullVars, failVars, Inv, TypeOK,
        PullHasPeer, StoredIsRecent, ResponseIsRecent, StillNewer
<1> QED
    BY <1>1, <1>2, <1>3, <1>4 DEF Next

\* The invariant holds in every state of every behaviour.
THEOREM SpecInv == Spec => []Inv
<1>1. Init => Inv
    BY InitInv
<1>2. Inv /\ [Next]_vars => Inv'
    BY NextInv
<1> QED
    BY <1>1, <1>2, PTL DEF Spec

\* Every variable keeps its type.
THEOREM TypeCorrect == Spec => []TypeOK
<1>1. Inv => TypeOK
    BY DEF Inv
<1> QED
    BY <1>1, SpecInv, PTL

\* A node in the global list returned a snapshot no longer ago than the time to
\* live and the skew of its clock.
THEOREM VisibleIsRecentHolds == Spec => []VisibleIsRecent
<1>1. Inv => VisibleIsRecent
    BY FederationAssumption DEF Inv, TypeOK, StoredIsRecent, VisibleIsRecent, ActiveSnapshots,
        SnapTimes, Expired, LongSilent
<1> QED
    BY <1>1, SpecInv, PTL

\* A valid snapshot in the store is only replaced by one with a higher sequence.
THEOREM SequenceMonotoneHolds == Spec => SequenceMonotone
<1> DEFINE Higher ==
        \A n \in Node :
            /\ n \in snaps /\ snapLeft[n] >= 0 /\ n \in snaps'
            /\ snapSeq'[n] # snapSeq[n] \/ snapLeft'[n] > snapLeft[n]
            => snapSeq'[n] > snapSeq[n]
<1>1. Inv /\ [Next]_vars => [Higher]_vars
    <2> SUFFICES ASSUME Inv, Next PROVE Higher
        OBVIOUS
    <2> USE FederationAssumption
    <2>1. CASE Tick
        BY <2>1 DEF Tick, SnapLeft, SnapTimes, Expired, Inv, TypeOK
    <2>2. ASSUME NEW m \in Node, RemovePeer(m)
          PROVE  Higher
        BY <2>2 DEF RemovePeer, Inv, TypeOK, SnapTimes, Expired
    <2>3. CASE UpsertSnapshot
        BY <2>3 DEF UpsertSnapshot, Inv, TypeOK, SnapTimes, PullHasPeer, StillNewer
    <2>4. CASE UNCHANGED <<snapSeq, snapLeft>>
        BY <2>4 DEF Inv, TypeOK, SnapTimes, Expired
    <2> QED
        BY <2>1, <2>2, <2>3, <2>4 DEF Next, Environment, Register, Revoke, Restart, ServeOther,
            DiscoverOnce, FetchRegistryPins, UpsertPeer, PullerStep, PullOnce, SkipPeer,
            RequestSnapshot, AcceptSnapshot, RejectSnapshot, Snapshot, PullFails, storeVars
<1> HIDE DEF Higher
<1>2. Spec => [][Higher]_vars
    BY <1>1, SpecInv, PTL DEF Spec
<1> QED
    BY <1>2 DEF SequenceMonotone, Higher

-----------------------------------------------------------------------------
(* Publisher: the inductive invariant *)

\* What the registration still needs at the start of a publication when f
\* publications have failed: the intervals and the requests of those to come.
Slack(f) == (MaxFails - f) * (RenewInterval + MaxDelay) + MaxDelay

\* While the node runs, its ticker cannot tick during a publication, and a
\* tick is taken before time passes.
TickerOK ==
    ~stopped =>
        /\ pc # "returned"
        /\ pc \in {"begin", "wait"} => age = 0
        /\ pc = "begin" => timer = NoTicker
        /\ pc = "wait" => timer \in 1..RenewInterval
        /\ tick => pc = "wait" /\ timer = RenewInterval
        /\ InCall /\ timer # NoTicker => timer >= RenewInterval - age

\* The registration lasts until the publication that can still save it.
LeaseOK ==
    registered /\ fails <= MaxFails /\ ~stopped =>
        /\ pc = "begin" => left >= Slack(fails)
        /\ pc = "wait" /\ tick => left >= Slack(fails)
        /\ pc = "wait" /\ ~tick => left >= timer + Slack(fails)
        /\ InCall => left >= Slack(fails) - age

\* The fee is what some size costs, and every attempt so far raised it past a
\* size that it did not cover.
FeeOK ==
    /\ pc \in {"begin", "wait", "utxos", "returned"} => NoBuild
    /\ pc = "build" =>
         /\ required = 0 \/ \E s \in Sizes : required = s * FeeRate
         /\ attempt <= Cardinality(Covered(required))
    /\ pc \in {"broadcast", "sent"} =>
         /\ tx.fee >= tx.size * FeeRate
         /\ \E s \in Sizes : tx.fee <= s * FeeRate
         /\ tx.change >= Dust
         /\ tx.change + Dust + tx.fee = balance

PublisherInv == PublisherTypeOK /\ TickerOK /\ LeaseOK /\ FeeOK

-----------------------------------------------------------------------------
(* Arithmetic of the lease *)

\* The part of PublisherAssumption that is linear.
LEMMA PublisherConstants ==
    /\ ValidFor \in Nat /\ RenewInterval \in Nat /\ MaxDelay \in Nat
    /\ MaxDelay < RenewInterval
    /\ MaxFails \in Nat /\ MaxCrashes \in Nat /\ MaxAttempts \in Nat
    /\ FeeRate \in Nat /\ Dust \in Nat /\ Balances \subseteq Nat /\ Sizes \subseteq Nat
  BY PublisherAssumption

\* A failure costs one interval and one delay.
LEMMA SlackStep ==
    ASSUME NEW f \in 0..MaxFails, f < MaxFails
    PROVE  Slack(f) = Slack(f + 1) + RenewInterval + MaxDelay
  BY PublisherAssumption DEF Slack

\* The last publication needs its own delay, and the first the most.
LEMMA SlackBounds ==
    ASSUME NEW f \in 0..MaxFails
    PROVE  /\ Slack(f) \in Nat
           /\ Slack(f) >= MaxDelay
           /\ Slack(f) <= Slack(0)
<1> DEFINE P == RenewInterval + MaxDelay
<1>1. P \in Nat /\ MaxFails - f \in Nat /\ MaxFails \in Nat /\ MaxDelay \in Nat
  BY PublisherAssumption
<1> HIDE DEF P
<1>2. \A a, b \in Nat : a * b \in Nat
  OBVIOUS
<1>3. (MaxFails - f) * P \in Nat /\ f * P \in Nat
  BY <1>1, <1>2
<1>4. MaxFails * P = (MaxFails - f) * P + f * P
  BY <1>1
<1> QED BY <1>1, <1>3, <1>4 DEF Slack, P

\* A fresh pin that was held up by the longest delay lasts an interval longer
\* than a first publication needs.
LEMMA FreshLease == ValidFor - MaxDelay >= RenewInterval + Slack(0)
<1> DEFINE P == RenewInterval + MaxDelay
<1>1. (MaxFails + 1) * RenewInterval + (MaxFails + 2) * MaxDelay
        = MaxFails * P + RenewInterval + MaxDelay + MaxDelay
  BY PublisherAssumption
<1>2. MaxFails * P \in Nat
  BY PublisherAssumption
<1> HIDE DEF P
<1> QED BY <1>1, <1>2, PublisherAssumption DEF Slack, P

-----------------------------------------------------------------------------
(* The invariant *)

LEMMA PublisherInitInv == PublisherInit => PublisherInv
<1> SUFFICES ASSUME PublisherInit PROVE PublisherInv
  OBVIOUS
<1>1. PublisherTypeOK
  <2>1. NoTx \in Txs
    BY DEF NoTx, Txs
  <2>2. timer \in NoTicker..RenewInterval /\ left \in Lapsed..ValidFor
    BY PublisherConstants DEF PublisherInit, NoTicker, Lapsed
  <2>3. age \in 0..MaxDelay /\ attempt \in 0..MaxAttempts /\ required \in Nat
    BY PublisherConstants DEF PublisherInit, NoBuild
  <2>4. fails \in 0..(MaxFails + 1) /\ crashes \in 0..MaxCrashes
    BY PublisherConstants DEF PublisherInit
  <2>5. balance \in Balances \cup {0} /\ tx \in Txs
    BY <2>1 DEF PublisherInit, NoBuild
  <2> QED BY <2>2, <2>3, <2>4, <2>5 DEF PublisherInit, PublisherTypeOK
<1>2. TickerOK
  BY DEF PublisherInit, TickerOK, InCall
<1>3. LeaseOK
  BY DEF PublisherInit, LeaseOK
<1>4. FeeOK
  BY DEF PublisherInit, FeeOK
<1> QED BY <1>1, <1>2, <1>3, <1>4 DEF PublisherInv

LEMMA NextTypeOK == PublisherInv /\ [PublisherNext]_publisherVars => PublisherTypeOK'
<1> SUFFICES ASSUME PublisherInv, [PublisherNext]_publisherVars PROVE PublisherTypeOK'
  OBVIOUS
<1> USE PublisherConstants DEF PublisherInv, PublisherTypeOK
<1>0. NoTx \in Txs
  BY DEF NoTx, Txs
<1>a. NoTicker \in NoTicker..RenewInterval /\ Lapsed = -1 /\ NoTicker = -1
  BY DEF NoTicker, Lapsed
<1>1. CASE Begin
  BY <1>1 DEF Begin, buildVars, history
<1>2. CASE Renew
  BY <1>2 DEF Renew, buildVars, history
<1>3. CASE Leave
  BY <1>3, <1>a DEF Leave, buildVars, history
<1>4. ASSUME NEW s \in Sizes, SignAttempt(s) PROVE PublisherTypeOK'
  <2>1. s * FeeRate \in Nat
    OBVIOUS
  <2>2. Change \in Int
    BY DEF Change
  <2>3. [change |-> Change, fee |-> required, size |-> s] \in Txs
    BY <2>2 DEF Txs
  <2>4. tx' \in Txs
    BY <1>4, <2>3 DEF SignAttempt
  <2>5. required' \in Nat /\ attempt' \in 0..MaxAttempts
    BY <1>4, <2>1 DEF SignAttempt
  <2> QED BY <1>4, <2>4, <2>5 DEF SignAttempt, history
<1>5. CASE Fail
  BY <1>5, <1>0, <1>a DEF Fail, Return, OneMoreFailure
<1>6. CASE SendBroadcast
  BY <1>6 DEF SendBroadcast, buildVars, history
<1>7. ASSUME NEW b \in Balances, FetchUTXOs(b) PROVE PublisherTypeOK'
  BY <1>7 DEF FetchUTXOs, history
<1>8. CASE Accepted
  <2>1. RegistryLeft \in Lapsed..ValidFor
    BY SlackBounds, FreshLease, <1>a DEF RegistryLeft
  <2> QED BY <1>8, <1>0, <1>a, <2>1 DEF Accepted, Return
<1>9. CASE AcceptedUnseen
  <2>1. RegistryLeft \in Lapsed..ValidFor
    BY SlackBounds, FreshLease, <1>a DEF RegistryLeft
  <2> QED BY <1>9, <1>0, <1>a, <2>1 DEF AcceptedUnseen, Return, OneMoreFailure
<1>10. CASE Elapse
  BY <1>10, <1>a DEF Elapse, buildVars, history
<1>11. CASE Stop
  BY <1>11 DEF Stop, loopVars, buildVars, history
<1>12. CASE Crash
  <2>1. age' \in 0..MaxDelay /\ timer' \in NoTicker..RenewInterval /\ attempt' \in 0..MaxAttempts
    BY <1>12, <1>a DEF Crash
  <2>2. fails' \in 0..(MaxFails + 1) /\ crashes' \in 0..MaxCrashes
    BY <1>12 DEF Crash, OneMoreFailure
  <2> QED BY <1>12, <1>0, <2>1, <2>2 DEF Crash
<1>13. CASE UNCHANGED publisherVars
  BY <1>13 DEF publisherVars, loopVars, buildVars, history
<1> QED BY <1>1, <1>2, <1>3, <1>4, <1>5, <1>6, <1>7, <1>8, <1>9, <1>10, <1>11, <1>12,
           <1>13 DEF PublisherNext, LoopStep, WalletStep, FetchFails, BuildFails, BroadcastFails

LEMMA NextTickerOK == PublisherInv /\ [PublisherNext]_publisherVars => TickerOK'
<1> SUFFICES ASSUME PublisherInv, [PublisherNext]_publisherVars, ~stopped' PROVE TickerOK'
  BY DEF TickerOK
<1>0. /\ PublisherTypeOK /\ TickerOK /\ ~stopped
  BY DEF PublisherInv, PublisherNext, LoopStep, WalletStep, FetchFails, BuildFails, BroadcastFails, Fail,
         Begin, Renew, Leave, SignAttempt, SendBroadcast, FetchUTXOs, Accepted,
         AcceptedUnseen, Elapse, Stop, Crash, publisherVars
<1>a. NoTicker = -1
  BY DEF NoTicker
<1> USE PublisherConstants, <1>0, <1>a DEF PublisherTypeOK, TickerOK, InCall
<1>1. CASE Begin
  BY <1>1 DEF Begin
<1>2. CASE Renew
  BY <1>2 DEF Renew
<1>3. CASE Leave
  BY <1>3 DEF Leave
<1>4. ASSUME NEW s \in Sizes, SignAttempt(s) PROVE TickerOK'
  BY <1>4 DEF SignAttempt
<1>5. CASE InCall /\ Fail
  BY <1>5 DEF Fail, Return
<1>6. CASE SendBroadcast
  BY <1>6 DEF SendBroadcast
<1>7. ASSUME NEW b \in Balances, FetchUTXOs(b) PROVE TickerOK'
  BY <1>7 DEF FetchUTXOs
<1>8. CASE Accepted
  BY <1>8 DEF Accepted, Return
<1>9. CASE AcceptedUnseen
  BY <1>9 DEF AcceptedUnseen, Return
<1>10. CASE Elapse
  BY <1>10 DEF Elapse
<1>11. CASE Stop
  BY <1>11 DEF Stop
<1>12. CASE Crash
  BY <1>12 DEF Crash
<1>13. CASE UNCHANGED publisherVars
  BY <1>13 DEF publisherVars, loopVars
<1> QED BY <1>1, <1>2, <1>3, <1>4, <1>5, <1>6, <1>7, <1>8, <1>9, <1>10, <1>11, <1>12,
           <1>13 DEF PublisherNext, LoopStep, WalletStep, FetchFails, BuildFails, BroadcastFails

LEMMA NextLeaseOK == PublisherInv /\ [PublisherNext]_publisherVars => LeaseOK'
<1> SUFFICES ASSUME PublisherInv, [PublisherNext]_publisherVars, registered', fails' <= MaxFails, ~stopped'
             PROVE  LeaseOK'
  BY DEF LeaseOK
<1>0. PublisherTypeOK /\ TickerOK /\ LeaseOK
  BY DEF PublisherInv
<1>s. ~stopped
  BY DEF PublisherNext, LoopStep, WalletStep, FetchFails, BuildFails, BroadcastFails, Fail,
         Begin, Renew, Leave, SignAttempt, SendBroadcast, FetchUTXOs, Accepted,
         AcceptedUnseen, Elapse, Stop, Crash, publisherVars
<1>a. NoTicker = -1 /\ Lapsed = -1
  BY DEF NoTicker, Lapsed
<1>b. fails \in 0..MaxFails => Slack(fails) \in Nat /\ Slack(fails) >= MaxDelay
  BY SlackBounds
<1> USE PublisherConstants, <1>0, <1>s, <1>a, <1>b DEF PublisherTypeOK, TickerOK, LeaseOK, InCall
<1>1. CASE Begin
  BY <1>1 DEF Begin, history
<1>2. CASE Renew
  BY <1>2 DEF Renew, history
<1>3. CASE Leave
  BY <1>3 DEF Leave
<1>4. ASSUME NEW s \in Sizes, SignAttempt(s) PROVE LeaseOK'
  BY <1>4 DEF SignAttempt, history
<1>5. CASE InCall /\ Fail
  <2>1. registered /\ fails < MaxFails /\ fails' = fails + 1 /\ left' = left
    BY <1>5 DEF Fail, OneMoreFailure
  <2>2. Slack(fails) = Slack(fails') + RenewInterval + MaxDelay /\ Slack(fails') \in Nat
    BY <2>1, SlackStep, SlackBounds
  <2>3. left >= Slack(fails) - age
    BY <1>5, <2>1
  <2>4. left' >= RenewInterval + Slack(fails')
    BY <2>1, <2>2, <2>3
  <2>5. pc' = "wait" /\ timer' <= RenewInterval /\ timer' \in Int
    BY <1>5 DEF Fail, Return
  <2> QED BY <2>1, <2>2, <2>4, <2>5
<1>6. CASE SendBroadcast
  BY <1>6 DEF SendBroadcast, history
<1>7. ASSUME NEW b \in Balances, FetchUTXOs(b) PROVE LeaseOK'
  BY <1>7 DEF FetchUTXOs, history
<1>8. ASSUME pc = "sent", left' = RegistryLeft, Return, fails' \in 0..MaxFails
      PROVE  LeaseOK'
  <2>1. Slack(fails') \in Nat /\ Slack(fails') <= Slack(0) /\ Slack(0) \in Nat
    BY <1>8, SlackBounds
  <2>2. left' >= RenewInterval + Slack(fails') /\ left' \in Int
    BY <1>8, <2>1, FreshLease DEF RegistryLeft
  <2>3. pc' = "wait" /\ timer' <= RenewInterval /\ timer' \in Int
    BY <1>8 DEF Return
  <2> QED BY <2>1, <2>2, <2>3
<1>9. CASE Accepted
  BY <1>9, <1>8 DEF Accepted
<1>10. CASE AcceptedUnseen
  BY <1>10, <1>8 DEF AcceptedUnseen, OneMoreFailure
<1>11. CASE Elapse
  <2>1. registered /\ fails' = fails /\ fails \in 0..MaxFails /\ pc' = pc
    BY <1>11 DEF Elapse, history
  <2>2. CASE InCall
    <3>1. left >= Slack(fails) - age /\ age < MaxDelay
      BY <1>11, <2>1, <2>2 DEF Elapse
    <3>2. left' = left - 1 /\ age' = age + 1
      BY <1>11, <2>1, <2>2, <3>1 DEF Elapse
    <3> QED BY <2>1, <2>2, <3>1, <3>2
  <2>3. CASE pc = "wait"
    <3>1. ~tick /\ timer \in 1..RenewInterval /\ left >= timer + Slack(fails)
      BY <1>11, <2>1, <2>3 DEF Elapse
    <3>2. left' = left - 1
      BY <1>11, <2>1, <3>1 DEF Elapse
    <3>3. timer # 1 => timer' = timer - 1
      BY <1>11, <3>1 DEF Elapse
    <3>4. tick' <=> timer = 1
      BY <1>11, <3>1 DEF Elapse
    <3> QED BY <2>1, <2>3, <3>1, <3>2, <3>3, <3>4
  <2> QED BY <1>11, <2>1, <2>2, <2>3 DEF Elapse
<1>12. CASE Stop
  BY <1>12 DEF Stop
<1>13. CASE Crash
  <2>1. CASE InCall
    <3>1. registered /\ fails < MaxFails /\ fails' = fails + 1 /\ left' = left
      BY <1>13, <2>1 DEF Crash, OneMoreFailure
    <3>2. Slack(fails) = Slack(fails') + RenewInterval + MaxDelay /\ Slack(fails') \in Nat
      BY <3>1, SlackStep, SlackBounds
    <3>3. left >= Slack(fails) - age
      BY <2>1, <3>1
    <3> QED BY <1>13, <3>1, <3>2, <3>3 DEF Crash
  <2>2. CASE ~InCall
    BY <1>13, <2>2 DEF Crash
  <2> QED BY <2>1, <2>2
<1>14. CASE UNCHANGED publisherVars
  BY <1>14 DEF publisherVars, loopVars, history
<1> QED BY <1>1, <1>2, <1>3, <1>4, <1>5, <1>6, <1>7, <1>9, <1>10, <1>11, <1>12, <1>13,
           <1>14 DEF PublisherNext, LoopStep, WalletStep, FetchFails, BuildFails, BroadcastFails

-----------------------------------------------------------------------------
(* The fee loop *)

\* A fee covers finitely many sizes.
LEMMA CoveredBound ==
    ASSUME NEW fee \in Nat
    PROVE  /\ IsFiniteSet(Covered(fee))
           /\ Cardinality(Covered(fee)) \in Nat
<1>1. IsFiniteSet(Covered(fee))
  BY PublisherAssumption, FS_Subset DEF Covered
<1> QED BY <1>1, FS_CardinalityType

\* Raising the fee to what a size costs that was not covered covers one more.
LEMMA RaiseCovers ==
    ASSUME NEW fee \in Nat, NEW s \in Sizes, ~(fee >= s * FeeRate)
    PROVE  Cardinality(Covered(fee)) + 1 <= Cardinality(Covered(s * FeeRate))
<1>1. s * FeeRate \in Nat /\ \A t \in Sizes : t * FeeRate \in Nat
  BY PublisherAssumption
<1>2. s \in Covered(s * FeeRate) /\ s \notin Covered(fee)
  BY <1>1 DEF Covered
<1>3. Covered(fee) \cup {s} \subseteq Covered(s * FeeRate)
  BY <1>1, <1>2 DEF Covered
<1> DEFINE C == Covered(fee)
           D == Covered(s * FeeRate)
<1>4. IsFiniteSet(C) /\ IsFiniteSet(D) /\ s \notin C /\ C \cup {s} \subseteq D
  BY <1>1, <1>2, <1>3, CoveredBound
<1> HIDE DEF C, D
<1>5. Cardinality(C \cup {s}) = Cardinality(C) + 1
  BY <1>4, FS_AddElement
<1>6. Cardinality(C \cup {s}) <= Cardinality(D)
  BY <1>4, FS_Subset
<1> QED BY <1>5, <1>6 DEF C, D

LEMMA NextFeeOK == PublisherInv /\ [PublisherNext]_publisherVars => FeeOK'
<1> SUFFICES ASSUME PublisherInv, [PublisherNext]_publisherVars PROVE FeeOK'
  OBVIOUS
<1>0. PublisherTypeOK /\ FeeOK
  BY DEF PublisherInv
<1>1. ASSUME UNCHANGED <<pc, buildVars>> PROVE FeeOK'
  BY <1>0, <1>1 DEF FeeOK, NoBuild, buildVars
<1>2. CASE Begin \/ Renew \/ Leave
  BY <1>0, <1>2 DEF Begin, Renew, Leave, FeeOK, NoBuild, buildVars
<1>3. ASSUME NEW s \in Sizes, SignAttempt(s) PROVE FeeOK'
  <2>1. /\ s * FeeRate \in Nat /\ required \in Nat /\ attempt \in Nat /\ balance \in Nat
        /\ Dust \in Nat
    BY <1>0, PublisherConstants DEF PublisherTypeOK
  <2>2. CASE required >= s * FeeRate
    <3>1. /\ pc' = "broadcast" /\ tx' = [change |-> Change, fee |-> required, size |-> s]
          /\ balance' = balance /\ Change >= Dust /\ pc = "build"
      BY <1>3, <2>2 DEF SignAttempt
    <3>2. s * FeeRate > 0
      BY PublisherAssumption
    <3>3. \E t \in Sizes : required = t * FeeRate
      BY <1>0, <2>1, <2>2, <3>1, <3>2 DEF FeeOK
    <3>4. PICK t \in Sizes : required = t * FeeRate
      BY <3>3
    <3>5. tx'.fee = required /\ tx'.size = s /\ tx'.change = Change
      BY <3>1
    <3>6. Change + Dust + required = balance
      BY <2>1 DEF Change
    <3>7. required <= t * FeeRate
      BY <2>1, <3>4
    <3> HIDE DEF Change
    <3> QED BY <2>2, <3>1, <3>5, <3>6, <3>7 DEF FeeOK
  <2>3. CASE ~(required >= s * FeeRate)
    <3>1. pc' = "build" /\ required' = s * FeeRate /\ attempt' = attempt + 1 /\ pc = "build"
      BY <1>3, <2>1, <2>3 DEF SignAttempt
    <3>2. attempt <= Cardinality(Covered(required))
      BY <1>0, <3>1 DEF FeeOK
    <3>3. Cardinality(Covered(required)) + 1 <= Cardinality(Covered(required'))
      BY <2>1, <2>3, <3>1, RaiseCovers
    <3>4. Cardinality(Covered(required)) \in Nat /\ Cardinality(Covered(required')) \in Nat
      BY <2>1, <3>1, CoveredBound
    <3>5. attempt' <= Cardinality(Covered(required'))
      BY <2>1, <3>1, <3>2, <3>3, <3>4
    <3> QED BY <3>1, <3>5 DEF FeeOK
  <2> QED BY <2>2, <2>3
<1>4. ASSUME Return \/ Crash PROVE FeeOK'
  BY <1>4 DEF Return, Crash, FeeOK, NoBuild, NoTx
<1>5. CASE SendBroadcast
  BY <1>0, <1>5 DEF SendBroadcast, FeeOK, buildVars
<1>6. ASSUME NEW b \in Balances, FetchUTXOs(b) PROVE FeeOK'
  <2>1. pc' = "build" /\ required' = 0 /\ attempt' = 0
    BY <1>0, <1>6 DEF FetchUTXOs, FeeOK, NoBuild
  <2>2. Cardinality(Covered(0)) >= 0
    BY CoveredBound
  <2> QED BY <2>1, <2>2 DEF FeeOK
<1> QED BY <1>1, <1>2, <1>3, <1>4, <1>5, <1>6
        DEF PublisherNext, LoopStep, WalletStep, FetchFails, BuildFails, BroadcastFails, Fail,
            Accepted, AcceptedUnseen, Elapse, Stop, publisherVars, loopVars

LEMMA PublisherNextInv == PublisherInv /\ [PublisherNext]_publisherVars => PublisherInv'
  BY NextTypeOK, NextTickerOK, NextLeaseOK, NextFeeOK DEF PublisherInv

-----------------------------------------------------------------------------
(* Theorems *)

\* Every variable of the publisher keeps its type; in particular the number of
\* attempts, the time left and the time until the next tick keep their bounds.
THEOREM PublisherTypeCorrect == PublisherSpec => []PublisherTypeOK
<1>1. PublisherInv => PublisherTypeOK
  BY DEF PublisherInv
<1> QED BY <1>1, PublisherInitInv, PublisherNextInv, PTL DEF PublisherSpec

\* A running, registered node stays registered through MaxFails failed publications
\* in a row, for every validity that fits them (PublishOnce, run).
THEOREM StaysRegisteredHolds == PublisherSpec => []StaysRegistered
<1>1. PublisherInv => StaysRegistered
  <2> SUFFICES ASSUME PublisherInv, registered, fails <= MaxFails, ~stopped PROVE left # Lapsed
    BY DEF StaysRegistered
  <2>1. fails \in 0..MaxFails
    BY PublisherConstants DEF PublisherInv, PublisherTypeOK
  <2>2. Slack(fails) \in Nat /\ Slack(fails) >= MaxDelay
    BY <2>1, SlackBounds
  <2>3. left >= 0
    BY <2>2, PublisherConstants DEF PublisherInv, PublisherTypeOK, TickerOK, LeaseOK, InCall
  <2> QED BY <2>3 DEF Lapsed
<1> QED BY <1>1, PublisherInitInv, PublisherNextInv, PTL DEF PublisherSpec

\* What BuildMVCRegistryTx returns pays for its size and wastes nothing, for any
\* finite set of sizes and any number of attempts; and each attempt of its loop
\* that fails has met a size larger than all before.
THEOREM FeeIsPaidHolds == PublisherSpec => []FeeIsPaid
<1>1. PublisherInv => FeeIsPaid
  BY DEF PublisherInv, FeeOK, FeeIsPaid
<1> QED BY <1>1, PublisherInitInv, PublisherNextInv, PTL DEF PublisherSpec
=============================================================================
