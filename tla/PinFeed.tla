------------------------------- MODULE PinFeed -------------------------------
(***************************************************************************)
(* How the pins of a chain reach an aggregator: what the indexing engine   *)
(* (internal/indexer) and a MANAPI backfill do, seen from the aggregator.  *)
(*                                                                         *)
(* Every goroutine calls the aggregator synchronously, with one pin at a   *)
(* time, and no lock is shared between them.  The scan goroutine passes    *)
(* the mined pins in order; the mempool goroutine passes, in any order,    *)
(* the pins of a poll, and a pin that stays unconfirmed again when its     *)
(* entry in mempoolSeen has expired; a backfill passes the mined pins from *)
(* the newest to the oldest.  The module Indexer has the engine itself;    *)
(* blocks that it skips are not part of this view.                         *)
(***************************************************************************)
EXTENDS Naturals, Sequences

CONSTANTS
    Chains,       \* a chain is the sequence of pins that will be mined
    WriterSets,   \* sets of goroutines that may be running
    MaxPolls,     \* bound on how often a process polls an unconfirmed pin
    MaxCrashes    \* bound on the number of crashes

PinsOf(ch) == {ch[i] : i \in 1..Len(ch)}
Pins == UNION {PinsOf(ch) : ch \in Chains}
\* A replay keeps its place itself (PublishedContent).
AllWriters == {"scan", "mempool", "backfill", "replay"}

ASSUME FeedAssumption ==
    /\ \A ch \in Chains : ch \in Seq(PinsOf(ch)) /\ Len(ch) > 0
    /\ WriterSets \subseteq SUBSET AllWriters
    /\ MaxPolls \in Nat /\ MaxCrashes \in Nat

VARIABLES
    chain,    \* what the chain will hold
    writers,  \* the goroutines that run
    mined,    \* length of the chain
    pos,      \* pins the scan goroutine is done with
    polled,   \* polled[p]: how often filterSeenMempoolPins has let p through
    queue,    \* pins it has let through that are still to be routed
    backfill, \* pins the backfill has still to go through
    late,     \* a pin was mined before the mempool goroutine was done with it
    crashes

setup == <<chain, writers>>
feedVars == <<chain, writers, mined, pos, polled, queue, backfill, late, crashes>>

FeedTypeOK ==
    /\ chain \in Chains /\ writers \in WriterSets
    /\ mined \in 0..Len(chain) /\ pos \in 0..mined
    /\ polled \in [Pins -> 0..MaxPolls] /\ queue \subseteq Pins
    /\ backfill \in 0..mined
    /\ late \in BOOLEAN
    /\ crashes \in 0..MaxCrashes

\* A backfill starts on a chain that has been growing for some time.
FeedInit ==
    /\ chain \in Chains /\ writers \in WriterSets
    /\ mined \in (IF "backfill" \in writers THEN 0..Len(chain) ELSE {0})
    /\ pos = 0 /\ polled = [p \in Pins |-> 0] /\ queue = {}
    /\ backfill = IF "backfill" \in writers THEN mined ELSE 0
    /\ late = FALSE /\ crashes = 0

\* The next pin is mined, while the mempool goroutine is busy with some pins.
MineNext(busy) ==
    /\ mined < Len(chain)
    /\ mined' = mined + 1
    /\ late' = (late \/ chain[mined + 1] \in queue \cup busy)
    /\ UNCHANGED <<setup, pos, polled, queue, backfill, crashes>>

\* A mempool poll lists the pin, for the first time or after mempoolDedupeTTL.
PollMempool(p) ==
    /\ "mempool" \in writers
    /\ polled[p] < MaxPolls
    /\ \E i \in mined + 1 .. Len(chain) : chain[i] = p
    /\ polled' = [polled EXCEPT ![p] = @ + 1]
    /\ queue' = queue \cup {p}
    /\ UNCHANGED <<setup, mined, pos, backfill, late, crashes>>

\* The goroutine is about to pass p to the aggregator: the next pin of the scan,
\* a pin of the poll, or the next older pin of the backfill.
ScanOffers(p) == "scan" \in writers /\ pos < mined /\ p = chain[pos + 1]
MempoolOffers(p) == p \in queue
BackfillOffers(p) == backfill > 0 /\ p = chain[backfill]

Offered(w, p) ==
    \/ w = "scan" /\ ScanOffers(p)
    \/ w = "mempool" /\ MempoolOffers(p)
    \/ w = "backfill" /\ BackfillOffers(p)

\* w has called the aggregator with p, and the call goes on.
Take(w, p) ==
    /\ queue' = IF w = "mempool" THEN queue \ {p} ELSE queue
    /\ UNCHANGED <<setup, mined, pos, polled, backfill, late, crashes>>

Advance(w) ==
    /\ pos' = IF w = "scan" THEN pos + 1 ELSE pos
    /\ backfill' = IF w = "backfill" THEN backfill - 1 ELSE backfill

\* The call with p has returned at once.
Pass(w, p) ==
    /\ queue' = IF w = "mempool" THEN queue \ {p} ELSE queue
    /\ Advance(w)
    /\ UNCHANGED <<setup, mined, polled, late, crashes>>

\* The call that Take began returns.
Done(w) ==
    /\ Advance(w)
    /\ UNCHANGED <<setup, mined, polled, queue, late, crashes>>

\* The process dies and starts again: the engine goes back to a block it has
\* persisted, a poll lists everything again and a backfill starts over.
Restart ==
    /\ crashes < MaxCrashes
    /\ crashes' = crashes + 1
    /\ pos' \in 0..pos
    /\ polled' = [p \in Pins |-> 0] /\ queue' = {}
    /\ backfill' = IF "backfill" \in writers THEN mined ELSE 0
    /\ UNCHANGED <<setup, mined, late>>

\* The chain is complete, and no pin of it is waiting for a goroutine.
AllRouted ==
    /\ mined = Len(chain) /\ backfill = 0 /\ queue = {}
    /\ pos = Len(chain) \/ "scan" \notin writers
=============================================================================
