------------------------------ MODULE Indexer ------------------------------
(***************************************************************************)
(* The indexing engine (internal/indexer/engine.go) on one chain: the scan *)
(* goroutine that routes the pins of confirmed blocks to the aggregators,  *)
(* the mempool goroutine that routes the pins of unconfirmed transactions, *)
(* and the height in Pebble that a restarted process continues from.       *)
(*                                                                         *)
(* Block h of the chain holds the pins Blocks[h]; transaction t the pins   *)
(* TxPins[t].  A crash may happen between any two steps and loses what is  *)
(* only in memory.                                                         *)
(***************************************************************************)
EXTENDS Integers, Sequences, FiniteSets

CONSTANTS
    Pin, Tx,
    Blocks,       \* Blocks[h]: the pins of block h, in order
    TxPins,       \* TxPins[t]: the pins of transaction t, in order
    StartHeight,  \* the configured initialHeight
    DedupeTTL,    \* mempoolDedupeTTL
    MaxCrashes    \* bound on the number of crashes

Height == 1..Len(Blocks)
Unseen == -1

ASSUME IndexerAssumption ==
    /\ Blocks \in Seq(Seq(Pin))
    /\ TxPins \in [Tx -> Seq(Pin) \ {<<>>}]
    /\ StartHeight \in Nat /\ DedupeTTL \in Nat /\ MaxCrashes \in Nat

VARIABLES
    \* the chain node
    tip,        \* best height
    mempool,    \* unconfirmed transactions
    \* Pebble
    persisted,  \* <chain>_lastheight, 0 when there is none
    \* scan goroutine
    lastHeight, \* chainEntry.lastHeight
    scanPC,     \* "start", "idle", "catch", "route"
    h, to,      \* loop variables of scanRange
    pos,        \* pins of block h routed so far
    \* mempool goroutine
    seen,       \* mempoolSeen: time an entry has left, or Unseen
    queue,      \* pins that passed the filter and are still to be routed
    \* history
    done,       \* heights whose pins have all been routed
    failed,     \* heights at which CatchPins has failed
    routedMem,  \* pins that this process has routed from the mempool
    crashes

nodeVars == <<tip, mempool>>
scanVars == <<lastHeight, scanPC, h, to, pos>>
pollVars == <<seen, queue, routedMem>>
histVars == <<done, failed>>
vars == <<nodeVars, persisted, scanVars, pollVars, histVars, crashes>>

TypeOK ==
    /\ tip \in 0..Len(Blocks) /\ mempool \in SUBSET Tx
    /\ persisted \in Nat /\ lastHeight \in Nat
    /\ scanPC \in {"start", "idle", "catch", "route"}
    /\ h \in Nat /\ to \in 0..Len(Blocks) /\ pos \in Nat
    /\ seen \in [Tx -> Unseen..DedupeTTL]
    /\ queue \in SUBSET Pin /\ routedMem \in SUBSET Pin
    /\ done \in SUBSET Height /\ failed \in SUBSET Height
    /\ crashes \in 0..MaxCrashes

Init ==
    /\ tip = 0 /\ mempool = {}
    /\ persisted = 0 /\ lastHeight = StartHeight
    /\ scanPC = "start" /\ h = 0 /\ to = 0 /\ pos = 0
    /\ seen = [t \in Tx |-> Unseen] /\ queue = {} /\ routedMem = {}
    /\ done = {} /\ failed = {}
    /\ crashes = 0

-----------------------------------------------------------------------------
(* The chain node *)

PinsOf(t) == {TxPins[t][i] : i \in 1..Len(TxPins[t])}
PinsAt(k) == {Blocks[k][i] : i \in 1..Len(Blocks[k])}

Broadcast(t) ==
    /\ t \notin mempool
    /\ \A k \in 1..tip : PinsOf(t) \cap PinsAt(k) = {}
    /\ mempool' = mempool \cup {t}
    /\ UNCHANGED <<tip, persisted, scanVars, pollVars, histVars, crashes>>

Mine ==
    /\ tip < Len(Blocks)
    /\ tip' = tip + 1
    /\ mempool' = {t \in mempool : PinsOf(t) \cap PinsAt(tip + 1) = {}}
    /\ UNCHANGED <<persisted, scanVars, pollVars, histVars, crashes>>

\* The entries of mempoolSeen grow old.
Tick ==
    /\ \E t \in Tx : seen[t] # Unseen
    /\ seen' = [t \in Tx |-> IF seen[t] = Unseen THEN Unseen ELSE seen[t] - 1]
    /\ UNCHANGED <<nodeVars, persisted, scanVars, queue, routedMem, histVars, crashes>>

-----------------------------------------------------------------------------
(* The scan goroutine *)

\* scanRange(lastHeight + 1, best); an empty range returns at once.
ScanRange(best) ==
    /\ h' = lastHeight + 1
    /\ to' = best
    /\ scanPC' = IF lastHeight + 1 <= best THEN "catch" ELSE "idle"
    /\ UNCHANGED <<nodeVars, persisted, lastHeight, pos, pollVars, histVars, crashes>>

\* catchUpAll, once per process.
CatchUpAll ==
    /\ scanPC = "start"
    /\ ScanRange(tip)

\* GetBestHeight is 0 when the node does not answer: catchUpAll skips the chain.
CatchUpSkipped ==
    /\ scanPC = "start"
    /\ scanPC' = "idle"
    /\ UNCHANGED <<nodeVars, persisted, lastHeight, h, to, pos, pollVars, histVars, crashes>>

\* Mutant of ScanNewBlocks: a single new block is not scanned.
ScanOneBehind ==
    /\ scanPC = "idle"
    /\ tip > lastHeight + 1
    /\ ScanRange(tip)

\* A tick of the scan loop.
ScanNewBlocks ==
    /\ scanPC = "idle"
    /\ tip > lastHeight
    /\ ScanRange(tip)

\* The next iteration of the loop, or its end.
NextHeight ==
    /\ h' = IF h < to THEN h + 1 ELSE h
    /\ scanPC' = IF h < to THEN "catch" ELSE "idle"
    /\ UNCHANGED to

\* lastHeight = h, then persistHeight, whose error is only logged.
FinishHeight ==
    /\ lastHeight' = h
    /\ persisted' \in {h, persisted}
    /\ NextHeight

\* CatchPins returns an error: logged, and the loop continues.
CatchPinsFails ==
    /\ scanPC = "catch"
    /\ failed' = failed \cup {h}
    /\ NextHeight
    /\ UNCHANGED <<nodeVars, persisted, lastHeight, pos, pollVars, done, crashes>>

\* A block without pins.
CatchNoPins ==
    /\ scanPC = "catch"
    /\ Blocks[h] = <<>>
    /\ done' = done \cup {h}
    /\ FinishHeight
    /\ UNCHANGED <<nodeVars, pos, pollVars, failed, crashes>>

\* Mutant of CatchPins: the height is stored before the pins are routed.
CatchPinsPersistFirst ==
    /\ scanPC = "catch"
    /\ Blocks[h] # <<>>
    /\ scanPC' = "route"
    /\ pos' = 0
    /\ persisted' = h
    /\ UNCHANGED <<nodeVars, lastHeight, h, to, pollVars, histVars, crashes>>

CatchPins ==
    /\ scanPC = "catch"
    /\ Blocks[h] # <<>>
    /\ scanPC' = "route"
    /\ pos' = 0
    /\ UNCHANGED <<nodeVars, persisted, lastHeight, h, to, pollVars, histVars, crashes>>

\* One pin goes to all aggregators; what their handlers return is ignored.
RouteBlockPin ==
    /\ scanPC = "route"
    /\ pos < Len(Blocks[h])
    /\ pos' = pos + 1
    /\ done' = IF pos' = Len(Blocks[h]) THEN done \cup {h} ELSE done
    /\ UNCHANGED <<nodeVars, persisted, lastHeight, scanPC, h, to, pollVars, failed, crashes>>

\* The block's pins are routed.
FinishBlock ==
    /\ scanPC = "route"
    /\ pos = Len(Blocks[h])
    /\ FinishHeight
    /\ UNCHANGED <<nodeVars, pos, pollVars, histVars, crashes>>

-----------------------------------------------------------------------------
(* The mempool goroutine *)

\* filterSeenMempoolPins: one pin of every transaction that has no live entry,
\* since mempoolStableIDForPin is the transaction.
FilterSeenMempoolPins(txs) == {TxPins[t][1] : t \in {u \in txs : seen[u] = Unseen}}

\* pollMempoolOnce got some of the mempool from the node (a transaction that it
\* does not return is left out); entries are made before anything is routed.
PollMempoolOnce(txs) ==
    /\ queue = {}
    /\ txs # {} /\ txs \subseteq mempool
    /\ queue' = FilterSeenMempoolPins(txs)
    /\ seen' = [t \in Tx |-> IF t \in txs /\ seen[t] = Unseen THEN DedupeTTL ELSE seen[t]]
    /\ UNCHANGED <<nodeVars, persisted, scanVars, routedMem, histVars, crashes>>

RouteMempoolPin(p) ==
    /\ p \in queue
    /\ queue' = queue \ {p}
    /\ routedMem' = routedMem \cup {p}
    /\ UNCHANGED <<nodeVars, persisted, scanVars, seen, histVars, crashes>>

-----------------------------------------------------------------------------

\* Mutant of Crash: mempoolSeen survives the process.
CrashKeepsSeen ==
    /\ crashes < MaxCrashes
    /\ crashes' = crashes + 1
    /\ lastHeight' = IF persisted > 0 THEN persisted ELSE StartHeight
    /\ scanPC' = "start" /\ h' = 0 /\ to' = 0 /\ pos' = 0
    /\ queue' = {} /\ routedMem' = {}
    /\ UNCHANGED <<seen, nodeVars, persisted, histVars>>

\* The process dies and starts again: RegisterChain, restoreHeights, and two
\* new goroutines.
Crash ==
    /\ crashes < MaxCrashes
    /\ crashes' = crashes + 1
    /\ lastHeight' = IF persisted > 0 THEN persisted ELSE StartHeight
    /\ scanPC' = "start" /\ h' = 0 /\ to' = 0 /\ pos' = 0
    /\ seen' = [t \in Tx |-> Unseen]
    /\ queue' = {} /\ routedMem' = {}
    /\ UNCHANGED <<nodeVars, persisted, histVars>>

ScanStep ==
    \/ CatchUpAll \/ CatchUpSkipped \/ ScanNewBlocks
    \/ CatchPinsFails \/ CatchNoPins \/ CatchPins
    \/ RouteBlockPin \/ FinishBlock

PollStep ==
    \/ \E txs \in SUBSET Tx : PollMempoolOnce(txs)
    \/ \E p \in Pin : RouteMempoolPin(p)

Next ==
    \/ \E t \in Tx : Broadcast(t)
    \/ Mine \/ Tick \/ Crash
    \/ ScanStep \/ PollStep

Spec == Init /\ [][Next]_vars

\* The goroutines run; a node that is asked for a block again and again returns
\* it again and again.
FairSpec ==
    /\ Spec
    /\ WF_vars(ScanStep)
    /\ SF_vars(CatchPins \/ CatchNoPins)
    /\ \A p \in Pin : WF_vars(RouteMempoolPin(p))

-----------------------------------------------------------------------------
(* Properties *)

\* A block that the engine has passed, in this process or before a crash, has
\* been routed completely or is one the node could not deliver: neither a crash
\* between routing and persistHeight nor a lost write of the height loses one.
NoBlockLost == \A k \in (StartHeight + 1)..lastHeight : k \in done \cup failed

\* A transaction is only deduplicated when its first pin has been routed by
\* this process or is about to be.
SeenIsRouted ==
    \A t \in Tx : seen[t] # Unseen => TxPins[t][1] \in routedMem \cup queue

\* The engine reaches every height of the chain, although GetBestHeight and
\* CatchPins may fail any number of times and the process may crash.
CatchesUp == \A k \in Height : (tip >= k) ~> (lastHeight >= k)

Log == INSTANCE LogConsumer WITH
           Length <- Len(Blocks), Start <- StartHeight,
           cursor <- lastHeight, saved <- persisted, delivered <- done, missing <- failed

\* The engine is an at-least-once consumer of the chain: whatever the loops, the
\* routing of single pins, failing calls, lost writes of the height and crashes
\* do, every step is one of LogConsumer or changes nothing there.
ImplementsLog == Log!Spec

\* "scanRange processes blocks from fromHeight to toHeight (inclusive)."
NoBlockSkipped == \A k \in (StartHeight + 1)..lastHeight : k \in done
=============================================================================
