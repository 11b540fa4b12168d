--------------------------- MODULE IndexerProofs ---------------------------
(***************************************************************************)
(* No block is lost by a crash, for any chain, any number of crashes and   *)
(* any pattern of failures.                                                *)
(***************************************************************************)
EXTENDS Indexer, TLAPS

\* The heights up to k have been dealt with.
Covered(k) == \A j \in (StartHeight + 1)..k : j \in done \cup failed

\* The height a restarted process would continue from is as good as lastHeight.
PersistedIsCovered == persisted > 0 => Covered(persisted)

\* Inside scanRange: what lies between lastHeight and h are failed heights, and a
\* block with no pin left to route is done.
ScanProgress ==
    scanPC \in {"catch", "route"} =>
        /\ h \in Height /\ h <= to
        /\ lastHeight < h
        /\ \A k \in (lastHeight + 1)..(h - 1) : k \in failed
        /\ scanPC = "route" => Blocks[h] # <<>> /\ (pos = Len(Blocks[h]) => h \in done)

Inv == TypeOK /\ NoBlockLost /\ PersistedIsCovered /\ ScanProgress

\* A block of the chain is a sequence of pins.
LEMMA BlockLen ==
    /\ Len(Blocks) \in Nat
    /\ \A k \in Height : Blocks[k] \in Seq(Pin) /\ Len(Blocks[k]) \in Nat
    BY IndexerAssumption DEF Height

\* The invariant holds when the process starts for the first time.
LEMMA InitInv == Init => Inv
<1> SUFFICES ASSUME Init PROVE Inv
    OBVIOUS
<1>1. TypeOK
    BY IndexerAssumption, BlockLen DEF Init, TypeOK, Unseen
<1>2. NoBlockLost /\ PersistedIsCovered /\ ScanProgress
    BY IndexerAssumption DEF Init, NoBlockLost, PersistedIsCovered, ScanProgress
<1> QED
    BY <1>1, <1>2 DEF Inv

\* Steps that leave the scan goroutine, Pebble and the history alone.
LEMMA OtherInv ==
    ASSUME Inv, UNCHANGED <<persisted, scanVars, histVars>>, TypeOK'
    PROVE  Inv'
    BY DEF Inv, scanVars, histVars, NoBlockLost, PersistedIsCovered, Covered, ScanProgress

\* The end of an iteration that has dealt with height h.
LEMMA FinishInv ==
    ASSUME Inv, scanPC \in {"catch", "route"}, FinishHeight,
           done' \in SUBSET Height, done \subseteq done', h \in done',
           UNCHANGED <<nodeVars, pos, pollVars, failed, crashes>>
    PROVE  Inv'
<1> USE IndexerAssumption, BlockLen
<1>1. TypeOK'
    BY DEF Inv, TypeOK, ScanProgress, FinishHeight, NextHeight, nodeVars, pollVars, Height
<1>2. \A k \in (StartHeight + 1)..h : k \in done' \cup failed
    <2> SUFFICES ASSUME NEW k \in (StartHeight + 1)..h PROVE k \in done' \cup failed
        OBVIOUS
    <2>1. CASE k <= lastHeight
        BY <2>1 DEF Inv, TypeOK, NoBlockLost
    <2>2. CASE k > lastHeight /\ k < h
        BY <2>2 DEF Inv, TypeOK, ScanProgress
    <2>3. CASE k = h
        BY <2>3
    <2> QED
        BY <2>1, <2>2, <2>3 DEF Inv, TypeOK
<1>3. NoBlockLost'
    BY <1>2 DEF NoBlockLost, FinishHeight
<1>4. PersistedIsCovered'
    BY <1>2 DEF Inv, PersistedIsCovered, Covered, FinishHeight
<1>5. ScanProgress'
    BY DEF Inv, TypeOK, ScanProgress, FinishHeight, NextHeight, Height
<1> QED
    BY <1>1, <1>3, <1>4, <1>5 DEF Inv

\* The invariant is inductive.
LEMMA NextInv == Inv /\ [Next]_vars => Inv'
<1> SUFFICES ASSUME Inv, [Next]_vars PROVE Inv'
    OBVIOUS
<1> USE IndexerAssumption, BlockLen
<1>1. ASSUME NEW t \in Tx, Broadcast(t) PROVE Inv'
    <2>1. TypeOK'
        BY <1>1 DEF Broadcast, Inv, TypeOK, scanVars, pollVars, histVars
    <2> QED
        BY <1>1, <2>1, OtherInv DEF Broadcast
<1>2. CASE Mine
    <2>1. TypeOK'
        BY <1>2 DEF Mine, Inv, TypeOK, scanVars, pollVars, histVars
    <2> QED
        BY <1>2, <2>1, OtherInv DEF Mine
<1>3. CASE Tick
    <2>1. TypeOK'
        BY <1>3 DEF Tick, Inv, TypeOK, Unseen, nodeVars, scanVars, histVars
    <2> QED
        BY <1>3, <2>1, OtherInv DEF Tick
<1>4. CASE Crash
    <2>1. TypeOK'
        BY <1>4 DEF Crash, Inv, TypeOK, Unseen, nodeVars, histVars
    <2>2. NoBlockLost'
        BY <1>4 DEF Crash, Inv, TypeOK, NoBlockLost, PersistedIsCovered, Covered, histVars
    <2>3. PersistedIsCovered' /\ ScanProgress'
        BY <1>4 DEF Crash, Inv, PersistedIsCovered, Covered, ScanProgress, histVars
    <2> QED
        BY <2>1, <2>2, <2>3 DEF Inv
<1>5. CASE CatchUpAll \/ ScanNewBlocks
    <2>1. ScanRange(tip)
        BY <1>5 DEF CatchUpAll, ScanNewBlocks
    <2>2. TypeOK'
        BY <2>1 DEF ScanRange, Inv, TypeOK, nodeVars, pollVars, histVars
    <2>3. NoBlockLost' /\ PersistedIsCovered'
        BY <2>1 DEF ScanRange, Inv, NoBlockLost, PersistedIsCovered, Covered, histVars
    <2>4. ScanProgress'
        BY <2>1 DEF ScanRange, Inv, TypeOK, ScanProgress, Height
    <2> QED
        BY <2>2, <2>3, <2>4 DEF Inv
<1>6. CASE CatchUpSkipped
    BY <1>6 DEF CatchUpSkipped, Inv, TypeOK, NoBlockLost, PersistedIsCovered, Covered,
        ScanProgress, nodeVars, pollVars, histVars
<1>7. CASE CatchPinsFails
    <2>1. TypeOK'
        BY <1>7 DEF CatchPinsFails, NextHeight, Inv, TypeOK, ScanProgress, nodeVars, pollVars
    <2>2. NoBlockLost' /\ PersistedIsCovered'
        BY <1>7 DEF CatchPinsFails, Inv, NoBlockLost, PersistedIsCovered, Covered
    <2>3. ScanProgress'
        BY <1>7 DEF CatchPinsFails, NextHeight, Inv, TypeOK, ScanProgress, Height
    <2> QED
        BY <2>1, <2>2, <2>3 DEF Inv
<1>8. CASE CatchNoPins
    <2>1. done' \in SUBSET Height /\ done \subseteq done' /\ h \in done'
        BY <1>8 DEF CatchNoPins, Inv, TypeOK, ScanProgress
    <2> QED
        BY <1>8, <2>1, FinishInv DEF CatchNoPins
<1>9. CASE CatchPins
    <2>1. TypeOK'
        BY <1>9 DEF CatchPins, Inv, TypeOK, nodeVars, pollVars, histVars
    <2>2. NoBlockLost' /\ PersistedIsCovered'
        BY <1>9 DEF CatchPins, Inv, NoBlockLost, PersistedIsCovered, Covered, histVars
    <2>3. h \in Height /\ Len(Blocks[h]) # 0
        BY <1>9 DEF CatchPins, Inv, ScanProgress
    <2>4. ScanProgress'
        BY <1>9, <2>3 DEF CatchPins, Inv, TypeOK, ScanProgress, histVars
    <2> QED
        BY <2>1, <2>2, <2>4 DEF Inv
<1>10. CASE RouteBlockPin
    <2>1. TypeOK'
        BY <1>10 DEF RouteBlockPin, Inv, TypeOK, ScanProgress, nodeVars, pollVars
    <2>2. NoBlockLost' /\ PersistedIsCovered'
        BY <1>10 DEF RouteBlockPin, Inv, NoBlockLost, PersistedIsCovered, Covered
    <2>3. ScanProgress'
        BY <1>10 DEF RouteBlockPin, Inv, TypeOK, ScanProgress
    <2> QED
        BY <2>1, <2>2, <2>3 DEF Inv
<1>11. CASE FinishBlock
    <2>1. done' \in SUBSET Height /\ done \subseteq done' /\ h \in done'
        BY <1>11 DEF FinishBlock, Inv, TypeOK, ScanProgress, histVars
    <2> QED
        BY <1>11, <2>1, FinishInv DEF FinishBlock, histVars
<1>12. ASSUME NEW txs \in SUBSET Tx, PollMempoolOnce(txs) PROVE Inv'
    <2>1. queue' \in SUBSET Pin
        BY <1>12 DEF PollMempoolOnce, FilterSeenMempoolPins, PinsOf, Inv, TypeOK
    <2>2. seen' \in [Tx -> Unseen..DedupeTTL]
        BY <1>12 DEF PollMempoolOnce, Inv, TypeOK, Unseen
    <2>3. TypeOK'
        BY <1>12, <2>1, <2>2 DEF PollMempoolOnce, Inv, TypeOK, nodeVars, scanVars, histVars
    <2> QED
        BY <1>12, <2>3, OtherInv DEF PollMempoolOnce
<1>13. ASSUME NEW p \in Pin, RouteMempoolPin(p) PROVE Inv'
    <2>1. TypeOK'
        BY <1>13 DEF RouteMempoolPin, Inv, TypeOK, nodeVars, scanVars, histVars
    <2> QED
        BY <1>13, <2>1, OtherInv DEF RouteMempoolPin
<1>14. CASE UNCHANGED vars
    <2>1. TypeOK'
        BY <1>14 DEF vars, nodeVars, scanVars, pollVars, histVars, Inv, TypeOK
    <2> QED
        BY <1>14, <2>1, OtherInv DEF vars
<1> QED
    BY <1>1, <1>2, <1>3, <1>4, <1>5, <1>6, <1>7, <1>8, <1>9, <1>10, <1>11, <1>12, <1>13, <1>14
    DEF Next, ScanStep, PollStep

\* Every variable keeps its type.
THEOREM TypeCorrect == Spec => []TypeOK
<1>1. Init => Inv
    BY InitInv
<1>2. Inv /\ [Next]_vars => Inv'
    BY NextInv
<1>3. Inv => TypeOK
    BY DEF Inv
<1> QED
    BY <1>1, <1>2, <1>3, PTL DEF Spec

\* Every height the engine has passed was routed or failed in CatchPins: crashes
\* between routing a block and persisting its height repeat blocks, never lose one.
THEOREM NoBlockLostHolds == Spec => []NoBlockLost
<1>1. Init => Inv
    BY InitInv
<1>2. Inv /\ [Next]_vars => Inv'
    BY NextInv
<1>3. Inv => NoBlockLost
    BY DEF Inv
<1> QED
    BY <1>1, <1>2, <1>3, PTL DEF Spec

\* The deduplication of the mempool never swallows a transaction: an entry of
\* mempoolSeen means that its first pin is routed or queued in this process.
THEOREM SeenIsRoutedHolds == Spec => []SeenIsRouted
<1>1. Init => SeenIsRouted
    BY DEF Init, SeenIsRouted
<1>2. SeenIsRouted /\ [Next]_vars => SeenIsRouted'
    <2> SUFFICES ASSUME SeenIsRouted, [Next]_vars PROVE SeenIsRouted'
        OBVIOUS
    <2>1. ASSUME NEW txs \in SUBSET Tx, PollMempoolOnce(txs) PROVE SeenIsRouted'
        BY <2>1 DEF PollMempoolOnce, FilterSeenMempoolPins, SeenIsRouted
    <2>2. ASSUME NEW p \in Pin, RouteMempoolPin(p) PROVE SeenIsRouted'
        BY <2>2 DEF RouteMempoolPin, SeenIsRouted
    <2>3. CASE Tick
        BY <2>3 DEF Tick, SeenIsRouted
    <2>4. CASE Crash
        BY <2>4 DEF Crash, SeenIsRouted
    <2>5. CASE UNCHANGED pollVars
        BY <2>5 DEF pollVars, SeenIsRouted
    <2> QED
        BY <2>1, <2>2, <2>3, <2>4, <2>5 DEF Next, ScanStep, PollStep, Broadcast, Mine,
            CatchUpAll, ScanNewBlocks, ScanRange, CatchUpSkipped, CatchPinsFails, CatchNoPins,
            CatchPins, RouteBlockPin, FinishBlock, vars
<1> QED
    BY <1>1, <1>2, PTL DEF Spec

\* scanRange never looks past the best height it was given.
WithinTip == to <= tip

LEMMA WithinTipStep == TypeOK /\ WithinTip /\ [Next]_vars => WithinTip'
<1> SUFFICES ASSUME TypeOK, WithinTip, [Next]_vars PROVE WithinTip'
    OBVIOUS
<1>1. CASE Mine
    BY <1>1, BlockLen DEF Mine, scanVars, WithinTip, TypeOK
<1>2. CASE CatchUpAll \/ ScanNewBlocks
    BY <1>2, BlockLen DEF CatchUpAll, ScanNewBlocks, ScanRange, nodeVars, WithinTip, TypeOK
<1>3. CASE Crash
    BY <1>3, BlockLen DEF Crash, nodeVars, WithinTip, TypeOK
<1>4. CASE UNCHANGED <<tip, to>>
    BY <1>4 DEF WithinTip
<1> QED
    BY <1>1, <1>2, <1>3, <1>4 DEF Next, ScanStep, PollStep, Broadcast, Tick, CatchUpSkipped,
        CatchPinsFails, CatchNoPins, CatchPins, RouteBlockPin, FinishBlock, FinishHeight,
        NextHeight, PollMempoolOnce, RouteMempoolPin, nodeVars, scanVars, vars

\* Inside scanRange, h is the next entry that the log consumer may deal with.
LEMMA AtNextEntry ==
    ASSUME Inv, WithinTip, scanPC \in {"catch", "route"}
    PROVE  /\ h \in (lastHeight + 1)..tip /\ h \in 1..Len(Blocks)
           /\ \A j \in (lastHeight + 1)..h : j \in failed \/ j = h
<1>1. h \in (lastHeight + 1)..tip /\ h \in 1..Len(Blocks)
    BY BlockLen DEF Inv, TypeOK, ScanProgress, WithinTip, Height
<1>2. \A j \in (lastHeight + 1)..h : j \in (lastHeight + 1)..(h - 1) \/ j = h
    BY <1>1 DEF Inv, TypeOK
<1> QED
    BY <1>1, <1>2 DEF Inv, ScanProgress

\* Every step of the engine is a step of the log consumer or leaves it unchanged.
LEMMA StepImplementsLog ==
    Inv /\ WithinTip /\ [Next]_vars => [Log!Next]_(Log!vars)
<1> SUFFICES ASSUME Inv, WithinTip, [Next]_vars PROVE [Log!Next]_(Log!vars)
    OBVIOUS
<1>1. CASE Mine
    BY <1>1 DEF Mine, scanVars, histVars, Log!Next, Log!Grow
<1>2. CASE Crash
    BY <1>2 DEF Crash, nodeVars, histVars, Log!Next, Log!Restart
<1>3. CASE CatchPinsFails
    <2>1. Log!Miss(h)
        BY <1>3, AtNextEntry DEF CatchPinsFails, nodeVars, Log!Miss
    <2> QED
        BY <1>3, <2>1, AtNextEntry DEF CatchPinsFails, Log!Next
<1>4. CASE CatchNoPins
    <2>1. Log!Acknowledge(h)
        BY <1>4, AtNextEntry DEF CatchNoPins, FinishHeight, nodeVars, Log!Acknowledge
    <2> QED
        BY <1>4, <2>1, AtNextEntry DEF CatchNoPins, Log!Next
<1>5. CASE RouteBlockPin
    <2>1. CASE done' = done
        BY <1>5, <2>1 DEF RouteBlockPin, nodeVars, Log!vars
    <2>2. CASE done' = done \cup {h}
        <3>1. Log!Deliver(h)
            BY <1>5, <2>2, AtNextEntry DEF RouteBlockPin, nodeVars, Log!Deliver
        <3> QED
            BY <1>5, <3>1, AtNextEntry DEF RouteBlockPin, Log!Next
    <2> QED
        BY <1>5, <2>1, <2>2 DEF RouteBlockPin
<1>6. CASE FinishBlock
    <2>1. h \in done
        BY <1>6 DEF FinishBlock, Inv, ScanProgress
    <2>2. Log!Acknowledge(h)
        BY <1>6, <2>1, AtNextEntry DEF FinishBlock, FinishHeight, nodeVars, histVars, Log!Acknowledge
    <2> QED
        BY <1>6, <2>2, AtNextEntry DEF FinishBlock, Log!Next
<1>7. CASE UNCHANGED <<tip, lastHeight, persisted, histVars>>
    BY <1>7 DEF histVars, Log!vars
<1> QED
    BY <1>1, <1>2, <1>3, <1>4, <1>5, <1>6, <1>7 DEF Next, ScanStep, PollStep, Broadcast, Tick,
        CatchUpAll, ScanNewBlocks, ScanRange, CatchUpSkipped, CatchPins, PollMempoolOnce,
        RouteMempoolPin, nodeVars, scanVars, vars

\* The engine implements the at-least-once consumer LogConsumer, for every chain,
\* start height and number of crashes.
THEOREM EngineImplementsLog == Spec => ImplementsLog
<1>1. Init => Inv /\ WithinTip /\ Log!Init
    BY InitInv DEF Init, WithinTip, Log!Init
<1>2. Inv /\ WithinTip /\ [Next]_vars => Inv' /\ WithinTip'
    BY NextInv, WithinTipStep DEF Inv
<1>3. Inv /\ WithinTip /\ [Next]_vars => [Log!Next]_(Log!vars)
    BY StepImplementsLog
<1> QED
    BY <1>1, <1>2, <1>3, PTL DEF Spec, ImplementsLog, Log!Spec
=============================================================================
