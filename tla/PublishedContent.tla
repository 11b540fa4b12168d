-------------------------- MODULE PublishedContent --------------------------
(***************************************************************************)
(* The published-content aggregator (internal/aggregator/publishedcontent) *)
(* on one logical record: a create pin and the modify and revoke pins that *)
(* follow it on the chain.                                                 *)
(*                                                                         *)
(* Four goroutines call processPin without a common lock: the block scan,  *)
(* the mempool poll, the MANAPI backfill and a replay of old blocks.  A    *)
(* call loads the record, computes its successor and writes it back with   *)
(* several Pebble writes.                                                  *)
(* A pin carries the block's time when it comes from a block and the       *)
(* current time when it comes from the mempool: a time is <<pin, mempool>>.*)
(***************************************************************************)
EXTENDS PinFeed, FiniteSets

CONSTANTS
    Op,           \* Op[p]: "create", "modify" or "revoke"
    Target,       \* Target[p]: the pin that p modifies or revokes
    HasPayload,   \* pins whose payload is not binary and not empty
    SortByCreated,\* the protocol is /protocols/simplebuzz
    MinedAt,      \* MinedAt[p]: time of the block of p; a block is one pin here
    Lookbacks,    \* times from which a replay may have to begin
    NoPin, NoRecord

Times == Pins \X BOOLEAN
Records ==
    [cur : Pins, op : {"create", "modify", "revoke"}, hidden : BOOLEAN, mempool : BOOLEAN,
     created : Times, updated : Times, payload : Pins \cup {NoPin}]

ASSUME PublishedAssumption ==
    \* The pins of one record are different; each one that follows the create pin
    \* modifies or revokes an earlier one.
    /\ \A ch \in Chains :
           /\ Op[ch[1]] = "create"
           /\ \A i, j \in 1..Len(ch) : ch[i] = ch[j] => i = j
           /\ \A i \in 2..Len(ch) :
                  Op[ch[i]] # "create" /\ \E j \in 1..(i - 1) : Target[ch[i]] = ch[j]
    /\ Op \in [Pins -> {"create", "modify", "revoke"}]
    /\ Target \in [Pins -> Pins \cup {NoPin}]
    /\ HasPayload \subseteq Pins
    /\ SortByCreated \in BOOLEAN
    /\ MinedAt \in [Pins -> Nat] /\ Lookbacks \subseteq Nat
    /\ NoPin \notin Pins /\ NoRecord \notin Records

VARIABLES
    \* Pebble
    record,   \* the record, or NoRecord
    mapped,   \* pins with a pin_to_source entry
    index,    \* sort keys of the record's identity index entries
    \* one call of processPin per goroutine
    phase,    \* "idle", "delete", "record", "map", "index", "mapPin"
    pin,      \* the pin being processed
    prev,     \* the record it loaded
    next,     \* the record it writes
    \* the replay of this process
    replay,   \* the next block
    replayTo, \* the last block, 0 before the replay begins
    since,    \* the time it goes back to
    skipped   \* history: it could not read a block

replayVars == <<replay, replayTo, since, skipped>>
dbVars == <<record, mapped, index>>
callVars == <<phase, pin, prev, next>>
vars == <<feedVars, dbVars, callVars, replayVars>>

Source == chain[1]

TypeOK ==
    /\ FeedTypeOK
    /\ record \in Records \cup {NoRecord}
    /\ mapped \subseteq Pins /\ index \subseteq Times
    /\ phase \in [AllWriters -> {"idle", "delete", "record", "map", "index", "mapPin"}]
    /\ pin \in [AllWriters -> Pins \cup {NoPin}]
    /\ prev \in [AllWriters -> Records \cup {NoRecord}]
    /\ next \in [AllWriters -> Records \cup {NoRecord}]
    /\ replay \in 1..(Len(chain) + 1) /\ replayTo \in 0..mined
    /\ since \in Lookbacks \cup {0} /\ skipped \in BOOLEAN

NoCalls ==
    /\ phase = [w \in AllWriters |-> "idle"]
    /\ pin = [w \in AllWriters |-> NoPin]
    /\ prev = [w \in AllWriters |-> NoRecord]
    /\ next = [w \in AllWriters |-> NoRecord]

Init ==
    /\ FeedInit
    /\ record = NoRecord /\ mapped = {} /\ index = {}
    /\ NoCalls
    /\ replay = 1 /\ replayTo = 0 /\ since = 0 /\ skipped = FALSE

-----------------------------------------------------------------------------
(* What processPin computes *)

\* newRecordFromPin
NewRecordFromPin(p, isMempool) ==
    [cur |-> p, op |-> Op[p], hidden |-> Op[p] = "revoke", mempool |-> isMempool,
     created |-> <<p, isMempool>>, updated |-> <<p, isMempool>>,
     payload |-> IF p \in HasPayload THEN p ELSE NoPin]

\* Mutant of MergeConfirmedReplay: the pin's own pending version is kept too.
PendingWins(previous, candidate, p) ==
    IF ~candidate.mempool /\ previous.mempool
    THEN [previous EXCEPT !.created = candidate.created]
    ELSE candidate

\* mergeConfirmedReplayWithPendingCurrent: a confirmed pin does not replace a
\* newer pin that is still pending.
MergeConfirmedReplay(previous, candidate, p) ==
    IF ~candidate.mempool /\ previous.mempool /\ previous.cur \notin {Source, p}
    THEN [previous EXCEPT !.created = candidate.created]
    ELSE candidate

ProcessCreate(previous, p, isMempool) ==
    IF previous = NoRecord THEN NewRecordFromPin(p, isMempool)
    ELSE IF ~isMempool /\ previous.mempool
         THEN MergeConfirmedReplay(previous, NewRecordFromPin(p, isMempool), p)
    ELSE NoRecord

\* A revoked record stays revoked.
ProcessModify(previous, p, isMempool) ==
    LET new == [NewRecordFromPin(p, isMempool) EXCEPT
                    !.created = previous.created,
                    !.payload = IF p \in HasPayload THEN p ELSE previous.payload,
                    !.op = IF previous.op = "revoke" THEN "revoke" ELSE @,
                    !.hidden = previous.op = "revoke"]
    IN  MergeConfirmedReplay(previous, new, p)

ProcessRevoke(previous, p, isMempool) ==
    LET new == [previous EXCEPT !.op = "revoke", !.hidden = TRUE, !.mempool = isMempool,
                                !.cur = p, !.updated = <<p, isMempool>>]
    IN  MergeConfirmedReplay(previous, new, p)

\* loadRecordByAnyPinId: a pin without an entry can only be the source itself.
Resolved(target) == IF target = Source \/ target \in mapped THEN record ELSE NoRecord

Loaded(p) == IF Op[p] = "create" THEN record ELSE Resolved(Target[p])

\* NoRecord: processPin returns without writing.
ProcessPin(previous, p, isMempool) ==
    IF Op[p] = "create" THEN ProcessCreate(previous, p, isMempool)
    ELSE IF previous = NoRecord THEN NoRecord
    ELSE IF Op[p] = "modify" THEN ProcessModify(previous, p, isMempool)
    ELSE ProcessRevoke(previous, p, isMempool)

SortTimestamp(r) == IF SortByCreated THEN r.created ELSE r.updated

-----------------------------------------------------------------------------
(* A call of processPin by goroutine w *)

\* Load the record and compute its successor.
Begin(w, p) ==
    LET new == ProcessPin(Loaded(p), p, w = "mempool")
    IN  /\ phase[w] = "idle"
        /\ new # NoRecord
        /\ phase' = [phase EXCEPT ![w] = "delete"]
        /\ pin' = [pin EXCEPT ![w] = p]
        /\ prev' = [prev EXCEPT ![w] = Loaded(p)]
        /\ next' = [next EXCEPT ![w] = new]

\* The pin has no effect.
Ignored(w, p) ==
    /\ phase[w] = "idle"
    /\ ProcessPin(Loaded(p), p, w = "mempool") = NoRecord

\* Mutant of DeleteIdentityIndexes: the key is made from the new record.
DeleteNewKey(w) ==
    /\ phase[w] = "delete"
    /\ index' = IF prev[w] = NoRecord THEN index ELSE index \ {SortTimestamp(next[w])}
    /\ phase' = [phase EXCEPT ![w] = "record"]
    /\ UNCHANGED <<record, mapped, pin, prev, next, feedVars, replayVars>>

\* saveRecord: deleteIdentityIndexes(previous)
DeleteIdentityIndexes(w) ==
    /\ phase[w] = "delete"
    /\ index' = IF prev[w] = NoRecord THEN index ELSE index \ {SortTimestamp(prev[w])}
    /\ phase' = [phase EXCEPT ![w] = "record"]
    /\ UNCHANGED <<record, mapped, pin, prev, next, feedVars, replayVars>>

WriteRecord(w) ==
    /\ phase[w] = "record"
    /\ record' = next[w]
    /\ phase' = [phase EXCEPT ![w] = "map"]
    /\ UNCHANGED <<mapped, index, pin, prev, next, feedVars, replayVars>>

\* mapPinToSource(rec.CurrentPinId)
MapPinToSource(w) ==
    /\ phase[w] = "map"
    /\ mapped' = mapped \cup {next[w].cur}
    /\ phase' = [phase EXCEPT ![w] = "index"]
    /\ UNCHANGED <<record, index, pin, prev, next, feedVars, replayVars>>

WriteIdentityIndexes(w) ==
    /\ phase[w] = "index"
    /\ index' = index \cup {SortTimestamp(next[w])}
    /\ phase' = [phase EXCEPT ![w] = "mapPin"]
    /\ UNCHANGED <<record, mapped, pin, prev, next, feedVars, replayVars>>

\* Clear the call of w.
EndCall(w) ==
    /\ phase' = [phase EXCEPT ![w] = "idle"]
    /\ pin' = [pin EXCEPT ![w] = NoPin]
    /\ prev' = [prev EXCEPT ![w] = NoRecord]
    /\ next' = [next EXCEPT ![w] = NoRecord]

\* The call returns, for modify and revoke after mapPinToSource(pin.Id).
Return(w) ==
    /\ phase[w] = "mapPin"
    /\ mapped' = IF Op[pin[w]] = "create" THEN mapped ELSE mapped \cup {pin[w]}
    /\ EndCall(w)
    /\ Done(w)
    /\ replay' = IF w = "replay" THEN replay + 1 ELSE replay
    /\ UNCHANGED <<record, index, replayTo, since, skipped>>

-----------------------------------------------------------------------------
(* The feeds *)

Mine == MineNext({pin["mempool"]}) /\ UNCHANGED <<dbVars, callVars, replayVars>>

Poll(p) == PollMempool(p) /\ UNCHANGED <<dbVars, callVars, replayVars>>

\* HandleBlockPin, HandleMempoolPin and the loop of Backfill
HandlePin(w, p) ==
    /\ Offered(w, p)
    /\ \/ Begin(w, p) /\ Take(w, p)
       \/ Ignored(w, p) /\ Pass(w, p) /\ UNCHANGED callVars
    /\ UNCHANGED <<dbVars, replayVars>>

\* Mutant of FindHeightAtOrAfter: a block of exactly the target time is too old.
FindHeightAfter(upper, target) ==
    LET search[range \in (1..(upper + 1)) \X (0..upper) \X (1..upper)] ==
            LET left == range[1]
                right == range[2]
                mid == left + (right - left) \div 2
            IN  IF left > right THEN range[3]
                ELSE IF MinedAt[chain[mid]] > target THEN search[<<left, mid - 1, mid>>]
                ELSE search[<<mid + 1, right, range[3]>>]
    IN  search[<<1, upper, upper>>]

\* findHeightAtOrAfter: binary search over the times of the blocks 1 to upper
FindHeightAtOrAfter(upper, target) ==
    LET search[range \in (1..(upper + 1)) \X (0..upper) \X (1..upper)] ==
            LET left == range[1]
                right == range[2]
                mid == left + (right - left) \div 2
            IN  IF left > right THEN range[3]
                ELSE IF MinedAt[chain[mid]] >= target THEN search[<<left, mid - 1, mid>>]
                ELSE search[<<mid + 1, right, range[3]>>]
    IN  search[<<1, upper, upper>>]

\* runMVCPublishedContentReplay, once per process: from the block found, or from
\* the first one if a block's time cannot be read, to the last one.
StartReplay(target) ==
    /\ "replay" \in writers /\ replayTo = 0 /\ mined > 0
    /\ replay' \in {FindHeightAtOrAfter(mined, target), 1}
    /\ replayTo' = mined
    /\ since' = target
    /\ skipped' = FALSE
    /\ UNCHANGED <<feedVars, dbVars, callVars>>

\* ReplayBlocks is at a block: CatchPins fails, or its pin is handled.
AtBlock == replay <= replayTo /\ phase["replay"] = "idle"

ReplayFails ==
    /\ AtBlock
    /\ replay' = replay + 1
    /\ skipped' = TRUE
    /\ UNCHANGED <<feedVars, dbVars, callVars, replayTo, since>>

ReplayPin ==
    /\ AtBlock
    /\ \/ Begin("replay", chain[replay]) /\ UNCHANGED replay
       \/ Ignored("replay", chain[replay]) /\ replay' = replay + 1 /\ UNCHANGED callVars
    /\ UNCHANGED <<feedVars, dbVars, replayTo, since, skipped>>

Crash ==
    /\ Restart
    /\ phase' = [w \in AllWriters |-> "idle"]
    /\ pin' = [w \in AllWriters |-> NoPin]
    /\ prev' = [w \in AllWriters |-> NoRecord]
    /\ next' = [w \in AllWriters |-> NoRecord]
    /\ replay' = 1 /\ replayTo' = 0 /\ since' = 0 /\ skipped' = FALSE
    /\ UNCHANGED dbVars

SaveRecord(w) ==
    \/ DeleteIdentityIndexes(w) \/ WriteRecord(w) \/ MapPinToSource(w)
    \/ WriteIdentityIndexes(w) \/ Return(w)

Next ==
    \/ Mine
    \/ \E p \in Pins : Poll(p)
    \/ \E p \in Pins : HandlePin("scan", p) \/ HandlePin("mempool", p) \/ HandlePin("backfill", p)
    \/ \E t \in Lookbacks : StartReplay(t)
    \/ ReplayFails \/ ReplayPin
    \/ \E w \in AllWriters : SaveRecord(w)
    \/ Crash

Spec == Init /\ [][Next]_vars

-----------------------------------------------------------------------------
(* Properties *)

\* Every pin of the chain has been delivered and nothing is in progress.
Quiet == AllRouted /\ \A w \in AllWriters : phase[w] = "idle"

\* What the chain says: the last pin is current, a revoke anywhere hides the
\* record, and the payload is that of the last create or modify with one.
Revoked == \E i \in 1..Len(chain) : Op[chain[i]] = "revoke"
LastPayload ==
    LET has == {i \in 1..Len(chain) : chain[i] \in HasPayload /\ Op[chain[i]] # "revoke"}
    IN  IF has = {} THEN NoPin ELSE chain[CHOOSE i \in has : \A j \in has : j <= i]

LastPin == chain[Len(chain)]
Alone == Cardinality(writers) = 1

\* With two goroutines a revoke or a payload can be lost to a version that follows
\* it, so what is said of them is what the last pin says.
AsChain ==
    /\ record # NoRecord
    /\ record.cur = LastPin /\ ~record.mempool
    /\ Alone \/ ~Revoked \/ Op[LastPin] = "revoke" => record.hidden = Revoked
    /\ ~Revoked /\ (Alone \/ LastPin \in HasPayload) => record.payload = LastPayload

\* However mempool and block deliveries of the pins interleave, and although a
\* crash makes the engine repeat some of them, the record ends up as the chain
\* has it, and no longer pending, as long as every pin has left the mempool
\* goroutine before its block is mined.
Converges ==
    Quiet /\ "scan" \in writers /\ writers \subseteq {"scan", "mempool"} /\ ~late => AsChain

ReplayDone == replayTo # 0 /\ replay > replayTo

\* A replay hands old versions to a record that has newer ones, while the scan
\* goes on or repeats pins after a crash.  When it is over the record is as the
\* chain has it, if the replay could read every block and the chain has not grown
\* since it began.  Without the scan the replay alone builds the record when all
\* of its blocks are within the lookback.
ReplayRepairs ==
    /\ Quiet /\ writers \subseteq {"scan", "replay"}
    /\ ReplayDone /\ ~skipped /\ replayTo = Len(chain)
    /\ "scan" \in writers \/ \A i \in 1..Len(chain) : since <= MinedAt[chain[i]]
    => AsChain

\* With one writer, the index has between two calls at most the entry of the
\* record as it is: no crash inside saveRecord and no repeated delivery leaves
\* the record listed under an old sort key or twice.
IndexIsCurrent ==
    Cardinality(writers) = 1 /\ (\A w \in AllWriters : phase[w] = "idle") =>
        index \subseteq (IF record = NoRecord THEN {} ELSE {SortTimestamp(record)})
=============================================================================
