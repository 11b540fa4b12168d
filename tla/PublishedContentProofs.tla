----------------------- MODULE PublishedContentProofs -----------------------
(***************************************************************************)
(* Proofs about PublishedContent for any chains, pins and sets of          *)
(* goroutines: type correctness; with one goroutine no crash inside        *)
(* saveRecord leaves a record listed under an old sort key; what the       *)
(* binary search for the first block of a replay finds; and that the       *)
(* record ends up as the chain has it, with blocks and mempool and with    *)
(* blocks and a replay; and, with any goroutines, that a reader finds it   *)
(* between two calls.                                                      *)
(***************************************************************************)
EXTENDS PublishedContent, FiniteSetTheorems, NaturalsInduction, WellFoundedInduction, TLAPS

Phases == {"idle", "delete", "record", "map", "index", "mapPin"}

\* The variables of the calls are functions of the goroutine.
CallsOK ==
    /\ phase \in [AllWriters -> Phases]
    /\ DOMAIN pin = AllWriters /\ DOMAIN prev = AllWriters /\ DOMAIN next = AllWriters

\* Only a goroutine that runs has a source of pins, and only such a one calls.
OnlyWritersCall ==
    /\ writers \subseteq AllWriters
    /\ queue # {} => "mempool" \in writers
    /\ "backfill" \notin writers => backfill = 0
    /\ replayTo = 0 => replay = 1 /\ phase["replay"] = "idle"
    /\ replayTo # 0 => "replay" \in writers
    /\ \A w \in AllWriters : phase[w] # "idle" => w \in writers

\* Where saveRecord is decides what the index can hold: the entry of the record as
\* it was when the call loaded it, nothing, or the entry of the record it wrote.
SaveInProgress(w) ==
    /\ phase[w] # "idle" => next[w] # NoRecord
    /\ phase[w] = "delete" => prev[w] = record
    /\ phase[w] \in {"record", "map", "index"} => index = {}
    /\ phase[w] \in {"map", "index", "mapPin"} => record = next[w]

Entries(r) == IF r = NoRecord THEN {} ELSE {SortTimestamp(r)}

OneWriter == \E w \in AllWriters : writers = {w}

IndexOK ==
    OneWriter => index \subseteq Entries(record) /\ \A w \in AllWriters : SaveInProgress(w)

Inv == CallsOK /\ OnlyWritersCall /\ IndexOK

-----------------------------------------------------------------------------

\* processPin writes only if it has seen the record as it is.
LEMMA LoadedIsRecord ==
    ASSUME NEW p, NEW isMempool, ProcessPin(Loaded(p), p, isMempool) # NoRecord
    PROVE  Loaded(p) = record
  BY DEF ProcessPin, Loaded, Resolved

LEMMA InitInv == Init => Inv
  BY FeedAssumption DEF Init, FeedInit, NoCalls, Inv, CallsOK, OnlyWritersCall, IndexOK, SaveInProgress,
         AllWriters, Phases

\* A call begins.
LEMMA BeginInv ==
    ASSUME Inv, NEW w \in AllWriters, NEW p, Begin(w, p), w \in writers,
           w = "replay" => replayTo # 0,
           UNCHANGED <<dbVars, writers, replayTo, replay>>
    PROVE  CallsOK' /\ IndexOK' /\ \A v \in AllWriters : phase'[v] # "idle" => v \in writers'
<1> DEFINE new == ProcessPin(Loaded(p), p, w = "mempool")
<1>1. /\ phase[w] = "idle" /\ new # NoRecord /\ writers' = writers
      /\ record' = record /\ index' = index
      /\ phase' = [phase EXCEPT ![w] = "delete"]
      /\ pin' = [pin EXCEPT ![w] = p]
      /\ prev' = [prev EXCEPT ![w] = Loaded(p)]
      /\ next' = [next EXCEPT ![w] = new]
  BY DEF Begin, dbVars
<1>2. Loaded(p) = record
  BY <1>1, LoadedIsRecord
<1> HIDE DEF new
<1>3. CallsOK'
  BY <1>1 DEF Inv, CallsOK, Phases
<1>4. \A v \in AllWriters : phase'[v] # "idle" => v \in writers'
  BY <1>1 DEF Inv, CallsOK, OnlyWritersCall
<1>5. IndexOK'
  <2> SUFFICES ASSUME OneWriter' PROVE (index \subseteq Entries(record))' /\ \A v \in AllWriters : SaveInProgress(v)'
    BY DEF IndexOK
  <2>1. OneWriter
    BY <1>1 DEF OneWriter
  <2>2. (index \subseteq Entries(record))'
    BY <1>1, <2>1 DEF Inv, IndexOK, Entries, SortTimestamp
  <2>3. ASSUME NEW v \in AllWriters PROVE SaveInProgress(v)'
    <3>1. CASE v = w
      BY <1>1, <1>2, <3>1 DEF Inv, CallsOK, SaveInProgress
    <3>2. CASE v # w
      BY <1>1, <2>1, <3>2 DEF Inv, CallsOK, IndexOK, SaveInProgress
    <3> QED BY <3>1, <3>2
  <2> QED BY <2>2, <2>3
<1> QED BY <1>3, <1>4, <1>5

\* The call of w goes on by one write or returns, which changes no other call.
LEMMA SaveInv ==
    ASSUME Inv, NEW w \in AllWriters, SaveRecord(w)
    PROVE  Inv'
<1>1. writers' = writers /\ queue' = queue /\ replayTo' = replayTo /\ phase[w] # "idle"
  BY DEF SaveRecord, DeleteIdentityIndexes, WriteRecord, MapPinToSource, WriteIdentityIndexes,
         Return, Done, feedVars, setup, replayVars
<1>2. CallsOK'
  BY DEF SaveRecord, DeleteIdentityIndexes, WriteRecord, MapPinToSource, WriteIdentityIndexes,
         Return, EndCall, Inv, CallsOK, Phases
<1>3. \A v \in AllWriters : v # w => phase'[v] = phase[v] /\ prev'[v] = prev[v] /\ next'[v] = next[v]
  BY DEF SaveRecord, DeleteIdentityIndexes, WriteRecord, MapPinToSource, WriteIdentityIndexes,
         Return, EndCall, Inv, CallsOK, Phases
<1>4. OnlyWritersCall'
  <2>1. "backfill" \notin writers => backfill' = 0
    <3>1. backfill' = backfill \/ (w = "backfill" /\ backfill' = backfill - 1)
      BY DEF SaveRecord, DeleteIdentityIndexes, WriteRecord, MapPinToSource,
             WriteIdentityIndexes, Return, Done, Advance, feedVars
    <3> QED BY <1>1, <3>1 DEF Inv, OnlyWritersCall
  <2>2. \A v \in AllWriters : phase'[v] # "idle" => v \in writers
    BY <1>1, <1>3 DEF Inv, OnlyWritersCall
  <2>3. replayTo = 0 => replay' = 1 /\ phase'["replay"] = "idle"
    <3>1. replay' = replay \/ w = "replay"
      BY DEF SaveRecord, DeleteIdentityIndexes, WriteRecord, MapPinToSource,
             WriteIdentityIndexes, Return, replayVars
    <3>2. replayTo = 0 => w # "replay"
      BY <1>1 DEF Inv, OnlyWritersCall
    <3> QED BY <1>3, <3>1, <3>2 DEF Inv, OnlyWritersCall, AllWriters
  <2> QED BY <1>1, <2>1, <2>2, <2>3 DEF Inv, OnlyWritersCall
<1>5. IndexOK'
  <2> SUFFICES ASSUME OneWriter' PROVE (index \subseteq Entries(record))' /\ \A v \in AllWriters : SaveInProgress(v)'
    BY DEF IndexOK
  <2>1. OneWriter
    BY <1>1 DEF OneWriter
  <2>2. ASSUME NEW v \in AllWriters, v # w PROVE phase'[v] = "idle"
    BY <1>1, <1>3, <2>1, <2>2 DEF Inv, OnlyWritersCall, OneWriter
  <2>3. \A v \in AllWriters : v # w => SaveInProgress(v)'
    BY <2>2 DEF SaveInProgress
  <2>4. SaveInProgress(w) /\ index \subseteq Entries(record) /\ CallsOK
    BY <2>1 DEF Inv, IndexOK
  <2>5. CASE DeleteIdentityIndexes(w)
    <3>1. /\ phase[w] = "delete" /\ phase'[w] = "record" /\ record' = record
          /\ index' = IF prev[w] = NoRecord THEN index ELSE index \ {SortTimestamp(prev[w])}
          /\ next' = next
      BY <2>4, <2>5 DEF DeleteIdentityIndexes, CallsOK
    <3>2. prev[w] = record
      BY <2>4, <3>1 DEF SaveInProgress
    <3>3. index' = {}
      BY <2>4, <3>1, <3>2 DEF Entries
    <3> QED BY <2>3, <2>4, <3>1, <3>3 DEF SaveInProgress
  <2>6. CASE WriteRecord(w)
    <3>1. /\ phase[w] = "record" /\ phase'[w] = "map" /\ record' = next[w] /\ index' = index
          /\ next' = next
      BY <2>4, <2>6 DEF WriteRecord, CallsOK
    <3> QED BY <2>3, <2>4, <3>1 DEF SaveInProgress
  <2>7. CASE MapPinToSource(w)
    <3>1. /\ phase[w] = "map" /\ phase'[w] = "index" /\ record' = record /\ index' = index
          /\ next' = next
      BY <2>4, <2>7 DEF MapPinToSource, CallsOK
    <3> QED BY <2>3, <2>4, <3>1 DEF SaveInProgress
  <2>8. CASE WriteIdentityIndexes(w)
    <3>1. /\ phase[w] = "index" /\ phase'[w] = "mapPin" /\ record' = record /\ next' = next
          /\ index' = index \cup {SortTimestamp(next[w])}
      BY <2>4, <2>8 DEF WriteIdentityIndexes, CallsOK
    <3>2. record = next[w] /\ record # NoRecord /\ index = {}
      BY <2>4, <3>1 DEF SaveInProgress
    <3>3. Entries(record') = {SortTimestamp(next[w])}
      BY <3>1, <3>2 DEF Entries
    <3>4. Entries(record)' = Entries(record')
      BY DEF Entries, SortTimestamp
    <3> QED BY <2>3, <2>4, <3>1, <3>2, <3>3, <3>4 DEF SaveInProgress
  <2>9. CASE Return(w)
    <3>1. phase'[w] = "idle" /\ record' = record /\ index' = index
      BY <2>4, <2>9 DEF Return, EndCall, CallsOK
    <3>2. (index \subseteq Entries(record))'
      BY <2>4, <3>1 DEF Entries, SortTimestamp
    <3> QED BY <2>3, <3>1, <3>2 DEF SaveInProgress
  <2> QED BY <2>5, <2>6, <2>7, <2>8, <2>9 DEF SaveRecord
<1> QED BY <1>2, <1>4, <1>5 DEF Inv

LEMMA NextInv == Inv /\ [Next]_vars => Inv'
<1> SUFFICES ASSUME Inv, [Next]_vars PROVE Inv'
  OBVIOUS
<1>0. ASSUME UNCHANGED <<dbVars, callVars, writers>> PROVE CallsOK' /\ IndexOK'
  <2>1. CallsOK'
    BY <1>0 DEF Inv, CallsOK, callVars
  <2>2. (\A v \in AllWriters : SaveInProgress(v)) => \A v \in AllWriters : SaveInProgress(v)'
    BY <1>0 DEF SaveInProgress, callVars, dbVars
  <2>3. Entries(record)' = Entries(record) /\ (OneWriter' <=> OneWriter) /\ index' = index
    BY <1>0 DEF Entries, SortTimestamp, OneWriter, dbVars
  <2> QED BY <2>1, <2>2, <2>3 DEF Inv, IndexOK
<1>1. CASE Mine
  <2>1. OnlyWritersCall'
    BY <1>1 DEF Mine, MineNext, setup, callVars, replayVars, Inv, OnlyWritersCall
  <2> QED BY <1>0, <1>1, <2>1 DEF Mine, MineNext, setup, Inv
<1>2. ASSUME NEW p \in Pins, Poll(p) PROVE Inv'
  <2>1. OnlyWritersCall'
    BY <1>2 DEF Poll, PollMempool, setup, callVars, replayVars, Inv, OnlyWritersCall
  <2> QED BY <1>0, <1>2, <2>1 DEF Poll, PollMempool, setup, Inv
<1>3. ASSUME NEW w \in {"scan", "mempool", "backfill"}, NEW p \in Pins, HandlePin(w, p) PROVE Inv'
  <2>1. w \in writers /\ w \in AllWriters /\ w # "replay"
    BY <1>3, FeedAssumption
       DEF HandlePin, Offered, ScanOffers, MempoolOffers, BackfillOffers, Inv, OnlyWritersCall,
           AllWriters
  <2>2. /\ UNCHANGED <<dbVars, replayTo, replay, writers>>
        /\ queue' \subseteq queue
        /\ "backfill" \notin writers => backfill' = 0
    BY <1>3, <2>1 DEF HandlePin, Take, Pass, Advance, setup, replayVars, Inv, OnlyWritersCall
  <2>3. CASE Begin(w, p)
    <3>1. CallsOK' /\ IndexOK' /\ \A v \in AllWriters : phase'[v] # "idle" => v \in writers'
      BY <2>1, <2>2, <2>3, BeginInv
    <3>2. phase'["replay"] = phase["replay"]
      BY <2>1, <2>3 DEF Begin, Inv, CallsOK, AllWriters
    <3> QED BY <2>2, <3>1, <3>2 DEF Inv, OnlyWritersCall
  <2>4. CASE UNCHANGED callVars
    <3>1. OnlyWritersCall'
      BY <2>2, <2>4 DEF Inv, OnlyWritersCall, callVars
    <3> QED BY <1>0, <2>2, <2>4, <3>1 DEF Inv
  <2> QED BY <1>3, <2>3, <2>4 DEF HandlePin
<1>4. ASSUME NEW t \in Lookbacks, StartReplay(t) PROVE Inv'
  <2>1. OnlyWritersCall'
    <3>1. UNCHANGED <<writers, queue, backfill, phase>> /\ "replay" \in writers /\ replayTo' # 0
      BY <1>4 DEF StartReplay, feedVars, callVars
    <3> QED BY <3>1 DEF Inv, OnlyWritersCall
  <2> QED BY <1>0, <1>4, <2>1 DEF StartReplay, feedVars, Inv
<1>5. CASE ReplayFails
  <2>1. replayTo # 0
    BY <1>5 DEF ReplayFails, AtBlock, Inv, OnlyWritersCall
  <2>2. OnlyWritersCall'
    BY <1>5, <2>1 DEF ReplayFails, feedVars, callVars, Inv, OnlyWritersCall
  <2> QED BY <1>0, <1>5, <2>2 DEF ReplayFails, feedVars, Inv
<1>6. CASE ReplayPin
  <2>1. replayTo # 0 /\ "replay" \in writers /\ UNCHANGED <<writers, queue, backfill, dbVars, replayTo>>
    BY <1>6 DEF ReplayPin, AtBlock, feedVars, Inv, OnlyWritersCall
  <2>2. CASE Begin("replay", chain[replay]) /\ UNCHANGED replay
    <3>1. CallsOK' /\ IndexOK' /\ \A v \in AllWriters : phase'[v] # "idle" => v \in writers'
      BY <2>1, <2>2, BeginInv DEF AllWriters
    <3> QED BY <2>1, <3>1 DEF Inv, OnlyWritersCall
  <2>3. CASE UNCHANGED callVars
    <3>1. OnlyWritersCall'
      BY <2>1, <2>3 DEF Inv, OnlyWritersCall, callVars
    <3> QED BY <1>0, <2>1, <2>3, <3>1 DEF Inv
  <2> QED BY <1>6, <2>2, <2>3 DEF ReplayPin
<1>7. ASSUME NEW w \in AllWriters, SaveRecord(w) PROVE Inv'
  BY <1>7, SaveInv
<1>8. CASE Crash
  <2>1. /\ phase' = [w \in AllWriters |-> "idle"] /\ UNCHANGED <<dbVars, writers>>
        /\ replay' = 1 /\ replayTo' = 0 /\ queue' = {}
        /\ "backfill" \notin writers => backfill' = 0
    BY <1>8 DEF Crash, Restart, setup
  <2>2. CallsOK'
    BY <1>8 DEF Crash, CallsOK, Phases
  <2>3. OnlyWritersCall'
    BY <2>1 DEF Inv, OnlyWritersCall, AllWriters
  <2>4. Entries(record)' = Entries(record) /\ (OneWriter' <=> OneWriter) /\ index' = index
    BY <2>1 DEF Entries, SortTimestamp, OneWriter, dbVars
  <2>5. \A v \in AllWriters : SaveInProgress(v)'
    BY <2>1 DEF SaveInProgress
  <2> QED BY <2>2, <2>3, <2>4, <2>5 DEF Inv, IndexOK
<1>9. CASE UNCHANGED vars
  <2>1. OnlyWritersCall'
    BY <1>9 DEF vars, feedVars, callVars, replayVars, Inv, OnlyWritersCall
  <2> QED BY <1>0, <1>9, <2>1 DEF vars, feedVars, Inv
<1> QED BY <1>1, <1>2, <1>3, <1>4, <1>5, <1>6, <1>7, <1>8, <1>9 DEF Next

-----------------------------------------------------------------------------

LEMMA AloneIsOne ==
    ASSUME Inv, Alone
    PROVE  \E w : writers = {w}
<1>1. IsFiniteSet(AllWriters)
  <2>1. IsFiniteSet({"scan"}) /\ IsFiniteSet({"mempool"}) /\ IsFiniteSet({"backfill"})
        /\ IsFiniteSet({"replay"})
    BY FS_Singleton
  <2>2. AllWriters = (({"scan"} \cup {"mempool"}) \cup {"backfill"}) \cup {"replay"}
    BY DEF AllWriters
  <2> QED BY <2>1, <2>2, FS_Union
<1>2. IsFiniteSet(writers)
  BY <1>1, FS_Subset DEF Inv, OnlyWritersCall
<1> QED BY <1>2, FS_Singleton DEF Alone

\* With one goroutine, the record is between two calls of processPin listed under
\* its own sort key or not at all, whatever crashes have interrupted saveRecord.
THEOREM IndexIsCurrentHolds == Spec => []IndexIsCurrent
<1>1. Inv => IndexIsCurrent
  <2> SUFFICES ASSUME Inv, Cardinality(writers) = 1
               PROVE  index \subseteq (IF record = NoRecord THEN {} ELSE {SortTimestamp(record)})
    BY DEF IndexIsCurrent
  <2>1. PICK w : writers = {w}
    BY AloneIsOne DEF Alone
  <2>2. OneWriter
    BY <2>1 DEF OneWriter, Inv, OnlyWritersCall
  <2> QED BY <2>2 DEF Inv, IndexOK, Entries
<1> QED BY <1>1, InitInv, NextInv, PTL DEF Spec

-----------------------------------------------------------------------------
(* The invariant behind Converges and ReplayRepairs *)

Written(w) == phase[w] \in {"map", "index", "mapPin"}

\* A call is about the pin at which its goroutine is.
CallOK ==
    /\ queue \subseteq PinsOf(chain)
    /\ phase["scan"] # "idle" => pos < mined /\ pin["scan"] = chain[pos + 1]
    /\ phase["replay"] # "idle" => replay <= replayTo /\ pin["replay"] = chain[replay]
    /\ phase["backfill"] # "idle" => backfill > 0
    /\ \A w \in AllWriters :
           phase[w] # "idle" => pin[w] \in PinsOf(chain) /\ next[w] # NoRecord
    /\ \A w \in AllWriters : Written(w) => record # NoRecord

HasContent(p) == p \in HasPayload /\ Op[p] # "revoke"

\* What every version of the record is, whoever wrote it.
RecordOK(r) ==
    r # NoRecord =>
        /\ r.cur \in PinsOf(chain)
        /\ r.hidden <=> r.op = "revoke"
        /\ Op[r.cur] = "revoke" => r.hidden
        /\ r.hidden => Revoked
        /\ HasContent(r.cur) => r.payload = r.cur
        /\ r.payload # NoPin => r.payload \in PinsOf(chain) /\ HasContent(r.payload)
        /\ r.payload = NoPin => ~HasContent(Source)

\* A version is pending if the mempool goroutine computed it, or if it was pending
\* and another pin was confirmed.
NextOK(w) ==
    phase[w] # "idle" =>
        /\ w = "mempool" => next[w].mempool
        /\ w = "mempool" \/ ~next[w].mempool => next[w].cur = pin[w]
        /\ next[w].mempool => "mempool" \in writers

RecordsOK ==
    /\ RecordOK(record)
    /\ record # NoRecord /\ record.mempool => "mempool" \in writers
    /\ \A w \in AllWriters : RecordOK(next[w]) /\ NextOK(w)

\* The first n pins can be named by later ones.
Held(n) ==
    /\ \A j \in 2..n : chain[j] \in mapped
    /\ n > 0 => record # NoRecord
ScanMapped == Held(pos)

\* Until a pin is late, what the mempool goroutine has is not mined.
Ahead(p) == \E i \in (mined + 1)..Len(chain) : chain[i] = p
FeedOK ==
    ~late => /\ \A p \in queue : Ahead(p)
             /\ phase["mempool"] # "idle" => Ahead(pin["mempool"])

\* r shows the n-th pin or a later one: a confirmed r has such a pin as its current
\* one, a pending r none of the first n.
Placed(r, n) ==
    r # NoRecord =>
        IF r.mempool THEN \A j \in 1..n : r.cur # chain[j]
        ELSE \E m \in n..Len(chain) : m > 0 /\ r.cur = chain[m]

\* The number of pins that the scan has written.
ScanAt == IF Written("scan") THEN pos + 1 ELSE pos

ScanPlaced ==
    writers \subseteq {"scan", "mempool"} /\ ~late =>
        /\ Placed(record, ScanAt)
        /\ phase["scan"] # "idle" => Placed(next["scan"], pos + 1)

\* With a replay: once it has written the last pin, only the scan writes, and the
\* record is as new as what the scan has written.  A replay that ignores the last
\* pin does so because the scan has not come to a pin that it needs.  While the scan
\* is between writing a record and mapping its pin, the replay has not written an
\* older one and gone past that pin.
ScanFirst ==
    /\ Written("scan")
    /\ \/ replayTo = 0
       \/ ~skipped /\ pos > 0 /\ replay > pos + 1 /\ chain[pos + 1] \notin mapped
LastReplayed == replayTo = Len(chain) /\ replay = replayTo /\ Written("replay")
ReplayOver == replayTo = Len(chain) /\ ~skipped /\ replay > replayTo
Missing == \E j \in (ScanAt + 1)..Len(chain) : j > 1 /\ chain[j] \notin mapped

ReplayPlaced ==
    writers \subseteq {"scan", "replay"} =>
        /\ ScanFirst => Placed(record, pos + 1)
        /\ LastReplayed => Placed(record, ScanAt)
        /\ ReplayOver => Placed(record, ScanAt) \/ Missing

\* r is hidden and has a payload as the first n pins, or some more, say.
HiddenAt(n, h) == h <=> \E i \in 1..n : Op[chain[i]] = "revoke"
PayloadAt(n, x) ==
    \/ x = NoPin /\ \A i \in 1..n : ~HasContent(chain[i])
    \/ \E i \in 1..n : /\ x = chain[i] /\ HasContent(chain[i])
                       /\ \A j \in (i + 1)..n : ~HasContent(chain[j])
Folded(r, n) ==
    r # NoRecord =>
        /\ \E m \in n..Len(chain) : m > 0 /\ r.cur = chain[m]
        /\ \E m \in n..Len(chain) : m > 0 /\ HiddenAt(m, r.hidden)
        /\ \E m \in n..Len(chain) : m > 0 /\ PayloadAt(m, r.payload)

\* The scan, or a replay of every block, alone.
Passed(w) == IF w = "scan" THEN pos ELSE replay - 1
At(w) == IF Written(w) THEN Passed(w) + 1 ELSE Passed(w)
Whole(w) == w = "replay" => ~skipped /\ \A i \in 1..Len(chain) : since <= MinedAt[chain[i]]

AloneOK ==
    \A w \in {"scan", "replay"} : writers = {w} /\ Whole(w) =>
        /\ Held(Passed(w))
        /\ Folded(record, At(w))
        /\ phase[w] # "idle" => Folded(next[w], Passed(w) + 1)

FoldInv ==
    /\ TypeOK /\ CallOK /\ RecordsOK /\ ScanMapped /\ FeedOK
    /\ ScanPlaced /\ ReplayPlaced /\ AloneOK

-----------------------------------------------------------------------------
(* The binary search of findHeightAtOrAfter.  It is a recursive function, that is *)
(* a function chosen to satisfy its equation; that there is one is shown for      *)
(* ranges of growing length, and what it computes in the same way.                *)

Mid(left, right) == left + (right - left) \div 2

\* One step of the search, in terms of a function f for the rest of it.
SearchStep(f, target, range) ==
    IF range[1] > range[2] THEN range[3]
    ELSE IF MinedAt[chain[Mid(range[1], range[2])]] >= target
         THEN f[<<range[1], Mid(range[1], range[2]) - 1, Mid(range[1], range[2])>>]
    ELSE f[<<Mid(range[1], range[2]) + 1, range[2], range[3]>>]

Ranges(upper) == (1..(upper + 1)) \X (0..upper) \X (1..upper)

SearchFrom(f, upper, target) == [range \in Ranges(upper) |-> SearchStep(f, target, range)]

Search(upper, target) == CHOOSE f : f = SearchFrom(f, upper, target)

LEMMA SearchUnfold ==
    ASSUME NEW upper, NEW target
    PROVE  FindHeightAtOrAfter(upper, target) = Search(upper, target)[<<1, upper, upper>>]
  BY DEF FindHeightAtOrAfter, Search, SearchFrom, SearchStep, Mid, Ranges

LEMMA MidBetween ==
    ASSUME NEW left \in Nat, NEW right \in Nat, left <= right
    PROVE  Mid(left, right) \in left..right
<1>1. (right - left) \div 2 \in 0..(right - left)
  OBVIOUS
<1> QED BY <1>1 DEF Mid

\* f gives what the search gives on every range of at most n blocks
Agrees(f, upper, target, n) ==
    \A range \in Ranges(upper) :
        range[2] + 1 <= range[1] + n => f[range] = SearchStep(f, target, range)

LEMMA SmallerRanges ==
    ASSUME NEW upper \in Nat, NEW n \in Nat, NEW range \in Ranges(upper),
           range[1] <= range[2], range[2] + 1 <= range[1] + (n + 1),
           NEW mid, mid = Mid(range[1], range[2])
    PROVE  /\ <<range[1], mid - 1, mid>> \in Ranges(upper) /\ (mid - 1) + 1 <= range[1] + n
           /\ <<mid + 1, range[2], range[3]>> \in Ranges(upper) /\ range[2] + 1 <= (mid + 1) + n
<1>1. range[1] \in 1..(upper + 1) /\ range[2] \in 0..upper /\ range[3] \in 1..upper
  BY DEF Ranges
<1>2. mid \in range[1]..range[2]
  <2>1. range[1] \in Nat /\ range[2] \in Nat
    BY <1>1
  <2> QED BY <2>1, MidBetween
<1>3. mid - 1 \in 0..upper /\ mid \in 1..upper /\ mid + 1 \in 1..(upper + 1)
  BY <1>1, <1>2
<1>4. (mid - 1) + 1 <= range[1] + n /\ range[2] + 1 <= (mid + 1) + n
  BY <1>1, <1>2
<1> QED BY <1>1, <1>3, <1>4 DEF Ranges

LEMMA OneMore ==
    ASSUME NEW upper \in Nat, NEW target \in Nat, NEW n \in Nat, NEW f, Agrees(f, upper, target, n)
    PROVE  Agrees(SearchFrom(f, upper, target), upper, target, n + 1)
<1> DEFINE g == SearchFrom(f, upper, target)
<1>1. \A range \in Ranges(upper) : g[range] = SearchStep(f, target, range)
  BY DEF SearchFrom
<1> HIDE DEF g
<1>2. ASSUME NEW range \in Ranges(upper), range[2] + 1 <= range[1] + (n + 1)
      PROVE  SearchStep(g, target, range) = SearchStep(f, target, range)
  <2>1. CASE range[1] > range[2]
    BY <2>1 DEF SearchStep
  <2>2. CASE range[1] <= range[2]
    <3> DEFINE mid == Mid(range[1], range[2])
    <3>1. /\ <<range[1], mid - 1, mid>> \in Ranges(upper) /\ (mid - 1) + 1 <= range[1] + n
          /\ <<mid + 1, range[2], range[3]>> \in Ranges(upper) /\ range[2] + 1 <= (mid + 1) + n
      BY <1>2, <2>2, SmallerRanges
    <3> HIDE DEF mid
    <3>2. g[<<range[1], mid - 1, mid>>] = f[<<range[1], mid - 1, mid>>]
      BY <1>1, <3>1 DEF Agrees
    <3>3. g[<<mid + 1, range[2], range[3]>>] = f[<<mid + 1, range[2], range[3]>>]
      BY <1>1, <3>1 DEF Agrees
    <3> QED BY <2>2, <3>2, <3>3 DEF SearchStep, mid
  <2>3. range[1] \in Nat /\ range[2] \in Nat
    BY DEF Ranges
  <2> QED BY <2>1, <2>2, <2>3
<1> QED BY <1>1, <1>2 DEF Agrees, g

\* A set of natural numbers has a least element.
LEMMA LeastExists ==
    ASSUME NEW S, S \subseteq Nat, S # {}
    PROVE  \E m \in S : \A k \in S : m <= k
<1>1. IsWellFoundedOn(OpToRel(<, Nat), Nat)
  BY NatLessThanWellFounded
<1>2. PICK m \in S : \A y \in S : <<y, m>> \notin OpToRel(<, Nat)
  BY <1>1, WFMin, Zenon
<1>3. ASSUME NEW k \in S PROVE m <= k
  <2>1. ~(k < m)
    BY <1>2 DEF OpToRel
  <2> QED BY <2>1
<1> QED BY <1>3

LEMMA SearchExists ==
    ASSUME NEW upper \in Nat, NEW target \in Nat
    PROVE  Search(upper, target) = SearchFrom(Search(upper, target), upper, target)
<1> DEFINE S == {n \in Nat : \A f : ~Agrees(f, upper, target, n)}
<1>1. S = {}
  <2> SUFFICES ASSUME S # {} PROVE FALSE
    OBVIOUS
  <2>1. PICK m \in S : \A k \in S : m <= k
    BY LeastExists
  <2>2. CASE m = 0
    <3> DEFINE f == [range \in Ranges(upper) |-> range[3]]
    <3>1. \A range \in Ranges(upper) : f[range] = range[3]
      OBVIOUS
    <3> HIDE DEF f
    <3>2. \A range \in Ranges(upper) : range[2] + 1 <= range[1] + 0 => range[1] > range[2]
      BY DEF Ranges
    <3>3. Agrees(f, upper, target, 0)
      BY <3>1, <3>2 DEF Agrees, SearchStep
    <3> QED BY <2>1, <2>2, <3>3
  <2>3. CASE m # 0
    <3>1. m - 1 \in Nat /\ m - 1 \notin S
      BY <2>1, <2>3
    <3>2. PICK f : Agrees(f, upper, target, m - 1)
      BY <3>1
    <3>3. Agrees(SearchFrom(f, upper, target), upper, target, (m - 1) + 1)
      BY <3>1, <3>2, OneMore
    <3>4. (m - 1) + 1 = m
      BY <2>1
    <3> QED BY <2>1, <3>3, <3>4
  <2> QED BY <2>2, <2>3
<1>2. PICK f : Agrees(f, upper, target, upper + 1)
  BY <1>1
<1> DEFINE g == SearchFrom(f, upper, target)
<1>3. ASSUME NEW range \in Ranges(upper)
      PROVE  SearchStep(g, target, range) = SearchStep(f, target, range)
  <2>1. Agrees(g, upper, target, (upper + 1) + 1)
    BY <1>2, OneMore
  <2>2. range[2] + 1 <= range[1] + ((upper + 1) + 1)
    BY DEF Ranges
  <2>3. g[range] = SearchStep(g, target, range)
    BY <2>1, <2>2 DEF Agrees
  <2>4. g[range] = SearchStep(f, target, range)
    BY DEF SearchFrom
  <2> QED BY <2>3, <2>4
<1>4. g = SearchFrom(g, upper, target)
  BY <1>3 DEF SearchFrom
<1> HIDE DEF g
<1>5. \E h : h = SearchFrom(h, upper, target)
  BY <1>4
<1> QED BY <1>5 DEF Search

\* The times of the blocks do not go back past the target.
AtOrAfter(i, target) == MinedAt[chain[i]] >= target
Sorted(upper, target) ==
    \A i, j \in 1..upper : i <= j /\ AtOrAfter(i, target) => AtOrAfter(j, target)

\* Of the first upper blocks h is the first at or after the target, or the last
\* one if there is none.
IsFirst(h, upper, target) ==
    /\ \A i \in 1..(h - 1) : ~AtOrAfter(i, target)
    /\ AtOrAfter(h, target) \/ h = upper

\* What the search knows of the blocks outside a range.
Narrowed(range, upper, target) ==
    /\ \A i \in 1..(range[1] - 1) : ~AtOrAfter(i, target)
    /\ IF range[2] = upper THEN range[3] = upper
       ELSE range[3] = range[2] + 1 /\ AtOrAfter(range[2] + 1, target)
    /\ range[1] <= range[2] + 1

Finds(h, range, upper, target) ==
    /\ h \in 1..upper
    /\ Sorted(upper, target) /\ Narrowed(range, upper, target) => IsFirst(h, upper, target)

LEMMA EmptyRangeFinds ==
    ASSUME NEW upper \in Nat, NEW target \in Nat, NEW range \in Ranges(upper), range[1] > range[2]
    PROVE  Finds(range[3], range, upper, target)
<1>1. range[1] \in 1..(upper + 1) /\ range[2] \in 0..upper /\ range[3] \in 1..upper
  BY DEF Ranges
<1>2. ASSUME Narrowed(range, upper, target) PROVE IsFirst(range[3], upper, target)
  <2>1. range[1] = range[2] + 1
    BY <1>1, <1>2 DEF Narrowed
  <2> QED BY <1>1, <1>2, <2>1 DEF Narrowed, IsFirst
<1> QED BY <1>1, <1>2 DEF Finds

LEMMA SearchStepFinds ==
    ASSUME NEW upper \in Nat, NEW target \in Nat, NEW f, NEW n \in Nat,
           \A range \in Ranges(upper) :
               range[2] + 1 <= range[1] + n => Finds(f[range], range, upper, target),
           NEW range \in Ranges(upper), range[2] + 1 <= range[1] + (n + 1)
    PROVE  Finds(SearchStep(f, target, range), range, upper, target)
<1>1. range[1] \in 1..(upper + 1) /\ range[2] \in 0..upper /\ range[3] \in 1..upper
  BY DEF Ranges
<1>2. CASE range[1] > range[2]
  BY <1>2, EmptyRangeFinds DEF SearchStep
<1>3. CASE range[1] <= range[2]
  <2> DEFINE mid == Mid(range[1], range[2])
             lower == <<range[1], mid - 1, mid>>
             higher == <<mid + 1, range[2], range[3]>>
  <2>1. /\ lower \in Ranges(upper) /\ (mid - 1) + 1 <= range[1] + n
        /\ higher \in Ranges(upper) /\ range[2] + 1 <= (mid + 1) + n
    BY <1>3, SmallerRanges
  <2>2. mid \in range[1]..range[2]
    <3>1. range[1] \in Nat /\ range[2] \in Nat
      BY <1>1
    <3> QED BY <1>3, <3>1, MidBetween
  <2>3. SearchStep(f, target, range) = IF AtOrAfter(mid, target) THEN f[lower] ELSE f[higher]
    <3>1. ~(range[1] > range[2])
      BY <1>1, <1>3
    <3> QED BY <3>1 DEF SearchStep, AtOrAfter
  <2> HIDE DEF mid
  <2>4. Finds(f[lower], lower, upper, target)
    <3>1. lower[2] + 1 <= lower[1] + n
      BY <2>1
    <3> HIDE DEF lower
    <3> QED BY <2>1, <3>1
  <2>5. Finds(f[higher], higher, upper, target)
    <3>1. higher[2] + 1 <= higher[1] + n
      BY <2>1
    <3> HIDE DEF higher
    <3> QED BY <2>1, <3>1
  <2>6. CASE AtOrAfter(mid, target)
    <3>1. Narrowed(range, upper, target) => Narrowed(lower, upper, target)
      <4> SUFFICES ASSUME Narrowed(range, upper, target) PROVE Narrowed(lower, upper, target)
        OBVIOUS
      <4>1. lower[1] = range[1] /\ lower[2] = mid - 1 /\ lower[3] = mid
        OBVIOUS
      <4>2. mid - 1 # upper /\ (mid - 1) + 1 = mid /\ range[1] <= (mid - 1) + 1
        BY <1>1, <2>2
      <4> QED BY <2>6, <4>1, <4>2 DEF Narrowed
    <3> QED BY <2>3, <2>4, <2>6, <3>1 DEF Finds
  <2>7. CASE ~AtOrAfter(mid, target)
    <3>1. Sorted(upper, target) /\ Narrowed(range, upper, target) => Narrowed(higher, upper, target)
      <4> SUFFICES ASSUME Sorted(upper, target), Narrowed(range, upper, target)
                   PROVE  Narrowed(higher, upper, target)
        OBVIOUS
      <4>1. higher[1] = mid + 1 /\ higher[2] = range[2] /\ higher[3] = range[3]
        OBVIOUS
      <4>2. \A i \in 1..((mid + 1) - 1) : ~AtOrAfter(i, target)
        BY <1>1, <2>2, <2>7 DEF Sorted
      <4>3. mid + 1 <= range[2] + 1
        BY <1>1, <2>2
      <4> QED BY <4>1, <4>2, <4>3 DEF Narrowed
    <3> QED BY <2>3, <2>5, <2>7, <3>1 DEF Finds
  <2> QED BY <2>6, <2>7
<1> QED BY <1>1, <1>2, <1>3

\* findHeightAtOrAfter returns one of the blocks, and if the times of the blocks do
\* not go back past the target, the first block at or after it (the last block if
\* there is none).
THEOREM FindsFirstBlock ==
    ASSUME NEW upper \in Nat \ {0}, NEW target \in Nat
    PROVE  /\ FindHeightAtOrAfter(upper, target) \in 1..upper
           /\ Sorted(upper, target) => IsFirst(FindHeightAtOrAfter(upper, target), upper, target)
<1> DEFINE f == Search(upper, target)
           S == {n \in Nat : \E range \in Ranges(upper) :
                    range[2] + 1 <= range[1] + n /\ ~Finds(f[range], range, upper, target)}
<1>1. \A range \in Ranges(upper) : f[range] = SearchStep(f, target, range)
  <2>1. f = SearchFrom(f, upper, target)
    BY SearchExists
  <2>2. \A range \in Ranges(upper) : SearchFrom(f, upper, target)[range] = SearchStep(f, target, range)
    BY DEF SearchFrom
  <2> HIDE DEF f
  <2> QED BY <2>1, <2>2
<1> HIDE DEF f
<1>2. S = {}
  <2> SUFFICES ASSUME S # {} PROVE FALSE
    OBVIOUS
  <2>1. PICK m \in S : \A k \in S : m <= k
    <3>1. S \subseteq Nat
      OBVIOUS
    <3> QED BY <3>1, LeastExists
  <2>2. PICK range \in Ranges(upper) :
            range[2] + 1 <= range[1] + m /\ ~Finds(f[range], range, upper, target)
    BY <2>1
  <2>3. range[1] \in 1..(upper + 1) /\ range[2] \in 0..upper /\ range[3] \in 1..upper
    BY DEF Ranges
  <2>4. CASE m = 0
    <3>1. range[1] > range[2]
      BY <2>2, <2>3, <2>4
    <3>2. SearchStep(f, target, range) = range[3]
      BY <3>1 DEF SearchStep
    <3> QED BY <1>1, <2>2, <3>1, <3>2, EmptyRangeFinds
  <2>5. CASE m # 0
    <3>1. m - 1 \in Nat /\ m - 1 \notin S
      BY <2>1, <2>5
    <3>2. \A x \in Ranges(upper) : x[2] + 1 <= x[1] + (m - 1) => Finds(f[x], x, upper, target)
      BY <3>1
    <3>3. range[2] + 1 <= range[1] + ((m - 1) + 1)
      BY <2>1, <2>2
    <3>4. Finds(SearchStep(f, target, range), range, upper, target)
      BY <3>1, <3>2, <3>3, SearchStepFinds
    <3> QED BY <1>1, <2>2, <3>4
  <2> QED BY <2>4, <2>5
<1> DEFINE all == <<1, upper, upper>>
<1>3. all \in Ranges(upper)
  BY DEF Ranges
<1>4. Finds(f[all], all, upper, target)
  <2>1. all[1] = 1 /\ all[2] = upper
    OBVIOUS
  <2>2. upper \in Nat /\ all[2] + 1 <= all[1] + upper
    BY <2>1
  <2> HIDE DEF all
  <2> QED BY <1>2, <1>3, <2>2
<1>5. Narrowed(all, upper, target)
  <2>1. all[1] = 1 /\ all[2] = upper /\ all[3] = upper
    OBVIOUS
  <2> HIDE DEF all
  <2> QED BY <2>1 DEF Narrowed
<1>6. FindHeightAtOrAfter(upper, target) = f[all]
  BY SearchUnfold DEF f
<1> QED BY <1>4, <1>5, <1>6 DEF Finds

-----------------------------------------------------------------------------
(* The chain, and what processPin computes *)

LEMMA ChainFacts ==
    ASSUME chain \in Chains
    PROVE  /\ Len(chain) \in Nat /\ Len(chain) > 0 /\ PinsOf(chain) \subseteq Pins
           /\ \A i \in 1..Len(chain) : chain[i] \in PinsOf(chain)
           /\ \A p \in PinsOf(chain) : \E i \in 1..Len(chain) : p = chain[i]
           /\ \A i, j \in 1..Len(chain) : chain[i] = chain[j] => i = j
           /\ Op[chain[1]] = "create" /\ Source \in PinsOf(chain)
           /\ \A i \in 2..Len(chain) :
                  Op[chain[i]] # "create" /\ \E j \in 1..(i - 1) : Target[chain[i]] = chain[j]
<1>1. chain \in Seq(PinsOf(chain)) /\ Len(chain) > 0
  BY FeedAssumption
<1>2. PinsOf(chain) \subseteq Pins
  BY DEF Pins
<1>3. /\ \A i \in 1..Len(chain) : chain[i] \in PinsOf(chain)
      /\ \A p \in PinsOf(chain) : \E i \in 1..Len(chain) : p = chain[i]
  BY DEF PinsOf
<1>4. Len(chain) \in Nat
  BY <1>1
<1>5. Source \in PinsOf(chain)
  BY <1>1, <1>3, <1>4 DEF Source
<1> QED BY <1>1, <1>2, <1>3, <1>4, <1>5, PublishedAssumption

\* The only pin of the chain that creates is the first one.
LEMMA CreateIsSource ==
    ASSUME chain \in Chains, NEW p \in PinsOf(chain), Op[p] = "create"
    PROVE  p = Source
<1>1. PICK i \in 1..Len(chain) : p = chain[i]
  BY ChainFacts
<1>2. i \notin 2..Len(chain)
  BY <1>1, ChainFacts
<1>3. i = 1
  BY <1>2, ChainFacts
<1> QED BY <1>1, <1>3 DEF Source

\* What processModify and processRevoke make of r before the merge.
ModifyOf(r, p, isMempool) ==
    [NewRecordFromPin(p, isMempool) EXCEPT
        !.created = r.created,
        !.payload = IF p \in HasPayload THEN p ELSE r.payload,
        !.op = IF r.op = "revoke" THEN "revoke" ELSE @,
        !.hidden = r.op = "revoke"]
RevokeOf(r, p, isMempool) ==
    [r EXCEPT !.op = "revoke", !.hidden = TRUE, !.mempool = isMempool, !.cur = p,
              !.updated = <<p, isMempool>>]

LEMMA NewRecord ==
    ASSUME NEW p \in Pins, NEW isMempool \in BOOLEAN, NEW new, new = NewRecordFromPin(p, isMempool)
    PROVE  /\ new \in Records /\ new.cur = p /\ new.mempool = isMempool /\ new.op = Op[p]
           /\ new.hidden = (Op[p] = "revoke")
           /\ new.payload = IF p \in HasPayload THEN p ELSE NoPin
  BY PublishedAssumption DEF NewRecordFromPin, Records, Times

LEMMA ModifiedRecord ==
    ASSUME NEW r \in Records, NEW p \in Pins, NEW isMempool \in BOOLEAN,
           NEW new, new = ModifyOf(r, p, isMempool)
    PROVE  /\ new \in Records /\ new.cur = p /\ new.mempool = isMempool
           /\ new.op = IF r.op = "revoke" THEN "revoke" ELSE Op[p]
           /\ new.hidden = (r.op = "revoke")
           /\ new.payload = IF p \in HasPayload THEN p ELSE r.payload
           /\ ProcessModify(r, p, isMempool) = MergeConfirmedReplay(r, new, p)
<1> DEFINE fresh == NewRecordFromPin(p, isMempool)
<1>1. fresh \in Records /\ fresh.cur = p /\ fresh.mempool = isMempool /\ fresh.op = Op[p]
  BY NewRecord
<1>2. new = [fresh EXCEPT !.created = r.created,
                          !.payload = IF p \in HasPayload THEN p ELSE r.payload,
                          !.op = IF r.op = "revoke" THEN "revoke" ELSE @,
                          !.hidden = r.op = "revoke"]
  BY DEF ModifyOf
<1>3. ProcessModify(r, p, isMempool) = MergeConfirmedReplay(r, new, p)
  BY DEF ProcessModify, ModifyOf
<1> HIDE DEF fresh
<1>4. /\ new \in Records /\ new.cur = p /\ new.mempool = isMempool
      /\ new.op = IF r.op = "revoke" THEN "revoke" ELSE Op[p]
      /\ new.payload = IF p \in HasPayload THEN p ELSE r.payload
  BY <1>1, <1>2 DEF Records
<1>5. new.hidden = (r.op = "revoke")
  BY <1>1, <1>2 DEF Records
<1> QED BY <1>3, <1>4, <1>5

LEMMA RevokedRecord ==
    ASSUME NEW r \in Records, NEW p \in Pins, NEW isMempool \in BOOLEAN,
           NEW new, new = RevokeOf(r, p, isMempool)
    PROVE  /\ new \in Records /\ new.cur = p /\ new.mempool = isMempool
           /\ new.op = "revoke" /\ new.hidden /\ new.payload = r.payload
           /\ ProcessRevoke(r, p, isMempool) = MergeConfirmedReplay(r, new, p)
<1>1. <<p, isMempool>> \in Times
  BY DEF Times
<1>2. ProcessRevoke(r, p, isMempool) = MergeConfirmedReplay(r, new, p)
  BY DEF ProcessRevoke, RevokeOf
<1>3. /\ new \in Records /\ new.cur = p /\ new.mempool = isMempool
      /\ new.op = "revoke" /\ new.hidden /\ new.payload = r.payload
  BY <1>1 DEF RevokeOf, Records
<1> QED BY <1>2, <1>3

\* A confirmed version gives way to a pending one of another pin, and to no other.
LEMMA MergeKeeps ==
    ASSUME NEW r \in Records, NEW new \in Records, NEW p \in Pins,
           ~new.mempool /\ r.mempool /\ r.cur \notin {Source, p},
           NEW result, result = MergeConfirmedReplay(r, new, p)
    PROVE  /\ result.cur = r.cur /\ result.op = r.op /\ result.hidden = r.hidden
           /\ result.mempool /\ result.payload = r.payload
  BY DEF MergeConfirmedReplay, Records

LEMMA MergeTakes ==
    ASSUME NEW r, NEW new, NEW p, ~(~new.mempool /\ r.mempool /\ r.cur \notin {Source, p})
    PROVE  MergeConfirmedReplay(r, new, p) = new
  BY DEF MergeConfirmedReplay

LEMMA MergedType ==
    ASSUME NEW r \in Records, NEW new \in Records, NEW p \in Pins
    PROVE  MergeConfirmedReplay(r, new, p) \in Records
  BY DEF MergeConfirmedReplay, Records

\* processPin makes a record from a record.
LEMMA ProcessType ==
    ASSUME NEW r \in Records \cup {NoRecord}, NEW p \in Pins, NEW isMempool \in BOOLEAN
    PROVE  ProcessPin(r, p, isMempool) \in Records \cup {NoRecord}
<1>1. r \in Records => \A new \in Records : MergeConfirmedReplay(r, new, p) \in Records
  BY MergedType
<1>2. ProcessCreate(r, p, isMempool) \in Records \cup {NoRecord}
  BY <1>1, NewRecord DEF ProcessCreate
<1>3. r \in Records => /\ ProcessModify(r, p, isMempool) \in Records
                       /\ ProcessRevoke(r, p, isMempool) \in Records
  BY <1>1, ModifiedRecord, RevokedRecord
<1> QED BY <1>2, <1>3 DEF ProcessPin

\* A modify or revoke of a record is never ignored.
LEMMA NotIgnored ==
    ASSUME NEW r \in Records, NEW p \in Pins, NEW isMempool \in BOOLEAN, Op[p] # "create"
    PROVE  ProcessPin(r, p, isMempool) # NoRecord
<1>2. ProcessModify(r, p, isMempool) \in Records /\ ProcessRevoke(r, p, isMempool) \in Records
  BY MergedType, ModifiedRecord, RevokedRecord
<1> QED BY <1>2, PublishedAssumption DEF ProcessPin

LEMMA NewRecordOK ==
    ASSUME chain \in Chains, NEW p \in PinsOf(chain), NEW isMempool \in BOOLEAN, Op[p] = "create"
    PROVE  RecordOK(NewRecordFromPin(p, isMempool))
<1>1. p = Source /\ p \in Pins
  BY CreateIsSource, ChainFacts
<1> DEFINE new == NewRecordFromPin(p, isMempool)
<1>2. /\ new.cur = p /\ new.op = "create" /\ ~new.hidden
      /\ new.payload = IF p \in HasPayload THEN p ELSE NoPin
  BY <1>1 DEF NewRecordFromPin
<1> HIDE DEF new
<1>3. NoPin \notin PinsOf(chain)
  BY ChainFacts, PublishedAssumption
<1>4. RecordOK(new)
  BY <1>1, <1>2, <1>3 DEF RecordOK, HasContent
<1> QED BY <1>4 DEF new

LEMMA CandidatesOK ==
    ASSUME chain \in Chains, NEW r \in Records, RecordOK(r), NEW p \in PinsOf(chain),
           NEW isMempool \in BOOLEAN
    PROVE  /\ Op[p] = "modify" => RecordOK(ModifyOf(r, p, isMempool))
           /\ Op[p] = "revoke" => RecordOK(RevokeOf(r, p, isMempool))
<1>1. p \in Pins /\ r # NoRecord /\ NoPin \notin PinsOf(chain)
  BY ChainFacts, PublishedAssumption
<1>2. ASSUME Op[p] = "modify" PROVE RecordOK(ModifyOf(r, p, isMempool))
  <2> DEFINE new == ModifyOf(r, p, isMempool)
  <2>1. /\ new.cur = p /\ new.op = IF r.op = "revoke" THEN "revoke" ELSE Op[p]
        /\ new.hidden = (r.op = "revoke")
        /\ new.payload = IF p \in HasPayload THEN p ELSE r.payload
    BY <1>1, ModifiedRecord
  <2> HIDE DEF new
  <2>2. RecordOK(new)
    BY <1>1, <1>2, <2>1 DEF RecordOK, HasContent
  <2> QED BY <2>2 DEF new
<1>3. ASSUME Op[p] = "revoke" PROVE RecordOK(RevokeOf(r, p, isMempool))
  <2> DEFINE new == RevokeOf(r, p, isMempool)
  <2>1. new.cur = p /\ new.op = "revoke" /\ new.hidden /\ new.payload = r.payload
    BY <1>1, RevokedRecord
  <2>2. Revoked
    BY <1>3, ChainFacts DEF Revoked
  <2> HIDE DEF new
  <2>3. RecordOK(new)
    BY <1>1, <1>3, <2>1, <2>2 DEF RecordOK, HasContent
  <2> QED BY <2>3 DEF new
<1> QED BY <1>2, <1>3

\* What a call writes: the pin that it handles, or the pending version that it found.
LEMMA ProcessFacts ==
    ASSUME chain \in Chains, NEW r \in Records \cup {NoRecord}, RecordOK(r),
           NEW p \in PinsOf(chain), NEW isMempool \in BOOLEAN,
           NEW new, new = ProcessPin(r, p, isMempool), new # NoRecord
    PROVE  /\ RecordOK(new)
           /\ isMempool => new.mempool
           /\ isMempool \/ ~new.mempool => new.cur = p
           /\ ~isMempool /\ new.mempool =>
                  r # NoRecord /\ r.mempool /\ r.cur \notin {Source, p} /\ new.cur = r.cur
<1>1. p \in Pins /\ Op[p] \in {"create", "modify", "revoke"} /\ NoRecord \notin Records
  BY ChainFacts, PublishedAssumption
<1>2. ASSUME r \in Records, NEW cand \in Records, RecordOK(cand), cand.mempool = isMempool, cand.cur = p,
             new = MergeConfirmedReplay(r, cand, p)
      PROVE  /\ RecordOK(new)
             /\ isMempool => new.mempool
             /\ isMempool \/ ~new.mempool => new.cur = p
             /\ ~isMempool /\ new.mempool =>
                    r # NoRecord /\ r.mempool /\ r.cur \notin {Source, p} /\ new.cur = r.cur
  <2>1. CASE ~cand.mempool /\ r.mempool /\ r.cur \notin {Source, p}
    <3>1. /\ new.cur = r.cur /\ new.op = r.op /\ new.hidden = r.hidden
          /\ new.mempool /\ new.payload = r.payload
      BY <1>1, <1>2, <2>1, MergeKeeps
    <3>2. RecordOK(new)
      BY <1>1, <1>2, <3>1 DEF RecordOK
    <3> QED BY <1>1, <1>2, <2>1, <3>1, <3>2
  <2>2. CASE ~(~cand.mempool /\ r.mempool /\ r.cur \notin {Source, p})
    <3>1. new = cand
      BY <1>2, <2>2, MergeTakes
    <3> QED BY <1>2, <3>1
  <2> QED BY <2>1, <2>2
<1>3. CASE Op[p] = "create"
  <2> DEFINE cand == NewRecordFromPin(p, isMempool)
  <2>1. cand \in Records /\ cand.cur = p /\ cand.mempool = isMempool /\ RecordOK(cand)
    BY <1>1, <1>3, NewRecord, NewRecordOK
  <2>2. \/ new = cand
        \/ r \in Records /\ new = MergeConfirmedReplay(r, cand, p)
    BY <1>3 DEF ProcessPin, ProcessCreate
  <2> HIDE DEF cand
  <2> QED BY <1>2, <2>1, <2>2
<1>4. CASE Op[p] = "modify"
  <2> DEFINE cand == ModifyOf(r, p, isMempool)
  <2>1. r \in Records
    BY <1>4 DEF ProcessPin
  <2>2. cand \in Records /\ cand.cur = p /\ cand.mempool = isMempool /\ RecordOK(cand)
    BY <1>1, <1>4, <2>1, ModifiedRecord, CandidatesOK
  <2>3. new = MergeConfirmedReplay(r, cand, p)
    BY <1>1, <1>4, <2>1, ModifiedRecord DEF ProcessPin
  <2> HIDE DEF cand
  <2> QED BY <1>2, <2>1, <2>2, <2>3
<1>5. CASE Op[p] = "revoke"
  <2> DEFINE cand == RevokeOf(r, p, isMempool)
  <2>1. r \in Records
    BY <1>5 DEF ProcessPin
  <2>2. cand \in Records /\ cand.cur = p /\ cand.mempool = isMempool /\ RecordOK(cand)
    BY <1>1, <1>5, <2>1, RevokedRecord, CandidatesOK
  <2>3. new = MergeConfirmedReplay(r, cand, p)
    BY <1>1, <1>5, <2>1, RevokedRecord DEF ProcessPin
  <2> HIDE DEF cand
  <2> QED BY <1>2, <2>1, <2>2, <2>3
<1> QED BY <1>1, <1>3, <1>4, <1>5

\* Without pending versions a confirmed pin is added to what there is.
LEMMA ConfirmedFacts ==
    ASSUME NEW r \in Records, ~r.mempool, RecordOK(r), NEW p \in Pins, Op[p] # "create",
           NEW isMempool \in BOOLEAN, ~isMempool, NEW new, new = ProcessPin(r, p, isMempool)
    PROVE  /\ new.hidden <=> r.hidden \/ Op[p] = "revoke"
           /\ new.payload = IF HasContent(p) THEN p ELSE r.payload
<1>1. Op[p] \in {"create", "modify", "revoke"} /\ r # NoRecord
  BY PublishedAssumption
<1>2. ASSUME NEW cand \in Records PROVE MergeConfirmedReplay(r, cand, p) = cand
  BY MergeTakes
<1>3. CASE Op[p] = "modify"
  <2>1. PICK cand : cand = ModifyOf(r, p, isMempool)
    OBVIOUS
  <2>2. /\ cand \in Records /\ cand.hidden = (r.op = "revoke")
        /\ cand.payload = IF p \in HasPayload THEN p ELSE r.payload
        /\ ProcessModify(r, p, isMempool) = MergeConfirmedReplay(r, cand, p)
    BY <2>1, ModifiedRecord
  <2>3. new = cand
    BY <1>1, <1>2, <1>3, <2>2 DEF ProcessPin
  <2> QED BY <1>1, <1>3, <2>2, <2>3 DEF RecordOK, HasContent
<1>4. CASE Op[p] = "revoke"
  <2>1. PICK cand : cand = RevokeOf(r, p, isMempool)
    OBVIOUS
  <2>2. /\ cand \in Records /\ cand.hidden /\ cand.payload = r.payload
        /\ ProcessRevoke(r, p, isMempool) = MergeConfirmedReplay(r, cand, p)
    BY <2>1, RevokedRecord
  <2>3. new = cand
    BY <1>1, <1>2, <1>4, <2>2 DEF ProcessPin
  <2> QED BY <1>1, <1>4, <2>2, <2>3 DEF HasContent
<1> QED BY <1>1, <1>3, <1>4

-----------------------------------------------------------------------------
(* Type correctness *)

CallTypeOK ==
    /\ phase \in [AllWriters -> Phases]
    /\ pin \in [AllWriters -> Pins \cup {NoPin}]
    /\ prev \in [AllWriters -> Records \cup {NoRecord}]
    /\ next \in [AllWriters -> Records \cup {NoRecord}]
DbTypeOK ==
    record \in Records \cup {NoRecord} /\ mapped \subseteq Pins /\ index \subseteq Times
ReplayTypeOK ==
    /\ replay \in 1..(Len(chain) + 1) /\ replayTo \in 0..mined
    /\ since \in Lookbacks \cup {0} /\ skipped \in BOOLEAN

LEMMA TypeParts == TypeOK <=> FeedTypeOK /\ CallTypeOK /\ DbTypeOK /\ ReplayTypeOK
  BY DEF TypeOK, CallTypeOK, DbTypeOK, ReplayTypeOK, Phases

LEMMA BeginType ==
    ASSUME TypeOK, NEW w \in AllWriters, NEW p \in Pins, Begin(w, p)
    PROVE  CallTypeOK'
<1>1. Loaded(p) \in Records \cup {NoRecord}
  BY DEF TypeOK, Loaded, Resolved
<1>2. ProcessPin(Loaded(p), p, w = "mempool") \in Records \cup {NoRecord}
  <2>1. (w = "mempool") \in BOOLEAN
    OBVIOUS
  <2> QED BY <1>1, <2>1, ProcessType
<1> QED BY <1>1, <1>2, TypeParts DEF Begin, CallTypeOK, Phases

LEMMA SortTimeType ==
    ASSUME NEW r \in Records
    PROVE  SortTimestamp(r) \in Times
  BY DEF SortTimestamp, Records

\* The number of polls of a pin keeps its bound.
LEMMA PollCounts ==
    /\ [p \in Pins |-> 0] \in [Pins -> 0..MaxPolls]
    /\ \A f \in [Pins -> 0..MaxPolls], p \in Pins :
          f[p] < MaxPolls => [f EXCEPT ![p] = @ + 1] \in [Pins -> 0..MaxPolls]
<1>1. 0 \in 0..MaxPolls /\ \A n \in 0..MaxPolls : n < MaxPolls => n + 1 \in 0..MaxPolls
  BY FeedAssumption
<1> QED BY <1>1

LEMMA InitType == Init => TypeOK
<1> SUFFICES ASSUME Init PROVE TypeOK
  OBVIOUS
<1>1. chain \in Chains /\ Len(chain) \in Nat /\ MaxCrashes \in Nat
  BY FeedAssumption, ChainFacts DEF Init, FeedInit
<1>0. late \in BOOLEAN /\ skipped \in BOOLEAN
  BY DEF Init, FeedInit
<1>2. FeedTypeOK
  BY <1>0, <1>1, PollCounts DEF Init, FeedInit, FeedTypeOK
<1>3. CallTypeOK
  BY DEF Init, NoCalls, CallTypeOK, Phases
<1>4. DbTypeOK /\ ReplayTypeOK
  BY <1>0, <1>1, <1>2 DEF Init, DbTypeOK, ReplayTypeOK, FeedTypeOK
<1> QED BY <1>2, <1>3, <1>4, TypeParts

LEMMA NextType == TypeOK /\ CallOK /\ [Next]_vars => TypeOK'
<1> SUFFICES ASSUME TypeOK, CallOK, [Next]_vars PROVE TypeOK'
  OBVIOUS
<1>0. /\ chain \in Chains /\ Len(chain) \in Nat /\ mined \in 0..Len(chain) /\ pos \in 0..mined
      /\ backfill \in 0..mined /\ replayTo \in 0..mined /\ replay \in 1..(Len(chain) + 1)
      /\ \A i \in 1..Len(chain) : chain[i] \in Pins
  BY ChainFacts DEF TypeOK, FeedTypeOK
<1>1. CASE Mine
  <2>1. FeedTypeOK'
    BY <1>0, <1>1 DEF Mine, MineNext, setup, TypeOK, FeedTypeOK
  <2>2. ReplayTypeOK'
    BY <1>0, <1>1 DEF Mine, MineNext, setup, replayVars, TypeOK, ReplayTypeOK
  <2>3. CallTypeOK' /\ DbTypeOK'
    BY <1>1, TypeParts DEF Mine, callVars, dbVars, CallTypeOK, DbTypeOK
  <2> QED BY <2>1, <2>2, <2>3, TypeParts DEF TypeOK, FeedTypeOK, CallTypeOK, DbTypeOK, ReplayTypeOK, Phases
<1>2. ASSUME NEW p \in Pins, Poll(p) PROVE TypeOK'
  BY <1>2, PollCounts DEF Poll, PollMempool, setup, callVars, dbVars, replayVars, TypeOK, FeedTypeOK
<1>3. ASSUME NEW w \in {"scan", "mempool", "backfill"}, NEW p \in Pins, HandlePin(w, p)
      PROVE  TypeOK'
  <2>1. w \in AllWriters
    BY DEF AllWriters
  <2>2. CallTypeOK'
    <3>1. CASE Begin(w, p)
      BY <2>1, <3>1, BeginType
    <3>2. CASE UNCHANGED callVars
      BY <3>2, TypeParts DEF callVars, CallTypeOK
    <3> QED BY <1>3, <3>1, <3>2 DEF HandlePin
  <2>3. FeedTypeOK'
    <3>1. pos' \in 0..mined /\ backfill' \in 0..mined
      BY <1>0, <1>3 DEF HandlePin, Offered, ScanOffers, BackfillOffers, Take, Pass, Advance
    <3> QED BY <1>3, <3>1 DEF HandlePin, Take, Pass, setup, TypeOK, FeedTypeOK
  <2>4. DbTypeOK' /\ ReplayTypeOK'
    BY <1>3, TypeParts DEF HandlePin, Take, Pass, setup, dbVars, replayVars, DbTypeOK, ReplayTypeOK
  <2> QED BY <2>2, <2>3, <2>4 DEF TypeOK, FeedTypeOK, CallTypeOK, DbTypeOK, ReplayTypeOK, Phases
<1>4. ASSUME NEW t \in Lookbacks, StartReplay(t) PROVE TypeOK'
  <2>1. mined \in Nat \ {0} /\ t \in Nat
    BY <1>0, <1>4, PublishedAssumption DEF StartReplay
  <2>2. replay' \in 1..mined
    BY <1>4, <2>1, FindsFirstBlock DEF StartReplay
  <2>3. replay' \in 1..(Len(chain) + 1)
    BY <1>0, <2>2
  <2>4. replayTo' \in 0..mined /\ mined' = mined /\ chain' = chain
    BY <1>0, <1>4 DEF StartReplay, feedVars
  <2>5. ReplayTypeOK'
    BY <1>4, <2>3, <2>4 DEF StartReplay, ReplayTypeOK
  <2> QED BY <1>4, <2>5 DEF StartReplay, feedVars, dbVars, callVars, TypeOK, FeedTypeOK, ReplayTypeOK
<1>5. CASE ReplayFails
  BY <1>0, <1>5 DEF ReplayFails, AtBlock, feedVars, dbVars, callVars, TypeOK, FeedTypeOK
<1>6. CASE ReplayPin
  <2>1. replay <= replayTo /\ chain[replay] \in Pins
    BY <1>0, <1>6 DEF ReplayPin, AtBlock
  <2>2. CallTypeOK'
    <3>1. CASE Begin("replay", chain[replay])
      BY <2>1, <3>1, BeginType DEF AllWriters
    <3>2. CASE UNCHANGED callVars
      BY <3>2, TypeParts DEF callVars, CallTypeOK
    <3> QED BY <1>6, <3>1, <3>2 DEF ReplayPin
  <2>3. replay' \in 1..(Len(chain) + 1)
    BY <1>0, <1>6, <2>1 DEF ReplayPin
  <2> QED BY <1>6, <2>2, <2>3
          DEF ReplayPin, feedVars, dbVars, TypeOK, FeedTypeOK, CallTypeOK, Phases
<1>7. ASSUME NEW w \in AllWriters, SaveRecord(w) PROVE TypeOK'
  <2>0. phase[w] # "idle" => next[w] \in Records /\ next[w].cur \in Pins /\ pin[w] \in Pins
    <3>1. phase[w] # "idle" => next[w] \in Records /\ pin[w] \in Pins
      BY <1>0, ChainFacts DEF TypeOK, CallOK
    <3> QED BY <3>1 DEF Records
  <2>1. CASE DeleteIdentityIndexes(w)
    BY <2>1 DEF DeleteIdentityIndexes, feedVars, replayVars, TypeOK, FeedTypeOK
  <2>2. CASE WriteRecord(w)
    BY <2>2 DEF WriteRecord, feedVars, replayVars, TypeOK, FeedTypeOK
  <2>3. CASE MapPinToSource(w)
    BY <2>0, <2>3 DEF MapPinToSource, feedVars, replayVars, TypeOK, FeedTypeOK
  <2>4. CASE WriteIdentityIndexes(w)
    BY <2>0, <2>4, SortTimeType DEF WriteIdentityIndexes, feedVars, replayVars, TypeOK, FeedTypeOK
  <2>5. CASE Return(w)
    <3>1. phase[w] # "idle"
      BY <2>5 DEF Return
    <3>2. CallTypeOK'
      BY <2>5, TypeParts DEF Return, EndCall, CallTypeOK, Phases
    <3>3. /\ pos' \in 0..mined /\ backfill' \in 0..mined /\ replay' \in 1..(Len(chain) + 1)
      BY <1>0, <2>5, <3>1 DEF Return, Done, Advance, CallOK
    <3>4. FeedTypeOK'
      BY <2>5, <3>3 DEF Return, Done, setup, TypeOK, FeedTypeOK
    <3>5. DbTypeOK' /\ ReplayTypeOK'
      BY <2>0, <2>5, <3>1, <3>3, TypeParts DEF Return, Done, setup, DbTypeOK, ReplayTypeOK
    <3> QED BY <3>2, <3>4, <3>5 DEF TypeOK, FeedTypeOK, CallTypeOK, DbTypeOK, ReplayTypeOK, Phases
  <2> QED BY <1>7, <2>1, <2>2, <2>3, <2>4, <2>5 DEF SaveRecord
<1>8. CASE Crash
  <2>1. pos' \in 0..mined
    BY <1>0, <1>8 DEF Crash, Restart
  <2>2. crashes' \in 0..MaxCrashes
    BY <1>8, FeedAssumption DEF Crash, Restart, TypeOK, FeedTypeOK
  <2>3. backfill' \in 0..mined
    BY <1>0, <1>8 DEF Crash, Restart
  <2>4. FeedTypeOK'
    BY <1>8, <2>1, <2>2, <2>3, PollCounts DEF Crash, Restart, setup, TypeOK, FeedTypeOK
  <2>5. ReplayTypeOK' /\ DbTypeOK'
    <3>1. /\ UNCHANGED <<chain, mined, record, mapped, index>>
          /\ replay' = 1 /\ replayTo' = 0 /\ since' = 0
      BY <1>8 DEF Crash, Restart, setup, dbVars
    <3>0. skipped' \in BOOLEAN
      BY <1>8 DEF Crash
    <3>2. DbTypeOK'
      BY <3>1, TypeParts DEF DbTypeOK
    <3> QED BY <1>0, <3>0, <3>1, <3>2 DEF ReplayTypeOK
  <2>6. CallTypeOK'
    BY <1>8 DEF Crash, CallTypeOK, Phases
  <2> QED BY <2>4, <2>5, <2>6 DEF TypeOK, FeedTypeOK, CallTypeOK, DbTypeOK, ReplayTypeOK, Phases
<1>9. CASE UNCHANGED vars
  BY <1>9 DEF vars, feedVars, dbVars, callVars, replayVars, TypeOK, FeedTypeOK
<1> QED BY <1>1, <1>2, <1>3, <1>4, <1>5, <1>6, <1>7, <1>8, <1>9 DEF Next

-----------------------------------------------------------------------------
(* The calls and the feed *)

\* A call has read the record as it is and has computed its successor.
LEMMA BeginFacts ==
    ASSUME TypeOK, NEW w \in AllWriters, NEW p \in Pins, Begin(w, p)
    PROVE  /\ phase[w] = "idle" /\ phase'[w] = "delete" /\ pin'[w] = p
           /\ next'[w] \in Records /\ next'[w] # NoRecord
           /\ next'[w] = ProcessPin(record, p, w = "mempool")
           /\ Loaded(p) = record
           /\ \A v \in AllWriters : v # w =>
                  phase'[v] = phase[v] /\ pin'[v] = pin[v] /\ next'[v] = next[v]
<1> DEFINE new == ProcessPin(Loaded(p), p, w = "mempool")
<1>1. /\ phase[w] = "idle" /\ new # NoRecord
      /\ phase' = [phase EXCEPT ![w] = "delete"]
      /\ pin' = [pin EXCEPT ![w] = p]
      /\ next' = [next EXCEPT ![w] = new]
  BY DEF Begin
<1>2. Loaded(p) = record
  BY <1>1, LoadedIsRecord
<1>3. CallTypeOK'
  BY BeginType
<1>4. new = ProcessPin(record, p, w = "mempool")
  BY <1>2
<1> HIDE DEF new
<1> QED BY <1>1, <1>2, <1>3, <1>4 DEF TypeOK, CallTypeOK

LEMMA SaveFacts ==
    ASSUME TypeOK, NEW w \in AllWriters, SaveRecord(w)
    PROVE  /\ phase[w] # "idle"
           /\ UNCHANGED <<chain, writers, mined, queue, late, replayTo, since, skipped>>
           /\ \A v \in AllWriters : v # w =>
                  phase'[v] = phase[v] /\ pin'[v] = pin[v] /\ next'[v] = next[v]
           /\ w # "scan" => pos' = pos
           /\ w # "backfill" => backfill' = backfill
           /\ w # "replay" => replay' = replay
           /\ \/ /\ phase'[w] = "idle" /\ next'[w] = NoRecord /\ UNCHANGED <<record>>
                 /\ phase[w] = "mapPin"
                 /\ w = "scan" => pos' = pos + 1
                 /\ w = "replay" => replay' = replay + 1
                 /\ mapped' = IF Op[pin[w]] = "create" THEN mapped ELSE mapped \cup {pin[w]}
              \/ /\ phase'[w] # "idle" /\ UNCHANGED <<pin, next, pos, backfill, replay>>
                 /\ \/ /\ phase[w] = "delete" /\ phase'[w] = "record"
                       /\ UNCHANGED <<record, mapped>>
                    \/ /\ phase[w] = "record" /\ phase'[w] = "map" /\ record' = next[w]
                       /\ UNCHANGED mapped
                    \/ /\ phase[w] = "map" /\ phase'[w] = "index"
                       /\ UNCHANGED record /\ mapped' = mapped \cup {next[w].cur}
                    \/ /\ phase[w] = "index" /\ phase'[w] = "mapPin"
                       /\ UNCHANGED <<record, mapped>>
<1>1. CASE DeleteIdentityIndexes(w)
  BY <1>1 DEF DeleteIdentityIndexes, feedVars, replayVars, TypeOK
<1>2. CASE WriteRecord(w)
  BY <1>2 DEF WriteRecord, feedVars, replayVars, TypeOK
<1>3. CASE MapPinToSource(w)
  BY <1>3 DEF MapPinToSource, feedVars, replayVars, TypeOK
<1>4. CASE WriteIdentityIndexes(w)
  BY <1>4 DEF WriteIdentityIndexes, feedVars, replayVars, TypeOK
<1>5. CASE Return(w)
  BY <1>5 DEF Return, EndCall, Done, Advance, setup, TypeOK
<1> QED BY <1>1, <1>2, <1>3, <1>4, <1>5 DEF SaveRecord

\* A goroutine that starts a call has a pin of the chain.
LEMMA OfferedFacts ==
    ASSUME TypeOK, CallOK, NEW w \in {"scan", "mempool", "backfill"}, NEW p \in Pins, HandlePin(w, p)
    PROVE  /\ p \in PinsOf(chain) /\ w \in AllWriters
           /\ w = "scan" => "scan" \in writers /\ pos < mined /\ p = chain[pos + 1]
           /\ w = "mempool" => p \in queue
           /\ w = "backfill" => backfill > 0
           /\ UNCHANGED <<chain, writers, mined, late, record, mapped, replay, replayTo, since, skipped>>
           /\ queue' \subseteq queue
           /\ w # "scan" => pos' = pos
           /\ w # "backfill" => backfill' = backfill
           /\ \/ Begin(w, p) /\ UNCHANGED <<pos, backfill>>
              \/ /\ phase[w] = "idle" /\ UNCHANGED callVars
                 /\ ProcessPin(Loaded(p), p, w = "mempool") = NoRecord
                 /\ w = "scan" => pos' = pos + 1
<1>1. /\ \A i \in 1..Len(chain) : chain[i] \in PinsOf(chain)
      /\ mined \in 0..Len(chain) /\ pos \in 0..mined /\ backfill \in 0..mined
      /\ Len(chain) \in Nat
  BY ChainFacts DEF TypeOK, FeedTypeOK
<1>2. p \in PinsOf(chain)
  BY <1>1 DEF HandlePin, Offered, ScanOffers, MempoolOffers, BackfillOffers, CallOK
<1> QED BY <1>2 DEF HandlePin, Offered, ScanOffers, MempoolOffers, BackfillOffers, Take, Pass, Advance,
                    Ignored, setup, dbVars, replayVars, AllWriters

LEMMA NextCall ==
    ASSUME TypeOK, CallOK, Inv, [Next]_vars
    PROVE  CallOK'
<1>0. /\ chain \in Chains /\ Len(chain) \in Nat /\ mined \in 0..Len(chain) /\ pos \in 0..mined
      /\ backfill \in 0..mined /\ replayTo \in 0..mined /\ replay \in 1..(Len(chain) + 1)
      /\ \A i \in 1..Len(chain) : chain[i] \in PinsOf(chain) /\ chain[i] \in Pins
      /\ PinsOf(chain) \subseteq Pins
  BY ChainFacts DEF TypeOK, FeedTypeOK
<1>1. CASE Mine
  BY <1>0, <1>1 DEF Mine, MineNext, setup, callVars, dbVars, replayVars, CallOK, Written
<1>2. ASSUME NEW p \in Pins, Poll(p) PROVE CallOK'
  <2>1. p \in PinsOf(chain)
    BY <1>0, <1>2 DEF Poll, PollMempool
  <2> QED BY <1>2, <2>1 DEF Poll, PollMempool, setup, callVars, dbVars, replayVars, CallOK, Written
<1>3. ASSUME NEW w \in {"scan", "mempool", "backfill"}, NEW p \in Pins, HandlePin(w, p)
      PROVE  CallOK'
  <2>1. /\ UNCHANGED <<chain, writers, mined, record, replay, replayTo>>
        /\ queue' \subseteq queue /\ p \in PinsOf(chain) /\ w \in AllWriters
        /\ w = "scan" => pos < mined /\ p = chain[pos + 1]
        /\ w = "backfill" => backfill > 0
        /\ w # "scan" => pos' = pos
        /\ w # "backfill" => backfill' = backfill
        /\ \/ Begin(w, p) /\ UNCHANGED <<pos, backfill>>
           \/ phase[w] = "idle" /\ UNCHANGED callVars
    BY <1>3, OfferedFacts
  <2>2. CASE Begin(w, p) /\ UNCHANGED <<pos, backfill>>
    <3>1. /\ phase'[w] = "delete" /\ pin'[w] = p /\ next'[w] # NoRecord
          /\ \A v \in AllWriters : v # w =>
                  phase'[v] = phase[v] /\ pin'[v] = pin[v] /\ next'[v] = next[v]
      BY <2>1, <2>2, BeginFacts
    <3> QED BY <2>1, <2>2, <3>1 DEF CallOK, Written, AllWriters
  <2>3. CASE phase[w] = "idle" /\ UNCHANGED callVars
    BY <2>1, <2>3 DEF CallOK, Written, callVars, AllWriters
  <2> QED BY <2>1, <2>2, <2>3
<1>4. ASSUME NEW t \in Lookbacks, StartReplay(t) PROVE CallOK'
  <2>1. phase["replay"] = "idle"
    BY <1>4 DEF StartReplay, Inv, OnlyWritersCall
  <2> QED BY <1>4, <2>1 DEF StartReplay, feedVars, callVars, dbVars, CallOK, Written
<1>5. CASE ReplayFails
  BY <1>5 DEF ReplayFails, AtBlock, feedVars, callVars, dbVars, CallOK, Written
<1>6. CASE ReplayPin
  <2>1. /\ replay <= replayTo /\ chain[replay] \in PinsOf(chain) /\ chain[replay] \in Pins
        /\ UNCHANGED <<chain, writers, mined, pos, queue, backfill, record, replayTo>>
        /\ phase["replay"] = "idle" /\ "replay" \in AllWriters
    BY <1>0, <1>6 DEF ReplayPin, AtBlock, feedVars, dbVars, AllWriters
  <2>2. CASE Begin("replay", chain[replay]) /\ UNCHANGED replay
    <3>1. /\ phase'["replay"] = "delete" /\ pin'["replay"] = chain[replay] /\ next'["replay"] # NoRecord
          /\ \A v \in AllWriters : v # "replay" =>
                  phase'[v] = phase[v] /\ pin'[v] = pin[v] /\ next'[v] = next[v]
      BY <2>1, <2>2, BeginFacts
    <3> QED BY <2>1, <2>2, <3>1 DEF CallOK, Written, AllWriters
  <2>3. CASE UNCHANGED callVars
    BY <2>1, <2>3 DEF CallOK, Written, callVars
  <2> QED BY <1>6, <2>2, <2>3 DEF ReplayPin
<1>7. ASSUME NEW w \in AllWriters, SaveRecord(w) PROVE CallOK'
  <2>1. /\ phase[w] # "idle"
        /\ UNCHANGED <<chain, writers, mined, queue, replayTo>>
        /\ \A v \in AllWriters : v # w =>
               phase'[v] = phase[v] /\ pin'[v] = pin[v] /\ next'[v] = next[v]
        /\ w # "scan" => pos' = pos
        /\ w # "backfill" => backfill' = backfill
        /\ w # "replay" => replay' = replay
    BY <1>7, SaveFacts
  <2>2. \/ phase'[w] = "idle" /\ record' = record
        \/ /\ phase'[w] # "idle" /\ UNCHANGED <<pin, next, pos, backfill, replay>>
           /\ \/ phase[w] = "record" /\ record' = next[w]
              \/ phase[w] = "delete" /\ phase'[w] = "record" /\ record' = record
              \/ Written(w) /\ record' = record
    BY <1>7, SaveFacts DEF Written
  <2>3. /\ "scan" \in AllWriters /\ "replay" \in AllWriters /\ "backfill" \in AllWriters
    BY DEF AllWriters
  <2>4. record # NoRecord => record' # NoRecord
    BY <1>7, <2>1, <2>2 DEF CallOK
  <2>5. ASSUME NEW v \in AllWriters, Written(v)' PROVE record' # NoRecord
    <3>1. CASE v = w
      BY <2>1, <2>2, <2>5, <3>1 DEF CallOK, Written
    <3>2. CASE v # w
      BY <2>1, <2>4, <2>5, <3>2 DEF CallOK, Written
    <3> QED BY <3>1, <3>2
  <2>6. ASSUME NEW v \in AllWriters, phase'[v] # "idle"
        PROVE  pin'[v] \in PinsOf(chain) /\ next'[v] # NoRecord
    BY <2>1, <2>2, <2>6 DEF CallOK
  <2>7. /\ phase'["scan"] # "idle" => pos' < mined /\ pin'["scan"] = chain[pos' + 1]
        /\ phase'["replay"] # "idle" => replay' <= replayTo /\ pin'["replay"] = chain[replay']
        /\ phase'["backfill"] # "idle" => backfill' > 0
    BY <2>1, <2>2, <2>3 DEF CallOK
  <2> QED BY <2>1, <2>5, <2>6, <2>7 DEF CallOK, Written
<1>8. CASE Crash
  BY <1>8 DEF Crash, Restart, setup, CallOK, Written, AllWriters
<1>9. CASE UNCHANGED vars
  BY <1>9 DEF vars, feedVars, dbVars, callVars, replayVars, CallOK, Written
<1> QED BY <1>1, <1>2, <1>3, <1>4, <1>5, <1>6, <1>7, <1>8, <1>9 DEF Next

\* Until a pin is late, the mempool goroutine is ahead of the chain.
LEMMA NextFeed ==
    ASSUME TypeOK, CallOK, FeedOK, [Next]_vars
    PROVE  FeedOK'
<1>0. /\ Len(chain) \in Nat /\ mined \in 0..Len(chain) /\ "mempool" \in AllWriters
  BY ChainFacts DEF TypeOK, FeedTypeOK, AllWriters
<1>1. ASSUME UNCHANGED <<chain, mined>>, late' = late, queue' \subseteq queue,
             phase'["mempool"] # "idle" => \/ pin'["mempool"] \in queue
                                           \/ phase["mempool"] # "idle" /\ pin'["mempool"] = pin["mempool"]
      PROVE  FeedOK'
  BY <1>1 DEF FeedOK, Ahead
<1>2. CASE Mine
  <2> SUFFICES ASSUME ~late' PROVE /\ \A p \in queue' : Ahead(p)'
                                   /\ phase'["mempool"] # "idle" => Ahead(pin["mempool"])'
    BY DEF FeedOK
  <2>1. /\ ~late /\ chain[mined + 1] \notin queue \cup {pin["mempool"]} /\ mined' = mined + 1
        /\ chain' = chain /\ queue' = queue /\ phase' = phase /\ pin' = pin
    BY <1>2 DEF Mine, MineNext, setup, callVars
  <2>2. ASSUME NEW p, Ahead(p), p # chain[mined + 1]
        PROVE  \E i \in (mined + 2)..Len(chain) : chain[i] = p
    <3>1. PICK i \in (mined + 1)..Len(chain) : chain[i] = p
      BY <2>2 DEF Ahead
    <3>2. i \in (mined + 2)..Len(chain)
      BY <1>0, <2>2, <3>1
    <3> QED BY <3>1, <3>2
  <2>3. \A p \in queue' : Ahead(p)'
    BY <1>0, <2>1, <2>2 DEF FeedOK, Ahead
  <2>4. phase'["mempool"] # "idle" => Ahead(pin["mempool"])'
    BY <1>0, <2>1, <2>2 DEF FeedOK, Ahead
  <2> QED BY <2>3, <2>4
<1>3. ASSUME NEW p \in Pins, Poll(p) PROVE FeedOK'
  BY <1>3 DEF Poll, PollMempool, setup, callVars, FeedOK, Ahead
<1>4. ASSUME NEW w \in {"scan", "mempool", "backfill"}, NEW p \in Pins, HandlePin(w, p)
      PROVE  FeedOK'
  <2>1. /\ UNCHANGED <<chain, mined, late>> /\ queue' \subseteq queue /\ w \in AllWriters
        /\ w = "mempool" => p \in queue
        /\ Begin(w, p) \/ UNCHANGED callVars
    BY <1>4, OfferedFacts
  <2>2. CASE Begin(w, p)
    BY <1>0, <1>1, <2>1, <2>2, BeginFacts
  <2>3. CASE UNCHANGED callVars
    BY <1>1, <2>1, <2>3 DEF callVars
  <2> QED BY <2>1, <2>2, <2>3
<1>5. ASSUME NEW t \in Lookbacks, StartReplay(t) PROVE FeedOK'
  BY <1>1, <1>5 DEF StartReplay, feedVars, callVars
<1>6. CASE ReplayFails
  BY <1>1, <1>6 DEF ReplayFails, feedVars, callVars
<1>7. CASE ReplayPin
  <2>1. UNCHANGED <<chain, mined, late, queue>>
    BY <1>7 DEF ReplayPin, feedVars
  <2>2. phase'["mempool"] = phase["mempool"] /\ pin'["mempool"] = pin["mempool"]
    BY <1>0, <1>7 DEF ReplayPin, Begin, callVars, TypeOK
  <2> QED BY <1>1, <2>1, <2>2
<1>8. ASSUME NEW w \in AllWriters, SaveRecord(w) PROVE FeedOK'
  <2>1. /\ UNCHANGED <<chain, mined, queue, late>> /\ phase[w] # "idle"
        /\ \A v \in AllWriters : v # w => phase'[v] = phase[v] /\ pin'[v] = pin[v]
        /\ phase'[w] = "idle" \/ pin' = pin
    BY <1>8, SaveFacts
  <2> QED BY <1>0, <1>1, <2>1
<1>9. CASE Crash
  BY <1>0, <1>9 DEF Crash, Restart, FeedOK
<1>10. CASE UNCHANGED vars
  BY <1>1, <1>10 DEF vars, feedVars, callVars
<1> QED BY <1>2, <1>3, <1>4, <1>5, <1>6, <1>7, <1>8, <1>9, <1>10 DEF Next

-----------------------------------------------------------------------------
(* The records *)

LEMMA RecordOKPrime ==
    ASSUME chain' = chain, NEW r, RecordOK(r)
    PROVE  /\ record' = r => RecordOK(record)'
           /\ \A w : next'[w] = r => RecordOK(next[w])'
  BY DEF RecordOK, Revoked, Source, HasContent

LEMMA NextRecords ==
    ASSUME TypeOK, CallOK, Inv, RecordsOK, [Next]_vars
    PROVE  RecordsOK'
<1>0. chain \in Chains /\ PinsOf(chain) \subseteq Pins /\ record \in Records \cup {NoRecord}
  BY ChainFacts DEF TypeOK, FeedTypeOK
<1>1. ASSUME UNCHANGED <<chain, writers, record, callVars>> PROVE RecordsOK'
  <2>1. RecordOK(record)' /\ \A w \in AllWriters : RecordOK(next[w])'
    BY <1>1, RecordOKPrime DEF RecordsOK, callVars
  <2> QED BY <1>1, <2>1 DEF RecordsOK, NextOK, callVars
<1>2. ASSUME NEW w \in AllWriters, NEW p \in PinsOf(chain), Begin(w, p), w \in writers,
             UNCHANGED <<chain, writers, record>>
      PROVE  RecordsOK'
  <2>1. /\ phase'[w] = "delete" /\ pin'[w] = p
        /\ next'[w] \in Records /\ next'[w] # NoRecord
        /\ next'[w] = ProcessPin(record, p, w = "mempool")
        /\ \A v \in AllWriters : v # w =>
               phase'[v] = phase[v] /\ pin'[v] = pin[v] /\ next'[v] = next[v]
    BY <1>0, <1>2, BeginFacts
  <2>2. PICK new : new = next'[w]
    OBVIOUS
  <2>3. PICK isMempool \in BOOLEAN : isMempool <=> w = "mempool"
    OBVIOUS
  <2>4. new = ProcessPin(record, p, isMempool)
    BY <2>1, <2>2, <2>3
  <2>5. /\ RecordOK(new)
        /\ isMempool => new.mempool
        /\ isMempool \/ ~new.mempool => new.cur = p
        /\ ~isMempool /\ new.mempool => record # NoRecord /\ record.mempool
    BY <1>0, <1>2, <2>1, <2>2, <2>4, ProcessFacts DEF RecordsOK
  <2>6. RecordOK(record)' /\ \A v \in AllWriters : RecordOK(next[v])'
    BY <1>2, <2>1, <2>2, <2>5, RecordOKPrime DEF RecordsOK
  <2>7. NextOK(w)'
    BY <1>2, <2>1, <2>2, <2>3, <2>5 DEF NextOK, RecordsOK
  <2>8. \A v \in AllWriters : v # w => NextOK(v)'
    BY <1>2, <2>1 DEF NextOK, RecordsOK
  <2> QED BY <1>2, <2>6, <2>7, <2>8 DEF RecordsOK
<1>3. CASE Mine
  BY <1>1, <1>3 DEF Mine, MineNext, setup, dbVars
<1>4. ASSUME NEW p \in Pins, Poll(p) PROVE RecordsOK'
  BY <1>1, <1>4 DEF Poll, PollMempool, setup, dbVars
<1>5. ASSUME NEW w \in {"scan", "mempool", "backfill"}, NEW p \in Pins, HandlePin(w, p)
      PROVE  RecordsOK'
  <2>1. /\ UNCHANGED <<chain, writers, record>> /\ p \in PinsOf(chain) /\ w \in AllWriters
        /\ w = "scan" => "scan" \in writers
        /\ w = "mempool" => p \in queue
        /\ w = "backfill" => backfill > 0
        /\ Begin(w, p) \/ UNCHANGED callVars
    BY <1>5, OfferedFacts
  <2>2. w \in writers
    BY <2>1 DEF Inv, OnlyWritersCall
  <2> QED BY <1>1, <1>2, <2>1, <2>2
<1>6. ASSUME NEW t \in Lookbacks, StartReplay(t) PROVE RecordsOK'
  BY <1>1, <1>6 DEF StartReplay, feedVars, dbVars
<1>7. CASE ReplayFails
  BY <1>1, <1>7 DEF ReplayFails, feedVars, dbVars
<1>8. CASE ReplayPin
  <2>1. /\ UNCHANGED <<chain, writers, record>> /\ replay <= replayTo
        /\ Begin("replay", chain[replay]) \/ UNCHANGED callVars
    BY <1>8 DEF ReplayPin, AtBlock, feedVars, dbVars
  <2>2. "replay" \in writers /\ "replay" \in AllWriters /\ chain[replay] \in PinsOf(chain)
    BY <2>1, ChainFacts DEF TypeOK, FeedTypeOK, Inv, OnlyWritersCall, AllWriters
  <2> QED BY <1>1, <1>2, <2>1, <2>2
<1>9. ASSUME NEW w \in AllWriters, SaveRecord(w) PROVE RecordsOK'
  <2>1. /\ UNCHANGED <<chain, writers>> /\ phase[w] # "idle"
        /\ \A v \in AllWriters : v # w =>
               phase'[v] = phase[v] /\ pin'[v] = pin[v] /\ next'[v] = next[v]
        /\ (phase'[w] = "idle" /\ next'[w] = NoRecord) \/ UNCHANGED <<pin, next>>
        /\ record' = record \/ record' = next[w]
    BY <1>9, SaveFacts
  <2>2. \A v \in AllWriters : RecordOK(next[v])'
    <3>1. \A v \in AllWriters : next'[v] = next[v] \/ next'[v] = NoRecord
      BY <2>1
    <3>2. RecordOK(NoRecord)
      BY DEF RecordOK
    <3> QED BY <2>1, <3>1, <3>2, RecordOKPrime DEF RecordsOK
  <2>3. RecordOK(record)'
    BY <2>1, RecordOKPrime DEF RecordsOK
  <2>4. \A v \in AllWriters : NextOK(v)'
    BY <2>1 DEF NextOK, RecordsOK
  <2>5. record' # NoRecord /\ record'.mempool => "mempool" \in writers
    BY <2>1 DEF RecordsOK, NextOK
  <2> QED BY <2>1, <2>2, <2>3, <2>4, <2>5 DEF RecordsOK
<1>10. CASE Crash
  <2>1. /\ UNCHANGED <<chain, writers, record>>
        /\ \A v \in AllWriters : phase'[v] = "idle" /\ next'[v] = NoRecord
    BY <1>10 DEF Crash, Restart, setup, dbVars
  <2>2. RecordOK(NoRecord)
    BY DEF RecordOK
  <2>3. RecordOK(record)' /\ \A v \in AllWriters : RecordOK(next[v])'
    BY <2>1, <2>2, RecordOKPrime DEF RecordsOK
  <2> QED BY <2>1, <2>3 DEF RecordsOK, NextOK
<1>11. CASE UNCHANGED vars
  BY <1>1, <1>11 DEF vars, feedVars, dbVars
<1> QED BY <1>3, <1>4, <1>5, <1>6, <1>7, <1>8, <1>9, <1>10, <1>11 DEF Next

-----------------------------------------------------------------------------
(* What has been passed can be named *)

\* A pin that follows pins which can be named is ignored only if it is the create pin
\* of a record that is confirmed.
LEMMA IgnoredFacts ==
    ASSUME TypeOK, NEW n \in Nat, n < Len(chain), Held(n), NEW isMempool \in BOOLEAN, ~isMempool,
           ProcessPin(Loaded(chain[n + 1]), chain[n + 1], isMempool) = NoRecord
    PROVE  n = 0 /\ record \in Records /\ ~record.mempool
<1>0. chain \in Chains /\ NoRecord \notin Records /\ record \in Records \cup {NoRecord}
  BY PublishedAssumption DEF TypeOK, FeedTypeOK
<1> DEFINE p == chain[n + 1]
<1>1. p \in PinsOf(chain) /\ p \in Pins
  BY <1>0, ChainFacts
<1>2. ASSUME n > 0 PROVE FALSE
  <2>1. Op[p] # "create" /\ \E j \in 1..n : Target[p] = chain[j]
    <3>1. n + 1 \in 2..Len(chain) /\ (n + 1) - 1 = n
      BY <1>0, <1>2, ChainFacts
    <3> QED BY <1>0, <3>1, ChainFacts
  <2>2. PICK j \in 1..n : Target[p] = chain[j]
    BY <2>1
  <2>3. Target[p] = Source \/ Target[p] \in mapped
    BY <2>2 DEF Held, Source
  <2>4. Loaded(p) = record /\ record \in Records
    BY <1>0, <1>2, <2>1, <2>3 DEF Loaded, Resolved, Held
  <2> QED BY <1>1, <2>1, <2>4, NotIgnored
<1>3. n = 0
  BY <1>2
<1>4. Op[p] = "create"
  BY <1>0, <1>3, ChainFacts
<1>5. ProcessCreate(record, p, isMempool) = NoRecord
  BY <1>4 DEF ProcessPin, Loaded
<1>6. NewRecordFromPin(p, isMempool) \in Records
  BY <1>1, NewRecord
<1>7. record \in Records
  BY <1>0, <1>5, <1>6 DEF ProcessCreate
<1>8. MergeConfirmedReplay(record, NewRecordFromPin(p, isMempool), p) \in Records
  BY <1>1, <1>6, <1>7, MergedType
<1>9. ~record.mempool
  BY <1>0, <1>5, <1>7, <1>8 DEF ProcessCreate
<1> QED BY <1>3, <1>7, <1>9

LEMMA NextScanMapped ==
    ASSUME TypeOK, CallOK, ScanMapped, [Next]_vars
    PROVE  ScanMapped'
<1>0. /\ chain \in Chains /\ Len(chain) \in Nat /\ mined \in 0..Len(chain) /\ pos \in 0..mined
  BY ChainFacts DEF TypeOK, FeedTypeOK
<1>1. ASSUME UNCHANGED <<chain, record, mapped>>, pos' \in 0..pos PROVE ScanMapped'
  BY <1>0, <1>1 DEF ScanMapped, Held
<1>2. CASE Mine
  BY <1>0, <1>1, <1>2 DEF Mine, MineNext, setup, dbVars
<1>3. ASSUME NEW p \in Pins, Poll(p) PROVE ScanMapped'
  BY <1>0, <1>1, <1>3 DEF Poll, PollMempool, setup, dbVars
<1>4. ASSUME NEW w \in {"scan", "mempool", "backfill"}, NEW p \in Pins, HandlePin(w, p)
      PROVE  ScanMapped'
  <2>1. /\ UNCHANGED <<chain, record, mapped>>
        /\ w # "scan" => pos' = pos
        /\ w = "scan" => pos < mined /\ p = chain[pos + 1]
        /\ \/ pos' = pos
           \/ /\ w = "scan" /\ pos' = pos + 1
              /\ ProcessPin(Loaded(p), p, w = "mempool") = NoRecord
    BY <1>4, OfferedFacts
  <2>2. CASE pos' = pos
    BY <1>0, <1>1, <2>1, <2>2
  <2>3. CASE w = "scan" /\ pos' = pos + 1 /\ ProcessPin(Loaded(p), p, w = "mempool") = NoRecord
    <3>1. PICK isMempool \in BOOLEAN : ~isMempool
      OBVIOUS
    <3>2. ProcessPin(Loaded(chain[pos + 1]), chain[pos + 1], isMempool) = NoRecord
      BY <2>1, <2>3, <3>1
    <3>3. pos \in Nat /\ pos < Len(chain)
      BY <1>0, <2>1, <2>3
    <3>4. pos = 0 /\ record \in Records
      BY <3>1, <3>2, <3>3, IgnoredFacts DEF ScanMapped
    <3> QED BY <2>1, <2>3, <3>4, PublishedAssumption DEF ScanMapped, Held
  <2> QED BY <2>1, <2>2, <2>3
<1>5. ASSUME NEW t \in Lookbacks, StartReplay(t) PROVE ScanMapped'
  BY <1>0, <1>1, <1>5 DEF StartReplay, feedVars, dbVars
<1>6. CASE ReplayFails
  BY <1>0, <1>1, <1>6 DEF ReplayFails, feedVars, dbVars
<1>7. CASE ReplayPin
  BY <1>0, <1>1, <1>7 DEF ReplayPin, feedVars, dbVars
<1>8. ASSUME NEW w \in AllWriters, SaveRecord(w) PROVE ScanMapped'
  <2>1. /\ chain' = chain /\ phase[w] # "idle" /\ mapped \subseteq mapped'
        /\ record' = record \/ record' = next[w]
        /\ \/ pos' = pos
           \/ /\ w = "scan" /\ pos' = pos + 1 /\ record' = record /\ phase[w] = "mapPin"
              /\ mapped' = IF Op[pin[w]] = "create" THEN mapped ELSE mapped \cup {pin[w]}
    BY <1>8, SaveFacts
  <2>2. CASE pos' = pos
    BY <2>1, <2>2 DEF ScanMapped, Held, CallOK
  <2>3. CASE /\ w = "scan" /\ pos' = pos + 1 /\ record' = record /\ phase[w] = "mapPin"
             /\ mapped' = IF Op[pin[w]] = "create" THEN mapped ELSE mapped \cup {pin[w]}
    <3>1. pin["scan"] = chain[pos + 1] /\ pos < mined /\ record # NoRecord
      BY <2>1, <2>3 DEF CallOK, Written
    <3>2. ASSUME NEW j \in 2..(pos + 1) PROVE chain[j] \in mapped'
      <4>1. CASE j = pos + 1
        <5>1. Op[chain[j]] # "create"
          BY <1>0, <3>1, <4>1, ChainFacts
        <5> QED BY <2>3, <3>1, <4>1, <5>1
      <4>2. CASE j # pos + 1
        BY <1>0, <2>1, <4>2 DEF ScanMapped, Held
      <4> QED BY <4>1, <4>2
    <3> QED BY <2>1, <2>3, <3>1, <3>2 DEF ScanMapped, Held
  <2> QED BY <2>1, <2>2, <2>3
<1>9. CASE Crash
  BY <1>1, <1>9 DEF Crash, Restart, setup, dbVars
<1>10. CASE UNCHANGED vars
  BY <1>0, <1>1, <1>10 DEF vars, feedVars, dbVars
<1> QED BY <1>2, <1>3, <1>4, <1>5, <1>6, <1>7, <1>8, <1>9, <1>10 DEF Next

-----------------------------------------------------------------------------
(* Blocks and mempool *)

LEMMA PlacedDown ==
    ASSUME NEW r, NEW n \in Nat, NEW k \in 0..n, Placed(r, n)
    PROVE  Placed(r, k)
<1>1. 1..k \subseteq 1..n
  OBVIOUS
<1>2. n..Len(chain) \subseteq k..Len(chain)
  <2> SUFFICES ASSUME NEW m \in n..Len(chain) PROVE m \in k..Len(chain)
    OBVIOUS
  <2> QED OBVIOUS
<1> QED BY <1>1, <1>2 DEF Placed

LEMMA PlacedPrime ==
    ASSUME chain' = chain, NEW r, NEW n, Placed(r, n)
    PROVE  /\ record' = r /\ ScanAt' = n => Placed(record, ScanAt)'
           /\ record' = r /\ pos' + 1 = n => Placed(record, pos + 1)'
           /\ next'["scan"] = r /\ pos' + 1 = n => Placed(next["scan"], pos + 1)'
  BY DEF Placed

\* What the scan computes is as new as the pin that it is at, if the record was as
\* new as the pins that it has passed.
LEMMA ScanComputes ==
    ASSUME TypeOK, RecordOK(record), NEW n \in Nat, n < Len(chain), Placed(record, n),
           NEW isMempool \in BOOLEAN, ~isMempool,
           NEW new, new = ProcessPin(record, chain[n + 1], isMempool), new # NoRecord
    PROVE  Placed(new, n + 1)
<1>0. chain \in Chains /\ record \in Records \cup {NoRecord} /\ Len(chain) \in Nat
  BY ChainFacts DEF TypeOK, FeedTypeOK
<1>1. chain[n + 1] \in PinsOf(chain)
  BY <1>0, ChainFacts
<1>2. /\ ~new.mempool => new.cur = chain[n + 1]
      /\ new.mempool =>
             record # NoRecord /\ record.mempool /\ record.cur # chain[n + 1] /\ new.cur = record.cur
  BY <1>0, <1>1, ProcessFacts
<1>3. CASE new.mempool
  <2>1. \A j \in 1..n : record.cur # chain[j]
    BY <1>2, <1>3 DEF Placed
  <2>2. \A j \in 1..(n + 1) : j = n + 1 \/ j \in 1..n
    OBVIOUS
  <2> QED BY <1>2, <1>3, <2>1, <2>2 DEF Placed
<1>4. CASE ~new.mempool
  <2>1. n + 1 \in (n + 1)..Len(chain) /\ n + 1 > 0
    BY <1>0
  <2> QED BY <1>2, <1>4, <2>1 DEF Placed
<1> QED BY <1>3, <1>4

LEMMA ScanAtType ==
    ASSUME TypeOK, CallOK
    PROVE  ScanAt \in pos..(pos + 1) /\ ScanAt \in 0..mined /\ ScanAt \in 0..Len(chain)
<1>1. Len(chain) \in Nat /\ mined \in 0..Len(chain) /\ pos \in 0..mined
  BY ChainFacts DEF TypeOK, FeedTypeOK
<1>2. Written("scan") => pos < mined
  BY DEF CallOK, Written
<1> QED BY <1>1, <1>2 DEF ScanAt

\* A pin that is not mined is behind every pin that the scan has written.
LEMMA AheadPlaced ==
    ASSUME TypeOK, CallOK, NEW r, r.mempool, Ahead(r.cur)
    PROVE  Placed(r, ScanAt)
<1>0. chain \in Chains /\ Len(chain) \in Nat /\ mined \in 0..Len(chain)
  BY ChainFacts DEF TypeOK, FeedTypeOK
<1>1. PICK i \in (mined + 1)..Len(chain) : chain[i] = r.cur
  BY DEF Ahead
<1>2. ScanAt \in 0..mined
  BY ScanAtType
<1>3. ASSUME NEW j \in 1..ScanAt PROVE r.cur # chain[j]
  <2>1. i \in 1..Len(chain) /\ j \in 1..Len(chain) /\ i # j
    BY <1>0, <1>1, <1>2
  <2> QED BY <1>0, <1>1, <2>1, ChainFacts
<1> QED BY <1>3 DEF Placed

LEMMA SetupFixed ==
    ASSUME [Next]_vars
    PROVE  chain' = chain /\ writers' = writers /\ (late => late')
<1>1. Mine => chain' = chain /\ writers' = writers /\ (late => late')
  BY DEF Mine, MineNext, setup
<1>2. ASSUME NEW p \in Pins
      PROVE  Poll(p) => chain' = chain /\ writers' = writers /\ late' = late
  BY DEF Poll, PollMempool, setup
<1>3. ASSUME NEW p \in Pins, NEW w
      PROVE  HandlePin(w, p) => chain' = chain /\ writers' = writers /\ late' = late
  BY DEF HandlePin, Take, Pass, setup
<1>4. ASSUME NEW t \in Lookbacks
      PROVE  StartReplay(t) => chain' = chain /\ writers' = writers /\ late' = late
  BY DEF StartReplay, feedVars
<1>5. ReplayFails \/ ReplayPin => chain' = chain /\ writers' = writers /\ late' = late
  BY DEF ReplayFails, ReplayPin, feedVars
<1>6. ASSUME NEW w \in AllWriters
      PROVE  SaveRecord(w) => chain' = chain /\ writers' = writers /\ late' = late
  BY DEF SaveRecord, DeleteIdentityIndexes, WriteRecord, MapPinToSource, WriteIdentityIndexes,
         Return, Done, setup, feedVars
<1>7. Crash \/ UNCHANGED vars => chain' = chain /\ writers' = writers /\ late' = late
  BY DEF Crash, Restart, setup, vars, feedVars
<1> QED BY <1>1, <1>2, <1>3, <1>4, <1>5, <1>6, <1>7 DEF Next

LEMMA NextScanPlaced ==
    ASSUME TypeOK, CallOK, Inv, RecordsOK, ScanMapped, FeedOK, ScanPlaced, [Next]_vars
    PROVE  ScanPlaced'
<1> SUFFICES ASSUME (writers \subseteq {"scan", "mempool"} /\ ~late)'
             PROVE  /\ Placed(record, ScanAt)'
                    /\ phase'["scan"] # "idle" => Placed(next["scan"], pos + 1)'
  BY DEF ScanPlaced
<1>0. /\ chain \in Chains /\ Len(chain) \in Nat /\ mined \in 0..Len(chain) /\ pos \in 0..mined
      /\ ScanAt \in pos..(pos + 1) /\ ScanAt \in 0..mined /\ "scan" \in AllWriters
      /\ record \in Records \cup {NoRecord} /\ RecordOK(record)
  BY ChainFacts, ScanAtType DEF TypeOK, FeedTypeOK, AllWriters, RecordsOK
<1>1. /\ chain' = chain /\ writers \subseteq {"scan", "mempool"} /\ ~late
      /\ Placed(record, ScanAt)
      /\ phase["scan"] # "idle" => Placed(next["scan"], pos + 1)
  <2>1. chain' = chain /\ writers' = writers /\ (late => late')
    BY SetupFixed
  <2> QED BY <2>1 DEF ScanPlaced
<1>2. "replay" \notin writers /\ "backfill" \notin writers
  BY <1>1
<1>3. ASSUME UNCHANGED <<record, pos>>, phase'["scan"] = phase["scan"], next'["scan"] = next["scan"]
      PROVE  /\ Placed(record, ScanAt)'
             /\ phase'["scan"] # "idle" => Placed(next["scan"], pos + 1)'
  <2>1. ScanAt' = ScanAt
    BY <1>3 DEF ScanAt, Written
  <2> QED BY <1>1, <1>3, <2>1, PlacedPrime
<1>4. CASE Mine
  BY <1>3, <1>4 DEF Mine, MineNext, callVars, dbVars
<1>5. ASSUME NEW p \in Pins, Poll(p) PROVE UNCHANGED <<record, pos, phase, next>>
  BY <1>5 DEF Poll, PollMempool, callVars, dbVars
<1>6. ASSUME NEW w \in {"scan", "mempool", "backfill"}, NEW p \in Pins, HandlePin(w, p)
      PROVE  /\ Placed(record, ScanAt)'
             /\ phase'["scan"] # "idle" => Placed(next["scan"], pos + 1)'
  <2>1. /\ UNCHANGED <<record, mapped>> /\ w \in AllWriters
        /\ w # "scan" => pos' = pos
        /\ w = "scan" => pos < mined /\ p = chain[pos + 1]
        /\ \/ Begin(w, p) /\ pos' = pos
           \/ /\ phase[w] = "idle" /\ UNCHANGED callVars
              /\ ProcessPin(Loaded(p), p, w = "mempool") = NoRecord
              /\ w = "scan" => pos' = pos + 1
    BY <1>6, OfferedFacts
  <2>2. CASE w # "scan"
    <3>1. phase'["scan"] = phase["scan"] /\ next'["scan"] = next["scan"]
      BY <1>0, <2>1, <2>2, BeginFacts DEF callVars
    <3> QED BY <1>3, <2>1, <2>2, <3>1
  <2>3. CASE w = "scan" /\ Begin(w, p) /\ pos' = pos
    <3>1. PICK isMempool \in BOOLEAN : ~isMempool
      OBVIOUS
    <3>2. /\ phase["scan"] = "idle" /\ phase'["scan"] = "delete"
          /\ next'["scan"] # NoRecord /\ next'["scan"] = ProcessPin(record, p, isMempool)
      BY <1>0, <2>3, <3>1, BeginFacts
    <3>3. ScanAt = pos /\ ScanAt' = pos
      BY <2>3, <3>2 DEF ScanAt, Written
    <3>4. PICK new : new = next'["scan"]
      OBVIOUS
    <3>5. pos \in Nat /\ pos < Len(chain)
      BY <1>0, <2>1, <2>3
    <3>6. Placed(new, pos + 1)
      BY <1>0, <1>1, <2>1, <2>3, <3>1, <3>2, <3>3, <3>4, <3>5, ScanComputes
    <3> QED BY <1>1, <2>1, <2>3, <3>3, <3>4, <3>6, PlacedPrime
  <2>4. CASE w = "scan" /\ ProcessPin(Loaded(p), p, w = "mempool") = NoRecord /\ phase[w] = "idle"
             /\ pos' = pos + 1 /\ UNCHANGED callVars
    <3>1. PICK isMempool \in BOOLEAN : ~isMempool
      OBVIOUS
    <3>2. pos \in Nat /\ pos < Len(chain)
      BY <1>0, <2>1, <2>4
    <3>3. ProcessPin(Loaded(chain[pos + 1]), chain[pos + 1], isMempool) = NoRecord
      BY <2>1, <2>4, <3>1
    <3>4. pos = 0 /\ record \in Records /\ ~record.mempool
      BY <3>1, <3>2, <3>3, IgnoredFacts DEF ScanMapped
    <3>5. Placed(record, 1)
      <4>1. record.cur \in PinsOf(chain)
        BY <1>0, <3>4, PublishedAssumption DEF RecordOK
      <4>2. PICK i \in 1..Len(chain) : record.cur = chain[i]
        BY <1>0, <4>1, ChainFacts
      <4>3. i > 0
        OBVIOUS
      <4> QED BY <3>4, <4>2, <4>3 DEF Placed
    <3>6. ScanAt' = 1 /\ phase'["scan"] = "idle"
      BY <2>4, <3>4 DEF ScanAt, Written, callVars
    <3> QED BY <1>1, <2>1, <3>5, <3>6, PlacedPrime
  <2> QED BY <2>1, <2>2, <2>3, <2>4
<1>7. ASSUME NEW t \in Lookbacks PROVE ~StartReplay(t)
  BY <1>2 DEF StartReplay
<1>8. ~ReplayFails /\ ~ReplayPin
  BY <1>2 DEF ReplayFails, ReplayPin, AtBlock, Inv, OnlyWritersCall
<1>9. ASSUME NEW w \in AllWriters, SaveRecord(w)
      PROVE  /\ Placed(record, ScanAt)'
             /\ phase'["scan"] # "idle" => Placed(next["scan"], pos + 1)'
  <2>1. phase[w] # "idle"
    BY <1>9, SaveFacts
  <2>2. w \in {"scan", "mempool"}
    BY <1>2, <2>1 DEF Inv, OnlyWritersCall, AllWriters
  <2>3. CASE w = "mempool"
    <3>1. /\ pos' = pos /\ phase'["scan"] = phase["scan"] /\ next'["scan"] = next["scan"]
          /\ record' = record \/ record' = next[w]
      BY <1>0, <1>9, <2>3, SaveFacts
    <3>2. CASE record' = record
      BY <1>3, <3>1, <3>2
    <3>3. CASE record' = next[w]
      <4>1. next[w].mempool /\ next[w].cur = pin[w]
        BY <2>1, <2>3 DEF RecordsOK, NextOK, AllWriters
      <4>2. Ahead(next[w].cur)
        BY <1>1, <2>1, <2>3, <4>1 DEF FeedOK
      <4>3. Placed(next[w], ScanAt)
        BY <4>1, <4>2, AheadPlaced
      <4>4. ScanAt' = ScanAt
        BY <3>1 DEF ScanAt, Written
      <4> QED BY <1>1, <3>1, <3>3, <4>3, <4>4, PlacedPrime
    <3> QED BY <3>1, <3>2, <3>3
  <2>4. CASE w = "scan"
    <3>1. Placed(next["scan"], pos + 1)
      BY <1>1, <2>1, <2>4
    <3>2. CASE phase'["scan"] = "idle" /\ pos' = pos + 1 /\ record' = record /\ phase["scan"] = "mapPin"
      <4>1. ScanAt' = ScanAt
        BY <3>2 DEF ScanAt, Written
      <4> QED BY <1>1, <3>2, <4>1, PlacedPrime
    <3>3. CASE /\ UNCHANGED <<next, pos>> /\ record' = next["scan"]
               /\ phase'["scan"] = "map"
      <4>1. ScanAt' = pos + 1
        BY <3>3 DEF ScanAt, Written
      <4> QED BY <1>1, <3>1, <3>3, <4>1, PlacedPrime
    <3>4. CASE UNCHANGED <<next, pos, record>> /\ (Written("scan")' <=> Written("scan"))
      <4>1. ScanAt' = ScanAt
        BY <3>4 DEF ScanAt
      <4> QED BY <1>1, <3>1, <3>4, <4>1, PlacedPrime
    <3>5. \/ phase'["scan"] = "idle" /\ pos' = pos + 1 /\ record' = record /\ phase["scan"] = "mapPin"
          \/ UNCHANGED <<next, pos>> /\ record' = next["scan"] /\ phase'["scan"] = "map"
          \/ UNCHANGED <<next, pos, record>> /\ (Written("scan")' <=> Written("scan"))
      BY <1>0, <1>9, <2>4, SaveFacts DEF Written
    <3> QED BY <3>2, <3>3, <3>4, <3>5
  <2> QED BY <2>2, <2>3, <2>4
<1>10. CASE Crash
  <2>1. record' = record /\ pos' \in 0..pos /\ phase'["scan"] = "idle"
    BY <1>0, <1>10 DEF Crash, Restart, dbVars
  <2>2. ScanAt' = pos' /\ pos' \in 0..ScanAt /\ ScanAt \in Nat
    BY <1>0, <2>1 DEF ScanAt, Written
  <2>3. Placed(record, pos')
    BY <1>1, <2>2, PlacedDown
  <2> QED BY <1>1, <2>1, <2>2, <2>3, PlacedPrime
<1>11. CASE UNCHANGED vars
  BY <1>3, <1>11 DEF vars, feedVars, dbVars, callVars
<1> QED BY <1>3, <1>4, <1>5, <1>6, <1>7, <1>8, <1>9, <1>10, <1>11 DEF Next

-----------------------------------------------------------------------------
(* Blocks and a replay *)

\* Without the mempool goroutine no version is pending.
LEMMA Confirmed ==
    ASSUME RecordsOK, "mempool" \notin writers
    PROVE  /\ record # NoRecord => ~record.mempool
           /\ \A w \in AllWriters : phase[w] # "idle" => ~next[w].mempool /\ next[w].cur = pin[w]
  BY DEF RecordsOK, NextOK

\* A confirmed version of the k-th pin is as new as any pin up to the k-th.
LEMMA PinPlaced ==
    ASSUME chain \in Chains, NEW r, ~r.mempool, NEW k \in 1..Len(chain), r.cur = chain[k],
           NEW n \in 0..k
    PROVE  Placed(r, n)
<1>1. k \in n..Len(chain) /\ k > 0
  BY ChainFacts
<1> QED BY <1>1 DEF Placed

\* A pin that is ignored although it follows another one names a pin without an entry.
LEMMA IgnoredTarget ==
    ASSUME TypeOK, NEW k \in 2..Len(chain), record # NoRecord, NEW isMempool \in BOOLEAN,
           ProcessPin(Loaded(chain[k]), chain[k], isMempool) = NoRecord
    PROVE  \E t \in 2..(k - 1) : chain[t] \notin mapped
<1>0. chain \in Chains /\ record \in Records /\ Len(chain) \in Nat
  BY ChainFacts DEF TypeOK, FeedTypeOK
<1>1. chain[k] \in Pins /\ Op[chain[k]] # "create" /\ \E t \in 1..(k - 1) : Target[chain[k]] = chain[t]
  BY <1>0, ChainFacts
<1>2. PICK t \in 1..(k - 1) : Target[chain[k]] = chain[t]
  BY <1>1
<1>3. Loaded(chain[k]) # record
  BY <1>0, <1>1, NotIgnored
<1>4. chain[t] # Source /\ chain[t] \notin mapped
  BY <1>1, <1>2, <1>3 DEF Loaded, Resolved
<1>5. t # 1
  BY <1>4 DEF Source
<1> QED BY <1>2, <1>4, <1>5

LEMMA NextReplayPlaced ==
    ASSUME TypeOK, CallOK, Inv, RecordsOK, ScanMapped, ReplayPlaced, [Next]_vars
    PROVE  ReplayPlaced'
<1> SUFFICES ASSUME writers' \subseteq {"scan", "replay"}
             PROVE  /\ ScanFirst' => Placed(record, pos + 1)'
                    /\ LastReplayed' => Placed(record, ScanAt)'
                    /\ ReplayOver' => Placed(record, ScanAt)' \/ Missing'
  BY DEF ReplayPlaced
<1> DEFINE Goal == /\ ScanFirst' => Placed(record, pos + 1)'
                   /\ LastReplayed' => Placed(record, ScanAt)'
                   /\ ReplayOver' => Placed(record, ScanAt)' \/ Missing'
<1>0. /\ chain \in Chains /\ Len(chain) \in Nat /\ Len(chain) > 0
      /\ mined \in 0..Len(chain) /\ pos \in 0..mined /\ replayTo \in 0..mined
      /\ replay \in 1..(Len(chain) + 1)
      /\ ScanAt \in pos..(pos + 1) /\ ScanAt \in 0..Len(chain)
      /\ "scan" \in AllWriters /\ "replay" \in AllWriters
      /\ record \in Records \cup {NoRecord} /\ RecordOK(record)
  BY ChainFacts, ScanAtType DEF TypeOK, FeedTypeOK, AllWriters, RecordsOK
<1>1. /\ chain' = chain /\ writers' = writers /\ writers \subseteq {"scan", "replay"}
      /\ ScanFirst => Placed(record, pos + 1)
      /\ LastReplayed => Placed(record, ScanAt)
      /\ ReplayOver => Placed(record, ScanAt) \/ Missing
  BY SetupFixed DEF ReplayPlaced
<1>2. /\ record # NoRecord => ~record.mempool
      /\ \A w \in AllWriters : phase[w] # "idle" => ~next[w].mempool /\ next[w].cur = pin[w]
  BY <1>1, Confirmed
<1>3. ASSUME UNCHANGED <<record, mapped, pos, replay, replayTo>>, skipped' = skipped,
             Written("scan")' <=> Written("scan"), Written("replay")' <=> Written("replay")
      PROVE  Goal
  <2>1. ScanAt' = ScanAt
    BY <1>3 DEF ScanAt
  <2>2. /\ Placed(record, ScanAt) => Placed(record, ScanAt)'
        /\ Placed(record, pos + 1) => Placed(record, pos + 1)'
    BY <1>1, <1>3, <2>1, PlacedPrime
  <2>3. (ScanFirst' => ScanFirst) /\ (LastReplayed' => LastReplayed) /\ (ReplayOver' => ReplayOver)
    BY <1>1, <1>3 DEF ScanFirst, LastReplayed, ReplayOver
  <2>4. Missing => Missing'
    BY <1>1, <1>3, <2>1 DEF Missing
  <2> QED BY <1>1, <2>2, <2>3, <2>4
<1>4. CASE Mine
  BY <1>3, <1>4 DEF Mine, MineNext, callVars, dbVars, replayVars, Written
<1>5. ASSUME NEW p \in Pins, Poll(p) PROVE Goal
  <2>1. /\ UNCHANGED <<record, mapped, pos, replay, replayTo, phase>> /\ skipped' = skipped
    BY <1>5 DEF Poll, PollMempool, callVars, dbVars, replayVars
  <2> QED BY <1>3, <2>1 DEF Written
<1>6. ASSUME NEW w \in {"scan", "mempool", "backfill"}, NEW p \in Pins, HandlePin(w, p)
      PROVE  Goal
  <2>1. /\ UNCHANGED <<record, mapped, replay, replayTo>> /\ skipped' = skipped /\ w \in AllWriters
        /\ w # "scan" => pos' = pos
        /\ w = "scan" => pos < mined /\ p = chain[pos + 1]
        /\ \/ Begin(w, p) /\ pos' = pos
           \/ /\ phase[w] = "idle" /\ UNCHANGED callVars
              /\ ProcessPin(Loaded(p), p, w = "mempool") = NoRecord
              /\ w = "scan" => pos' = pos + 1
    BY <1>6, OfferedFacts
  <2>2. CASE Begin(w, p) /\ pos' = pos
    <3>1. (Written("scan")' <=> Written("scan")) /\ (Written("replay")' <=> Written("replay"))
      BY <1>0, <2>1, <2>2, BeginFacts DEF Written
    <3> QED BY <1>3, <2>1, <2>2, <3>1
  <2>3. CASE w # "scan" /\ UNCHANGED callVars
    BY <1>3, <2>1, <2>3 DEF callVars, Written
  <2>4. CASE w = "scan" /\ ProcessPin(Loaded(p), p, w = "mempool") = NoRecord /\ phase[w] = "idle"
             /\ pos' = pos + 1 /\ UNCHANGED callVars
    <3>1. PICK isMempool \in BOOLEAN : ~isMempool
      OBVIOUS
    <3>2. pos \in Nat /\ pos < Len(chain)
      BY <1>0, <2>1, <2>4
    <3>3. ProcessPin(Loaded(chain[pos + 1]), chain[pos + 1], isMempool) = NoRecord
      BY <2>1, <2>4, <3>1
    <3>4. pos = 0 /\ record \in Records /\ ~record.mempool
      BY <3>1, <3>2, <3>3, IgnoredFacts DEF ScanMapped
    <3>5. Placed(record, 1)
      <4>1. record.cur \in PinsOf(chain)
        BY <1>0, <3>4, PublishedAssumption DEF RecordOK
      <4>2. PICK i \in 1..Len(chain) : record.cur = chain[i]
        BY <1>0, <4>1, ChainFacts
      <4> QED BY <1>0, <3>4, <4>2, PinPlaced
    <3>6. ScanAt' = 1 /\ phase'["scan"] = "idle"
      BY <2>4, <3>4 DEF ScanAt, Written, callVars
    <3>7. Placed(record, ScanAt)'
      BY <1>1, <2>1, <3>5, <3>6, PlacedPrime
    <3> QED BY <3>6, <3>7 DEF ScanFirst, Written
  <2> QED BY <2>1, <2>2, <2>3, <2>4
<1>7. ASSUME NEW t \in Lookbacks, StartReplay(t) PROVE Goal
  <2>1. /\ replayTo = 0 /\ replayTo' = mined /\ mined \in Nat \ {0} /\ t \in Nat
        /\ replay' \in {FindHeightAtOrAfter(mined, t), 1}
        /\ UNCHANGED <<record, mapped, pos, phase>>
    BY <1>0, <1>7, PublishedAssumption DEF StartReplay, feedVars, callVars, dbVars
  <2>2. replay' <= replayTo' /\ replay' \in Nat
    <3>1. FindHeightAtOrAfter(mined, t) \in 1..mined
      BY <2>1, FindsFirstBlock
    <3> QED BY <2>1, <3>1
  <2>3. phase["replay"] = "idle"
    BY <2>1 DEF Inv, OnlyWritersCall
  <2>4. ~LastReplayed' /\ ~ReplayOver'
    BY <1>0, <2>1, <2>2, <2>3 DEF LastReplayed, ReplayOver, Written
  <2>5. ScanFirst' => ScanFirst
    BY <2>1 DEF ScanFirst, Written
  <2> QED BY <1>1, <2>1, <2>4, <2>5, PlacedPrime
<1>8. CASE ReplayFails
  <2>1. replay <= replayTo /\ skipped' /\ replayTo' = replayTo /\ phase' = phase /\ phase["replay"] = "idle"
    BY <1>8 DEF ReplayFails, AtBlock, callVars
  <2>2. ~ScanFirst' /\ ~LastReplayed' /\ ~ReplayOver'
    BY <1>0, <2>1 DEF ScanFirst, LastReplayed, ReplayOver, Written
  <2> QED BY <2>2
<1>9. CASE ReplayPin
  <2>1. /\ replay <= replayTo /\ phase["replay"] = "idle" /\ UNCHANGED <<record, mapped, pos, replayTo>>
        /\ skipped' = skipped
        /\ \/ Begin("replay", chain[replay]) /\ replay' = replay
           \/ Ignored("replay", chain[replay]) /\ replay' = replay + 1 /\ UNCHANGED callVars
    BY <1>9 DEF ReplayPin, AtBlock, feedVars, dbVars
  <2>2. replay \in 1..Len(chain) /\ chain[replay] \in Pins
    BY <1>0, <2>1, ChainFacts
  <2>3. CASE Begin("replay", chain[replay]) /\ replay' = replay
    <3>1. (Written("scan")' <=> Written("scan")) /\ (Written("replay")' <=> Written("replay"))
      BY <1>0, <2>2, <2>3, BeginFacts DEF Written
    <3> QED BY <1>3, <2>1, <2>3, <3>1
  <2>4. CASE Ignored("replay", chain[replay]) /\ replay' = replay + 1 /\ UNCHANGED callVars
    <3>1. PICK isMempool \in BOOLEAN : ~isMempool
      OBVIOUS
    <3>2. ProcessPin(Loaded(chain[replay]), chain[replay], isMempool) = NoRecord
      BY <2>4, <3>1 DEF Ignored
    <3>3. ScanAt' = ScanAt /\ (Written("scan")' <=> Written("scan")) /\ ~Written("replay")'
      BY <2>1, <2>4 DEF ScanAt, Written, callVars
    <3>4. ~LastReplayed'
      BY <3>3 DEF LastReplayed
    <3>5. ASSUME ScanFirst' PROVE Placed(record, pos + 1)'
      <4>1. /\ Written("scan") /\ ~skipped /\ pos > 0 /\ replay + 1 > pos + 1
            /\ chain[pos + 1] \notin mapped
        BY <1>0, <1>1, <2>1, <2>4, <3>3, <3>5 DEF ScanFirst
      <4>2. replay # pos + 1
        <5> SUFFICES ASSUME replay = pos + 1 PROVE FALSE
          OBVIOUS
        <5>1. pos \in Nat /\ pos < Len(chain)
          BY <1>0, <2>2
        <5> QED BY <3>1, <3>2, <4>1, <5>1, IgnoredFacts DEF ScanMapped
      <4>3. ScanFirst
        BY <1>0, <4>1, <4>2 DEF ScanFirst
      <4> QED BY <1>1, <2>1, <4>3, PlacedPrime
    <3>6. ASSUME ReplayOver' PROVE Placed(record, ScanAt)' \/ Missing'
      <4>1. replay = Len(chain) /\ replayTo = Len(chain) /\ ~skipped
        BY <1>0, <1>1, <2>1, <2>4, <3>6 DEF ReplayOver
      <4>2. CASE record = NoRecord
        BY <2>1, <4>2 DEF Placed
      <4>3. CASE record # NoRecord /\ Len(chain) = 1
        <5>1. record.cur \in PinsOf(chain)
          BY <4>3 DEF RecordsOK, RecordOK
        <5>2. PICK i \in 1..Len(chain) : record.cur = chain[i]
          BY <1>0, <5>1, ChainFacts
        <5>3. ScanAt \in 0..i
          BY <1>0, <4>3
        <5>4. Placed(record, ScanAt)
          BY <1>0, <1>2, <4>3, <5>2, <5>3, PinPlaced
        <5> QED BY <1>1, <2>1, <3>3, <5>4, PlacedPrime
      <4>4. CASE record # NoRecord /\ Len(chain) # 1
        <5>1. replay \in 2..Len(chain)
          BY <1>0, <4>1, <4>4
        <5>2. PICK t \in 2..(replay - 1) : chain[t] \notin mapped
          BY <3>2, <4>4, <5>1, IgnoredTarget
        <5>3. t > pos /\ t \in Nat
          BY <1>0, <5>2 DEF ScanMapped, Held
        <5>4. CASE t > ScanAt
          <6>1. t \in (ScanAt + 1)..Len(chain) /\ t > 1
            BY <1>0, <4>1, <5>2, <5>4
          <6>2. Missing'
            BY <1>1, <2>1, <3>3, <5>2, <6>1 DEF Missing
          <6> QED BY <6>2
        <5>5. CASE ~(t > ScanAt)
          <6>1. ScanAt = pos + 1 /\ t = pos + 1 /\ Written("scan")
            BY <1>0, <5>3, <5>5 DEF ScanAt
          <6>2. ScanFirst
            BY <1>0, <4>1, <5>2, <6>1 DEF ScanFirst
          <6> QED BY <1>1, <2>1, <3>3, <6>1, <6>2, PlacedPrime
        <5> QED BY <5>4, <5>5
      <4> QED BY <4>2, <4>3, <4>4
    <3> QED BY <3>4, <3>5, <3>6
  <2> QED BY <2>1, <2>3, <2>4
<1>10. ASSUME NEW w \in AllWriters, SaveRecord(w) PROVE Goal
  <2>1. phase[w] # "idle" /\ UNCHANGED <<replayTo, skipped>>
    BY <1>10, SaveFacts
  <2>2. w \in {"scan", "replay"}
    BY <1>1, <2>1 DEF Inv, OnlyWritersCall
  <2>3. ~next[w].mempool /\ next[w].cur = pin[w]
    BY <1>2, <2>1
  <2>4. CASE w = "scan"
    <3>0. /\ pin[w] = chain[pos + 1] /\ pos < mined /\ replay' = replay
          /\ Written("replay")' <=> Written("replay")
      BY <1>0, <1>10, <2>1, <2>4, SaveFacts DEF CallOK, Written
    <3>1. pos + 1 \in 1..Len(chain) /\ pos + 1 \in 0..(pos + 1)
      BY <1>0, <3>0
    <3>2. CASE UNCHANGED <<record, mapped, pos>> /\ (Written("scan")' <=> Written("scan"))
      BY <1>3, <2>1, <3>0, <3>2
    <3>3. CASE record' = next[w] /\ pos' = pos /\ phase'[w] = "map"
      <4>1. Placed(next[w], pos + 1)
        BY <1>0, <2>3, <3>0, <3>1, PinPlaced
      <4>2. ScanAt' = pos + 1
        BY <2>4, <3>3 DEF ScanAt, Written
      <4> QED BY <1>1, <3>3, <4>1, <4>2, PlacedPrime
    <3>4. ASSUME record' = record, mapped' \subseteq mapped \cup {chain[pos + 1]}, ScanAt' = ScanAt,
                 ScanAt = pos + 1, ScanFirst' => ScanFirst /\ pos' = pos
          PROVE  Goal
      <4>1. (LastReplayed' => LastReplayed) /\ (ReplayOver' => ReplayOver)
        BY <1>1, <2>1, <3>0 DEF LastReplayed, ReplayOver
      <4>2. ASSUME Missing PROVE Missing'
        <5>1. PICK j \in (ScanAt + 1)..Len(chain) : j > 1 /\ chain[j] \notin mapped
          BY <4>2 DEF Missing
        <5>2. j \in 1..Len(chain) /\ j # pos + 1
          BY <1>0, <3>4, <5>1
        <5>3. chain[j] # chain[pos + 1]
          BY <1>0, <3>1, <5>2, ChainFacts
        <5>4. chain[j] \notin mapped'
          BY <3>4, <5>1, <5>3
        <5> QED BY <1>1, <3>4, <5>1, <5>4 DEF Missing
      <4> QED BY <1>1, <3>4, <4>1, <4>2, PlacedPrime
    <3>5. CASE /\ phase'[w] = "idle" /\ pos' = pos + 1 /\ record' = record /\ phase[w] = "mapPin"
               /\ mapped' = IF Op[pin[w]] = "create" THEN mapped ELSE mapped \cup {pin[w]}
      <4>1. ScanAt' = ScanAt /\ ScanAt = pos + 1 /\ ~ScanFirst'
        BY <2>4, <3>5 DEF ScanAt, ScanFirst, Written
      <4> QED BY <3>0, <3>4, <3>5, <4>1
    <3>6. CASE /\ phase[w] = "map" /\ phase'[w] = "index" /\ record' = record
               /\ mapped' = mapped \cup {next[w].cur} /\ pos' = pos
      <4>1. ScanAt' = ScanAt /\ ScanAt = pos + 1
        BY <2>4, <3>6 DEF ScanAt, Written
      <4>2. ScanFirst' => ScanFirst
        BY <1>1, <2>1, <2>3, <2>4, <3>0, <3>6 DEF ScanFirst, Written
      <4> QED BY <2>3, <3>0, <3>4, <3>6, <4>1, <4>2
    <3> QED BY <1>10, <2>4, <3>2, <3>3, <3>5, <3>6, SaveFacts DEF Written
  <2>5. CASE w = "replay"
    <3>0. /\ pin[w] = chain[replay] /\ replay <= replayTo /\ pos' = pos /\ replayTo # 0
          /\ Written("scan")' <=> Written("scan")
      BY <1>0, <1>10, <2>1, <2>5, SaveFacts DEF CallOK, Written, Inv, OnlyWritersCall
    <3>1. replay \in 1..Len(chain) /\ ScanAt' = ScanAt /\ ~ReplayOver
      BY <1>0, <3>0 DEF ScanAt, ReplayOver
    <3>2. CASE UNCHANGED <<record, mapped, replay>> /\ (Written("replay")' <=> Written("replay"))
      BY <1>3, <2>1, <3>0, <3>2
    <3>3. CASE record' = next[w] /\ replay' = replay /\ mapped' = mapped
      <4>1. ASSUME NEW n \in 0..replay PROVE Placed(next[w], n)
        BY <1>0, <2>3, <3>0, <3>1, PinPlaced
      <4>2. ASSUME ScanFirst' PROVE Placed(record, pos + 1)'
        <5>1. pos + 1 \in 0..replay
          BY <1>0, <2>1, <3>0, <3>3, <4>2 DEF ScanFirst
        <5> QED BY <1>1, <3>0, <3>3, <4>1, <5>1, PlacedPrime
      <4>3. ASSUME LastReplayed' PROVE Placed(record, ScanAt)'
        <5>1. ScanAt \in 0..replay
          BY <1>0, <1>1, <2>1, <3>3, <4>3 DEF LastReplayed
        <5> QED BY <1>1, <3>1, <3>3, <4>1, <5>1, PlacedPrime
      <4>4. ~ReplayOver'
        BY <1>0, <1>1, <2>1, <3>0, <3>3 DEF ReplayOver
      <4> QED BY <4>2, <4>3, <4>4
    <3>4. CASE /\ phase[w] = "map" /\ phase'[w] = "index" /\ record' = record /\ replay' = replay
               /\ mapped' = mapped \cup {next[w].cur}
      <4>1. (ScanFirst' => ScanFirst) /\ (LastReplayed' => LastReplayed) /\ ~ReplayOver'
        BY <1>0, <1>1, <2>1, <2>5, <3>0, <3>4 DEF ScanFirst, LastReplayed, ReplayOver, Written
      <4> QED BY <1>1, <3>0, <3>1, <3>4, <4>1, PlacedPrime
    <3>5. CASE /\ phase'[w] = "idle" /\ replay' = replay + 1 /\ record' = record /\ phase[w] = "mapPin"
               /\ mapped' = IF Op[pin[w]] = "create" THEN mapped ELSE mapped \cup {pin[w]}
      <4>1. ~LastReplayed'
        BY <2>5, <3>5 DEF LastReplayed, Written
      <4>2. ASSUME ScanFirst' PROVE ScanFirst
        <5>1. /\ Written("scan") /\ ~skipped /\ pos > 0 /\ replay + 1 > pos + 1
              /\ chain[pos + 1] \notin mapped'
          BY <1>0, <1>1, <2>1, <3>0, <3>5, <4>2 DEF ScanFirst
        <5>2. replay # pos + 1
          <6> SUFFICES ASSUME replay = pos + 1 PROVE FALSE
            OBVIOUS
          <6>1. replay \in 2..Len(chain)
            BY <1>0, <3>1, <5>1
          <6>2. Op[chain[replay]] # "create"
            BY <1>0, <6>1, ChainFacts
          <6> QED BY <3>0, <3>5, <5>1, <6>2
        <5>3. replay > pos + 1 /\ chain[pos + 1] \notin mapped
          BY <1>0, <3>5, <5>1, <5>2
        <5> QED BY <5>1, <5>3 DEF ScanFirst
      <4>3. ASSUME ReplayOver' PROVE LastReplayed
        BY <1>0, <1>1, <2>1, <2>5, <3>0, <3>5, <4>3 DEF ReplayOver, LastReplayed, Written
      <4> QED BY <1>1, <3>0, <3>1, <3>5, <4>1, <4>2, <4>3, PlacedPrime
    <3> QED BY <1>10, <2>5, <3>2, <3>3, <3>4, <3>5, SaveFacts DEF Written
  <2> QED BY <2>2, <2>4, <2>5
<1>11. CASE Crash
  <2>1. replayTo' = 0 /\ \A w \in AllWriters : phase'[w] = "idle"
    BY <1>11 DEF Crash
  <2>2. ~ScanFirst' /\ ~LastReplayed' /\ ~ReplayOver'
    BY <1>0, <1>1, <2>1 DEF ScanFirst, LastReplayed, ReplayOver, Written
  <2> QED BY <2>2
<1>12. CASE UNCHANGED vars
  BY <1>3, <1>12 DEF vars, feedVars, dbVars, callVars, replayVars, Written
<1> QED BY <1>4, <1>5, <1>6, <1>7, <1>8, <1>9, <1>10, <1>11, <1>12 DEF Next

-----------------------------------------------------------------------------
(* One goroutine *)

LEMMA FoldedStart ==
    ASSUME chain \in Chains, NEW r, RecordOK(r), NEW n \in 0..1
    PROVE  Folded(r, n)
<1> SUFFICES ASSUME r # NoRecord
             PROVE  /\ \E m \in n..Len(chain) : m > 0 /\ r.cur = chain[m]
                    /\ \E m \in n..Len(chain) : m > 0 /\ HiddenAt(m, r.hidden)
                    /\ \E m \in n..Len(chain) : m > 0 /\ PayloadAt(m, r.payload)
  BY DEF Folded
<1>0. Len(chain) \in Nat /\ Len(chain) > 0
  BY ChainFacts
<1>1. \A m \in 1..Len(chain) : m \in n..Len(chain) /\ m > 0
  BY <1>0
<1>2. \E m \in 1..Len(chain) : r.cur = chain[m]
  BY ChainFacts DEF RecordOK
<1>3. \E m \in 1..Len(chain) : HiddenAt(m, r.hidden)
  <2>1. CASE r.hidden
    BY <1>0, <2>1 DEF RecordOK, Revoked, HiddenAt
  <2>2. CASE ~r.hidden
    <3>1. HiddenAt(1, r.hidden)
      BY <2>2, ChainFacts DEF HiddenAt
    <3> QED BY <1>0, <3>1
  <2> QED BY <2>1, <2>2
<1>4. \E m \in 1..Len(chain) : PayloadAt(m, r.payload)
  <2>1. CASE r.payload = NoPin
    <3>1. PayloadAt(1, r.payload)
      BY <2>1 DEF RecordOK, PayloadAt, Source
    <3> QED BY <1>0, <3>1
  <2>2. CASE r.payload # NoPin
    <3>1. r.payload \in PinsOf(chain) /\ HasContent(r.payload)
      BY <2>2 DEF RecordOK
    <3>2. PICK i \in 1..Len(chain) : r.payload = chain[i]
      BY <3>1, ChainFacts
    <3>3. PayloadAt(i, r.payload)
      <4>1. i \in 1..i /\ (i + 1)..i = {}
        BY <3>2
      <4> QED BY <3>1, <3>2, <4>1 DEF PayloadAt
    <3> QED BY <3>2, <3>3
  <2> QED BY <2>1, <2>2
<1> QED BY <1>1, <1>2, <1>3, <1>4

LEMMA FoldedPrime ==
    ASSUME chain' = chain, NEW r, NEW n, Folded(r, n), NEW w
    PROVE  /\ record' = r /\ At(w)' = n => Folded(record, At(w))'
           /\ next'[w] = r /\ Passed(w)' + 1 = n => Folded(next[w], Passed(w) + 1)'
  BY DEF Folded, HiddenAt, PayloadAt, HasContent

\* A confirmed version that follows the first n pins follows the first n + 1.
LEMMA FoldedNext ==
    ASSUME TypeOK, NEW n \in Nat \ {0}, n < Len(chain), Folded(record, n), RecordOK(record),
           record # NoRecord, ~record.mempool, NEW isMempool \in BOOLEAN, ~isMempool,
           NEW new, new = ProcessPin(record, chain[n + 1], isMempool), new # NoRecord
    PROVE  Folded(new, n + 1)
<1>0. chain \in Chains /\ record \in Records /\ Len(chain) \in Nat
  BY ChainFacts DEF TypeOK, FeedTypeOK
<1> DEFINE p == chain[n + 1]
<1>1. p \in Pins /\ p \in PinsOf(chain) /\ Op[p] # "create"
  BY <1>0, ChainFacts
<1>2. /\ new.hidden <=> record.hidden \/ Op[p] = "revoke"
      /\ new.payload = IF HasContent(p) THEN p ELSE record.payload
  BY <1>0, <1>1, ConfirmedFacts
<1>3. new.cur = p
  BY <1>0, <1>1, ProcessFacts
<1>4. \E m \in (n + 1)..Len(chain) : m > 0 /\ HiddenAt(m, new.hidden)
  <2>1. PICK m \in n..Len(chain) : m > 0 /\ HiddenAt(m, record.hidden)
    BY DEF Folded
  <2>2. CASE m = n
    <3>1. HiddenAt(n + 1, new.hidden)
      <4>1. \A i \in 1..(n + 1) : i \in 1..n \/ i = n + 1
        OBVIOUS
      <4>2. \A i \in 1..n : i \in 1..(n + 1)
        OBVIOUS
      <4>3. n + 1 \in 1..(n + 1)
        OBVIOUS
      <4> QED BY <1>2, <2>1, <2>2, <4>1, <4>2, <4>3 DEF HiddenAt
    <3> QED BY <1>0, <3>1
  <2>3. CASE m # n
    <3>1. m \in (n + 1)..Len(chain) /\ n + 1 \in 1..m
      BY <1>0, <2>1, <2>3
    <3>2. new.hidden <=> record.hidden
      BY <1>2, <2>1, <3>1 DEF HiddenAt
    <3> QED BY <2>1, <3>1, <3>2 DEF HiddenAt
  <2> QED BY <2>2, <2>3
<1>5. \E m \in (n + 1)..Len(chain) : m > 0 /\ PayloadAt(m, new.payload)
  <2>1. PICK m \in n..Len(chain) : m > 0 /\ PayloadAt(m, record.payload)
    BY DEF Folded
  <2>2. CASE HasContent(p)
    <3>1. n + 1 \in 1..(n + 1) /\ ((n + 1) + 1)..(n + 1) = {}
      OBVIOUS
    <3>2. PayloadAt(n + 1, new.payload)
      BY <1>2, <2>2, <3>1 DEF PayloadAt
    <3> QED BY <1>0, <3>2
  <2>3. CASE ~HasContent(p) /\ m # n
    <3>1. m \in (n + 1)..Len(chain)
      BY <1>0, <2>1, <2>3
    <3> QED BY <1>2, <2>1, <2>3, <3>1
  <2>4. CASE ~HasContent(p) /\ m = n
    <3>1. \A i \in 1..(n + 1) : i \in 1..n \/ i = n + 1
      OBVIOUS
    <3>2. \A i \in 1..n : i \in 1..(n + 1) /\ \A j \in (i + 1)..(n + 1) : j \in (i + 1)..n \/ j = n + 1
      OBVIOUS
    <3>3. PayloadAt(n, record.payload) /\ new.payload = record.payload
      BY <1>2, <2>1, <2>4
    <3>4. PayloadAt(n + 1, new.payload)
      BY <2>4, <3>1, <3>2, <3>3 DEF PayloadAt
    <3> QED BY <1>0, <3>4
  <2> QED BY <2>2, <2>3, <2>4
<1>6. n + 1 \in (n + 1)..Len(chain) /\ n + 1 > 0
  BY <1>0
<1> QED BY <1>3, <1>4, <1>5, <1>6 DEF Folded

LEMMA FoldedDown ==
    ASSUME NEW r, NEW n \in Nat, NEW k \in 0..n, Folded(r, n)
    PROVE  Folded(r, k)
<1>1. ASSUME NEW m \in n..Len(chain) PROVE m \in k..Len(chain)
  OBVIOUS
<1> QED BY <1>1 DEF Folded

LEMMA PassedType ==
    ASSUME TypeOK, NEW w \in {"scan", "replay"}
    PROVE  Passed(w) \in 0..Len(chain)
<1>1. Len(chain) \in Nat /\ mined \in 0..Len(chain) /\ pos \in 0..mined /\ replay \in 1..(Len(chain) + 1)
  BY ChainFacts DEF TypeOK, FeedTypeOK
<1> QED BY <1>1 DEF Passed

\* A replay that goes back before the first block begins there.
LEMMA WholeFromFirst ==
    ASSUME TypeOK, mined > 0, NEW t \in Nat, \A i \in 1..Len(chain) : t <= MinedAt[chain[i]]
    PROVE  FindHeightAtOrAfter(mined, t) = 1
<1>1. Len(chain) \in Nat /\ mined \in 1..Len(chain) /\ mined \in Nat \ {0}
  BY ChainFacts DEF TypeOK, FeedTypeOK
<1> DEFINE h == FindHeightAtOrAfter(mined, t)
<1>2. \A i \in 1..mined : AtOrAfter(i, t)
  <2>1. \A i \in 1..mined : i \in 1..Len(chain) /\ chain[i] \in Pins
    BY <1>1, ChainFacts DEF TypeOK, FeedTypeOK
  <2>2. \A i \in 1..mined : MinedAt[chain[i]] \in Nat
    BY <2>1, PublishedAssumption
  <2> QED BY <2>1, <2>2 DEF AtOrAfter
<1>3. Sorted(mined, t)
  BY <1>2 DEF Sorted
<1>4. h \in 1..mined /\ IsFirst(h, mined, t)
  BY <1>1, <1>3, FindsFirstBlock
<1> HIDE DEF h
<1>5. ASSUME h # 1 PROVE FALSE
  <2>1. 1 \in 1..(h - 1) /\ 1 \in 1..mined
    BY <1>1, <1>4, <1>5
  <2> QED BY <1>2, <1>4, <2>1 DEF IsFirst
<1> QED BY <1>5 DEF h

LEMMA NextAlone ==
    ASSUME TypeOK, CallOK, Inv, RecordsOK, AloneOK, [Next]_vars
    PROVE  AloneOK'
<1> SUFFICES ASSUME NEW w \in {"scan", "replay"}, writers' = {w}, Whole(w)'
             PROVE  /\ Held(Passed(w))' /\ Folded(record, At(w))'
                    /\ phase'[w] # "idle" => Folded(next[w], Passed(w) + 1)'
  BY DEF AloneOK
<1> DEFINE Goal == /\ Held(Passed(w))' /\ Folded(record, At(w))'
                   /\ phase'[w] # "idle" => Folded(next[w], Passed(w) + 1)'
           n == Passed(w)
<1>0. /\ chain \in Chains /\ Len(chain) \in Nat /\ Len(chain) > 0 /\ n \in 0..Len(chain)
      /\ mined \in 0..Len(chain) /\ pos \in 0..mined /\ replayTo \in 0..mined
      /\ replay \in 1..(Len(chain) + 1)
      /\ w \in AllWriters /\ record \in Records \cup {NoRecord} /\ RecordOK(record)
  BY ChainFacts, PassedType DEF TypeOK, FeedTypeOK, AllWriters, RecordsOK
<1>1. chain' = chain /\ writers = {w}
  BY SetupFixed
<1>2. /\ record # NoRecord => ~record.mempool
      /\ \A v \in AllWriters : phase[v] # "idle" => v = w
  BY <1>1, Confirmed DEF Inv, OnlyWritersCall
<1>3. ASSUME record' = record, phase'[w] = "idle", Passed(w)' = 0 PROVE Goal
  <2>1. Folded(record, 0)
    BY <1>0, FoldedStart
  <2>2. At(w)' = 0
    BY <1>3 DEF At, Written
  <2>3. Folded(record, At(w))'
    BY <1>1, <1>3, <2>1, <2>2, FoldedPrime
  <2>4. Held(Passed(w))'
    BY <1>3 DEF Held
  <2> QED BY <1>3, <2>3, <2>4
<1>4. ASSUME w = "replay" => since' = since /\ skipped' = skipped
      PROVE  /\ Held(n) /\ Folded(record, At(w))
             /\ phase[w] # "idle" => Folded(next[w], n + 1)
  <2>1. Whole(w)
    BY <1>1, <1>4 DEF Whole
  <2> QED BY <1>1, <2>1 DEF AloneOK
<1>5. ASSUME UNCHANGED <<record, mapped, since>>, skipped' = skipped, Passed(w)' = n,
             phase'[w] = phase[w], next'[w] = next[w]
      PROVE  Goal
  <2>1. At(w)' = At(w)
    BY <1>5 DEF At, Written
  <2>2. Held(Passed(w))'
    BY <1>1, <1>4, <1>5 DEF Held
  <2> QED BY <1>1, <1>4, <1>5, <2>1, <2>2, FoldedPrime
<1>6. ASSUME Begin(w, chain[n + 1]), n < Len(chain), Passed(w)' = n,
             UNCHANGED <<record, mapped, since>>, skipped' = skipped
      PROVE  Goal
  <2>0. chain[n + 1] \in PinsOf(chain) /\ chain[n + 1] \in Pins
    BY <1>0, <1>6, ChainFacts
  <2>1. PICK isMempool \in BOOLEAN : ~isMempool
    OBVIOUS
  <2>2. /\ phase[w] = "idle" /\ phase'[w] = "delete" /\ next'[w] # NoRecord
        /\ next'[w] = ProcessPin(record, chain[n + 1], isMempool)
    <3>1. w # "mempool"
      OBVIOUS
    <3>2. /\ phase[w] = "idle" /\ phase'[w] = "delete" /\ next'[w] # NoRecord
          /\ next'[w] = ProcessPin(record, chain[n + 1], w = "mempool")
      BY <1>0, <1>6, <2>0, BeginFacts
    <3> QED BY <2>1, <3>1, <3>2
  <2>3. PICK new : new = next'[w]
    OBVIOUS
  <2>4. Folded(new, n + 1)
    <3>1. CASE n = 0
      <4>1. RecordOK(new)
        BY <1>0, <2>0, <2>2, <2>3, ProcessFacts
      <4> QED BY <1>0, <3>1, <4>1, FoldedStart
    <3>2. CASE n # 0
      <4>1. n \in Nat \ {0} /\ record # NoRecord
        BY <1>0, <1>4, <1>6, <3>2 DEF Held
      <4>2. Folded(record, n)
        BY <1>4, <1>6, <2>2 DEF At, Written
      <4> QED BY <1>0, <1>2, <1>6, <2>1, <2>2, <2>3, <4>1, <4>2, FoldedNext
    <3> QED BY <3>1, <3>2
  <2>5. At(w)' = At(w)
    BY <1>6, <2>2 DEF At, Written
  <2>6. Held(Passed(w))'
    BY <1>1, <1>4, <1>6 DEF Held
  <2>7. Folded(next[w], Passed(w) + 1)'
    BY <1>1, <1>6, <2>3, <2>4, FoldedPrime
  <2> QED BY <1>1, <1>4, <1>6, <2>5, <2>6, <2>7, FoldedPrime
<1>7. ASSUME ProcessPin(Loaded(chain[n + 1]), chain[n + 1], w = "mempool") = NoRecord, n < Len(chain),
             Passed(w)' = n + 1, phase'[w] = "idle",
             UNCHANGED <<record, mapped, since>>, skipped' = skipped
      PROVE  Goal
  <2>1. PICK isMempool \in BOOLEAN : ~isMempool
    OBVIOUS
  <2>2. ProcessPin(Loaded(chain[n + 1]), chain[n + 1], isMempool) = NoRecord
    BY <1>7, <2>1
  <2>3. n \in Nat /\ Held(n)
    BY <1>0, <1>4, <1>7
  <2>4. n = 0 /\ record \in Records
    BY <1>7, <2>1, <2>2, <2>3, IgnoredFacts
  <2>5. Folded(record, 1)
    BY <1>0, FoldedStart
  <2>6. At(w)' = 1 /\ Passed(w)' = 1
    BY <1>7, <2>4 DEF At, Written
  <2>7. Held(Passed(w))'
    BY <1>7, <2>4, <2>6, PublishedAssumption DEF Held
  <2> QED BY <1>1, <1>7, <2>5, <2>6, <2>7, FoldedPrime
<1>8. CASE Mine
  BY <1>5, <1>8 DEF Mine, MineNext, callVars, dbVars, replayVars, Passed
<1>9. ASSUME NEW p \in Pins, Poll(p) PROVE Goal
  <2>1. UNCHANGED <<record, mapped, since, phase, next, pos, replay>> /\ skipped' = skipped
    BY <1>9 DEF Poll, PollMempool, callVars, dbVars, replayVars
  <2> QED BY <1>5, <2>1 DEF Passed
<1>10. ASSUME NEW v \in {"scan", "mempool", "backfill"}, NEW p \in Pins, HandlePin(v, p)
       PROVE  Goal
  <2>1. /\ UNCHANGED <<record, mapped, replay, replayTo, since>> /\ skipped' = skipped
        /\ v = "scan" => "scan" \in writers /\ pos < mined /\ p = chain[pos + 1]
        /\ v = "mempool" => p \in queue
        /\ v = "backfill" => backfill > 0
        /\ \/ Begin(v, p) /\ pos' = pos
           \/ /\ phase[v] = "idle" /\ UNCHANGED callVars
              /\ ProcessPin(Loaded(p), p, v = "mempool") = NoRecord
              /\ v = "scan" => pos' = pos + 1
    BY <1>10, OfferedFacts
  <2>2. v = "scan" /\ w = "scan"
    BY <1>1, <2>1 DEF Inv, OnlyWritersCall
  <2>3. n = pos /\ n < Len(chain) /\ Passed(w)' = pos'
    BY <1>0, <2>1, <2>2 DEF Passed
  <2>4. CASE Begin(v, p) /\ pos' = pos
    BY <1>6, <2>1, <2>2, <2>3, <2>4
  <2>5. CASE phase[v] = "idle" /\ UNCHANGED callVars /\ pos' = pos + 1
             /\ ProcessPin(Loaded(p), p, v = "mempool") = NoRecord
    BY <1>7, <2>1, <2>2, <2>3, <2>5 DEF callVars
  <2> QED BY <2>1, <2>2, <2>4, <2>5
<1>11. ASSUME NEW t \in Lookbacks, StartReplay(t) PROVE Goal
  <2>1. /\ "replay" \in writers /\ replayTo = 0 /\ mined > 0 /\ t \in Nat /\ since' = t
        /\ replay' \in {FindHeightAtOrAfter(mined, t), 1}
        /\ UNCHANGED <<record, phase>>
    BY <1>11, PublishedAssumption DEF StartReplay, callVars, dbVars
  <2>2. w = "replay" /\ phase["replay"] = "idle"
    BY <1>1, <2>1 DEF Inv, OnlyWritersCall
  <2>3. replay' = 1
    BY <1>1, <2>1, <2>2, WholeFromFirst DEF Whole
  <2> QED BY <1>3, <2>1, <2>2, <2>3 DEF Passed
<1>12. CASE ReplayFails
  <2>1. replayTo # 0 /\ skipped'
    BY <1>0, <1>12 DEF ReplayFails, AtBlock
  <2>2. w = "replay"
    BY <1>1, <2>1 DEF Inv, OnlyWritersCall
  <2> QED BY <2>1, <2>2 DEF Whole
<1>13. CASE ReplayPin
  <2>1. /\ replay <= replayTo /\ UNCHANGED <<record, mapped, replayTo, since>> /\ skipped' = skipped
        /\ phase["replay"] = "idle"
        /\ \/ Begin("replay", chain[replay]) /\ replay' = replay
           \/ Ignored("replay", chain[replay]) /\ replay' = replay + 1 /\ UNCHANGED callVars
    BY <1>13 DEF ReplayPin, AtBlock, feedVars, dbVars
  <2>2. w = "replay"
    BY <1>0, <1>1, <2>1 DEF Inv, OnlyWritersCall
  <2>3. n + 1 = replay /\ n < Len(chain) /\ Passed(w)' = replay' - 1
    BY <1>0, <2>1, <2>2 DEF Passed
  <2>4. CASE Begin("replay", chain[replay]) /\ replay' = replay
    <3>1. Passed(w)' = n
      BY <1>0, <2>3, <2>4
    <3> QED BY <1>6, <2>1, <2>2, <2>3, <2>4, <3>1
  <2>5. CASE Ignored("replay", chain[replay]) /\ replay' = replay + 1 /\ UNCHANGED callVars
    <3>1. Passed(w)' = n + 1
      BY <1>0, <2>3, <2>5
    <3> QED BY <1>7, <2>1, <2>2, <2>3, <2>5, <3>1 DEF Ignored, callVars
  <2> QED BY <2>1, <2>4, <2>5
<1>14. ASSUME NEW v \in AllWriters, SaveRecord(v) PROVE Goal
  <2>1. phase[v] # "idle" /\ UNCHANGED <<since, skipped>>
    BY <1>14, SaveFacts
  <2>2. v = w
    BY <1>2, <2>1
  <2>3. Held(n) /\ Folded(record, At(w)) /\ Folded(next[w], n + 1)
    BY <1>4, <2>1, <2>2
  <2>4. pin[w] = chain[n + 1] /\ n < Len(chain) /\ next[w] # NoRecord
    BY <1>0, <2>1, <2>2 DEF CallOK, Passed
  <2>5. CASE /\ phase'[w] = "idle" /\ record' = record /\ phase[w] = "mapPin"
             /\ w = "scan" => pos' = pos + 1
             /\ w = "replay" => replay' = replay + 1
             /\ mapped' = IF Op[pin[w]] = "create" THEN mapped ELSE mapped \cup {pin[w]}
    <3>1. Passed(w)' = n + 1
      BY <1>0, <2>5 DEF Passed
    <3>2. At(w)' = At(w)
      BY <2>5, <3>1 DEF At, Written
    <3>3. record # NoRecord
      BY <1>0, <2>5 DEF CallOK, Written
    <3>4. ASSUME NEW j \in 2..(n + 1) PROVE chain[j] \in mapped'
      <4>1. CASE j = n + 1
        <5>1. Op[chain[j]] # "create"
          BY <1>0, <2>4, <4>1, ChainFacts
        <5> QED BY <2>4, <2>5, <4>1, <5>1
      <4>2. CASE j # n + 1
        <5>1. j \in 2..n
          BY <1>0, <4>2
        <5> QED BY <2>3, <2>5, <5>1 DEF Held
      <4> QED BY <4>1, <4>2
    <3>5. Held(Passed(w))'
      BY <1>1, <2>5, <3>1, <3>3, <3>4 DEF Held
    <3> QED BY <1>1, <2>3, <2>5, <3>2, <3>5, FoldedPrime
  <2>6. CASE /\ phase'[w] # "idle" /\ UNCHANGED <<next, pos, replay>> /\ mapped \subseteq mapped'
             /\ \/ record' = record /\ (Written(w)' <=> Written(w))
                \/ record' = next[w] /\ phase'[w] = "map"
    <3>1. Passed(w)' = n
      BY <2>6 DEF Passed
    <3>2. Held(Passed(w))'
      BY <1>1, <2>3, <2>4, <2>6, <3>1 DEF Held
    <3>3. Folded(next[w], Passed(w) + 1)'
      BY <1>1, <2>3, <2>6, <3>1, FoldedPrime
    <3>4. CASE record' = record /\ (Written(w)' <=> Written(w))
      <4>1. At(w)' = At(w)
        BY <3>1, <3>4 DEF At
      <4> QED BY <1>1, <2>3, <3>2, <3>3, <3>4, <4>1, FoldedPrime
    <3>5. CASE record' = next[w] /\ phase'[w] = "map"
      <4>1. At(w)' = n + 1
        BY <3>1, <3>5 DEF At, Written
      <4> QED BY <1>1, <2>3, <3>2, <3>3, <3>5, <4>1, FoldedPrime
    <3> QED BY <2>6, <3>4, <3>5
  <2> QED BY <1>14, <2>2, <2>5, <2>6, SaveFacts DEF Written
<1>15. CASE Crash
  <2>1. /\ record' = record /\ mapped' = mapped /\ pos' \in 0..pos /\ replay' = 1
        /\ phase'[w] = "idle"
    BY <1>0, <1>15 DEF Crash, Restart, dbVars
  <2>2. CASE w = "replay"
    BY <1>3, <2>1, <2>2 DEF Passed
  <2>3. CASE w = "scan"
    <3>1. Held(n) /\ Folded(record, At(w)) /\ n = pos
      BY <1>4, <2>3 DEF Passed
    <3>2. Passed(w)' = pos' /\ At(w)' = pos' /\ pos' \in 0..At(w) /\ At(w) \in Nat
      BY <1>0, <2>1, <2>3, <3>1 DEF Passed, At, Written
    <3>3. Folded(record, pos')
      BY <3>1, <3>2, FoldedDown
    <3>4. Held(Passed(w))'
      BY <1>0, <1>1, <2>1, <3>1, <3>2 DEF Held
    <3> QED BY <1>1, <2>1, <3>2, <3>3, <3>4, FoldedPrime
  <2> QED BY <2>2, <2>3
<1>16. CASE UNCHANGED vars
  BY <1>5, <1>16 DEF vars, feedVars, dbVars, callVars, replayVars, Passed
<1> QED BY <1>8, <1>9, <1>10, <1>11, <1>12, <1>13, <1>14, <1>15, <1>16 DEF Next

-----------------------------------------------------------------------------
(* What the readers find *)

\* Between two calls and before a crash, with any goroutines: the record has an
\* index entry under its present sort key and is found by its current pin.
RecordIsFound ==
    (\A w \in AllWriters : phase[w] = "idle") /\ crashes = 0 /\ record # NoRecord =>
        SortTimestamp(record) \in index /\ Resolved(record.cur) = record

\* A call is about to replace the record, or to list the one that it has written.
ListPending ==
    \E w \in AllWriters :
        \/ phase[w] = "record"
        \/ phase[w] \in {"map", "index"} /\ SortTimestamp(next[w]) = SortTimestamp(record)

MapPending == \E w \in AllWriters : phase[w] = "map" /\ next[w].cur = record.cur

ReadsOK ==
    crashes = 0 /\ record # NoRecord =>
        /\ SortTimestamp(record) \in index \/ ListPending
        /\ record.cur \in mapped \/ MapPending

\* What the pending calls are does not change when only idle goroutines move.
LEMMA KeepReads ==
    ASSUME ReadsOK, UNCHANGED <<record, index, mapped, crashes>>,
           \A w \in AllWriters : phase[w] # "idle" => phase'[w] = phase[w] /\ next'[w] = next[w]
    PROVE  ReadsOK'
<1> SUFFICES ASSUME crashes = 0, record # NoRecord
             PROVE  /\ SortTimestamp(record) \in index \/ ListPending'
                    /\ record.cur \in mapped \/ MapPending'
  BY DEF ReadsOK, SortTimestamp
<1>1. ListPending => ListPending'
  BY DEF ListPending, SortTimestamp
<1>2. MapPending => MapPending'
  BY DEF MapPending
<1> QED BY <1>1, <1>2 DEF ReadsOK

LEMMA SaveReads ==
    ASSUME TypeOK, ReadsOK, NEW w \in AllWriters, SaveRecord(w)
    PROVE  ReadsOK'
<1>0. /\ \A v \in AllWriters : v # w => phase'[v] = phase[v] /\ next'[v] = next[v]
      /\ phase \in [AllWriters -> Phases]
  BY SaveFacts DEF TypeOK, Phases
<1>1. CASE DeleteIdentityIndexes(w)
  <2>1. phase'[w] = "record" /\ UNCHANGED <<record, mapped, next, crashes>> /\ phase[w] = "delete"
    BY <1>0, <1>1 DEF DeleteIdentityIndexes, feedVars
  <2>2. ListPending'
    BY <2>1 DEF ListPending
  <2>3. MapPending => MapPending'
    BY <1>0, <2>1 DEF MapPending
  <2> QED BY <2>1, <2>2, <2>3 DEF ReadsOK
<1>2. CASE WriteRecord(w)
  <2>1. phase'[w] = "map" /\ record' = next[w] /\ next' = next
    BY <1>0, <1>2 DEF WriteRecord
  <2>2. ListPending' /\ MapPending'
    BY <2>1 DEF ListPending, MapPending, SortTimestamp
  <2> QED BY <2>2 DEF ReadsOK
<1>3. CASE MapPinToSource(w)
  <2>1. /\ phase[w] = "map" /\ phase'[w] = "index" /\ mapped' = mapped \cup {next[w].cur}
        /\ UNCHANGED <<record, index, next, crashes>>
    BY <1>0, <1>3 DEF MapPinToSource, feedVars
  <2>2. ListPending => ListPending'
    BY <1>0, <2>1 DEF ListPending, SortTimestamp
  <2>3. MapPending => MapPending' \/ record.cur \in mapped'
    BY <1>0, <2>1 DEF MapPending
  <2> QED BY <2>1, <2>2, <2>3 DEF ReadsOK, SortTimestamp
<1>4. CASE WriteIdentityIndexes(w)
  <2>1. /\ phase[w] = "index" /\ phase'[w] = "mapPin" /\ index' = index \cup {SortTimestamp(next[w])}
        /\ UNCHANGED <<record, mapped, next, crashes>>
    BY <1>0, <1>4 DEF WriteIdentityIndexes, feedVars
  <2>2. ListPending => ListPending' \/ SortTimestamp(record) \in index'
    BY <1>0, <2>1 DEF ListPending, SortTimestamp
  <2>3. MapPending => MapPending'
    BY <1>0, <2>1 DEF MapPending
  <2> QED BY <2>1, <2>2, <2>3 DEF ReadsOK, SortTimestamp
<1>5. CASE Return(w)
  <2>1. /\ phase[w] = "mapPin" /\ mapped \subseteq mapped' /\ UNCHANGED <<record, index, crashes>>
    BY <1>5 DEF Return, Done
  <2>2. ListPending => ListPending'
    BY <1>0, <2>1 DEF ListPending, SortTimestamp
  <2>3. MapPending => MapPending'
    BY <1>0, <2>1 DEF MapPending
  <2> QED BY <2>1, <2>2, <2>3 DEF ReadsOK, SortTimestamp
<1> QED BY <1>1, <1>2, <1>3, <1>4, <1>5 DEF SaveRecord

LEMMA BeginKeeps ==
    ASSUME TypeOK, NEW w \in AllWriters, NEW p, Begin(w, p)
    PROVE  \A v \in AllWriters : phase[v] # "idle" => phase'[v] = phase[v] /\ next'[v] = next[v]
  BY DEF Begin, TypeOK

LEMMA NextReads ==
    ASSUME TypeOK, ReadsOK, [Next]_vars
    PROVE  ReadsOK'
<1>1. CASE Mine
  BY <1>1, KeepReads DEF Mine, MineNext, dbVars, callVars
<1>2. ASSUME NEW p \in Pins, Poll(p) PROVE ReadsOK'
  BY <1>2, KeepReads DEF Poll, PollMempool, dbVars, callVars
<1>3. ASSUME NEW w \in {"scan", "mempool", "backfill"}, NEW p \in Pins, HandlePin(w, p)
      PROVE  ReadsOK'
  <2>1. w \in AllWriters /\ UNCHANGED <<record, index, mapped, crashes>>
    BY <1>3 DEF HandlePin, Take, Pass, dbVars, AllWriters
  <2>2. Begin(w, p) \/ UNCHANGED callVars
    BY <1>3 DEF HandlePin
  <2> QED BY <2>1, <2>2, BeginKeeps, KeepReads DEF callVars
<1>4. ASSUME NEW t \in Lookbacks, StartReplay(t) PROVE ReadsOK'
  BY <1>4, KeepReads DEF StartReplay, feedVars, dbVars, callVars
<1>5. CASE ReplayFails
  BY <1>5, KeepReads DEF ReplayFails, feedVars, dbVars, callVars
<1>6. CASE ReplayPin
  <2>1. "replay" \in AllWriters /\ UNCHANGED <<record, index, mapped, crashes>>
    BY <1>6 DEF ReplayPin, feedVars, dbVars, AllWriters
  <2>2. Begin("replay", chain[replay]) \/ UNCHANGED callVars
    BY <1>6 DEF ReplayPin
  <2> QED BY <2>1, <2>2, BeginKeeps, KeepReads DEF callVars
<1>7. ASSUME NEW w \in AllWriters, SaveRecord(w) PROVE ReadsOK'
  BY <1>7, SaveReads
<1>8. CASE Crash
  <2>1. crashes' # 0
    BY <1>8, FeedAssumption DEF Crash, Restart, TypeOK, FeedTypeOK
  <2> QED BY <2>1 DEF ReadsOK
<1>9. CASE UNCHANGED vars
  BY <1>9, KeepReads DEF vars, feedVars, dbVars, callVars
<1> QED BY <1>1, <1>2, <1>3, <1>4, <1>5, <1>6, <1>7, <1>8, <1>9 DEF Next

-----------------------------------------------------------------------------
(* The theorems *)

FullInv == Inv /\ FoldInv

LEMMA InitFull == Init => FullInv
<1> SUFFICES ASSUME Init PROVE FullInv
  OBVIOUS
<1>1. Inv /\ TypeOK
  BY InitInv, InitType
<1>2. /\ \A w \in AllWriters : phase[w] = "idle" /\ next[w] = NoRecord
      /\ record = NoRecord /\ pos = 0 /\ queue = {} /\ replay = 1
      /\ \A w \in {"scan", "mempool", "backfill", "replay"} : w \in AllWriters
  BY DEF Init, NoCalls, FeedInit, AllWriters
<1>3. CallOK /\ RecordsOK /\ ScanMapped /\ FeedOK
  <2>1. RecordOK(NoRecord)
    BY DEF RecordOK
  <2> QED BY <1>2, <2>1 DEF CallOK, Written, RecordsOK, NextOK, ScanMapped, Held, FeedOK
<1>4. ScanPlaced /\ ReplayPlaced
  BY <1>2 DEF ScanPlaced, ReplayPlaced, Placed
<1>5. AloneOK
  <2>1. \A w \in {"scan", "replay"} : Passed(w) = 0 /\ phase[w] = "idle"
    BY <1>2 DEF Passed
  <2> QED BY <1>2, <2>1 DEF AloneOK, Held, Folded
<1> QED BY <1>1, <1>3, <1>4, <1>5 DEF FullInv, FoldInv

LEMMA NextFull == FullInv /\ [Next]_vars => FullInv'
  BY NextInv, NextType, NextCall, NextRecords, NextScanMapped, NextFeed, NextScanPlaced,
     NextReplayPlaced, NextAlone DEF FullInv, FoldInv

\* What PayloadAt says of the whole chain is what LastPayload chooses.
LEMMA PayloadOfChain ==
    ASSUME chain \in Chains, NEW x, PayloadAt(Len(chain), x)
    PROVE  x = LastPayload
<1> DEFINE has == {i \in 1..Len(chain) : chain[i] \in HasPayload /\ Op[chain[i]] # "revoke"}
<1>1. LastPayload = IF has = {} THEN NoPin ELSE chain[CHOOSE i \in has : \A j \in has : j <= i]
  BY DEF LastPayload
<1>2. CASE x = NoPin /\ \A i \in 1..Len(chain) : ~HasContent(chain[i])
  BY <1>1, <1>2 DEF HasContent
<1>3. ASSUME NEW i \in 1..Len(chain), x = chain[i], HasContent(chain[i]),
             \A j \in (i + 1)..Len(chain) : ~HasContent(chain[j])
      PROVE  x = LastPayload
  <2>1. Len(chain) \in Nat /\ has \subseteq 1..Len(chain)
    BY ChainFacts
  <2>2. i \in has /\ \A j \in has : j \notin (i + 1)..Len(chain)
    BY <1>3 DEF HasContent
  <2>3. \A j \in has : j <= i
    BY <2>1, <2>2
  <2>4. PICK k : k = CHOOSE m \in has : \A j \in has : j <= m
    OBVIOUS
  <2>5. k \in has /\ \A j \in has : j <= k
    BY <2>2, <2>3, <2>4
  <2> HIDE DEF has
  <2>6. k = i
    BY <2>1, <2>2, <2>3, <2>5
  <2> QED BY <1>1, <1>3, <2>2, <2>4, <2>6
<1> QED BY <1>2, <1>3 DEF PayloadAt

\* A confirmed record whose current pin is the last one is as the chain has it.
LEMMA LastIsAsChain ==
    ASSUME TypeOK, RecordsOK, record # NoRecord, ~record.mempool, record.cur = LastPin,
           Alone => Folded(record, Len(chain))
    PROVE  AsChain
<1>0. /\ chain \in Chains /\ Len(chain) \in 1..Len(chain) /\ Len(chain) \in Nat
      /\ record \in Records /\ RecordOK(record)
  BY ChainFacts DEF TypeOK, FeedTypeOK, RecordsOK
<1>1. record.hidden \in BOOLEAN
  BY <1>0 DEF Records
<1>2. ASSUME NEW m \in Len(chain)..Len(chain) PROVE m = Len(chain)
  BY <1>0
<1>3. ASSUME Alone \/ ~Revoked \/ Op[LastPin] = "revoke" PROVE record.hidden <=> Revoked
  <2>1. CASE Alone
    <3>1. HiddenAt(Len(chain), record.hidden)
      BY <1>2, <2>1 DEF Folded
    <3> QED BY <3>1 DEF HiddenAt, Revoked
  <2>2. CASE ~Revoked
    BY <1>0, <2>2 DEF RecordOK
  <2>3. CASE Op[LastPin] = "revoke"
    BY <1>0, <2>3 DEF RecordOK
  <2> QED BY <1>3, <2>1, <2>2, <2>3
<1>4. ASSUME ~Revoked, Alone \/ LastPin \in HasPayload PROVE record.payload = LastPayload
  <2>1. CASE Alone
    <3>1. PayloadAt(Len(chain), record.payload)
      BY <1>2, <2>1 DEF Folded
    <3> QED BY <1>0, <3>1, PayloadOfChain
  <2>2. CASE LastPin \in HasPayload
    <3>1. HasContent(LastPin)
      BY <1>0, <1>4, <2>2 DEF HasContent, Revoked, LastPin
    <3>2. record.payload = LastPin
      BY <1>0, <3>1 DEF RecordOK
    <3>3. (Len(chain) + 1)..Len(chain) = {}
      BY <1>0
    <3>4. PayloadAt(Len(chain), record.payload)
      BY <1>0, <3>1, <3>2, <3>3 DEF PayloadAt, LastPin
    <3> QED BY <1>0, <3>4, PayloadOfChain
  <2> QED BY <1>4, <2>1, <2>2
<1>5. Revoked \in BOOLEAN
  BY DEF Revoked
<1> QED BY <1>1, <1>3, <1>4, <1>5 DEF AsChain

\* The current pin of a confirmed record that is as new as the whole chain.
LEMMA PlacedLast ==
    ASSUME chain \in Chains, record # NoRecord, RecordOK(record), Placed(record, Len(chain))
    PROVE  ~record.mempool /\ record.cur = LastPin
<1>1. PICK i \in 1..Len(chain) : record.cur = chain[i]
  BY ChainFacts DEF RecordOK
<1>2. ~record.mempool
  BY <1>1 DEF Placed
<1>3. PICK m \in Len(chain)..Len(chain) : record.cur = chain[m]
  BY <1>2 DEF Placed
<1>4. m = Len(chain)
  BY <1>3, ChainFacts
<1> QED BY <1>2, <1>3, <1>4 DEF LastPin

\* Type correctness.
THEOREM TypeCorrect == Spec => []TypeOK
<1>1. FullInv => TypeOK
  BY DEF FullInv, FoldInv
<1> QED BY <1>1, InitFull, NextFull, PTL DEF Spec

\* However the scan and the mempool goroutine interleave and whatever a crash makes
\* the engine repeat, a record of any number of pins ends up as the chain has it.
THEOREM ConvergesHolds == Spec => []Converges
<1>1. FullInv => Converges
  <2> SUFFICES ASSUME FullInv, Quiet, "scan" \in writers, writers \subseteq {"scan", "mempool"}, ~late
               PROVE  AsChain
    BY DEF Converges
  <2>1. /\ TypeOK /\ RecordsOK /\ RecordOK(record) /\ ScanMapped /\ ScanPlaced /\ AloneOK /\ Inv
        /\ chain \in Chains /\ Len(chain) \in Nat /\ Len(chain) > 0
    BY ChainFacts DEF FullInv, FoldInv, TypeOK, FeedTypeOK, RecordsOK
  <2>2. pos = Len(chain) /\ ScanAt = Len(chain) /\ ~Written("scan")
    BY DEF Quiet, AllRouted, ScanAt, Written, AllWriters
  <2>3. record # NoRecord
    BY <2>1, <2>2 DEF ScanMapped, Held
  <2>4. ~record.mempool /\ record.cur = LastPin
    BY <2>1, <2>2, <2>3, PlacedLast DEF ScanPlaced
  <2>5. ASSUME Alone PROVE Folded(record, Len(chain))
    <3>1. PICK w : writers = {w}
      BY <2>1, <2>5, AloneIsOne
    <3>2. writers = {"scan"} /\ Whole("scan")
      BY <3>1 DEF Whole
    <3> QED BY <2>1, <2>2, <3>2 DEF AloneOK, At, Passed
  <2> QED BY <2>1, <2>3, <2>4, <2>5, LastIsAsChain
<1> QED BY <1>1, InitFull, NextFull, PTL DEF Spec

\* A replay that has read every block of the complete chain leaves the record as the
\* chain has it, whatever the scan does meanwhile, and builds it without the scan.
THEOREM ReplayRepairsHolds == Spec => []ReplayRepairs
<1>1. FullInv => ReplayRepairs
  <2> SUFFICES ASSUME FullInv, Quiet, writers \subseteq {"scan", "replay"},
                      ReplayDone, ~skipped, replayTo = Len(chain),
                      "scan" \in writers \/ \A i \in 1..Len(chain) : since <= MinedAt[chain[i]]
               PROVE  AsChain
    BY DEF ReplayRepairs
  <2>1. /\ TypeOK /\ RecordsOK /\ RecordOK(record) /\ ScanMapped /\ ReplayPlaced /\ AloneOK /\ Inv
        /\ chain \in Chains /\ Len(chain) \in Nat /\ Len(chain) > 0
        /\ replay \in 1..(Len(chain) + 1)
    BY ChainFacts DEF FullInv, FoldInv, TypeOK, FeedTypeOK, RecordsOK
  <2>2. "replay" \in writers /\ ReplayOver /\ ~Written("scan") /\ ~Written("replay")
    BY <2>1 DEF ReplayDone, Inv, OnlyWritersCall, ReplayOver, Quiet, Written, AllWriters
  <2>3. CASE "scan" \in writers
    <3>1. pos = Len(chain) /\ ScanAt = Len(chain)
      BY <2>2, <2>3 DEF Quiet, AllRouted, ScanAt
    <3>2. record # NoRecord
      BY <2>1, <3>1 DEF ScanMapped, Held
    <3>3. ~Missing
      BY <2>1, <3>1 DEF Missing
    <3>4. ~record.mempool /\ record.cur = LastPin
      BY <2>1, <2>2, <3>1, <3>2, <3>3, PlacedLast DEF ReplayPlaced
    <3>5. ~Alone
      BY <2>1, <2>2, <2>3, AloneIsOne
    <3> QED BY <2>1, <3>2, <3>4, <3>5, LastIsAsChain
  <2>4. CASE "scan" \notin writers
    <3>1. writers = {"replay"} /\ Whole("replay")
      BY <2>2, <2>4 DEF Whole
    <3>2. Passed("replay") = Len(chain) /\ At("replay") = Len(chain)
      BY <2>1, <2>2 DEF Passed, At, ReplayOver
    <3>3. Held(Len(chain)) /\ Folded(record, Len(chain))
      BY <2>1, <3>1, <3>2 DEF AloneOK
    <3>4. record # NoRecord
      BY <2>1, <3>3 DEF Held
    <3>5. PICK m \in Len(chain)..Len(chain) : record.cur = chain[m]
      BY <3>3, <3>4 DEF Folded
    <3>6. record.cur = LastPin
      BY <2>1, <3>5 DEF LastPin
    <3>7. ~record.mempool
      BY <2>1, <3>1, <3>4, Confirmed
    <3> QED BY <2>1, <3>3, <3>4, <3>6, <3>7, LastIsAsChain
  <2> QED BY <2>3, <2>4
<1> QED BY <1>1, InitFull, NextFull, PTL DEF Spec

\* With any goroutines side by side, before a crash and between two calls, the
\* record is listed under its present sort key and found by its current pin: a
\* deleteIdentityIndexes that takes away the entry another goroutine has just
\* written is followed by a write of its own (saveRecord).
THEOREM RecordIsFoundHolds == Spec => []RecordIsFound
<1>1. Init => ReadsOK
  BY DEF Init, ReadsOK
<1>2. ReadsOK => RecordIsFound
  <2> SUFFICES ASSUME ReadsOK, \A w \in AllWriters : phase[w] = "idle", crashes = 0, record # NoRecord
               PROVE  SortTimestamp(record) \in index /\ Resolved(record.cur) = record
    BY DEF RecordIsFound
  <2>1. ~ListPending /\ ~MapPending
    BY DEF ListPending, MapPending
  <2> QED BY <2>1 DEF ReadsOK, Resolved
<1>3. FullInv => TypeOK
  BY DEF FullInv, FoldInv
<1> QED BY <1>1, <1>2, <1>3, InitFull, NextFull, NextReads, PTL DEF Spec
=============================================================================
