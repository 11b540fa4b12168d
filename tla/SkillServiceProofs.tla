------------------------- MODULE SkillServiceProofs -------------------------
(***************************************************************************)
(* Proofs about SkillService for any chains, pins, ratings and sets of     *)
(* goroutines: type correctness, where the service ends and what the       *)
(* readers find between two calls, with any of them; and with one          *)
(* goroutine that a revoke is terminal, that the service is listed under   *)
(* its current version and that a rating is counted at most once, through  *)
(* any number of crashes.                                                  *)
(***************************************************************************)
EXTENDS SkillService, FiniteSetTheorems, NaturalsInduction, WellFoundedInduction, TLAPS

ServicePhases == {"delete", "record", "index", "mapPin"}
RatingPhases == {"saveRating", "load", "bump"}

\* Only a goroutine that runs has a source of pins, and only such a one calls;
\* the scan goroutine calls with the pin after its position.
OnlyWritersCall ==
    /\ queue # {} => "mempool" \in writers
    /\ \A w \in AllWriters : phase[w] # "idle" => w \in writers \cap {"scan", "mempool"}
    /\ phase["scan"] # "idle" => pos < mined

\* What a call holds fits the place it is at.
CallsOK ==
    \A w \in AllWriters :
        /\ phase[w] # "idle" => pin[w] \in Pins
        /\ phase[w] \in ServicePhases => next[w] \in Records /\ next[w] # NoRecord
        /\ phase[w] \in RatingPhases => Op[pin[w]] = "rate"

OneWriter == \E w \in AllWriters : writers = {w}

\* Until the record is written a call has seen it as it is, and it does not bring
\* a revoked service back.
SaveOK(w) ==
    /\ phase[w] \in {"delete", "record"} =>
         /\ prev[w] = record
         /\ record # NoRecord /\ record.op = "revoke" => next[w].op = "revoke"
    /\ phase[w] \in {"record", "index"} => index = {}
    /\ phase[w] \in {"index", "mapPin"} => record = next[w]

Entries(r) == IF r = NoRecord THEN {} ELSE {r.updated}

\* While a rating is stored and not yet counted, one is missing from the aggregate.
RatingOK(w) ==
    /\ phase[w] = "saveRating" => rated[pin[w]] = "no"
    /\ phase[w] \in {"load", "bump"} => agg.count + 1 <= Cardinality(Counted)
    /\ phase[w] = "bump" => base[w] = agg

OneWriterOK ==
    OneWriter =>
        /\ index \subseteq Entries(record)
        /\ IsFiniteSet(Counted) /\ agg.count <= Cardinality(Counted)
        /\ \A w \in AllWriters : SaveOK(w) /\ RatingOK(w)

Inv == TypeOK /\ OnlyWritersCall /\ CallsOK /\ OneWriterOK

-----------------------------------------------------------------------------
(* What processServicePin computes *)

\* Whatever it loads, it computes a record or nothing.
LEMMA ProcessType ==
    ASSUME NEW p \in Pins, NEW m \in BOOLEAN, NEW previous \in Records \cup {NoRecord},
           Op[p] # "rate", ProcessServicePin(previous, p, m) # NoRecord
    PROVE  ProcessServicePin(previous, p, m) \in Records
<1>0. <<p, m>> \in Times /\ Op[p] \in {"create", "modify", "revoke"}
  BY SkillAssumption DEF Times
<1>1. NewServiceRecord(p, m) \in Records
  BY <1>0 DEF NewServiceRecord, Records
<1>2. CASE Op[p] = "create"
  BY <1>1, <1>2 DEF ProcessServicePin, ProcessServiceCreate
<1>3. CASE Op[p] = "modify"
  <2>1. previous \in Records
    BY <1>3 DEF ProcessServicePin, ProcessServiceModify
  <2> DEFINE new == [NewServiceRecord(p, m) EXCEPT
                         !.created = previous.created,
                         !.named = @ \/ previous.named,
                         !.op = IF previous.op = "revoke" THEN "revoke" ELSE @]
  <2>2. ProcessServicePin(previous, p, m) = new
    BY <1>3 DEF ProcessServicePin, ProcessServiceModify
  <2>3. \A x, y \in Records :
            [x EXCEPT !.created = y.created, !.named = @ \/ y.named,
                      !.op = IF y.op = "revoke" THEN "revoke" ELSE @] \in Records
    BY DEF Records
  <2>4. new \in Records
    BY <1>1, <2>1, <2>3
  <2> QED BY <2>2, <2>4
<1>4. CASE Op[p] = "revoke"
  <2>1. previous \in Records
    BY <1>4 DEF ProcessServicePin, ProcessServiceRevoke
  <2> DEFINE new == [previous EXCEPT !.op = "revoke", !.cur = p, !.updated = <<p, m>>]
  <2>2. ProcessServicePin(previous, p, m) = new
    BY <1>4 DEF ProcessServicePin, ProcessServiceRevoke
  <2>3. new \in Records
    BY <2>1, <1>0 DEF Records
  <2> QED BY <2>2, <2>3
<1> QED BY <1>0, <1>2, <1>3, <1>4

\* It writes only if it has seen the record as it is.
LEMMA LoadedIsRecord ==
    ASSUME NEW p \in Pins, NEW m, Op[p] # "rate", ProcessServicePin(Loaded(p), p, m) # NoRecord
    PROVE  Loaded(p) = record
<1>0. Op[p] \in {"create", "modify", "revoke"}
  BY SkillAssumption
<1> QED BY <1>0 DEF ProcessServicePin, ProcessServiceModify, ProcessServiceRevoke, Loaded,
                    LoadServiceByAnyPinId

\* It does not bring a revoked service back.
LEMMA RevokedStays ==
    ASSUME NEW p \in Pins, NEW m \in BOOLEAN, NEW previous \in Records, previous # NoRecord,
           Op[p] # "rate", ProcessServicePin(previous, p, m) # NoRecord,
           previous.op = "revoke"
    PROVE  ProcessServicePin(previous, p, m).op = "revoke"
<1>0. Op[p] \in {"create", "modify", "revoke"}
  BY SkillAssumption
<1>1. CASE Op[p] = "create"
  BY <1>1 DEF ProcessServicePin, ProcessServiceCreate
<1>2. CASE Op[p] = "modify"
  BY <1>2 DEF ProcessServicePin, ProcessServiceModify, NewServiceRecord
<1>3. CASE Op[p] = "revoke"
  BY <1>3 DEF ProcessServicePin, ProcessServiceRevoke, Records
<1> QED BY <1>0, <1>1, <1>2, <1>3

-----------------------------------------------------------------------------
(* The feed *)

LEMMA FeedSteps ==
    ASSUME FeedTypeOK, NEW w \in AllWriters, NEW p \in Pins, w # "backfill",
           w = "scan" => pos < mined,
           Take(w, p) \/ Pass(w, p) \/ Done(w)
    PROVE  /\ FeedTypeOK' /\ writers' = writers /\ mined' = mined /\ queue' \subseteq queue
           /\ w # "scan" => pos' = pos
<1>1. Len(chain) \in Nat
  BY FeedAssumption DEF FeedTypeOK
<1> QED BY <1>1 DEF FeedTypeOK, Take, Pass, Done, Advance, setup

\* The number of polls of a pin keeps its bound.
LEMMA PollCounts ==
    /\ [p \in Pins |-> 0] \in [Pins -> 0..MaxPolls]
    /\ \A f \in [Pins -> 0..MaxPolls], p \in Pins :
          f[p] < MaxPolls => [f EXCEPT ![p] = @ + 1] \in [Pins -> 0..MaxPolls]
<1>1. 0 \in 0..MaxPolls /\ \A n \in 0..MaxPolls : n < MaxPolls => n + 1 \in 0..MaxPolls
  BY FeedAssumption
<1> QED BY <1>1

LEMMA FeedRestart ==
    ASSUME FeedTypeOK, Restart PROVE FeedTypeOK' /\ writers' = writers /\ queue' = {}
<1>1. Len(chain) \in Nat
  BY FeedAssumption DEF FeedTypeOK
<1>2. crashes' \in 0..MaxCrashes
  BY FeedAssumption DEF FeedTypeOK, Restart
<1> QED BY <1>1, <1>2, PollCounts DEF FeedTypeOK, Restart, setup

LEMMA FeedMine ==
    ASSUME FeedTypeOK, NEW busy, MineNext(busy)
    PROVE  FeedTypeOK' /\ writers' = writers /\ pos' = pos /\ mined' = mined + 1 /\ queue' = queue
<1>1. Len(chain) \in Nat
  BY FeedAssumption DEF FeedTypeOK
<1>2. late' \in BOOLEAN
  BY DEF MineNext
<1> QED BY <1>1, <1>2 DEF FeedTypeOK, MineNext, setup

-----------------------------------------------------------------------------
(* The invariant *)

LEMMA InitInv == Init => Inv
<1> SUFFICES ASSUME Init PROVE Inv
  OBVIOUS
<1>1. FeedTypeOK
  <2>1. Len(chain) \in Nat
    BY FeedAssumption DEF Init, FeedInit
  <2>2. mined \in 0..Len(chain) /\ pos \in 0..mined /\ backfill \in 0..mined
    BY <2>1 DEF Init, FeedInit
  <2>3. crashes \in 0..MaxCrashes
    BY FeedAssumption DEF Init, FeedInit
  <2> QED BY <2>2, <2>3, PollCounts DEF Init, FeedInit, FeedTypeOK
<1>2. NoRatings \in Aggregates /\ NoRatings.count = 0
  BY DEF NoRatings, Aggregates
<1>3. TypeOK
  BY <1>1, <1>2 DEF Init, TypeOK, Phases
<1>4. OnlyWritersCall /\ CallsOK
  BY DEF Init, FeedInit, OnlyWritersCall, CallsOK, AllWriters, ServicePhases, RatingPhases
<1>5. OneWriterOK
  <2>1. Counted = {}
    BY DEF Init, Counted
  <2>2. IsFiniteSet(Counted) /\ Cardinality(Counted) = 0
    BY <2>1, FS_EmptySet
  <2> QED BY <1>2, <2>2 DEF Init, OneWriterOK, SaveOK, RatingOK
<1> QED BY <1>3, <1>4, <1>5 DEF Inv

\* With one goroutine, the others have no call.
LEMMA OthersIdle ==
    ASSUME Inv, OneWriter, NEW w \in AllWriters, phase[w] # "idle" \/ w \in writers,
           NEW v \in AllWriters, v # w
    PROVE  phase[v] = "idle"
  BY DEF Inv, OnlyWritersCall, OneWriter

\* A step that changes neither the calls nor what they work on.
LEMMA ElsewhereInv ==
    ASSUME Inv, TypeOK', UNCHANGED <<callVars, record, index, ratingVars, writers>>,
           queue' # {} => "mempool" \in writers,
           phase["scan"] # "idle" => pos' < mined'
    PROVE  Inv'
<1>1. OnlyWritersCall'
  BY DEF Inv, OnlyWritersCall, callVars
<1>2. CallsOK'
  BY DEF Inv, CallsOK, callVars
<1>3. Counted' = Counted /\ Entries(record)' = Entries(record) /\ (OneWriter' <=> OneWriter)
  BY DEF Counted, Entries, OneWriter, ratingVars
<1>4. \A w \in AllWriters : (SaveOK(w) => SaveOK(w)') /\ (RatingOK(w) => RatingOK(w)')
  BY <1>3 DEF SaveOK, RatingOK, callVars, ratingVars
<1>5. OneWriterOK'
  BY <1>3, <1>4 DEF Inv, OneWriterOK, ratingVars
<1> QED BY <1>1, <1>2, <1>5 DEF Inv

\* A call begins with a pin of the service.
LEMMA BeginServiceInv ==
    ASSUME Inv, NEW w \in {"scan", "mempool"}, NEW p \in Pins, w \in writers,
           w = "scan" => pos < mined,
           BeginService(w, p), Take(w, p), UNCHANGED <<serviceVars, ratingVars, homepageVars>>
    PROVE  Inv'
<1> DEFINE new == ProcessServicePin(Loaded(p), p, w = "mempool")
<1>0. w \in AllWriters /\ w # "backfill" /\ (w = "mempool") \in BOOLEAN
  BY DEF AllWriters
<1>1. FeedTypeOK' /\ writers' = writers /\ mined' = mined /\ queue' \subseteq queue /\ pos' = pos
  BY <1>0, FeedSteps DEF Inv, TypeOK, Take
<1>2. /\ phase[w] = "idle" /\ new # NoRecord /\ Op[p] # "rate"
      /\ phase' = [phase EXCEPT ![w] = "delete"]
      /\ pin' = [pin EXCEPT ![w] = p]
      /\ prev' = [prev EXCEPT ![w] = Loaded(p)]
      /\ next' = [next EXCEPT ![w] = new]
      /\ base' = base
  BY DEF BeginService
<1>3. Loaded(p) = record /\ record \in Records \cup {NoRecord}
  BY <1>2, LoadedIsRecord DEF Inv, TypeOK
<1>4. new \in Records
  BY <1>0, <1>2, <1>3, ProcessType
<1>5. record # NoRecord /\ record.op = "revoke" => new.op = "revoke"
  BY <1>0, <1>2, <1>3, RevokedStays
<1> HIDE DEF new
<1>6. TypeOK'
  BY <1>1, <1>2, <1>3, <1>4 DEF Inv, TypeOK, Phases, serviceVars, indexVars, ratingVars, homepageVars
<1>7. OnlyWritersCall'
  BY <1>0, <1>1, <1>2 DEF Inv, TypeOK, OnlyWritersCall
<1>8. CallsOK'
  BY <1>0, <1>2, <1>4 DEF Inv, TypeOK, CallsOK, ServicePhases, RatingPhases
<1>9. OneWriterOK'
  <2> SUFFICES ASSUME OneWriter' PROVE OneWriterOK'
    BY DEF OneWriterOK
  <2>1. OneWriter /\ Counted' = Counted /\ Entries(record)' = Entries(record)
    BY <1>1 DEF OneWriter, Counted, Entries, serviceVars, ratingVars
  <2>2. UNCHANGED <<record, index, agg, rated>>
    BY DEF serviceVars, indexVars, ratingVars
  <2>3. ASSUME NEW v \in AllWriters PROVE SaveOK(v)' /\ RatingOK(v)'
    <3>1. CASE v = w
      BY <1>0, <1>2, <1>3, <1>5, <2>2, <3>1 DEF Inv, TypeOK, SaveOK, RatingOK
    <3>2. CASE v # w
      <4>1. phase'[v] = "idle"
        BY <1>0, <1>2, <2>1, <3>2, OthersIdle DEF Inv, TypeOK
      <4> QED BY <4>1 DEF SaveOK, RatingOK
    <3> QED BY <3>1, <3>2
  <2> QED BY <2>1, <2>2, <2>3 DEF Inv, OneWriterOK
<1> QED BY <1>6, <1>7, <1>8, <1>9 DEF Inv

\* A call begins with a rating.
LEMMA BeginRatingInv ==
    ASSUME Inv, NEW w \in {"scan", "mempool"}, NEW p \in Pins, w \in writers,
           w = "scan" => pos < mined,
           BeginRating(w, p), Take(w, p), UNCHANGED <<serviceVars, ratingVars, homepageVars>>
    PROVE  Inv'
<1>0. w \in AllWriters /\ w # "backfill"
  BY DEF AllWriters
<1>1. FeedTypeOK' /\ writers' = writers /\ mined' = mined /\ queue' \subseteq queue /\ pos' = pos
  BY <1>0, FeedSteps DEF Inv, TypeOK, Take
<1>2. /\ phase[w] = "idle" /\ Op[p] = "rate" /\ rated[p] = "no"
      /\ phase' = [phase EXCEPT ![w] = "saveRating"]
      /\ pin' = [pin EXCEPT ![w] = p]
      /\ prev' = [prev EXCEPT ![w] = Loaded(p)]
      /\ next' = next /\ base' = base
  BY DEF BeginRating, IsNewRating
<1>3. Loaded(p) \in Records \cup {NoRecord}
  BY DEF Inv, TypeOK, Loaded, LoadServiceByAnyPinId
<1>6. TypeOK'
  BY <1>1, <1>2, <1>3 DEF Inv, TypeOK, Phases, serviceVars, indexVars, ratingVars, homepageVars
<1>7. OnlyWritersCall'
  BY <1>0, <1>1, <1>2 DEF Inv, TypeOK, OnlyWritersCall
<1>8. CallsOK'
  BY <1>0, <1>2 DEF Inv, TypeOK, CallsOK, ServicePhases, RatingPhases
<1>9. OneWriterOK'
  <2> SUFFICES ASSUME OneWriter' PROVE OneWriterOK'
    BY DEF OneWriterOK
  <2>1. OneWriter /\ Counted' = Counted /\ Entries(record)' = Entries(record)
    BY <1>1 DEF OneWriter, Counted, Entries, serviceVars, ratingVars
  <2>2. UNCHANGED <<record, index, agg, rated>>
    BY DEF serviceVars, indexVars, ratingVars
  <2>3. ASSUME NEW v \in AllWriters PROVE SaveOK(v)' /\ RatingOK(v)'
    <3>1. CASE v = w
      BY <1>0, <1>2, <2>2, <3>1 DEF Inv, TypeOK, SaveOK, RatingOK
    <3>2. CASE v # w
      <4>1. phase'[v] = "idle"
        BY <1>0, <1>2, <2>1, <3>2, OthersIdle DEF Inv, TypeOK
      <4> QED BY <4>1 DEF SaveOK, RatingOK
    <3> QED BY <3>1, <3>2
  <2> QED BY <2>1, <2>2, <2>3 DEF Inv, OneWriterOK
<1> QED BY <1>6, <1>7, <1>8, <1>9 DEF Inv

\* The call of w goes on and stays a call on the same pin.
LEMMA GoOnInv ==
    ASSUME Inv, NEW w \in AllWriters, NEW ph \in Phases, phase[w] # "idle",
           ph \in ServicePhases => phase[w] \in ServicePhases,
           ph \in RatingPhases => phase[w] \in RatingPhases,
           phase' = [phase EXCEPT ![w] = ph],
           UNCHANGED <<feedVars, pin, next>>
    PROVE  OnlyWritersCall' /\ CallsOK'
<1>1. OnlyWritersCall'
  BY DEF Inv, TypeOK, OnlyWritersCall, feedVars
<1>2. CallsOK'
  BY DEF Inv, TypeOK, CallsOK, feedVars
<1> QED BY <1>1, <1>2

\* The call of w returns.
LEMMA ReturnInv ==
    ASSUME Inv, NEW w \in AllWriters, phase[w] # "idle", EndCall(w), Done(w)
    PROVE  /\ FeedTypeOK' /\ OnlyWritersCall' /\ CallsOK' /\ writers' = writers
           /\ phase' \in [AllWriters -> Phases] /\ pin' \in [AllWriters -> Pins \cup {NoPin}]
           /\ prev' \in [AllWriters -> Records \cup {NoRecord}]
           /\ next' \in [AllWriters -> Records \cup {NoRecord}]
           /\ base' \in [AllWriters -> Aggregates]
<1>0. w \in {"scan", "mempool"} /\ pin[w] \in Pins /\ (w = "scan" => pos < mined)
  BY DEF Inv, OnlyWritersCall, CallsOK
<1>1. FeedTypeOK' /\ writers' = writers /\ mined' = mined /\ queue' \subseteq queue
      /\ (w # "scan" => pos' = pos)
  BY <1>0, FeedSteps DEF Inv, TypeOK
<1>2. NoRatings \in Aggregates
  BY DEF NoRatings, Aggregates
<1>3. /\ phase' = [phase EXCEPT ![w] = "idle"] /\ pin' = [pin EXCEPT ![w] = NoPin]
      /\ prev' = [prev EXCEPT ![w] = NoRecord] /\ next' = [next EXCEPT ![w] = NoRecord]
      /\ base' = [base EXCEPT ![w] = NoRatings]
  BY DEF EndCall
<1>4. OnlyWritersCall'
  BY <1>1, <1>3 DEF Inv, TypeOK, OnlyWritersCall
<1>5. CallsOK'
  BY <1>3 DEF Inv, TypeOK, CallsOK, ServicePhases, RatingPhases
<1> QED BY <1>1, <1>2, <1>3, <1>4, <1>5 DEF Inv, TypeOK, Phases

LEMMA SaveServiceInv ==
    ASSUME Inv, NEW w \in AllWriters, SaveService(w) PROVE Inv'
<1>0. /\ phase[w] \in ServicePhases /\ writers' = writers /\ w \in writers
      /\ \A v \in AllWriters : v # w => phase'[v] = phase[v]
      /\ UNCHANGED <<rated, agg, profileKnown, fill>>
  <2>1. phase[w] \in ServicePhases /\ writers' = writers /\ UNCHANGED <<rated, agg, profileKnown, fill>>
    BY DEF SaveService, DeleteIndexes, WriteRecord, WriteIndexes, MapPinToSource, Done, setup,
           feedVars, ratingVars, homepageVars, ServicePhases
  <2>2. w \in writers
    BY <2>1 DEF Inv, OnlyWritersCall, ServicePhases
  <2>3. \A v \in AllWriters : v # w => phase'[v] = phase[v]
    BY DEF SaveService, DeleteIndexes, WriteRecord, WriteIndexes, MapPinToSource, EndCall,
           Inv, TypeOK
  <2> QED BY <2>1, <2>2, <2>3
<1>1. next[w] \in Records /\ next[w] # NoRecord /\ next[w].updated \in Times
  BY <1>0 DEF Inv, CallsOK, Records
<1>2. Counted' = Counted
  BY <1>0 DEF Counted
\* What remains to be shown of each write.
<1>3. ASSUME TypeOK', OnlyWritersCall', CallsOK',
             OneWriter => (index \subseteq Entries(record))' /\ SaveOK(w)',
             phase'[w] \notin RatingPhases
      PROVE  Inv'
  <2>1. ASSUME OneWriter' PROVE OneWriterOK'
    <3>1. OneWriter
      BY <1>0, <2>1 DEF OneWriter
    <3>2. \A v \in AllWriters : v # w => phase'[v] = "idle"
      BY <1>0, <3>1, OthersIdle
    <3>3. \A v \in AllWriters : SaveOK(v)' /\ RatingOK(v)'
      <4> SUFFICES ASSUME NEW v \in AllWriters PROVE SaveOK(v)' /\ RatingOK(v)'
        OBVIOUS
      <4>1. CASE v = w
        BY <1>3, <3>1, <4>1 DEF RatingOK, RatingPhases
      <4>2. CASE v # w
        BY <3>2, <4>2 DEF SaveOK, RatingOK
      <4> QED BY <4>1, <4>2
    <3> QED BY <1>0, <1>2, <1>3, <3>1, <3>3 DEF Inv, OneWriterOK
  <2> QED BY <1>3, <2>1 DEF Inv, OneWriterOK
<1>4. CASE DeleteIndexes(w)
  <2>1. /\ phase[w] = "delete" /\ phase' = [phase EXCEPT ![w] = "record"]
        /\ UNCHANGED <<feedVars, record, mapped, pin, prev, next, base>>
        /\ index' = IF prev[w] = NoRecord THEN index ELSE index \ {prev[w].updated}
        /\ byProvider' \in {byProvider, FALSE} /\ globalIndex' \subseteq globalIndex
    BY <1>4 DEF DeleteIndexes, indexVars
  <2>2. OnlyWritersCall' /\ CallsOK'
    BY <2>1, GoOnInv DEF Phases, ServicePhases, RatingPhases
  <2>3. index' \subseteq Times
    BY <2>1 DEF Inv, TypeOK
  <2>4. TypeOK'
    BY <1>0, <2>1, <2>3 DEF Inv, TypeOK, Phases, feedVars, FeedTypeOK
  <2>5. ASSUME OneWriter PROVE (index \subseteq Entries(record))' /\ SaveOK(w)'
    <3>1. prev[w] = record /\ index \subseteq Entries(record) /\ SaveOK(w)
      BY <2>1, <2>5 DEF Inv, OneWriterOK, SaveOK
    <3>2. index' = {}
      BY <2>1, <3>1 DEF Entries
    <3>3. phase'[w] = "record"
      BY <2>1 DEF Inv, TypeOK
    <3> QED BY <2>1, <3>1, <3>2, <3>3 DEF SaveOK
  <2>6. phase'[w] \notin RatingPhases
    BY <2>1 DEF Inv, TypeOK, RatingPhases
  <2> QED BY <1>3, <2>2, <2>4, <2>5, <2>6
<1>5. CASE WriteRecord(w)
  <2>1. /\ phase[w] = "record" /\ phase' = [phase EXCEPT ![w] = "index"] /\ record' = next[w]
        /\ UNCHANGED <<feedVars, mapped, index, byProvider, globalIndex, pin, prev, next, base>>
    BY <1>5 DEF WriteRecord, indexVars
  <2>2. OnlyWritersCall' /\ CallsOK'
    BY <2>1, GoOnInv DEF Phases, ServicePhases, RatingPhases
  <2>4. TypeOK'
    BY <1>0, <1>1, <2>1 DEF Inv, TypeOK, Phases, feedVars, FeedTypeOK
  <2>5. ASSUME OneWriter PROVE (index \subseteq Entries(record))' /\ SaveOK(w)'
    BY <2>1, <2>5 DEF Inv, TypeOK, OneWriterOK, SaveOK
  <2>6. phase'[w] \notin RatingPhases
    BY <2>1 DEF Inv, TypeOK, RatingPhases
  <2> QED BY <1>3, <2>2, <2>4, <2>5, <2>6
<1>6. CASE WriteIndexes(w)
  <2>1. /\ phase[w] = "index" /\ phase' = [phase EXCEPT ![w] = "mapPin"]
        /\ UNCHANGED <<feedVars, record, mapped, pin, prev, next, base>>
        /\ index' = index \cup {next[w].updated} /\ byProvider' = TRUE
        /\ globalIndex' \subseteq globalIndex \cup {next[w].updated}
    BY <1>6 DEF WriteIndexes
  <2>2. OnlyWritersCall' /\ CallsOK'
    BY <2>1, GoOnInv DEF Phases, ServicePhases, RatingPhases
  <2>3. index' \subseteq Times /\ globalIndex' \subseteq Times
    BY <1>1, <2>1 DEF Inv, TypeOK
  <2>4. TypeOK'
    BY <1>0, <2>1, <2>3 DEF Inv, TypeOK, Phases, feedVars, FeedTypeOK
  <2>5. ASSUME OneWriter PROVE (index \subseteq Entries(record))' /\ SaveOK(w)'
    <3>1. record = next[w] /\ index = {}
      BY <2>1, <2>5 DEF Inv, OneWriterOK, SaveOK
    <3>2. phase'[w] = "mapPin"
      BY <2>1 DEF Inv, TypeOK
    <3> QED BY <1>1, <2>1, <3>1, <3>2 DEF SaveOK, Entries
  <2>6. phase'[w] \notin RatingPhases
    BY <2>1 DEF Inv, TypeOK, RatingPhases
  <2> QED BY <1>3, <2>2, <2>4, <2>5, <2>6
<1>7. CASE MapPinToSource(w)
  <2>1. /\ phase[w] # "idle" /\ EndCall(w) /\ Done(w) /\ pin[w] \in Pins
        /\ mapped' \subseteq mapped \cup {pin[w]}
        /\ UNCHANGED <<record, index, byProvider, globalIndex>>
    BY <1>0, <1>7 DEF MapPinToSource, indexVars, Inv, CallsOK, ServicePhases
  <2>2. OnlyWritersCall' /\ CallsOK'
    BY <2>1, ReturnInv
  <2>3. mapped' \subseteq Pins
    BY <2>1 DEF Inv, TypeOK
  <2>4. TypeOK'
    BY <1>0, <2>1, <2>3, ReturnInv DEF Inv, TypeOK
  <2>5. phase'[w] = "idle"
    BY <2>1 DEF EndCall, Inv, TypeOK
  <2>6. OneWriter => (index \subseteq Entries(record))' /\ SaveOK(w)'
    BY <2>1, <2>5 DEF Inv, OneWriterOK, SaveOK, Entries
  <2> QED BY <1>3, <2>2, <2>4, <2>5, <2>6 DEF RatingPhases
<1> QED BY <1>4, <1>5, <1>6, <1>7 DEF SaveService

LEMMA RatePinInv ==
    ASSUME Inv, NEW w \in AllWriters, RatePin(w) PROVE Inv'
<1>0. /\ phase[w] \in RatingPhases /\ writers' = writers /\ w \in writers
      /\ \A v \in AllWriters : v # w => phase'[v] = phase[v]
      /\ UNCHANGED <<record, mapped, index, byProvider, globalIndex, profileKnown, fill>>
  <2>1. /\ phase[w] \in RatingPhases /\ writers' = writers
        /\ UNCHANGED <<record, mapped, index, byProvider, globalIndex, profileKnown, fill>>
    BY DEF RatePin, SaveRatingPin, LoadRatingAggregate, BumpRatingAggregate, Done, setup,
           feedVars, serviceVars, indexVars, homepageVars, RatingPhases
  <2>2. w \in writers
    BY <2>1 DEF Inv, OnlyWritersCall, RatingPhases
  <2>3. \A v \in AllWriters : v # w => phase'[v] = phase[v]
    BY DEF RatePin, SaveRatingPin, LoadRatingAggregate, BumpRatingAggregate, EndCall,
           Inv, TypeOK
  <2> QED BY <2>1, <2>2, <2>3
<1>1. pin[w] \in Raters /\ Rate[pin[w]] \in Nat
  BY <1>0, SkillAssumption DEF Inv, CallsOK, RatingPhases, Raters
\* What remains to be shown of each step.
<1>3. ASSUME TypeOK', OnlyWritersCall', CallsOK',
             OneWriter => /\ (IsFiniteSet(Counted) /\ agg.count <= Cardinality(Counted))'
                          /\ RatingOK(w)',
             phase'[w] \notin ServicePhases
      PROVE  Inv'
  <2>1. ASSUME OneWriter' PROVE OneWriterOK'
    <3>1. OneWriter
      BY <1>0, <2>1 DEF OneWriter
    <3>2. \A v \in AllWriters : v # w => phase'[v] = "idle"
      BY <1>0, <3>1, OthersIdle
    <3>3. \A v \in AllWriters : SaveOK(v)' /\ RatingOK(v)'
      <4> SUFFICES ASSUME NEW v \in AllWriters PROVE SaveOK(v)' /\ RatingOK(v)'
        OBVIOUS
      <4>1. CASE v = w
        BY <1>3, <3>1, <4>1 DEF SaveOK, ServicePhases
      <4>2. CASE v # w
        BY <3>2, <4>2 DEF SaveOK, RatingOK
      <4> QED BY <4>1, <4>2
    <3>4. (index \subseteq Entries(record))'
      BY <1>0, <3>1 DEF Inv, OneWriterOK, Entries
    <3> QED BY <1>3, <3>1, <3>3, <3>4 DEF OneWriterOK
  <2> QED BY <1>3, <2>1 DEF Inv, OneWriterOK
<1>4. CASE SaveRatingPin(w)
  <2>1. phase[w] = "saveRating" /\ agg' = agg
    BY <1>4 DEF SaveRatingPin
  <2>2. PICK mark \in {"source", "unknown"} :
            /\ rated' = [rated EXCEPT ![pin[w]] = mark]
            /\ mark = "source" => /\ phase' = [phase EXCEPT ![w] = "load"]
                                  /\ UNCHANGED <<feedVars, pin, prev, next, base>>
            /\ mark = "unknown" => EndCall(w) /\ Done(w)
    BY <1>4 DEF SaveRatingPin
  <2>3. OnlyWritersCall' /\ CallsOK'
    BY <2>1, <2>2, GoOnInv, ReturnInv DEF Phases, ServicePhases, RatingPhases
  <2>4. rated' \in [Raters -> {"no", "unknown", "source"}]
    BY <1>1, <2>2 DEF Inv, TypeOK
  <2>5. TypeOK'
    <3>1. CASE mark = "source"
      BY <1>0, <2>1, <2>2, <2>4, <3>1 DEF Inv, TypeOK, Phases, feedVars, FeedTypeOK
    <3>2. CASE mark = "unknown"
      BY <1>0, <2>1, <2>2, <2>4, <3>2, ReturnInv DEF Inv, TypeOK
    <3> QED BY <3>1, <3>2
  <2>6. phase'[w] = IF mark = "source" THEN "load" ELSE "idle"
    BY <2>2 DEF EndCall, Inv, TypeOK
  <2>7. ASSUME OneWriter
        PROVE  (IsFiniteSet(Counted) /\ agg.count <= Cardinality(Counted))' /\ RatingOK(w)'
    <3>1. /\ IsFiniteSet(Counted) /\ agg.count <= Cardinality(Counted) /\ rated[pin[w]] = "no"
          /\ agg.count \in Nat
      BY <2>1, <2>7 DEF Inv, TypeOK, OneWriterOK, RatingOK, Aggregates
    <3>2. pin[w] \notin Counted
      BY <3>1 DEF Counted
    <3>3. CASE mark = "source"
      <4>1. Counted' = Counted \cup {pin[w]}
        BY <1>1, <2>2, <3>3 DEF Counted, Inv, TypeOK
      <4>2. IsFiniteSet(Counted') /\ Cardinality(Counted') = Cardinality(Counted) + 1
        BY <3>1, <3>2, <4>1, FS_AddElement
      <4>3. Cardinality(Counted) \in Nat
        BY <3>1, FS_CardinalityType
      <4> QED BY <2>1, <2>6, <3>1, <3>3, <4>2, <4>3 DEF RatingOK
    <3>4. CASE mark = "unknown"
      <4>1. Counted' = Counted
        BY <1>1, <2>2, <3>1, <3>4 DEF Counted, Inv, TypeOK
      <4> QED BY <2>1, <2>6, <3>1, <3>4, <4>1 DEF RatingOK
    <3> QED BY <3>3, <3>4
  <2> QED BY <1>3, <2>3, <2>5, <2>6, <2>7 DEF ServicePhases
<1>5. CASE LoadRatingAggregate(w)
  <2>1. /\ phase[w] = "load" /\ phase' = [phase EXCEPT ![w] = "bump"]
        /\ base' = [base EXCEPT ![w] = agg]
        /\ UNCHANGED <<feedVars, rated, agg, pin, prev, next>>
    BY <1>5 DEF LoadRatingAggregate, ratingVars
  <2>2. OnlyWritersCall' /\ CallsOK'
    BY <2>1, GoOnInv DEF Phases, ServicePhases, RatingPhases
  <2>3. TypeOK'
    BY <1>0, <2>1 DEF Inv, TypeOK, Phases, feedVars, FeedTypeOK
  <2>4. phase'[w] = "bump" /\ base'[w] = agg /\ Counted' = Counted
    BY <2>1 DEF Inv, TypeOK, Counted
  <2>5. OneWriter => (IsFiniteSet(Counted) /\ agg.count <= Cardinality(Counted))' /\ RatingOK(w)'
    BY <2>1, <2>4 DEF Inv, OneWriterOK, RatingOK
  <2> QED BY <1>3, <2>2, <2>3, <2>4, <2>5 DEF ServicePhases
<1>6. CASE BumpRatingAggregate(w)
  <2>1. /\ phase[w] = "bump" /\ rated' = rated /\ EndCall(w) /\ Done(w)
        /\ agg' = [sum |-> base[w].sum + Rate[pin[w]], count |-> base[w].count + 1]
    BY <1>6 DEF BumpRatingAggregate
  <2>2. OnlyWritersCall' /\ CallsOK'
    BY <2>1, ReturnInv
  <2>3. base[w].sum \in Nat /\ base[w].count \in Nat
    BY DEF Inv, TypeOK, Aggregates
  <2>4. agg' \in Aggregates
    BY <1>1, <2>1, <2>3 DEF Aggregates
  <2>5. TypeOK'
    BY <1>0, <2>1, <2>4, ReturnInv DEF Inv, TypeOK
  <2>6. phase'[w] = "idle" /\ Counted' = Counted
    BY <2>1 DEF EndCall, Inv, TypeOK, Counted
  <2>7. ASSUME OneWriter
        PROVE  (IsFiniteSet(Counted) /\ agg.count <= Cardinality(Counted))' /\ RatingOK(w)'
    <3>1. base[w] = agg /\ agg.count + 1 <= Cardinality(Counted) /\ IsFiniteSet(Counted)
      BY <2>1, <2>7 DEF Inv, OneWriterOK, RatingOK
    <3>2. agg'.count = agg.count + 1
      BY <2>1, <3>1
    <3> QED BY <2>6, <3>1, <3>2 DEF RatingOK
  <2> QED BY <1>3, <2>2, <2>5, <2>6, <2>7 DEF ServicePhases
<1> QED BY <1>4, <1>5, <1>6 DEF RatePin

LEMMA NextInv == Inv /\ [Next]_vars => Inv'
<1> SUFFICES ASSUME Inv, [Next]_vars PROVE Inv'
  OBVIOUS
<1>1. CASE Mine
  <2>1. FeedTypeOK' /\ writers' = writers /\ pos' = pos /\ mined' = mined + 1 /\ queue' = queue
    BY <1>1, FeedMine DEF Mine, Inv, TypeOK
  <2>2. TypeOK'
    BY <1>1, <2>1 DEF Mine, Inv, TypeOK, serviceVars, indexVars, ratingVars, callVars, homepageVars
  <2>3. phase["scan"] # "idle" => pos' < mined'
    BY <2>1 DEF Inv, TypeOK, FeedTypeOK, OnlyWritersCall
  <2> QED BY <1>1, <2>1, <2>2, <2>3, ElsewhereInv
          DEF Mine, Inv, OnlyWritersCall, serviceVars, indexVars
<1>2. ASSUME NEW p \in Pins, Poll(p) PROVE Inv'
  <2>1. "mempool" \in writers /\ UNCHANGED <<writers, pos, mined>>
    BY <1>2 DEF Poll, PollMempool, setup
  <2>2. FeedTypeOK'
    BY <1>2, PollCounts DEF Poll, PollMempool, setup, Inv, TypeOK, FeedTypeOK
  <2>3. TypeOK'
    BY <1>2, <2>2 DEF Poll, Inv, TypeOK, serviceVars, indexVars, ratingVars, callVars, homepageVars
  <2> QED BY <1>2, <2>1, <2>3, ElsewhereInv
          DEF Poll, Inv, OnlyWritersCall, serviceVars, indexVars
<1>3. ASSUME NEW w \in {"scan", "mempool"}, NEW p \in Pins, ProcessPin(w, p) PROVE Inv'
  <2>1. w \in writers /\ (w = "scan" => pos < mined) /\ w \in AllWriters /\ w # "backfill"
    BY <1>3 DEF ProcessPin, Offered, ScanOffers, MempoolOffers, Inv, OnlyWritersCall, AllWriters
  <2>2. UNCHANGED <<serviceVars, ratingVars, homepageVars>>
    BY <1>3 DEF ProcessPin
  <2>3. CASE BeginService(w, p) /\ Take(w, p)
    BY <2>1, <2>2, <2>3, BeginServiceInv
  <2>4. CASE BeginRating(w, p) /\ Take(w, p)
    BY <2>1, <2>2, <2>4, BeginRatingInv
  <2>5. CASE Ignored(w, p) /\ Pass(w, p) /\ UNCHANGED callVars
    <3>1. /\ FeedTypeOK' /\ writers' = writers /\ mined' = mined /\ queue' \subseteq queue
          /\ w # "scan" => pos' = pos
      BY <2>1, <2>5, FeedSteps DEF Inv, TypeOK
    <3>2. TypeOK'
      BY <2>2, <2>5, <3>1 DEF Inv, TypeOK, serviceVars, indexVars, ratingVars, callVars, homepageVars
    <3>3. phase["scan"] # "idle" => pos' < mined'
      BY <2>5, <3>1 DEF Inv, OnlyWritersCall, Ignored
    <3> QED BY <2>2, <2>5, <3>1, <3>2, <3>3, ElsewhereInv
            DEF Inv, OnlyWritersCall, serviceVars, indexVars
  <2> QED BY <1>3, <2>3, <2>4, <2>5 DEF ProcessPin
<1>4. ASSUME NEW w \in AllWriters, SaveService(w) \/ RatePin(w) PROVE Inv'
  BY <1>4, SaveServiceInv, RatePinInv
<1>5. ASSUME NEW oneChain \in BOOLEAN, ListHomepageByProvider(oneChain) PROVE Inv'
  <2>1. record # NoRecord /\ fill' = record.updated
        /\ UNCHANGED <<feedVars, serviceVars, ratingVars, callVars, profileKnown>>
    BY <1>5 DEF ListHomepageByProvider, IsVisibleDefault
  <2>2. fill' \in Times
    BY <2>1 DEF Inv, TypeOK, Records
  <2>3. TypeOK'
    BY <2>1, <2>2 DEF Inv, TypeOK, FeedTypeOK, feedVars, serviceVars, indexVars, ratingVars, callVars
  <2> QED BY <2>1, <2>3, ElsewhereInv DEF Inv, OnlyWritersCall, feedVars, serviceVars, indexVars
<1>6. CASE BackfillGlobalIndex
  <2>1. fill \in Times /\ globalIndex' = globalIndex \cup {fill} /\ fill' = NoTime
        /\ UNCHANGED <<feedVars, record, mapped, index, byProvider, ratingVars, callVars, profileKnown>>
    BY <1>6 DEF BackfillGlobalIndex, Inv, TypeOK
  <2>2. TypeOK'
    BY <2>1 DEF Inv, TypeOK, FeedTypeOK, feedVars, ratingVars, callVars
  <2> QED BY <2>1, <2>2, ElsewhereInv DEF Inv, OnlyWritersCall, feedVars
<1>7. CASE LearnProfile
  <2>1. profileKnown' = TRUE /\ UNCHANGED <<feedVars, serviceVars, ratingVars, callVars, fill>>
    BY <1>7 DEF LearnProfile
  <2>2. TypeOK'
    BY <2>1 DEF Inv, TypeOK, FeedTypeOK, feedVars, serviceVars, indexVars, ratingVars, callVars
  <2> QED BY <2>1, <2>2, ElsewhereInv DEF Inv, OnlyWritersCall, feedVars, serviceVars, indexVars
<1>8. CASE Crash
  <2>1. /\ phase' = [w \in AllWriters |-> "idle"] /\ pin' = [w \in AllWriters |-> NoPin]
        /\ prev' = [w \in AllWriters |-> NoRecord] /\ next' = [w \in AllWriters |-> NoRecord]
        /\ base' = [w \in AllWriters |-> NoRatings] /\ fill' = NoTime
        /\ UNCHANGED <<serviceVars, ratingVars, profileKnown>>
    BY <1>8 DEF Crash
  <2>2. FeedTypeOK' /\ writers' = writers /\ queue' = {}
    BY <1>8, FeedRestart DEF Crash, Inv, TypeOK
  <2>3. NoRatings \in Aggregates
    BY DEF NoRatings, Aggregates
  <2>4. TypeOK'
    BY <2>1, <2>2, <2>3 DEF Inv, TypeOK, Phases, serviceVars, indexVars, ratingVars
  <2>5. OnlyWritersCall' /\ CallsOK'
    BY <2>1, <2>2 DEF OnlyWritersCall, CallsOK, AllWriters, ServicePhases, RatingPhases
  <2>6. OneWriterOK'
    <3>1. \A w \in AllWriters : SaveOK(w)' /\ RatingOK(w)'
      BY <2>1 DEF SaveOK, RatingOK
    <3>2. Counted' = Counted /\ Entries(record)' = Entries(record) /\ (OneWriter' <=> OneWriter)
          /\ index' = index /\ agg' = agg
      BY <2>1, <2>2 DEF Counted, Entries, OneWriter, ratingVars, serviceVars, indexVars
    <3> QED BY <3>1, <3>2 DEF Inv, OneWriterOK
  <2> QED BY <2>4, <2>5, <2>6 DEF Inv
<1>9. CASE UNCHANGED vars
  <2>1. TypeOK'
    BY <1>9 DEF vars, Inv, TypeOK, FeedTypeOK, feedVars, serviceVars, indexVars, ratingVars,
                callVars, homepageVars
  <2> QED BY <1>9, <2>1, ElsewhereInv DEF vars, Inv, OnlyWritersCall, feedVars, serviceVars, indexVars
<1> QED BY <1>1, <1>2, <1>3, <1>4, <1>5, <1>6, <1>7, <1>8, <1>9 DEF Next

\* The properties speak of one goroutine by the number of them.
LEMMA CardinalityOne == Inv /\ Cardinality(writers) = 1 => OneWriter
<1> SUFFICES ASSUME Inv, Cardinality(writers) = 1 PROVE OneWriter
  OBVIOUS
<1>1. writers \subseteq AllWriters
  BY FeedAssumption DEF Inv, TypeOK, FeedTypeOK
<1>2. IsFiniteSet(AllWriters)
  <2>1. IsFiniteSet({"scan"}) /\ IsFiniteSet({"mempool"}) /\ IsFiniteSet({"backfill"})
        /\ IsFiniteSet({"replay"})
    BY FS_Singleton
  <2>2. AllWriters = (({"scan"} \cup {"mempool"}) \cup {"backfill"}) \cup {"replay"}
    BY DEF AllWriters
  <2> QED BY <2>1, <2>2, FS_Union
<1>3. IsFiniteSet(writers)
  BY <1>1, <1>2, FS_Subset
<1>4. \E w : writers = {w}
  BY <1>3, FS_Singleton
<1> QED BY <1>1, <1>4 DEF OneWriter

-----------------------------------------------------------------------------
(* How the service converges *)

\* The versions that the first m pins of the chain give it.
Upto(m) == {ChainVersion[i] : i \in 1..m}

\* When the service follows the chain.
Follows == ~late /\ crashes = 0 /\ (Linear \/ "mempool" \notin writers)

\* Until a pin is late, the mempool goroutine works on pins that are not mined.
Ahead(p) == \E i \in (mined + 1)..Len(chain) : chain[i] = p
FeedOK ==
    /\ \A p \in queue : Ahead(p)
    /\ phase["mempool"] # "idle" => Ahead(pin["mempool"])
    /\ phase["scan"] # "idle" => pin["scan"] = chain[pos + 1]

\* The pins of which the scan goroutine has written what there is to write.
ScanAt == IF phase["scan"] \in {"index", "mapPin"} THEN pos + 1 ELSE pos

\* A pin that names p finds the service, at the latest when a call returns.
Settled(p) ==
    \/ p = Source \/ p \in mapped
    \/ \E w \in AllWriters : phase[w] \in {"index", "mapPin"} /\ pin[w] = p

\* The record is what the first m pins make of it, and the scan is not further.
RecordAt(m) ==
    /\ m \in 1..Len(chain) /\ m >= ScanAt
    /\ m = ScanAt \/ Linear
    /\ record.cur = ChainVersion[m]
    /\ record.op = "revoke" <=> \E p \in Upto(m) : Op[p] = "revoke"
    /\ \A p \in Upto(m) : Settled(p)

\* w is about to write what the first q pins make of the service, of which the
\* last one follows the version that is stored.
Writes(w, q) ==
    /\ q \in 1..Len(chain) /\ chain[q] = pin[w] /\ ChainVersion[q] = pin[w]
    /\ next[w].cur = pin[w]
    /\ record = NoRecord => q = 1 /\ next[w].op # "revoke"
    /\ record # NoRecord =>
         /\ q > 1 /\ ChainVersion[q - 1] = record.cur
         /\ next[w].op = "revoke" <=> record.op = "revoke" \/ Op[pin[w]] = "revoke"

CreatedOK ==
    /\ ScanAt > 0 => record # NoRecord
    /\ record # NoRecord => \E m \in Nat : RecordAt(m)
    /\ \A w \in AllWriters : phase[w] \in {"delete", "record"} => \E q \in Nat : Writes(w, q)

\* No version of a service can be stored whose create cannot be decoded.
AbsentOK == record = NoRecord /\ \A w \in AllWriters : phase[w] \notin ServicePhases

ConvergeOK ==
    Follows => FeedOK /\ (IF Source \in Valid THEN CreatedOK ELSE AbsentOK)

-----------------------------------------------------------------------------
(* The versions of a chain *)

\* A set of natural numbers has a least element.
LEMMA LeastExists ==
    ASSUME NEW S, S \subseteq Nat, S # {}
    PROVE  \E m \in S : \A k \in S : m <= k
<1>1. IsWellFoundedOn(OpToRel(<, Nat), Nat)
  BY NatLessThanWellFounded
<1>2. PICK m \in S : \A y \in S : <<y, m>> \notin OpToRel(<, Nat)
  BY <1>1, WFMin, Zenon
<1>3. ASSUME NEW k \in S PROVE m <= k
  <2>1. ~(k < m)
    BY <1>2 DEF OpToRel
  <2> QED BY <2>1
<1> QED BY <1>3

\* One step of the fold, and the equation that ChainVersion is chosen to satisfy.
FoldStep(f, i) ==
    IF i = 1 THEN chain[1]
    ELSE IF Changes(chain[i]) /\ Target[chain[i]] = f[i - 1] THEN chain[i] ELSE f[i - 1]
FoldFrom(f) == [i \in 1..Len(chain) |-> FoldStep(f, i)]

\* f satisfies the equation for the first n pins.
FoldsTo(f, n) == \A i \in 1..Len(chain) : i <= n => f[i] = FoldStep(f, i)

\* There is a function that satisfies it for all: otherwise there is a least number
\* of pins for which there is none, and one for fewer pins extends to it.
LEMMA VersionExists ==
    ASSUME Len(chain) \in Nat PROVE ChainVersion = FoldFrom(ChainVersion)
<1>1. ASSUME NEW n \in Nat, NEW f, FoldsTo(f, n) PROVE FoldsTo(FoldFrom(f), n + 1)
  <2> SUFFICES ASSUME NEW i \in 1..Len(chain), i <= n + 1
               PROVE  FoldFrom(f)[i] = FoldStep(FoldFrom(f), i)
    BY DEF FoldsTo
  <2>1. FoldFrom(f)[i] = FoldStep(f, i)
    BY DEF FoldFrom
  <2>2. CASE i = 1
    BY <2>1, <2>2 DEF FoldStep
  <2>3. CASE i # 1
    <3>1. i - 1 \in 1..Len(chain) /\ i - 1 <= n
      BY <2>3
    <3>2. FoldFrom(f)[i - 1] = f[i - 1]
      BY <1>1, <3>1 DEF FoldFrom, FoldsTo
    <3> QED BY <2>1, <3>2 DEF FoldStep
  <2> QED BY <2>2, <2>3
<1> DEFINE S == {n \in Nat : \A f : ~FoldsTo(f, n)}
<1>2. S = {}
  <2> SUFFICES ASSUME S # {} PROVE FALSE
    OBVIOUS
  <2>1. PICK m \in S : \A k \in S : m <= k
    BY LeastExists
  <2>2. CASE m = 0
    <3>1. FoldsTo(chain, 0)
      BY DEF FoldsTo
    <3> QED BY <2>1, <2>2, <3>1
  <2>3. CASE m # 0
    <3>1. m - 1 \in Nat /\ m - 1 \notin S
      BY <2>1, <2>3
    <3>2. PICK f : FoldsTo(f, m - 1)
      BY <3>1
    <3>3. FoldsTo(FoldFrom(f), (m - 1) + 1)
      BY <1>1, <3>1, <3>2
    <3>4. (m - 1) + 1 = m
      BY <2>1
    <3> QED BY <2>1, <3>3, <3>4
  <2> QED BY <2>2, <2>3
<1>3. PICK f : FoldsTo(f, Len(chain))
  BY <1>2
<1> DEFINE g == FoldFrom(f)
<1>4. ASSUME NEW i \in 1..Len(chain) PROVE FoldStep(g, i) = FoldStep(f, i)
  <2>1. FoldsTo(g, Len(chain) + 1)
    BY <1>1, <1>3
  <2>2. g[i] = FoldStep(g, i)
    BY <2>1 DEF FoldsTo
  <2>3. g[i] = FoldStep(f, i)
    BY DEF FoldFrom
  <2> QED BY <2>2, <2>3
<1>5. g = FoldFrom(g)
  BY <1>4 DEF FoldFrom
<1> HIDE DEF g
<1>6. \E h : h = FoldFrom(h)
  BY <1>5
<1> QED BY <1>6 DEF ChainVersion, FoldFrom, FoldStep

\* What is used of the chain: it has pins, they are different, and the first one
\* alone is a create.
LEMMA ChainFacts ==
    ASSUME chain \in Chains
    PROVE  /\ Len(chain) \in Nat /\ Len(chain) > 0
           /\ \A i \in 1..Len(chain) : chain[i] \in Pins /\ (Op[chain[i]] = "create" <=> i = 1)
           /\ \A i, j \in 1..Len(chain) : chain[i] = chain[j] => i = j
<1>1. chain \in Seq(PinsOf(chain)) /\ Len(chain) > 0
  BY FeedAssumption
<1>2. Len(chain) \in Nat
  BY <1>1
<1>3. \A i \in 1..Len(chain) : chain[i] \in Pins
  BY DEF Pins, PinsOf
<1> QED BY <1>1, <1>2, <1>3, SkillAssumption

LEMMA VersionSteps ==
    ASSUME chain \in Chains
    PROVE  /\ ChainVersion[1] = chain[1]
           /\ \A i \in 1..(Len(chain) - 1) :
                ChainVersion[i + 1] =
                    IF Changes(chain[i + 1]) /\ Target[chain[i + 1]] = ChainVersion[i]
                    THEN chain[i + 1] ELSE ChainVersion[i]
<1>1. Len(chain) \in Nat /\ Len(chain) > 0
  BY ChainFacts
<1>2. \A i \in 1..Len(chain) : ChainVersion[i] = FoldStep(ChainVersion, i)
  BY <1>1, VersionExists DEF FoldFrom
<1>3. ChainVersion[1] = chain[1]
  BY <1>1, <1>2 DEF FoldStep
<1>4. ASSUME NEW i \in 1..(Len(chain) - 1)
      PROVE  ChainVersion[i + 1] = FoldStep(ChainVersion, i + 1) /\ i + 1 # 1 /\ (i + 1) - 1 = i
  <2>1. i + 1 \in 1..Len(chain) /\ i + 1 # 1 /\ (i + 1) - 1 = i
    BY <1>1
  <2> QED BY <1>2, <2>1
<1> QED BY <1>3, <1>4 DEF FoldStep

\* A version is a pin of the chain, and is the current one from there on.
LEMMA VersionPlace ==
    ASSUME chain \in Chains, NEW n \in 1..Len(chain)
    PROVE  \E k \in 1..n : \A j \in k..n : ChainVersion[j] = chain[k]
<1> DEFINE Placed(i) == \E k \in 1..i : \A j \in k..i : ChainVersion[j] = chain[k]
           S == {i \in 1..Len(chain) : ~Placed(i)}
<1>0. Len(chain) \in Nat
  BY ChainFacts
<1>1. S = {}
  <2> SUFFICES ASSUME S # {} PROVE FALSE
    OBVIOUS
  <2>0. S \subseteq Nat
    BY <1>0
  <2>1. PICK m \in S : \A i \in S : m <= i
    BY <2>0, LeastExists
  <2>2. CASE m = 1
    <3>1. \A j \in 1..1 : ChainVersion[j] = chain[1]
      BY VersionSteps
    <3>2. Placed(1)
      BY <3>1
    <3> QED BY <2>1, <2>2, <3>2
  <2>3. CASE m # 1
    <3>0. m \in 1..Len(chain)
      OBVIOUS
    <3>1. m - 1 \in 1..Len(chain) /\ m - 1 \in 1..(Len(chain) - 1) /\ (m - 1) + 1 = m /\ ~(m <= m - 1)
      BY <1>0, <2>3, <3>0
    <3>2. Placed(m - 1)
      BY <2>1, <3>1
    <3>6. PICK k \in 1..(m - 1) : \A j \in k..(m - 1) : ChainVersion[j] = chain[k]
      BY <3>2
    <3>3. ChainVersion[m] = chain[m] \/ ChainVersion[m] = ChainVersion[m - 1]
      BY <3>1, VersionSteps
    <3>4. CASE ChainVersion[m] = chain[m]
      <4>1. m \in 1..m /\ \A j \in m..m : ChainVersion[j] = chain[m]
        BY <2>1, <3>4
      <4>2. Placed(m)
        BY <4>1
      <4> QED BY <2>1, <4>2
    <3>5. CASE ChainVersion[m] = ChainVersion[m - 1]
      <4>1. m - 1 \in k..(m - 1)
        BY <3>1, <3>6
      <4>2. ChainVersion[m] = chain[k]
        BY <3>6, <3>5, <4>1
      <4>3. k \in 1..m /\ \A j \in k..m : j \in k..(m - 1) \/ j = m
        BY <3>1, <3>6
      <4>4. Placed(m)
        BY <3>6, <4>2, <4>3
      <4> QED BY <2>1, <4>4
    <3> QED BY <3>3, <3>4, <3>5
  <2> QED BY <2>2, <2>3
<1>2. Placed(n)
  BY <1>1
<1> QED BY <1>2

\* A version does not come back.
LEMMA VersionConstant ==
    ASSUME chain \in Chains, NEW a \in 1..Len(chain), NEW b \in 1..Len(chain), a <= b,
           ChainVersion[a] = ChainVersion[b]
    PROVE  \A i \in a..b : ChainVersion[i] = ChainVersion[a]
<1>0. Len(chain) \in Nat /\ \A i, j \in 1..Len(chain) : chain[i] = chain[j] => i = j
  BY ChainFacts
<1>1. PICK k \in 1..a : \A j \in k..a : ChainVersion[j] = chain[k]
  BY VersionPlace
<1>2. PICK l \in 1..b : \A j \in l..b : ChainVersion[j] = chain[l]
  BY VersionPlace
<1>3. a \in k..a /\ b \in l..b /\ k \in 1..Len(chain) /\ l \in 1..Len(chain)
  BY <1>0
<1>4. chain[k] = chain[l]
  BY <1>1, <1>2, <1>3
<1>5. k = l
  BY <1>0, <1>3, <1>4
<1>6. \A i \in a..b : i \in l..b
  BY <1>3, <1>5
<1> QED BY <1>2, <1>4, <1>1, <1>3, <1>6

LEMMA UptoSame ==
    ASSUME chain \in Chains, NEW a \in 1..Len(chain), NEW b \in 1..Len(chain),
           ChainVersion[a] = ChainVersion[b]
    PROVE  Upto(a) = Upto(b)
<1>0. Len(chain) \in Nat
  BY ChainFacts
<1>1. ASSUME NEW x \in 1..Len(chain), NEW y \in 1..Len(chain), x <= y, ChainVersion[x] = ChainVersion[y]
      PROVE  Upto(x) = Upto(y)
  <2>1. \A i \in x..y : ChainVersion[i] = ChainVersion[x]
    BY <1>1, VersionConstant
  <2>2. \A i \in 1..y : (i \in 1..x \/ i \in x..y) /\ x \in 1..x
    BY <1>0
  <2>3. \A i \in 1..x : i \in 1..y
    BY <1>0, <1>1
  <2>4. \A v \in Upto(y) : v \in Upto(x)
    BY <2>1, <2>2 DEF Upto
  <2>5. \A v \in Upto(x) : v \in Upto(y)
    BY <2>3 DEF Upto
  <2> QED BY <2>4, <2>5
<1>2. a <= b \/ b <= a
  BY <1>0
<1> QED BY <1>1, <1>2

LEMMA UptoStep ==
    ASSUME Len(chain) \in Nat, NEW q \in 1..Len(chain), q > 1
    PROVE  Upto(q) = Upto(q - 1) \cup {ChainVersion[q]}
<1>1. \A i : i \in 1..q <=> i \in 1..(q - 1) \/ i = q
  OBVIOUS
<1> QED BY <1>1 DEF Upto

\* A version has one successor.
LEMMA SameNext ==
    ASSUME chain \in Chains, NEW p \in 1..Len(chain), NEW q \in 1..Len(chain), p > 1, q > 1,
           ChainVersion[p - 1] = ChainVersion[q - 1],
           ChainVersion[p] = chain[p], ChainVersion[q] = chain[q]
    PROVE  p = q
<1>0. Len(chain) \in Nat /\ \A i, j \in 1..Len(chain) : chain[i] = chain[j] => i = j
  BY ChainFacts
<1>1. ASSUME NEW x \in 1..Len(chain), NEW y \in 1..Len(chain), x > 1, x < y,
             ChainVersion[x - 1] = ChainVersion[y - 1], ChainVersion[x] = chain[x]
      PROVE  FALSE
  <2>1. x - 1 \in 1..Len(chain) /\ y - 1 \in 1..Len(chain) /\ x - 1 <= y - 1 /\ x \in (x - 1)..(y - 1)
    BY <1>0, <1>1
  <2>2. ChainVersion[x] = ChainVersion[x - 1]
    BY <1>1, <2>1, VersionConstant
  <2>3. PICK k \in 1..(x - 1) : \A j \in k..(x - 1) : ChainVersion[j] = chain[k]
    BY <2>1, VersionPlace
  <2>4. x - 1 \in k..(x - 1) /\ k \in 1..Len(chain) /\ k # x
    BY <1>0, <2>1
  <2>5. chain[x] = chain[k]
    BY <1>1, <2>2, <2>3, <2>4
  <2> QED BY <1>0, <2>4, <2>5
<1>2. p < q \/ q < p \/ p = q
  BY <1>0
<1> QED BY <1>1, <1>2

\* On a linear chain a pin that names a version is the next one after it.
LEMMA LinearNext ==
    ASSUME chain \in Chains, Linear, NEW m \in 1..Len(chain), NEW q \in 1..Len(chain),
           Changes(chain[q]), Target[chain[q]] = ChainVersion[m]
    PROVE  q > 1 /\ ChainVersion[q - 1] = ChainVersion[m] /\ ChainVersion[q] = chain[q]
<1>0. Len(chain) \in Nat
  BY ChainFacts
<1>1. PICK k \in 1..m : \A j \in k..m : ChainVersion[j] = chain[k]
  BY VersionPlace
<1>2. m \in k..m /\ k \in k..m /\ k \in 1..Len(chain)
  BY <1>0
<1>3. ChainVersion[m] = chain[k] /\ ChainVersion[k] = chain[k]
  BY <1>1, <1>2
<1>4. k < q
  BY <1>2, <1>3 DEF Linear
<1> DEFINE S == {j \in k..(q - 1) : ChainVersion[j] # chain[k]}
<1>5. S = {}
  <2> SUFFICES ASSUME S # {} PROVE FALSE
    OBVIOUS
  <2>0. S \subseteq Nat
    BY <1>0
  <2>1. PICK j \in S : \A i \in S : j <= i
    BY <2>0, LeastExists
  <2>2. j # k
    BY <1>3, <2>1
  <2>3. j - 1 \in k..(q - 1) /\ j - 1 \notin S /\ j - 1 \in 1..(Len(chain) - 1) /\ (j - 1) + 1 = j
        /\ j \in 1..Len(chain) /\ j # q
    BY <1>0, <2>1, <2>2
  <2>4. ChainVersion[j - 1] = chain[k]
    BY <2>3
  <2>5. Changes(chain[j]) /\ Target[chain[j]] = ChainVersion[j - 1]
    BY <2>1, <2>3, <2>4, VersionSteps
  <2> QED BY <1>3, <2>3, <2>4, <2>5 DEF Linear
<1>6. q > 1 /\ q - 1 \in k..(q - 1) /\ q - 1 \in 1..(Len(chain) - 1) /\ (q - 1) + 1 = q
  BY <1>0, <1>2, <1>4
<1>7. ChainVersion[q - 1] = chain[k]
  BY <1>5, <1>6
<1> QED BY <1>3, <1>6, <1>7, VersionSteps

-----------------------------------------------------------------------------
(* What a call makes of the record *)

\* A pin that names the current version replaces it.
LEMMA ProcessChanges ==
    ASSUME NEW p \in Pins, NEW m \in BOOLEAN, NEW previous \in Records,
           Changes(p), Target[p] = previous.cur
    PROVE  LET new == ProcessServicePin(previous, p, m)
           IN  /\ new # NoRecord /\ new.cur = p
               /\ new.op = "revoke" <=> previous.op = "revoke" \/ Op[p] = "revoke"
<1>0. <<p, m>> \in Times /\ previous # NoRecord
  BY SkillAssumption DEF Times
<1>1. CASE Op[p] = "modify"
  <2> DEFINE new == [NewServiceRecord(p, m) EXCEPT
                         !.created = previous.created,
                         !.named = @ \/ previous.named,
                         !.op = IF previous.op = "revoke" THEN "revoke" ELSE @]
  <2>1. ProcessServicePin(previous, p, m) = new
    BY <1>0, <1>1 DEF ProcessServicePin, ProcessServiceModify, Changes
  <2>2. new.cur = p /\ (new.op = "revoke" <=> previous.op = "revoke")
    BY <1>1 DEF NewServiceRecord
  <2>3. NewServiceRecord(p, m) \in Records
    BY <1>0, <1>1 DEF NewServiceRecord, Records
  <2>4. \A x, y \in Records :
            [x EXCEPT !.created = y.created, !.named = @ \/ y.named,
                      !.op = IF y.op = "revoke" THEN "revoke" ELSE @] \in Records
    BY DEF Records
  <2>5. new \in Records
    BY <2>3, <2>4
  <2>6. new # NoRecord
    BY <2>5, SkillAssumption
  <2> QED BY <1>1, <2>1, <2>2, <2>6
<1>2. CASE Op[p] = "revoke"
  <2> DEFINE new == [previous EXCEPT !.op = "revoke", !.cur = p, !.updated = <<p, m>>]
  <2>1. ProcessServicePin(previous, p, m) = new
    BY <1>0, <1>2 DEF ProcessServicePin, ProcessServiceRevoke
  <2>2. new \in Records /\ new.cur = p /\ new.op = "revoke"
    BY <1>0 DEF Records
  <2> QED BY <1>2, <2>1, <2>2, SkillAssumption
<1> QED BY <1>1, <1>2 DEF Changes

\* A create writes the first record.
LEMMA ProcessCreates ==
    ASSUME NEW p \in Pins, NEW m \in BOOLEAN, Op[p] = "create", p \in Valid
    PROVE  LET new == ProcessServicePin(NoRecord, p, m)
           IN  new # NoRecord /\ new.cur = p /\ new.op # "revoke"
<1>0. <<p, m>> \in Times
  BY DEF Times
<1>1. ProcessServicePin(NoRecord, p, m) = NewServiceRecord(p, m)
  BY DEF ProcessServicePin, ProcessServiceCreate
<1>2. NewServiceRecord(p, m) \in Records
  BY <1>0 DEF NewServiceRecord, Records
<1>3. NewServiceRecord(p, m).cur = p /\ NewServiceRecord(p, m).op = "create"
  BY DEF NewServiceRecord
<1> QED BY <1>1, <1>2, <1>3, SkillAssumption

\* Only these two write.
LEMMA ProcessNeeds ==
    ASSUME NEW p \in Pins, NEW m, NEW previous, Op[p] # "rate",
           ProcessServicePin(previous, p, m) # NoRecord
    PROVE  \/ Op[p] = "create" /\ p \in Valid /\ previous = NoRecord
           \/ Changes(p) /\ previous # NoRecord /\ Target[p] = previous.cur
<1>0. Op[p] \in {"create", "modify", "revoke"}
  BY SkillAssumption
<1>1. CASE Op[p] = "create"
  BY <1>1 DEF ProcessServicePin, ProcessServiceCreate
<1>2. CASE Op[p] = "modify"
  BY <1>2 DEF ProcessServicePin, ProcessServiceModify, Changes
<1>3. CASE Op[p] = "revoke"
  BY <1>3 DEF ProcessServicePin, ProcessServiceRevoke, Changes
<1> QED BY <1>0, <1>1, <1>2, <1>3

-----------------------------------------------------------------------------
(* The steps *)

LEMMA ChainFixed ==
    ASSUME chain' = chain
    PROVE  /\ ChainVersion' = ChainVersion /\ (Linear' <=> Linear) /\ Source' = Source
           /\ \A m : Upto(m)' = Upto(m)
<1>1. ChainVersion' = ChainVersion
  BY DEF ChainVersion, Changes
<1> QED BY <1>1 DEF Linear, Changes, Source, Upto

\* The service follows the chain after a step only if it did before.
LEMMA FollowsBefore ==
    ASSUME Inv, [Next]_vars, Follows' PROVE Follows /\ chain' = chain /\ writers' = writers
<1>1. crashes \in Nat /\ late \in BOOLEAN
  BY FeedAssumption DEF Inv, TypeOK, FeedTypeOK
<1>2. /\ chain' = chain /\ writers' = writers
      /\ (crashes' = crashes \/ crashes' = crashes + 1) /\ (late => late')
  <2>1. CASE Mine
    BY <2>1 DEF Mine, MineNext, setup
  <2>2. ASSUME NEW p \in Pins, Poll(p) \/ ProcessPin("scan", p) \/ ProcessPin("mempool", p)
        PROVE  UNCHANGED <<chain, writers, crashes, late>>
    BY <2>2 DEF Poll, PollMempool, ProcessPin, Take, Pass, setup
  <2>3. ASSUME NEW w \in AllWriters, SaveService(w) \/ RatePin(w)
        PROVE  UNCHANGED <<chain, writers, crashes, late>>
    BY <2>3 DEF SaveService, DeleteIndexes, WriteRecord, WriteIndexes, MapPinToSource, Done, RatePin,
                SaveRatingPin, LoadRatingAggregate, BumpRatingAggregate, feedVars, setup
  <2>4. CASE (\E oneChain \in BOOLEAN : ListHomepageByProvider(oneChain))
              \/ BackfillGlobalIndex \/ LearnProfile \/ UNCHANGED vars
    BY <2>4 DEF ListHomepageByProvider, BackfillGlobalIndex, LearnProfile, vars, feedVars
  <2>5. CASE Crash
    BY <2>5 DEF Crash, Restart, setup
  <2> QED BY <2>1, <2>2, <2>3, <2>4, <2>5 DEF Next
<1>3. Linear' <=> Linear
  BY <1>2, ChainFixed
<1> QED BY <1>1, <1>2, <1>3 DEF Follows

\* A goroutine's pin is in the chain: the next one for the scan, one that is not
\* mined for the mempool.
LEMMA PinPlace ==
    ASSUME Inv, FeedOK, NEW w \in AllWriters, phase[w] # "idle"
    PROVE  \E q \in 1..Len(chain) :
               chain[q] = pin[w] /\ (w = "scan" => q = pos + 1) /\ (w # "scan" => q > mined)
<1>0. Len(chain) \in Nat /\ mined \in 0..Len(chain) /\ pos \in 0..mined
  BY ChainFacts DEF Inv, TypeOK, FeedTypeOK
<1>1. CASE w = "scan"
  <2>1. pos + 1 \in 1..Len(chain)
    BY <1>0, <1>1 DEF Inv, OnlyWritersCall
  <2> QED BY <1>1, <2>1 DEF FeedOK
<1>2. CASE w # "scan"
  <2>1. w = "mempool"
    BY <1>2 DEF Inv, OnlyWritersCall
  <2>2. PICK i \in (mined + 1)..Len(chain) : chain[i] = pin["mempool"]
    BY <2>1 DEF FeedOK, Ahead
  <2>3. i \in 1..Len(chain) /\ i > mined
    BY <1>0
  <2> QED BY <2>1, <2>2, <2>3
<1> QED BY <1>1, <1>2

\* The two goroutines are not both about to write the record: it would be with the
\* same pin, which cannot be mined and not mined.
LEMMA OneSaves ==
    ASSUME Inv, FeedOK, CreatedOK, NEW v \in AllWriters, NEW w \in AllWriters,
           phase[v] \in {"delete", "record"}, phase[w] \in {"delete", "record"}
    PROVE  v = w
<1> SUFFICES ASSUME v # w PROVE FALSE
  OBVIOUS
<1>0. /\ Len(chain) \in Nat /\ mined \in 0..Len(chain) /\ pos \in 0..mined /\ chain \in Chains
      /\ \A i, j \in 1..Len(chain) : chain[i] = chain[j] => i = j
  BY ChainFacts DEF Inv, TypeOK, FeedTypeOK
<1>1. PICK p \in Nat : Writes(v, p)
  BY DEF CreatedOK
<1>2. PICK q \in Nat : Writes(w, q)
  BY DEF CreatedOK
<1>3. p \in 1..Len(chain) /\ q \in 1..Len(chain) /\ chain[p] = pin[v] /\ chain[q] = pin[w]
  BY <1>1, <1>2 DEF Writes
<1>4. p = q
  <2>1. CASE record = NoRecord
    BY <1>1, <1>2, <2>1 DEF Writes
  <2>2. CASE record # NoRecord
    <3>1. /\ p > 1 /\ q > 1 /\ ChainVersion[p - 1] = ChainVersion[q - 1]
          /\ ChainVersion[p] = chain[p] /\ ChainVersion[q] = chain[q]
      BY <1>1, <1>2, <2>2 DEF Writes
    <3> QED BY <1>0, <1>3, <3>1, SameNext
  <2> QED BY <2>1, <2>2
<1>5. (v = "scan" /\ w = "mempool") \/ (v = "mempool" /\ w = "scan")
  BY DEF Inv, OnlyWritersCall
<1>6. PICK i \in 1..Len(chain) :
          chain[i] = pin[v] /\ (v = "scan" => i = pos + 1) /\ (v # "scan" => i > mined)
  BY PinPlace
<1>7. PICK j \in 1..Len(chain) :
          chain[j] = pin[w] /\ (w = "scan" => j = pos + 1) /\ (w # "scan" => j > mined)
  BY PinPlace
<1>8. i = j
  BY <1>0, <1>3, <1>4, <1>6, <1>7
<1>9. phase["scan"] # "idle" /\ pos < mined
  BY <1>5 DEF Inv, OnlyWritersCall
<1> QED BY <1>0, <1>5, <1>6, <1>7, <1>8, <1>9

\* A step that leaves the record and what the scan has written.
LEMMA KeepCreated ==
    ASSUME CreatedOK, chain' = chain, record' = record, ScanAt' = ScanAt,
           \A p : Settled(p) => Settled(p)',
           \A w \in AllWriters : phase'[w] \in {"delete", "record"} =>
               phase[w] \in {"delete", "record"} /\ pin'[w] = pin[w] /\ next'[w] = next[w]
    PROVE  CreatedOK'
<1>0. /\ ChainVersion' = ChainVersion /\ (Linear' <=> Linear) /\ Source' = Source
      /\ \A m : Upto(m)' = Upto(m)
  BY ChainFixed
<1>1. \A m \in Nat : RecordAt(m) => RecordAt(m)'
  BY <1>0 DEF RecordAt
<1>2. ASSUME NEW w \in AllWriters, phase'[w] \in {"delete", "record"} PROVE \E q \in Nat : Writes(w, q)'
  <2>1. PICK q \in Nat : Writes(w, q)
    BY <1>2 DEF CreatedOK
  <2>2. Writes(w, q)'
    BY <1>0, <1>2, <2>1 DEF Writes
  <2> QED BY <2>2
<1> QED BY <1>1, <1>2 DEF CreatedOK

\* The scan goes on behind a pin that leaves the version as it is.
LEMMA AdvanceCreated ==
    ASSUME Inv, CreatedOK, chain' = chain, record' = record, record # NoRecord,
           pos + 1 \in 1..Len(chain), ScanAt = pos, ScanAt' = pos + 1,
           pos > 0 /\ record.cur = ChainVersion[pos] => ChainVersion[pos + 1] = ChainVersion[pos],
           \A p : Settled(p) => Settled(p)',
           \A w \in AllWriters : phase'[w] \in {"delete", "record"} =>
               phase[w] \in {"delete", "record"} /\ pin'[w] = pin[w] /\ next'[w] = next[w]
    PROVE  CreatedOK'
<1>0. /\ ChainVersion' = ChainVersion /\ (Linear' <=> Linear) /\ Source' = Source
      /\ \A m : Upto(m)' = Upto(m)
  BY ChainFixed
<1>1. pos \in Nat /\ Len(chain) \in Nat /\ chain \in Chains
  BY ChainFacts DEF Inv, TypeOK, FeedTypeOK
<1>2. PICK m \in Nat : RecordAt(m)
  BY DEF CreatedOK
<1>3. \E n \in Nat : RecordAt(n)'
  <2>1. CASE m = pos
    <3>1. pos > 0 /\ pos \in 1..Len(chain) /\ ChainVersion[pos + 1] = ChainVersion[pos]
      BY <1>1, <1>2, <2>1 DEF RecordAt
    <3>2. Upto(pos + 1) = Upto(pos)
      BY <1>1, <3>1, UptoSame
    <3>3. PICK n \in Nat : n = pos + 1
      BY <1>1
    <3>4. RecordAt(n)'
      BY <1>0, <1>1, <1>2, <2>1, <3>1, <3>2, <3>3 DEF RecordAt
    <3> QED BY <3>4
  <2>2. CASE m # pos
    <3>1. m >= pos + 1 /\ Linear
      BY <1>1, <1>2, <2>2 DEF RecordAt
    <3>2. RecordAt(m)'
      BY <1>0, <1>2, <3>1 DEF RecordAt
    <3> QED BY <3>2
  <2> QED BY <2>1, <2>2
<1>4. ASSUME NEW w \in AllWriters, phase'[w] \in {"delete", "record"} PROVE \E q \in Nat : Writes(w, q)'
  <2>1. PICK q \in Nat : Writes(w, q)
    BY <1>4 DEF CreatedOK
  <2>2. Writes(w, q)'
    BY <1>0, <1>4, <2>1 DEF Writes
  <2> QED BY <2>2
<1> QED BY <1>3, <1>4 DEF CreatedOK

LEMMA FeedStepOK ==
    ASSUME Inv, FeedOK, [Next]_vars, Follows, Follows', chain' = chain PROVE FeedOK'
<1>0. /\ Len(chain) \in Nat /\ mined \in 0..Len(chain) /\ pos \in 0..mined
      /\ phase \in [AllWriters -> Phases] /\ pin \in [AllWriters -> Pins \cup {NoPin}]
      /\ {"scan", "mempool"} \subseteq AllWriters
  BY ChainFacts DEF Inv, TypeOK, FeedTypeOK, AllWriters
<1>1. ASSUME mined' = mined, queue' \subseteq queue \/ \E p : Ahead(p) /\ queue' = queue \cup {p},
             phase'["mempool"] # "idle" =>
                 Ahead(pin'["mempool"]) \/ (phase["mempool"] # "idle" /\ pin'["mempool"] = pin["mempool"]),
             phase'["scan"] # "idle" => pin'["scan"] = chain[pos' + 1]
      PROVE  FeedOK'
  <2>1. \A p : Ahead(p) => Ahead(p)'
    BY <1>1 DEF Ahead
  <2>2. phase'["mempool"] # "idle" => Ahead(pin["mempool"])'
    BY <1>1 DEF FeedOK, Ahead
  <2> QED BY <1>1, <2>1, <2>2 DEF FeedOK
<1>2. CASE Mine
  <2>1. /\ mined' = mined + 1 /\ chain[mined + 1] \notin queue \cup {pin["mempool"]}
        /\ UNCHANGED <<pos, queue, phase, pin>>
    <3>1. late' = (late \/ chain[mined + 1] \in queue \cup {pin["mempool"]}) /\ ~late'
      BY <1>2 DEF Mine, MineNext, Follows
    <3> QED BY <1>2, <3>1 DEF Mine, MineNext, callVars
  <2>2. ASSUME NEW p, Ahead(p), p # chain[mined + 1] PROVE \E i \in (mined' + 1)..Len(chain) : chain[i] = p
    <3>1. PICK i \in (mined + 1)..Len(chain) : chain[i] = p
      BY <2>2 DEF Ahead
    <3>2. i \in (mined' + 1)..Len(chain)
      BY <1>0, <2>1, <2>2, <3>1
    <3> QED BY <3>1, <3>2
  <2> QED BY <2>1, <2>2 DEF FeedOK, Ahead
<1>3. ASSUME NEW p \in Pins, Poll(p) PROVE FeedOK'
  <2>1. Ahead(p) /\ queue' = queue \cup {p} /\ UNCHANGED <<mined, pos, phase, pin>>
    BY <1>3 DEF Poll, PollMempool, Ahead, callVars
  <2> QED BY <1>1, <2>1 DEF FeedOK
<1>4. ASSUME NEW w \in {"scan", "mempool"}, NEW p \in Pins, ProcessPin(w, p) PROVE FeedOK'
  <2>1. /\ w = "scan" => p = chain[pos + 1]
        /\ w = "mempool" => p \in queue
        /\ mined' = mined /\ queue' \subseteq queue
    BY <1>4 DEF ProcessPin, Offered, ScanOffers, MempoolOffers, Take, Pass
  <2>2. CASE (BeginService(w, p) \/ BeginRating(w, p)) /\ Take(w, p)
    <3>1. /\ pos' = pos /\ pin' = [pin EXCEPT ![w] = p] /\ phase[w] = "idle"
          /\ \A v \in AllWriters : v # w => phase'[v] = phase[v]
      BY <1>0, <2>2 DEF BeginService, BeginRating, Take
    <3>2. pin'[w] = p /\ \A v \in AllWriters : v # w => pin'[v] = pin[v]
      BY <1>0, <3>1
    <3> QED BY <1>0, <1>1, <2>1, <3>1, <3>2 DEF FeedOK
  <2>3. CASE Ignored(w, p) /\ Pass(w, p) /\ UNCHANGED callVars
    <3>1. phase[w] = "idle" /\ UNCHANGED <<phase, pin>> /\ (w # "scan" => pos' = pos)
      BY <2>3 DEF Ignored, Pass, Advance, callVars
    <3> QED BY <1>0, <1>1, <2>1, <3>1 DEF FeedOK
  <2> QED BY <1>4, <2>2, <2>3 DEF ProcessPin
<1>5. ASSUME NEW w \in AllWriters, SaveService(w) \/ RatePin(w) PROVE FeedOK'
  <2>1. /\ phase[w] # "idle" /\ mined' = mined /\ queue' = queue
        /\ \/ pos' = pos /\ pin' = pin /\ \A v \in AllWriters : v # w => phase'[v] = phase[v]
           \/ EndCall(w) /\ (w # "scan" => pos' = pos)
    BY <1>0, <1>5 DEF SaveService, RatePin, DeleteIndexes, WriteRecord, WriteIndexes, MapPinToSource,
                SaveRatingPin, LoadRatingAggregate, BumpRatingAggregate, Done, Advance, feedVars
  <2>2. CASE pos' = pos /\ pin' = pin /\ \A v \in AllWriters : v # w => phase'[v] = phase[v]
    BY <1>0, <1>1, <2>1, <2>2 DEF FeedOK
  <2>3. CASE EndCall(w) /\ (w # "scan" => pos' = pos)
    <3>1. phase'[w] = "idle" /\ \A v \in AllWriters : v # w => phase'[v] = phase[v] /\ pin'[v] = pin[v]
      BY <1>0, <2>3 DEF EndCall
    <3> QED BY <1>0, <1>1, <2>1, <2>3, <3>1 DEF FeedOK
  <2> QED BY <2>1, <2>2, <2>3
<1>6. CASE (\E oneChain \in BOOLEAN : ListHomepageByProvider(oneChain))
            \/ BackfillGlobalIndex \/ LearnProfile \/ UNCHANGED vars
  <2>1. UNCHANGED <<mined, pos, queue, phase, pin>>
    BY <1>6 DEF ListHomepageByProvider, BackfillGlobalIndex, LearnProfile, vars, feedVars, callVars
  <2> QED BY <1>1, <2>1 DEF FeedOK
<1>7. ~Crash
  <2>1. crashes = 0 /\ crashes' = 0
    BY DEF Follows
  <2> QED BY <2>1 DEF Crash, Restart
<1> QED BY <1>2, <1>3, <1>4, <1>5, <1>6, <1>7 DEF Next

\* A pin that the scan passes leaves the version as it is.
LEMMA IgnoredKeeps ==
    ASSUME Inv, FeedOK, CreatedOK, Source \in Valid, NEW p \in Pins, ScanOffers(p), Ignored("scan", p)
    PROVE  /\ record # NoRecord
           /\ pos > 0 /\ record.cur = ChainVersion[pos] => ChainVersion[pos + 1] = ChainVersion[pos]
<1>0. /\ Len(chain) \in Nat /\ mined \in 0..Len(chain) /\ pos \in 0..mined /\ chain \in Chains
      /\ pos < mined /\ p = chain[pos + 1] /\ phase["scan"] = "idle"
      /\ record \in Records \cup {NoRecord}
  BY ChainFacts DEF Inv, TypeOK, FeedTypeOK, ScanOffers, Ignored
<1>1. pos + 1 \in 1..Len(chain) /\ (pos > 0 => pos \in 1..Len(chain) /\ pos \in 1..(Len(chain) - 1))
      /\ (pos = 0 => pos + 1 = 1)
  BY <1>0
<1>2. /\ \A i \in 1..Len(chain) : chain[i] \in Pins /\ (Op[chain[i]] = "create" <=> i = 1)
      /\ \A i, j \in 1..Len(chain) : chain[i] = chain[j] => i = j
  BY <1>0, ChainFacts
<1>3. ScanAt = pos
  BY <1>0 DEF ScanAt
<1>4. CASE pos = 0
  <2>1. p = Source /\ Op[p] = "create"
    BY <1>0, <1>1, <1>2, <1>4 DEF Source
  <2>2. ProcessServicePin(record, p, "scan" = "mempool") = NoRecord
    BY <2>1 DEF Ignored, Loaded
  <2>3. ("scan" = "mempool") \in BOOLEAN
    OBVIOUS
  <2>4. ProcessServicePin(NoRecord, p, "scan" = "mempool") # NoRecord
    BY <2>1, <2>3, ProcessCreates
  <2>5. record # NoRecord
    BY <2>2, <2>4
  <2> QED BY <1>4, <2>5
<1>5. CASE pos > 0
  <2>1. record # NoRecord /\ record \in Records
    BY <1>0, <1>3, <1>5 DEF CreatedOK
  <2>2. ASSUME record.cur = ChainVersion[pos], Changes(p), Target[p] = ChainVersion[pos] PROVE FALSE
    <3>1. PICK m \in Nat : RecordAt(m)
      BY <2>1 DEF CreatedOK
    <3>2. ChainVersion[m] = ChainVersion[pos] /\ m \in 1..Len(chain)
      BY <2>2, <3>1 DEF RecordAt
    <3>3. ChainVersion[m] \in Upto(m)
      BY <3>2 DEF Upto
    <3>4. Settled(Target[p])
      BY <2>2, <3>1, <3>2, <3>3 DEF RecordAt
    <3>5. Op[p] # "create" /\ Op[p] # "rate"
      BY <2>2 DEF Changes
    <3>6. Loaded(p) = NoRecord
      <4>1. ProcessServicePin(Loaded(p), p, "scan" = "mempool") = NoRecord
        BY <3>5 DEF Ignored
      <4>2. ("scan" = "mempool") \in BOOLEAN
        OBVIOUS
      <4>3. ProcessServicePin(record, p, "scan" = "mempool") # NoRecord
        <5>1. Target[p] = record.cur
          BY <2>2
        <5> QED BY <2>1, <2>2, <4>2, <5>1, ProcessChanges, Zenon
      <4>4. Loaded(p) # record
        BY <4>1, <4>3
      <4> QED BY <3>5, <4>4 DEF Loaded, LoadServiceByAnyPinId
    <3>7. Target[p] # Source /\ Target[p] \notin mapped
      BY <2>1, <3>5, <3>6 DEF Loaded, LoadServiceByAnyPinId
    <3>8. PICK w \in AllWriters : phase[w] \in {"index", "mapPin"} /\ pin[w] = Target[p]
      BY <3>4, <3>7 DEF Settled
    <3>9. PICK q \in 1..Len(chain) : chain[q] = pin[w] /\ (w # "scan" => q > mined)
      BY <3>8, PinPlace
    <3>10. q > mined
      BY <1>0, <3>8, <3>9
    <3>11. PICK k \in 1..pos : \A j \in k..pos : ChainVersion[j] = chain[k]
      BY <1>0, <1>1, <1>5, VersionPlace
    <3>12. pos \in k..pos /\ k \in 1..Len(chain) /\ k # q
      BY <1>0, <1>5, <3>10
    <3>13. chain[k] = chain[q]
      BY <2>2, <3>8, <3>9, <3>11, <3>12
    <3> QED BY <1>2, <3>12, <3>13
  <2>3. record.cur = ChainVersion[pos] => ChainVersion[pos + 1] = ChainVersion[pos]
    BY <1>0, <1>1, <1>5, <2>2, VersionSteps
  <2> QED BY <2>1, <2>3
<1> QED BY <1>0, <1>4, <1>5

\* A call begins and will write what the chain has next.
LEMMA BeginWrites ==
    ASSUME Inv, Follows, FeedOK, CreatedOK, NEW w \in {"scan", "mempool"}, w \in writers,
           NEW p \in Pins, NEW q \in 1..Len(chain), chain[q] = p, w = "scan" => q = pos + 1,
           phase[w] = "idle", Op[p] # "rate",
           ProcessServicePin(Loaded(p), p, w = "mempool") # NoRecord
    PROVE  LET new == ProcessServicePin(Loaded(p), p, w = "mempool")
           IN  /\ ChainVersion[q] = p /\ new.cur = p
               /\ record = NoRecord => q = 1 /\ new.op # "revoke"
               /\ record # NoRecord =>
                    /\ q > 1 /\ ChainVersion[q - 1] = record.cur
                    /\ new.op = "revoke" <=> record.op = "revoke" \/ Op[p] = "revoke"
<1>0. /\ Len(chain) \in Nat /\ pos \in Nat /\ chain \in Chains
      /\ record \in Records \cup {NoRecord} /\ (w = "mempool") \in BOOLEAN
      /\ \A i \in 1..Len(chain) : chain[i] \in Pins /\ (Op[chain[i]] = "create" <=> i = 1)
  BY ChainFacts DEF Inv, TypeOK, FeedTypeOK
<1>1. Loaded(p) = record
  BY LoadedIsRecord
<1>2. \/ Op[p] = "create" /\ p \in Valid /\ record = NoRecord
      \/ Changes(p) /\ record # NoRecord /\ Target[p] = record.cur
  BY <1>1, ProcessNeeds
<1>3. CASE Op[p] = "create" /\ p \in Valid /\ record = NoRecord
  <2>1. q = 1
    BY <1>0, <1>3
  <2>2. ChainVersion[q] = p
    BY <1>0, <2>1, VersionSteps
  <2>3. LET new == ProcessServicePin(record, p, w = "mempool") IN new.cur = p /\ new.op # "revoke"
    BY <1>0, <1>3, ProcessCreates
  <2> QED BY <1>1, <1>3, <2>1, <2>2, <2>3
<1>4. CASE Changes(p) /\ record # NoRecord /\ Target[p] = record.cur
  <2>1. PICK m \in Nat : RecordAt(m)
    BY <1>4 DEF CreatedOK
  <2>2. m \in 1..Len(chain) /\ ChainVersion[m] = record.cur
    BY <2>1 DEF RecordAt
  <2>3. q > 1 /\ ChainVersion[q - 1] = record.cur /\ ChainVersion[q] = p
    <3>1. CASE Linear
      BY <1>0, <1>4, <2>2, <3>1, LinearNext
    <3>2. CASE ~Linear
      <4>1. w = "scan" /\ m = ScanAt /\ ScanAt = pos
        BY <2>1, <3>2 DEF Follows, RecordAt, ScanAt
      <4>2. q > 1 /\ m = q - 1 /\ q - 1 \in 1..(Len(chain) - 1) /\ (q - 1) + 1 = q
        BY <1>0, <2>2, <4>1
      <4> QED BY <1>0, <1>4, <2>2, <4>2, VersionSteps
    <3> QED BY <3>1, <3>2
  <2>4. record \in Records
    BY <1>0, <1>4
  <2>5. LET new == ProcessServicePin(record, p, w = "mempool")
        IN  new.cur = p /\ (new.op = "revoke" <=> record.op = "revoke" \/ Op[p] = "revoke")
    <3>1. PICK b \in BOOLEAN : b = (w = "mempool")
      BY <1>0
    <3>2. LET new == ProcessServicePin(record, p, b)
          IN  new.cur = p /\ (new.op = "revoke" <=> record.op = "revoke" \/ Op[p] = "revoke")
      BY <1>4, <2>4, ProcessChanges
    <3> QED BY <3>1, <3>2
  <2> QED BY <1>1, <1>4, <2>3, <2>5
<1> QED BY <1>2, <1>3, <1>4

LEMMA ProcessConverges ==
    ASSUME Inv, Follows, FeedOK, IF Source \in Valid THEN CreatedOK ELSE AbsentOK,
           NEW w \in {"scan", "mempool"}, NEW p \in Pins, ProcessPin(w, p), chain' = chain
    PROVE  IF Source \in Valid THEN CreatedOK' ELSE AbsentOK'
<1>0. /\ Len(chain) \in Nat /\ mined \in 0..Len(chain) /\ pos \in 0..mined /\ chain \in Chains
      /\ phase \in [AllWriters -> Phases] /\ pin \in [AllWriters -> Pins \cup {NoPin}]
      /\ next \in [AllWriters -> Records \cup {NoRecord}]
      /\ {"scan", "mempool"} \subseteq AllWriters /\ w \in AllWriters
  BY ChainFacts DEF Inv, TypeOK, FeedTypeOK, AllWriters
<1>1. record' = record /\ mapped' = mapped /\ phase[w] = "idle" /\ w \in writers
  BY DEF ProcessPin, serviceVars, BeginService, BeginRating, Ignored, Offered, ScanOffers,
         MempoolOffers, Inv, OnlyWritersCall
<1>2. PICK q \in 1..Len(chain) : chain[q] = p /\ (w = "scan" => q = pos + 1 /\ ScanOffers(p))
  <2>1. CASE w = "scan"
    <3>1. ScanOffers(p)
      BY <2>1 DEF ProcessPin, Offered
    <3>2. pos + 1 \in 1..Len(chain) /\ chain[pos + 1] = p
      BY <1>0, <3>1 DEF ScanOffers
    <3> QED BY <3>1, <3>2
  <2>2. CASE w = "mempool"
    <3>1. p \in queue
      BY <2>2 DEF ProcessPin, Offered, MempoolOffers
    <3>2. PICK i \in (mined + 1)..Len(chain) : chain[i] = p
      BY <3>1 DEF FeedOK, Ahead
    <3>3. i \in 1..Len(chain)
      BY <1>0
    <3> QED BY <2>2, <3>2, <3>3
  <2> QED BY <2>1, <2>2
<1>3. Source' = Source
  BY DEF Source
<1>4. ASSUME \A v \in AllWriters : phase[v] \in {"index", "mapPin"} => phase'[v] = phase[v] /\ pin'[v] = pin[v]
      PROVE  \A x : Settled(x) => Settled(x)'
  BY <1>1, <1>3, <1>4 DEF Settled
<1>5. CASE BeginService(w, p) /\ Take(w, p)
  <2> DEFINE new == ProcessServicePin(Loaded(p), p, w = "mempool")
  <2>1. /\ new # NoRecord /\ Op[p] # "rate" /\ pos' = pos
        /\ phase' = [phase EXCEPT ![w] = "delete"]
        /\ pin' = [pin EXCEPT ![w] = p]
        /\ next' = [next EXCEPT ![w] = new]
    BY <1>5 DEF BeginService, Take
  <2>2. CASE Source \in Valid
    <3>1. CreatedOK
      BY <2>2
    <3>2. /\ ChainVersion[q] = p /\ new.cur = p
          /\ record = NoRecord => q = 1 /\ new.op # "revoke"
          /\ record # NoRecord =>
               /\ q > 1 /\ ChainVersion[q - 1] = record.cur
               /\ new.op = "revoke" <=> record.op = "revoke" \/ Op[p] = "revoke"
      BY <1>1, <1>2, <2>1, <3>1, BeginWrites
    <3> HIDE DEF new
    <3>3. /\ phase'[w] = "delete" /\ pin'[w] = p /\ next'[w] = new
          /\ \A v \in AllWriters : v # w =>
                 phase'[v] = phase[v] /\ pin'[v] = pin[v] /\ next'[v] = next[v]
      BY <1>0, <2>1
    <3>4. \A x : Settled(x) => Settled(x)'
      BY <1>1, <1>4, <3>3
    <3>5. ScanAt' = ScanAt
      BY <1>0, <1>1, <2>1, <3>3 DEF ScanAt
    <3>6. /\ ChainVersion' = ChainVersion /\ (Linear' <=> Linear) /\ \A m : Upto(m)' = Upto(m)
      BY ChainFixed
    <3>7. \A m \in Nat : RecordAt(m) => RecordAt(m)'
      BY <1>1, <3>4, <3>5, <3>6 DEF RecordAt
    <3>8. ASSUME NEW v \in AllWriters, phase'[v] \in {"delete", "record"} PROVE \E n \in Nat : Writes(v, n)'
      <4>1. CASE v = w
        <5>1. Writes(w, q)'
          BY <1>0, <1>1, <1>2, <3>2, <3>3, <3>6 DEF Writes
        <5>2. q \in Nat
          BY <1>0
        <5> QED BY <4>1, <5>1, <5>2
      <4>2. CASE v # w
        <5>1. PICK n \in Nat : Writes(v, n)
          BY <3>1, <3>3, <3>8, <4>2 DEF CreatedOK
        <5>2. Writes(v, n)'
          BY <1>1, <3>3, <3>6, <4>2, <5>1 DEF Writes
        <5> QED BY <5>2
      <4> QED BY <4>1, <4>2
    <3> QED BY <1>1, <2>2, <3>1, <3>5, <3>7, <3>8 DEF CreatedOK
  <2>3. CASE Source \notin Valid
    <3>1. record = NoRecord
      BY <2>3 DEF AbsentOK
    <3>2. Op[p] = "create" /\ p \in Valid
      BY <2>1, <3>1, LoadedIsRecord, ProcessNeeds
    <3>3. q = 1
      BY <1>0, <1>2, <3>2, ChainFacts
    <3> QED BY <1>2, <2>3, <3>2, <3>3 DEF Source
  <2> QED BY <2>2, <2>3
<1>6. CASE BeginRating(w, p) /\ Take(w, p)
  <2>1. /\ pos' = pos /\ phase' = [phase EXCEPT ![w] = "saveRating"]
        /\ pin' = [pin EXCEPT ![w] = p] /\ next' = next
    BY <1>6 DEF BeginRating, Take
  <2>2. /\ phase'[w] = "saveRating"
        /\ \A v \in AllWriters : v # w => phase'[v] = phase[v] /\ pin'[v] = pin[v] /\ next'[v] = next[v]
    BY <1>0, <2>1
  <2>3. \A x : Settled(x) => Settled(x)'
    BY <1>1, <1>4, <2>2
  <2>4. ScanAt' = ScanAt
    BY <1>0, <1>1, <2>1, <2>2 DEF ScanAt
  <2>5. CreatedOK => CreatedOK'
    BY <1>1, <2>2, <2>3, <2>4, KeepCreated
  <2>6. AbsentOK => AbsentOK'
    BY <1>1, <2>2 DEF AbsentOK, ServicePhases
  <2> QED BY <2>5, <2>6
<1>7. CASE Ignored(w, p) /\ Pass(w, p) /\ UNCHANGED callVars
  <2>1. /\ UNCHANGED <<phase, pin, next>>
        /\ w # "scan" => pos' = pos
        /\ w = "scan" => pos' = pos + 1
    BY <1>7 DEF Pass, Advance, callVars
  <2>2. \A x : Settled(x) => Settled(x)'
    BY <1>4, <2>1
  <2>3. AbsentOK => AbsentOK'
    BY <1>1, <2>1 DEF AbsentOK
  <2>4. CASE w = "scan"
    <3>1. ASSUME Source \in Valid PROVE CreatedOK'
      <4>1. CreatedOK
        BY <3>1
      <4>2. ScanAt = pos /\ ScanAt' = pos + 1
        BY <1>1, <2>1, <2>4 DEF ScanAt
      <4>3. /\ record # NoRecord
            /\ pos > 0 /\ record.cur = ChainVersion[pos] => ChainVersion[pos + 1] = ChainVersion[pos]
        BY <1>2, <1>7, <2>4, <3>1, <4>1, IgnoredKeeps
      <4>4. pos + 1 \in 1..Len(chain)
        BY <1>2, <2>4
      <4> QED BY <1>1, <2>1, <2>2, <4>1, <4>2, <4>3, <4>4, AdvanceCreated
    <3> QED BY <2>3, <3>1
  <2>5. CASE w = "mempool"
    <3>1. ScanAt' = ScanAt
      BY <2>1, <2>5 DEF ScanAt
    <3>2. CreatedOK => CreatedOK'
      BY <1>1, <2>1, <2>2, <3>1, KeepCreated
    <3> QED BY <2>3, <3>2
  <2> QED BY <2>4, <2>5
<1> QED BY <1>5, <1>6, <1>7 DEF ProcessPin

\* The record is written: the service is now at the version of the call's pin.
LEMMA WriteConverges ==
    ASSUME Inv, Follows, FeedOK, CreatedOK, NEW w \in AllWriters, WriteRecord(w)
    PROVE  CreatedOK'
<1>0. /\ Len(chain) \in Nat /\ mined \in 0..Len(chain) /\ pos \in 0..mined /\ chain \in Chains
      /\ phase \in [AllWriters -> Phases] /\ "scan" \in AllWriters
      /\ \A i \in 1..Len(chain) : chain[i] \in Pins /\ (Op[chain[i]] = "create" <=> i = 1)
      /\ \A i, j \in 1..Len(chain) : chain[i] = chain[j] => i = j
  BY ChainFacts DEF Inv, TypeOK, FeedTypeOK, AllWriters
<1>1. /\ phase[w] = "record" /\ record' = next[w] /\ phase' = [phase EXCEPT ![w] = "index"]
      /\ UNCHANGED <<chain, pos, mapped, pin, next>>
  BY DEF WriteRecord, feedVars
<1>2. phase'[w] = "index" /\ \A v \in AllWriters : v # w => phase'[v] = phase[v]
  BY <1>0, <1>1
<1>3. next[w] # NoRecord /\ w \in writers /\ w \in {"scan", "mempool"}
      /\ (phase["scan"] # "idle" => pos < mined)
  BY <1>1 DEF Inv, CallsOK, OnlyWritersCall, ServicePhases
<1>4. PICK q \in Nat : Writes(w, q)
  BY <1>1 DEF CreatedOK
<1>5. q \in 1..Len(chain) /\ chain[q] = pin[w] /\ ChainVersion[q] = pin[w] /\ next[w].cur = pin[w]
  BY <1>4 DEF Writes
<1>6. /\ ChainVersion' = ChainVersion /\ (Linear' <=> Linear) /\ Source' = Source
      /\ \A m : Upto(m)' = Upto(m)
  BY <1>1, ChainFixed
<1>7. (w = "scan" => q = pos + 1) /\ (w # "scan" => q > mined)
  <2>1. PICK i \in 1..Len(chain) :
            chain[i] = pin[w] /\ (w = "scan" => i = pos + 1) /\ (w # "scan" => i > mined)
    BY <1>1, PinPlace
  <2>2. i = q
    BY <1>0, <1>5, <2>1
  <2> QED BY <2>1, <2>2
<1>8. q >= ScanAt' /\ (q = ScanAt' \/ Linear)
  <2>1. CASE w = "scan"
    BY <1>0, <1>1, <1>2, <1>7, <2>1 DEF ScanAt
  <2>2. CASE w # "scan"
    <3>1. Linear
      BY <1>3, <2>2 DEF Follows
    <3>2. phase'["scan"] = phase["scan"]
      BY <1>0, <1>2, <2>2
    <3>3. ScanAt' <= mined
      BY <1>0, <1>1, <1>3, <3>2 DEF ScanAt
    <3>4. ScanAt' \in Int
      BY <1>0, <1>1 DEF ScanAt
    <3> QED BY <1>0, <1>7, <2>2, <3>1, <3>3, <3>4
  <2> QED BY <2>1, <2>2
<1>9. Settled(pin[w])' /\ \A p : Settled(p) => Settled(p)'
  <2>1. \A v \in AllWriters : phase[v] \in {"index", "mapPin"} => phase'[v] \in {"index", "mapPin"}
    BY <1>1, <1>2
  <2> QED BY <1>1, <1>2, <1>6, <2>1 DEF Settled
<1>10. /\ next[w].op = "revoke" <=> \E p \in Upto(q) : Op[p] = "revoke"
       /\ \A p \in Upto(q) : Settled(p) \/ p = pin[w]
  <2>1. CASE record = NoRecord
    <3>1. q = 1 /\ next[w].op # "revoke"
      BY <1>4, <2>1 DEF Writes
    <3>2. \A i : i \in 1..q <=> i = q
      BY <3>1
    <3>3. Upto(q) = {pin[w]}
      BY <1>5, <3>2 DEF Upto
    <3>4. Op[pin[w]] = "create"
      BY <1>0, <1>5, <3>1
    <3> QED BY <3>1, <3>3, <3>4
  <2>2. CASE record # NoRecord
    <3>1. /\ q > 1 /\ ChainVersion[q - 1] = record.cur
          /\ next[w].op = "revoke" <=> record.op = "revoke" \/ Op[pin[w]] = "revoke"
      BY <1>4, <2>2 DEF Writes
    <3>2. PICK m \in Nat : RecordAt(m)
      BY <2>2 DEF CreatedOK
    <3>3. m \in 1..Len(chain) /\ q - 1 \in 1..Len(chain) /\ ChainVersion[q - 1] = ChainVersion[m]
      BY <1>0, <1>5, <3>1, <3>2 DEF RecordAt
    <3>4. Upto(q - 1) = Upto(m)
      BY <1>0, <3>3, UptoSame
    <3>5. Upto(q) = Upto(m) \cup {pin[w]}
      BY <1>0, <1>5, <3>1, <3>4, UptoStep
    <3>6. /\ record.op = "revoke" <=> \E p \in Upto(m) : Op[p] = "revoke"
          /\ \A p \in Upto(m) : Settled(p)
      BY <3>2 DEF RecordAt
    <3> QED BY <3>1, <3>5, <3>6
  <2> QED BY <2>1, <2>2
<1>11. RecordAt(q)'
  BY <1>1, <1>5, <1>6, <1>8, <1>9, <1>10 DEF RecordAt
<1>12. \A v \in AllWriters : phase'[v] \notin {"delete", "record"}
  <2>1. \A v \in AllWriters : v # w => phase[v] \notin {"delete", "record"}
    BY <1>1, OneSaves
  <2> QED BY <1>2, <2>1
<1> QED BY <1>1, <1>3, <1>11, <1>12 DEF CreatedOK

\* The other steps of a call, but for the return of the scan from a rating.
LEMMA GoOnConverges ==
    ASSUME Inv, NEW w \in AllWriters, NEW ph \in Phases, record' = record, chain' = chain,
           mapped \subseteq mapped', phase' = [phase EXCEPT ![w] = ph], pos' \in {pos, pos + 1},
           phase[w] \in {"index", "mapPin"} =>
               (ph \in {"index", "mapPin"} /\ pin'[w] = pin[w]) \/ pin[w] \in mapped' \cup {Source},
           ph \in {"delete", "record"} =>
               phase[w] \in {"delete", "record"} /\ pin'[w] = pin[w] /\ next'[w] = next[w],
           ph \in ServicePhases => phase[w] \in ServicePhases,
           \A v \in AllWriters : v # w => pin'[v] = pin[v] /\ next'[v] = next[v]
    PROVE  /\ \A p : Settled(p) => Settled(p)'
           /\ \A v \in AllWriters : phase'[v] \in {"delete", "record"} =>
                  phase[v] \in {"delete", "record"} /\ pin'[v] = pin[v] /\ next'[v] = next[v]
           /\ AbsentOK => AbsentOK'
<1>1. /\ phase \in [AllWriters -> Phases] /\ phase'[w] = ph
      /\ \A v \in AllWriters : v # w => phase'[v] = phase[v]
  BY DEF Inv, TypeOK
<1>2. Source' = Source
  BY DEF Source
<1>3. ASSUME NEW p, Settled(p) PROVE Settled(p)'
  <2>1. CASE p = Source \/ p \in mapped
    BY <1>2, <2>1 DEF Settled
  <2>2. ASSUME NEW v \in AllWriters, phase[v] \in {"index", "mapPin"}, pin[v] = p PROVE Settled(p)'
    BY <1>1, <1>2, <2>2 DEF Settled
  <2> QED BY <1>3, <2>1, <2>2 DEF Settled
<1>4. \A v \in AllWriters : phase'[v] \in {"delete", "record"} =>
          phase[v] \in {"delete", "record"} /\ pin'[v] = pin[v] /\ next'[v] = next[v]
  BY <1>1
<1>5. AbsentOK => AbsentOK'
  BY <1>1 DEF AbsentOK
<1> QED BY <1>3, <1>4, <1>5

LEMMA SaveConverges ==
    ASSUME Inv, Follows, FeedOK, IF Source \in Valid THEN CreatedOK ELSE AbsentOK,
           NEW w \in AllWriters, SaveService(w), chain' = chain
    PROVE  IF Source \in Valid THEN CreatedOK' ELSE AbsentOK'
<1>0. /\ phase \in [AllWriters -> Phases] /\ pin \in [AllWriters -> Pins \cup {NoPin}]
      /\ next \in [AllWriters -> Records \cup {NoRecord}] /\ "scan" \in AllWriters
      /\ phase[w] \in ServicePhases
  BY DEF Inv, TypeOK, AllWriters, SaveService, DeleteIndexes, WriteRecord, WriteIndexes,
         MapPinToSource, ServicePhases
<1>1. AbsentOK => FALSE
  BY <1>0 DEF AbsentOK
<1>2. Source \in Valid /\ CreatedOK
  BY <1>1
<1>3. CASE WriteRecord(w)
  BY <1>2, <1>3, WriteConverges
<1>4. CASE DeleteIndexes(w)
  <2>1. /\ phase[w] = "delete" /\ phase' = [phase EXCEPT ![w] = "record"]
        /\ UNCHANGED <<record, mapped, pos, pin, next>>
    BY <1>4 DEF DeleteIndexes, feedVars
  <2>2. /\ \A p : Settled(p) => Settled(p)'
        /\ \A v \in AllWriters : phase'[v] \in {"delete", "record"} =>
               phase[v] \in {"delete", "record"} /\ pin'[v] = pin[v] /\ next'[v] = next[v]
    BY <2>1, GoOnConverges DEF Phases, ServicePhases
  <2>3. ScanAt' = ScanAt
    BY <1>0, <2>1 DEF ScanAt
  <2> QED BY <1>2, <2>1, <2>2, <2>3, KeepCreated
<1>5. CASE WriteIndexes(w)
  <2>1. /\ phase[w] = "index" /\ phase' = [phase EXCEPT ![w] = "mapPin"]
        /\ UNCHANGED <<record, mapped, pos, pin, next>>
    BY <1>5 DEF WriteIndexes, feedVars
  <2>2. /\ \A p : Settled(p) => Settled(p)'
        /\ \A v \in AllWriters : phase'[v] \in {"delete", "record"} =>
               phase[v] \in {"delete", "record"} /\ pin'[v] = pin[v] /\ next'[v] = next[v]
    BY <2>1, GoOnConverges DEF Phases, ServicePhases
  <2>3. ScanAt' = ScanAt
    BY <1>0, <2>1 DEF ScanAt
  <2> QED BY <1>2, <2>1, <2>2, <2>3, KeepCreated
<1>6. CASE MapPinToSource(w)
  <2>1. /\ phase[w] = "mapPin" /\ EndCall(w) /\ Done(w) /\ record' = record
        /\ mapped' = IF Op[pin[w]] = "create" THEN mapped ELSE mapped \cup {pin[w]}
    BY <1>6 DEF MapPinToSource
  <2>2. /\ phase' = [phase EXCEPT ![w] = "idle"]
        /\ \A v \in AllWriters : v # w => pin'[v] = pin[v] /\ next'[v] = next[v]
        /\ pos' = IF w = "scan" THEN pos + 1 ELSE pos
    BY <1>0, <2>1 DEF EndCall, Done, Advance
  <2>3. pin[w] \in mapped' \cup {Source}
    <3>1. PICK q \in 1..Len(chain) : chain[q] = pin[w]
      BY <2>1, PinPlace
    <3>2. chain \in Chains
      BY DEF Inv, TypeOK, FeedTypeOK
    <3>3. Op[pin[w]] = "create" => pin[w] = Source
      BY <3>1, <3>2, ChainFacts DEF Source
    <3> QED BY <2>1, <3>3
  <2>4. /\ \A p : Settled(p) => Settled(p)'
        /\ \A v \in AllWriters : phase'[v] \in {"delete", "record"} =>
               phase[v] \in {"delete", "record"} /\ pin'[v] = pin[v] /\ next'[v] = next[v]
    BY <2>1, <2>2, <2>3, GoOnConverges DEF Phases, ServicePhases
  <2>5. ScanAt' = ScanAt
    BY <1>0, <2>1, <2>2 DEF ScanAt
  <2> QED BY <1>2, <2>1, <2>4, <2>5, KeepCreated
<1> QED BY <1>1, <1>3, <1>4, <1>5, <1>6 DEF SaveService

LEMMA RateConverges ==
    ASSUME Inv, Follows, FeedOK, IF Source \in Valid THEN CreatedOK ELSE AbsentOK,
           NEW w \in AllWriters, RatePin(w), chain' = chain
    PROVE  IF Source \in Valid THEN CreatedOK' ELSE AbsentOK'
<1>0. /\ phase \in [AllWriters -> Phases] /\ pin \in [AllWriters -> Pins \cup {NoPin}]
      /\ next \in [AllWriters -> Records \cup {NoRecord}] /\ "scan" \in AllWriters
      /\ phase[w] \in RatingPhases /\ Op[pin[w]] = "rate"
      /\ record' = record /\ mapped' = mapped
  <2>1. phase[w] \in RatingPhases /\ record' = record /\ mapped' = mapped
    BY DEF RatePin, SaveRatingPin, LoadRatingAggregate, BumpRatingAggregate, RatingPhases, serviceVars
  <2> QED BY <2>1 DEF Inv, TypeOK, AllWriters, CallsOK
<1>1. CASE \E ph \in {"load", "bump"} :
               phase' = [phase EXCEPT ![w] = ph] /\ UNCHANGED <<feedVars, pin, next>>
  <2>1. PICK ph \in {"load", "bump"} :
            phase' = [phase EXCEPT ![w] = ph] /\ UNCHANGED <<pos, pin, next>>
    BY <1>1 DEF feedVars
  <2>2. /\ \A p : Settled(p) => Settled(p)'
        /\ \A v \in AllWriters : phase'[v] \in {"delete", "record"} =>
               phase[v] \in {"delete", "record"} /\ pin'[v] = pin[v] /\ next'[v] = next[v]
        /\ AbsentOK => AbsentOK'
    BY <1>0, <2>1, GoOnConverges DEF Phases, ServicePhases, RatingPhases
  <2>3. ScanAt' = ScanAt
    BY <1>0, <2>1 DEF ScanAt, RatingPhases
  <2> QED BY <1>0, <2>1, <2>2, <2>3, KeepCreated
<1>2. CASE EndCall(w) /\ Done(w)
  <2>2. /\ phase' = [phase EXCEPT ![w] = "idle"]
        /\ \A v \in AllWriters : v # w => pin'[v] = pin[v] /\ next'[v] = next[v]
        /\ pos' = IF w = "scan" THEN pos + 1 ELSE pos
    BY <1>0, <1>2 DEF EndCall, Done, Advance
  <2>3. /\ \A p : Settled(p) => Settled(p)'
        /\ \A v \in AllWriters : phase'[v] \in {"delete", "record"} =>
               phase[v] \in {"delete", "record"} /\ pin'[v] = pin[v] /\ next'[v] = next[v]
        /\ AbsentOK => AbsentOK'
    BY <1>0, <2>2, GoOnConverges DEF Phases, ServicePhases, RatingPhases
  <2>4. CASE w # "scan"
    <3>1. ScanAt' = ScanAt
      BY <1>0, <2>2, <2>4 DEF ScanAt
    <3> QED BY <1>0, <2>3, <3>1, KeepCreated
  <2>5. CASE w = "scan"
    <3>1. ASSUME CreatedOK PROVE CreatedOK'
      <4>1. /\ Len(chain) \in Nat /\ mined \in 0..Len(chain) /\ pos \in 0..mined /\ chain \in Chains
            /\ pos < mined /\ pin["scan"] = chain[pos + 1]
        BY <1>0, <2>5, ChainFacts DEF Inv, TypeOK, FeedTypeOK, OnlyWritersCall, FeedOK, RatingPhases
      <4>2. /\ pos + 1 \in 1..Len(chain) /\ pos + 1 \in 1..(pos + 1)
            /\ pos > 0 => pos \in 1..(Len(chain) - 1)
        BY <4>1
      <4>3. Op[chain[pos + 1]] = "rate"
        BY <1>0, <2>5, <4>1
      <4>4. pos # 0
        BY <4>1, <4>2, <4>3, ChainFacts
      <4>5. ScanAt = pos /\ ScanAt' = pos + 1
        BY <1>0, <2>2, <2>5 DEF ScanAt, RatingPhases
      <4>6. record # NoRecord
        BY <3>1, <4>1, <4>4, <4>5 DEF CreatedOK
      <4>7. ChainVersion[pos + 1] = ChainVersion[pos]
        BY <4>1, <4>2, <4>3, <4>4, VersionSteps DEF Changes
      <4> QED BY <1>0, <2>3, <3>1, <4>2, <4>5, <4>6, <4>7, AdvanceCreated
    <3> QED BY <2>3, <3>1
  <2> QED BY <2>4, <2>5
<1>3. \/ \E ph \in {"load", "bump"} :
             phase' = [phase EXCEPT ![w] = ph] /\ UNCHANGED <<feedVars, pin, next>>
      \/ EndCall(w) /\ Done(w)
  BY DEF RatePin, SaveRatingPin, LoadRatingAggregate, BumpRatingAggregate
<1> QED BY <1>1, <1>2, <1>3

LEMMA NextConverges == Inv /\ ConvergeOK /\ [Next]_vars => ConvergeOK'
<1> SUFFICES ASSUME Inv, ConvergeOK, [Next]_vars, Follows'
             PROVE  FeedOK' /\ (IF Source \in Valid THEN CreatedOK ELSE AbsentOK)'
  BY DEF ConvergeOK
<1>1. Follows /\ chain' = chain
  BY FollowsBefore
<1>2. FeedOK /\ (IF Source \in Valid THEN CreatedOK ELSE AbsentOK)
  BY <1>1 DEF ConvergeOK
<1>3. FeedOK'
  BY <1>1, <1>2, FeedStepOK
<1>4. Source' = Source
  BY <1>1 DEF Source
<1>5. IF Source \in Valid THEN CreatedOK' ELSE AbsentOK'
  <2>1. ASSUME UNCHANGED <<record, mapped, pos, phase, pin, next>>
        PROVE  IF Source \in Valid THEN CreatedOK' ELSE AbsentOK'
    <3>1. (\A p : Settled(p) => Settled(p)') /\ ScanAt' = ScanAt
      BY <1>4, <2>1 DEF Settled, ScanAt
    <3>2. CreatedOK => CreatedOK'
      BY <1>1, <2>1, <3>1, KeepCreated
    <3>3. AbsentOK => AbsentOK'
      BY <2>1 DEF AbsentOK
    <3> QED BY <1>2, <3>2, <3>3
  <2>2. CASE Mine \/ (\E p \in Pins : Poll(p))
              \/ (\E oneChain \in BOOLEAN : ListHomepageByProvider(oneChain))
              \/ BackfillGlobalIndex \/ LearnProfile \/ UNCHANGED vars
    <3>1. UNCHANGED <<record, mapped, pos, phase, pin, next>>
      BY <2>2 DEF Mine, MineNext, Poll, PollMempool, ListHomepageByProvider, BackfillGlobalIndex,
                  LearnProfile, vars, feedVars, serviceVars, callVars
    <3> QED BY <2>1, <3>1
  <2>3. CASE \E p \in Pins : ProcessPin("scan", p) \/ ProcessPin("mempool", p)
    BY <1>1, <1>2, <2>3, ProcessConverges
  <2>4. CASE \E w \in AllWriters : SaveService(w) \/ RatePin(w)
    BY <1>1, <1>2, <2>4, SaveConverges, RateConverges
  <2>5. ~Crash
    <3>1. crashes = 0 /\ crashes' = 0
      BY <1>1 DEF Follows
    <3> QED BY <3>1 DEF Crash, Restart
  <2> QED BY <2>2, <2>3, <2>4, <2>5 DEF Next
<1> QED BY <1>3, <1>4, <1>5

LEMMA InitConverges == Init => ConvergeOK
<1> SUFFICES ASSUME Init PROVE FeedOK /\ CreatedOK /\ AbsentOK
  BY DEF ConvergeOK
<1>1. FeedOK
  BY DEF Init, FeedInit, FeedOK, AllWriters
<1>2. ScanAt = 0
  BY DEF Init, FeedInit, ScanAt, AllWriters
<1>3. CreatedOK
  BY <1>2 DEF Init, CreatedOK
<1>4. AbsentOK
  BY DEF Init, AbsentOK, ServicePhases
<1> QED BY <1>1, <1>3, <1>4

-----------------------------------------------------------------------------
(* What the readers find *)

\* Between two calls and before a crash, with any goroutines: the service is listed
\* under the time of its current version, it is on the homepage of its provider
\* exactly when it is visible and the provider is known, whichever of the index
\* entries leads to it, and it is found by its first and by its current pin.
ReadersFindCurrent ==
    NoCall /\ crashes = 0 /\ record # NoRecord =>
        /\ record.updated \in index
        /\ \A oneChain \in BOOLEAN :
               OnHomepage(oneChain) <=> IsVisibleDefault(record) /\ HasGlobalMetaId(record)
        /\ LoadServiceByAnyPinId(Source) = record /\ LoadServiceByAnyPinId(record.cur) = record

\* A call is about to add the entries of the record, or to replace the record, of
\* which it has removed the entries.
EntryPending ==
    \E w \in AllWriters :
        \/ phase[w] = "index" /\ next[w] = record
        \/ phase[w] = "record" /\ prev[w] # NoRecord /\ prev[w].updated = record.updated

ReadsOK ==
    crashes = 0 /\ record # NoRecord =>
        /\ record.updated \in index \/ EntryPending
        /\ record.named => record.updated \in globalIndex \/ EntryPending
        /\ byProvider \/ \E w \in AllWriters : phase[w] \in {"record", "index"}
        /\ Settled(record.cur)

\* The goroutines work on pins of the chain.
PinsOK ==
    /\ queue \subseteq PinsOf(chain)
    /\ \A w \in AllWriters : phase[w] # "idle" => pin[w] \in PinsOf(chain)
    /\ \A w \in AllWriters : phase[w] \in ServicePhases => next[w].cur = pin[w]

\* A record that a call computes is of the call's pin.
LEMMA ProcessCur ==
    ASSUME Inv, NEW p \in Pins, NEW m \in BOOLEAN, Op[p] # "rate",
           ProcessServicePin(Loaded(p), p, m) # NoRecord
    PROVE  ProcessServicePin(Loaded(p), p, m).cur = p
<1>1. Loaded(p) = record /\ record \in Records \cup {NoRecord}
  BY LoadedIsRecord DEF Inv, TypeOK
<1>2. \/ Op[p] = "create" /\ p \in Valid /\ record = NoRecord
      \/ Changes(p) /\ record # NoRecord /\ Target[p] = record.cur
  BY <1>1, ProcessNeeds
<1>3. CASE Op[p] = "create" /\ p \in Valid /\ record = NoRecord
  BY <1>1, <1>3, ProcessCreates
<1>4. CASE Changes(p) /\ record # NoRecord /\ Target[p] = record.cur
  <2>1. record \in Records
    BY <1>1, <1>4
  <2> QED BY <1>1, <1>4, <2>1, ProcessChanges
<1> QED BY <1>2, <1>3, <1>4

LEMMA PinsStep == Inv /\ PinsOK /\ [Next]_vars => PinsOK' /\ chain' = chain
<1> SUFFICES ASSUME Inv, PinsOK, [Next]_vars PROVE PinsOK' /\ chain' = chain
  OBVIOUS
<1>0. /\ Len(chain) \in Nat /\ mined \in 0..Len(chain) /\ pos \in 0..mined
      /\ phase \in [AllWriters -> Phases] /\ pin \in [AllWriters -> Pins \cup {NoPin}]
      /\ next \in [AllWriters -> Records \cup {NoRecord}]
  BY ChainFacts DEF Inv, TypeOK, FeedTypeOK
<1>1. ASSUME UNCHANGED <<chain, phase, pin, next>>, queue' \subseteq PinsOf(chain)
      PROVE  PinsOK' /\ chain' = chain
  BY <1>1 DEF PinsOK, PinsOf
<1>2. CASE Mine \/ (\E oneChain \in BOOLEAN : ListHomepageByProvider(oneChain))
            \/ BackfillGlobalIndex \/ LearnProfile \/ UNCHANGED vars
  <2>1. UNCHANGED <<chain, phase, pin, next, queue>>
    BY <1>2 DEF Mine, MineNext, ListHomepageByProvider, BackfillGlobalIndex, LearnProfile, vars,
                feedVars, callVars, setup
  <2> QED BY <1>1, <2>1 DEF PinsOK
<1>3. ASSUME NEW p \in Pins, Poll(p) PROVE PinsOK' /\ chain' = chain
  <2>1. UNCHANGED <<chain, phase, pin, next>> /\ queue' = queue \cup {p}
    BY <1>3 DEF Poll, PollMempool, setup, callVars
  <2>2. p \in PinsOf(chain)
    BY <1>0, <1>3 DEF Poll, PollMempool, PinsOf
  <2> QED BY <1>1, <2>1, <2>2 DEF PinsOK
<1>4. ASSUME NEW w \in {"scan", "mempool"}, NEW p \in Pins, ProcessPin(w, p)
      PROVE  PinsOK' /\ chain' = chain
  <2>1. p \in PinsOf(chain)
    <3>1. CASE w = "scan"
      <4>1. pos < mined /\ p = chain[pos + 1]
        BY <1>4, <3>1 DEF ProcessPin, Offered, ScanOffers
      <4>2. pos + 1 \in 1..Len(chain)
        BY <1>0, <4>1
      <4> QED BY <4>1, <4>2 DEF PinsOf
    <3>2. CASE w = "mempool"
      BY <1>4, <3>2 DEF ProcessPin, Offered, MempoolOffers, PinsOK
    <3> QED BY <3>1, <3>2
  <2>2. chain' = chain /\ queue' \subseteq queue /\ w \in AllWriters
    BY <1>4 DEF ProcessPin, Take, Pass, setup, AllWriters
  <2>3. CASE BeginService(w, p) /\ Take(w, p)
    <3> DEFINE new == ProcessServicePin(Loaded(p), p, w = "mempool")
    <3>1. /\ phase' = [phase EXCEPT ![w] = "delete"] /\ pin' = [pin EXCEPT ![w] = p]
          /\ next' = [next EXCEPT ![w] = new] /\ Op[p] # "rate" /\ new # NoRecord
      BY <2>3 DEF BeginService
    <3>2. new.cur = p
      <4>1. (w = "mempool") \in BOOLEAN
        OBVIOUS
      <4> QED BY <3>1, <4>1, ProcessCur
    <3> HIDE DEF new
    <3>3. phase'[w] = "delete" /\ pin'[w] = p /\ next'[w] = new
          /\ \A v \in AllWriters : v # w => phase'[v] = phase[v] /\ pin'[v] = pin[v] /\ next'[v] = next[v]
      BY <1>0, <2>2, <3>1
    <3> QED BY <2>1, <2>2, <3>2, <3>3 DEF PinsOK, PinsOf
  <2>4. CASE BeginRating(w, p) /\ Take(w, p)
    <3>1. /\ phase' = [phase EXCEPT ![w] = "saveRating"] /\ pin' = [pin EXCEPT ![w] = p] /\ next' = next
      BY <2>4 DEF BeginRating
    <3>2. phase'[w] = "saveRating" /\ pin'[w] = p
          /\ \A v \in AllWriters : v # w => phase'[v] = phase[v] /\ pin'[v] = pin[v] /\ next'[v] = next[v]
      BY <1>0, <2>2, <3>1
    <3> QED BY <2>1, <2>2, <3>2 DEF PinsOK, PinsOf, ServicePhases
  <2>5. CASE Ignored(w, p) /\ Pass(w, p) /\ UNCHANGED callVars
    BY <1>1, <2>2, <2>5 DEF callVars, PinsOK
  <2> QED BY <1>4, <2>3, <2>4, <2>5 DEF ProcessPin
<1>5. ASSUME NEW w \in AllWriters, SaveService(w) \/ RatePin(w) PROVE PinsOK' /\ chain' = chain
  <2>1. /\ phase[w] # "idle" /\ chain' = chain /\ queue' = queue
        /\ \/ /\ pin' = pin /\ next' = next /\ \A v \in AllWriters : v # w => phase'[v] = phase[v]
              /\ phase'[w] \in ServicePhases => phase[w] \in ServicePhases
           \/ EndCall(w)
    BY <1>0, <1>5 DEF SaveService, RatePin, DeleteIndexes, WriteRecord, WriteIndexes, MapPinToSource,
                SaveRatingPin, LoadRatingAggregate, BumpRatingAggregate, Done, feedVars, setup, ServicePhases
  <2>2. CASE /\ pin' = pin /\ next' = next /\ \A v \in AllWriters : v # w => phase'[v] = phase[v]
             /\ phase'[w] \in ServicePhases => phase[w] \in ServicePhases
    BY <2>1, <2>2 DEF PinsOK, PinsOf
  <2>3. CASE EndCall(w)
    <3>1. phase'[w] = "idle"
          /\ \A v \in AllWriters : v # w => phase'[v] = phase[v] /\ pin'[v] = pin[v] /\ next'[v] = next[v]
      BY <1>0, <2>3 DEF EndCall
    <3> QED BY <2>1, <3>1 DEF PinsOK, PinsOf, ServicePhases
  <2> QED BY <2>1, <2>2, <2>3
<1>6. CASE Crash
  BY <1>6 DEF Crash, Restart, setup, PinsOK, PinsOf, ServicePhases
<1> QED BY <1>2, <1>3, <1>4, <1>5, <1>6 DEF Next

\* A step that removes no entry and leaves the record and the calls that change them.
LEMMA KeepReads ==
    ASSUME ReadsOK, record' = record, crashes' = crashes, index' = index,
           globalIndex \subseteq globalIndex', byProvider' = byProvider,
           Settled(record.cur) => Settled(record.cur)',
           \A w \in AllWriters : phase[w] \in {"record", "index"} =>
               phase'[w] = phase[w] /\ prev'[w] = prev[w] /\ next'[w] = next[w]
    PROVE  ReadsOK'
<1>1. EntryPending => EntryPending'
  BY DEF EntryPending
<1>2. (\E w \in AllWriters : phase[w] \in {"record", "index"}) =>
          \E w \in AllWriters : phase'[w] \in {"record", "index"}
  OBVIOUS
<1> QED BY <1>1, <1>2 DEF ReadsOK

LEMMA SaveReads ==
    ASSUME Inv, PinsOK, ReadsOK, NEW w \in AllWriters, SaveService(w), chain' = chain
    PROVE  ReadsOK'
<1>0. /\ phase \in [AllWriters -> Phases] /\ chain \in Chains
      /\ pin \in [AllWriters -> Pins \cup {NoPin}] /\ next \in [AllWriters -> Records \cup {NoRecord}]
      /\ prev \in [AllWriters -> Records \cup {NoRecord}]
  BY DEF Inv, TypeOK, FeedTypeOK
<1>1. Source' = Source
  BY DEF Source
<1>2. CASE DeleteIndexes(w)
  <2>1. /\ phase[w] = "delete" /\ phase' = [phase EXCEPT ![w] = "record"]
        /\ index \subseteq index' \cup {prev[w].updated}
        /\ globalIndex \subseteq globalIndex' \cup {prev[w].updated}
        /\ prev[w] = NoRecord => index' = index /\ globalIndex' = globalIndex
        /\ UNCHANGED <<record, mapped, pin, prev, next, crashes>>
    BY <1>2 DEF DeleteIndexes, indexVars, feedVars
  <2>2. phase'[w] = "record" /\ \A v \in AllWriters : v # w => phase'[v] = phase[v]
    BY <1>0, <2>1
  <2>3. EntryPending => EntryPending'
    BY <2>1, <2>2 DEF EntryPending
  <2>4. prev[w] # NoRecord /\ prev[w].updated = record.updated => EntryPending'
    BY <2>1, <2>2 DEF EntryPending
  <2>5. Settled(record.cur) => Settled(record.cur)'
    BY <1>1, <2>1, <2>2 DEF Settled
  <2> QED BY <2>1, <2>2, <2>3, <2>4, <2>5 DEF ReadsOK
<1>3. CASE WriteRecord(w)
  <2>1. /\ phase[w] = "record" /\ record' = next[w] /\ phase' = [phase EXCEPT ![w] = "index"]
        /\ UNCHANGED <<pin, next>>
    BY <1>3 DEF WriteRecord
  <2>2. phase'[w] = "index" /\ next'[w] = record' /\ next[w].cur = pin[w]
    BY <1>0, <2>1 DEF PinsOK, ServicePhases
  <2>3. EntryPending'
    BY <2>2 DEF EntryPending
  <2>4. Settled(record.cur)'
    BY <2>1, <2>2 DEF Settled
  <2> QED BY <2>2, <2>3, <2>4 DEF ReadsOK
<1>4. CASE WriteIndexes(w)
  <2>1. /\ phase[w] = "index" /\ phase' = [phase EXCEPT ![w] = "mapPin"]
        /\ index' = index \cup {next[w].updated} /\ byProvider' = TRUE
        /\ globalIndex \subseteq globalIndex'
        /\ next[w].named => next[w].updated \in globalIndex'
        /\ UNCHANGED <<record, mapped, pin, prev, next, crashes>>
    BY <1>4 DEF WriteIndexes, feedVars, HasGlobalMetaId
  <2>2. phase'[w] = "mapPin" /\ \A v \in AllWriters : v # w => phase'[v] = phase[v]
    BY <1>0, <2>1
  <2>3. EntryPending => next[w] = record \/ EntryPending'
    BY <2>1, <2>2 DEF EntryPending
  <2>4. Settled(record.cur) => Settled(record.cur)'
    BY <1>1, <2>1, <2>2 DEF Settled
  <2> QED BY <2>1, <2>3, <2>4 DEF ReadsOK
<1>5. CASE MapPinToSource(w)
  <2>1. /\ phase[w] = "mapPin" /\ EndCall(w) /\ crashes' = crashes
        /\ mapped' = IF Op[pin[w]] = "create" THEN mapped ELSE mapped \cup {pin[w]}
        /\ UNCHANGED <<record, index, globalIndex, byProvider>>
    BY <1>5 DEF MapPinToSource, Done, indexVars
  <2>2. /\ phase'[w] = "idle"
        /\ \A v \in AllWriters : v # w =>
               phase'[v] = phase[v] /\ pin'[v] = pin[v] /\ prev'[v] = prev[v] /\ next'[v] = next[v]
    BY <1>0, <2>1 DEF EndCall
  <2>3. pin[w] = Source \/ pin[w] \in mapped'
    <3>1. PICK i \in 1..Len(chain) : chain[i] = pin[w]
      BY <2>1 DEF PinsOK, PinsOf
    <3>2. Op[pin[w]] = "create" => pin[w] = Source
      BY <1>0, <3>1, ChainFacts DEF Source
    <3> QED BY <2>1, <3>2
  <2>4. Settled(record.cur) => Settled(record.cur)'
    BY <1>1, <2>1, <2>2, <2>3 DEF Settled
  <2> QED BY <2>1, <2>2, <2>4, KeepReads
<1> QED BY <1>2, <1>3, <1>4, <1>5 DEF SaveService

LEMMA NextReads == Inv /\ PinsOK /\ ReadsOK /\ [Next]_vars => ReadsOK'
<1> SUFFICES ASSUME Inv, PinsOK, ReadsOK, [Next]_vars PROVE ReadsOK'
  OBVIOUS
<1>0. /\ phase \in [AllWriters -> Phases] /\ pin \in [AllWriters -> Pins \cup {NoPin}]
      /\ next \in [AllWriters -> Records \cup {NoRecord}] /\ crashes \in Nat
      /\ prev \in [AllWriters -> Records \cup {NoRecord}] /\ {"scan", "mempool"} \subseteq AllWriters
  BY FeedAssumption DEF Inv, TypeOK, FeedTypeOK, AllWriters
<1>1. chain' = chain /\ Source' = Source
  BY PinsStep DEF Source
<1>2. ASSUME UNCHANGED <<record, mapped, index, byProvider, crashes>>, globalIndex \subseteq globalIndex',
             \A w \in AllWriters : phase[w] \in {"record", "index", "mapPin"} =>
                 phase'[w] = phase[w] /\ pin'[w] = pin[w] /\ prev'[w] = prev[w] /\ next'[w] = next[w]
      PROVE  ReadsOK'
  <2>1. Settled(record.cur) => Settled(record.cur)'
    BY <1>1, <1>2 DEF Settled
  <2> QED BY <1>2, <2>1, KeepReads
<1>3. CASE Mine \/ (\E p \in Pins : Poll(p)) \/ (\E oneChain \in BOOLEAN : ListHomepageByProvider(oneChain))
            \/ BackfillGlobalIndex \/ LearnProfile \/ UNCHANGED vars
  <2>1. UNCHANGED <<record, mapped, index, byProvider, crashes, phase, pin, prev, next>>
        /\ globalIndex \subseteq globalIndex'
    BY <1>3 DEF Mine, MineNext, Poll, PollMempool, ListHomepageByProvider, BackfillGlobalIndex,
                LearnProfile, vars, feedVars, serviceVars, indexVars, callVars
  <2> QED BY <1>2, <2>1
<1>4. ASSUME NEW w \in {"scan", "mempool"}, NEW p \in Pins, ProcessPin(w, p) PROVE ReadsOK'
  <2>1. UNCHANGED <<record, mapped, index, byProvider, globalIndex, crashes>> /\ w \in AllWriters
    BY <1>0, <1>4 DEF ProcessPin, serviceVars, indexVars, Take, Pass
  <2>2. phase[w] = "idle" /\ \A v \in AllWriters : v # w =>
            phase'[v] = phase[v] /\ pin'[v] = pin[v] /\ prev'[v] = prev[v] /\ next'[v] = next[v]
    <3>1. CASE BeginService(w, p)
      BY <1>0, <3>1 DEF BeginService
    <3>2. CASE BeginRating(w, p)
      BY <1>0, <3>2 DEF BeginRating
    <3>3. CASE Ignored(w, p) /\ UNCHANGED callVars
      BY <3>3 DEF Ignored, callVars
    <3> QED BY <1>4, <3>1, <3>2, <3>3 DEF ProcessPin
  <2> QED BY <1>2, <2>1, <2>2
<1>5. ASSUME NEW w \in AllWriters, SaveService(w) PROVE ReadsOK'
  BY <1>1, <1>5, SaveReads
<1>6. ASSUME NEW w \in AllWriters, RatePin(w) PROVE ReadsOK'
  <2>1. UNCHANGED <<record, mapped, index, byProvider, globalIndex, crashes>>
        /\ phase[w] \in RatingPhases
    BY <1>6 DEF RatePin, SaveRatingPin, LoadRatingAggregate, BumpRatingAggregate, Done, feedVars,
                serviceVars, indexVars, RatingPhases
  <2>2. \A v \in AllWriters : v # w =>
            phase'[v] = phase[v] /\ pin'[v] = pin[v] /\ prev'[v] = prev[v] /\ next'[v] = next[v]
    BY <1>0, <1>6 DEF RatePin, SaveRatingPin, LoadRatingAggregate, BumpRatingAggregate, EndCall
  <2> QED BY <1>2, <2>1, <2>2 DEF RatingPhases
<1>7. CASE Crash
  BY <1>0, <1>7 DEF Crash, Restart, ReadsOK
<1> QED BY <1>3, <1>4, <1>5, <1>6, <1>7 DEF Next

LEMMA InitReads == Init => PinsOK /\ ReadsOK
  BY DEF Init, FeedInit, PinsOK, ReadsOK, ServicePhases

-----------------------------------------------------------------------------
(* Theorems *)

\* Every variable keeps its type with any set of goroutines: in particular the
\* record is always one that processServicePin can build, and the scan goroutine
\* never passes the end of the chain.
THEOREM TypeCorrect == Spec => []TypeOK
<1>1. Inv => TypeOK
  BY DEF Inv
<1> QED BY <1>1, InitInv, NextInv, PTL DEF Spec

\* Between two calls, and before a crash, the service is listed under the time of
\* its current version and the pin of this version leads to it, with any
\* goroutines; with one it is listed under no other time, through any number of
\* crashes (saveService, mapPinToSource).
THEOREM ListedUnderCurrentHolds == Spec => []ListedUnderCurrent
<1>1. Inv /\ ReadsOK => ListedUnderCurrent
  <2> SUFFICES ASSUME Inv, ReadsOK, NoCall
               PROVE  /\ record # NoRecord /\ crashes = 0 =>
                            record.updated \in index /\ LoadServiceByAnyPinId(record.cur) = record
                      /\ Cardinality(writers) = 1 => index \subseteq Entries(record)
    BY DEF ListedUnderCurrent, Entries
  <2>1. Cardinality(writers) = 1 => index \subseteq Entries(record)
    BY CardinalityOne DEF Inv, OneWriterOK
  <2>2. ASSUME record # NoRecord, crashes = 0 PROVE record.updated \in index
    BY <2>2 DEF ReadsOK, NoCall, EntryPending
  <2>3. ASSUME record # NoRecord, crashes = 0 PROVE record.cur = Source \/ record.cur \in mapped
    BY <2>3 DEF ReadsOK, NoCall, Settled
  <2> QED BY <2>1, <2>2, <2>3 DEF LoadServiceByAnyPinId
<1>2. Init => Inv /\ PinsOK /\ ReadsOK
  BY InitInv, InitReads
<1>3. Inv /\ PinsOK /\ ReadsOK /\ [Next]_vars => (Inv /\ PinsOK /\ ReadsOK)'
  BY NextInv, PinsStep, NextReads
<1> QED BY <1>1, <1>2, <1>3, PTL DEF Spec

\* With one goroutine processRatingPin never counts a rating twice.
THEOREM RatedAtMostOnceHolds == Spec => []RatedAtMostOnce
<1>1. Inv => RatedAtMostOnce
  BY CardinalityOne DEF Inv, OneWriterOK, RatedAtMostOnce
<1> QED BY <1>1, InitInv, NextInv, PTL DEF Spec

\* With one goroutine no pin, and no pin delivered again after a crash, brings a
\* revoked service back (processServiceModify, processServiceRevoke).
THEOREM RevokeIsTerminalHolds == Spec => RevokeIsTerminal
<1> DEFINE A == Cardinality(writers) = 1 /\ record # NoRecord /\ record.op = "revoke" =>
                    record'.op = "revoke"
<1>1. Inv /\ [Next]_vars => [A]_vars
  <2> SUFFICES ASSUME Inv, Next, Cardinality(writers) = 1, record # NoRecord, record.op = "revoke"
               PROVE  record'.op = "revoke"
    OBVIOUS
  <2>1. record' = record \/ \E w \in AllWriters : WriteRecord(w)
    BY DEF Next, Mine, Poll, ProcessPin, SaveService, RatePin, DeleteIndexes, WriteIndexes,
           MapPinToSource, SaveRatingPin, LoadRatingAggregate, BumpRatingAggregate,
           ListHomepageByProvider, BackfillGlobalIndex, LearnProfile, Crash, serviceVars
  <2>2. ASSUME NEW w \in AllWriters, WriteRecord(w) PROVE record'.op = "revoke"
    BY <2>2, CardinalityOne DEF WriteRecord, Inv, OneWriterOK, SaveOK
  <2> QED BY <2>1, <2>2
<1>2. RevokeIsTerminal <=> [][A]_vars
  BY DEF RevokeIsTerminal
<1> QED BY <1>1, <1>2, InitInv, NextInv, PTL DEF Spec

\* However blocks and mempool deliver the pins, the service ends at the version and
\* the visibility that folding the chain gives it (processServiceCreate,
\* processServiceModify, processServiceRevoke), if the process does not crash, no pin
\* is mined while the mempool goroutine has it, and every pin names the version that
\* is current in the chain.
THEOREM ServiceConvergesHolds == Spec => []ServiceConverges
<1>1. Inv /\ ConvergeOK => ServiceConverges
  <2> SUFFICES ASSUME Inv, ConvergeOK, Quiet, "scan" \in writers, Follows
               PROVE  IF Source \in Valid
                      THEN /\ record # NoRecord
                           /\ record.cur = ChainVersion[Len(chain)]
                           /\ (record.op = "revoke") = ChainRevoked
                      ELSE record = NoRecord
    BY DEF ServiceConverges, Follows
  <2>1. pos = Len(chain) /\ phase["scan"] = "idle"
    BY DEF Quiet, AllRouted, NoCall, AllWriters
  <2>2. Len(chain) \in Nat /\ Len(chain) > 0 /\ ScanAt = Len(chain)
    BY <2>1, ChainFacts DEF Inv, TypeOK, FeedTypeOK, ScanAt
  <2>3. CASE Source \in Valid
    <3>1. CreatedOK
      BY <2>3 DEF ConvergeOK
    <3>2. record # NoRecord
      BY <2>2, <3>1 DEF CreatedOK
    <3>3. PICK m \in Nat : RecordAt(m)
      BY <3>1, <3>2 DEF CreatedOK
    <3>4. m = Len(chain)
      BY <2>2, <3>3 DEF RecordAt
    <3>5. Upto(m) = Versions
      BY <3>4 DEF Upto, Versions
    <3>6. record.cur = ChainVersion[Len(chain)]
      BY <3>3, <3>4 DEF RecordAt
    <3>7. (record.op = "revoke") = ChainRevoked
      BY <3>3, <3>5 DEF RecordAt, ChainRevoked
    <3> QED BY <2>3, <3>2, <3>6, <3>7
  <2>4. CASE Source \notin Valid
    BY <2>4 DEF ConvergeOK, AbsentOK
  <2> QED BY <2>3, <2>4
<1> QED BY <1>1, InitInv, NextInv, InitConverges, NextConverges, PTL DEF Spec

\* With blocks and mempool together, before a crash and between two calls, the
\* service is listed under its current version, is on the homepage of a known
\* provider exactly when it is visible, and is found by its first and by its
\* current pin (saveService, ListHomepageByProvider, loadServiceByAnyPinId).
THEOREM ReadersFindCurrentHolds == Spec => []ReadersFindCurrent
<1>1. Inv /\ ReadsOK => ReadersFindCurrent
  <2> SUFFICES ASSUME Inv, ReadsOK, NoCall, crashes = 0, record # NoRecord
               PROVE  /\ record.updated \in index
                      /\ \A oneChain \in BOOLEAN :
                             OnHomepage(oneChain) <=> IsVisibleDefault(record) /\ HasGlobalMetaId(record)
                      /\ LoadServiceByAnyPinId(Source) = record
                      /\ LoadServiceByAnyPinId(record.cur) = record
    BY DEF ReadersFindCurrent
  <2>1. ~EntryPending
    BY DEF NoCall, EntryPending
  <2>2. record.updated \in index /\ (record.named => record.updated \in globalIndex) /\ byProvider
    BY <2>1 DEF ReadsOK, NoCall
  <2>3. record.cur = Source \/ record.cur \in mapped
    BY DEF ReadsOK, NoCall, Settled
  <2>4. \A oneChain \in BOOLEAN :
            OnHomepage(oneChain) <=> IsVisibleDefault(record) /\ HasGlobalMetaId(record)
    BY <2>2 DEF OnHomepage, GlobalCandidateMatches, LateAliasMatches, HasGlobalMetaId
  <2> QED BY <2>2, <2>3, <2>4 DEF LoadServiceByAnyPinId
<1>2. Init => Inv /\ PinsOK /\ ReadsOK
  BY InitInv, InitReads
<1>3. Inv /\ PinsOK /\ ReadsOK /\ [Next]_vars => (Inv /\ PinsOK /\ ReadsOK)'
  BY NextInv, PinsStep, NextReads
<1> QED BY <1>1, <1>2, <1>3, PTL DEF Spec
=============================================================================
