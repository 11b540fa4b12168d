---------------------------- MODULE SkillService ----------------------------
(***************************************************************************)
(* The skill-service aggregator (internal/aggregator/skillservice) on one  *)
(* service: a create pin, the modify and revoke pins of its version chain, *)
(* and the rating pins of the service.                                     *)
(*                                                                         *)
(* A service pin is folded into the ServiceRecord by load, compute and     *)
(* several Pebble writes; a rating pin is stored and then added to the     *)
(* service's aggregate by a load and a write.  Confirmed and mempool pins  *)
(* are treated alike; their times differ.  A time is <<pin, mempool>>.     *)
(*                                                                         *)
(* The service is also on the homepage of its provider.  A version may     *)
(* carry the provider's global id, or the user-info aggregator learns it   *)
(* later; a homepage request that finds the service through the provider's *)
(* other id adds the index entry that was missing.                         *)
(***************************************************************************)
EXTENDS PinFeed, FiniteSets

CONSTANTS
    Op,        \* Op[p]: "create", "modify", "revoke" or "rate"
    Target,    \* Target[p]: the version that p replaces or revokes, or the service it rates
    Rate,      \* Rate[p]: the grade of a rating
    Valid,     \* pins with a body that can be decoded
    Named,     \* versions that carry the provider's global id
    Disabled,  \* versions that declare the service disabled
    NoPin, NoRecord, NoTime

Times == Pins \X BOOLEAN
Records ==
    [cur : Pins, op : {"create", "modify", "revoke"}, created : Times, updated : Times,
     named : BOOLEAN, disabled : BOOLEAN]

\* A chain is one service: its pins are different and only the first creates it.
ASSUME SkillAssumption ==
    /\ \A ch \in Chains :
           /\ \A i \in 1..Len(ch) : Op[ch[i]] = "create" <=> i = 1
           /\ \A i, j \in 1..Len(ch) : ch[i] = ch[j] => i = j
    /\ Op \in [Pins -> {"create", "modify", "revoke", "rate"}]
    /\ Target \in [Pins -> Pins \cup {NoPin}]
    /\ Rate \in [Pins -> Nat]
    /\ Valid \subseteq Pins /\ Named \subseteq Pins /\ Disabled \subseteq Pins
    /\ NoPin \notin Pins /\ NoRecord \notin Records

VARIABLES
    \* Pebble
    record,   \* the ServiceRecord, or NoRecord
    mapped,   \* pins with a pin_to_source entry
    index,    \* UpdatedAt in the keys of the updated and provider-meta entries
    byProvider,   \* there is an entry service_by_provider, which has no time
    globalIndex,  \* UpdatedAt in the keys of the provider-global entries
    rated,    \* stored rating pins: rated[p] is "no", "unknown" or "source"
    agg,      \* the RatingAggregate
    \* one call of processPin per goroutine
    phase,    \* "idle", "delete", "record", "index", "mapPin", "saveRating", "load", "bump"
    pin,      \* the pin being processed
    prev,     \* the record it loaded
    next,     \* the record it writes
    base,     \* the aggregate it loaded
    \* the provider and a homepage request
    profileKnown, \* user-info knows both ids of the provider
    fill          \* UpdatedAt of the entry the request is about to add, or NoTime

indexVars == <<index, byProvider, globalIndex>>
serviceVars == <<record, mapped, indexVars>>
ratingVars == <<rated, agg>>
callVars == <<phase, pin, prev, next, base>>
homepageVars == <<profileKnown, fill>>
vars == <<feedVars, serviceVars, ratingVars, callVars, homepageVars>>

Source == chain[1]
Raters == {p \in Pins : Op[p] = "rate"}

NoRatings == [sum |-> 0, count |-> 0]
Aggregates == [sum : Nat, count : Nat]
Phases == {"idle", "delete", "record", "index", "mapPin", "saveRating", "load", "bump"}

TypeOK ==
    /\ FeedTypeOK
    /\ record \in Records \cup {NoRecord}
    /\ mapped \subseteq Pins /\ index \subseteq Times
    /\ byProvider \in BOOLEAN /\ globalIndex \subseteq Times
    /\ profileKnown \in BOOLEAN /\ fill \in Times \cup {NoTime}
    /\ rated \in [Raters -> {"no", "unknown", "source"}]
    /\ agg \in Aggregates
    /\ phase \in [AllWriters -> Phases]
    /\ pin \in [AllWriters -> Pins \cup {NoPin}]
    /\ prev \in [AllWriters -> Records \cup {NoRecord}]
    /\ next \in [AllWriters -> Records \cup {NoRecord}]
    /\ base \in [AllWriters -> Aggregates]

Init ==
    /\ FeedInit
    /\ record = NoRecord /\ mapped = {}
    /\ index = {} /\ byProvider = FALSE /\ globalIndex = {}
    /\ profileKnown = FALSE /\ fill = NoTime
    /\ rated = [p \in Raters |-> "no"] /\ agg = NoRatings
    /\ phase = [w \in AllWriters |-> "idle"]
    /\ pin = [w \in AllWriters |-> NoPin]
    /\ prev = [w \in AllWriters |-> NoRecord]
    /\ next = [w \in AllWriters |-> NoRecord]
    /\ base = [w \in AllWriters |-> NoRatings]

-----------------------------------------------------------------------------
(* What processServicePin computes *)

\* newServiceRecord; a mempool pin carries the current time
NewServiceRecord(p, isMempool) ==
    [cur |-> p, op |-> Op[p], created |-> <<p, isMempool>>, updated |-> <<p, isMempool>>,
     named |-> p \in Named, disabled |-> p \in Disabled]

\* loadServiceByAnyPinId
LoadServiceByAnyPinId(p) == IF p = Source \/ p \in mapped THEN record ELSE NoRecord

\* The first create wins.
ProcessServiceCreate(existing, p, isMempool) ==
    IF existing = NoRecord /\ p \in Valid THEN NewServiceRecord(p, isMempool) ELSE NoRecord

\* Mutant of ProcessServiceModify: a modify of a revoked service revives it.
ModifyRevives(previous, p, isMempool) ==
    IF previous # NoRecord /\ Target[p] = previous.cur /\ p \in Valid
    THEN [NewServiceRecord(p, isMempool) EXCEPT
              !.created = previous.created, !.named = @ \/ previous.named]
    ELSE NoRecord

\* Only the current version can be modified; a revoked service stays revoked.
\* A version without the provider's ids keeps those of the previous one.
ProcessServiceModify(previous, p, isMempool) ==
    IF previous # NoRecord /\ Target[p] = previous.cur /\ p \in Valid
    THEN [NewServiceRecord(p, isMempool) EXCEPT
              !.created = previous.created,
              !.named = @ \/ previous.named,
              !.op = IF previous.op = "revoke" THEN "revoke" ELSE @]
    ELSE NoRecord

\* Mutant of ProcessServiceRevoke: the pin of the revoke does not become the
\* current one.
RevokeKeepsVersion(previous, p, isMempool) ==
    IF previous # NoRecord /\ Target[p] = previous.cur
    THEN [previous EXCEPT !.op = "revoke", !.updated = <<p, isMempool>>]
    ELSE NoRecord

ProcessServiceRevoke(previous, p, isMempool) ==
    IF previous # NoRecord /\ Target[p] = previous.cur
    THEN [previous EXCEPT !.op = "revoke", !.cur = p, !.updated = <<p, isMempool>>]
    ELSE NoRecord

Loaded(p) == IF Op[p] = "create" THEN record ELSE LoadServiceByAnyPinId(Target[p])

\* NoRecord: the pin has no effect.
ProcessServicePin(previous, p, isMempool) ==
    CASE Op[p] = "create" -> ProcessServiceCreate(previous, p, isMempool)
      [] Op[p] = "modify" -> ProcessServiceModify(previous, p, isMempool)
      [] Op[p] = "revoke" -> ProcessServiceRevoke(previous, p, isMempool)

-----------------------------------------------------------------------------
(* A call of processServicePin by goroutine w *)

BeginService(w, p) ==
    LET new == ProcessServicePin(Loaded(p), p, w = "mempool")
    IN  /\ Op[p] # "rate"
        /\ phase[w] = "idle"
        /\ new # NoRecord
        /\ phase' = [phase EXCEPT ![w] = "delete"]
        /\ pin' = [pin EXCEPT ![w] = p]
        /\ prev' = [prev EXCEPT ![w] = Loaded(p)]
        /\ next' = [next EXCEPT ![w] = new]
        /\ UNCHANGED base

EndCall(w) ==
    /\ phase' = [phase EXCEPT ![w] = "idle"]
    /\ pin' = [pin EXCEPT ![w] = NoPin]
    /\ prev' = [prev EXCEPT ![w] = NoRecord]
    /\ next' = [next EXCEPT ![w] = NoRecord]
    /\ base' = [base EXCEPT ![w] = NoRatings]

\* homepageProviderGlobalMetaIds: the global entries can be made for a record
\* that carries the provider's global id, or when the profile has it.
HasGlobalMetaId(rec) == rec.named \/ profileKnown

\* Mutant of DeleteIndexes: the keys are made from the new record.
DeleteNewIndexes(w) ==
    /\ phase[w] = "delete"
    /\ index' = IF prev[w] = NoRecord THEN index ELSE index \ {next[w].updated}
    /\ phase' = [phase EXCEPT ![w] = "record"]
    /\ UNCHANGED <<feedVars, record, mapped, byProvider, globalIndex, ratingVars, homepageVars,
                   pin, prev, next, base>>

\* saveService: the index entries of the previous version go
DeleteIndexes(w) ==
    /\ phase[w] = "delete"
    /\ IF prev[w] = NoRecord
       THEN UNCHANGED indexVars
       ELSE /\ index' = index \ {prev[w].updated}
            /\ byProvider' = FALSE
            /\ globalIndex' =
                   IF HasGlobalMetaId(prev[w]) THEN globalIndex \ {prev[w].updated} ELSE globalIndex
    /\ phase' = [phase EXCEPT ![w] = "record"]
    /\ UNCHANGED <<feedVars, record, mapped, ratingVars, homepageVars, pin, prev, next, base>>

WriteRecord(w) ==
    /\ phase[w] = "record"
    /\ record' = next[w]
    /\ phase' = [phase EXCEPT ![w] = "index"]
    /\ UNCHANGED <<feedVars, mapped, indexVars, ratingVars, homepageVars, pin, prev, next, base>>

WriteIndexes(w) ==
    /\ phase[w] = "index"
    /\ index' = index \cup {next[w].updated}
    /\ byProvider' = TRUE
    /\ globalIndex' =
           IF HasGlobalMetaId(next[w]) THEN globalIndex \cup {next[w].updated} ELSE globalIndex
    /\ phase' = [phase EXCEPT ![w] = "mapPin"]
    /\ UNCHANGED <<feedVars, record, mapped, ratingVars, homepageVars, pin, prev, next, base>>

\* mapPinToSource, except for a create, and return
MapPinToSource(w) ==
    /\ phase[w] = "mapPin"
    /\ mapped' = IF Op[pin[w]] = "create" THEN mapped ELSE mapped \cup {pin[w]}
    /\ EndCall(w)
    /\ Done(w)
    /\ UNCHANGED <<record, indexVars, ratingVars, homepageVars>>

SaveService(w) == DeleteIndexes(w) \/ WriteRecord(w) \/ WriteIndexes(w) \/ MapPinToSource(w)

-----------------------------------------------------------------------------
(* A call of processRatingPin by goroutine w *)

\* Mutant of IsNewRating: ratings are not deduplicated.
IsAnyRating(p) == p \in Valid /\ Rate[p] \in 1..5

\* A rating that can be decoded, has a grade from 1 to 5 and is not stored yet.
IsNewRating(p) == p \in Valid /\ Rate[p] \in 1..5 /\ rated[p] = "no"

BeginRating(w, p) ==
    /\ Op[p] = "rate"
    /\ phase[w] = "idle"
    /\ IsNewRating(p)
    /\ phase' = [phase EXCEPT ![w] = "saveRating"]
    /\ pin' = [pin EXCEPT ![w] = p]
    /\ prev' = [prev EXCEPT ![w] = Loaded(p)]
    /\ UNCHANGED <<next, base>>

\* A rating of an unknown service is stored and the call returns.
SaveRatingPin(w) ==
    /\ phase[w] = "saveRating"
    /\ \/ /\ prev[w] # NoRecord
          /\ rated' = [rated EXCEPT ![pin[w]] = "source"]
          /\ phase' = [phase EXCEPT ![w] = "load"]
          /\ UNCHANGED <<feedVars, pin, prev, next, base>>
       \/ /\ prev[w] = NoRecord
          /\ rated' = [rated EXCEPT ![pin[w]] = "unknown"]
          /\ EndCall(w)
          /\ Done(w)
    /\ UNCHANGED <<serviceVars, agg, homepageVars>>

LoadRatingAggregate(w) ==
    /\ phase[w] = "load"
    /\ base' = [base EXCEPT ![w] = agg]
    /\ phase' = [phase EXCEPT ![w] = "bump"]
    /\ UNCHANGED <<feedVars, serviceVars, ratingVars, homepageVars, pin, prev, next>>

BumpRatingAggregate(w) ==
    /\ phase[w] = "bump"
    /\ agg' = [sum |-> base[w].sum + Rate[pin[w]], count |-> base[w].count + 1]
    /\ EndCall(w)
    /\ Done(w)
    /\ UNCHANGED <<serviceVars, rated, homepageVars>>

RatePin(w) == SaveRatingPin(w) \/ LoadRatingAggregate(w) \/ BumpRatingAggregate(w)

-----------------------------------------------------------------------------
(* The feeds *)

Mine ==
    /\ MineNext({pin["mempool"]})
    /\ UNCHANGED <<serviceVars, ratingVars, callVars, homepageVars>>

Poll(p) == PollMempool(p) /\ UNCHANGED <<serviceVars, ratingVars, callVars, homepageVars>>

Ignored(w, p) ==
    /\ phase[w] = "idle"
    /\ IF Op[p] = "rate" THEN ~IsNewRating(p)
       ELSE ProcessServicePin(Loaded(p), p, w = "mempool") = NoRecord

\* processPin, called by HandleBlockPin and HandleMempoolPin
ProcessPin(w, p) ==
    /\ Offered(w, p)
    /\ \/ BeginService(w, p) /\ Take(w, p)
       \/ BeginRating(w, p) /\ Take(w, p)
       \/ Ignored(w, p) /\ Pass(w, p) /\ UNCHANGED callVars
    /\ UNCHANGED <<serviceVars, ratingVars, homepageVars>>

-----------------------------------------------------------------------------
(* The provider's homepage, for one chain or for all *)

\* IsVisibleDefault; the status of a record is always 0
IsVisibleDefault(rec) == rec # NoRecord /\ rec.op # "revoke" /\ ~rec.disabled

\* The global entry counts if its time is the record's.
GlobalCandidateMatches == record # NoRecord /\ record.updated \in globalIndex /\ HasGlobalMetaId(record)

\* With the profile the service is also looked up under the provider's metaid:
\* for one chain by the entry that has no time, else by one that must be current.
LateAliasMatches(oneChain) ==
    /\ record # NoRecord /\ profileKnown
    /\ IF oneChain THEN byProvider ELSE record.updated \in index

\* Mutant of OnHomepage: the provider's metaid is not looked up.
OnHomepageByGlobalId(oneChain) == IsVisibleDefault(record) /\ GlobalCandidateMatches

\* ListHomepageByProvider has the service, active services only
OnHomepage(oneChain) ==
    /\ IsVisibleDefault(record)
    /\ GlobalCandidateMatches \/ LateAliasMatches(oneChain)

\* A request that finds the service under the provider's metaid is about to add
\* the global entry; other requests change nothing.
ListHomepageByProvider(oneChain) ==
    /\ fill = NoTime
    /\ IsVisibleDefault(record) /\ LateAliasMatches(oneChain)
    /\ fill' = record.updated
    /\ UNCHANGED <<feedVars, serviceVars, ratingVars, callVars, profileKnown>>

BackfillGlobalIndex ==
    /\ fill # NoTime
    /\ globalIndex' = globalIndex \cup {fill}
    /\ fill' = NoTime
    /\ UNCHANGED <<feedVars, record, mapped, index, byProvider, ratingVars, callVars, profileKnown>>

\* The user-info aggregator handles a pin of the provider (see UserInfo).
LearnProfile ==
    /\ ~profileKnown
    /\ profileKnown' = TRUE
    /\ UNCHANGED <<feedVars, serviceVars, ratingVars, callVars, fill>>

-----------------------------------------------------------------------------

Crash ==
    /\ Restart
    /\ phase' = [w \in AllWriters |-> "idle"]
    /\ pin' = [w \in AllWriters |-> NoPin]
    /\ prev' = [w \in AllWriters |-> NoRecord]
    /\ next' = [w \in AllWriters |-> NoRecord]
    /\ base' = [w \in AllWriters |-> NoRatings]
    /\ fill' = NoTime
    /\ UNCHANGED <<serviceVars, ratingVars, profileKnown>>

Next ==
    \/ Mine
    \/ \E p \in Pins : Poll(p)
    \/ \E p \in Pins : ProcessPin("scan", p) \/ ProcessPin("mempool", p)
    \/ \E w \in AllWriters : SaveService(w) \/ RatePin(w)
    \/ \E oneChain \in BOOLEAN : ListHomepageByProvider(oneChain)
    \/ BackfillGlobalIndex
    \/ LearnProfile
    \/ Crash

Spec == Init /\ [][Next]_vars

-----------------------------------------------------------------------------
(* Properties *)

NoCall == \A w \in AllWriters : phase[w] = "idle"
Quiet == AllRouted /\ NoCall

\* p has an effect if the version it names is the current one.
Changes(p) == Op[p] = "revoke" \/ (Op[p] = "modify" /\ p \in Valid)

\* What folding the chain in order gives, by hand: the version after i pins.
ChainVersion ==
    LET v[i \in 1..Len(chain)] ==
            IF i = 1 THEN chain[1]
            ELSE IF Changes(chain[i]) /\ Target[chain[i]] = v[i - 1] THEN chain[i] ELSE v[i - 1]
    IN  v

\* The pins of the chain that change the service.
Versions == {ChainVersion[i] : i \in 1..Len(chain)}

ChainRevoked == \E p \in Versions : Op[p] = "revoke"

\* Each version has at most one successor, which is mined after it.
Linear ==
    \A i, j \in 1..Len(chain) :
        /\ Changes(chain[i]) /\ Changes(chain[j]) /\ Target[chain[i]] = Target[chain[j]] => i = j
        /\ Changes(chain[i]) /\ Target[chain[i]] = chain[j] => j < i

\* Where no two pins name one version, so that each pin can name the current one,
\* which is what processServiceModify and processServiceRevoke ask for: however
\* mempool and block deliveries interleave, the service ends at the version and
\* the visibility that the chain gives it, as long as the process does not crash
\* and every pin has left the mempool goroutine before its block is mined.  (The
\* API document asks that every pin name the create pin; of such pins the code
\* takes the first and skips the others, and the property says nothing of them.)
ServiceConverges ==
    Quiet /\ "scan" \in writers /\ ~late /\ crashes = 0 /\ Linear =>
        IF Source \in Valid
        THEN /\ record # NoRecord
             /\ record.cur = ChainVersion[Len(chain)]
             /\ (record.op = "revoke") = ChainRevoked
        ELSE record = NoRecord

\* "revoke is terminal in v1": with one goroutine, nothing brings a revoked
\* service back, not even pins that are delivered again after a crash.
RevokeIsTerminal ==
    [][Cardinality(writers) = 1 /\ record # NoRecord /\ record.op = "revoke" =>
           record'.op = "revoke"]_vars

\* Between two calls, and before a crash, the service is listed under the time of
\* its current version, and the pin of this version leads to it, so that the next
\* version finds it.  With one goroutine it is listed under no other time, also
\* when a crash has interrupted a save (which may leave it listed nowhere).
ListedUnderCurrent ==
    NoCall =>
        /\ record # NoRecord /\ crashes = 0 =>
              record.updated \in index /\ LoadServiceByAnyPinId(record.cur) = record
        /\ Cardinality(writers) = 1 =>
              index \subseteq (IF record = NoRecord THEN {} ELSE {record.updated})

Counted == {p \in Raters : rated[p] = "source"}

\* With one goroutine a rating is never counted twice, however often a crash
\* makes the engine deliver its pin.
RatedAtMostOnce == Cardinality(writers) = 1 => agg.count <= Cardinality(Counted)
=============================================================================
