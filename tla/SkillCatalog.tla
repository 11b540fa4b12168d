---------------------------- MODULE SkillCatalog ----------------------------
(***************************************************************************)
(* The reads of the skill-service aggregator (list.go, detail.go) over the *)
(* service of SkillService and a constant set of other services: the       *)
(* catalog with its filters, sort orders and cursor, the newest services   *)
(* on a provider's homepage, and the lookup of one service by a pin id.    *)
(* A read answers from one state of the store; the model has fewer than 20 *)
(* services, for which sort.SliceStable is an insertion sort.              *)
(***************************************************************************)
EXTENDS SkillService, SequencesExt

CONSTANTS
    Before, After,  \* the other services, in the order of their keys around this one
    Stamp,          \* Stamp[t]: the time t in milliseconds
    HomeChain,      \* the chain of the service
    PageSize,       \* the size a client asks for
    SectionLimit,   \* homepageSectionLimit
    NoCursor, Ambiguous

Services ==
    [id : Pins \cup {Before[i].id : i \in 1..Len(Before)} \cup {After[i].id : i \in 1..Len(After)},
     chain : STRING, visible : BOOLEAN, ours : BOOLEAN, stamp : Nat, sum : Nat, count : Nat]

ASSUME CatalogAssumption ==
    /\ Stamp \in [Times -> Nat]
    /\ PageSize \in Nat /\ SectionLimit \in Nat \ {0}
    /\ Before \in Seq(Services) /\ After \in Seq(Services)

FirstOf(s, n) == IF Len(s) <= n THEN s ELSE SubSeq(s, 1, n)

\* clampSize
ListSize == IF PageSize = 0 THEN 20 ELSE IF PageSize > 100 THEN 100 ELSE PageSize

-----------------------------------------------------------------------------
(* The catalog *)

\* expandedRecord: the record with the provider's profile and its ratings
Expanded ==
    [id |-> Source, chain |-> HomeChain,
     visible |-> IsVisibleDefault(record), ours |-> HasGlobalMetaId(record),
     stamp |-> Stamp[record.updated], sum |-> agg.sum, count |-> agg.count]

\* listAllServices, listServicesByChain
ListServices(oneChain) ==
    SelectSeq(Before \o (IF record = NoRecord THEN <<>> ELSE <<Expanded>>) \o After,
              LAMBDA s : oneChain => s.chain = HomeChain)

\* The filters of List that depend on the state: visibility and the provider.
MatchesFilters(s, active, provider) == (active => s.visible) /\ (provider => s.ours)

\* smoothedScore(a) < smoothedScore(b), (sum + 4.0 * 5) / (count + 5) each
LowerScore(a, b) == (a.sum + 20) * (b.count + 5) < (b.sum + 20) * (a.count + 5)

LessBy(sortBy, a, b) ==
    CASE sortBy = "updated" -> a.stamp < b.stamp
      [] sortBy = "rating" ->
            \/ LowerScore(a, b)
            \/ ~LowerScore(b, a) /\ a.count < b.count
            \/ ~LowerScore(b, a) /\ a.count = b.count /\ a.stamp < b.stamp

\* Where a stable ascending sort puts item i.
StableRank(items, sortBy, i) ==
    1 + Cardinality({j \in DOMAIN items :
            LessBy(sortBy, items[j], items[i]) \/ (j < i /\ ~LessBy(sortBy, items[i], items[j]))})

\* sortExpanded.  "desc" negates the comparison, which also reverses equal items.
SortExpanded(items, sortBy, order) ==
    LET asc == [k \in DOMAIN items |->
                   items[CHOOSE i \in DOMAIN items : StableRank(items, sortBy, i) = k]]
    IN  IF order = "asc" THEN asc ELSE Reverse(asc)

\* List: one page from an offset, and the offset of the next page
List(oneChain, active, provider, sortBy, order, cursor) ==
    LET items == SortExpanded(
                     SelectSeq(ListServices(oneChain), LAMBDA s : MatchesFilters(s, active, provider)),
                     sortBy, order)
        start == IF cursor = NoCursor THEN 0
                 ELSE IF cursor >= Len(items) THEN Len(items) ELSE cursor
        end == IF start + ListSize > Len(items) THEN Len(items) ELSE start + ListSize
    IN  [list |-> SubSeq(items, start + 1, end),
         next |-> IF end < Len(items) THEN end ELSE NoCursor]

\* What a client sees that follows the cursors to the last page.
Walk(oneChain, provider, sortBy, order) ==
    LET page(cursor) == List(oneChain, TRUE, provider, sortBy, order, cursor)
        seen[n \in 0..Len(Before) + Len(After) + 1] ==
            IF n = 0 THEN page(NoCursor)
            ELSE IF seen[n - 1].next = NoCursor THEN seen[n - 1]
            ELSE LET p == page(seen[n - 1].next)
                 IN  [list |-> seen[n - 1].list \o p.list, next |-> p.next]
    IN  seen[Len(Before) + Len(After) + 1].list

-----------------------------------------------------------------------------
(* The homepage *)

\* pageHomepageProviderRecords: newest first; the other services have their
\* index entries
PageHomepageProviderRecords(oneChain, size) ==
    LET found == SelectSeq(ListServices(oneChain), LAMBDA s :
                     IF s.id = Source THEN OnHomepage(oneChain) ELSE s.visible /\ s.ours)
        items == SortExpanded(found, "updated", "desc")
    IN  [list |-> FirstOf(items, size), hasMore |-> Len(items) > size]

\* bothomepage: the section "services", which asks for one service more than it
\* shows, and the list of services next to it
LoadServicesSection(oneChain) ==
    LET home == PageHomepageProviderRecords(oneChain, SectionLimit + 1)
    IN  [items |-> FirstOf(home.list, SectionLimit),
         hasMore |-> home.hasMore \/ Len(home.list) > SectionLimit]

LoadServices(oneChain) == List(oneChain, TRUE, TRUE, "updated", "desc", NoCursor).list

\* buildActions: the button "Services"
ServicesEnabled(oneChain) ==
    Len(LoadServices(oneChain)) > 0 \/ Len(LoadServicesSection(oneChain).items) > 0

-----------------------------------------------------------------------------
(* The detail of one service *)

FindServiceOnChain(p, idType) ==
    CASE idType = "sourceServicePinId" -> IF p = Source THEN record ELSE NoRecord
      [] idType = "currentPinId" -> LoadServiceByAnyPinId(p)
      [] idType = "auto" -> LoadServiceByAnyPinId(p)

RecordMatchesID(p, idType) ==
    \/ idType \in {"sourceServicePinId", "auto"} /\ p = Source
    \/ idType \in {"currentPinId", "auto"} /\ p = record.cur

\* Without a chain every record is compared, and two matches are an error.
FindService(oneChain, p, idType) ==
    IF oneChain THEN FindServiceOnChain(p, idType)
    ELSE LET others == {s \in Range(Before \o After) : s.id = p}
             match == record # NoRecord /\ RecordMatchesID(p, idType)
             matches == others \cup (IF match THEN {record} ELSE {})
         IN  CASE matches = {} -> NoRecord
               [] Cardinality(matches) = 1 -> CHOOSE m \in matches : TRUE
               [] OTHER -> Ambiguous

-----------------------------------------------------------------------------
(* Property *)

\* Between two calls, and as long as no crash has cut one short, the readers
\* agree, however the saves of the two goroutines, homepage requests with their
\* index entries and the arrival of the profile have interleaved: the section of
\* the homepage is the newest part of what a walk through the catalog gives for
\* the provider and says whether there is more, the button is enabled exactly
\* when there is a service, every sort order lists the same services once, and
\* the service is found by its first and by its current pin, with and without
\* its chain.
ReadersAgree ==
    NoCall /\ crashes = 0 =>
        \A oneChain \in BOOLEAN :
            LET walk == Walk(oneChain, TRUE, "updated", "desc")
                section == LoadServicesSection(oneChain)
            IN  /\ section.items = FirstOf(walk, SectionLimit)
                /\ section.hasMore = (Len(walk) > SectionLimit)
                /\ ServicesEnabled(oneChain) = (walk # <<>>)
                /\ \A order \in {"asc", "desc"} :
                       LET byScore == Walk(oneChain, TRUE, "rating", order)
                       IN  Len(byScore) = Len(walk) /\ Range(byScore) = Range(walk)
                /\ record # NoRecord =>
                       /\ FindService(oneChain, record.cur, "currentPinId") = record
                       /\ FindService(oneChain, Source, "auto") = record
=============================================================================
