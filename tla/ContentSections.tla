-------------------------- MODULE ContentSections ---------------------------
(***************************************************************************)
(* A section of a bot's homepage that lists published content (bothomepage *)
(* build.go over publishedcontent list.go): the record of PublishedContent *)
(* and a constant set of other records of the same publisher.              *)
(*                                                                         *)
(* The publisher is known by a global id, a metaid and an address, and a   *)
(* record has index entries for those of them that its pins carry.  The    *)
(* section asks for the newest entries of every id and merges the answers. *)
(* An entry whose record has moved to another sort key still leads to it.  *)
(***************************************************************************)
EXTENDS PublishedContent, SequencesExt

CONSTANTS
    Others,        \* the other records: [id, ids, hidden, stamp]
    OwnIds,        \* the ids that the pins of the record carry
    Stamp,         \* Stamp[t]: the time t in milliseconds
    SectionLimit   \* homepageSectionLimit

IdKinds == {"global", "metaid", "address"}
Items == [id : Pins \cup {o.id : o \in Others}, ids : SUBSET IdKinds, hidden : BOOLEAN, stamp : Nat]

ASSUME SectionAssumption ==
    /\ Others \subseteq Items
    /\ \A o, q \in Others : o.stamp = q.stamp => o = q
    /\ OwnIds \subseteq IdKinds
    /\ Stamp \in [Times -> Nat]
    /\ SectionLimit \in Nat \ {0}

\* homepageSectionReadSize
ReadSize == SectionLimit + 1

\* toSectionItem
SectionItem ==
    [id |-> Source, ids |-> OwnIds, hidden |-> record.hidden, stamp |-> Stamp[SortTimestamp(record)]]

FirstOf(s, n) == IF Len(s) <= n THEN s ELSE SubSeq(s, 1, n)

-----------------------------------------------------------------------------
(* publishedcontent: List for one id *)

\* The entries below the prefix of the id, as the key's time and the record it
\* leads to; the others' entries are up to date.
Entries(kind) ==
    {[key |-> o.stamp, item |-> o] : o \in {o \in Others : kind \in o.ids}}
        \cup (IF kind \in OwnIds /\ record # NoRecord
              THEN {[key |-> Stamp[t], item |-> SectionItem] : t \in index} ELSE {})

\* scanIdentity: the keys are ordered newest first; hidden records are passed
\* over, and the scan stops when it has enough.
ScanIdentity(kind, limit) ==
    LET shown == {e \in Entries(kind) : ~e.item.hidden}
        rows == SetToSortSeq(shown, LAMBDA a, b : a.key > b.key)
    IN  FirstOf([i \in DOMAIN rows |-> rows[i].item], limit)

List(kind) ==
    LET records == ScanIdentity(kind, ReadSize + 1)
    IN  [items |-> FirstOf(records, ReadSize), hasMore |-> Len(records) > ReadSize]

-----------------------------------------------------------------------------
(* bothomepage: one section *)

\* publishedContentIdentityQueries
Queries == <<"global", "metaid", "address">>

\* Mutant of MergeItems: every answer is appended.
AppendItems(items, more) == items \o more

\* Items that an earlier answer, or an earlier entry, brought are dropped.
MergeItems(items, more) ==
    FoldLeft(LAMBDA acc, item : IF \E k \in DOMAIN acc : acc[k].id = item.id THEN acc ELSE Append(acc, item),
             items, more)

\* loadPublishedContentByCanonicalIdentity
LoadPublishedContent ==
    LET merged == FoldLeft(LAMBDA acc, kind : MergeItems(acc, List(kind).items), <<>>, Queries)
        sorted == SortSeq(merged, LAMBDA a, b : a.stamp > b.stamp)
    IN  [items |-> FirstOf(sorted, ReadSize),
         hasMore |-> Len(sorted) > ReadSize \/ \E kind \in IdKinds : List(kind).hasMore]

\* loadPublishedContentSection, sectionWithItems
Section ==
    LET loaded == LoadPublishedContent
    IN  [items |-> FirstOf(loaded.items, SectionLimit),
         hasMore |-> loaded.hasMore \/ Len(loaded.items) > SectionLimit]

-----------------------------------------------------------------------------
(* Property *)

\* What the section is about: the records that are not hidden.
Shown == {o \in Others : ~o.hidden} \cup (IF record = NoRecord \/ record.hidden THEN {} ELSE {SectionItem})

\* Between two calls, and as long as no crash has cut one short, the section is
\* honest although two goroutines may have left several entries of a record: it
\* has nothing hidden and nothing twice, the newest first, within the limit, and
\* when it does not say that there is more it is complete.  With one goroutine it
\* is exactly the newest records.
SectionIsHonest ==
    (\A w \in AllWriters : phase[w] = "idle") /\ crashes = 0 =>
        LET items == Section.items
        IN  /\ Range(items) \subseteq Shown
            /\ \A i, j \in DOMAIN items : i < j => items[i].stamp > items[j].stamp
            /\ Len(items) <= SectionLimit
            /\ ~Section.hasMore => Range(items) = Shown
            /\ Cardinality(writers) = 1 =>
                   /\ Section.hasMore = (Cardinality(Shown) > SectionLimit)
                   /\ \A s \in Shown \ Range(items) : \A i \in DOMAIN items : items[i].stamp > s.stamp
                   /\ Len(items) = IF Section.hasMore THEN SectionLimit ELSE Cardinality(Shown)
=============================================================================
