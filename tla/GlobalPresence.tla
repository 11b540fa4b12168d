--------------------------- MODULE GlobalPresence ---------------------------
(***************************************************************************)
(* Who is online, as the HTTP endpoints (internal/socket/presence.go), the *)
(* store of the federation (aggregatePresence) and a bot's homepage        *)
(* (bothomepage/presence.go) answer it: the connections of this node and   *)
(* the items of the snapshots that Federation keeps.                       *)
(*                                                                         *)
(* The connections of this node are constant here; the items of a remote   *)
(* node change from one snapshot to the next, and with its restarts.  An   *)
(* item is a connection: [user, type, connected, seen]; a connected time   *)
(* of 0 is unknown.                                                        *)
(***************************************************************************)
EXTENDS Federation, SequencesExt

CONSTANTS
    LocalEntries,  \* OnlineEntries of this node, in some order of its map
    ItemsOf,       \* ItemsOf[n][k]: the items of the k-th snapshot after a start of n
    UserRank,      \* the order of the user ids
    Candidates,    \* the ids of the bot whose homepage is asked for
    HomepagePage,  \* how many items the homepage reads, 100 in the code
    DefaultScope   \* the configured scope of the endpoints, "local" or "global"

LocalNode == NoNode

Users == DOMAIN UserRank
Entries == [user : Users, type : {"app", "pc"}, connected : Nat, seen : Nat]

ASSUME PresenceAssumption ==
    /\ LocalEntries \in Seq(Entries)
    /\ ItemsOf \in [Node -> [1..MaxSeq -> Seq(Entries)]]
    /\ \A u \in Users : UserRank[u] \in Nat
    /\ \A u, v \in Users : UserRank[u] = UserRank[v] => u = v
    /\ Candidates \subseteq Users
    /\ HomepagePage \in Nat \ {0}
    /\ DefaultScope \in {"local", "global"}

-----------------------------------------------------------------------------
(* Store: aggregatePresence *)

Observed(entries, node) == [i \in DOMAIN entries |-> [entry |-> entries[i], node |-> node]]

\* The local connections, then the active snapshots in the order of their ids.
Observations ==
    LET active == SetToSortSeq(ActiveSnapshots, <)
    IN  FoldLeft(LAMBDA acc, n : acc \o Observed(ItemsOf[n][snapSeq[n]], n),
                 Observed(LocalEntries, LocalNode), active)

Key(e) == <<e.user, e.type>>

\* Mutant of AddObservation: the connection that was seen last replaces the entry.
KeepLastObservation(byKey, o) ==
    LET e == o.entry
    IN  IF Key(e) \notin DOMAIN byKey
        THEN byKey @@ (Key(e) :> [connected |-> e.connected, seen |-> e.seen, nodes |-> {o.node}, sources |-> 1])
        ELSE [byKey EXCEPT ![Key(e)] =
                 [connected |-> e.connected, seen |-> e.seen, nodes |-> @.nodes \cup {o.node},
                  sources |-> @.sources + 1]]

\* addAggregateObservation
AddObservation(byKey, o) ==
    LET e == o.entry
    IN  IF Key(e) \notin DOMAIN byKey
        THEN byKey @@ (Key(e) :> [connected |-> e.connected, seen |-> e.seen, nodes |-> {o.node}, sources |-> 1])
        ELSE [byKey EXCEPT ![Key(e)] =
                 [connected |-> IF e.connected # 0 /\ (@.connected = 0 \/ e.connected < @.connected)
                                THEN e.connected ELSE @.connected,
                  seen |-> IF e.seen > @.seen THEN e.seen ELSE @.seen,
                  nodes |-> @.nodes \cup {o.node},
                  sources |-> @.sources + 1]]

NoEntries == [k \in {} |-> {}]
ByKey == FoldLeft(AddObservation, NoEntries, Observations)

\* Last seen first, then by user and type.
Precedes(k, l) ==
    \/ ByKey[k].seen > ByKey[l].seen
    \/ ByKey[k].seen = ByKey[l].seen /\ UserRank[k[1]] < UserRank[l[1]]
    \/ ByKey[k].seen = ByKey[l].seen /\ k[1] = l[1] /\ k[2] = "app" /\ l[2] = "pc"

\* GlobalOnline
GlobalOnline ==
    LET keys == SetToSortSeq(DOMAIN ByKey, Precedes)
    IN  [i \in DOMAIN keys |-> [user |-> keys[i][1], type |-> keys[i][2]] @@ ByKey[keys[i]]]

\* paginatePresence, with the page and the size that the handlers let through
PaginatePresence(items, page, size) ==
    LET start == (page - 1) * size
    IN  IF start >= Len(items) THEN <<>>
        ELSE SubSeq(items, start + 1, IF start + size > Len(items) THEN Len(items) ELSE start + size)

StatsAt ==
    [total |-> Len(Observations),
     users |-> Cardinality({Observations[i].entry.user : i \in DOMAIN Observations}),
     nodes |-> 1 + Cardinality(ActiveSnapshots)]

-----------------------------------------------------------------------------
(* The endpoints and the homepage *)

\* resolvePresenceScope: without a scope the configured one, with a wrong one "local"
ResolvePresenceScope(requested) ==
    IF requested \in {"local", "global"} THEN requested
    ELSE IF requested = "" THEN DefaultScope ELSE "local"

\* HandleOnlineList: the users on one page; the local list is not aggregated.
HandleOnlineList(requested, page, size) ==
    IF ResolvePresenceScope(requested) = "global" THEN PaginatePresence(GlobalOnline, page, size)
    ELSE PaginatePresence(LocalEntries, page, size)

\* HandleIdchatOnlineUsers: the first page of the configured scope
HandleIdchatOnlineUsers(size) == HandleOnlineList("", 1, size)

\* HandleIdchatUserOnline asks this node only.
HandleIdchatUserOnline(user) == \E i \in DOMAIN LocalEntries : LocalEntries[i].user = user

FindPresence(items) == \E i \in DOMAIN items : items[i].user \in Candidates

\* resolvePresence: the first page of the global list, then this node
ResolvePresence ==
    IF FindPresence(PaginatePresence(GlobalOnline, 1, HomepagePage)) THEN "federated-presence"
    ELSE IF FindPresence(LocalEntries) THEN "local-presence"
    ELSE "unknown"

-----------------------------------------------------------------------------
(* Property *)

\* The connections that the list stands for: those of this node, and those in
\* the snapshot that is shown for an active node.
Connections(k) == {i \in DOMAIN Observations : Key(Observations[i].entry) = k}

\* Whatever snapshots come, go, expire or start over, the global list has every
\* user and type that this node or an active node reports, once, with the
\* earliest known connection, the last sign of life and exactly the nodes that
\* report it; its pages are the list, the stats count the same connections, the
\* homepage never calls a bot online that nobody reports, and a bot on this node
\* is always online, on whatever page of the global list it is.
GlobalListIsExact ==
    LET list == GlobalOnline
        pages == FoldLeft(LAMBDA acc, p : acc \o HandleOnlineList("global", p, 2),
                          <<>>, [p \in 1..Len(list) + 1 |-> p])
        reported == {Key(Observations[i].entry) : i \in DOMAIN Observations}
    IN  /\ Len(list) = Cardinality(reported)
        /\ \A i \in DOMAIN list :
              LET c == Connections(<<list[i].user, list[i].type>>)
                  known == {Observations[j].entry.connected : j \in c} \ {0}
              IN  /\ c # {} /\ list[i].sources = Cardinality(c)
                  /\ list[i].nodes = {Observations[j].node : j \in c}
                  /\ IF known = {} THEN list[i].connected = 0
                     ELSE list[i].connected \in known /\ \A t \in known : list[i].connected <= t
                  /\ \A j \in c : Observations[j].entry.seen <= list[i].seen
                  /\ i > 1 => list[i - 1].seen >= list[i].seen
        /\ pages = list
        /\ StatsAt.total = FoldLeft(LAMBDA acc, item : acc + item.sources, 0, list)
        /\ \A n \in UNION {list[i].nodes : i \in DOMAIN list} : n = LocalNode \/ n \in ActiveSnapshots
        /\ FindPresence(LocalEntries) => ResolvePresence # "unknown"
        /\ ResolvePresence # "unknown" => \E k \in reported : k[1] \in Candidates
=============================================================================
