------------------------------ MODULE ChatLog ------------------------------
(***************************************************************************)
(* The messages of a group (internal/aggregator/groupchat) or of the       *)
(* private conversations of a user (internal/aggregator/privatechat), and  *)
(* a client that reads one room of them page by page over HTTP.            *)
(*                                                                         *)
(* A room is a group's root, one of its channels, or a pair of users.  A   *)
(* message is stored under its time and transaction, with an Index that is *)
(* one more than the room's largest.  A confirmed pin has the time of its  *)
(* block; a mempool pin has the time of the poll, which need not agree     *)
(* with the clock of the miners and is a new one after a restart.  So a    *)
(* message may be stored several times.  groupchat lists every copy,       *)
(* privatechat the oldest.  Pins are numbers, in the order of their ids; a *)
(* transaction carries one message, a user has one identity.               *)
(***************************************************************************)
EXTENDS PinFeed, FiniteSetsExt

CONSTANTS
    Room,       \* Room[p]: the room of the message p
    BlockTime,  \* BlockTime[p]: the time of the block of p
    Times,      \* times of a poll
    Valid,      \* messages with a body that can be decoded and that name a room
    NewChannel, \* pins that create the channel Room[p]
    PageSize,   \* size of the client's requests
    NotifyCap   \* capacity of notifyCh

ASSUME ChatAssumption ==
    /\ Pins \subseteq Nat
    /\ DOMAIN Room = Pins
    /\ BlockTime \in [Pins -> Nat \ {0}] /\ Times \subseteq Nat \ {0}
    /\ Valid \subseteq Pins /\ NewChannel \subseteq Pins \ Valid
    /\ PageSize \in Nat \ {0} /\ NotifyCap \in Nat

VARIABLES
    kind,     \* "group" or "private"
    \* Pebble
    log,      \* log[<<t, p>>]: the Index under which p is stored at time t
    channels, \* channels[r]: the time of the stored GroupChannel r
    \* one call of the aggregator per goroutine
    phase,    \* "idle", "store" or "send"
    msg,      \* the message: its time, its pin and its Index
    notifyCh, \* events for the socket server
    \* the client
    mode,     \* it follows "cursor", "time" or "index"
    room,     \* the room it reads
    at,       \* the cursor, timestamp or startIndex of its next request
    got,      \* messages in the answers so far
    must,     \* messages that the room had when it began
    state,    \* "new", "reading" or "done"
    \* history
    backdated \* a copy was stored with an earlier time than another copy of the message

callVars == <<phase, msg>>
setting == <<kind, mode, room>>
clientVars == <<at, got, must, state>>
vars == <<feedVars, setting, log, channels, callVars, notifyCh, clientVars, backdated>>

Rooms == {Room[p] : p \in Pins}
Keys == (Times \cup {BlockTime[p] : p \in Pins}) \X Pins
NoMsg == [key |-> <<0, 0>>, index |-> 0]

TypeOK ==
    /\ FeedTypeOK
    /\ kind \in {"group", "private"} /\ mode \in {"cursor", "time", "index"} /\ room \in Rooms
    /\ DOMAIN log \subseteq Keys /\ \A k \in DOMAIN log : log[k] \in Nat
    /\ DOMAIN channels \subseteq Rooms /\ \A r \in DOMAIN channels : channels[r] \in Nat
    /\ phase \in [AllWriters -> {"idle", "store", "send"}]
    /\ msg \in [AllWriters -> [key : Keys \cup {<<0, 0>>}, index : Nat]]
    /\ notifyCh \in Seq(Pins) /\ Len(notifyCh) <= NotifyCap
    /\ got \subseteq Pins /\ must \subseteq Pins
    /\ at \in Nat /\ state \in {"new", "reading", "done"}
    /\ backdated \in BOOLEAN

Init ==
    /\ FeedInit
    /\ kind \in {"group", "private"} /\ mode \in {"cursor", "time", "index"} /\ room \in Rooms
    /\ log = << >> /\ channels = << >>
    /\ phase = [w \in AllWriters |-> "idle"] /\ msg = [w \in AllWriters |-> NoMsg]
    /\ notifyCh = << >>
    /\ at = 0 /\ got = {} /\ must = {} /\ state = "new"
    /\ backdated = FALSE

-----------------------------------------------------------------------------
(* What a request and nextChatIndex see of a room *)

PinsIn(K) == {k[2] : k \in K}

\* chatKey, pchatKey: a scan returns the keys in this order
Before(k, l) == k[1] < l[1] \/ (k[1] = l[1] /\ k[2] < l[2])

\* collectGroupRootMessages, collectChannelMessages
CollectGroupMessages(r) == {k \in DOMAIN log : Room[k[2]] = r}

\* Mutant of CollectPrivateMessages: copies of a message are not recognised.
CollectAllCopies(r) == {k \in DOMAIN log : Room[k[2]] = r}

\* collectPrivateMessages: the first key of a message counts
CollectPrivateMessages(r) ==
    {k \in DOMAIN log :
        /\ Room[k[2]] = r
        /\ \A l \in DOMAIN log : l[2] = k[2] => k[1] <= l[1]}

Messages(r) == IF kind = "group" THEN CollectGroupMessages(r) ELSE CollectPrivateMessages(r)

\* Mutant of IndexAfter: the number of messages.
CountIndex(K) == Cardinality(K)

IndexAfter(K) == Max({log[k] + 1 : k \in K} \cup {0})

NextChatIndex(p) == IndexAfter(CollectGroupMessages(Room[p]))
NextPrivateMessageIndex(p) == IndexAfter(CollectPrivateMessages(Room[p]))

-----------------------------------------------------------------------------
(* Storing a message *)

PinTimes(w, p) == IF w = "mempool" THEN Times ELSE {BlockTime[p]}

\* The handler has made the message and read the room to find its index.
Begin(w, p, index) ==
    /\ phase[w] = "idle"
    /\ p \in Valid
    /\ \E t \in PinTimes(w, p) : msg' = [msg EXCEPT ![w] = [key |-> <<t, p>>, index |-> index]]
    /\ phase' = [phase EXCEPT ![w] = "store"]
    /\ Take(w, p)

HandleGroupChat(w, p) == kind = "group" /\ Begin(w, p, NextChatIndex(p))
HandlePrivateChat(w, p) == kind = "private" /\ Begin(w, p, NextPrivateMessageIndex(p))

\* handleGroupChannel: the channel is written, again with each delivery.
HandleGroupChannel(w, p) ==
    /\ phase[w] = "idle"
    /\ kind = "group" /\ p \in NewChannel
    /\ \E t \in PinTimes(w, p) :
          channels' = [r \in DOMAIN channels \cup {Room[p]} |-> IF r = Room[p] THEN t ELSE channels[r]]
    /\ Pass(w, p)
    /\ UNCHANGED callVars

Ignored(w, p) ==
    /\ phase[w] = "idle"
    /\ p \notin Valid /\ ~(kind = "group" /\ p \in NewChannel)
    /\ Pass(w, p)
    /\ UNCHANGED <<channels, callVars>>

DispatchPin(w, p) ==
    /\ Offered(w, p)
    /\ \/ (HandleGroupChat(w, p) \/ HandlePrivateChat(w, p)) /\ UNCHANGED channels
       \/ HandleGroupChannel(w, p)
       \/ Ignored(w, p)
    /\ UNCHANGED <<setting, log, notifyCh, clientVars, backdated>>

\* SaveChatMessage, SavePrivateMessage: the write
Save(w) ==
    LET k == msg[w].key
    IN  /\ phase[w] = "store"
        /\ log' = [l \in DOMAIN log \cup {k} |-> IF l = k THEN msg[w].index ELSE log[l]]
        /\ phase' = [phase EXCEPT ![w] = "send"]
        /\ backdated' = (backdated \/ \E l \in DOMAIN log : l[2] = k[2] /\ k[1] < l[1])
        /\ UNCHANGED <<feedVars, setting, channels, msg, notifyCh, clientVars>>

\* Mutant of Enqueue: the event waits in the channel before it is stored.
EnqueueFirst(w) ==
    /\ phase[w] \in {"store", "send"}
    /\ notifyCh' = IF Len(notifyCh) < NotifyCap THEN Append(notifyCh, msg[w].key[2]) ELSE notifyCh

\* sendNotifyEvent: the event of a message is dropped when the channel is full
Enqueue(w) ==
    /\ phase[w] = "send"
    /\ notifyCh' = IF Len(notifyCh) < NotifyCap THEN Append(notifyCh, msg[w].key[2]) ELSE notifyCh

SendNotifyEvent(w) ==
    /\ Enqueue(w)
    /\ phase' = [phase EXCEPT ![w] = "idle"]
    /\ msg' = [msg EXCEPT ![w] = NoMsg]
    /\ Done(w)
    /\ UNCHANGED <<setting, log, channels, clientVars, backdated>>

\* consumeNotifyEvents
PushNotification ==
    /\ notifyCh # << >>
    /\ notifyCh' = Tail(notifyCh)
    /\ UNCHANGED <<feedVars, setting, log, channels, callVars, clientVars, backdated>>

-----------------------------------------------------------------------------
(* The client's requests *)

\* The messages of K after the first n, from the newest to the oldest, at most PageSize.
NewestAfter(K, n) ==
    {k \in K : LET newer == Cardinality({l \in K : Before(k, l)})
               IN  n <= newer /\ newer < n + PageSize}

\* Mutant of PaginateMessagesDesc: the next page starts one message later.
PaginateSkipping(K, offset) ==
    LET page == NewestAfter(K, offset)
        next == offset + Cardinality(page)
    IN  [page |-> page, next |-> next + 1,
         more |-> next < Cardinality(K) /\ Cardinality(page) = PageSize,
         time |-> Min({k[1] : k \in page} \cup (IF page = {} THEN {0} ELSE {}))]

\* Mutant of PaginateMessagesDesc: nextTimestamp is the oldest of all messages.
PaginateOldest(K, offset) ==
    LET page == NewestAfter(K, offset)
        next == offset + Cardinality(page)
    IN  [page |-> page, next |-> next,
         more |-> next < Cardinality(K) /\ Cardinality(page) = PageSize,
         time |-> Min({k[1] : k \in K} \cup (IF page = {} THEN {0} ELSE {}))]

\* The page, nextCursor (an offset from the newest message; there is none
\* unless more) and nextTimestamp (0 when the page is empty)
PaginateMessagesDesc(K, offset) ==
    LET page == NewestAfter(K, offset)
        next == offset + Cardinality(page)
    IN  [page |-> page, next |-> next,
         more |-> next < Cardinality(K) /\ Cardinality(page) = PageSize,
         time |-> Min({k[1] : k \in page} \cup (IF page = {} THEN {0} ELSE {}))]

\* filterMessagesBeforeTimestamp
FilterBeforeTimestamp(K, t) == IF t = 0 THEN K ELSE {k \in K : k[1] < t}

\* GetChatListV2BeforeTimestamp, GetChannelChatListV3
GetChatListV2(offset, t) ==
    PaginateMessagesDesc(FilterBeforeTimestamp(CollectGroupMessages(room), t), offset)

GetPrivateChatList(offset, t) ==
    PaginateMessagesDesc(FilterBeforeTimestamp(CollectPrivateMessages(room), t), offset)

ChatList(offset, t) == IF kind = "group" THEN GetChatListV2(offset, t) ELSE GetPrivateChatList(offset, t)

\* In the order of sliceMessagesByIndex
IndexBefore(k, l) == log[k] < log[l] \/ (log[k] = log[l] /\ Before(k, l))

SliceMessagesByIndex(K, start) ==
    LET from == {k \in K : log[k] >= start}
    IN  {k \in from : Cardinality({l \in from : IndexBefore(l, k)}) < PageSize}

GetChatListByIndex(start) == SliceMessagesByIndex(CollectGroupMessages(room), start)
GetPrivateChatListByIndex(start) == SliceMessagesByIndex(CollectPrivateMessages(room), start)

Read(page) ==
    /\ must' = IF state = "new" /\ mode # "index" THEN PinsIn(Messages(room)) ELSE must
    /\ got' = got \cup PinsIn(page)
    /\ UNCHANGED <<feedVars, setting, log, channels, callVars, notifyCh, backdated>>

\* Requests with the nextCursor of the last answer, until it is empty
ReadByCursor ==
    LET answer == ChatList(at, 0)
    IN  /\ mode = "cursor" /\ state # "done"
        /\ Read(answer.page)
        /\ at' = answer.next
        /\ state' = IF answer.more THEN "reading" ELSE "done"

\* Requests with the nextTimestamp of the last answer, until it is 0
ReadByTime ==
    LET answer == ChatList(0, at)
    IN  /\ mode = "time" /\ state # "done"
        /\ Read(answer.page)
        /\ at' = answer.time
        /\ state' = IF answer.page = {} THEN "done" ELSE "reading"

\* Requests, again and again, from one more than the largest index seen
ReadByIndex ==
    LET page == IF kind = "group" THEN GetChatListByIndex(at) ELSE GetPrivateChatListByIndex(at)
    IN  /\ mode = "index"
        /\ page # {}
        /\ Read(page)
        /\ at' = Max({log[k] : k \in page}) + 1
        /\ state' = "reading"

-----------------------------------------------------------------------------
(* The feeds *)

Mine ==
    /\ MineNext({msg["mempool"].key[2]})
    /\ UNCHANGED <<setting, log, channels, callVars, notifyCh, clientVars, backdated>>

Poll(p) ==
    /\ PollMempool(p)
    /\ UNCHANGED <<setting, log, channels, callVars, notifyCh, clientVars, backdated>>

\* The client does not notice; the channel is lost.
Crash ==
    /\ Restart
    /\ phase' = [w \in AllWriters |-> "idle"] /\ msg' = [w \in AllWriters |-> NoMsg]
    /\ notifyCh' = << >>
    /\ UNCHANGED <<setting, log, channels, clientVars, backdated>>

Next ==
    \/ Mine
    \/ \E p \in Pins : Poll(p)
    \/ \E w \in AllWriters, p \in Pins : DispatchPin(w, p)
    \/ \E w \in AllWriters : Save(w) \/ SendNotifyEvent(w)
    \/ PushNotification
    \/ ReadByCursor \/ ReadByTime \/ ReadByIndex
    \/ Crash

Spec == Init /\ [][Next]_vars

-----------------------------------------------------------------------------
(* Properties *)

\* A client that follows nextCursor misses no message that the room had when it
\* began, although messages are stored between its requests and a cursor is only
\* an offset.  In a private conversation this needs that no copy with an earlier
\* time turns up, which would move the message to an older place in the list.
CursorPagesComplete ==
    mode = "cursor" /\ state = "done" /\ (kind = "group" \/ ~backdated) => must \subseteq got

\* A client that follows nextTimestamp misses no message that the room had when
\* it began, copies with earlier times or not, as long as no two keys of the room
\* share a time.
TimePagesComplete ==
    mode = "time" /\ state = "done" =>
        \/ must \subseteq got
        \/ \E k, l \in CollectGroupMessages(room) : k[1] = l[1] /\ k # l

\* With one goroutine, a client that asks for what comes after the largest index
\* it has seen never passes a message by: every listed message with a smaller
\* index was in an answer, also when a crash has made the engine store messages
\* again.
IndexedIsSeen ==
    mode = "index" /\ Cardinality(writers) = 1 =>
        \A k \in Messages(room) : log[k] < at => k[2] \in got

\* A message is pushed to clients only when it can be read: every event for the
\* socket server belongs to a message that a request would list.
PushedIsListed ==
    \A i \in 1..Len(notifyCh) : notifyCh[i] \in PinsIn(Messages(Room[notifyCh[i]]))

\* A message appears once in a private conversation, whatever copies there are,
\* and once in a group that only the scan goroutine feeds.
ListedOnce ==
    kind = "private" \/ writers = {"scan"} =>
        \A r \in Rooms : \A k, l \in Messages(r) : k[2] = l[2] => k = l
=============================================================================
