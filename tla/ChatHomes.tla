----------------------------- MODULE ChatHomes -----------------------------
(***************************************************************************)
(* The lists of conversations: what a user sees before a room is opened.   *)
(* GetUserLatestChatInfoList and GetGroupChannelList (groupchat/db_chat.go)*)
(* list the groups, channels and private conversations of a user with the  *)
(* newest message of each; GetPrivateChatHomes and GetPrivateGroupPaths    *)
(* (privatechat/db.go) list the private ones again.  They scan the log by  *)
(* themselves: the private lists do not recognise copies of a message.     *)
(*                                                                         *)
(* The user is a member of the group and a side of every conversation.     *)
(* The answers are sorted by their times; they are sets here.              *)
(***************************************************************************)
EXTENDS ChatLog

CONSTANT Root   \* the room of the messages without a channel

NoKey == <<0, 0>>
Stored(r) == CollectGroupMessages(r)

\* latestMessageByTimestamp; the newest message of a channel is found alike.
LatestMessageByTimestamp(K) ==
    IF K = {} THEN NoKey ELSE CHOOSE k \in K : \A l \in K \ {k} : Before(l, k)

\* Mutant of LatestPrivateMessage: the message with the largest index.
LatestByIndex(r) == CHOOSE k \in Stored(r) : \A l \in Stored(r) : log[l] <= log[k]

\* The scan of the private lists: a later time replaces what was found.
LatestPrivateMessage(r) ==
    CHOOSE k \in Stored(r) : \A l \in Stored(r) \ {k} : l[1] < k[1] \/ (l[1] = k[1] /\ Before(k, l))

Conversations == {r \in Rooms : Stored(r) # {}}

\* GetPrivateChatHomes
GetPrivateChatHomes == {[room |-> r, last |-> LatestPrivateMessage(r)] : r \in Conversations}

\* GetPrivateGroupPaths: a conversation with the first message of the scan
GetPrivateGroupPaths ==
    {[room |-> r, first |-> CHOOSE k \in Stored(r) : \A l \in Stored(r) \ {k} : Before(k, l)] : r \in Conversations}

\* GetUserLatestChatInfoList
GetUserLatestChatInfoList ==
    IF kind = "group" THEN {[room |-> Root, last |-> LatestMessageByTimestamp(Stored(Root))]}
    ELSE GetPrivateChatHomes

GetStoredGroupChannels == DOMAIN channels

\* A channel without messages has the time of its pin.
ChannelSortTimestamp(r) ==
    IF Stored(r) = {} THEN channels[r] ELSE LatestMessageByTimestamp(Stored(r))[1]

\* GetGroupChannelList: the stored channels and the channels of the messages
GetGroupChannelList ==
    {[room |-> r, last |-> LatestMessageByTimestamp(Stored(r)), time |-> ChannelSortTimestamp(r)] :
        r \in (Conversations \cup GetStoredGroupChannels) \ {Root}}

\* All the conversations that a client lists.
Listed ==
    IF kind = "private" THEN GetUserLatestChatInfoList
    ELSE GetUserLatestChatInfoList \cup {[room |-> c.room, last |-> c.last] : c \in GetGroupChannelList}

-----------------------------------------------------------------------------
(* Property *)

\* The message that the list of the room shows first.
FirstOfRoom(r) == LatestMessageByTimestamp(Messages(r))

\* Every room with a message that can be read is in the list of conversations,
\* once, with a message of that room that is at least as new as everything the
\* room lists, whichever copies of it the scan and the mempool have stored; in a
\* group it is the message that the room shows first, and so it is in a private
\* conversation without copies and without equal times.
HomeShowsNewest ==
    /\ \A r \in Rooms : Messages(r) # {} => Cardinality({s \in Listed : s.room = r}) = 1
    /\ \A s \in Listed :
          /\ s.last = NoKey <=> Messages(s.room) = {}
          /\ s.last # NoKey => Room[s.last[2]] = s.room
          /\ \A k \in Messages(s.room) : k[1] <= s.last[1]
          /\ (kind = "group" \/ \A k, l \in Stored(s.room) : k # l => k[1] # l[1] /\ k[2] # l[2])
                 => s.last = FirstOfRoom(s.room)
    /\ kind = "private" =>
          \A s \in Listed : \E p \in GetPrivateGroupPaths : p.room = s.room /\ p.first[1] <= s.last[1]
=============================================================================
