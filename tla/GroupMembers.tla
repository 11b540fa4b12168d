---------------------------- MODULE GroupMembers ----------------------------
(***************************************************************************)
(* The members and roles of a group (internal/aggregator/groupchat): the   *)
(* pins that create it, join and leave it, name admins, block users, and   *)
(* chat, which joins the sender.                                           *)
(*                                                                         *)
(* A handler is a fixed sequence of Pebble reads and writes, todo[w] is    *)
(* what is left of the one that goroutine w is in.  No lock is held, so    *)
(* what a goroutine has read may be old when it writes.  Confirmed and     *)
(* mempool pins are handled alike, and no pin is recognised when it comes  *)
(* again.  Events for the socket server wait in a channel with room for    *)
(* NotifyCap of them, which is in memory.                                  *)
(***************************************************************************)
EXTENDS PinFeed, FiniteSets

CONSTANTS
    Users,
    Op,      \* Op[p]: "create", "join", "leave", "admin", "block" or "chat"
    By,      \* By[p]: the user who made p
    Named,   \* Named[p]: the users that an admin or block pin lists
    Valid,   \* pins with a body that can be decoded and that name the group
    NotifyCap,  \* capacity of notifyCh
    NoPin, NoGroup, NoMember, NoRole

Ops == {"create", "join", "leave", "admin", "block", "chat"}
Members == [removed : BOOLEAN, admin : BOOLEAN, creator : BOOLEAN]
Roles == [creator : BOOLEAN, admin : BOOLEAN, blocked : BOOLEAN]

ASSUME GroupAssumption ==
    /\ \A ch \in Chains : Op[ch[1]] = "create" /\ ch[1] \in Valid
    /\ Op \in [Pins -> Ops] /\ By \in [Pins -> Users] /\ Named \in [Pins -> Seq(Users)]
    /\ Valid \subseteq Pins /\ NoPin \notin Pins /\ NotifyCap \in Nat
    /\ NoMember \notin Members /\ NoRole \notin Roles /\ NoGroup \notin Nat
    /\ WriterSets \subseteq SUBSET {"scan", "mempool"}  \* the package has no backfill

VARIABLES
    \* Pebble
    count,    \* MemberCount of the Group, or NoGroup
    member,   \* member[u]: u's GroupMember, or NoMember
    role,     \* role[u]: u's GroupMemberRole, or NoRole
    history,  \* the GroupMetaIdJoinItems: pin, and whether it has the time of a poll
    \* one call of dispatchPin per goroutine
    pin, todo,
    memberOf, roleOf, countOf,  \* what it has read last
    event,    \* the users it will notify
    notifyCh, \* events for the socket server: the pin and the users it is for
    notified, \* pushed by the socket server: the user and the pin
    lost      \* not pushed because the channel was full, or a crash emptied it

groupVars == <<count, member, role, history>>
loadVars == <<memberOf, roleOf, countOf>>
callVars == <<pin, todo, loadVars, event>>
pushVars == <<notifyCh, notified, lost>>
vars == <<feedVars, groupVars, callVars, pushVars>>

StepNames == {"saveGroup", "saveCreator", "setCreatorRole", "saveJoinItem", "saveMember",
              "loadMember", "removeMember", "loadGroup", "addToCount", "subtractFromCount",
              "loadRole", "setAdmin", "makeAdmin", "setBlocked", "autoJoin", "notifyMembers"}

TypeOK ==
    /\ FeedTypeOK
    /\ count \in Nat \cup {NoGroup}
    /\ member \in [Users -> Members \cup {NoMember}]
    /\ role \in [Users -> Roles \cup {NoRole}]
    /\ history \subseteq Pins \X BOOLEAN
    /\ pin \in [AllWriters -> Pins \cup {NoPin}]
    /\ todo \in [AllWriters -> Seq(StepNames \X Users)]
    /\ memberOf \in [AllWriters -> Members \cup {NoMember}]
    /\ roleOf \in [AllWriters -> Roles \cup {NoRole}]
    /\ countOf \in [AllWriters -> Nat \cup {NoGroup}]
    /\ event \in [AllWriters -> SUBSET Users]
    /\ notifyCh \in Seq([pin : Pins, to : SUBSET Users])
    /\ notified \subseteq Users \X Pins
    /\ lost \subseteq Users \X Pins

NoCall ==
    /\ pin = [w \in AllWriters |-> NoPin] /\ todo = [w \in AllWriters |-> << >>]
    /\ memberOf = [w \in AllWriters |-> NoMember] /\ roleOf = [w \in AllWriters |-> NoRole]
    /\ countOf = [w \in AllWriters |-> NoGroup] /\ event = [w \in AllWriters |-> {}]

Init ==
    /\ FeedInit
    /\ count = NoGroup /\ history = {}
    /\ member = [u \in Users |-> NoMember] /\ role = [u \in Users |-> NoRole]
    /\ NoCall
    /\ notifyCh = << >> /\ notified = {} /\ lost = {}

-----------------------------------------------------------------------------
(* The handlers, as sequences of steps *)

HandleGroupCreate(u) ==
    << <<"saveGroup", u>>, <<"saveCreator", u>>, <<"setCreatorRole", u>>, <<"saveJoinItem", u>> >>

HandleGroupJoin(u) ==
    << <<"saveJoinItem", u>>, <<"saveMember", u>>, <<"loadGroup", u>>, <<"addToCount", u>> >>

HandleGroupLeave(u) ==
    << <<"saveJoinItem", u>>, <<"loadMember", u>>, <<"removeMember", u>>,
       <<"loadGroup", u>>, <<"subtractFromCount", u>> >>

\* The n steps for each of the users, one user after the other.
ForEach(us, steps, n) ==
    [k \in 1..(n * Len(us)) |-> <<steps[((k - 1) % n) + 1], us[((k - 1) \div n) + 1]>>]

HandleGroupAdmin(us) == ForEach(us, <<"loadRole", "setAdmin", "loadMember", "makeAdmin">>, 4)

HandleGroupBlock(us) == ForEach(us, <<"loadRole", "setBlocked">>, 2)

HandleGroupChat(u) == << <<"loadMember", u>>, <<"autoJoin", u>>, <<"notifyMembers", u>> >>

Handler(p) ==
    CASE Op[p] = "create" -> HandleGroupCreate(By[p])
      [] Op[p] = "join" -> HandleGroupJoin(By[p])
      [] Op[p] = "leave" -> HandleGroupLeave(By[p])
      [] Op[p] = "admin" -> HandleGroupAdmin(Named[p])
      [] Op[p] = "block" -> HandleGroupBlock(Named[p])
      [] Op[p] = "chat" -> HandleGroupChat(By[p])

\* The MetaId of the one event a handler returns: the last user that a pin
\* names.  The event of a chat has the targets of its last step.
EventOf(p) ==
    CASE Op[p] \in {"join", "leave"} -> {By[p]}
      [] Op[p] \in {"admin", "block"} -> {Named[p][Len(Named[p])]}
      [] OTHER -> {}

\* dispatchPin: a pin that cannot be decoded or names nobody has no effect
DispatchPin(w, p) ==
    /\ Offered(w, p)
    /\ todo[w] = << >>
    /\ \/ /\ p \in Valid /\ Handler(p) # << >>
          /\ pin' = [pin EXCEPT ![w] = p]
          /\ todo' = [todo EXCEPT ![w] = Handler(p)]
          /\ event' = [event EXCEPT ![w] = EventOf(p)]
          /\ Take(w, p)
          /\ UNCHANGED loadVars
       \/ /\ p \notin Valid \/ Handler(p) = << >>
          /\ Pass(w, p)
          /\ UNCHANGED callVars
    /\ UNCHANGED <<groupVars, pushVars>>

-----------------------------------------------------------------------------
(* The steps *)

At(w, step, u) == todo[w] # << >> /\ Head(todo[w]) = <<step, u>>

\* sendNotifyEvent: no event for a create pin, and a full channel drops it
SendNotifyEvent(p, targets) ==
    \/ Op[p] = "create" /\ UNCHANGED pushVars
    \/ /\ Op[p] # "create" /\ Len(notifyCh) < NotifyCap
       /\ notifyCh' = Append(notifyCh, [pin |-> p, to |-> targets])
       /\ UNCHANGED <<notified, lost>>
    \/ /\ Op[p] # "create" /\ Len(notifyCh) >= NotifyCap
       /\ lost' = lost \cup (targets \X {p})
       /\ UNCHANGED <<notifyCh, notified>>

\* HandleBlockPin or HandleMempoolPin sends the event and returns.
Return(w, targets) ==
    /\ Done(w)
    /\ SendNotifyEvent(pin[w], targets)
    /\ pin' = [pin EXCEPT ![w] = NoPin]
    /\ event' = [event EXCEPT ![w] = {}]

\* The step is done, and with the last one the handler.
Proceed(w) ==
    /\ todo' = [todo EXCEPT ![w] = Tail(@)]
    /\ IF Len(todo[w]) > 1 THEN UNCHANGED <<feedVars, pin, event, pushVars>>
       ELSE Return(w, event[w])

SaveMember(u, m) == member' = [member EXCEPT ![u] = m]
Member == [removed |-> FALSE, admin |-> FALSE, creator |-> FALSE]
Role == [creator |-> FALSE, admin |-> FALSE, blocked |-> FALSE]

SaveGroup(w, u) ==
    /\ At(w, "saveGroup", u)
    /\ count' = 1
    /\ Proceed(w) /\ UNCHANGED <<member, role, history, loadVars>>

SaveCreator(w, u) ==
    /\ At(w, "saveCreator", u)
    /\ SaveMember(u, [Member EXCEPT !.admin = TRUE, !.creator = TRUE])
    /\ Proceed(w) /\ UNCHANGED <<count, role, history, loadVars>>

SetCreatorRole(w, u) ==
    /\ At(w, "setCreatorRole", u)
    /\ role' = [role EXCEPT ![u] = [Role EXCEPT !.creator = TRUE, !.admin = TRUE]]
    /\ Proceed(w) /\ UNCHANGED <<count, member, history, loadVars>>

SaveGroupMetaIdJoinItem(w, u) ==
    /\ At(w, "saveJoinItem", u)
    /\ history' = history \cup {<<pin[w], w = "mempool">>}
    /\ Proceed(w) /\ UNCHANGED <<count, member, role, loadVars>>

JoinMember(w, u) ==
    /\ At(w, "saveMember", u)
    /\ SaveMember(u, Member)
    /\ Proceed(w) /\ UNCHANGED <<count, role, history, loadVars>>

GetGroupMember(w, u) ==
    /\ At(w, "loadMember", u)
    /\ memberOf' = [memberOf EXCEPT ![w] = member[u]]
    /\ Proceed(w) /\ UNCHANGED <<groupVars, roleOf, countOf>>

\* Mutant of RemoveMember: leaving has no effect on the record.
KeepMember(w, u) ==
    /\ At(w, "removeMember", u)
    /\ memberOf' = [memberOf EXCEPT ![w] = NoMember]
    /\ Proceed(w) /\ UNCHANGED <<groupVars, roleOf, countOf>>

RemoveMember(w, u) ==
    /\ At(w, "removeMember", u)
    /\ IF memberOf[w] = NoMember THEN UNCHANGED member
       ELSE SaveMember(u, [memberOf[w] EXCEPT !.removed = TRUE])
    /\ memberOf' = [memberOf EXCEPT ![w] = NoMember]
    /\ Proceed(w) /\ UNCHANGED <<count, role, history, roleOf, countOf>>

GetGroup(w, u) ==
    /\ At(w, "loadGroup", u)
    /\ countOf' = [countOf EXCEPT ![w] = count]
    /\ Proceed(w) /\ UNCHANGED <<groupVars, memberOf, roleOf>>

AddToCount(w, u) ==
    /\ At(w, "addToCount", u)
    /\ count' = IF countOf[w] = NoGroup THEN count ELSE countOf[w] + 1
    /\ countOf' = [countOf EXCEPT ![w] = NoGroup]
    /\ Proceed(w) /\ UNCHANGED <<member, role, history, memberOf, roleOf>>

SubtractFromCount(w, u) ==
    /\ At(w, "subtractFromCount", u)
    /\ count' = IF countOf[w] = NoGroup \/ countOf[w] = 0 THEN count ELSE countOf[w] - 1
    /\ countOf' = [countOf EXCEPT ![w] = NoGroup]
    /\ Proceed(w) /\ UNCHANGED <<member, role, history, memberOf, roleOf>>

\* getGroupMemberRole; a new role when there is none
GetGroupMemberRole(w, u) ==
    /\ At(w, "loadRole", u)
    /\ roleOf' = [roleOf EXCEPT ![w] = IF role[u] = NoRole THEN Role ELSE role[u]]
    /\ Proceed(w) /\ UNCHANGED <<groupVars, memberOf, countOf>>

SetAdmin(w, u) ==
    /\ At(w, "setAdmin", u)
    /\ role' = [role EXCEPT ![u] = [roleOf[w] EXCEPT !.admin = TRUE]]
    /\ roleOf' = [roleOf EXCEPT ![w] = NoRole]
    /\ Proceed(w) /\ UNCHANGED <<count, member, history, memberOf, countOf>>

MakeAdmin(w, u) ==
    /\ At(w, "makeAdmin", u)
    /\ IF memberOf[w] = NoMember THEN UNCHANGED member
       ELSE SaveMember(u, [memberOf[w] EXCEPT !.admin = TRUE])
    /\ memberOf' = [memberOf EXCEPT ![w] = NoMember]
    /\ Proceed(w) /\ UNCHANGED <<count, role, history, roleOf, countOf>>

\* Mutant of SetBlocked: the role is not read first.
SetNewBlocked(w, u) ==
    /\ At(w, "setBlocked", u)
    /\ role' = [role EXCEPT ![u] = [Role EXCEPT !.blocked = TRUE]]
    /\ roleOf' = [roleOf EXCEPT ![w] = NoRole]
    /\ Proceed(w) /\ UNCHANGED <<count, member, history, memberOf, countOf>>

SetBlocked(w, u) ==
    /\ At(w, "setBlocked", u)
    /\ role' = [role EXCEPT ![u] = [roleOf[w] EXCEPT !.blocked = TRUE]]
    /\ roleOf' = [roleOf EXCEPT ![w] = NoRole]
    /\ Proceed(w) /\ UNCHANGED <<count, member, history, memberOf, countOf>>

\* handleGroupChat: a sender who is not in the group is added to it
AutoJoin(w, u) ==
    /\ At(w, "autoJoin", u)
    /\ IF memberOf[w] # NoMember /\ ~memberOf[w].removed THEN UNCHANGED member
       ELSE SaveMember(u, Member)
    /\ memberOf' = [memberOf EXCEPT ![w] = NoMember]
    /\ Proceed(w) /\ UNCHANGED <<count, role, history, roleOf, countOf>>

\* IsUserInGroup; also GetGroupList
IsUserInGroup(u) == member[u] # NoMember /\ ~member[u].removed

\* Mutant of GroupMemberTargetIds: the role records are scanned.
RoleTargetIds == {u \in Users : role[u] # NoRole}

\* GroupMemberTargetIds: one scan of the member records
GroupMemberTargetIds == {u \in Users : IsUserInGroup(u)}

\* The message has been saved; its event goes to who is a member by now.
NotifyMembers(w, u) ==
    /\ At(w, "notifyMembers", u)
    /\ todo' = [todo EXCEPT ![w] = << >>]
    /\ Return(w, GroupMemberTargetIds)
    /\ UNCHANGED <<groupVars, loadVars>>

Step(w, u) ==
    \/ SaveGroup(w, u) \/ SaveCreator(w, u) \/ SetCreatorRole(w, u) \/ SaveGroupMetaIdJoinItem(w, u)
    \/ JoinMember(w, u) \/ GetGroupMember(w, u) \/ RemoveMember(w, u)
    \/ GetGroup(w, u) \/ AddToCount(w, u) \/ SubtractFromCount(w, u)
    \/ GetGroupMemberRole(w, u) \/ SetAdmin(w, u) \/ MakeAdmin(w, u) \/ SetBlocked(w, u)
    \/ AutoJoin(w, u) \/ NotifyMembers(w, u)

\* consumeNotifyEvents: the goroutine of the socket server pushes the next event
\* to each of its users
RouteNotifyEvent ==
    /\ notifyCh # << >>
    /\ notified' = notified \cup (Head(notifyCh).to \X {Head(notifyCh).pin})
    /\ notifyCh' = Tail(notifyCh)
    /\ UNCHANGED <<feedVars, groupVars, callVars, lost>>

-----------------------------------------------------------------------------
(* The feeds *)

Mine == MineNext({pin["mempool"]}) /\ UNCHANGED <<groupVars, callVars, pushVars>>

Poll(p) == PollMempool(p) /\ UNCHANGED <<groupVars, callVars, pushVars>>

\* What waits in the channel.
Waiting == UNION {notifyCh[k].to \X {notifyCh[k].pin} : k \in 1..Len(notifyCh)}

Crash ==
    /\ Restart
    /\ pin' = [w \in AllWriters |-> NoPin] /\ todo' = [w \in AllWriters |-> << >>]
    /\ memberOf' = [w \in AllWriters |-> NoMember] /\ roleOf' = [w \in AllWriters |-> NoRole]
    /\ countOf' = [w \in AllWriters |-> NoGroup] /\ event' = [w \in AllWriters |-> {}]
    /\ notifyCh' = << >>
    /\ lost' = lost \cup Waiting
    /\ UNCHANGED <<groupVars, notified>>

Next ==
    \/ Mine
    \/ \E p \in Pins : Poll(p)
    \/ \E w \in AllWriters, p \in Pins : DispatchPin(w, p)
    \/ \E w \in AllWriters, u \in Users : Step(w, u)
    \/ RouteNotifyEvent
    \/ Crash

Spec == Init /\ [][Next]_vars

-----------------------------------------------------------------------------
(* What the API shows *)

\* GetGroupUserRole
IsAdmin(u) == role[u] # NoRole /\ role[u].admin

\* Mutant of IsListedAdmin: the member record decides.
IsMemberAdmin(u) == member[u] # NoMember /\ member[u].admin

\* GetGroupMemberList: the member records, where the role, if there is one,
\* overrides the flags
IsListedAdmin(u) == member[u] # NoMember /\ IF role[u] # NoRole THEN role[u].admin ELSE member[u].admin

\* GetGroupJoinControlList
IsBlocked(u) == role[u] # NoRole /\ role[u].blocked

-----------------------------------------------------------------------------
(* Properties *)

ChainPins == {p \in PinsOf(chain) : p \in Valid}
Names(p, u) == Op[p] \in {"admin", "block"} /\ \E i \in 1..Len(Named[p]) : Named[p][i] = u

Quiet == AllRouted /\ NoCall
ScanOnly == writers = {"scan"}

\* The pins that write u's role.
RolePins(u) == {p \in ChainPins : Names(p, u) \/ (Op[p] = "create" /\ By[p] = u)}

\* Among the first n pins, one blocks u, and u does not create the group after it
\* (a create pin may name a group that exists, and makes a new role).
BlockedAt(u, n) ==
    \E i \in 1..n :
        /\ chain[i] \in Valid /\ Op[chain[i]] = "block" /\ Names(chain[i], u)
        /\ \A j \in (i + 1)..n : chain[j] \in Valid /\ Op[chain[j]] = "create" => By[chain[j]] # u

\* The pins that give u a member record; leaving keeps it.
Enters(p, u) == p \in Valid /\ By[p] = u /\ Op[p] \in {"create", "join", "chat"}

\* Admins and blocked users end as the chain has them, and the member list shows
\* as admins those of them who were ever in the group: in a process that only
\* scans, whatever a crash repeats, and with both goroutines for a user whose
\* role is written by one pin.
RolesConverge ==
    Quiet /\ "scan" \in writers =>
        \A u \in Users : ScanOnly \/ Cardinality(RolePins(u)) <= 1 =>
            LET raised == \E p \in RolePins(u) : Op[p] # "block"
                entered == \E p \in ChainPins : Enters(p, u)
            IN  /\ IsAdmin(u) <=> raised
                /\ IsListedAdmin(u) <=> raised /\ entered
                /\ IsBlocked(u) <=> BlockedAt(u, Len(chain))

\* Before the i-th pin, u's last pin leaves u in the group.
InGroup(u, i) ==
    \E j \in 1..(i - 1) :
        /\ chain[j] \in Valid /\ By[chain[j]] = u /\ Op[chain[j]] \in {"create", "join", "chat"}
        /\ \A k \in (j + 1)..(i - 1) :
               chain[k] \in Valid /\ By[chain[k]] = u => Op[chain[k]] # "leave"

\* Who is in the group ends as the chain has it: in a process that only scans,
\* whatever a crash repeats, and with both goroutines for a user whom no admin
\* pin names, when every pin has left the mempool goroutine before its block is
\* mined.
MembersConverge ==
    Quiet /\ "scan" \in writers =>
        \A u \in Users :
            ScanOnly \/ (~late /\ \A p \in ChainPins : Op[p] = "admin" => ~Names(p, u)) =>
                IsUserInGroup(u) <=> InGroup(u, Len(chain) + 1)

\* Every chat message is pushed to its sender and to all who are in the group
\* when it is sent, when the process only scans; with both goroutines it is
\* pushed to those who never leave.  What is lost is what a full channel dropped
\* or a crash found in the channel.
MessageReachesMembers ==
    Quiet /\ notifyCh = << >> /\ "scan" \in writers =>
        \A i \in 1..Len(chain) : chain[i] \in Valid /\ Op[chain[i]] = "chat" =>
            \A u \in Users :
                /\ u = By[chain[i]] \/ InGroup(u, i)
                /\ ScanOnly \/ \A p \in ChainPins : By[p] = u => Op[p] # "leave"
                => <<u, chain[i]>> \in notified \cup lost

\* With one goroutine, a user who was told of a role has it, also after a crash,
\* and an admin who has a member record is listed as one (the create pin,
\* delivered again, unblocks its maker until the block pin follows).
NotifiedIsApplied ==
    Cardinality(writers) = 1 =>
        \A u \in Users, p \in Pins : <<u, p>> \in notified =>
            /\ Op[p] = "admin" => IsAdmin(u) /\ (member[u] # NoMember => IsListedAdmin(u))
            /\ Op[p] = "block" /\ (\A q \in RolePins(u) : Op[q] # "create") => IsBlocked(u)
=============================================================================
