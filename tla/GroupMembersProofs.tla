------------------------- MODULE GroupMembersProofs -------------------------
(***************************************************************************)
(* Proofs about GroupMembers for any chains, users and lists of named      *)
(* users: members, admins and blocked users end as the chain has them,     *)
(* messages reach the members, and who was told of a role has it.          *)
(*                                                                         *)
(* A crash sets the scan goroutine back, so what is stored need not be     *)
(* what the pins up to its position give.  The invariants say that it is   *)
(* what the pins up to some later position give.                           *)
(***************************************************************************)
EXTENDS GroupMembers, FiniteSetTheorems, TLAPS

-----------------------------------------------------------------------------
(* The inductive invariant *)

Busy(w) == todo[w] # << >>

\* The number of steps that w has done, and whether a step is among them.
Progress(w) == Len(Handler(pin[w])) - Len(todo[w])
Did(w, s, u) == Busy(w) /\ \E k \in 1..Progress(w) : Handler(pin[w])[k] = <<s, u>>

\* A goroutine that calls has a valid pin, and what it has to do is the rest of
\* the handler; the scan calls with the pin after its position.
CallOK(w) ==
    Busy(w) =>
        /\ w \in {"scan", "mempool"} \cap writers
        /\ pin[w] \in Valid
        /\ Len(todo[w]) <= Len(Handler(pin[w]))
        /\ \A k \in 1..Len(todo[w]) : todo[w][k] = Handler(pin[w])[Progress(w) + k]
        /\ event[w] = EventOf(pin[w])
        /\ w = "scan" => pos < mined /\ pin[w] = chain[pos + 1]
        /\ pin[w] \in PinsOf(chain)

\* Until a pin is late, what the mempool goroutine has of it is not mined yet.
Ahead(p) == \E i \in (mined + 1)..Len(chain) : chain[i] = p
FeedOK ==
    /\ backfill = 0
    /\ queue # {} => "mempool" \in writers
    /\ queue \subseteq PinsOf(chain)
    /\ ~late => \A p \in queue : Ahead(p)
    /\ ~late /\ Busy("mempool") => Ahead(pin["mempool"])

\* With one goroutine, what it has read is still true when it writes.
OneWriter == \E w \in AllWriters : writers = {w}
Loaded(w) ==
    \A u \in Users :
        /\ At(w, "setAdmin", u) \/ At(w, "setBlocked", u) =>
              roleOf[w] = IF role[u] = NoRole THEN Role ELSE role[u]
        /\ At(w, "makeAdmin", u) \/ At(w, "removeMember", u) \/ At(w, "autoJoin", u) =>
              memberOf[w] = member[u]

\* Every flag of a role has a pin that set it, and one that is not set has a pin
\* that made the role without it.
Blocks(u) == \E p \in RolePins(u) : Op[p] = "block"
Raises(u) == \E p \in RolePins(u) : Op[p] # "block"
RoleHasPin(u, r) ==
    /\ r.admin => Raises(u)
    /\ r.blocked => Blocks(u)
RolesOK ==
    /\ \A u \in Users : role[u] # NoRole =>
          /\ RoleHasPin(u, role[u])
          /\ ~role[u].admin => Blocks(u)
          /\ ~role[u].blocked => Raises(u)
    /\ \A w \in AllWriters, u \in Users : At(w, "setAdmin", u) \/ At(w, "setBlocked", u) =>
          roleOf[w] # NoRole /\ RoleHasPin(u, roleOf[w])

\* The same of the admins among the members, and a user who never leaves is not
\* marked as removed.
NeverLeaves(u) == \A p \in ChainPins : By[p] = u => Op[p] # "leave"
MemberHasPin(u, m) ==
    /\ m.admin => Raises(u)
    /\ NeverLeaves(u) => ~m.removed
MembersOK ==
    /\ \A u \in Users : member[u] # NoMember => MemberHasPin(u, member[u])
    /\ \A w \in AllWriters, u \in Users :
          (At(w, "makeAdmin", u) \/ At(w, "removeMember", u) \/ At(w, "autoJoin", u)) /\ memberOf[w] # NoMember =>
              MemberHasPin(u, memberOf[w]) /\ member[u] # NoMember

NeverCreates(u) == \A p \in RolePins(u) : Op[p] # "create"
Touches(p, u) == p \in Valid /\ (Names(p, u) \/ (Op[p] = "create" /\ By[p] = u))

\* The pins that the scan is done with have made the roles.
RolesDone ==
    /\ \A u \in Users, i \in 1..pos : Touches(chain[i], u) => role[u] # NoRole
    /\ \A u \in Users :
          Did("scan", "setAdmin", u) \/ Did("scan", "setBlocked", u) \/ Did("scan", "setCreatorRole", u) =>
              role[u] # NoRole

\* Who is in the group, or was, has a member record, and nobody else.
Entered(u) == \E p \in ChainPins : Enters(p, u)
MembersDone ==
    /\ \A u \in Users : member[u] # NoMember => Entered(u)
    /\ \A u \in Users, i \in 1..pos : Enters(chain[i], u) => member[u] # NoMember
    /\ \A u \in Users :
          Did("scan", "saveCreator", u) \/ Did("scan", "saveMember", u) \/ Did("scan", "autoJoin", u) =>
              member[u] # NoMember

\* The events that handlers have returned: pushed, waiting in the channel, or lost.
Sent == notified \cup lost \cup Waiting

\* With one goroutine flags stay, except that creating the group again unblocks.
FlagsOK ==
    OneWriter =>
        /\ \A w \in AllWriters : Loaded(w)
        /\ \A w \in AllWriters, u \in Users :
              /\ Did(w, "setAdmin", u) \/ Did(w, "setCreatorRole", u) => IsAdmin(u)
              /\ Did(w, "setBlocked", u) => IsBlocked(u)
              /\ Did(w, "setCreatorRole", u) => ~IsBlocked(u)
        /\ \A u \in Users, i \in 1..pos :
              Touches(chain[i], u) /\ Op[chain[i]] # "block" => IsAdmin(u)
        /\ \A u \in Users, p \in Pins : <<u, p>> \in Sent =>
              /\ Op[p] = "admin" => IsAdmin(u)
              /\ Op[p] = "block" /\ NeverCreates(u) => IsBlocked(u)
        /\ ScanOnly => \A u \in Users : \E n \in pos..mined : IsBlocked(u) <=> BlockedAt(u, n)

\* Who is in the group is as the chain has it after some position n or later.
InGroupFrom(u, n) == \E h \in n..Len(chain) : IsUserInGroup(u) <=> InGroup(u, h + 1)
Undisturbed(u) == ScanOnly \/ (~late /\ \A p \in ChainPins : Op[p] = "admin" => ~Names(p, u))
Wrote(w, u) ==
    Did(w, "saveCreator", u) \/ Did(w, "saveMember", u) \/ Did(w, "removeMember", u) \/ Did(w, "autoJoin", u)
MembershipOK ==
    \A u \in Users : Undisturbed(u) =>
        /\ InGroupFrom(u, pos)
        /\ Wrote("scan", u) => InGroupFrom(u, pos + 1)
        /\ At("scan", "removeMember", u) \/ At("scan", "autoJoin", u) =>
              memberOf["scan"] = member[u] \/ InGroupFrom(u, pos + 1)

\* The messages up to a position n have been sent to u.
Told(u, n) ==
    \A i \in 1..n : chain[i] \in Valid /\ Op[chain[i]] = "chat" /\ (u = By[chain[i]] \/ InGroup(u, i)) =>
        <<u, chain[i]>> \in Sent
MessagesOK ==
    \A u \in Users : ScanOnly \/ NeverLeaves(u) =>
        /\ \E h \in pos..Len(chain) : Told(u, h) /\ (InGroup(u, h + 1) => IsUserInGroup(u))
        /\ Did("scan", "saveCreator", u) \/ Did("scan", "saveMember", u) \/ Did("scan", "autoJoin", u) =>
              IsUserInGroup(u)

Inv ==
    /\ TypeOK /\ (\A w \in AllWriters : CallOK(w)) /\ FeedOK
    /\ RolesOK /\ MembersOK /\ RolesDone /\ MembersDone /\ FlagsOK /\ MembershipOK /\ MessagesOK

-----------------------------------------------------------------------------
(* The handlers *)

\* What is known of a goroutine at the k-th step of the handler of p.
StepFits(p, k, s, u) ==
    /\ s \in {"setAdmin", "setBlocked"} => k > 1 /\ Handler(p)[k - 1] = <<"loadRole", u>>
    /\ s \in {"makeAdmin", "removeMember", "autoJoin"} => k > 1 /\ Handler(p)[k - 1] = <<"loadMember", u>>
    /\ s \in {"saveGroup", "saveCreator", "setCreatorRole"} => Op[p] = "create" /\ u = By[p]
    /\ s \in {"saveMember", "addToCount"} => Op[p] = "join" /\ u = By[p]
    /\ s \in {"removeMember", "subtractFromCount"} => Op[p] = "leave" /\ u = By[p]
    /\ s \in {"autoJoin", "notifyMembers"} => Op[p] = "chat" /\ u = By[p]
    /\ s = "notifyMembers" => k = Len(Handler(p))
    /\ s \in {"setAdmin", "makeAdmin"} => Op[p] = "admin" /\ Names(p, u)
    /\ s = "setBlocked" => Op[p] = "block" /\ Names(p, u)

\* The steps that the handler of p has among others.
HasSteps(p) ==
    LET Has(s, u) == \E k \in 1..Len(Handler(p)) : Handler(p)[k] = <<s, u>>
    IN  /\ Op[p] = "create" => Has("saveCreator", By[p]) /\ Has("setCreatorRole", By[p])
        /\ Op[p] = "join" => Has("saveMember", By[p])
        /\ Op[p] = "leave" => Has("removeMember", By[p])
        /\ Op[p] = "chat" => Has("autoJoin", By[p]) /\ Has("notifyMembers", By[p])
        /\ \A u \in Users : Op[p] = "admin" /\ Names(p, u) => Has("setAdmin", u)
        /\ \A u \in Users : Op[p] = "block" /\ Names(p, u) => Has("setBlocked", u)

LEMMA PinTypes ==
    ASSUME NEW p \in Valid
    PROVE  p \in Pins /\ Op[p] \in Ops /\ By[p] \in Users /\ Named[p] \in Seq(Users)
  BY GroupAssumption

LEMMA AdminSteps ==
    ASSUME NEW us \in Seq(Users)
    PROVE  LET H == HandleGroupAdmin(us)
           IN  /\ H \in Seq(StepNames \X Users) /\ Len(H) = 4 * Len(us)
               /\ \A j \in 1..Len(us) :
                     /\ H[4 * j - 3] = <<"loadRole", us[j]>> /\ H[4 * j - 2] = <<"setAdmin", us[j]>>
                     /\ H[4 * j - 1] = <<"loadMember", us[j]>> /\ H[4 * j] = <<"makeAdmin", us[j]>>
               /\ \A k \in 1..Len(H) : \E j \in 1..Len(us) : k \in (4 * j - 3)..(4 * j)
<1> DEFINE n == Len(us)
           st == <<"loadRole", "setAdmin", "loadMember", "makeAdmin">>
           H == HandleGroupAdmin(us)
<1>1. n \in Nat /\ \A j \in 1..n : us[j] \in Users
  OBVIOUS
<1>2. H = [k \in 1..(4 * n) |-> <<st[((k - 1) % 4) + 1], us[((k - 1) \div 4) + 1]>>]
  BY DEF HandleGroupAdmin, ForEach
<1>3. \A k \in 1..(4 * n) : ((k - 1) \div 4) + 1 \in 1..n /\ ((k - 1) % 4) + 1 \in 1..4
  BY <1>1
<1>4. \A i \in 1..4 : st[i] \in StepNames
  BY DEF StepNames
<1> HIDE DEF n, st, H
<1>5. H \in [1..(4 * n) -> StepNames \X Users]
  BY <1>1, <1>2, <1>3, <1>4
<1>6. H \in Seq(StepNames \X Users) /\ Len(H) = 4 * n
  <2>1. 4 * n \in Nat
    BY <1>1
  <2> QED BY <1>5, <2>1
<1>7. ASSUME NEW j \in 1..n
      PROVE  /\ H[4 * j - 3] = <<"loadRole", us[j]>> /\ H[4 * j - 2] = <<"setAdmin", us[j]>>
             /\ H[4 * j - 1] = <<"loadMember", us[j]>> /\ H[4 * j] = <<"makeAdmin", us[j]>>
  <2>1. \A r \in 1..4 : LET k == 4 * j - 4 + r
                       IN  k \in 1..(4 * n) /\ ((k - 1) % 4) + 1 = r /\ ((k - 1) \div 4) + 1 = j
    BY <1>1
  <2>2. \A r \in 1..4 : H[4 * j - 4 + r] = <<st[r], us[j]>>
    BY <1>2, <2>1
  <2>3. st[1] = "loadRole" /\ st[2] = "setAdmin" /\ st[3] = "loadMember" /\ st[4] = "makeAdmin"
    BY DEF st
  <2>4. j \in Int /\ 4 * j - 4 + 1 = 4 * j - 3 /\ 4 * j - 4 + 2 = 4 * j - 2 /\ 4 * j - 4 + 3 = 4 * j - 1 /\ 4 * j - 4 + 4 = 4 * j
    BY <1>1
  <2> QED BY <2>2, <2>3, <2>4
<1>8. ASSUME NEW k \in 1..Len(H) PROVE \E j \in 1..n : k \in (4 * j - 3)..(4 * j)
  <2>1. k \in 1..(4 * n) /\ ((k - 1) \div 4) + 1 \in 1..n
    BY <1>1, <1>3, <1>6
  <2>2. k \in (4 * (((k - 1) \div 4) + 1) - 3)..(4 * (((k - 1) \div 4) + 1))
    BY <2>1
  <2> QED BY <2>1, <2>2
<1> QED BY <1>6, <1>7, <1>8 DEF H, n

LEMMA BlockSteps ==
    ASSUME NEW us \in Seq(Users)
    PROVE  LET H == HandleGroupBlock(us)
           IN  /\ H \in Seq(StepNames \X Users) /\ Len(H) = 2 * Len(us)
               /\ \A j \in 1..Len(us) : H[2 * j - 1] = <<"loadRole", us[j]>> /\ H[2 * j] = <<"setBlocked", us[j]>>
               /\ \A k \in 1..Len(H) : \E j \in 1..Len(us) : k \in (2 * j - 1)..(2 * j)
<1> DEFINE n == Len(us)
           st == <<"loadRole", "setBlocked">>
           H == HandleGroupBlock(us)
<1>1. n \in Nat /\ \A j \in 1..n : us[j] \in Users
  OBVIOUS
<1>2. H = [k \in 1..(2 * n) |-> <<st[((k - 1) % 2) + 1], us[((k - 1) \div 2) + 1]>>]
  BY DEF HandleGroupBlock, ForEach
<1>3. \A k \in 1..(2 * n) : ((k - 1) \div 2) + 1 \in 1..n /\ ((k - 1) % 2) + 1 \in 1..2
  BY <1>1
<1>4. \A i \in 1..2 : st[i] \in StepNames
  BY DEF StepNames
<1> HIDE DEF n, st, H
<1>5. H \in [1..(2 * n) -> StepNames \X Users]
  BY <1>1, <1>2, <1>3, <1>4
<1>6. H \in Seq(StepNames \X Users) /\ Len(H) = 2 * n
  <2>1. 2 * n \in Nat
    BY <1>1
  <2> QED BY <1>5, <2>1
<1>7. ASSUME NEW j \in 1..n
      PROVE  H[2 * j - 1] = <<"loadRole", us[j]>> /\ H[2 * j] = <<"setBlocked", us[j]>>
  <2>1. \A r \in 1..2 : LET k == 2 * j - 2 + r
                       IN  k \in 1..(2 * n) /\ ((k - 1) % 2) + 1 = r /\ ((k - 1) \div 2) + 1 = j
    BY <1>1
  <2>2. \A r \in 1..2 : H[2 * j - 2 + r] = <<st[r], us[j]>>
    BY <1>2, <2>1
  <2>3. st[1] = "loadRole" /\ st[2] = "setBlocked"
    BY DEF st
  <2>4. j \in Int /\ 2 * j - 2 + 1 = 2 * j - 1 /\ 2 * j - 2 + 2 = 2 * j
    BY <1>1
  <2> QED BY <2>2, <2>3, <2>4
<1>8. ASSUME NEW k \in 1..Len(H) PROVE \E j \in 1..n : k \in (2 * j - 1)..(2 * j)
  <2>1. k \in 1..(2 * n) /\ ((k - 1) \div 2) + 1 \in 1..n
    BY <1>1, <1>3, <1>6
  <2>2. k \in (2 * (((k - 1) \div 2) + 1) - 1)..(2 * (((k - 1) \div 2) + 1))
    BY <2>1
  <2> QED BY <2>1, <2>2
<1> QED BY <1>6, <1>7, <1>8 DEF H, n

LEMMA HandlerShape ==
    ASSUME NEW p \in Valid
    PROVE  /\ Handler(p) \in Seq(StepNames \X Users)
           /\ \A k \in 1..Len(Handler(p)) : \A s, u : Handler(p)[k] = <<s, u>> => StepFits(p, k, s, u)
           /\ HasSteps(p)
<1> DEFINE H == Handler(p)
           u0 == By[p]
<1>0. Op[p] \in Ops /\ u0 \in Users /\ Named[p] \in Seq(Users)
  BY PinTypes
<1>1. CASE Op[p] = "create"
  <2>1. H = HandleGroupCreate(u0)
    BY <1>1 DEF Handler
  <2> HIDE DEF H, u0
  <2>2. H \in Seq(StepNames \X Users) /\ Len(H) = 4
    BY <1>0, <2>1 DEF HandleGroupCreate, StepNames
  <2>3. H[1] = <<"saveGroup", u0>> /\ H[2] = <<"saveCreator", u0>> /\ H[3] = <<"setCreatorRole", u0>> /\ H[4] = <<"saveJoinItem", u0>>
    BY <2>1 DEF HandleGroupCreate
  <2> QED BY <1>1, <2>2, <2>3 DEF StepFits, HasSteps, H, u0
<1>2. CASE Op[p] = "join"
  <2>1. H = HandleGroupJoin(u0)
    BY <1>2 DEF Handler
  <2> HIDE DEF H, u0
  <2>2. H \in Seq(StepNames \X Users) /\ Len(H) = 4
    BY <1>0, <2>1 DEF HandleGroupJoin, StepNames
  <2>3. /\ H[1] = <<"saveJoinItem", u0>> /\ H[2] = <<"saveMember", u0>>
        /\ H[3] = <<"loadGroup", u0>> /\ H[4] = <<"addToCount", u0>>
    BY <2>1 DEF HandleGroupJoin
  <2> QED BY <1>2, <2>2, <2>3 DEF StepFits, HasSteps, H, u0
<1>3. CASE Op[p] = "leave"
  <2>1. H = HandleGroupLeave(u0)
    BY <1>3 DEF Handler
  <2> HIDE DEF H, u0
  <2>2. H \in Seq(StepNames \X Users) /\ Len(H) = 5
    BY <1>0, <2>1 DEF HandleGroupLeave, StepNames
  <2>3. /\ H[1] = <<"saveJoinItem", u0>> /\ H[2] = <<"loadMember", u0>> /\ H[3] = <<"removeMember", u0>>
        /\ H[4] = <<"loadGroup", u0>> /\ H[5] = <<"subtractFromCount", u0>>
    BY <2>1 DEF HandleGroupLeave
  <2> QED BY <1>3, <2>2, <2>3 DEF StepFits, HasSteps, H, u0
<1>4. CASE Op[p] = "chat"
  <2>1. H = HandleGroupChat(u0)
    BY <1>4 DEF Handler
  <2> HIDE DEF H, u0
  <2>2. H \in Seq(StepNames \X Users) /\ Len(H) = 3
    BY <1>0, <2>1 DEF HandleGroupChat, StepNames
  <2>3. /\ H[1] = <<"loadMember", u0>> /\ H[2] = <<"autoJoin", u0>>
        /\ H[3] = <<"notifyMembers", u0>>
    BY <2>1 DEF HandleGroupChat
  <2> QED BY <1>4, <2>2, <2>3 DEF StepFits, HasSteps, H, u0
<1>5. CASE Op[p] = "admin"
  <2> DEFINE us == Named[p]
  <2>1. H = HandleGroupAdmin(us)
    BY <1>5 DEF Handler
  <2>2. us \in Seq(Users)
    BY <1>0
  <2> HIDE DEF H, us
  <2>3. /\ H \in Seq(StepNames \X Users) /\ Len(H) = 4 * Len(us) /\ Len(us) \in Nat
        /\ \A j \in 1..Len(us) :
              /\ H[4 * j - 3] = <<"loadRole", us[j]>> /\ H[4 * j - 2] = <<"setAdmin", us[j]>>
              /\ H[4 * j - 1] = <<"loadMember", us[j]>> /\ H[4 * j] = <<"makeAdmin", us[j]>>
        /\ \A k \in 1..Len(H) : \E j \in 1..Len(us) : k \in (4 * j - 3)..(4 * j)
    BY <2>1, <2>2, AdminSteps
  <2>4. \A j \in 1..Len(us) : Names(p, us[j])
    BY <1>5 DEF Names, us
  <2>5. ASSUME NEW k \in 1..Len(H), NEW s, NEW u, H[k] = <<s, u>> PROVE StepFits(p, k, s, u)
    <3>1. PICK j \in 1..Len(us) : k \in (4 * j - 3)..(4 * j)
      BY <2>3
    <3>2. Len(us) \in Nat
      BY <2>3
    <3>3. j \in Int /\ k \in Int /\ j >= 1 /\ 4 * j - 3 <= k /\ k <= 4 * j
      BY <3>1, <3>2
    <3>4. \/ k = 4 * j - 3
          \/ k = 4 * j - 2 /\ k > 1 /\ k - 1 = 4 * j - 3
          \/ k = 4 * j - 1
          \/ k = 4 * j /\ k > 1 /\ k - 1 = 4 * j - 1
      BY ONLY <3>3
    <3>5. /\ H[4 * j - 3] = <<"loadRole", us[j]>> /\ H[4 * j - 2] = <<"setAdmin", us[j]>>
          /\ H[4 * j - 1] = <<"loadMember", us[j]>> /\ H[4 * j] = <<"makeAdmin", us[j]>>
      BY <2>3
    <3>6. Names(p, us[j])
      BY <2>4
    <3>7. H[k] = <<s, u>>
      BY <2>5
    <3> HIDE DEF us
    <3>8. u = us[j] /\ \/ s = "loadRole" \/ s = "loadMember"
                       \/ s = "setAdmin" /\ k > 1 /\ H[k - 1] = <<"loadRole", u>>
                       \/ s = "makeAdmin" /\ k > 1 /\ H[k - 1] = <<"loadMember", u>>
      BY ONLY <3>4, <3>5, <3>7
    <3> QED BY <1>5, <3>6, <3>8 DEF StepFits, H
  <2>6. ASSUME NEW u \in Users, Names(p, u) PROVE \E k \in 1..Len(H) : H[k] = <<"setAdmin", u>>
    <3>1. PICK j \in 1..Len(us) : us[j] = u
      BY <2>6 DEF Names, us
    <3>2. 4 * j - 2 \in 1..Len(H)
      BY <2>3
    <3> QED BY <2>3, <3>1, <3>2
  <2> QED BY <1>5, <2>3, <2>5, <2>6 DEF HasSteps, H
<1>6. CASE Op[p] = "block"
  <2> DEFINE us == Named[p]
  <2>1. H = HandleGroupBlock(us)
    BY <1>6 DEF Handler
  <2>2. us \in Seq(Users)
    BY <1>0
  <2> HIDE DEF H, us
  <2>3. /\ H \in Seq(StepNames \X Users) /\ Len(H) = 2 * Len(us) /\ Len(us) \in Nat
        /\ \A j \in 1..Len(us) : H[2 * j - 1] = <<"loadRole", us[j]>> /\ H[2 * j] = <<"setBlocked", us[j]>>
        /\ \A k \in 1..Len(H) : \E j \in 1..Len(us) : k \in (2 * j - 1)..(2 * j)
    BY <2>1, <2>2, BlockSteps
  <2>4. \A j \in 1..Len(us) : Names(p, us[j])
    BY <1>6 DEF Names, us
  <2>5. ASSUME NEW k \in 1..Len(H), NEW s, NEW u, H[k] = <<s, u>> PROVE StepFits(p, k, s, u)
    <3>1. PICK j \in 1..Len(us) : k \in (2 * j - 1)..(2 * j)
      BY <2>3
    <3>2. Len(us) \in Nat
      BY <2>3
    <3>3. j \in Int /\ k \in Int /\ j >= 1 /\ 2 * j - 1 <= k /\ k <= 2 * j
      BY <3>1, <3>2
    <3>4. k = 2 * j - 1 \/ (k = 2 * j /\ k > 1 /\ k - 1 = 2 * j - 1)
      BY ONLY <3>3
    <3>5. H[2 * j - 1] = <<"loadRole", us[j]>> /\ H[2 * j] = <<"setBlocked", us[j]>>
      BY <2>3
    <3>6. Names(p, us[j])
      BY <2>4
    <3>7. H[k] = <<s, u>>
      BY <2>5
    <3>8. u = us[j] /\ (s = "loadRole" \/ (s = "setBlocked" /\ k > 1 /\ H[k - 1] = <<"loadRole", u>>))
      BY ONLY <3>4, <3>5, <3>7
    <3> QED BY <1>6, <3>6, <3>8 DEF StepFits, H
  <2>6. ASSUME NEW u \in Users, Names(p, u) PROVE \E k \in 1..Len(H) : H[k] = <<"setBlocked", u>>
    <3>1. PICK j \in 1..Len(us) : us[j] = u
      BY <2>6 DEF Names, us
    <3>2. 2 * j \in 1..Len(H)
      BY <2>3
    <3> QED BY <2>3, <3>1, <3>2
  <2> QED BY <1>6, <2>3, <2>5, <2>6 DEF HasSteps, H
<1> QED BY <1>0, <1>1, <1>2, <1>3, <1>4, <1>5, <1>6 DEF Ops
LEMMA EventNames ==
    ASSUME NEW p \in Valid, Handler(p) # << >>
    PROVE  /\ EventOf(p) \subseteq Users
           /\ Op[p] \in {"admin", "block"} => \A u \in EventOf(p) : Names(p, u)
<1>0. Op[p] \in Ops /\ By[p] \in Users /\ Named[p] \in Seq(Users)
  BY PinTypes
<1>1. CASE Op[p] \notin {"admin", "block"}
  BY <1>0, <1>1 DEF EventOf
<1>2. CASE Op[p] \in {"admin", "block"}
  <2> DEFINE us == Named[p]
  <2>1. us # << >>
    <3>1. ASSUME us = << >> PROVE Handler(p) = << >>
      <4>1. Len(us) = 0
        BY <3>1
      <4>2. Handler(p) \in Seq(StepNames \X Users)
        BY HandlerShape
      <4>3. Len(Handler(p)) = 0
        <5>1. CASE Op[p] = "admin"
          <6>1. Handler(p) = HandleGroupAdmin(us)
            BY <5>1 DEF Handler
          <6> QED BY <1>0, <4>1, <6>1, AdminSteps
        <5>2. CASE Op[p] = "block"
          <6>1. Handler(p) = HandleGroupBlock(us)
            BY <5>2 DEF Handler
          <6> QED BY <1>0, <4>1, <6>1, BlockSteps
        <5> QED BY <1>2, <5>1, <5>2
      <4> QED BY <4>2, <4>3
    <3> QED BY <3>1
  <2>2. Len(us) \in 1..Len(us) /\ us[Len(us)] \in Users
    BY <1>0, <2>1
  <2>3. EventOf(p) = {us[Len(us)]}
    BY <1>2 DEF EventOf
  <2> QED BY <1>2, <2>2, <2>3 DEF Names
<1> QED BY <1>1, <1>2

LEMMA ChainFacts ==
    ASSUME TypeOK
    PROVE  /\ Len(chain) \in Nat /\ mined \in 0..Len(chain) /\ pos \in 0..mined /\ pos \in Nat /\ mined \in Nat
           /\ \A i \in 1..Len(chain) : chain[i] \in PinsOf(chain)
           /\ \A p \in PinsOf(chain) : \E i \in 1..Len(chain) : chain[i] = p
           /\ PinsOf(chain) \subseteq Pins
           /\ writers \subseteq {"scan", "mempool"}
<1>1. chain \in Chains /\ writers \in WriterSets /\ mined \in 0..Len(chain) /\ pos \in 0..mined
  BY DEF TypeOK, FeedTypeOK
<1>2. Len(chain) \in Nat
  BY <1>1, FeedAssumption
<1>3. PinsOf(chain) \subseteq Pins
  BY <1>1 DEF Pins
<1> QED BY <1>1, <1>2, <1>3, GroupAssumption DEF PinsOf

\* What is known of a goroutine that is at a step.
LEMMA AtFacts ==
    ASSUME TypeOK, NEW w \in AllWriters, CallOK(w), NEW s, NEW u, At(w, s, u)
    PROVE  /\ w \in {"scan", "mempool"} /\ w \in writers
           /\ pin[w] \in Valid /\ pin[w] \in ChainPins /\ s \in StepNames /\ u \in Users
           /\ Progress(w) \in Nat /\ Progress(w) + 1 <= Len(Handler(pin[w]))
           /\ Handler(pin[w])[Progress(w) + 1] = <<s, u>>
           /\ StepFits(pin[w], Progress(w) + 1, s, u)
           /\ w = "scan" => pos < mined /\ pin[w] = chain[pos + 1]
<1> DEFINE H == Handler(pin[w])
<1>1. todo[w] # << >> /\ Head(todo[w]) = <<s, u>>
  BY DEF At
<1>2. todo[w] \in Seq(StepNames \X Users)
  BY DEF TypeOK
<1>3. Len(todo[w]) \in Nat /\ Len(todo[w]) >= 1 /\ todo[w][1] = <<s, u>> /\ <<s, u>> \in StepNames \X Users
  BY <1>1, <1>2
<1>4. /\ w \in {"scan", "mempool"} \cap writers /\ pin[w] \in Valid /\ pin[w] \in PinsOf(chain)
      /\ Len(todo[w]) <= Len(H) /\ (\A k \in 1..Len(todo[w]) : todo[w][k] = H[Progress(w) + k])
      /\ w = "scan" => pos < mined /\ pin[w] = chain[pos + 1]
  BY <1>1 DEF CallOK, Busy
<1>5. H \in Seq(StepNames \X Users) /\ \A k \in 1..Len(H) : \A t, x : H[k] = <<t, x>> => StepFits(pin[w], k, t, x)
  BY <1>4, HandlerShape
<1>6. Len(H) \in Nat
  BY <1>5
<1>7. Progress(w) \in Nat /\ Progress(w) + 1 <= Len(H)
  BY <1>3, <1>4, <1>6 DEF Progress
<1>8. H[Progress(w) + 1] = <<s, u>>
  BY <1>3, <1>4
<1>9. Progress(w) + 1 \in 1..Len(H)
  BY <1>6, <1>7
<1> QED BY <1>3, <1>4, <1>5, <1>7, <1>8, <1>9 DEF ChainPins

\* The pin of a call that has done a step.
LEMMA DidFacts ==
    ASSUME TypeOK, NEW w \in AllWriters, CallOK(w), NEW s, NEW u, Did(w, s, u)
    PROVE  \E k \in 1..Len(Handler(pin[w])) :
              /\ k <= Progress(w) /\ Progress(w) < Len(Handler(pin[w]))
              /\ Handler(pin[w])[k] = <<s, u>> /\ StepFits(pin[w], k, s, u)
<1> DEFINE H == Handler(pin[w])
<1>1. Busy(w) /\ pin[w] \in Valid /\ Len(todo[w]) <= Len(H)
  BY DEF Did, CallOK
<1>2. H \in Seq(StepNames \X Users) /\ \A k \in 1..Len(H) : \A t, x : H[k] = <<t, x>> => StepFits(pin[w], k, t, x)
  BY <1>1, HandlerShape
<1>3. todo[w] \in Seq(StepNames \X Users) /\ todo[w] # << >>
  BY <1>1 DEF TypeOK, Busy
<1>4. Len(H) \in Nat /\ Len(todo[w]) \in Nat /\ Len(todo[w]) >= 1
  BY <1>2, <1>3
<1>5. Progress(w) \in Nat /\ Progress(w) < Len(H)
  <2>1. \A a, b \in Nat : 1 <= b /\ b <= a => a - b \in Nat /\ a - b < a
    OBVIOUS
  <2> QED BY <1>1, <1>4, <2>1 DEF Progress
<1>6. PICK k \in 1..Progress(w) : H[k] = <<s, u>>
  BY DEF Did
<1>7. k \in 1..Len(H) /\ k <= Progress(w)
  BY <1>4, <1>5
<1> QED BY <1>2, <1>5, <1>6, <1>7

-----------------------------------------------------------------------------
(* The steps: what moves on, and what is written *)

Targets(w, s) == IF s = "notifyMembers" THEN GroupMemberTargetIds ELSE event[w]

Move(w, s, u) ==
    /\ At(w, s, u)
    /\ todo' = [todo EXCEPT ![w] = Tail(@)]
    /\ IF Len(todo[w]) > 1 THEN UNCHANGED <<feedVars, pin, event, pushVars>> ELSE Return(w, Targets(w, s))

RoleEffect(w, s, u) ==
    \/ /\ s = "setCreatorRole"
       /\ role' = [role EXCEPT ![u] = [Role EXCEPT !.creator = TRUE, !.admin = TRUE]]
       /\ UNCHANGED roleOf
    \/ /\ s = "setAdmin"
       /\ role' = [role EXCEPT ![u] = [roleOf[w] EXCEPT !.admin = TRUE]]
       /\ roleOf' = [roleOf EXCEPT ![w] = NoRole]
    \/ /\ s = "setBlocked"
       /\ role' = [role EXCEPT ![u] = [roleOf[w] EXCEPT !.blocked = TRUE]]
       /\ roleOf' = [roleOf EXCEPT ![w] = NoRole]
    \/ /\ s = "loadRole"
       /\ roleOf' = [roleOf EXCEPT ![w] = IF role[u] = NoRole THEN Role ELSE role[u]]
       /\ UNCHANGED role
    \/ /\ s \notin {"setCreatorRole", "setAdmin", "setBlocked", "loadRole"}
       /\ UNCHANGED <<role, roleOf>>

MemberEffect(w, s, u) ==
    \/ /\ s = "saveCreator"
       /\ SaveMember(u, [Member EXCEPT !.admin = TRUE, !.creator = TRUE])
       /\ UNCHANGED memberOf
    \/ /\ s = "saveMember"
       /\ SaveMember(u, Member)
       /\ UNCHANGED memberOf
    \/ /\ s = "removeMember"
       /\ IF memberOf[w] = NoMember THEN UNCHANGED member
          ELSE SaveMember(u, [memberOf[w] EXCEPT !.removed = TRUE])
       /\ memberOf' = [memberOf EXCEPT ![w] = NoMember]
    \/ /\ s = "makeAdmin"
       /\ IF memberOf[w] = NoMember THEN UNCHANGED member
          ELSE SaveMember(u, [memberOf[w] EXCEPT !.admin = TRUE])
       /\ memberOf' = [memberOf EXCEPT ![w] = NoMember]
    \/ /\ s = "autoJoin"
       /\ IF memberOf[w] # NoMember /\ ~memberOf[w].removed THEN UNCHANGED member
          ELSE SaveMember(u, Member)
       /\ memberOf' = [memberOf EXCEPT ![w] = NoMember]
    \/ /\ s = "loadMember"
       /\ memberOf' = [memberOf EXCEPT ![w] = member[u]]
       /\ UNCHANGED member
    \/ /\ s \notin {"saveCreator", "saveMember", "removeMember", "makeAdmin", "autoJoin", "loadMember"}
       /\ UNCHANGED <<member, memberOf>>

CountEffect(w) ==
    /\ \/ UNCHANGED count
       \/ count' = 1
       \/ countOf[w] # NoGroup /\ count' = countOf[w] + 1
       \/ countOf[w] # NoGroup /\ countOf[w] # 0 /\ count' = countOf[w] - 1
    /\ \/ UNCHANGED countOf
       \/ countOf' = [countOf EXCEPT ![w] = count]
       \/ countOf' = [countOf EXCEPT ![w] = NoGroup]
    /\ history' = history \/ history' = history \cup {<<pin[w], w = "mempool">>}

LEMMA StepEffects ==
    ASSUME TypeOK, NEW w \in AllWriters, CallOK(w), NEW u \in Users, Step(w, u)
    PROVE  \E s : Move(w, s, u) /\ RoleEffect(w, s, u) /\ MemberEffect(w, s, u) /\ CountEffect(w)
<1> USE DEF Targets, Move, Proceed
<1>1. CASE SaveGroup(w, u)
  <2>1. Move(w, "saveGroup", u) /\ RoleEffect(w, "saveGroup", u) /\ MemberEffect(w, "saveGroup", u) /\ CountEffect(w)
    BY <1>1 DEF SaveGroup, RoleEffect, MemberEffect, CountEffect, loadVars
  <2> QED BY <2>1
<1>2. CASE SaveCreator(w, u)
  <2>1. Move(w, "saveCreator", u) /\ RoleEffect(w, "saveCreator", u) /\ MemberEffect(w, "saveCreator", u) /\ CountEffect(w)
    BY <1>2 DEF SaveCreator, RoleEffect, MemberEffect, CountEffect, loadVars
  <2> QED BY <2>1
<1>3. CASE SetCreatorRole(w, u)
  <2>1. Move(w, "setCreatorRole", u) /\ RoleEffect(w, "setCreatorRole", u) /\ MemberEffect(w, "setCreatorRole", u) /\ CountEffect(w)
    BY <1>3 DEF SetCreatorRole, RoleEffect, MemberEffect, CountEffect, loadVars
  <2> QED BY <2>1
<1>4. CASE SaveGroupMetaIdJoinItem(w, u)
  <2>1. Move(w, "saveJoinItem", u) /\ RoleEffect(w, "saveJoinItem", u) /\ MemberEffect(w, "saveJoinItem", u) /\ CountEffect(w)
    BY <1>4 DEF SaveGroupMetaIdJoinItem, RoleEffect, MemberEffect, CountEffect, loadVars
  <2> QED BY <2>1
<1>5. CASE JoinMember(w, u)
  <2>1. Move(w, "saveMember", u) /\ RoleEffect(w, "saveMember", u) /\ MemberEffect(w, "saveMember", u) /\ CountEffect(w)
    BY <1>5 DEF JoinMember, RoleEffect, MemberEffect, CountEffect, loadVars
  <2> QED BY <2>1
<1>6. CASE GetGroupMember(w, u)
  <2>1. Move(w, "loadMember", u) /\ RoleEffect(w, "loadMember", u) /\ MemberEffect(w, "loadMember", u) /\ CountEffect(w)
    BY <1>6 DEF GetGroupMember, RoleEffect, MemberEffect, CountEffect, groupVars
  <2> QED BY <2>1
<1>7. CASE RemoveMember(w, u)
  <2>1. Move(w, "removeMember", u) /\ RoleEffect(w, "removeMember", u) /\ MemberEffect(w, "removeMember", u) /\ CountEffect(w)
    BY <1>7 DEF RemoveMember, RoleEffect, MemberEffect, CountEffect
  <2> QED BY <2>1
<1>8. CASE GetGroup(w, u)
  <2>1. Move(w, "loadGroup", u) /\ RoleEffect(w, "loadGroup", u) /\ MemberEffect(w, "loadGroup", u) /\ CountEffect(w)
    BY <1>8 DEF GetGroup, RoleEffect, MemberEffect, CountEffect, groupVars
  <2> QED BY <2>1
<1>9. CASE AddToCount(w, u)
  <2>1. Move(w, "addToCount", u) /\ RoleEffect(w, "addToCount", u) /\ MemberEffect(w, "addToCount", u) /\ CountEffect(w)
    BY <1>9 DEF AddToCount, RoleEffect, MemberEffect, CountEffect
  <2> QED BY <2>1
<1>10. CASE SubtractFromCount(w, u)
  <2>1. Move(w, "subtractFromCount", u) /\ RoleEffect(w, "subtractFromCount", u) /\ MemberEffect(w, "subtractFromCount", u) /\ CountEffect(w)
    BY <1>10 DEF SubtractFromCount, RoleEffect, MemberEffect, CountEffect
  <2> QED BY <2>1
<1>11. CASE GetGroupMemberRole(w, u)
  <2>1. Move(w, "loadRole", u) /\ RoleEffect(w, "loadRole", u) /\ MemberEffect(w, "loadRole", u) /\ CountEffect(w)
    BY <1>11 DEF GetGroupMemberRole, RoleEffect, MemberEffect, CountEffect, groupVars
  <2> QED BY <2>1
<1>12. CASE SetAdmin(w, u)
  <2>1. Move(w, "setAdmin", u) /\ RoleEffect(w, "setAdmin", u) /\ MemberEffect(w, "setAdmin", u) /\ CountEffect(w)
    BY <1>12 DEF SetAdmin, RoleEffect, MemberEffect, CountEffect
  <2> QED BY <2>1
<1>13. CASE MakeAdmin(w, u)
  <2>1. Move(w, "makeAdmin", u) /\ RoleEffect(w, "makeAdmin", u) /\ MemberEffect(w, "makeAdmin", u) /\ CountEffect(w)
    BY <1>13 DEF MakeAdmin, RoleEffect, MemberEffect, CountEffect
  <2> QED BY <2>1
<1>14. CASE SetBlocked(w, u)
  <2>1. Move(w, "setBlocked", u) /\ RoleEffect(w, "setBlocked", u) /\ MemberEffect(w, "setBlocked", u) /\ CountEffect(w)
    BY <1>14 DEF SetBlocked, RoleEffect, MemberEffect, CountEffect
  <2> QED BY <2>1
<1>15. CASE AutoJoin(w, u)
  <2>1. Move(w, "autoJoin", u) /\ RoleEffect(w, "autoJoin", u) /\ MemberEffect(w, "autoJoin", u) /\ CountEffect(w)
    BY <1>15 DEF AutoJoin, RoleEffect, MemberEffect, CountEffect
  <2> QED BY <2>1
<1>16. CASE NotifyMembers(w, u)
  <2>1. At(w, "notifyMembers", u)
    BY <1>16 DEF NotifyMembers
  <2>2. todo[w] \in Seq(StepNames \X Users) /\ todo[w] # << >>
    BY <2>1 DEF TypeOK, At
  <2>3. Progress(w) + 1 = Len(Handler(pin[w])) /\ pin[w] \in Valid
    BY <2>1, AtFacts DEF StepFits
  <2>4. Len(Handler(pin[w])) \in Nat
    BY <2>3, HandlerShape
  <2>5. Len(todo[w]) \in Nat
    BY <2>2
  <2>6. Len(todo[w]) = 1
    <3>1. \A a, b \in Nat : a - b + 1 = a => b = 1
      OBVIOUS
    <3> QED BY <2>3, <2>4, <2>5, <3>1 DEF Progress
  <2>7. Tail(todo[w]) = << >>
    <3>1. Tail(todo[w]) \in Seq(StepNames \X Users) /\ Len(Tail(todo[w])) = Len(todo[w]) - 1
      BY <2>2
    <3>2. Len(Tail(todo[w])) = 0
      BY <2>6, <3>1
    <3>3. \A q \in Seq(StepNames \X Users) : Len(q) = 0 => q = << >>
      OBVIOUS
    <3> QED BY <3>1, <3>2, <3>3, Zenon
  <2>8. ~(Len(todo[w]) > 1)
    BY ONLY <2>6
  <2>9. Move(w, "notifyMembers", u)
    BY <1>16, <2>7, <2>8 DEF NotifyMembers
  <2>10. RoleEffect(w, "notifyMembers", u) /\ MemberEffect(w, "notifyMembers", u) /\ CountEffect(w)
    BY <1>16 DEF NotifyMembers, RoleEffect, MemberEffect, CountEffect, groupVars, loadVars
  <2> QED BY <2>9, <2>10
<1> QED BY <1>1, <1>2, <1>3, <1>4, <1>5, <1>6, <1>7, <1>8, <1>9, <1>10, <1>11, <1>12, <1>13, <1>14, <1>15, <1>16 DEF Step
\* The step is one of several that are left, or the last one.
Continues(w, s, u) ==
    /\ UNCHANGED <<pos, Sent>>
    /\ \A t, x : Did(w, t, x)' => Did(w, t, x) \/ At(w, t, x)
    /\ \A t, x : At(w, t, x)' =>
          /\ t \in {"setAdmin", "setBlocked"} => s = "loadRole" /\ u = x
          /\ t \in {"makeAdmin", "removeMember", "autoJoin"} => s = "loadMember" /\ u = x
Returns(w, s) ==
    /\ pos' = IF w = "scan" THEN pos + 1 ELSE pos
    /\ Sent' = Sent \cup (Targets(w, s) \X {pin[w]})
    /\ \A t, x : ~At(w, t, x)' /\ ~Did(w, t, x)'
    /\ \A k \in 1..Len(Handler(pin[w])) : \A t, x :
          Handler(pin[w])[k] = <<t, x>> => Did(w, t, x) \/ At(w, t, x)
    /\ Op[pin[w]] = "chat" => s = "notifyMembers"

\* What is in the channel after an event is added or taken.
LEMMA SendSent ==
    ASSUME TypeOK, NEW p \in Pins, NEW targets \in SUBSET Users, Op[p] = "create" => targets = {},
           SendNotifyEvent(p, targets)
    PROVE  /\ Sent' = Sent \cup (targets \X {p})
           /\ notifyCh' \in Seq([pin : Pins, to : SUBSET Users])
           /\ notified' \subseteq Users \X Pins /\ lost' \subseteq Users \X Pins
<1> DEFINE e == [pin |-> p, to |-> targets]
<1>0. /\ notifyCh \in Seq([pin : Pins, to : SUBSET Users]) /\ e \in [pin : Pins, to : SUBSET Users]
      /\ notified \subseteq Users \X Pins /\ lost \subseteq Users \X Pins
  BY DEF TypeOK
<1>1. CASE Op[p] = "create"
  <2>1. UNCHANGED <<notifyCh, notified, lost>> /\ targets = {}
    BY <1>1 DEF SendNotifyEvent, pushVars
  <2>2. Sent' = Sent
    BY <2>1 DEF Sent, Waiting
  <2> QED BY <1>0, <2>1, <2>2
<1>2. CASE notifyCh' = Append(notifyCh, e) /\ UNCHANGED <<notified, lost>>
  <2> HIDE DEF e
  <2>1. /\ notifyCh' \in Seq([pin : Pins, to : SUBSET Users]) /\ Len(notifyCh') = Len(notifyCh) + 1 /\ Len(notifyCh) \in Nat
        /\ (\A k \in 1..Len(notifyCh) : notifyCh'[k] = notifyCh[k]) /\ notifyCh'[Len(notifyCh) + 1] = e
    BY <1>0, <1>2
  <2>2. /\ \A k \in 1..Len(notifyCh') : k \in 1..Len(notifyCh) \/ k = Len(notifyCh) + 1
        /\ 1..Len(notifyCh) \subseteq 1..Len(notifyCh') /\ Len(notifyCh) + 1 \in 1..Len(notifyCh')
    BY <2>1
  <2>3. Waiting' = Waiting \cup (e.to \X {e.pin})
    <3>1. ASSUME NEW x \in Waiting' PROVE x \in Waiting \cup (e.to \X {e.pin})
      BY <2>1, <2>2 DEF Waiting
    <3>2. ASSUME NEW x \in Waiting PROVE x \in Waiting'
      BY <2>1, <2>2 DEF Waiting
    <3>3. ASSUME NEW x \in e.to \X {e.pin} PROVE x \in Waiting'
      BY <2>1, <2>2 DEF Waiting
    <3> QED BY <3>1, <3>2, <3>3
  <2>4. e.to = targets /\ e.pin = p
    BY DEF e
  <2>5. Sent' = Sent \cup (targets \X {p})
    BY <1>2, <2>3, <2>4 DEF Sent
  <2> QED BY <1>0, <1>2, <2>1, <2>5
<1>3. CASE lost' = lost \cup (targets \X {p}) /\ UNCHANGED <<notifyCh, notified>>
  <2>1. Waiting' = Waiting
    BY <1>3 DEF Waiting
  <2>2. Sent' = Sent \cup (targets \X {p})
    BY <1>3, <2>1 DEF Sent
  <2> QED BY <1>0, <1>3, <2>2
<1> QED BY <1>1, <1>2, <1>3 DEF SendNotifyEvent

LEMMA RouteSent ==
    ASSUME TypeOK, RouteNotifyEvent
    PROVE  /\ Sent' = Sent
           /\ notifyCh' \in Seq([pin : Pins, to : SUBSET Users]) /\ notified' \subseteq Users \X Pins
<1> DEFINE e == Head(notifyCh)
<1>0. /\ notifyCh \in Seq([pin : Pins, to : SUBSET Users]) /\ notifyCh # << >>
      /\ notified \subseteq Users \X Pins
      /\ notifyCh' = Tail(notifyCh) /\ notified' = notified \cup (e.to \X {e.pin}) /\ lost' = lost
  BY DEF TypeOK, RouteNotifyEvent
<1>1. e = notifyCh[1] /\ e \in [pin : Pins, to : SUBSET Users] /\ Len(notifyCh) \in Nat /\ Len(notifyCh) >= 1
  <2>1. \A S : \A q \in Seq(S) : q # << >> =>
          Head(q) = q[1] /\ Head(q) \in S /\ Len(q) \in Nat /\ Len(q) >= 1
    OBVIOUS
  <2> QED BY <1>0, <2>1
<1> HIDE DEF e
<1>2. /\ notifyCh' \in Seq([pin : Pins, to : SUBSET Users]) /\ Len(notifyCh') = Len(notifyCh) - 1
      /\ \A k \in 1..Len(notifyCh') : notifyCh'[k] = notifyCh[k + 1]
  BY <1>0, <1>1
<1>3. /\ \A k \in 1..Len(notifyCh') : k + 1 \in 1..Len(notifyCh)
      /\ \A k \in 1..Len(notifyCh) : k = 1 \/ (k - 1 \in 1..Len(notifyCh') /\ (k - 1) + 1 = k)
      /\ 1 \in 1..Len(notifyCh)
  BY <1>1, <1>2
<1>4. Waiting = Waiting' \cup (e.to \X {e.pin})
  <2>1. ASSUME NEW x \in Waiting' PROVE x \in Waiting
    BY <1>2, <1>3 DEF Waiting
  <2>2. ASSUME NEW x \in Waiting PROVE x \in Waiting' \/ x \in e.to \X {e.pin}
    <3>1. PICK k \in 1..Len(notifyCh) : x \in notifyCh[k].to \X {notifyCh[k].pin}
      BY DEF Waiting
    <3>2. CASE k = 1
      BY <1>1, <3>1, <3>2
    <3>3. CASE k # 1
      <4>1. k - 1 \in 1..Len(notifyCh') /\ notifyCh'[k - 1] = notifyCh[k]
        BY <1>2, <1>3, <3>3
      <4> QED BY <3>1, <4>1 DEF Waiting
    <3> QED BY <3>2, <3>3
  <2>3. ASSUME NEW x \in e.to \X {e.pin} PROVE x \in Waiting
    BY <1>1, <1>3 DEF Waiting
  <2> QED BY <2>1, <2>2, <2>3
<1> QED BY <1>0, <1>1, <1>2, <1>4 DEF Sent

LEMMA CrashSent == ASSUME Crash PROVE Sent' = Sent
<1>1. notifyCh' = << >> /\ lost' = lost \cup Waiting /\ notified' = notified
  BY DEF Crash
<1>2. Waiting' = {}
  BY <1>1 DEF Waiting
<1> QED BY <1>1, <1>2 DEF Sent

\* A handler's targets are users, and a create pin has none.
LEMMA TargetsOK ==
    ASSUME TypeOK, NEW w \in AllWriters, CallOK(w), NEW s, NEW u, At(w, s, u)
    PROVE  /\ pin[w] \in Pins /\ Targets(w, s) \in SUBSET Users
           /\ Op[pin[w]] = "create" => Targets(w, s) = {}
<1>1. pin[w] \in Valid /\ StepFits(pin[w], Progress(w) + 1, s, u) /\ Busy(w)
  BY AtFacts DEF At, Busy
<1>2. pin[w] \in Pins /\ event[w] = EventOf(pin[w]) /\ event[w] \in SUBSET Users
  BY <1>1, PinTypes DEF CallOK, TypeOK
<1>3. Op[pin[w]] = "create" => s # "notifyMembers" /\ EventOf(pin[w]) = {}
  BY <1>1 DEF StepFits, EventOf
<1> QED BY <1>2, <1>3 DEF Targets, GroupMemberTargetIds
Others(w) ==
    \A v \in AllWriters \ {w} : \A t, x : (Did(v, t, x)' <=> Did(v, t, x)) /\ (At(v, t, x)' <=> At(v, t, x))

LEMMA MoveFeed ==
    ASSUME TypeOK, NEW w \in AllWriters, CallOK(w), NEW s, NEW u, Move(w, s, u)
    PROVE  /\ UNCHANGED <<chain, writers, mined, late, queue, polled, backfill, crashes>>
           /\ pos' \in {pos, pos + 1} /\ (pos' # pos => w = "scan" /\ pos < mined)
           /\ \A v \in AllWriters \ {w} : todo'[v] = todo[v] /\ pin'[v] = pin[v] /\ event'[v] = event[v]
           /\ todo'[w] = Tail(todo[w])
<1>1. At(w, s, u) /\ w \in {"scan", "mempool"} /\ (w = "scan" => pos < mined)
  BY AtFacts DEF Move
<1>2. todo' = [todo EXCEPT ![w] = Tail(@)]
  BY DEF Move
<1>3. todo \in [AllWriters -> Seq(StepNames \X Users)] /\ pin \in [AllWriters -> Pins \cup {NoPin}]
      /\ event \in [AllWriters -> SUBSET Users]
  BY DEF TypeOK
<1>4. CASE Len(todo[w]) > 1
  <2>1. UNCHANGED <<feedVars, pin, event, pushVars>>
    BY <1>4 DEF Move
  <2> QED BY <1>1, <1>2, <1>3, <2>1 DEF feedVars
<1>5. CASE ~(Len(todo[w]) > 1)
  <2>1. Return(w, Targets(w, s))
    BY <1>5 DEF Move
  <2> QED BY <1>1, <1>2, <1>3, <2>1 DEF Return, Done, Advance, setup
<1> QED BY <1>4, <1>5

LEMMA MoveOn ==
    ASSUME TypeOK, NEW w \in AllWriters, CallOK(w), NEW s, NEW u, Move(w, s, u), Len(todo[w]) > 1
    PROVE  /\ UNCHANGED <<feedVars, pin, event, pushVars>>
           /\ todo'[w] \in Seq(StepNames \X Users) /\ Busy(w)'
           /\ Len(todo'[w]) \in Nat /\ Len(todo'[w]) <= Len(Handler(pin[w]))
           /\ Len(Handler(pin[w])) - Len(todo'[w]) = Progress(w) + 1
           /\ \A k \in 1..Len(todo'[w]) : todo'[w][k] = Handler(pin[w])[Progress(w) + 1 + k]
<1> DEFINE H == Handler(pin[w])
           q == todo[w]
           r == todo'[w]
<1>1. At(w, s, u) /\ pin[w] \in Valid
  BY AtFacts DEF Move
<1>2. UNCHANGED <<feedVars, pin, event, pushVars>> /\ r = Tail(q)
  BY MoveFeed DEF Move
<1>3. q \in Seq(StepNames \X Users) /\ q # << >>
  BY <1>1 DEF TypeOK, At
<1>4. Len(q) \in Nat /\ Len(q) > 1 /\ Len(H) \in Nat
  BY <1>1, <1>3, HandlerShape
<1>5. Len(q) <= Len(H) /\ (\A k \in 1..Len(q) : q[k] = H[Progress(w) + k]) /\ Progress(w) = Len(H) - Len(q)
  BY <1>3 DEF CallOK, Busy, Progress
<1> HIDE DEF H, q, r
<1>6. r \in Seq(StepNames \X Users) /\ Len(r) = Len(q) - 1 /\ \A k \in 1..Len(r) : r[k] = q[k + 1]
  BY <1>2, <1>3
<1>7. r # << >>
  BY <1>4, <1>6
<1>8. Len(r) \in Nat /\ Len(r) <= Len(H) /\ Len(H) - Len(r) = Progress(w) + 1
  BY <1>4, <1>5, <1>6
<1>9. ASSUME NEW k \in 1..Len(r) PROVE r[k] = H[Progress(w) + 1 + k]
  <2>1. k + 1 \in 1..Len(q) /\ Progress(w) + (k + 1) = Progress(w) + 1 + k
    BY <1>4, <1>5, <1>6
  <2>2. r[k] = q[k + 1]
    BY <1>6
  <2>3. q[k + 1] = H[Progress(w) + (k + 1)]
    BY <1>5, <2>1
  <2> QED BY <2>1, <2>2, <2>3
<1> QED BY <1>2, <1>6, <1>7, <1>8, <1>9 DEF Busy, H, r

LEMMA MoveOut ==
    ASSUME TypeOK, NEW w \in AllWriters, CallOK(w), NEW s, NEW u, Move(w, s, u), ~(Len(todo[w]) > 1)
    PROVE  Return(w, Targets(w, s)) /\ todo'[w] = << >> /\ Progress(w) + 1 = Len(Handler(pin[w]))
<1>1. At(w, s, u) /\ pin[w] \in Valid
  BY AtFacts DEF Move
<1>2. todo[w] \in Seq(StepNames \X Users) /\ todo[w] # << >>
  BY <1>1 DEF TypeOK, At
<1>3. Len(todo[w]) = 1
  <2>1. Len(todo[w]) \in Nat /\ Len(todo[w]) # 0
    BY <1>2
  <2>2. \A n \in Nat : n # 0 /\ ~(n > 1) => n = 1
    OBVIOUS
  <2> QED BY <2>1, <2>2
<1>4. Tail(todo[w]) = << >>
  <2>1. Tail(todo[w]) \in Seq(StepNames \X Users) /\ Len(Tail(todo[w])) = Len(todo[w]) - 1
    BY <1>2
  <2>2. Len(Tail(todo[w])) = 0
    BY <1>3, <2>1
  <2>3. \A q \in Seq(StepNames \X Users) : Len(q) = 0 => q = << >>
    OBVIOUS
  <2> QED BY <2>1, <2>2, <2>3, Zenon
<1>5. Progress(w) + 1 = Len(Handler(pin[w]))
  <2>1. Len(Handler(pin[w])) \in Nat
    BY <1>1, HandlerShape
  <2>2. \A a \in Nat : a - 1 + 1 = a
    OBVIOUS
  <2> QED BY <1>3, <2>1, <2>2 DEF Progress
<1> QED BY <1>4, <1>5, MoveFeed DEF Move

LEMMA MoveFacts ==
    ASSUME TypeOK, NEW w \in AllWriters, CallOK(w), NEW s, NEW u, Move(w, s, u)
    PROVE  Others(w) /\ (Continues(w, s, u) \/ Returns(w, s))
<1> DEFINE H == Handler(pin[w])
<1>1. /\ At(w, s, u) /\ pin[w] \in Valid /\ StepFits(pin[w], Progress(w) + 1, s, u)
      /\ Progress(w) \in Nat /\ Progress(w) + 1 <= Len(H) /\ H[Progress(w) + 1] = <<s, u>>
  BY AtFacts DEF Move
<1>2. \A k \in 1..Len(H) : \A t, x : H[k] = <<t, x>> => StepFits(pin[w], k, t, x)
  BY <1>1, HandlerShape
<1>3. Len(H) \in Nat
  BY <1>1, HandlerShape
<1>4. Others(w)
  BY MoveFeed DEF Others, Did, At, Busy, Progress
<1>5. Busy(w)
  BY <1>1 DEF At, Busy
<1>6. CASE Len(todo[w]) > 1
  <2>1. /\ pin' = pin /\ UNCHANGED <<pos, Sent>>
        /\ todo'[w] \in Seq(StepNames \X Users) /\ Busy(w)'
        /\ Len(H) - Len(todo'[w]) = Progress(w) + 1
        /\ \A k \in 1..Len(todo'[w]) : todo'[w][k] = H[Progress(w) + 1 + k]
        /\ Len(todo'[w]) \in Nat /\ Len(todo'[w]) <= Len(H)
    BY <1>6, MoveOn DEF feedVars, pushVars, Sent, Waiting
  <2>2. ASSUME NEW t, NEW x, Did(w, t, x)' PROVE Did(w, t, x) \/ At(w, t, x)
    <3>1. Progress(w)' = Progress(w) + 1
      BY <2>1 DEF Progress
    <3>2. PICK k \in 1..(Progress(w) + 1) : H[k] = <<t, x>>
      BY <2>1, <2>2, <3>1 DEF Did
    <3>3. CASE k \in 1..Progress(w)
      BY <1>5, <3>2, <3>3 DEF Did
    <3>4. CASE k = Progress(w) + 1
      BY <1>1, <3>2, <3>4 DEF At
    <3> QED BY <1>1, <3>3, <3>4
  <2>3. ASSUME NEW t, NEW x, At(w, t, x)'
        PROVE  /\ t \in {"setAdmin", "setBlocked"} => s = "loadRole" /\ u = x
               /\ t \in {"makeAdmin", "removeMember", "autoJoin"} => s = "loadMember" /\ u = x
    <3>1. todo'[w] # << >> /\ Head(todo'[w]) = <<t, x>>
      BY <2>3 DEF At
    <3>2. 1 \in 1..Len(todo'[w]) /\ todo'[w][1] = <<t, x>>
      BY <2>1, <3>1
    <3>3. H[Progress(w) + 1 + 1] = <<t, x>>
      BY <2>1, <3>2
    <3> DEFINE m == Progress(w) + 1 + 1
    <3>4. m \in 1..Len(H) /\ m - 1 = Progress(w) + 1
      <4>1. \A a, b, c \in Nat : \A n : n = c + 1 + 1 /\ a - b = c + 1 /\ 1 <= b => n \in 1..a /\ n - 1 = c + 1
        OBVIOUS
      <4>2. 1 <= Len(todo'[w])
        BY <2>1, <3>2
      <4>3. m = Progress(w) + 1 + 1
        OBVIOUS
      <4> HIDE DEF m, H
      <4> QED BY <1>1, <1>3, <2>1, <4>1, <4>2, <4>3
    <3>5. H[m] = <<t, x>>
      BY <3>3
    <3> HIDE DEF m
    <3>6. StepFits(pin[w], m, t, x)
      BY <1>2, <3>4, <3>5
    <3>7. /\ t \in {"setAdmin", "setBlocked"} => H[Progress(w) + 1] = <<"loadRole", x>>
          /\ t \in {"makeAdmin", "removeMember", "autoJoin"} => H[Progress(w) + 1] = <<"loadMember", x>>
      BY <3>4, <3>6 DEF StepFits
    <3> QED BY <1>1, <3>7
  <2> QED BY <1>4, <2>1, <2>2, <2>3 DEF Continues
<1>7. CASE ~(Len(todo[w]) > 1)
  <2>1. Return(w, Targets(w, s)) /\ todo'[w] = << >> /\ Progress(w) + 1 = Len(H)
    BY <1>7, MoveOut
  <2>2. pos' = (IF w = "scan" THEN pos + 1 ELSE pos) /\ Sent' = Sent \cup (Targets(w, s) \X {pin[w]})
    BY <1>1, <2>1, TargetsOK, SendSent DEF Return, Done, Advance
  <2>3. \A t, x : ~At(w, t, x)' /\ ~Did(w, t, x)'
    BY <2>1 DEF At, Did, Busy
  <2>4. ASSUME NEW k \in 1..Len(H), NEW t, NEW x, H[k] = <<t, x>> PROVE Did(w, t, x) \/ At(w, t, x)
    <3>1. k \in 1..Progress(w) \/ k = Progress(w) + 1
      BY <1>1, <1>3, <2>1
    <3>2. CASE k \in 1..Progress(w)
      BY <1>5, <2>4, <3>2 DEF Did
    <3>3. CASE k = Progress(w) + 1
      BY <1>1, <2>4, <3>3 DEF At
    <3> QED BY <3>1, <3>2, <3>3
  <2>5. ASSUME Op[pin[w]] = "chat" PROVE s = "notifyMembers"
    <3>1. PICK k \in 1..Len(H) : H[k] = <<"notifyMembers", By[pin[w]]>>
      BY <1>1, <2>5, HandlerShape DEF HasSteps
    <3>2. k = Len(H)
      BY <1>2, <3>1 DEF StepFits
    <3> QED BY <1>1, <2>1, <3>1, <3>2
  <2> QED BY <1>4, <2>2, <2>3, <2>4, <2>5 DEF Returns
<1> QED BY <1>6, <1>7

LEMMA MoveCall ==
    ASSUME TypeOK, \A v \in AllWriters : CallOK(v), NEW w \in AllWriters, NEW s, NEW u, Move(w, s, u)
    PROVE  \A v \in AllWriters : CallOK(v)'
<1> DEFINE H == Handler(pin[w])
<1>0. CallOK(w)
  OBVIOUS
<1>1. /\ UNCHANGED <<chain, writers, mined>>
      /\ pos' \in {pos, pos + 1} /\ (pos' # pos => w = "scan" /\ pos < mined)
      /\ \A v \in AllWriters \ {w} : todo'[v] = todo[v] /\ pin'[v] = pin[v] /\ event'[v] = event[v]
  BY <1>0, MoveFeed
<1>2. ASSUME NEW v \in AllWriters, v # w PROVE CallOK(v)'
  <2>1. todo'[v] = todo[v] /\ pin'[v] = pin[v] /\ event'[v] = event[v] /\ (v = "scan" => pos' = pos)
    BY <1>1, <1>2
  <2>2. Progress(v)' = Progress(v) /\ Busy(v)' = Busy(v)
    BY <2>1 DEF Progress, Busy
  <2>3. CallOK(v)
    OBVIOUS
  <2> QED BY <1>1, <2>1, <2>2, <2>3 DEF CallOK
<1>3. CASE Len(todo[w]) > 1
  <2>1. /\ pin' = pin /\ event' = event /\ UNCHANGED <<chain, writers, mined, pos>>
        /\ Len(H) - Len(todo'[w]) = Progress(w) + 1
        /\ \A k \in 1..Len(todo'[w]) : todo'[w][k] = H[Progress(w) + 1 + k]
        /\ Len(todo'[w]) <= Len(H)
    BY <1>0, <1>3, MoveOn DEF feedVars
  <2>2. Busy(w)
    BY DEF Move, At, Busy
  <2>3. Progress(w)' = Progress(w) + 1
    BY <2>1 DEF Progress
  <2>4. CallOK(w)'
    BY <1>0, <2>1, <2>2, <2>3 DEF CallOK
  <2> QED BY <1>2, <2>4
<1>4. CASE ~(Len(todo[w]) > 1)
  <2>1. todo'[w] = << >>
    BY <1>0, <1>4, MoveOut
  <2> QED BY <1>2, <2>1 DEF CallOK, Busy
<1> QED BY <1>3, <1>4
\* What the proofs about a step start from.
Steps(w, s, u) == Move(w, s, u) /\ RoleEffect(w, s, u) /\ MemberEffect(w, s, u) /\ CountEffect(w)

LEMMA StepType ==
    ASSUME Inv, NEW w \in AllWriters, NEW s, NEW u, Steps(w, s, u)
    PROVE  TypeOK'
<1>0. TypeOK /\ CallOK(w) /\ Move(w, s, u) /\ At(w, s, u)
  BY DEF Inv, Steps, Move
<1>1. u \in Users /\ pin[w] \in Valid /\ StepFits(pin[w], Progress(w) + 1, s, u)
  BY <1>0, AtFacts
<1>2. FeedTypeOK'
  <2>1. FeedTypeOK /\ pos \in Nat /\ mined \in Nat
    BY <1>0, ChainFacts DEF TypeOK
  <2>2. /\ UNCHANGED <<chain, writers, mined, late, queue, polled, backfill, crashes>>
        /\ pos' \in {pos, pos + 1} /\ (pos' # pos => pos < mined)
    BY <1>0, MoveFeed
  <2>3. pos' \in 0..mined
    BY <2>1, <2>2 DEF FeedTypeOK
  <2> QED BY <2>1, <2>2, <2>3 DEF FeedTypeOK
<1>3. count' \in Nat \cup {NoGroup} /\ countOf' \in [AllWriters -> Nat \cup {NoGroup}] /\ history' \subseteq Pins \X BOOLEAN
  <2>1. count \in Nat \cup {NoGroup} /\ countOf \in [AllWriters -> Nat \cup {NoGroup}] /\ history \subseteq Pins \X BOOLEAN
    BY <1>0 DEF TypeOK
  <2>2. CountEffect(w)
    BY DEF Steps
  <2>3. countOf[w] \in Nat \cup {NoGroup}
    BY <2>1
  <2>4. count' \in Nat \cup {NoGroup}
    BY <2>1, <2>2, <2>3 DEF CountEffect
  <2>5. countOf' \in [AllWriters -> Nat \cup {NoGroup}]
    BY <2>1, <2>2 DEF CountEffect
  <2>6. pin[w] \in Pins /\ (w = "mempool") \in BOOLEAN
    BY <1>1, PinTypes
  <2>7. history' \subseteq Pins \X BOOLEAN
    <3>1. \A p \in Pins, b \in BOOLEAN : history \cup {<<p, b>>} \subseteq Pins \X BOOLEAN
      BY <2>1
    <3>2. history \cup {<<pin[w], w = "mempool">>} \subseteq Pins \X BOOLEAN
      BY <2>6, <3>1, Zenon
    <3>3. history' = history \/ history' = history \cup {<<pin[w], w = "mempool">>}
      BY <2>2 DEF CountEffect
    <3> QED BY <2>1, <3>2, <3>3, Zenon
  <2> QED BY <2>4, <2>5, <2>7
<1>4. member' \in [Users -> Members \cup {NoMember}] /\ memberOf' \in [AllWriters -> Members \cup {NoMember}]
  <2>1. member \in [Users -> Members \cup {NoMember}] /\ memberOf \in [AllWriters -> Members \cup {NoMember}]
    BY <1>0 DEF TypeOK
  <2>2. MemberEffect(w, s, u)
    BY DEF Steps
  <2>3. memberOf' \in [AllWriters -> Members \cup {NoMember}]
    BY <1>1, <2>1, <2>2 DEF MemberEffect
  <2>4. Member \in Members /\ [Member EXCEPT !.admin = TRUE, !.creator = TRUE] \in Members
    BY DEF Member, Members
  <2>5. \A m \in Members : [m EXCEPT !.removed = TRUE] \in Members /\ [m EXCEPT !.admin = TRUE] \in Members
    BY DEF Members
  <2>6. memberOf[w] # NoMember => [memberOf[w] EXCEPT !.removed = TRUE] \in Members /\ [memberOf[w] EXCEPT !.admin = TRUE] \in Members
    <3>1. memberOf[w] # NoMember => memberOf[w] \in Members
      BY <2>1
    <3> QED BY <2>5, <3>1
  <2>7. member' = member \/ \E m \in Members : member' = [member EXCEPT ![u] = m]
    BY <2>2, <2>4, <2>6 DEF MemberEffect, SaveMember
  <2>8. member' \in [Users -> Members \cup {NoMember}]
    BY <1>1, <2>1, <2>7
  <2> QED BY <2>3, <2>8
<1>5. role' \in [Users -> Roles \cup {NoRole}] /\ roleOf' \in [AllWriters -> Roles \cup {NoRole}]
  <2>1. role \in [Users -> Roles \cup {NoRole}] /\ roleOf \in [AllWriters -> Roles \cup {NoRole}]
    BY <1>0 DEF TypeOK
  <2>2. RoleEffect(w, s, u)
    BY DEF Steps
  <2>3. Role \in Roles /\ [Role EXCEPT !.creator = TRUE, !.admin = TRUE] \in Roles
    BY DEF Role, Roles
  <2>4. roleOf' \in [AllWriters -> Roles \cup {NoRole}]
    BY <1>1, <2>1, <2>2, <2>3 DEF RoleEffect
  <2>5. s \in {"setAdmin", "setBlocked"} => roleOf[w] \in Roles
    BY <1>0, <1>1, <2>1 DEF Inv, RolesOK
  <2>6. \A r \in Roles : [r EXCEPT !.admin = TRUE] \in Roles /\ [r EXCEPT !.blocked = TRUE] \in Roles
    BY DEF Roles
  <2>7. role' = role \/ \E r \in Roles : role' = [role EXCEPT ![u] = r]
    BY <2>2, <2>3, <2>5, <2>6 DEF RoleEffect
  <2>8. role' \in [Users -> Roles \cup {NoRole}]
    BY <1>1, <2>1, <2>7
  <2> QED BY <2>4, <2>8
<1>6. todo' \in [AllWriters -> Seq(StepNames \X Users)]
  <2>1. todo \in [AllWriters -> Seq(StepNames \X Users)] /\ todo[w] # << >>
    BY <1>0 DEF TypeOK, At
  <2>2. todo' = [todo EXCEPT ![w] = Tail(todo[w])]
    BY <1>0 DEF Move
  <2>3. Tail(todo[w]) \in Seq(StepNames \X Users)
    BY <2>1
  <2> QED BY <2>1, <2>2, <2>3
<1>7. /\ pin' \in [AllWriters -> Pins \cup {NoPin}] /\ event' \in [AllWriters -> SUBSET Users]
      /\ notifyCh' \in Seq([pin : Pins, to : SUBSET Users])
      /\ notified' \subseteq Users \X Pins /\ lost' \subseteq Users \X Pins
  <2>1. /\ pin \in [AllWriters -> Pins \cup {NoPin}] /\ event \in [AllWriters -> SUBSET Users]
        /\ notifyCh \in Seq([pin : Pins, to : SUBSET Users])
        /\ notified \subseteq Users \X Pins /\ lost \subseteq Users \X Pins
    BY <1>0 DEF TypeOK
  <2>2. CASE Len(todo[w]) > 1
    <3>1. UNCHANGED <<pin, event, notifyCh, notified, lost>>
      BY <1>0, <2>2 DEF Move, pushVars
    <3> QED BY <2>1, <3>1
  <2>3. CASE ~(Len(todo[w]) > 1)
    <3>1. Return(w, Targets(w, s))
      BY <1>0, <2>3 DEF Move
    <3>2. pin' = [pin EXCEPT ![w] = NoPin] /\ event' = [event EXCEPT ![w] = {}] /\ SendNotifyEvent(pin[w], Targets(w, s))
      BY <3>1 DEF Return
    <3> QED BY <1>0, <2>1, <3>2, TargetsOK, SendSent
  <2> QED BY <2>2, <2>3
<1> QED BY <1>2, <1>3, <1>4, <1>5, <1>6, <1>7 DEF TypeOK

LEMMA StepFeed ==
    ASSUME Inv, NEW w \in AllWriters, NEW s, NEW u, Steps(w, s, u)
    PROVE  FeedOK'
<1>0. TypeOK /\ CallOK(w) /\ Move(w, s, u) /\ FeedOK
  BY DEF Inv, Steps
<1>1. /\ UNCHANGED <<chain, writers, mined, late, queue, polled, backfill, crashes>>
      /\ \A v \in AllWriters \ {w} : todo'[v] = todo[v] /\ pin'[v] = pin[v]
  BY <1>0, MoveFeed
<1>2. \A p : Ahead(p)' = Ahead(p)
  BY <1>1 DEF Ahead
<1>3. ASSUME ~late, Busy("mempool")' PROVE Ahead(pin'["mempool"])
  <2>1. CASE w # "mempool"
    BY <1>0, <1>1, <1>3, <2>1 DEF FeedOK, Busy, AllWriters
  <2>2. CASE w = "mempool"
    <3>1. Len(todo[w]) > 1
      BY <1>0, <1>3, <2>2, MoveOut DEF Busy
    <3>2. pin' = pin /\ Busy("mempool")
      BY <1>0, <2>2, <3>1 DEF Move, Busy, At
    <3> QED BY <1>0, <1>3, <3>2 DEF FeedOK
  <2> QED BY <2>1, <2>2
<1> QED BY <1>0, <1>1, <1>2, <1>3 DEF FeedOK
-----------------------------------------------------------------------------
(* The steps keep each part of the invariant *)

LEMMA SameChain ==
    ASSUME chain' = chain, NEW u
    PROVE  /\ RolePins(u)' = RolePins(u) /\ ChainPins' = ChainPins
           /\ Blocks(u)' = Blocks(u) /\ Raises(u)' = Raises(u)
           /\ NeverLeaves(u)' = NeverLeaves(u) /\ NeverCreates(u)' = NeverCreates(u)
           /\ \A n : BlockedAt(u, n)' = BlockedAt(u, n)
           /\ \A n : InGroup(u, n)' = InGroup(u, n)
<1>1. ChainPins' = ChainPins
  BY DEF ChainPins, PinsOf
<1>2. RolePins(u)' = RolePins(u)
  BY <1>1 DEF RolePins
<1>3. Blocks(u)' = Blocks(u) /\ Raises(u)' = Raises(u)
  BY <1>2 DEF Blocks, Raises
<1>4. NeverLeaves(u)' = NeverLeaves(u) /\ NeverCreates(u)' = NeverCreates(u)
  BY <1>1, <1>2 DEF NeverLeaves, NeverCreates
<1>5. \A n : BlockedAt(u, n)' = BlockedAt(u, n)
  BY DEF BlockedAt
<1>6. \A n : InGroup(u, n)' = InGroup(u, n)
  BY DEF InGroup
<1> QED BY <1>1, <1>2, <1>3, <1>4, <1>5, <1>6

LEMMA RoleStep ==
    ASSUME Inv, NEW w \in AllWriters, NEW s, NEW u, At(w, s, u)
    PROVE  /\ s \in {"setCreatorRole", "setAdmin"} => Raises(u)
           /\ s = "setBlocked" => Blocks(u)
           /\ s = "setCreatorRole" => ~NeverCreates(u)
           /\ s \in {"setCreatorRole", "setAdmin", "setBlocked"} => Touches(pin[w], u) /\ pin[w] \in RolePins(u)
           /\ s \in {"makeAdmin", "saveCreator"} => Raises(u)
           /\ s = "removeMember" => ~NeverLeaves(u)
<1>1. pin[w] \in Valid /\ pin[w] \in ChainPins /\ StepFits(pin[w], Progress(w) + 1, s, u)
  BY AtFacts DEF Inv
<1> QED BY <1>1 DEF StepFits, Raises, Blocks, NeverCreates, RolePins, Touches, NeverLeaves

LEMMA StepRoles ==
    ASSUME Inv, NEW w \in AllWriters, NEW s, NEW u, Steps(w, s, u)
    PROVE  RolesOK'
<1>0. TypeOK /\ CallOK(w) /\ Move(w, s, u) /\ At(w, s, u) /\ RolesOK /\ RoleEffect(w, s, u)
  BY DEF Inv, Steps, Move
<1>1. chain' = chain /\ Others(w) /\ (Continues(w, s, u) \/ Returns(w, s)) /\ u \in Users
  BY <1>0, MoveFeed, MoveFacts, AtFacts
<1>2. \A x : (Raises(x)' <=> Raises(x)) /\ (Blocks(x)' <=> Blocks(x))
  BY <1>1, SameChain
<1>3. /\ role \in [Users -> Roles \cup {NoRole}] /\ roleOf \in [AllWriters -> Roles \cup {NoRole}]
      /\ s \in {"setAdmin", "setBlocked"} => roleOf[w] \in Roles /\ RoleHasPin(u, roleOf[w])
  BY <1>0, <1>1 DEF TypeOK, RolesOK
<1>4. ASSUME NEW x \in Users, role'[x] # NoRole
      PROVE  /\ role'[x].admin => Raises(x)
             /\ role'[x].blocked => Blocks(x)
             /\ ~role'[x].admin => Blocks(x)
             /\ ~role'[x].blocked => Raises(x)
  <2>1. CASE role'[x] = role[x]
    BY <1>0, <1>4, <2>1 DEF RolesOK, RoleHasPin
  <2>2. CASE x = u /\ s = "setCreatorRole"
    <3>1. role'[x] = [creator |-> TRUE, admin |-> TRUE, blocked |-> FALSE]
      BY <1>0, <1>1, <1>3, <2>2 DEF RoleEffect, Role
    <3> QED BY <1>0, <2>2, <3>1, RoleStep
  <2>3. CASE x = u /\ s = "setAdmin"
    <3>1. role'[x].admin = TRUE /\ role'[x].blocked = roleOf[w].blocked
      BY <1>0, <1>1, <1>3, <2>3 DEF RoleEffect, Roles
    <3> QED BY <1>0, <1>3, <2>3, <3>1, RoleStep DEF RoleHasPin
  <2>4. CASE x = u /\ s = "setBlocked"
    <3>1. role'[x].blocked = TRUE /\ role'[x].admin = roleOf[w].admin
      BY <1>0, <1>1, <1>3, <2>4 DEF RoleEffect, Roles
    <3> QED BY <1>0, <1>3, <2>4, <3>1, RoleStep DEF RoleHasPin
  <2>5. x # u \/ s \notin {"setCreatorRole", "setAdmin", "setBlocked"} => role'[x] = role[x]
    BY <1>0, <1>1, <1>3 DEF RoleEffect
  <2> QED BY <2>1, <2>2, <2>3, <2>4, <2>5
<1>5. ASSUME NEW v \in AllWriters, NEW x \in Users, At(v, "setAdmin", x)' \/ At(v, "setBlocked", x)'
      PROVE  roleOf'[v] # NoRole /\ RoleHasPin(x, roleOf'[v])
  <2>1. CASE v # w
    <3>1. roleOf'[v] = roleOf[v]
      BY <1>0, <1>3, <2>1 DEF RoleEffect
    <3>2. At(v, "setAdmin", x) \/ At(v, "setBlocked", x)
      BY <1>1, <1>5, <2>1 DEF Others
    <3> QED BY <1>0, <3>1, <3>2 DEF RolesOK
  <2>2. CASE v = w
    <3>1. s = "loadRole" /\ u = x
      BY <1>1, <1>5, <2>2 DEF Continues, Returns
    <3>2. roleOf'[w] = IF role[x] = NoRole THEN Role ELSE role[x]
      BY <1>0, <1>3, <3>1 DEF RoleEffect
    <3>3. Role \in Roles /\ ~Role.admin /\ ~Role.blocked
      BY DEF Role, Roles
    <3> QED BY <1>0, <2>2, <3>2, <3>3, GroupAssumption DEF RolesOK, RoleHasPin
  <2> QED BY <2>1, <2>2
<1> QED BY <1>2, <1>4, <1>5 DEF RolesOK, RoleHasPin

LEMMA StepMembers ==
    ASSUME Inv, NEW w \in AllWriters, NEW s, NEW u, Steps(w, s, u)
    PROVE  MembersOK'
<1>0. TypeOK /\ CallOK(w) /\ Move(w, s, u) /\ At(w, s, u) /\ MembersOK /\ MemberEffect(w, s, u)
  BY DEF Inv, Steps, Move
<1>1. chain' = chain /\ Others(w) /\ (Continues(w, s, u) \/ Returns(w, s)) /\ u \in Users
  BY <1>0, MoveFeed, MoveFacts, AtFacts
<1>2. \A x : (Raises(x)' <=> Raises(x)) /\ (NeverLeaves(x)' <=> NeverLeaves(x))
  BY <1>1, SameChain
<1>3. /\ member \in [Users -> Members \cup {NoMember}] /\ memberOf \in [AllWriters -> Members \cup {NoMember}]
      /\ Member \in Members /\ ~Member.admin /\ ~Member.removed /\ NoMember \notin Members
  BY <1>0, GroupAssumption DEF TypeOK, Member, Members
<1>4. ASSUME NEW x \in Users PROVE member[x] # NoMember => member'[x] # NoMember
  <2>1. \A m \in Members : [m EXCEPT !.removed = TRUE] \in Members /\ [m EXCEPT !.admin = TRUE] \in Members
    BY DEF Members
  <2>2. memberOf[w] # NoMember => memberOf[w] \in Members
    BY <1>3
  <2>3. [Member EXCEPT !.admin = TRUE, !.creator = TRUE] \in Members
    BY DEF Member, Members
  <2>4. member' = member \/ \E m \in Members : member' = [member EXCEPT ![u] = m]
    BY <1>0, <1>3, <2>1, <2>2, <2>3 DEF MemberEffect, SaveMember
  <2> QED BY <1>1, <1>3, <2>4
<1>5. ASSUME NEW x \in Users, member'[x] # NoMember PROVE MemberHasPin(x, member'[x])
  <2>1. CASE member'[x] = member[x]
    BY <1>0, <1>5, <2>1 DEF MembersOK
  <2>2. CASE x = u /\ s = "saveCreator"
    <3>1. member'[x] = [removed |-> FALSE, admin |-> TRUE, creator |-> TRUE]
      BY <1>0, <1>1, <1>3, <2>2 DEF MemberEffect, SaveMember, Member
    <3> QED BY <1>0, <2>2, <3>1, RoleStep DEF MemberHasPin
  <2>3. CASE x = u /\ member' = [member EXCEPT ![u] = Member]
    BY <1>1, <1>3, <2>3 DEF MemberHasPin
  <2>4. CASE x = u /\ s = "removeMember" /\ memberOf[w] # NoMember
    <3>1. memberOf[w] \in Members /\ MemberHasPin(u, memberOf[w])
      BY <1>0, <1>1, <1>3, <2>4 DEF MembersOK
    <3>2. member'[x].removed = TRUE /\ member'[x].admin = memberOf[w].admin
      BY <1>0, <1>1, <1>3, <2>4, <3>1 DEF MemberEffect, SaveMember, Members
    <3> QED BY <1>0, <2>4, <3>1, <3>2, RoleStep DEF MemberHasPin
  <2>5. CASE x = u /\ s = "makeAdmin" /\ memberOf[w] # NoMember
    <3>1. memberOf[w] \in Members /\ MemberHasPin(u, memberOf[w])
      BY <1>0, <1>1, <1>3, <2>5 DEF MembersOK
    <3>2. member'[x].admin = TRUE /\ member'[x].removed = memberOf[w].removed
      BY <1>0, <1>1, <1>3, <2>5, <3>1 DEF MemberEffect, SaveMember, Members
    <3> QED BY <1>0, <2>5, <3>1, <3>2, RoleStep DEF MemberHasPin
  <2>6. CASE x # u
    <3>1. member' = member \/ \E m : member' = [member EXCEPT ![u] = m]
      BY <1>0 DEF MemberEffect, SaveMember
    <3>2. member'[x] = member[x]
      BY <1>3, <2>6, <3>1
    <3> QED BY <2>1, <3>2
  <2>7. \/ member' = member \/ s = "saveCreator" \/ member' = [member EXCEPT ![u] = Member]
        \/ s = "removeMember" /\ memberOf[w] # NoMember
        \/ s = "makeAdmin" /\ memberOf[w] # NoMember
    BY <1>0 DEF MemberEffect, SaveMember
  <2> QED BY <2>1, <2>2, <2>3, <2>4, <2>5, <2>6, <2>7
<1>6. ASSUME NEW v \in AllWriters, NEW x \in Users, memberOf'[v] # NoMember,
             At(v, "makeAdmin", x)' \/ At(v, "removeMember", x)' \/ At(v, "autoJoin", x)'
      PROVE  MemberHasPin(x, memberOf'[v]) /\ member'[x] # NoMember
  <2>1. CASE v # w
    <3>1. memberOf'[v] = memberOf[v]
      BY <1>0, <1>3, <2>1 DEF MemberEffect
    <3>2. At(v, "makeAdmin", x) \/ At(v, "removeMember", x) \/ At(v, "autoJoin", x)
      BY <1>1, <1>6, <2>1 DEF Others
    <3> QED BY <1>0, <1>4, <1>6, <3>1, <3>2 DEF MembersOK
  <2>2. CASE v = w
    <3>1. s = "loadMember" /\ u = x
      BY <1>1, <1>6, <2>2 DEF Continues, Returns
    <3>2. memberOf'[w] = member[x]
      BY <1>0, <1>3, <3>1 DEF MemberEffect
    <3> QED BY <1>0, <1>4, <1>6, <2>2, <3>2 DEF MembersOK
  <2> QED BY <2>1, <2>2
<1> QED BY <1>2, <1>5, <1>6 DEF MembersOK, MemberHasPin
\* A step that is done, or will be when the step that w is at is.
NowDone(w, s, u) == Did(w, s, u) \/ At(w, s, u)

LEMMA NowDoneFits ==
    ASSUME Inv, NEW w \in AllWriters, NEW t, NEW x, NowDone(w, t, x)
    PROVE  /\ Busy(w) /\ pin[w] \in Valid /\ pin[w] \in ChainPins /\ w \in writers
           /\ w = "scan" => pos < mined /\ pin[w] = chain[pos + 1]
           /\ \E k : StepFits(pin[w], k, t, x)
<1>1. Busy(w)
  BY DEF NowDone, Did, At, Busy
<1>2. TypeOK /\ CallOK(w)
  BY DEF Inv
<1>3. \E k : StepFits(pin[w], k, t, x)
  BY <1>2, DidFacts, AtFacts DEF NowDone
<1> QED BY <1>1, <1>2, <1>3 DEF CallOK, ChainPins

LEMMA AtUnique ==
    ASSUME NEW w, NEW s, NEW u, NEW t, NEW x, At(w, s, u), At(w, t, x)
    PROVE  t = s /\ x = u
  BY DEF At

\* When a call returns, the steps that matter are done.
LEMMA ReturnsDone ==
    ASSUME Inv, NEW w \in AllWriters, NEW s, NEW u, At(w, s, u), Returns(w, s)
    PROVE  LET p == pin[w]
           IN  /\ Op[p] = "create" => NowDone(w, "saveCreator", By[p]) /\ NowDone(w, "setCreatorRole", By[p])
               /\ Op[p] = "join" => NowDone(w, "saveMember", By[p])
               /\ Op[p] = "leave" => NowDone(w, "removeMember", By[p])
               /\ Op[p] = "chat" => NowDone(w, "autoJoin", By[p])
               /\ \A x \in Users : Op[p] = "admin" /\ Names(p, x) => NowDone(w, "setAdmin", x)
               /\ \A x \in Users : Op[p] = "block" /\ Names(p, x) => NowDone(w, "setBlocked", x)
<1>1. TypeOK /\ CallOK(w)
  BY DEF Inv
<1>2. pin[w] \in Valid
  BY <1>1, AtFacts
<1>3. HasSteps(pin[w])
  BY <1>2, HandlerShape
<1> QED BY <1>3 DEF HasSteps, Returns, NowDone

LEMMA StepRolesDone ==
    ASSUME Inv, NEW w \in AllWriters, NEW s, NEW u, Steps(w, s, u)
    PROVE  RolesDone'
<1> DEFINE RoleSteps == {"setAdmin", "setBlocked", "setCreatorRole"}
<1>0. TypeOK /\ CallOK(w) /\ Move(w, s, u) /\ At(w, s, u) /\ RolesOK /\ RolesDone /\ RoleEffect(w, s, u)
  BY DEF Inv, Steps, Move
<1>1. Others(w) /\ (Continues(w, s, u) \/ Returns(w, s)) /\ u \in Users
  BY <1>0, MoveFacts, AtFacts
<1>2. role \in [Users -> Roles \cup {NoRole}] /\ role' \in [Users -> Roles \cup {NoRole}] /\ NoRole \notin Roles
  BY <1>0, StepType, GroupAssumption DEF TypeOK
<1>3. s \in RoleSteps => role'[u] # NoRole
  <2>1. s \in {"setAdmin", "setBlocked"} => roleOf[w] \in Roles
    BY <1>0, <1>1 DEF TypeOK, RolesOK
  <2>2. \A r \in Roles : [r EXCEPT !.admin = TRUE] \in Roles /\ [r EXCEPT !.blocked = TRUE] \in Roles
    BY DEF Roles
  <2>3. [Role EXCEPT !.creator = TRUE, !.admin = TRUE] \in Roles
    BY DEF Role, Roles
  <2>4. s \in RoleSteps => \E r \in Roles : role' = [role EXCEPT ![u] = r]
    BY <1>0, <2>1, <2>2, <2>3 DEF RoleEffect
  <2> QED BY <1>1, <1>2, <2>4
<1>4. ASSUME NEW x \in Users, role[x] # NoRole PROVE role'[x] # NoRole
  <2>1. x # u \/ s \notin RoleSteps => role'[x] = role[x]
    BY <1>0, <1>1, <1>2 DEF RoleEffect
  <2> QED BY <1>3, <1>4, <2>1
<1>5. ASSUME NEW t \in RoleSteps, NEW x \in Users, NowDone("scan", t, x), w = "scan" PROVE role'[x] # NoRole
  BY <1>0, <1>3, <1>4, <1>5, AtUnique DEF NowDone, RolesDone
<1>6. ASSUME NEW t \in RoleSteps, NEW x \in Users, Did("scan", t, x)' PROVE role'[x] # NoRole
  <2>1. CASE w # "scan"
    <3>1. Did("scan", t, x)
      BY <1>1, <1>6, <2>1 DEF Others, AllWriters
    <3> QED BY <1>0, <1>4, <3>1 DEF RolesDone
  <2>2. CASE w = "scan"
    BY <1>1, <1>5, <1>6, <2>2 DEF Continues, Returns, NowDone
  <2> QED BY <2>1, <2>2
<1>7. ASSUME NEW x \in Users, NEW i \in 1..pos', Touches(chain'[i], x) PROVE role'[x] # NoRole
  <2>1. pos \in Nat /\ chain' = chain /\ pos' \in {pos, pos + 1} /\ (pos' # pos => w = "scan")
    BY <1>0, ChainFacts, MoveFeed
  <2>2. CASE i \in 1..pos
    BY <1>0, <1>4, <1>7, <2>1, <2>2 DEF RolesDone
  <2>3. CASE i \notin 1..pos
    <3>1. i = pos + 1 /\ pos' # pos /\ w = "scan"
      BY <2>1, <2>3
    <3>2. Returns(w, s)
      BY <1>1, <3>1 DEF Continues
    <3>3. pin[w] = chain[i] /\ Op[pin[w]] \in Ops
      BY <1>0, <3>1, AtFacts, PinTypes
    <3>4. \E t \in RoleSteps : NowDone(w, t, x)
      BY <1>0, <1>7, <2>1, <3>2, <3>3, ReturnsDone DEF Touches, Names
    <3> QED BY <1>5, <3>1, <3>4
  <2> QED BY <2>2, <2>3
<1>8. \A x \in Users : (Did("scan", "setAdmin", x) \/ Did("scan", "setBlocked", x) \/ Did("scan", "setCreatorRole", x))'
         => role'[x] # NoRole
  BY <1>6
<1> QED BY <1>7, <1>8 DEF RolesDone, Touches

LEMMA StepMembersDone ==
    ASSUME Inv, NEW w \in AllWriters, NEW s, NEW u, Steps(w, s, u)
    PROVE  MembersDone'
<1> DEFINE EntrySteps == {"saveCreator", "saveMember", "autoJoin"}
<1>0. TypeOK /\ CallOK(w) /\ Move(w, s, u) /\ At(w, s, u) /\ MembersOK /\ MembersDone /\ MemberEffect(w, s, u)
  BY DEF Inv, Steps, Move
<1>1. Others(w) /\ (Continues(w, s, u) \/ Returns(w, s)) /\ u \in Users
  BY <1>0, MoveFacts, AtFacts
<1>2. /\ member \in [Users -> Members \cup {NoMember}] /\ memberOf \in [AllWriters -> Members \cup {NoMember}]
      /\ NoMember \notin Members /\ Member \in Members /\ [Member EXCEPT !.admin = TRUE, !.creator = TRUE] \in Members
  BY <1>0, GroupAssumption DEF TypeOK, Member, Members
<1>3. \A m \in Members : [m EXCEPT !.removed = TRUE] \in Members /\ [m EXCEPT !.admin = TRUE] \in Members
  BY DEF Members
<1>4. \/ member' = member
      \/ /\ s \in EntrySteps \/ (s \in {"removeMember", "makeAdmin"} /\ memberOf[w] # NoMember)
         /\ \E m \in Members : member' = [member EXCEPT ![u] = m]
  BY <1>0, <1>2, <1>3 DEF MemberEffect, SaveMember
<1>5. s \in EntrySteps => member'[u] # NoMember
  <2>1. CASE s \in {"saveCreator", "saveMember"}
    BY <1>0, <1>1, <1>2, <2>1 DEF MemberEffect, SaveMember
  <2>2. CASE s = "autoJoin"
    <3>1. memberOf[w] # NoMember => member[u] # NoMember
      BY <1>0, <1>1, <2>2 DEF MembersOK
    <3>2. member' = [member EXCEPT ![u] = Member] \/ (member' = member /\ memberOf[w] # NoMember)
      BY <1>0, <2>2 DEF MemberEffect, SaveMember
    <3> QED BY <1>1, <1>2, <3>1, <3>2
  <2> QED BY <2>1, <2>2
<1>6. ASSUME NEW x \in Users, member[x] # NoMember PROVE member'[x] # NoMember
  BY <1>1, <1>2, <1>4, <1>6
<1>7. ASSUME NEW x \in Users, member'[x] # NoMember PROVE Entered(x)
  <2>1. CASE member[x] # NoMember
    BY <1>0, <2>1 DEF MembersDone
  <2>2. CASE member[x] = NoMember
    <3>1. x = u /\ (s \in EntrySteps \/ (s \in {"removeMember", "makeAdmin"} /\ memberOf[w] # NoMember))
      BY <1>1, <1>2, <1>4, <1>7, <2>2
    <3>2. s \in EntrySteps
      BY <1>0, <1>1, <2>2, <3>1 DEF MembersOK
    <3>3. pin[w] \in Valid /\ pin[w] \in ChainPins /\ StepFits(pin[w], Progress(w) + 1, s, u)
      BY <1>0, AtFacts
    <3> QED BY <3>1, <3>2, <3>3 DEF StepFits, Entered, Enters
  <2> QED BY <2>1, <2>2
<1>8. ASSUME NEW t \in EntrySteps, NEW x \in Users, NowDone("scan", t, x), w = "scan" PROVE member'[x] # NoMember
  BY <1>0, <1>5, <1>6, <1>8, AtUnique DEF NowDone, MembersDone
<1>9. ASSUME NEW t \in EntrySteps, NEW x \in Users, Did("scan", t, x)' PROVE member'[x] # NoMember
  <2>1. CASE w # "scan"
    <3>1. Did("scan", t, x)
      BY <1>1, <1>9, <2>1 DEF Others, AllWriters
    <3> QED BY <1>0, <1>6, <3>1 DEF MembersDone
  <2>2. CASE w = "scan"
    BY <1>1, <1>8, <1>9, <2>2 DEF Continues, Returns, NowDone
  <2> QED BY <2>1, <2>2
<1>10. pos \in Nat /\ chain' = chain /\ pos' \in {pos, pos + 1} /\ (pos' # pos => w = "scan")
  BY <1>0, ChainFacts, MoveFeed
<1>11. ASSUME NEW x \in Users, NEW i \in 1..pos', Enters(chain'[i], x) PROVE member'[x] # NoMember
  <2>1. CASE i \in 1..pos
    BY <1>0, <1>6, <1>10, <1>11, <2>1 DEF MembersDone
  <2>2. CASE i \notin 1..pos
    <3>1. i = pos + 1 /\ pos' # pos /\ w = "scan"
      BY <1>10, <2>2
    <3>2. Returns(w, s)
      BY <1>1, <3>1 DEF Continues
    <3>3. pin[w] = chain[i]
      BY <1>0, <3>1, AtFacts
    <3>4. \E t \in EntrySteps : NowDone(w, t, x)
      BY <1>0, <1>10, <1>11, <3>2, <3>3, ReturnsDone DEF Enters
    <3> QED BY <1>8, <3>1, <3>4
  <2> QED BY <2>1, <2>2
<1>12. \A x \in Users : (Did("scan", "saveCreator", x) \/ Did("scan", "saveMember", x) \/ Did("scan", "autoJoin", x))'
         => member'[x] # NoMember
  BY <1>9
<1>13. \A x \in Users : Entered(x)' <=> Entered(x)
  BY <1>10, SameChain DEF Entered, Enters
<1> QED BY <1>7, <1>11, <1>12, <1>13 DEF MembersDone, Enters

\* With one goroutine, a step changes the flags of the user it is about, and
\* only as its name says.
LEMMA RoleChange ==
    ASSUME Inv, OneWriter, NEW w \in AllWriters, NEW s, NEW u, Steps(w, s, u)
    PROVE  /\ \A x \in Users : IsAdmin(x) => IsAdmin(x)'
           /\ \A x \in Users : ~(x = u /\ s \in {"setBlocked", "setCreatorRole"}) => (IsBlocked(x)' <=> IsBlocked(x))
           /\ s = "setBlocked" => IsBlocked(u)'
           /\ s \in {"setCreatorRole", "setAdmin"} => IsAdmin(u)'
           /\ s = "setCreatorRole" => ~IsBlocked(u)'
<1>0. TypeOK /\ CallOK(w) /\ Move(w, s, u) /\ At(w, s, u) /\ RolesOK /\ FlagsOK /\ RoleEffect(w, s, u)
  BY DEF Inv, Steps, Move
<1>1. u \in Users
  BY <1>0, AtFacts
<1>2. role \in [Users -> Roles \cup {NoRole}] /\ NoRole \notin Roles
  BY <1>0, GroupAssumption DEF TypeOK
<1>3. s \in {"setAdmin", "setBlocked"} => roleOf[w] = IF role[u] = NoRole THEN Role ELSE role[u]
  BY <1>0, <1>1 DEF FlagsOK, Loaded
<1>4. Role \in Roles /\ ~Role.admin /\ ~Role.blocked
  BY DEF Role, Roles
<1>5. \A x \in Users : x # u => role'[x] = role[x]
  BY <1>0, <1>1, <1>2 DEF RoleEffect
<1>6. CASE s = "setCreatorRole"
  <2>1. role'[u] = [creator |-> TRUE, admin |-> TRUE, blocked |-> FALSE]
    BY <1>0, <1>1, <1>2, <1>6 DEF RoleEffect, Role
  <2>2. role'[u] \in Roles /\ role'[u].admin /\ ~role'[u].blocked
    BY <2>1 DEF Roles
  <2> QED BY <1>2, <1>5, <1>6, <2>2 DEF IsAdmin, IsBlocked
<1>7. CASE s = "setAdmin"
  <2>1. roleOf[w] \in Roles /\ role'[u] = [roleOf[w] EXCEPT !.admin = TRUE]
    BY <1>0, <1>1, <1>2, <1>3, <1>4, <1>7 DEF RoleEffect
  <2>2. role'[u] \in Roles /\ role'[u].admin /\ role'[u].blocked = roleOf[w].blocked
    BY <2>1 DEF Roles
  <2>3. IsBlocked(u)' <=> IsBlocked(u)
    BY <1>2, <1>3, <1>4, <1>7, <2>2 DEF IsBlocked
  <2> QED BY <1>2, <1>5, <1>7, <2>2, <2>3 DEF IsAdmin, IsBlocked
<1>8. CASE s = "setBlocked"
  <2>1. roleOf[w] \in Roles /\ role'[u] = [roleOf[w] EXCEPT !.blocked = TRUE]
    BY <1>0, <1>1, <1>2, <1>3, <1>4, <1>8 DEF RoleEffect
  <2>2. role'[u] \in Roles /\ role'[u].blocked /\ role'[u].admin = roleOf[w].admin
    BY <2>1 DEF Roles
  <2>3. IsAdmin(u) => IsAdmin(u)'
    BY <1>2, <1>3, <1>4, <1>8, <2>2 DEF IsAdmin
  <2> QED BY <1>2, <1>5, <1>8, <2>2, <2>3 DEF IsAdmin, IsBlocked
<1>9. CASE s \notin {"setCreatorRole", "setAdmin", "setBlocked"}
  <2>1. role' = role
    BY <1>0, <1>9 DEF RoleEffect
  <2> QED BY <1>9, <2>1 DEF IsAdmin, IsBlocked
<1> QED BY <1>6, <1>7, <1>8, <1>9
\* What the n-th pin changes of what the chain says.
LEMMA BlockedStep ==
    ASSUME NEW n \in Nat, n >= 1, NEW u
    PROVE  LET p == chain[n]
               blocks == p \in Valid /\ Op[p] = "block" /\ Names(p, u)
               creates == p \in Valid /\ Op[p] = "create" /\ By[p] = u
           IN  /\ blocks => BlockedAt(u, n)
               /\ creates => ~BlockedAt(u, n)
               /\ ~blocks /\ ~creates => (BlockedAt(u, n) <=> BlockedAt(u, n - 1))
<1> DEFINE blocks(i) == chain[i] \in Valid /\ Op[chain[i]] = "block" /\ Names(chain[i], u)
           creates(i) == chain[i] \in Valid /\ Op[chain[i]] = "create" /\ By[chain[i]] = u
<1>1. \A m : BlockedAt(u, m) <=> \E i \in 1..m : blocks(i) /\ \A j \in (i + 1)..m : ~creates(j)
  BY DEF BlockedAt
<1>2. blocks(n) => BlockedAt(u, n)
  BY <1>1
<1>3. creates(n) => ~blocks(n)
  OBVIOUS
<1> HIDE DEF blocks, creates
<1>4. creates(n) => ~BlockedAt(u, n)
  <2> SUFFICES ASSUME creates(n), BlockedAt(u, n) PROVE FALSE
    OBVIOUS
  <2>1. PICK i \in 1..n : blocks(i) /\ \A j \in (i + 1)..n : ~creates(j)
    BY <1>1
  <2>2. i = n \/ n \in (i + 1)..n
    OBVIOUS
  <2> QED BY <1>3, <2>1, <2>2
<1>5. ASSUME ~blocks(n), ~creates(n) PROVE BlockedAt(u, n) <=> BlockedAt(u, n - 1)
  <2>1. ASSUME BlockedAt(u, n) PROVE BlockedAt(u, n - 1)
    <3>1. PICK i \in 1..n : blocks(i) /\ \A j \in (i + 1)..n : ~creates(j)
      BY <1>1, <2>1
    <3>2. i \in 1..(n - 1) /\ \A j \in (i + 1)..(n - 1) : j \in (i + 1)..n
      BY <1>5, <3>1
    <3> QED BY <1>1, <3>1, <3>2
  <2>2. ASSUME BlockedAt(u, n - 1) PROVE BlockedAt(u, n)
    <3>1. PICK i \in 1..(n - 1) : blocks(i) /\ \A j \in (i + 1)..(n - 1) : ~creates(j)
      BY <1>1, <2>2
    <3>2. i \in 1..n /\ \A j \in (i + 1)..n : j \in (i + 1)..(n - 1) \/ j = n
      OBVIOUS
    <3> QED BY <1>1, <1>5, <3>1, <3>2
  <2> QED BY <2>1, <2>2
<1> QED BY <1>2, <1>4, <1>5 DEF blocks, creates

Leaves(p, u) == p \in Valid /\ By[p] = u /\ Op[p] = "leave"

LEMMA InGroupStep ==
    ASSUME NEW n \in Nat, n >= 1, NEW u
    PROVE  /\ Enters(chain[n], u) => InGroup(u, n + 1)
           /\ Leaves(chain[n], u) => ~InGroup(u, n + 1)
           /\ ~Enters(chain[n], u) /\ ~Leaves(chain[n], u) => (InGroup(u, n + 1) <=> InGroup(u, n))
<1> DEFINE e(i) == Enters(chain[i], u)
           l(i) == Leaves(chain[i], u)
<1>1. \A m \in Nat : InGroup(u, m) <=> \E i \in 1..(m - 1) : e(i) /\ \A j \in (i + 1)..(m - 1) : ~l(j)
  BY DEF InGroup, Enters, Leaves
<1>2. e(n) => ~l(n)
  BY DEF Enters, Leaves
<1> HIDE DEF e, l
<1>3. InGroup(u, n + 1) <=> \E i \in 1..n : e(i) /\ \A j \in (i + 1)..n : ~l(j)
  <2>1. n + 1 \in Nat /\ n + 1 - 1 = n
    OBVIOUS
  <2> QED BY <1>1, <2>1
<1>4. e(n) => InGroup(u, n + 1)
  BY <1>3
<1>5. l(n) => ~InGroup(u, n + 1)
  <2> SUFFICES ASSUME l(n), InGroup(u, n + 1) PROVE FALSE
    OBVIOUS
  <2>1. PICK i \in 1..n : e(i) /\ \A j \in (i + 1)..n : ~l(j)
    BY <1>3
  <2>2. i = n \/ n \in (i + 1)..n
    OBVIOUS
  <2> QED BY <1>2, <2>1, <2>2
<1>6. ASSUME ~e(n), ~l(n) PROVE InGroup(u, n + 1) <=> InGroup(u, n)
  <2>1. ASSUME InGroup(u, n + 1) PROVE InGroup(u, n)
    <3>1. PICK i \in 1..n : e(i) /\ \A j \in (i + 1)..n : ~l(j)
      BY <1>3, <2>1
    <3>2. i \in 1..(n - 1) /\ \A j \in (i + 1)..(n - 1) : j \in (i + 1)..n
      BY <1>6, <3>1
    <3> QED BY <1>1, <3>1, <3>2
  <2>2. ASSUME InGroup(u, n) PROVE InGroup(u, n + 1)
    <3>1. PICK i \in 1..(n - 1) : e(i) /\ \A j \in (i + 1)..(n - 1) : ~l(j)
      BY <1>1, <2>2
    <3>2. i \in 1..n /\ \A j \in (i + 1)..n : j \in (i + 1)..(n - 1) \/ j = n
      OBVIOUS
    <3> QED BY <1>3, <1>6, <3>1, <3>2
  <2> QED BY <2>1, <2>2
<1> QED BY <1>4, <1>5, <1>6 DEF e, l

LEMMA StepFlags ==
    ASSUME Inv, NEW w \in AllWriters, NEW s, NEW u, Steps(w, s, u)
    PROVE  FlagsOK'
<1>0. /\ TypeOK /\ CallOK(w) /\ Move(w, s, u) /\ At(w, s, u) /\ FlagsOK
      /\ RoleEffect(w, s, u) /\ MemberEffect(w, s, u)
  BY DEF Inv, Steps, Move
<1>1. /\ Others(w) /\ (Continues(w, s, u) \/ Returns(w, s)) /\ u \in Users
      /\ w \in writers /\ pin[w] \in Valid /\ pin[w] \in ChainPins /\ StepFits(pin[w], Progress(w) + 1, s, u)
      /\ w = "scan" => pos < mined /\ pin[w] = chain[pos + 1]
  BY <1>0, MoveFacts, AtFacts
<1>2. /\ chain' = chain /\ writers' = writers /\ mined' = mined
      /\ pos' \in {pos, pos + 1} /\ (pos' # pos => w = "scan" /\ pos < mined)
      /\ pos \in Nat /\ mined \in Nat /\ pos \in 0..mined
  BY <1>0, MoveFeed, ChainFacts
<1> SUFFICES ASSUME OneWriter
             PROVE  /\ \A v \in AllWriters : Loaded(v)'
                    /\ \A v \in AllWriters, x \in Users :
                          /\ Did(v, "setAdmin", x)' \/ Did(v, "setCreatorRole", x)' => IsAdmin(x)'
                          /\ Did(v, "setBlocked", x)' => IsBlocked(x)'
                          /\ Did(v, "setCreatorRole", x)' => ~IsBlocked(x)'
                    /\ \A x \in Users, i \in 1..pos' :
                          Touches(chain[i], x) /\ Op[chain[i]] # "block" => IsAdmin(x)'
                    /\ \A x \in Users, p \in Pins : <<x, p>> \in Sent' =>
                          /\ Op[p] = "admin" => IsAdmin(x)'
                          /\ Op[p] = "block" /\ NeverCreates(x) => IsBlocked(x)'
                    /\ ScanOnly => \A x \in Users : \E n \in pos'..mined : IsBlocked(x)' <=> BlockedAt(x, n)
  BY <1>2, SameChain DEF FlagsOK, OneWriter, ScanOnly, Touches
<1>3. \A v \in AllWriters : v # w => \A t, x : ~Did(v, t, x) /\ ~At(v, t, x)
  <2> SUFFICES ASSUME NEW v \in AllWriters, v # w PROVE ~Busy(v)
    BY DEF Did, At, Busy
  <2>1. v \notin writers
    BY <1>1 DEF OneWriter
  <2> QED BY <2>1 DEF Inv, CallOK
<1>4. /\ \A x \in Users : IsAdmin(x) => IsAdmin(x)'
      /\ \A x \in Users : ~(x = u /\ s \in {"setBlocked", "setCreatorRole"}) => (IsBlocked(x)' <=> IsBlocked(x))
      /\ s = "setBlocked" => IsBlocked(u)'
      /\ s \in {"setCreatorRole", "setAdmin"} => IsAdmin(u)'
      /\ s = "setCreatorRole" => ~IsBlocked(u)'
  BY RoleChange
<1>5. ASSUME NEW x \in Users
      PROVE  /\ NowDone(w, "setAdmin", x) \/ NowDone(w, "setCreatorRole", x) => IsAdmin(x)'
             /\ NowDone(w, "setBlocked", x) => IsBlocked(x)'
             /\ NowDone(w, "setCreatorRole", x) => ~IsBlocked(x)'
  <2>1. NowDone(w, "setAdmin", x) \/ NowDone(w, "setCreatorRole", x) => IsAdmin(x)'
    BY <1>0, <1>4, AtUnique DEF NowDone, FlagsOK
  <2>2. ASSUME NowDone(w, "setBlocked", x) PROVE IsBlocked(x)'
    <3>1. s # "setCreatorRole"
      BY <1>1, <2>2, NowDoneFits DEF StepFits
    <3>2. CASE At(w, "setBlocked", x)
      BY <1>0, <1>4, <3>2, AtUnique
    <3>3. CASE Did(w, "setBlocked", x)
      BY <1>0, <1>4, <3>1, <3>3 DEF FlagsOK
    <3> QED BY <2>2, <3>2, <3>3 DEF NowDone
  <2>3. ASSUME NowDone(w, "setCreatorRole", x) PROVE ~IsBlocked(x)'
    <3>1. s # "setBlocked"
      BY <1>1, <2>3, NowDoneFits DEF StepFits
    <3>2. CASE At(w, "setCreatorRole", x)
      BY <1>0, <1>4, <3>2, AtUnique
    <3>3. CASE Did(w, "setCreatorRole", x)
      BY <1>0, <1>4, <3>1, <3>3 DEF FlagsOK
    <3> QED BY <2>3, <3>2, <3>3 DEF NowDone
  <2> QED BY <2>1, <2>2, <2>3
<1>6. ASSUME NEW v \in AllWriters, NEW t, NEW x, Did(v, t, x)' PROVE v = w /\ NowDone(w, t, x)
  BY <1>1, <1>3, <1>6 DEF Others, Continues, Returns, NowDone
<1>7. ASSUME NEW v \in AllWriters PROVE Loaded(v)'
  <2>1. CASE v # w
    <3>1. \A t, x : ~At(v, t, x)'
      BY <1>1, <1>3, <2>1 DEF Others
    <3> QED BY <3>1 DEF Loaded
  <2>2. CASE v = w
    <3>1. ASSUME NEW x \in Users, (At(w, "setAdmin", x) \/ At(w, "setBlocked", x))'
          PROVE  roleOf'[w] = IF role'[x] = NoRole THEN Role ELSE role'[x]
      <4>1. s = "loadRole" /\ u = x
        BY <1>1, <3>1 DEF Continues, Returns
      <4> QED BY <1>0, <4>1 DEF RoleEffect, TypeOK
    <3>2. ASSUME NEW x \in Users, (At(w, "makeAdmin", x) \/ At(w, "removeMember", x) \/ At(w, "autoJoin", x))'
          PROVE  memberOf'[w] = member'[x]
      <4>1. s = "loadMember" /\ u = x
        BY <1>1, <3>2 DEF Continues, Returns
      <4> QED BY <1>0, <4>1 DEF MemberEffect, TypeOK
    <3> QED BY <2>2, <3>1, <3>2 DEF Loaded
  <2> QED BY <2>1, <2>2
<1>8. ASSUME NEW x \in Users, NEW i \in 1..pos', Touches(chain[i], x), Op[chain[i]] # "block" PROVE IsAdmin(x)'
  <2>1. CASE i \in 1..pos
    BY <1>0, <1>4, <1>8, <2>1 DEF FlagsOK
  <2>2. CASE i \notin 1..pos
    <3>1. i = pos + 1 /\ pos' # pos /\ w = "scan" /\ chain[i] = pin[w]
      BY <1>1, <1>2, <2>2
    <3>2. Returns(w, s)
      BY <1>1, <3>1 DEF Continues
    <3>3. NowDone(w, "setAdmin", x) \/ NowDone(w, "setCreatorRole", x)
      BY <1>0, <1>8, <3>1, <3>2, ReturnsDone DEF Touches, Names
    <3> QED BY <1>5, <3>3
  <2> QED BY <2>1, <2>2
<1>9. ASSUME NEW x \in Users, NEW p \in Pins, <<x, p>> \in Sent'
      PROVE  /\ Op[p] = "admin" => IsAdmin(x)'
             /\ Op[p] = "block" /\ NeverCreates(x) => IsBlocked(x)'
  <2>1. ASSUME <<x, p>> \in Sent
        PROVE  /\ Op[p] = "admin" => IsAdmin(x)'
               /\ Op[p] = "block" /\ NeverCreates(x) => IsBlocked(x)'
    <3>1. s = "setCreatorRole" /\ x = u => ~NeverCreates(x)
      BY <1>0, RoleStep
    <3> QED BY <1>0, <1>4, <2>1, <3>1 DEF FlagsOK
  <2>2. ASSUME NEW o \in {"admin", "block"}, Op[p] = o, <<x, p>> \notin Sent
        PROVE  NowDone(w, IF o = "admin" THEN "setAdmin" ELSE "setBlocked", x)
    <3>1. Returns(w, s) /\ x \in Targets(w, s) /\ Op[pin[w]] = o
      BY <1>1, <1>9, <2>2 DEF Continues, Returns
    <3>2. x \in event[w]
      BY <1>1, <3>1 DEF Targets, StepFits
    <3>3. event[w] = EventOf(pin[w]) /\ Handler(pin[w]) # << >>
      <4>1. Busy(w)
        BY <1>0 DEF At, Busy
      <4>2. Progress(w) \in Nat /\ Progress(w) + 1 <= Len(Handler(pin[w]))
        BY <1>0, AtFacts
      <4> QED BY <1>0, <4>1, <4>2 DEF CallOK
    <3>4. Names(pin[w], x)
      BY <1>1, <3>1, <3>2, <3>3, EventNames
    <3> QED BY <1>0, <3>1, <3>4, ReturnsDone
  <2> QED BY <1>5, <2>1, <2>2
<1>10. ASSUME ScanOnly, NEW x \in Users PROVE \E n \in pos'..mined : IsBlocked(x)' <=> BlockedAt(x, n)
  <2> DEFINE q == chain[pos + 1]
             blocks == q \in Valid /\ Op[q] = "block" /\ Names(q, x)
             creates == q \in Valid /\ Op[q] = "create" /\ By[q] = x
  <2>0. w = "scan" /\ pin[w] = q /\ pos + 1 \in Nat /\ pos + 1 >= 1 /\ pos + 1 - 1 = pos /\ pos + 1 \in pos'..mined
    BY <1>1, <1>2, <1>10 DEF ScanOnly
  <2>1. /\ blocks => BlockedAt(x, pos + 1)
        /\ creates => ~BlockedAt(x, pos + 1)
        /\ ~blocks /\ ~creates => (BlockedAt(x, pos + 1) <=> BlockedAt(x, pos))
    <3>1. \A n \in Nat : n = pos + 1 => n - 1 = pos
      BY <1>2
    <3> QED BY <2>0, <3>1, BlockedStep
  <2>2. CASE NowDone(w, "setBlocked", x)
    <3>1. blocks
      BY <2>0, <2>2, NowDoneFits DEF StepFits
    <3> QED BY <1>5, <2>0, <2>1, <2>2, <3>1
  <2>3. CASE NowDone(w, "setCreatorRole", x)
    <3>1. creates
      BY <2>0, <2>3, NowDoneFits DEF StepFits
    <3> QED BY <1>5, <2>0, <2>1, <2>3, <3>1
  <2>4. CASE ~NowDone(w, "setBlocked", x) /\ ~NowDone(w, "setCreatorRole", x)
    <3>1. IsBlocked(x)' <=> IsBlocked(x)
      BY <1>0, <1>4, <2>4 DEF NowDone
    <3>2. PICK n \in pos..mined : IsBlocked(x) <=> BlockedAt(x, n)
      BY <1>0, <1>10 DEF FlagsOK
    <3>3. CASE n \in pos'..mined
      BY <3>1, <3>2, <3>3
    <3>4. CASE n \notin pos'..mined
      <4>1. n = pos /\ pos' # pos
        BY <1>2, <3>4
      <4>2. Returns(w, s)
        BY <1>1, <4>1 DEF Continues
      <4>3. ~blocks /\ ~creates
        BY <1>0, <2>0, <2>4, <4>2, ReturnsDone
      <4> QED BY <2>0, <2>1, <3>1, <3>2, <4>1, <4>3
    <3> QED BY <3>3, <3>4
  <2> QED BY <2>2, <2>3, <2>4
<1> QED BY <1>5, <1>6, <1>7, <1>8, <1>9, <1>10
WriteSteps == {"saveCreator", "saveMember", "removeMember", "autoJoin"}

\* What a step does to who is in the group.
LEMMA MemberChange ==
    ASSUME Inv, NEW w \in AllWriters, NEW s, NEW u, Steps(w, s, u)
    PROVE  /\ \A x \in Users : x # u => member'[x] = member[x]
           /\ s \notin WriteSteps \cup {"makeAdmin"} => member' = member
           /\ s \in {"saveCreator", "saveMember"} => IsUserInGroup(u)'
           /\ s = "removeMember" => (memberOf[w] = NoMember /\ member' = member) \/ ~IsUserInGroup(u)'
           /\ s = "autoJoin" =>
                 (memberOf[w] # NoMember /\ ~memberOf[w].removed /\ member' = member) \/ IsUserInGroup(u)'
           /\ s = "makeAdmin" =>
                 \/ memberOf[w] = NoMember /\ member' = member
                 \/ memberOf[w] # NoMember /\ (IsUserInGroup(u)' <=> ~memberOf[w].removed)
<1>0. TypeOK /\ CallOK(w) /\ At(w, s, u) /\ MemberEffect(w, s, u)
  BY DEF Inv, Steps, Move
<1>1. u \in Users
  BY <1>0, AtFacts
<1>2. /\ member \in [Users -> Members \cup {NoMember}] /\ memberOf \in [AllWriters -> Members \cup {NoMember}]
      /\ Member \in Members /\ ~Member.removed /\ NoMember \notin Members
  BY <1>0, GroupAssumption DEF TypeOK, Member, Members
<1>3. memberOf[w] # NoMember => memberOf[w] \in Members
  BY <1>2
<1>4. \A x \in Users : x # u => member'[x] = member[x]
  BY <1>0, <1>1, <1>2 DEF MemberEffect, SaveMember
<1>5. s \notin WriteSteps \cup {"makeAdmin"} => member' = member
  BY <1>0 DEF MemberEffect, WriteSteps
<1>6. member' = [member EXCEPT ![u] = Member] => IsUserInGroup(u)'
  BY <1>1, <1>2 DEF IsUserInGroup
<1>7. s = "saveCreator" => IsUserInGroup(u)'
  <2>1. s = "saveCreator" => member'[u] = [removed |-> FALSE, admin |-> TRUE, creator |-> TRUE]
    BY <1>0, <1>1, <1>2 DEF MemberEffect, SaveMember, Member
  <2>2. [removed |-> FALSE, admin |-> TRUE, creator |-> TRUE] \in Members
    BY DEF Members
  <2> QED BY <1>2, <2>1, <2>2 DEF IsUserInGroup
<1>8. s = "saveMember" => IsUserInGroup(u)'
  BY <1>0, <1>6 DEF MemberEffect, SaveMember
<1>9. s = "removeMember" => (memberOf[w] = NoMember /\ member' = member) \/ ~IsUserInGroup(u)'
  <2> SUFFICES ASSUME s = "removeMember", memberOf[w] # NoMember PROVE ~IsUserInGroup(u)'
    BY <1>0 DEF MemberEffect
  <2>1. member' = [member EXCEPT ![u] = [memberOf[w] EXCEPT !.removed = TRUE]]
    BY <1>0 DEF MemberEffect, SaveMember
  <2>2. member'[u].removed = TRUE
    BY <1>1, <1>2, <1>3, <2>1 DEF Members
  <2> QED BY <2>2 DEF IsUserInGroup
<1>10. s = "autoJoin" =>
         (memberOf[w] # NoMember /\ ~memberOf[w].removed /\ member' = member) \/ IsUserInGroup(u)'
  BY <1>0, <1>6 DEF MemberEffect, SaveMember
<1>11. ASSUME s = "makeAdmin", memberOf[w] # NoMember PROVE IsUserInGroup(u)' <=> ~memberOf[w].removed
  <2>1. member' = [member EXCEPT ![u] = [memberOf[w] EXCEPT !.admin = TRUE]]
    BY <1>0, <1>11 DEF MemberEffect, SaveMember
  <2>2. member'[u] \in Members /\ member'[u].removed = memberOf[w].removed
    BY <1>1, <1>2, <1>3, <1>11, <2>1 DEF Members
  <2> QED BY <1>2, <2>2 DEF IsUserInGroup
<1>12. s = "makeAdmin" /\ memberOf[w] = NoMember => member' = member
  BY <1>0 DEF MemberEffect
<1> QED BY <1>4, <1>5, <1>7, <1>8, <1>9, <1>10, <1>11, <1>12

\* After the step, who is in the group is as the chain has it after position n or later.
InGroupFromNext(u, n) == \E h \in n..Len(chain) : IsUserInGroup(u)' <=> InGroup(u, h + 1)

LEMMA MemberWrite ==
    ASSUME Inv, NEW w \in AllWriters, NEW s, NEW u, Steps(w, s, u), Undisturbed(u)
    PROVE  /\ w = "scan" /\ s \in WriteSteps => InGroupFromNext(u, pos + 1)
           /\ w # "scan" => member'[u] = member[u] \/ InGroupFromNext(u, pos + 1)
           /\ s \notin WriteSteps => (IsUserInGroup(u)' <=> IsUserInGroup(u))
<1>0. /\ TypeOK /\ CallOK(w) /\ At(w, s, u) /\ FlagsOK /\ FeedOK /\ MembershipOK
  BY DEF Inv, Steps, Move
<1>1. /\ u \in Users /\ w \in writers /\ w \in {"scan", "mempool"} /\ pin[w] \in Valid /\ pin[w] \in ChainPins
      /\ StepFits(pin[w], Progress(w) + 1, s, u)
      /\ w = "scan" => pos < mined /\ pin[w] = chain[pos + 1]
  BY <1>0, AtFacts
<1>2. pos \in Nat /\ mined \in Nat /\ Len(chain) \in Nat /\ pos <= mined /\ mined <= Len(chain)
  BY <1>0, ChainFacts
<1>3. /\ s \notin WriteSteps \cup {"makeAdmin"} => member' = member
      /\ s \in {"saveCreator", "saveMember"} => IsUserInGroup(u)'
      /\ s = "removeMember" => (memberOf[w] = NoMember /\ member' = member) \/ ~IsUserInGroup(u)'
      /\ s = "autoJoin" =>
            (memberOf[w] # NoMember /\ ~memberOf[w].removed /\ member' = member) \/ IsUserInGroup(u)'
      /\ s = "makeAdmin" =>
            \/ memberOf[w] = NoMember /\ member' = member
            \/ memberOf[w] # NoMember /\ (IsUserInGroup(u)' <=> ~memberOf[w].removed)
  BY MemberChange
\* the pin stands at pos + 1 or later
<1>4. PICK i \in (pos + 1)..Len(chain) : chain[i] = pin[w]
  <2>1. CASE w = "scan"
    <3>1. pos + 1 \in (pos + 1)..Len(chain)
      BY <1>1, <1>2, <2>1
    <3> QED BY <1>1, <2>1, <3>1
  <2>2. CASE w = "mempool"
    <3>1. ~late
      BY <1>1, <2>2 DEF Undisturbed, ScanOnly
    <3>2. Ahead(pin["mempool"])
      BY <1>0, <2>2, <3>1 DEF FeedOK, At, Busy
    <3>3. PICK j \in (mined + 1)..Len(chain) : chain[j] = pin[w]
      BY <2>2, <3>2 DEF Ahead
    <3>4. j \in (pos + 1)..Len(chain)
      BY <1>2
    <3> QED BY <3>3, <3>4
  <2> QED BY <1>1, <2>1, <2>2
<1>5. i \in Nat /\ i >= 1
  BY <1>2
<1>6. ASSUME IsUserInGroup(u)', s \in {"saveCreator", "saveMember", "autoJoin"} PROVE InGroupFromNext(u, pos + 1)
  <2>1. Enters(chain[i], u)
    BY <1>1, <1>4, <1>6 DEF StepFits, Enters
  <2>2. InGroup(u, i + 1)
    BY <1>5, <2>1, InGroupStep
  <2> QED BY <1>6, <2>2 DEF InGroupFromNext
<1>7. ASSUME ~IsUserInGroup(u)', s = "removeMember" PROVE InGroupFromNext(u, pos + 1)
  <2>1. Leaves(chain[i], u)
    BY <1>1, <1>4, <1>7 DEF StepFits, Leaves
  <2>2. ~InGroup(u, i + 1)
    BY <1>5, <2>1, InGroupStep
  <2> QED BY <1>7, <2>2 DEF InGroupFromNext
<1>8. ASSUME w = "scan", s \in {"removeMember", "autoJoin"}, member' = member,
             s = "removeMember" => memberOf[w] = NoMember,
             s = "autoJoin" => memberOf[w] # NoMember /\ ~memberOf[w].removed
      PROVE  InGroupFromNext(u, pos + 1)
  <2>1. memberOf[w] = member[u] \/ InGroupFrom(u, pos + 1)
    BY <1>0, <1>1, <1>8 DEF MembershipOK
  <2>2. CASE memberOf[w] = member[u]
    BY <1>6, <1>7, <1>8, <2>2 DEF IsUserInGroup
  <2>3. CASE InGroupFrom(u, pos + 1)
    BY <1>8, <2>3 DEF InGroupFrom, InGroupFromNext, IsUserInGroup
  <2> QED BY <2>1, <2>2, <2>3
<1>9. w = "scan" /\ s \in WriteSteps => InGroupFromNext(u, pos + 1)
  BY <1>3, <1>6, <1>7, <1>8 DEF WriteSteps
\* an admin pin is not disturbing only where the scan is alone
<1>10. s = "makeAdmin" => w = "scan" /\ memberOf[w] = member[u]
  <2> SUFFICES ASSUME s = "makeAdmin" PROVE w = "scan" /\ memberOf[w] = member[u]
    OBVIOUS
  <2>1. ScanOnly
    BY <1>1 DEF Undisturbed, StepFits
  <2>2. w = "scan" /\ OneWriter
    BY <1>1, <2>1 DEF ScanOnly, OneWriter
  <2> QED BY <1>0, <1>1, <2>2 DEF FlagsOK, Loaded
<1>11. w # "scan" => member'[u] = member[u] \/ InGroupFromNext(u, pos + 1)
  BY <1>3, <1>6, <1>7, <1>10 DEF WriteSteps
<1>12. s \notin WriteSteps => (IsUserInGroup(u)' <=> IsUserInGroup(u))
  <2>1. CASE s = "makeAdmin"
    BY <1>3, <1>10, <2>1 DEF IsUserInGroup
  <2>2. CASE s \notin WriteSteps \cup {"makeAdmin"}
    BY <1>3, <2>2 DEF IsUserInGroup
  <2> QED BY <2>1, <2>2
<1> QED BY <1>9, <1>11, <1>12

LEMMA StepMembership ==
    ASSUME Inv, NEW w \in AllWriters, NEW s, NEW u, Steps(w, s, u)
    PROVE  MembershipOK'
<1>0. /\ TypeOK /\ CallOK(w) /\ At(w, s, u) /\ Move(w, s, u) /\ MembershipOK /\ MemberEffect(w, s, u)
  BY DEF Inv, Steps, Move
<1>1. /\ u \in Users /\ Others(w) /\ (Continues(w, s, u) \/ Returns(w, s))
      /\ w = "scan" => pos < mined /\ pin[w] = chain[pos + 1]
  BY <1>0, AtFacts, MoveFacts
<1>2. /\ chain' = chain /\ writers' = writers /\ late' = late
      /\ pos' \in {pos, pos + 1} /\ (pos' # pos => w = "scan")
      /\ pos \in Nat /\ Len(chain) \in Nat /\ mined \in Nat /\ pos <= mined /\ mined <= Len(chain)
  BY <1>0, MoveFeed, ChainFacts
<1>3. memberOf \in [AllWriters -> Members \cup {NoMember}] /\ \A v \in AllWriters : v # w => memberOf'[v] = memberOf[v]
  BY <1>0 DEF TypeOK, MemberEffect
<1> SUFFICES ASSUME NEW x \in Users, Undisturbed(x)
             PROVE  /\ InGroupFromNext(x, pos')
                    /\ Wrote("scan", x)' => InGroupFromNext(x, pos' + 1)
                    /\ At("scan", "removeMember", x)' \/ At("scan", "autoJoin", x)' =>
                          memberOf'["scan"] = member'[x] \/ InGroupFromNext(x, pos' + 1)
  <2>1. \A y \in Users : Undisturbed(y)' <=> Undisturbed(y)
    BY <1>2, SameChain DEF Undisturbed, ScanOnly
  <2>2. /\ \A y \in Users : InGroupFrom(y, pos)' <=> InGroupFromNext(y, pos')
        /\ \A y \in Users : InGroupFrom(y, pos + 1)' <=> InGroupFromNext(y, pos' + 1)
    BY <1>2, SameChain DEF InGroupFrom, InGroupFromNext
  <2> QED BY <2>1, <2>2 DEF MembershipOK
<1>4. x # u => member'[x] = member[x]
  BY MemberChange
<1>5. \/ InGroupFromNext(x, pos + 1)
      \/ (IsUserInGroup(x)' <=> IsUserInGroup(x)) /\ (w # "scan" => member'[x] = member[x])
  <2>1. CASE x # u
    BY <1>4, <2>1 DEF IsUserInGroup
  <2>2. CASE x = u
    <3>1. CASE w = "scan"
      BY <2>2, <3>1, MemberWrite
    <3>2. CASE w # "scan"
      BY <2>2, <3>2, MemberWrite DEF IsUserInGroup
    <3> QED BY <3>1, <3>2
  <2> QED BY <2>1, <2>2
<1>6. \A n : n \in {pos, pos + 1} /\ InGroupFrom(x, n) => InGroupFromNext(x, n)
  <2>1. \A h \in (pos + 1)..Len(chain) : h \in pos..Len(chain)
    BY <1>2
  <2> QED BY <1>5, <2>1 DEF InGroupFrom, InGroupFromNext
<1>7. ASSUME w = "scan", NEW t \in WriteSteps, NowDone(w, t, x) PROVE InGroupFromNext(x, pos + 1)
  <2>1. CASE Did(w, t, x)
    BY <1>0, <1>6, <1>7, <2>1 DEF MembershipOK, Wrote, WriteSteps
  <2>2. CASE At(w, t, x)
    BY <1>0, <1>7, <2>2, AtUnique, MemberWrite
  <2> QED BY <1>7, <2>1, <2>2 DEF NowDone
<1>8. ASSUME Wrote("scan", x)' PROVE InGroupFromNext(x, pos' + 1)
  <2>1. PICK t \in WriteSteps : Did("scan", t, x)'
    BY <1>8 DEF Wrote, WriteSteps
  <2>2. pos' = pos
    BY <1>1, <1>2, <2>1 DEF Continues, Returns
  <2>3. CASE w # "scan"
    <3>1. Did("scan", t, x)
      BY <1>1, <2>1, <2>3 DEF Others, AllWriters
    <3>2. InGroupFrom(x, pos + 1)
      BY <1>0, <3>1 DEF MembershipOK, Wrote, WriteSteps
    <3> QED BY <1>6, <2>2, <3>2
  <2>4. CASE w = "scan"
    BY <1>1, <1>7, <2>1, <2>2, <2>4 DEF Continues, Returns, NowDone
  <2> QED BY <2>3, <2>4
<1>9. ASSUME At("scan", "removeMember", x)' \/ At("scan", "autoJoin", x)'
      PROVE  memberOf'["scan"] = member'[x] \/ InGroupFromNext(x, pos' + 1)
  <2>1. CASE w # "scan"
    <3>1. At("scan", "removeMember", x) \/ At("scan", "autoJoin", x)
      BY <1>1, <1>9, <2>1 DEF Others, AllWriters
    <3>2. memberOf["scan"] = member[x] \/ InGroupFrom(x, pos + 1)
      BY <1>0, <3>1 DEF MembershipOK
    <3>3. memberOf'["scan"] = memberOf["scan"] /\ pos' = pos
      BY <1>2, <1>3, <2>1 DEF AllWriters
    <3> QED BY <1>5, <1>6, <2>1, <3>2, <3>3
  <2>2. CASE w = "scan"
    <3>1. s = "loadMember" /\ u = x
      BY <1>1, <1>9, <2>2 DEF Continues, Returns
    <3> QED BY <1>0, <1>3, <2>2, <3>1 DEF MemberEffect
  <2> QED BY <2>1, <2>2
<1>10. InGroupFromNext(x, pos')
  <2>1. InGroupFrom(x, pos)
    BY <1>0 DEF MembershipOK
  <2>2. CASE pos' = pos
    BY <1>6, <2>1, <2>2
  <2>3. CASE pos' # pos
    <3>1. w = "scan" /\ pos' = pos + 1 /\ Returns(w, s) /\ pin[w] = chain[pos + 1] /\ pos + 1 \in (pos + 1)..Len(chain)
      BY <1>1, <1>2, <2>3 DEF Continues
    <3>2. CASE Enters(chain[pos + 1], x) \/ Leaves(chain[pos + 1], x)
      <4>1. \E t \in WriteSteps : NowDone(w, t, x)
        BY <1>0, <3>1, <3>2, ReturnsDone DEF Enters, Leaves, WriteSteps
      <4> QED BY <1>7, <3>1, <4>1
    <3>3. CASE ~Enters(chain[pos + 1], x) /\ ~Leaves(chain[pos + 1], x)
      <4>1. InGroup(x, pos + 1 + 1) <=> InGroup(x, pos + 1)
        BY <1>2, <3>3, InGroupStep
      <4>2. PICK h \in pos..Len(chain) : IsUserInGroup(x) <=> InGroup(x, h + 1)
        BY <2>1 DEF InGroupFrom
      <4>3. CASE h = pos
        BY <1>5, <3>1, <4>1, <4>2, <4>3 DEF InGroupFromNext
      <4>4. CASE h # pos
        <5>1. h \in (pos + 1)..Len(chain)
          BY <1>2, <4>4
        <5> QED BY <1>5, <3>1, <4>2, <5>1 DEF InGroupFromNext
      <4> QED BY <4>3, <4>4
    <3> QED BY <3>2, <3>3
  <2> QED BY <2>2, <2>3
<1> QED BY <1>8, <1>9, <1>10
EnterSteps == {"saveCreator", "saveMember", "autoJoin"}

\* For a user who does not leave, or with the scan alone, nobody drops out of
\* the group but by the scan of a leave pin.
LEMMA StaysMember ==
    ASSUME Inv, NEW w \in AllWriters, NEW s, NEW u, Steps(w, s, u),
           NEW x \in Users, ScanOnly \/ NeverLeaves(x)
    PROVE  /\ \/ IsUserInGroup(x) => IsUserInGroup(x)'
              \/ w = "scan" /\ x = u /\ s = "removeMember" /\ ~IsUserInGroup(x)'
           /\ s \in EnterSteps /\ x = u => IsUserInGroup(x)'
<1>0. TypeOK /\ CallOK(w) /\ At(w, s, u) /\ FlagsOK /\ MembersOK
  BY DEF Inv, Steps, Move
<1>1. u \in Users /\ w \in writers
  BY <1>0, AtFacts
<1>2. /\ \A y \in Users : y # u => member'[y] = member[y]
      /\ s \notin WriteSteps \cup {"makeAdmin"} => member' = member
      /\ s \in {"saveCreator", "saveMember"} => IsUserInGroup(u)'
      /\ s = "removeMember" => (memberOf[w] = NoMember /\ member' = member) \/ ~IsUserInGroup(u)'
      /\ s = "autoJoin" =>
            (memberOf[w] # NoMember /\ ~memberOf[w].removed /\ member' = member) \/ IsUserInGroup(u)'
      /\ s = "makeAdmin" =>
            \/ memberOf[w] = NoMember /\ member' = member
            \/ memberOf[w] # NoMember /\ (IsUserInGroup(u)' <=> ~memberOf[w].removed)
  BY MemberChange
<1>3. CASE x # u
  BY <1>2, <1>3 DEF IsUserInGroup
<1>4. CASE x = u
  <2>1. ASSUME ScanOnly, s \in {"makeAdmin", "autoJoin", "removeMember"} PROVE memberOf[w] = member[u] /\ w = "scan"
    <3>1. OneWriter /\ w = "scan"
      BY <1>1, <2>1 DEF ScanOnly, OneWriter
    <3> QED BY <1>0, <1>1, <2>1, <3>1 DEF FlagsOK, Loaded
  <2>2. ASSUME NeverLeaves(u), s \in {"makeAdmin", "autoJoin"}, memberOf[w] # NoMember
        PROVE  ~memberOf[w].removed /\ IsUserInGroup(u)
    BY <1>0, <1>1, <2>2 DEF MembersOK, MemberHasPin, IsUserInGroup
  <2>3. CASE s = "autoJoin"
    <3>1. memberOf[w] # NoMember /\ ~memberOf[w].removed => IsUserInGroup(u)
      BY <1>4, <2>1, <2>2, <2>3 DEF IsUserInGroup
    <3>2. IsUserInGroup(u)'
      BY <1>2, <2>3, <3>1 DEF IsUserInGroup
    <3> QED BY <1>4, <2>3, <3>2
  <2>4. CASE s = "makeAdmin"
    <3>1. IsUserInGroup(u) => IsUserInGroup(u)'
      BY <1>2, <1>4, <2>1, <2>2, <2>4 DEF IsUserInGroup
    <3> QED BY <1>4, <2>4, <3>1 DEF EnterSteps
  <2>5. CASE s = "removeMember"
    <3>1. ~NeverLeaves(u)
      BY <1>0, <2>5, RoleStep
    <3>2. w = "scan"
      BY <1>4, <2>1, <2>5, <3>1
    <3> QED BY <1>2, <1>4, <2>5, <3>2 DEF IsUserInGroup, EnterSteps
  <2>6. CASE s \in {"saveCreator", "saveMember"}
    BY <1>2, <1>4, <2>6
  <2>7. CASE s \notin WriteSteps \cup {"makeAdmin"}
    BY <1>2, <1>4, <2>7 DEF IsUserInGroup, WriteSteps, EnterSteps
  <2> QED BY <2>3, <2>4, <2>5, <2>6, <2>7 DEF WriteSteps
<1> QED BY <1>3, <1>4

ToldNext(u, n) ==
    \A i \in 1..n : chain[i] \in Valid /\ Op[chain[i]] = "chat" /\ (u = By[chain[i]] \/ InGroup(u, i)) =>
        <<u, chain[i]>> \in Sent'

LEMMA StepMessages ==
    ASSUME Inv, NEW w \in AllWriters, NEW s, NEW u, Steps(w, s, u)
    PROVE  MessagesOK'
<1>0. /\ TypeOK /\ CallOK(w) /\ At(w, s, u) /\ Move(w, s, u) /\ MessagesOK
  BY DEF Inv, Steps, Move
<1>1. /\ u \in Users /\ Others(w) /\ (Continues(w, s, u) \/ Returns(w, s))
      /\ pin[w] \in Valid /\ StepFits(pin[w], Progress(w) + 1, s, u)
      /\ w = "scan" => pos < mined /\ pin[w] = chain[pos + 1]
  BY <1>0, AtFacts, MoveFacts
<1>2. /\ chain' = chain /\ writers' = writers
      /\ pos' \in {pos, pos + 1} /\ (pos' # pos => w = "scan")
      /\ pos \in Nat /\ Len(chain) \in Nat /\ mined \in Nat /\ pos <= mined /\ mined <= Len(chain)
  BY <1>0, MoveFeed, ChainFacts
<1>3. Sent \subseteq Sent'
  BY <1>1 DEF Continues, Returns
<1> SUFFICES ASSUME NEW x \in Users, ScanOnly \/ NeverLeaves(x)
             PROVE  /\ \E h \in pos'..Len(chain) : ToldNext(x, h) /\ (InGroup(x, h + 1) => IsUserInGroup(x)')
                    /\ \A t \in EnterSteps : Did("scan", t, x)' => IsUserInGroup(x)'
  <2>1. \A y \in Users : (ScanOnly \/ NeverLeaves(y))' <=> (ScanOnly \/ NeverLeaves(y))
    BY <1>2, SameChain DEF ScanOnly
  <2>2. \A y \in Users : \A n : (Told(y, n)' <=> ToldNext(y, n)) /\ (InGroup(y, n)' <=> InGroup(y, n))
    BY <1>2, SameChain DEF Told, ToldNext
  <2> QED BY <1>2, <2>1, <2>2 DEF MessagesOK, EnterSteps
<1>4. /\ \/ IsUserInGroup(x) => IsUserInGroup(x)'
         \/ w = "scan" /\ x = u /\ s = "removeMember" /\ ~IsUserInGroup(x)'
      /\ s \in EnterSteps /\ x = u => IsUserInGroup(x)'
  BY StaysMember
<1>5. ASSUME NEW t \in EnterSteps, NowDone("scan", t, x), w = "scan" PROVE IsUserInGroup(x)'
  <2>1. CASE At("scan", t, x)
    BY <1>0, <1>4, <1>5, <2>1, AtUnique
  <2>2. CASE Did("scan", t, x)
    <3>1. IsUserInGroup(x)
      BY <1>0, <2>2 DEF MessagesOK, EnterSteps
    <3>2. s # "removeMember"
      <4>1. Op[pin[w]] # "leave"
        BY <1>5, NowDoneFits DEF StepFits, EnterSteps
      <4> QED BY <1>1, <4>1 DEF StepFits
    <3> QED BY <1>4, <3>1, <3>2
  <2> QED BY <1>5, <2>1, <2>2 DEF NowDone
<1>6. ASSUME NEW t \in EnterSteps, Did("scan", t, x)' PROVE IsUserInGroup(x)'
  <2>1. CASE w # "scan"
    <3>1. Did("scan", t, x)
      BY <1>1, <1>6, <2>1 DEF Others, AllWriters
    <3> QED BY <1>0, <1>4, <2>1, <3>1 DEF MessagesOK, EnterSteps
  <2>2. CASE w = "scan"
    BY <1>1, <1>5, <1>6, <2>2 DEF Continues, Returns, NowDone
  <2> QED BY <2>1, <2>2
<1>7. PICK h \in pos..Len(chain) : Told(x, h) /\ (InGroup(x, h + 1) => IsUserInGroup(x))
  BY <1>0 DEF MessagesOK
<1>8. \A n \in pos..h : ToldNext(x, n)
  <2>1. \A n \in pos..h : \A i \in 1..n : i \in 1..h
    BY <1>2
  <2> QED BY <1>3, <1>7, <2>1 DEF Told, ToldNext
<1>9. ASSUME ToldNext(x, pos), w = "scan",
             Op[chain[pos + 1]] = "chat" /\ (x = By[chain[pos + 1]] \/ InGroup(x, pos + 1)) => <<x, chain[pos + 1]>> \in Sent'
      PROVE  ToldNext(x, pos + 1)
  <2>1. \A i \in 1..(pos + 1) : i \in 1..pos \/ i = pos + 1
    BY <1>2
  <2> QED BY <1>9, <2>1 DEF ToldNext
<1>10. /\ ToldNext(x, h) /\ ToldNext(x, pos)
  <2>1. h \in pos..h /\ pos \in pos..h
    BY <1>2
  <2> QED BY <1>8, <2>1
<1>11. CASE w = "scan" /\ x = u /\ s = "removeMember" /\ ~IsUserInGroup(x)'
  <2>1. Leaves(chain[pos + 1], x) /\ Op[chain[pos + 1]] # "chat"
    BY <1>1, <1>11 DEF StepFits, Leaves
  <2>2. ~InGroup(x, pos + 1 + 1)
    <3>1. pos + 1 \in Nat /\ pos + 1 >= 1
      BY <1>2
    <3> QED BY <2>1, <3>1, InGroupStep
  <2>3. pos + 1 \in pos'..Len(chain)
    BY <1>1, <1>2, <1>11
  <2>4. ToldNext(x, pos + 1)
    BY <1>9, <1>10, <1>11, <2>1
  <2> QED BY <1>6, <2>2, <2>3, <2>4
<1>12. CASE IsUserInGroup(x) => IsUserInGroup(x)'
  <2>1. CASE h \in pos'..Len(chain)
    BY <1>6, <1>7, <1>10, <1>12, <2>1
  <2>2. CASE h \notin pos'..Len(chain)
    <3>1. h = pos /\ pos' = pos + 1 /\ w = "scan" /\ pin[w] = chain[pos + 1] /\ pos + 1 \in pos'..Len(chain)
      BY <1>1, <1>2, <2>2
    <3>2. Returns(w, s)
      BY <1>1, <1>2, <3>1 DEF Continues
    <3>3. ASSUME Op[chain[pos + 1]] = "chat", x = By[chain[pos + 1]] \/ InGroup(x, pos + 1)
          PROVE  <<x, chain[pos + 1]>> \in Sent'
      <4>1. s = "notifyMembers"
        BY <3>1, <3>2, <3>3 DEF Returns
      <4>2. x = By[chain[pos + 1]] => Did("scan", "autoJoin", x)
        <5>1. x = By[chain[pos + 1]] => NowDone("scan", "autoJoin", x)
          BY <1>0, <3>1, <3>2, <3>3, ReturnsDone
        <5> QED BY <1>0, <3>1, <4>1, <5>1, AtUnique DEF NowDone
      <4>3. IsUserInGroup(x)
        BY <1>0, <1>7, <3>1, <3>3, <4>2 DEF MessagesOK
      <4>4. x \in Targets(w, s)
        BY <4>1, <4>3 DEF Targets, GroupMemberTargetIds
      <4> QED BY <3>1, <3>2, <3>3, <4>4 DEF Returns
    <3>4. ToldNext(x, pos + 1)
      BY <1>9, <1>10, <3>1, <3>3
    <3>5. ASSUME InGroup(x, pos + 1 + 1) PROVE IsUserInGroup(x)'
      <4>1. CASE Enters(chain[pos + 1], x)
        <5>1. \E t \in EnterSteps : NowDone("scan", t, x)
          BY <1>0, <3>1, <3>2, <4>1, ReturnsDone DEF Enters, EnterSteps
        <5> QED BY <1>5, <3>1, <5>1
      <4>2. CASE ~Enters(chain[pos + 1], x)
        <5>1. InGroup(x, pos + 1)
          BY <1>2, <3>5, <4>2, InGroupStep
        <5> QED BY <1>7, <1>12, <3>1, <5>1
      <4> QED BY <4>1, <4>2
    <3> QED BY <1>6, <3>1, <3>4, <3>5
  <2> QED BY <2>1, <2>2
<1> QED BY <1>4, <1>11, <1>12

LEMMA StepInv ==
    ASSUME Inv, NEW w \in AllWriters, NEW u \in Users, Step(w, u)
    PROVE  Inv'
<1>1. TypeOK /\ CallOK(w) /\ \A v \in AllWriters : CallOK(v)
  BY DEF Inv
<1>2. PICK s : Steps(w, s, u)
  BY <1>1, StepEffects DEF Steps
<1>3. \A v \in AllWriters : CallOK(v)'
  BY <1>1, <1>2, MoveCall DEF Steps
<1>4. TypeOK' /\ FeedOK' /\ RolesOK' /\ MembersOK' /\ RolesDone' /\ MembersDone' /\ FlagsOK' /\ MembershipOK' /\ MessagesOK'
  BY <1>2, StepType, StepFeed, StepRoles, StepMembers, StepRolesDone, StepMembersDone, StepFlags, StepMembership, StepMessages
<1> QED BY <1>3, <1>4 DEF Inv
-----------------------------------------------------------------------------
(* The feeds keep the invariant *)

WaitingSteps == {"setAdmin", "setBlocked", "makeAdmin", "removeMember", "autoJoin"}

\* Nothing is written or sent, no more is done, and the scan does not advance.
NoEffect ==
    /\ UNCHANGED <<chain, writers, member, role, Sent>>
    /\ late => late'
    /\ mined' \in Nat /\ mined <= mined' /\ pos' \in 0..pos
    /\ \A v \in AllWriters : \A t, x : Did(v, t, x)' => Did(v, t, x)
    /\ \A v \in AllWriters : \A t \in WaitingSteps : \A x : At(v, t, x)' =>
          At(v, t, x) /\ roleOf'[v] = roleOf[v] /\ memberOf'[v] = memberOf[v]

LEMMA NoEffectKeeps ==
    ASSUME Inv, NoEffect
    PROVE  RolesOK' /\ MembersOK' /\ RolesDone' /\ MembersDone' /\ FlagsOK' /\ MembershipOK' /\ MessagesOK'
<1>0. TypeOK /\ RolesOK /\ MembersOK /\ RolesDone /\ MembersDone /\ FlagsOK /\ MembershipOK /\ MessagesOK
  BY DEF Inv
<1>1. /\ UNCHANGED <<chain, writers, member, role, Sent>>
      /\ pos \in Nat /\ mined \in Nat /\ Len(chain) \in Nat /\ pos' \in Nat /\ pos' <= pos /\ mined' \in Nat /\ mined <= mined'
  BY <1>0, ChainFacts DEF NoEffect
<1>2. \A x : /\ (Raises(x)' <=> Raises(x)) /\ (Blocks(x)' <=> Blocks(x))
             /\ (NeverLeaves(x)' <=> NeverLeaves(x)) /\ (NeverCreates(x)' <=> NeverCreates(x))
             /\ (IsAdmin(x)' <=> IsAdmin(x)) /\ (IsBlocked(x)' <=> IsBlocked(x))
             /\ (IsUserInGroup(x)' <=> IsUserInGroup(x))
             /\ \A n : (BlockedAt(x, n)' <=> BlockedAt(x, n)) /\ (InGroup(x, n)' <=> InGroup(x, n))
  BY <1>1, SameChain DEF IsAdmin, IsBlocked, IsUserInGroup
<1>3. \A v \in AllWriters : \A t, x : Did(v, t, x)' => Did(v, t, x)
  BY DEF NoEffect
<1>4. \A v \in AllWriters : \A t \in WaitingSteps : \A x : At(v, t, x)' =>
          At(v, t, x) /\ roleOf'[v] = roleOf[v] /\ memberOf'[v] = memberOf[v]
  BY DEF NoEffect
<1>5. (ScanOnly' <=> ScanOnly) /\ (OneWriter' <=> OneWriter)
  BY <1>1 DEF ScanOnly, OneWriter
<1>6. RolesOK'
  <2>1. ASSUME NEW v \in AllWriters, NEW x \in Users, At(v, "setAdmin", x)' \/ At(v, "setBlocked", x)'
        PROVE  roleOf'[v] # NoRole /\ RoleHasPin(x, roleOf'[v])
    BY <1>0, <1>4, <2>1 DEF RolesOK, WaitingSteps
  <2> QED BY <1>0, <1>1, <1>2, <2>1 DEF RolesOK, RoleHasPin
<1>7. MembersOK'
  <2>1. ASSUME NEW v \in AllWriters, NEW x \in Users, memberOf'[v] # NoMember,
               At(v, "makeAdmin", x)' \/ At(v, "removeMember", x)' \/ At(v, "autoJoin", x)'
        PROVE  MemberHasPin(x, memberOf'[v]) /\ member[x] # NoMember
    BY <1>0, <1>4, <2>1 DEF MembersOK, WaitingSteps
  <2> QED BY <1>0, <1>1, <1>2, <2>1 DEF MembersOK, MemberHasPin
<1>8. \A i : i \in 1..pos' => i \in 1..pos
  BY <1>1
<1>9. RolesDone'
  <2>1. \A x \in Users :
          (Did("scan", "setAdmin", x) \/ Did("scan", "setBlocked", x) \/ Did("scan", "setCreatorRole", x))' =>
              role'[x] # NoRole
    BY <1>0, <1>1, <1>3 DEF RolesDone, AllWriters
  <2>2. \A x \in Users, i \in 1..pos' : Touches(chain'[i], x) => role'[x] # NoRole
    BY <1>0, <1>1, <1>8 DEF RolesDone
  <2> QED BY <2>1, <2>2 DEF RolesDone, Touches
<1>13. MembersDone'
  <2>1. \A x \in Users :
          (Did("scan", "saveCreator", x) \/ Did("scan", "saveMember", x) \/ Did("scan", "autoJoin", x))' =>
              member'[x] # NoMember
    BY <1>0, <1>1, <1>3 DEF MembersDone, AllWriters
  <2>2. \A x \in Users, i \in 1..pos' : Enters(chain'[i], x) => member'[x] # NoMember
    BY <1>0, <1>1, <1>8 DEF MembersDone
  <2>3. \A x \in Users : Entered(x)' <=> Entered(x)
    BY <1>1, SameChain DEF Entered, Enters, ChainPins
  <2>4. \A x \in Users : member'[x] # NoMember => Entered(x)'
    BY <1>0, <1>1, <2>3 DEF MembersDone
  <2> QED BY <2>1, <2>2, <2>4 DEF MembersDone, Enters
<1>10. FlagsOK'
  <2> SUFFICES ASSUME OneWriter
               PROVE  /\ \A v \in AllWriters : Loaded(v)'
                      /\ \A v \in AllWriters, x \in Users :
                            /\ Did(v, "setAdmin", x)' \/ Did(v, "setCreatorRole", x)' => IsAdmin(x)
                            /\ Did(v, "setBlocked", x)' => IsBlocked(x)
                            /\ Did(v, "setCreatorRole", x)' => ~IsBlocked(x)
                      /\ \A x \in Users, i \in 1..pos' :
                            Touches(chain[i], x) /\ Op[chain[i]] # "block" => IsAdmin(x)
                      /\ ScanOnly => \A x \in Users : \E n \in pos'..mined' : IsBlocked(x) <=> BlockedAt(x, n)
    BY <1>0, <1>1, <1>2, <1>5 DEF FlagsOK, Touches
  <2>1. ASSUME NEW v \in AllWriters PROVE Loaded(v)'
    BY <1>0, <1>1, <1>4 DEF FlagsOK, Loaded, WaitingSteps
  <2>2. ASSUME ScanOnly, NEW x \in Users PROVE \E n \in pos'..mined' : IsBlocked(x) <=> BlockedAt(x, n)
    <3>1. PICK n \in pos..mined : IsBlocked(x) <=> BlockedAt(x, n)
      BY <1>0, <2>2 DEF FlagsOK
    <3>2. n \in pos'..mined'
      BY <1>1
    <3> QED BY <3>1, <3>2
  <2> QED BY <1>0, <1>3, <1>8, <2>1, <2>2 DEF FlagsOK
<1>11. MembershipOK'
  <2> SUFFICES ASSUME NEW x \in Users, Undisturbed(x)
               PROVE  /\ InGroupFrom(x, pos')
                      /\ Wrote("scan", x)' => InGroupFrom(x, pos' + 1)
                      /\ At("scan", "removeMember", x)' \/ At("scan", "autoJoin", x)' =>
                            memberOf'["scan"] = member[x] \/ InGroupFrom(x, pos' + 1)
    <3>1. \A y \in Users : Undisturbed(y)' => Undisturbed(y)
      BY <1>1, <1>5, SameChain DEF Undisturbed, NoEffect
    <3>2. \A y \in Users : (InGroupFrom(y, pos)' <=> InGroupFrom(y, pos')) /\ (InGroupFrom(y, pos + 1)' <=> InGroupFrom(y, pos' + 1))
      BY <1>1, <1>2 DEF InGroupFrom
    <3> QED BY <1>1, <3>1, <3>2 DEF MembershipOK
  <2>1. (InGroupFrom(x, pos) => InGroupFrom(x, pos')) /\ (InGroupFrom(x, pos + 1) => InGroupFrom(x, pos' + 1))
    <3>1. /\ \A h \in pos..Len(chain) : h \in pos'..Len(chain)
          /\ \A h \in (pos + 1)..Len(chain) : h \in (pos' + 1)..Len(chain)
      <4>1. \A a, b, n \in Nat : b <= a => (\A h \in a..n : h \in b..n) /\ (\A h \in (a + 1)..n : h \in (b + 1)..n)
        OBVIOUS
      <4> QED BY <1>1, <4>1
    <3> QED BY <3>1 DEF InGroupFrom
  <2>2. Wrote("scan", x)' => Wrote("scan", x)
    BY <1>3 DEF Wrote, AllWriters
  <2>3. ASSUME At("scan", "removeMember", x)' \/ At("scan", "autoJoin", x)'
        PROVE  (At("scan", "removeMember", x) \/ At("scan", "autoJoin", x)) /\ memberOf'["scan"] = memberOf["scan"]
    BY <1>4, <2>3 DEF WaitingSteps, AllWriters
  <2> QED BY <1>0, <2>1, <2>2, <2>3 DEF MembershipOK
<1>12. MessagesOK'
  <2> SUFFICES ASSUME NEW x \in Users, ScanOnly \/ NeverLeaves(x)
               PROVE  /\ \E h \in pos'..Len(chain) : Told(x, h) /\ (InGroup(x, h + 1) => IsUserInGroup(x))
                      /\ Did("scan", "saveCreator", x)' \/ Did("scan", "saveMember", x)' \/ Did("scan", "autoJoin", x)' =>
                            IsUserInGroup(x)
    <3>1. \A y \in Users : \A n : Told(y, n)' <=> Told(y, n)
      BY <1>1, <1>2 DEF Told
    <3> QED BY <1>1, <1>2, <1>5, <3>1 DEF MessagesOK
  <2>1. \A h \in pos..Len(chain) : h \in pos'..Len(chain)
    BY <1>1
  <2> QED BY <1>0, <1>3, <2>1 DEF MessagesOK, AllWriters
<1> QED BY <1>6, <1>7, <1>9, <1>10, <1>11, <1>12, <1>13

\* The number of polls of a pin keeps its bound.
LEMMA PollCounts ==
    /\ [p \in Pins |-> 0] \in [Pins -> 0..MaxPolls]
    /\ \A f \in [Pins -> 0..MaxPolls], p \in Pins :
          f[p] < MaxPolls => [f EXCEPT ![p] = @ + 1] \in [Pins -> 0..MaxPolls]
<1>1. 0 \in 0..MaxPolls /\ \A n \in 0..MaxPolls : n < MaxPolls => n + 1 \in 0..MaxPolls
  BY FeedAssumption
<1> QED BY <1>1

\* Without pushes and returns, what has been sent stays.
LEMMA SentStays ==
    ASSUME UNCHANGED pushVars
    PROVE  Sent' = Sent /\ notifyCh' = notifyCh /\ notified' = notified /\ lost' = lost
<1>1. notifyCh' = notifyCh /\ notified' = notified /\ lost' = lost
  BY DEF pushVars
<1> QED BY <1>1 DEF Sent, Waiting

LEMMA MineInv == ASSUME Inv, Mine PROVE Inv'
<1>0. TypeOK /\ FeedOK /\ \A w \in AllWriters : CallOK(w)
  BY DEF Inv
<1>1. /\ mined < Len(chain) /\ mined' = mined + 1 /\ late' = (late \/ chain[mined + 1] \in queue \cup {pin["mempool"]})
      /\ UNCHANGED <<chain, writers, pos, polled, queue, backfill, crashes>>
      /\ UNCHANGED <<count, member, role, history, pin, todo, memberOf, roleOf, countOf, event>>
      /\ Sent' = Sent /\ notifyCh' = notifyCh /\ notified' = notified /\ lost' = lost
  BY SentStays DEF Mine, MineNext, setup, groupVars, callVars, loadVars
<1>2. pos \in Nat /\ mined \in Nat /\ Len(chain) \in Nat /\ pos <= mined
  BY <1>0, ChainFacts
<1>3. TypeOK'
  <2>1. mined' \in 0..Len(chain) /\ pos \in 0..mined' /\ backfill \in 0..mined' /\ late' \in BOOLEAN
    BY <1>0, <1>1, <1>2 DEF TypeOK, FeedTypeOK, FeedOK
  <2> QED BY <1>0, <1>1, <2>1 DEF TypeOK, FeedTypeOK
<1>4. ASSUME NEW w \in AllWriters PROVE CallOK(w)'
  <2>1. pos < mined => pos < mined'
    BY <1>1, <1>2
  <2>2. (Busy(w)' <=> Busy(w)) /\ Progress(w)' = Progress(w)
    BY <1>1 DEF Busy, Progress
  <2> QED BY <1>0, <1>1, <2>1, <2>2 DEF CallOK
<1>5. FeedOK'
  <2>1. ASSUME NEW p, Ahead(p), p # chain[mined + 1] PROVE Ahead(p)'
    <3>1. PICK i \in (mined + 1)..Len(chain) : chain[i] = p
      BY <2>1 DEF Ahead
    <3>2. i \in (mined + 1 + 1)..Len(chain)
      BY <1>2, <2>1, <3>1
    <3> QED BY <1>1, <3>1, <3>2 DEF Ahead
  <2>2. Busy("mempool")' <=> Busy("mempool")
    BY <1>1 DEF Busy
  <2> QED BY <1>0, <1>1, <2>1, <2>2 DEF FeedOK
<1>6. NoEffect
  <2>1. pos' \in 0..pos /\ mined' \in Nat /\ mined <= mined'
    BY <1>1, <1>2
  <2>2. \A v \in AllWriters : \A t, x : (Did(v, t, x)' <=> Did(v, t, x)) /\ (At(v, t, x)' <=> At(v, t, x))
    BY <1>1 DEF Did, At, Busy, Progress
  <2> QED BY <1>1, <2>1, <2>2 DEF NoEffect
<1> QED BY <1>3, <1>4, <1>5, <1>6, NoEffectKeeps DEF Inv

LEMMA PollInv == ASSUME Inv, NEW p \in Pins, Poll(p) PROVE Inv'
<1>0. TypeOK /\ FeedOK /\ \A w \in AllWriters : CallOK(w)
  BY DEF Inv
<1>1. /\ "mempool" \in writers /\ Ahead(p) /\ queue' = queue \cup {p}
      /\ polled[p] < MaxPolls /\ polled' = [polled EXCEPT ![p] = @ + 1]
      /\ UNCHANGED <<chain, writers, mined, pos, backfill, late, crashes>>
      /\ UNCHANGED <<count, member, role, history, pin, todo, memberOf, roleOf, countOf, event>>
      /\ Sent' = Sent /\ notifyCh' = notifyCh /\ notified' = notified /\ lost' = lost
  BY SentStays DEF Poll, PollMempool, Ahead, setup, groupVars, callVars, loadVars
<1>2. pos \in Nat /\ mined \in Nat /\ Len(chain) \in Nat /\ pos <= mined
  BY <1>0, ChainFacts
<1>3. TypeOK'
  BY <1>0, <1>1, PollCounts DEF TypeOK, FeedTypeOK
<1>4. \A w \in AllWriters : CallOK(w)'
  BY <1>0, <1>1 DEF CallOK, Busy, Progress
<1>5. FeedOK'
  <2>1. \A q : Ahead(q)' <=> Ahead(q)
    BY <1>1 DEF Ahead
  <2>2. p \in PinsOf(chain)
    <3>1. PICK i \in (mined + 1)..Len(chain) : chain[i] = p
      BY <1>1 DEF Ahead
    <3>2. i \in 1..Len(chain)
      BY <1>2
    <3> QED BY <3>1, <3>2 DEF PinsOf
  <2> QED BY <1>0, <1>1, <2>1, <2>2 DEF FeedOK, Busy
<1>6. NoEffect
  <2>1. pos' \in 0..pos /\ mined' \in Nat /\ mined <= mined'
    BY <1>1, <1>2
  <2>2. \A v \in AllWriters : \A t, x : (Did(v, t, x)' <=> Did(v, t, x)) /\ (At(v, t, x)' <=> At(v, t, x))
    BY <1>1 DEF Did, At, Busy, Progress
  <2> QED BY <1>1, <2>1, <2>2 DEF NoEffect
<1> QED BY <1>3, <1>4, <1>5, <1>6, NoEffectKeeps DEF Inv

LEMMA CrashInv == ASSUME Inv, Crash PROVE Inv'
<1>0. TypeOK /\ FeedOK
  BY DEF Inv
<1>1. /\ crashes' \in 0..MaxCrashes /\ pos' \in 0..pos /\ polled' = [p \in Pins |-> 0] /\ queue' = {} /\ backfill' = 0
      /\ UNCHANGED <<chain, writers, mined, late, count, member, role, history, notified>>
      /\ notifyCh' = << >> /\ lost' = lost \cup Waiting
  <2>1. "backfill" \notin writers
    BY <1>0, ChainFacts
  <2>2. crashes + 1 \in 0..MaxCrashes
    BY <1>0, FeedAssumption DEF Crash, Restart, TypeOK, FeedTypeOK
  <2> QED BY <2>1, <2>2 DEF Crash, Restart, setup, groupVars
<1>2. pos \in Nat /\ mined \in Nat /\ Len(chain) \in Nat /\ pos <= mined
  BY <1>0, ChainFacts
<1>3. /\ pin' = [w \in AllWriters |-> NoPin] /\ todo' = [w \in AllWriters |-> << >>]
      /\ memberOf' = [w \in AllWriters |-> NoMember] /\ roleOf' = [w \in AllWriters |-> NoRole]
      /\ countOf' = [w \in AllWriters |-> NoGroup] /\ event' = [w \in AllWriters |-> {}]
  BY DEF Crash
<1>4. \A w \in AllWriters : ~Busy(w)' /\ \A t, x : ~Did(w, t, x)' /\ ~At(w, t, x)'
  BY <1>3 DEF Busy, Did, At
<1>5. TypeOK'
  <2>1. pos' \in 0..mined' /\ backfill' \in 0..mined'
    BY <1>1, <1>2
  <2>2. FeedTypeOK'
    BY <1>0, <1>1, <2>1, PollCounts DEF TypeOK, FeedTypeOK
  <2>3. todo' \in [AllWriters -> Seq(StepNames \X Users)]
    BY <1>3
  <2>4. notifyCh' \in Seq([pin : Pins, to : SUBSET Users])
    BY <1>1
  <2>5. lost' \subseteq Users \X Pins
    <3>1. notifyCh \in Seq([pin : Pins, to : SUBSET Users]) /\ lost \subseteq Users \X Pins
      BY <1>0 DEF TypeOK
    <3>2. \A k \in 1..Len(notifyCh) : notifyCh[k] \in [pin : Pins, to : SUBSET Users]
      <4>1. \A S : \A q \in Seq(S) : \A k \in 1..Len(q) : q[k] \in S
        OBVIOUS
      <4> QED BY <3>1, <4>1
    <3>3. Waiting \subseteq Users \X Pins
      BY <3>2 DEF Waiting
    <3> QED BY <1>1, <3>1, <3>3
  <2> QED BY <1>0, <1>1, <1>3, <2>2, <2>3, <2>4, <2>5 DEF TypeOK
<1>6. \A w \in AllWriters : CallOK(w)'
  BY <1>4 DEF CallOK
<1>7. FeedOK'
  BY <1>0, <1>1, <1>4 DEF FeedOK, AllWriters
<1>8. NoEffect
  <2>1. pos' \in 0..pos /\ mined' \in Nat /\ mined <= mined'
    BY <1>1, <1>2
  <2>2. Sent' = Sent
    BY CrashSent
  <2> QED BY <1>1, <1>4, <2>1, <2>2 DEF NoEffect
<1> QED BY <1>5, <1>6, <1>7, <1>8, NoEffectKeeps DEF Inv

LEMMA RouteInv == ASSUME Inv, RouteNotifyEvent PROVE Inv'
<1>0. TypeOK /\ FeedOK /\ \A w \in AllWriters : CallOK(w)
  BY DEF Inv
<1>1. /\ UNCHANGED <<chain, writers, mined, pos, polled, queue, backfill, late, crashes, lost>>
      /\ UNCHANGED <<count, member, role, history, pin, todo, memberOf, roleOf, countOf, event>>
  BY DEF RouteNotifyEvent, feedVars, groupVars, callVars, loadVars
<1>2. Sent' = Sent /\ notifyCh' \in Seq([pin : Pins, to : SUBSET Users]) /\ notified' \subseteq Users \X Pins
  BY <1>0, RouteSent
<1>3. TypeOK'
  BY <1>0, <1>1, <1>2 DEF TypeOK, FeedTypeOK
<1>4. FeedOK' /\ \A w \in AllWriters : CallOK(w)'
  BY <1>0, <1>1 DEF FeedOK, Ahead, CallOK, Busy, Progress
<1>5. pos \in Nat /\ mined \in Nat /\ pos' \in 0..pos /\ mined <= mined'
  BY <1>0, <1>1, ChainFacts
<1>6. \A v \in AllWriters : \A t, x : (Did(v, t, x)' <=> Did(v, t, x)) /\ (At(v, t, x)' <=> At(v, t, x))
  BY <1>1 DEF Did, At, Busy, Progress
<1>7. NoEffect
  BY <1>1, <1>2, <1>5, <1>6 DEF NoEffect
<1> QED BY <1>3, <1>4, <1>7, NoEffectKeeps DEF Inv

\* A pin without effect leaves everything as the chain had it before.
LEMMA IdlePin ==
    ASSUME NEW p, p \notin Valid \/ Handler(p) = << >>, NEW x \in Users
    PROVE  ~Touches(p, x) /\ ~Enters(p, x) /\ ~Leaves(p, x) /\ ~(p \in Valid /\ Op[p] = "chat")
<1>1. CASE p \notin Valid
  BY <1>1 DEF Touches, Enters, Leaves
<1>2. CASE p \in Valid /\ Handler(p) = << >>
  <2>1. HasSteps(p)
    BY <1>2, HandlerShape
  <2>2. \A k \in 1..Len(Handler(p)) : FALSE
    BY <1>2
  <2> QED BY <2>1, <2>2 DEF HasSteps, Touches, Enters, Leaves, Names
<1> QED BY <1>1, <1>2

LEMMA TakeInv ==
    ASSUME Inv, NEW w \in AllWriters, NEW p \in Pins, Offered(w, p), todo[w] = << >>,
           p \in Valid, Handler(p) # << >>,
           pin' = [pin EXCEPT ![w] = p], todo' = [todo EXCEPT ![w] = Handler(p)],
           event' = [event EXCEPT ![w] = EventOf(p)], Take(w, p),
           UNCHANGED <<loadVars, groupVars, pushVars>>
    PROVE  Inv'
<1> DEFINE H == Handler(p)
<1>0. TypeOK /\ FeedOK /\ \A v \in AllWriters : CallOK(v)
  BY DEF Inv
<1>1. /\ queue' = (IF w = "mempool" THEN queue \ {p} ELSE queue)
      /\ UNCHANGED <<chain, writers, mined, pos, polled, backfill, late, crashes>>
      /\ UNCHANGED <<count, member, role, history, memberOf, roleOf, countOf>>
      /\ Sent' = Sent /\ notifyCh' = notifyCh /\ notified' = notified /\ lost' = lost
  BY SentStays DEF Take, setup, loadVars, groupVars
<1>2. /\ pos \in Nat /\ mined \in Nat /\ Len(chain) \in Nat /\ pos <= mined /\ mined <= Len(chain)
      /\ \A i \in 1..Len(chain) : chain[i] \in PinsOf(chain)
  BY <1>0, ChainFacts
<1>3. \/ w = "scan" /\ "scan" \in writers /\ pos < mined /\ p = chain[pos + 1]
      \/ w = "mempool" /\ "mempool" \in writers /\ p \in queue
  BY <1>0 DEF Offered, ScanOffers, MempoolOffers, BackfillOffers, FeedOK
<1>4. p \in PinsOf(chain)
  <2>1. pos < mined => pos + 1 \in 1..Len(chain)
    BY <1>2
  <2> QED BY <1>0, <1>2, <1>3, <2>1 DEF FeedOK
<1>5. H \in Seq(StepNames \X Users) /\ \A k \in 1..Len(H) : \A t, x : H[k] = <<t, x>> => StepFits(p, k, t, x)
  BY HandlerShape
<1>6. EventOf(p) \subseteq Users
  BY EventNames
<1>7. TypeOK'
  <2>1. pin' \in [AllWriters -> Pins \cup {NoPin}] /\ todo' \in [AllWriters -> Seq(StepNames \X Users)]
        /\ event' \in [AllWriters -> SUBSET Users]
    BY <1>0, <1>5, <1>6 DEF TypeOK
  <2>2. FeedTypeOK'
    BY <1>0, <1>1 DEF TypeOK, FeedTypeOK
  <2> QED BY <1>0, <1>1, <2>1, <2>2 DEF TypeOK
<1>8. /\ pin'[w] = p /\ todo'[w] = H /\ event'[w] = EventOf(p)
      /\ \A v \in AllWriters : v # w => pin'[v] = pin[v] /\ todo'[v] = todo[v] /\ event'[v] = event[v]
  BY <1>0 DEF TypeOK
<1>9. Progress(w)' = 0
  <2>1. Len(H) \in Nat /\ \A n \in Nat : n - n = 0
    BY <1>5
  <2> QED BY <1>8, <2>1 DEF Progress
<1>10. ASSUME NEW v \in AllWriters PROVE CallOK(v)'
  <2>1. CASE v # w
    <3>1. CallOK(v) /\ (Busy(v)' <=> Busy(v)) /\ Progress(v)' = Progress(v)
      BY <1>0, <1>8, <2>1 DEF Busy, Progress
    <3> QED BY <1>1, <1>8, <2>1, <3>1 DEF CallOK
  <2>2. CASE v = w
    <3>1. Len(H) \in Nat /\ \A k \in 1..Len(H) : H[0 + k] = H[k]
      BY <1>5
    <3>2. \A k \in 1..Len(todo'[w]) : todo'[w][k] = Handler(pin'[w])[Progress(w)' + k]
      BY <1>8, <1>9, <3>1
    <3> QED BY <1>1, <1>3, <1>4, <1>8, <2>2, <3>1, <3>2 DEF CallOK
  <2> QED BY <2>1, <2>2
<1>11. FeedOK'
  <2>1. \A q : Ahead(q)' <=> Ahead(q)
    BY <1>1 DEF Ahead
  <2>2. ASSUME ~late, Busy("mempool")' PROVE Ahead(pin'["mempool"])
    <3>1. CASE w = "mempool"
      BY <1>0, <1>3, <1>8, <2>2, <3>1 DEF FeedOK
    <3>2. CASE w # "mempool"
      BY <1>0, <1>8, <2>2, <3>2 DEF FeedOK, Busy, AllWriters
    <3> QED BY <3>1, <3>2
  <2> QED BY <1>0, <1>1, <2>1, <2>2 DEF FeedOK
<1>12. NoEffect
  <2>1. pos' \in 0..pos /\ mined' \in Nat /\ mined <= mined'
    BY <1>1, <1>2
  <2>2. ASSUME NEW v \in AllWriters, v # w, NEW t, NEW x
        PROVE  (Did(v, t, x)' <=> Did(v, t, x)) /\ (At(v, t, x)' <=> At(v, t, x))
    BY <1>8, <2>2 DEF Did, At, Busy, Progress
  <2>3. \A t, x : ~Did(w, t, x)'
    <3>1. ~ \E k \in 1..0 : TRUE
      OBVIOUS
    <3> QED BY <1>9, <3>1 DEF Did
  <2>4. ASSUME NEW t \in WaitingSteps, NEW x PROVE ~At(w, t, x)'
    <3> SUFFICES ASSUME At(w, t, x)' PROVE FALSE
      OBVIOUS
    <3>1. H # << >> /\ Head(H) = <<t, x>>
      BY <1>8 DEF At
    <3>2. 1 \in 1..Len(H) /\ H[1] = <<t, x>>
      BY <1>5, <3>1
    <3>3. StepFits(p, 1, t, x)
      BY <1>5, <3>2
    <3> QED BY <3>3 DEF StepFits, WaitingSteps
  <2> QED BY <1>1, <2>1, <2>2, <2>3, <2>4 DEF NoEffect
<1> QED BY <1>7, <1>10, <1>11, <1>12, NoEffectKeeps DEF Inv

LEMMA PassInv ==
    ASSUME Inv, NEW w \in AllWriters, NEW p \in Pins, Offered(w, p), todo[w] = << >>,
           p \notin Valid \/ Handler(p) = << >>, Pass(w, p),
           UNCHANGED <<callVars, groupVars, pushVars>>
    PROVE  Inv'
<1>0. TypeOK /\ FeedOK /\ \A v \in AllWriters : CallOK(v)
  BY DEF Inv
<1>1. /\ queue' = (IF w = "mempool" THEN queue \ {p} ELSE queue)
      /\ pos' = (IF w = "scan" THEN pos + 1 ELSE pos)
      /\ UNCHANGED <<chain, writers, mined, polled, late, crashes>>
      /\ UNCHANGED <<count, member, role, history, pin, todo, memberOf, roleOf, countOf, event>>
      /\ Sent' = Sent /\ notifyCh' = notifyCh /\ notified' = notified /\ lost' = lost
  BY SentStays DEF Pass, Advance, setup, callVars, loadVars, groupVars
<1>2. pos \in Nat /\ mined \in Nat /\ Len(chain) \in Nat /\ pos <= mined /\ mined <= Len(chain)
  BY <1>0, ChainFacts
<1>3. \/ w = "scan" /\ "scan" \in writers /\ pos < mined /\ p = chain[pos + 1]
      \/ w = "mempool" /\ "mempool" \in writers /\ p \in queue
  BY <1>0 DEF Offered, ScanOffers, MempoolOffers, BackfillOffers, FeedOK
<1>4. backfill' = backfill
  BY <1>3 DEF Pass, Advance
<1>5. TypeOK'
  <2>1. pos' \in 0..mined
    BY <1>1, <1>2, <1>3
  <2>2. FeedTypeOK'
    BY <1>0, <1>1, <1>4, <2>1 DEF TypeOK, FeedTypeOK
  <2> QED BY <1>0, <1>1, <2>2 DEF TypeOK
<1>6. \A v \in AllWriters : \A t, x : (Did(v, t, x)' <=> Did(v, t, x)) /\ (At(v, t, x)' <=> At(v, t, x))
  BY <1>1 DEF Did, At, Busy, Progress
<1>7. ASSUME NEW v \in AllWriters PROVE CallOK(v)'
  <2>1. (Busy(v)' <=> Busy(v)) /\ Progress(v)' = Progress(v)
    BY <1>1 DEF Busy, Progress
  <2>2. Busy(v) /\ v = "scan" => pos' = pos
    BY <1>1, <1>3 DEF Busy
  <2> QED BY <1>0, <1>1, <2>1, <2>2 DEF CallOK
<1>8. FeedOK'
  <2>1. \A q : Ahead(q)' <=> Ahead(q)
    BY <1>1 DEF Ahead
  <2> QED BY <1>0, <1>1, <1>4, <2>1 DEF FeedOK, Busy
<1>9. CASE w # "scan"
  <2>1. NoEffect
    <3>1. pos' \in 0..pos /\ mined' \in Nat /\ mined <= mined'
      BY <1>1, <1>2, <1>9
    <3> QED BY <1>1, <1>6, <3>1 DEF NoEffect
  <2> QED BY <1>5, <1>7, <1>8, <2>1, NoEffectKeeps DEF Inv
<1>10. CASE w = "scan"
  <2> DEFINE q == chain[pos + 1]
  <2>1. q = p /\ pos' = pos + 1 /\ pos + 1 \in (pos + 1)..mined /\ pos + 1 \in (pos + 1)..Len(chain)
    BY <1>1, <1>2, <1>3, <1>10
  <2>2. \A x \in Users : ~Touches(q, x) /\ ~Enters(q, x) /\ ~Leaves(q, x) /\ ~(q \in Valid /\ Op[q] = "chat")
    BY <2>1, IdlePin
  <2>3. \A t, x : ~Did("scan", t, x) /\ ~At("scan", t, x)
    BY <1>10 DEF Did, At, Busy
  <2>4. \A t, x : ~Did("scan", t, x)' /\ ~At("scan", t, x)'
    BY <1>6, <2>3 DEF AllWriters
  <2>5. \A x : /\ (Raises(x)' <=> Raises(x)) /\ (Blocks(x)' <=> Blocks(x))
               /\ (NeverLeaves(x)' <=> NeverLeaves(x)) /\ (NeverCreates(x)' <=> NeverCreates(x))
               /\ (IsAdmin(x)' <=> IsAdmin(x)) /\ (IsBlocked(x)' <=> IsBlocked(x))
               /\ (IsUserInGroup(x)' <=> IsUserInGroup(x))
               /\ \A n : (BlockedAt(x, n)' <=> BlockedAt(x, n)) /\ (InGroup(x, n)' <=> InGroup(x, n))
    BY <1>1, SameChain DEF IsAdmin, IsBlocked, IsUserInGroup
  <2>6. (ScanOnly' <=> ScanOnly) /\ (OneWriter' <=> OneWriter)
    BY <1>1 DEF ScanOnly, OneWriter
  <2>7. \A i \in 1..pos' : i \in 1..pos \/ chain[i] = q
    BY <1>2, <2>1
  <2>8. RolesOK'
    BY <1>1, <1>6, <2>5 DEF Inv, RolesOK, RoleHasPin
  <2>9. MembersOK'
    BY <1>1, <1>6, <2>5 DEF Inv, MembersOK, MemberHasPin
  <2>10. RolesDone'
    <3>1. \A x \in Users, i \in 1..pos' : Touches(chain[i], x) => role[x] # NoRole
      BY <2>2, <2>7 DEF Inv, RolesDone
    <3> QED BY <1>1, <2>4, <3>1 DEF RolesDone, Touches
  <2>14. MembersDone'
    <3>1. \A x \in Users, i \in 1..pos' : Enters(chain[i], x) => member[x] # NoMember
      BY <2>2, <2>7 DEF Inv, MembersDone
    <3>2. \A x \in Users : Entered(x)' <=> Entered(x)
      BY <1>1, SameChain DEF Entered, Enters
    <3>3. \A x \in Users : member'[x] # NoMember => Entered(x)'
      BY <1>1, <3>2 DEF Inv, MembersDone
    <3> QED BY <1>1, <2>4, <3>1, <3>3 DEF MembersDone, Enters
  <2>11. FlagsOK'
    <3> SUFFICES ASSUME OneWriter
                 PROVE  /\ \A v \in AllWriters : Loaded(v)'
                        /\ \A x \in Users, i \in 1..pos' : Touches(chain[i], x) /\ Op[chain[i]] # "block" => IsAdmin(x)
                        /\ ScanOnly => \A x \in Users : \E n \in pos'..mined : IsBlocked(x) <=> BlockedAt(x, n)
      BY <1>1, <1>6, <2>5, <2>6 DEF Inv, FlagsOK, Touches
    <3>1. \A v \in AllWriters : Loaded(v)'
      BY <1>1, <1>6 DEF Inv, FlagsOK, Loaded
    <3>2. \A x \in Users, i \in 1..pos' : Touches(chain[i], x) /\ Op[chain[i]] # "block" => IsAdmin(x)
      BY <2>2, <2>7 DEF Inv, FlagsOK
    <3>3. ASSUME ScanOnly, NEW x \in Users PROVE \E n \in pos'..mined : IsBlocked(x) <=> BlockedAt(x, n)
      <4>1. PICK n \in pos..mined : IsBlocked(x) <=> BlockedAt(x, n)
        BY <3>3 DEF Inv, FlagsOK
      <4>2. BlockedAt(x, pos + 1) <=> BlockedAt(x, pos)
        <5>1. pos + 1 \in Nat /\ pos + 1 >= 1 /\ \A m \in Nat : m = pos + 1 => m - 1 = pos
          BY <1>2
        <5>2. ~(q \in Valid /\ Op[q] = "block" /\ Names(q, x)) /\ ~(q \in Valid /\ Op[q] = "create" /\ By[q] = x)
          BY <2>2 DEF Touches
        <5> QED BY <5>1, <5>2, BlockedStep
      <4>3. n \in (pos + 1)..mined \/ n = pos
        BY <1>2
      <4> QED BY <2>1, <4>1, <4>2, <4>3
    <3> QED BY <3>1, <3>2, <3>3
  <2>12. MembershipOK'
    <3> SUFFICES ASSUME NEW x \in Users, Undisturbed(x) PROVE InGroupFrom(x, pos + 1)
      <4>1. \A y \in Users : Undisturbed(y)' <=> Undisturbed(y)
        BY <1>1, <2>6, SameChain DEF Undisturbed
      <4>2. \A y \in Users : InGroupFrom(y, pos)' <=> InGroupFrom(y, pos + 1)
        BY <1>1, <2>1, <2>5 DEF InGroupFrom
      <4> QED BY <2>4, <4>1, <4>2 DEF MembershipOK, Wrote
    <3>1. PICK h \in pos..Len(chain) : IsUserInGroup(x) <=> InGroup(x, h + 1)
      BY DEF Inv, MembershipOK, InGroupFrom
    <3>2. InGroup(x, pos + 1 + 1) <=> InGroup(x, pos + 1)
      BY <1>2, <2>2, InGroupStep
    <3>3. h \in (pos + 1)..Len(chain) \/ h = pos
      BY <1>2
    <3> QED BY <2>1, <3>1, <3>2, <3>3 DEF InGroupFrom
  <2>13. MessagesOK'
    <3> SUFFICES ASSUME NEW x \in Users, ScanOnly \/ NeverLeaves(x)
                 PROVE  \E h \in (pos + 1)..Len(chain) : Told(x, h) /\ (InGroup(x, h + 1) => IsUserInGroup(x))
      <4>1. \A y \in Users : \A n : Told(y, n)' <=> Told(y, n)
        BY <1>1, <2>5 DEF Told
      <4> QED BY <1>1, <2>1, <2>4, <2>5, <2>6, <4>1 DEF MessagesOK
    <3>1. PICK h \in pos..Len(chain) : Told(x, h) /\ (InGroup(x, h + 1) => IsUserInGroup(x))
      BY DEF Inv, MessagesOK
    <3>2. InGroup(x, pos + 1 + 1) <=> InGroup(x, pos + 1)
      BY <1>2, <2>2, InGroupStep
    <3>3. h \in (pos + 1)..Len(chain) \/ h = pos
      BY <1>2
    <3>4. ASSUME h = pos PROVE Told(x, pos + 1)
      <4>1. \A i \in 1..(pos + 1) : i \in 1..h \/ chain[i] = q
        BY <1>2, <3>4
      <4> QED BY <2>2, <3>1, <4>1 DEF Told
    <3> QED BY <2>1, <3>1, <3>2, <3>3, <3>4
  <2> QED BY <1>5, <1>7, <1>8, <2>8, <2>9, <2>10, <2>11, <2>12, <2>13, <2>14 DEF Inv
<1> QED BY <1>9, <1>10

LEMMA InitInv == Init => Inv
<1> SUFFICES ASSUME Init PROVE Inv
  OBVIOUS
<1>1. /\ chain \in Chains /\ writers \in WriterSets /\ pos = 0 /\ polled = [p \in Pins |-> 0] /\ queue = {}
      /\ late = FALSE /\ crashes = 0 /\ count = NoGroup /\ history = {}
      /\ notifyCh = << >> /\ notified = {} /\ lost = {}
      /\ member = [u \in Users |-> NoMember] /\ role = [u \in Users |-> NoRole]
      /\ pin = [w \in AllWriters |-> NoPin] /\ todo = [w \in AllWriters |-> << >>]
      /\ memberOf = [w \in AllWriters |-> NoMember] /\ roleOf = [w \in AllWriters |-> NoRole]
      /\ countOf = [w \in AllWriters |-> NoGroup] /\ event = [w \in AllWriters |-> {}]
  BY DEF Init, FeedInit, NoCall
<1>2. mined = 0 /\ backfill = 0
  <2>1. "backfill" \notin writers
    BY <1>1, GroupAssumption
  <2> QED BY <2>1 DEF Init, FeedInit
<1>3. Len(chain) \in Nat
  BY <1>1, FeedAssumption
<1>4. TypeOK
  <2>1. FeedTypeOK
    <3>1. \A n \in Nat : 0 \in 0..n
      OBVIOUS
    <3>2. 0 \in 0..Len(chain) /\ 0 \in 0..0 /\ 0 \in 0..MaxCrashes
      BY <1>3, <3>1, FeedAssumption
    <3>3. mined \in 0..Len(chain) /\ pos \in 0..mined /\ backfill \in 0..mined /\ crashes \in 0..MaxCrashes
      BY <1>1, <1>2, <3>2
    <3>4. polled \in [Pins -> 0..MaxPolls] /\ queue \subseteq Pins /\ late \in BOOLEAN
      BY <1>1, PollCounts
    <3> QED BY <1>1, <3>3, <3>4 DEF FeedTypeOK
  <2>2. todo \in [AllWriters -> Seq(StepNames \X Users)]
    BY <1>1
  <2>3. notifyCh \in Seq([pin : Pins, to : SUBSET Users])
    BY <1>1
  <2> QED BY <1>1, <2>1, <2>2, <2>3 DEF TypeOK
<1>5. \A w \in AllWriters : ~Busy(w) /\ \A t, x : ~Did(w, t, x) /\ ~At(w, t, x)
  BY <1>1 DEF Busy, Did, At
<1>6. (\A w \in AllWriters : CallOK(w)) /\ FeedOK
  BY <1>1, <1>2, <1>5 DEF CallOK, FeedOK, AllWriters
<1>7. \A i \in 1..0 : FALSE
  OBVIOUS
<1>8. 0 \in 0..Len(chain) /\ 0 \in 0..0
  BY <1>3
<1>9. \A x \in Users : ~IsUserInGroup(x) /\ ~IsBlocked(x) /\ ~BlockedAt(x, 0) /\ ~InGroup(x, 0 + 1)
  <2>1. \A i \in 1..(0 + 1 - 1) : FALSE
    OBVIOUS
  <2>2. \A x \in Users : ~InGroup(x, 0 + 1) /\ ~BlockedAt(x, 0)
    BY <1>7, <2>1 DEF InGroup, BlockedAt
  <2> QED BY <1>1, <2>2 DEF IsUserInGroup, IsBlocked
<1>10. RolesOK /\ MembersOK
  BY <1>1, <1>5 DEF RolesOK, MembersOK
<1>11. RolesDone
  BY <1>1, <1>5, <1>7 DEF RolesDone, AllWriters
<1>15. MembersDone
  BY <1>1, <1>5, <1>7 DEF MembersDone, AllWriters
<1>16. Sent = {}
  BY <1>1 DEF Sent, Waiting
<1>12. FlagsOK
  <2>1. \A u \in Users, i \in 1..pos : Touches(chain[i], u) /\ Op[chain[i]] # "block" => IsAdmin(u)
    <3>1. \A i \in 1..pos : FALSE
      BY <1>1, <1>7
    <3> QED BY <3>1
  <2>2. \A u \in Users : \E n \in pos..mined : IsBlocked(u) <=> BlockedAt(u, n)
    <3>1. 0 \in pos..mined
      BY <1>1, <1>2
    <3> QED BY <1>9, <3>1
  <2> QED BY <1>1, <1>5, <1>16, <2>1, <2>2 DEF FlagsOK, Loaded
<1>13. MembershipOK
  <2>1. \A u \in Users : InGroupFrom(u, pos)
    BY <1>1, <1>8, <1>9 DEF InGroupFrom
  <2> QED BY <1>5, <2>1 DEF MembershipOK, Wrote, AllWriters
<1>14. MessagesOK
  <2>1. \A u \in Users : Told(u, 0)
    BY <1>7 DEF Told
  <2> QED BY <1>1, <1>5, <1>8, <1>9, <2>1 DEF MessagesOK, AllWriters
<1> QED BY <1>4, <1>6, <1>10, <1>11, <1>12, <1>13, <1>14, <1>15 DEF Inv

LEMMA NextInv == Inv /\ [Next]_vars => Inv'
<1> SUFFICES ASSUME Inv, [Next]_vars PROVE Inv'
  OBVIOUS
<1>1. CASE Mine
  BY <1>1, MineInv
<1>2. ASSUME NEW p \in Pins, Poll(p) PROVE Inv'
  BY <1>2, PollInv
<1>3. ASSUME NEW w \in AllWriters, NEW p \in Pins, DispatchPin(w, p) PROVE Inv'
  <2>1. Offered(w, p) /\ todo[w] = << >> /\ UNCHANGED <<groupVars, pushVars>>
    BY <1>3 DEF DispatchPin
  <2>2. CASE /\ p \in Valid /\ Handler(p) # << >>
             /\ pin' = [pin EXCEPT ![w] = p] /\ todo' = [todo EXCEPT ![w] = Handler(p)]
             /\ event' = [event EXCEPT ![w] = EventOf(p)] /\ Take(w, p)
             /\ UNCHANGED loadVars
    BY <2>1, <2>2, TakeInv
  <2>3. CASE (p \notin Valid \/ Handler(p) = << >>) /\ Pass(w, p) /\ UNCHANGED callVars
    BY <2>1, <2>3, PassInv
  <2> QED BY <1>3, <2>2, <2>3 DEF DispatchPin
<1>4. ASSUME NEW w \in AllWriters, NEW u \in Users, Step(w, u) PROVE Inv'
  BY <1>4, StepInv
<1>5. CASE Crash
  BY <1>5, CrashInv
<1>7. CASE RouteNotifyEvent
  BY <1>7, RouteInv
<1>6. CASE UNCHANGED vars
  <2>0. TypeOK /\ FeedOK /\ \A w \in AllWriters : CallOK(w)
    BY DEF Inv
  <2>1. /\ UNCHANGED <<chain, writers, mined, pos, polled, queue, backfill, late, crashes>>
        /\ UNCHANGED <<count, member, role, history, pin, todo, memberOf, roleOf, countOf, event>>
        /\ Sent' = Sent /\ notifyCh' = notifyCh /\ notified' = notified /\ lost' = lost
    BY <1>6, SentStays DEF vars, feedVars, groupVars, callVars, loadVars
  <2>2. TypeOK'
    BY <2>0, <2>1 DEF TypeOK, FeedTypeOK
  <2>3. FeedOK' /\ \A w \in AllWriters : CallOK(w)'
    BY <2>0, <2>1 DEF FeedOK, Ahead, CallOK, Busy, Progress
  <2>4. pos \in Nat /\ mined \in Nat /\ pos' \in 0..pos /\ mined <= mined'
    BY <2>0, <2>1, ChainFacts
  <2>5. \A v \in AllWriters : \A t, x : (Did(v, t, x)' <=> Did(v, t, x)) /\ (At(v, t, x)' <=> At(v, t, x))
    BY <2>1 DEF Did, At, Busy, Progress
  <2>6. NoEffect
    BY <2>1, <2>4, <2>5 DEF NoEffect
  <2> QED BY <2>2, <2>3, <2>6, NoEffectKeeps DEF Inv
<1> QED BY <1>1, <1>2, <1>3, <1>4, <1>5, <1>6, <1>7 DEF Next
-----------------------------------------------------------------------------
(* What the invariant says when everything has been routed *)

LEMMA CardinalityOne == Inv /\ Cardinality(writers) = 1 => OneWriter
<1> SUFFICES ASSUME Inv, Cardinality(writers) = 1 PROVE OneWriter
  OBVIOUS
<1>1. writers \subseteq {"scan", "mempool"}
  BY ChainFacts DEF Inv
<1>2. IsFiniteSet({"scan"} \cup {"mempool"}) /\ writers \subseteq {"scan"} \cup {"mempool"}
  BY <1>1, FS_Singleton, FS_Union
<1>3. IsFiniteSet(writers)
  BY <1>2, FS_Subset
<1>4. \E w : writers = {w}
  BY <1>3, FS_Singleton
<1> QED BY <1>1, <1>4 DEF OneWriter, AllWriters

LEMMA AtMostOne ==
    ASSUME Inv, NEW u, Cardinality(RolePins(u)) <= 1, NEW p \in RolePins(u), NEW q \in RolePins(u)
    PROVE  p = q
<1>1. Len(chain) \in Nat
  BY ChainFacts DEF Inv
<1>2. IsFiniteSet(1..Len(chain))
  BY <1>1, FS_Interval
<1>3. IsFiniteSet(PinsOf(chain))
  <2> DEFINE g == [i \in 1..Len(chain) |-> chain[i]]
  <2>1. g \in Surjection(1..Len(chain), PinsOf(chain))
    BY DEF PinsOf, Surjection
  <2> HIDE DEF g
  <2> QED BY <1>2, <2>1, FS_Surjection
<1>4. IsFiniteSet(RolePins(u))
  BY <1>3, FS_Subset DEF RolePins, ChainPins
<1>5. Cardinality(RolePins(u)) \in Nat /\ Cardinality(RolePins(u)) # 0
  BY <1>4, FS_CardinalityType, FS_EmptySet
<1>6. Cardinality(RolePins(u)) = 1
  BY <1>5
<1> QED BY <1>4, <1>6, FS_Singleton

LEMMA QuietFacts ==
    ASSUME Inv, Quiet, "scan" \in writers
    PROVE  pos = Len(chain) /\ mined = Len(chain) /\ Len(chain) \in Nat
  BY ChainFacts DEF Inv, Quiet, AllRouted

\* A pin about u's role has a position, and the role exists.
LEMMA RolePinDone ==
    ASSUME Inv, Quiet, "scan" \in writers, NEW u \in Users, NEW p \in RolePins(u)
    PROVE  /\ role[u] # NoRole /\ Touches(p, u)
           /\ \E i \in 1..pos : chain[i] = p
<1>1. pos = Len(chain)
  BY QuietFacts
<1>2. p \in PinsOf(chain) /\ Touches(p, u)
  BY DEF RolePins, ChainPins, Touches
<1>3. PICK i \in 1..pos : chain[i] = p
  BY <1>1, <1>2 DEF PinsOf
<1> QED BY <1>2, <1>3 DEF Inv, RolesDone

LEMMA RolesFromInv == Inv => RolesConverge
<1> SUFFICES ASSUME Inv, Quiet, "scan" \in writers, NEW u \in Users,
                    ScanOnly \/ Cardinality(RolePins(u)) <= 1
             PROVE  /\ IsAdmin(u) <=> Raises(u)
                    /\ IsListedAdmin(u) <=> Raises(u) /\ Entered(u)
                    /\ IsBlocked(u) <=> BlockedAt(u, Len(chain))
  BY DEF RolesConverge, Raises, Entered
<1>1. pos = Len(chain) /\ mined = Len(chain) /\ Len(chain) \in Nat
  BY QuietFacts
<1>2. RolesOK /\ MembersOK /\ MembersDone /\ FlagsOK
  BY DEF Inv
<1>3. (IsAdmin(u) => Raises(u)) /\ (IsListedAdmin(u) => Raises(u) /\ Entered(u))
  BY <1>2 DEF IsAdmin, IsListedAdmin, RolesOK, RoleHasPin, MembersOK, MemberHasPin, MembersDone
<1>4. ScanOnly => OneWriter
  BY DEF ScanOnly, OneWriter, AllWriters
<1>5. ASSUME Raises(u) PROVE IsAdmin(u) /\ (Entered(u) => IsListedAdmin(u))
  <2>1. PICK p \in RolePins(u) : Op[p] # "block"
    BY <1>5 DEF Raises
  <2>2. PICK i \in 1..pos : chain[i] = p
    BY <2>1, RolePinDone
  <2>3. role[u] # NoRole /\ Touches(p, u)
    BY <2>1, RolePinDone
  <2>6. Entered(u) => member[u] # NoMember
    <3> SUFFICES ASSUME Entered(u) PROVE member[u] # NoMember
      OBVIOUS
    <3>1. PICK q \in ChainPins : Enters(q, u)
      BY DEF Entered
    <3>2. PICK j \in 1..pos : chain[j] = q
      BY <1>1, <3>1 DEF ChainPins, PinsOf
    <3> QED BY <1>2, <3>1, <3>2 DEF MembersDone
  <2>4. CASE ScanOnly
    BY <1>2, <1>4, <2>1, <2>2, <2>3, <2>4, <2>6 DEF FlagsOK, IsAdmin, IsListedAdmin
  <2>5. CASE Cardinality(RolePins(u)) <= 1
    <3>1. ~Blocks(u)
      BY <2>1, <2>5, AtMostOne DEF Blocks
    <3> QED BY <1>2, <2>3, <2>6, <3>1 DEF RolesOK, IsAdmin, IsListedAdmin
  <2> QED BY <2>4, <2>5
<1>6. CASE ScanOnly
  <2>1. PICK n \in pos..mined : IsBlocked(u) <=> BlockedAt(u, n)
    BY <1>2, <1>4, <1>6 DEF FlagsOK
  <2>2. n = Len(chain)
    BY <1>1
  <2> QED BY <1>3, <1>5, <2>1, <2>2
<1>7. CASE Cardinality(RolePins(u)) <= 1
  <2>1. ASSUME IsBlocked(u) PROVE BlockedAt(u, Len(chain))
    <3>1. PICK p \in RolePins(u) : Op[p] = "block"
      BY <1>2, <2>1 DEF IsBlocked, RolesOK, RoleHasPin, Blocks
    <3>2. PICK i \in 1..pos : chain[i] = p
      BY <3>1, RolePinDone
    <3>3. chain[i] \in Valid /\ Op[chain[i]] = "block" /\ Names(chain[i], u)
      BY <3>1, <3>2 DEF RolePins, ChainPins
    <3>4. ASSUME NEW j \in (i + 1)..Len(chain), chain[j] \in Valid, Op[chain[j]] = "create" PROVE By[chain[j]] # u
      <4>1. j \in 1..Len(chain)
        BY <1>1
      <4>2. By[chain[j]] = u => chain[j] \in RolePins(u)
        BY <3>4, <4>1 DEF RolePins, ChainPins, PinsOf
      <4> QED BY <1>7, <3>1, <3>4, <4>2, AtMostOne
    <3> QED BY <1>1, <3>3, <3>4 DEF BlockedAt
  <2>2. ASSUME BlockedAt(u, Len(chain)) PROVE IsBlocked(u)
    <3>1. PICK i \in 1..Len(chain) : chain[i] \in Valid /\ Op[chain[i]] = "block" /\ Names(chain[i], u)
      BY <2>2 DEF BlockedAt
    <3>2. chain[i] \in RolePins(u)
      BY <3>1 DEF RolePins, ChainPins, PinsOf
    <3>3. ~Raises(u)
      BY <1>7, <3>1, <3>2, AtMostOne DEF Raises
    <3>4. role[u] # NoRole
      BY <3>2, RolePinDone
    <3> QED BY <1>2, <3>3, <3>4 DEF RolesOK, IsBlocked
  <2> QED BY <1>3, <1>5, <2>1, <2>2
<1> QED BY <1>6, <1>7

LEMMA MembersFromInv == Inv => MembersConverge
<1> SUFFICES ASSUME Inv, Quiet, "scan" \in writers, NEW u \in Users, Undisturbed(u)
             PROVE  IsUserInGroup(u) <=> InGroup(u, Len(chain) + 1)
  BY DEF MembersConverge, Undisturbed
<1>1. pos = Len(chain) /\ Len(chain) \in Nat
  BY QuietFacts
<1>2. PICK h \in pos..Len(chain) : IsUserInGroup(u) <=> InGroup(u, h + 1)
  BY DEF Inv, MembershipOK, InGroupFrom
<1>3. h = Len(chain)
  BY <1>1
<1> QED BY <1>2, <1>3

LEMMA MessagesFromInv == Inv => MessageReachesMembers
<1> SUFFICES ASSUME Inv, Quiet, notifyCh = << >>, "scan" \in writers, NEW i \in 1..Len(chain),
                    chain[i] \in Valid, Op[chain[i]] = "chat", NEW u \in Users,
                    u = By[chain[i]] \/ InGroup(u, i), ScanOnly \/ NeverLeaves(u)
             PROVE  <<u, chain[i]>> \in notified \cup lost
  BY DEF MessageReachesMembers, NeverLeaves
<1>1. pos = Len(chain) /\ Len(chain) \in Nat
  BY QuietFacts
<1>2. PICK h \in pos..Len(chain) : Told(u, h)
  BY DEF Inv, MessagesOK
<1>3. i \in 1..h
  BY <1>1
<1>4. Waiting = {}
  BY DEF Waiting
<1> QED BY <1>2, <1>3, <1>4 DEF Told, Sent

-----------------------------------------------------------------------------
(* Theorems *)

\* Every variable keeps its type with any set of goroutines: what is left of a
\* call is always a sequence of steps, a role or member record that is written
\* back was read before, and the member count does not go below zero.
THEOREM TypeCorrect == Spec => []TypeOK
<1>1. Inv => TypeOK
  BY DEF Inv
<1> QED BY <1>1, InitInv, NextInv, PTL DEF Spec

\* The admins and blocked users of the group (GetGroupUserRole and
\* GetGroupJoinControlList) end as the chain has them, and GetGroupMemberList
\* lists those admins who were ever in the group, for every list of users
\* that handleGroupAdmin and handleGroupBlock go through, every interleaving of
\* the two goroutines and every number of crashes.
THEOREM RolesConvergeHolds == Spec => []RolesConverge
  BY RolesFromInv, InitInv, NextInv, PTL DEF Spec

\* Who is in the group (IsUserInGroup) ends as the join, leave, create and chat
\* pins of the chain have it, although no handler recognises a pin that comes
\* again and the position of the scan goes back in a crash.
THEOREM MembersConvergeHolds == Spec => []MembersConverge
  BY MembersFromInv, InitInv, NextInv, PTL DEF Spec

\* Every single chat message is pushed to its sender and to everybody who is in
\* the group when it is sent, unless sendNotifyEvent found the channel full or a
\* crash emptied it, for every capacity of the channel (handleGroupChat,
\* GroupMemberTargetIds, consumeNotifyEvents).
THEOREM MessageReachesMembersHolds == Spec => []MessageReachesMembers
  BY MessagesFromInv, InitInv, NextInv, PTL DEF Spec

\* With one goroutine a user to whom the socket server has pushed an admin or
\* block event has that role, at every moment (sendNotifyEvent after
\* saveGroupMemberRole), and an admin with a member record is listed as one.
THEOREM NotifiedIsAppliedHolds == Spec => []NotifiedIsApplied
<1>1. Inv => NotifiedIsApplied
  BY CardinalityOne DEF Inv, FlagsOK, Sent, NotifiedIsApplied, IsAdmin, IsListedAdmin, NeverCreates
<1> QED BY <1>1, InitInv, NextInv, PTL DEF Spec
=============================================================================
