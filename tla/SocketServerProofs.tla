------------------------- MODULE SocketServerProofs -------------------------
(***************************************************************************)
(* Proofs about SocketServer for any number of connections, users and any  *)
(* positive device limits: the device limit, the eviction order and the    *)
(* fact that no close loses its Remove, all through one inductive          *)
(* invariant.                                                              *)
(***************************************************************************)
EXTENDS SocketServer, FiniteSetTheorems, TLAPS

\* onConnection is past the critical section of Add.
AddDone == {"evict", "register", "serving"}

\* Where onConnection is decides what else can hold of a connection.
Bookkeeping ==
    \A s \in Sock :
        /\ s \in tracked \cup stale => pc[s] \in AddDone
        /\ pc[s] \in AddDone => addedAt[s] < added
        /\ s \in handlers => pc[s] = "serving"
        /\ sock[s] = "new" => pc[s] = "idle"
        /\ runner[s] # NoOne => sock[s] = "closed"
        /\ pc[s] = "evict" => victim[s] \in Sock /\ pc[victim[s]] \in AddDone

Inv ==
    /\ TypeOK
    /\ Bookkeeping
    /\ DeviceLimit
    /\ NewestSurvive
    /\ ClosedIsBeingRemoved

\* The connections of one user and type in a set of tracked connections.
Class(T, m, t) == {s \in T : MetaIdOf[s] = m /\ TypeOf[s] = t}

\* Add below the limit: one more connection still fits.
LEMMA AddFits ==
    ASSUME NEW T \in SUBSET Sock, NEW s \in Sock, NEW m, NEW t, NEW n \in Nat,
           Cardinality(Class(T, m, t)) <= n,
           MetaIdOf[s] = m /\ TypeOf[s] = t => Cardinality(Class(T, m, t)) < n
    PROVE  Cardinality(Class(T \cup {s}, m, t)) <= n
<1>1. IsFiniteSet(Class(T, m, t))
  BY SockAssumption, FS_Subset DEF Class
<1>2. Cardinality(Class(T, m, t)) \in Nat
  BY <1>1, FS_CardinalityType
<1>3. CASE MetaIdOf[s] = m /\ TypeOf[s] = t
  <2>1. Class(T \cup {s}, m, t) = Class(T, m, t) \cup {s}
    BY <1>3 DEF Class
  <2>2. Cardinality(Class(T, m, t) \cup {s}) <= Cardinality(Class(T, m, t)) + 1
    <3> DEFINE C == Class(T, m, t)
    <3> HIDE DEF C
    <3>1. Cardinality(C \cup {s}) \in {Cardinality(C), Cardinality(C) + 1}
      BY <1>1, FS_AddElement DEF C
    <3>2. Cardinality(C) \in Nat
      BY <1>2 DEF C
    <3>3. Cardinality(C \cup {s}) <= Cardinality(C) + 1
      BY <3>1, <3>2
    <3> QED BY <3>3 DEF C
  <2>3. Cardinality(Class(T, m, t) \cup {s}) \in Nat
    BY <1>1, FS_AddElement, FS_CardinalityType
  <2>4. Cardinality(Class(T, m, t)) + 1 <= n
    BY <1>2, <1>3
  <2>5. \A a, b \in Nat : a <= b + 1 /\ b + 1 <= n => a <= n
    OBVIOUS
  <2>6. Cardinality(Class(T, m, t) \cup {s}) <= n
    BY <1>2, <2>2, <2>3, <2>4, <2>5
  <2> QED BY <2>1, <2>6
<1>4. CASE ~(MetaIdOf[s] = m /\ TypeOf[s] = t)
  <2>1. Class(T \cup {s}, m, t) = Class(T, m, t)
    BY <1>4 DEF Class
  <2> QED BY <2>1
<1> QED BY <1>3, <1>4

\* Dropping connections never breaks a limit.
LEMMA DropFits ==
    ASSUME NEW T \in SUBSET Sock, NEW U \in SUBSET T, NEW m, NEW t, NEW n \in Nat,
           Cardinality(Class(T, m, t)) <= n
    PROVE  Cardinality(Class(U, m, t)) <= n
<1>1. IsFiniteSet(Class(T, m, t))
  BY SockAssumption, FS_Subset DEF Class
<1>2. Class(U, m, t) \subseteq Class(T, m, t)
  BY DEF Class
<1>3. /\ Cardinality(Class(U, m, t)) <= Cardinality(Class(T, m, t))
      /\ IsFiniteSet(Class(U, m, t))
  BY <1>1, <1>2, FS_Subset
<1>4. Cardinality(Class(U, m, t)) \in Nat /\ Cardinality(Class(T, m, t)) \in Nat
  BY <1>1, <1>3, FS_CardinalityType
<1> QED BY <1>3, <1>4

\* Replacing a tracked connection by another of its user and type keeps the
\* count: the oldest goes, the new one comes.
LEMMA ReplaceFits ==
    ASSUME NEW T \in SUBSET Sock, NEW s \in Sock, NEW v \in T, NEW m, NEW t, NEW n \in Nat,
           MetaIdOf[v] = MetaIdOf[s], TypeOf[v] = TypeOf[s],
           Cardinality(Class(T, m, t)) <= n
    PROVE  Cardinality(Class((T \ {v}) \cup {s}, m, t)) <= n
<1> DEFINE U == T \ {v}
<1>1. U \in SUBSET T /\ U \in SUBSET Sock
  OBVIOUS
<1>2. Cardinality(Class(U, m, t)) <= n
  BY <1>1, DropFits
<1>3. ASSUME MetaIdOf[s] = m /\ TypeOf[s] = t
      PROVE  Cardinality(Class(U, m, t)) < n
  <2>1. v \in Class(T, m, t) /\ Class(U, m, t) = Class(T, m, t) \ {v}
    BY <1>3 DEF Class
  <2>2. IsFiniteSet(Class(T, m, t))
    BY SockAssumption, FS_Subset DEF Class
  <2>3. Cardinality(Class(T, m, t)) \in Nat
    BY <2>2, FS_CardinalityType
  <2> HIDE DEF U
  <2>4. Cardinality(Class(T, m, t) \ {v}) = Cardinality(Class(T, m, t)) - 1
    BY <2>1, <2>2, FS_RemoveElement
  <2>5. \A a \in Nat : a <= n => a - 1 < n
    OBVIOUS
  <2> QED BY <2>1, <2>3, <2>4, <2>5
<1> QED BY <1>1, <1>2, <1>3, AddFits

\* A device limit is a number, whatever the connection type.
LEMMA LimitIsNat == \A t : Limit(t) \in Nat
BY LimitAssumption DEF Limit

-----------------------------------------------------------------------------

\* The invariant holds before the first connection.
LEMMA InitInv == Init => Inv
<1> SUFFICES ASSUME Init PROVE Inv
  OBVIOUS
<1>1. TypeOK
  BY SockAssumption DEF Init, TypeOK, Runners
<1>2. Bookkeeping
  BY DEF Init, Bookkeeping, AddDone
<1>3. DeviceLimit
  <2> SUFFICES ASSUME NEW m \in MetaIds, NEW t \in ConnTypes
               PROVE  Cardinality({s \in tracked : MetaIdOf[s] = m /\ TypeOf[s] = t}) <= Limit(t)
    BY DEF DeviceLimit
  <2>1. {s \in tracked : MetaIdOf[s] = m /\ TypeOf[s] = t} = {}
    BY DEF Init
  <2> QED BY <2>1, FS_EmptySet, LimitIsNat
<1>4. NewestSurvive /\ ClosedIsBeingRemoved
  BY DEF Init, NewestSurvive, ClosedIsBeingRemoved
<1> QED BY <1>1, <1>2, <1>3, <1>4 DEF Inv

\* Steps that leave the manager's map alone and change no more than the
\* handlers, the clock and the goroutines' own state keep the limit.
LEMMA SameTracked ==
    ASSUME DeviceLimit, tracked' = tracked
    PROVE  DeviceLimit'
BY DEF DeviceLimit, Limit

\* A step that only takes connections off the manager keeps the limit.
LEMMA FewerTracked ==
    ASSUME TypeOK, DeviceLimit, tracked' \in SUBSET tracked
    PROVE  DeviceLimit'
<1> SUFFICES ASSUME NEW m \in MetaIds, NEW t \in ConnTypes
             PROVE  Cardinality(Class(tracked', m, t)) <= Limit(t)
  BY DEF DeviceLimit, Class, Limit
<1>1. Cardinality(Class(tracked, m, t)) <= Limit(t)
  BY DEF DeviceLimit, Class
<1> QED BY <1>1, LimitIsNat, DropFits DEF TypeOK

\* Steps in which a connection may close (Disconnect called by goroutine g)
\* and nothing else about the manager changes.
LEMMA DisconnectInv ==
    ASSUME Inv, NEW v \in Sock, NEW g \in Runners, Disconnect(v, g),
           UNCHANGED <<pc, victim, handlers, managerVars>>, stale' \in SUBSET stale
    PROVE  /\ sock' \in [Sock -> {"new", "open", "closed"}]
           /\ runner' \in [Sock -> Runners \cup {NoOne}]
           /\ sock[v] # "new" => Bookkeeping'
           /\ DeviceLimit' /\ NewestSurvive' /\ ClosedIsBeingRemoved'
<1> USE DEF Inv, Disconnect, managerVars
<1>1. /\ sock' \in [Sock -> {"new", "open", "closed"}]
      /\ runner' \in [Sock -> Runners \cup {NoOne}]
  BY DEF TypeOK
<1>2. ASSUME sock[v] # "new" PROVE Bookkeeping'
  BY <1>2 DEF TypeOK, Bookkeeping, AddDone
<1>3. DeviceLimit'
  BY SameTracked
<1>4. NewestSurvive'
  BY DEF TypeOK, NewestSurvive
<1>5. ClosedIsBeingRemoved'
  <2>1. g # NoOne
    BY SockAssumption DEF Runners
  <2>2. v \in handlers => sock[v] # "new"
    BY DEF Bookkeeping
  <2> QED BY <2>1, <2>2 DEF TypeOK, ClosedIsBeingRemoved
<1> QED BY <1>1, <1>2, <1>3, <1>4, <1>5

\* Stuttering keeps the invariant.
LEMMA UnchangedInv ==
    ASSUME Inv, UNCHANGED <<connVars, managerVars>>, TypeOK',
           stale' \in SUBSET (tracked \cup stale)
    PROVE  Inv'
<1>1. Bookkeeping' /\ NewestSurvive' /\ ClosedIsBeingRemoved'
  BY DEF Inv, Bookkeeping, NewestSurvive, ClosedIsBeingRemoved, connVars, managerVars
<1>2. DeviceLimit'
  BY SameTracked DEF Inv, managerVars
<1> QED BY <1>1, <1>2 DEF Inv

\* The invariant is inductive: one case per action.
LEMMA NextInv == Inv /\ [Next]_vars => Inv'
<1> SUFFICES ASSUME Inv, [Next]_vars PROVE Inv'
  OBVIOUS
<1> USE DEF Inv
<1>1. ASSUME NEW s \in Sock, Connect(s) PROVE Inv'
  <2>1. TypeOK'
    BY <1>1 DEF TypeOK, Connect, managerVars, cleanupVars, stopVars
  <2>2. Bookkeeping'
    BY <1>1 DEF TypeOK, Connect, Bookkeeping, AddDone, managerVars, cleanupVars
  <2>3. DeviceLimit'
    BY <1>1, SameTracked DEF Connect, managerVars
  <2>4. NewestSurvive' /\ ClosedIsBeingRemoved'
    BY <1>1 DEF TypeOK, Connect, Bookkeeping, AddDone, NewestSurvive,
                ClosedIsBeingRemoved, managerVars
  <2> QED BY <2>1, <2>2, <2>3, <2>4
<1>2. ASSUME NEW s \in Sock, RejectMissingMetaId(s) PROVE Inv'
  <2>1. TypeOK'
    BY <1>2 DEF TypeOK, RejectMissingMetaId, managerVars, cleanupVars, stopVars
  <2>2. Bookkeeping'
    BY <1>2 DEF TypeOK, RejectMissingMetaId, Bookkeeping, AddDone, managerVars, cleanupVars
  <2>3. DeviceLimit'
    BY <1>2, SameTracked DEF RejectMissingMetaId, managerVars
  <2>4. NewestSurvive' /\ ClosedIsBeingRemoved'
    BY <1>2 DEF TypeOK, RejectMissingMetaId, Bookkeeping, AddDone, NewestSurvive,
                ClosedIsBeingRemoved, managerVars
  <2> QED BY <2>1, <2>2, <2>3, <2>4
<1>3. ASSUME NEW s \in Sock, AddWithinLimit(s) PROVE Inv'
  <2> USE <1>3 DEF AddWithinLimit, Append
  <2>1. TypeOK'
    BY DEF TypeOK, cleanupVars, stopVars
  <2>2. Bookkeeping'
    BY DEF TypeOK, Bookkeeping, AddDone, cleanupVars
  <2>3. DeviceLimit'
    <3> SUFFICES ASSUME NEW m \in MetaIds, NEW t \in ConnTypes
                 PROVE  Cardinality(Class(tracked \cup {s}, m, t)) <= Limit(t)
      BY DEF DeviceLimit, Class, Limit
    <3>1. Cardinality(Class(tracked, m, t)) <= Limit(t)
      BY DEF DeviceLimit, Class
    <3>2. MetaIdOf[s] = m /\ TypeOf[s] = t
          => Cardinality(Class(tracked, m, t)) < Limit(t)
      BY DEF SameType, Class
    <3>3. tracked \in SUBSET Sock /\ Limit(t) \in Nat
      BY LimitIsNat DEF TypeOK
    <3> HIDE <1>3
    <3> QED BY <3>1, <3>2, <3>3, AddFits
  <2>4. NewestSurvive'
    BY DEF TypeOK, Bookkeeping, AddDone, NewestSurvive
  <2>5. ClosedIsBeingRemoved'
    BY DEF TypeOK, Bookkeeping, ClosedIsBeingRemoved
  <2> QED BY <2>1, <2>2, <2>3, <2>4, <2>5
<1>4. ASSUME NEW s \in Sock, AddEvictOldest(s) PROVE Inv'
  <2> PICK v \in SameType(s) :
              /\ \A t \in SameType(s) : addedAt[v] <= addedAt[t]
              /\ tracked' = (tracked \ {v}) \cup {s}
              /\ victim' = [victim EXCEPT ![s] = v]
    BY <1>4 DEF AddEvictOldest
  <2>v. v \in tracked /\ v \in Sock /\ MetaIdOf[v] = MetaIdOf[s] /\ TypeOf[v] = TypeOf[s]
    BY DEF SameType, TypeOK
  <2>a. /\ pc[s] = "add"
        /\ Append(s)
        /\ pc' = [pc EXCEPT ![s] = "evict"]
        /\ UNCHANGED <<sock, handlers, runner, cleanupVars, stopVars, now>>
    BY <1>4 DEF AddEvictOldest
  <2>1. TypeOK'
    BY <2>a, <2>v DEF TypeOK, Append, cleanupVars, stopVars
  <2>2. Bookkeeping'
    BY <2>a, <2>v DEF TypeOK, Append, Bookkeeping, AddDone, cleanupVars
  <2>3. DeviceLimit'
    <3> SUFFICES ASSUME NEW m \in MetaIds, NEW t \in ConnTypes
                 PROVE  Cardinality(Class((tracked \ {v}) \cup {s}, m, t)) <= Limit(t)
      BY DEF DeviceLimit, Class, Limit
    <3>1. Cardinality(Class(tracked, m, t)) <= Limit(t)
      BY DEF DeviceLimit, Class
    <3>2. tracked \in SUBSET Sock /\ Limit(t) \in Nat
      BY LimitIsNat DEF TypeOK
    <3> QED BY <2>v, <3>1, <3>2, ReplaceFits
  <2>4. NewestSurvive'
    <3> SUFFICES ASSUME NEW x \in Sock, NEW y \in Sock,
                        x \in tracked', y \notin tracked',
                        MetaIdOf[x] = MetaIdOf[y], TypeOf[x] = TypeOf[y],
                        pc'[y] \in AddDone, addedAt'[y] > addedAt'[x]
                 PROVE  sock'[y] = "closed"
      BY DEF NewestSurvive, AddDone
    <3>1. y # s
      OBVIOUS
    <3>2. x # s
      BY <2>a, <3>1 DEF Append, TypeOK, Bookkeeping
    <3>3. x \in tracked /\ addedAt'[x] = addedAt[x] /\ addedAt'[y] = addedAt[y] /\ pc'[y] = pc[y]
      BY <2>a, <3>1, <3>2 DEF Append, TypeOK
    <3>4. CASE y = v
      <4>1. x \in SameType(s)
        BY <3>3, <3>4, <2>v DEF SameType
      <4>2. addedAt[v] <= addedAt[x]
        BY <4>1
      <4> QED BY <4>2, <3>3, <3>4 DEF TypeOK
    <3>5. CASE y # v
      BY <3>1, <3>3, <3>5, <2>a DEF NewestSurvive, AddDone
    <3> QED BY <3>4, <3>5
  <2>5. ClosedIsBeingRemoved'
    BY <2>a, <2>v DEF TypeOK, Bookkeeping, ClosedIsBeingRemoved
  <2> QED BY <2>1, <2>2, <2>3, <2>4, <2>5
<1>5. ASSUME NEW s \in Sock, DisconnectVictim(s) PROVE Inv'
  <2> USE <1>5 DEF DisconnectVictim
  <2> DEFINE v == victim[s]
  <2>1. v \in Sock /\ s \in Runners /\ sock[v] # "new"
    BY DEF Bookkeeping, AddDone, Runners
  <2>2. Disconnect(v, s) /\ UNCHANGED <<handlers, managerVars>>
    OBVIOUS
  <2>3. TypeOK'
    BY <2>1, <2>2 DEF TypeOK, Disconnect, managerVars, cleanupVars, stopVars
  <2>4. DeviceLimit'
    BY SameTracked DEF managerVars
  <2>5. Bookkeeping'
    BY <2>1, <2>2 DEF TypeOK, Disconnect, Bookkeeping, AddDone, managerVars, cleanupVars
  <2>6. NewestSurvive'
    BY <2>1, <2>2 DEF TypeOK, Disconnect, NewestSurvive, managerVars
  <2>7. ClosedIsBeingRemoved'
    <3>1. s # NoOne
      BY SockAssumption
    <3> QED BY <2>1, <2>2, <3>1 DEF TypeOK, Disconnect, ClosedIsBeingRemoved, managerVars
  <2> QED BY <2>3, <2>4, <2>5, <2>6, <2>7
<1>6. ASSUME NEW s \in Sock, RegisterHandlers(s) PROVE Inv'
  <2> USE <1>6 DEF RegisterHandlers
  <2>1. TypeOK'
    BY DEF TypeOK, managerVars, cleanupVars, stopVars
  <2>2. Bookkeeping'
    BY DEF TypeOK, Bookkeeping, AddDone, managerVars, cleanupVars
  <2>3. DeviceLimit'
    BY SameTracked DEF managerVars
  <2>4. NewestSurvive' /\ ClosedIsBeingRemoved'
    BY DEF TypeOK, NewestSurvive, ClosedIsBeingRemoved, managerVars
  <2> QED BY <2>1, <2>2, <2>3, <2>4
<1>7. ASSUME NEW s \in Sock, Ping(s) PROVE Inv'
  <2> USE <1>7 DEF Ping
  <2>1. TypeOK'
    BY DEF TypeOK, connVars, cleanupVars, stopVars
  <2>2. Bookkeeping' /\ NewestSurvive' /\ ClosedIsBeingRemoved'
    BY DEF Bookkeeping, NewestSurvive, ClosedIsBeingRemoved, connVars, cleanupVars
  <2>3. DeviceLimit'
    BY SameTracked
  <2> QED BY <2>1, <2>2, <2>3
<1>8. ASSUME NEW s \in Sock, ClientClose(s) PROVE Inv'
  <2>1. "transport" \in Runners /\ sock[s] # "new"
    BY <1>8 DEF Runners, ClientClose
  <2>2. TypeOK'
    BY <1>8, <2>1, DisconnectInv DEF TypeOK, ClientClose, managerVars, cleanupVars, stopVars
  <2> QED BY <1>8, <2>1, <2>2, DisconnectInv DEF ClientClose, cleanupVars
<1>9. ASSUME NEW s \in Sock, Remove(s) PROVE Inv'
  <2> USE <1>9 DEF Remove
  <2>1. TypeOK'
    BY DEF TypeOK, cleanupVars, stopVars
  <2>2. Bookkeeping'
    BY DEF TypeOK, Bookkeeping, AddDone, cleanupVars
  <2>3. DeviceLimit'
    BY FewerTracked
  <2>4. NewestSurvive' /\ ClosedIsBeingRemoved'
    BY DEF TypeOK, Bookkeeping, NewestSurvive, ClosedIsBeingRemoved
  <2> QED BY <2>1, <2>2, <2>3, <2>4
<1>10. CASE FindStaleConnections \/ CleanupReturns
  <2> USE <1>10 DEF FindStaleConnections, CleanupReturns
  <2>1. UNCHANGED <<connVars, managerVars, stopVars, now>>
    OBVIOUS
  <2>2. stale' \in SUBSET (tracked \cup stale)
    OBVIOUS
  <2>3. cleanupAlive' \in BOOLEAN /\ stale' \in SUBSET Sock
    BY <2>2 DEF TypeOK
  <2>4. TypeOK'
    BY <2>1, <2>3 DEF TypeOK, connVars, managerVars, stopVars
  <2> QED BY <2>1, <2>2, <2>4, UnchangedInv
<1>11. CASE CloseStopCh \/ LockAll \/ UnlockAll \/ ShutdownReturns \/ Tick
  <2> USE <1>11 DEF CloseStopCh, LockAll, UnlockAll, ShutdownReturns, Tick
  <2>1. UNCHANGED <<connVars, managerVars, cleanupVars, swept>>
    BY DEF stopVars
  <2>2. lock' \in BOOLEAN
    BY DEF TypeOK, stopVars
  <2>3. /\ stopPC' \in {"running", "locking", "sweeping", "closing", "stopped"}
        /\ now' \in Nat
    BY DEF TypeOK, stopVars
  <2>4. TypeOK'
    BY <2>1, <2>2, <2>3 DEF TypeOK, connVars, managerVars, cleanupVars
  <2> QED BY <2>1, <2>4, UnchangedInv DEF cleanupVars
<1>12. CASE DisconnectStale
  <2> PICK s \in stale : Disconnect(s, "cleanup") /\ stale' = stale \ {s}
    BY <1>12 DEF DisconnectStale
  <2>1. "cleanup" \in Runners /\ s \in Sock /\ sock[s] # "new"
    BY DEF Runners, TypeOK, Bookkeeping, AddDone
  <2>2. UNCHANGED <<pc, victim, handlers, managerVars>>
    BY <1>12 DEF DisconnectStale
  <2>3. TypeOK'
    BY <1>12, <2>1, <2>2, DisconnectInv DEF TypeOK, DisconnectStale, managerVars, stopVars
  <2> QED BY <2>1, <2>2, <2>3, DisconnectInv
<1>13. ASSUME NEW s \in Sock, SweepConnection(s) \/ CloseConnection(s) PROVE Inv'
  <2> USE <1>13 DEF SweepConnection, CloseConnection
  <2>1. "shutdown" \in Runners /\ sock[s] # "new"
    BY DEF Runners, Bookkeeping, AddDone
  <2>2. Disconnect(s, "shutdown") /\ UNCHANGED <<pc, victim, handlers, managerVars>>
    OBVIOUS
  <2>3. TypeOK'
    BY <2>1, <2>2, DisconnectInv DEF TypeOK, managerVars, cleanupVars, stopVars
  <2> QED BY <2>1, <2>2, <2>3, DisconnectInv DEF cleanupVars
<1>14. ASSUME NEW m \in MetaIds, DeleteUser(m) PROVE Inv'
  <2> USE <1>14 DEF DeleteUser
  <2>1. TypeOK'
    BY DEF TypeOK, connVars, cleanupVars, stopVars
  <2>2. Bookkeeping' /\ ClosedIsBeingRemoved'
    BY DEF TypeOK, Bookkeeping, ClosedIsBeingRemoved, connVars, cleanupVars
  <2>3. DeviceLimit'
    BY FewerTracked
  <2>4. NewestSurvive'
    BY DEF TypeOK, NewestSurvive, connVars
  <2> QED BY <2>1, <2>2, <2>3, <2>4
<1>15. CASE UNCHANGED vars
  <2>1. TypeOK'
    BY <1>15 DEF TypeOK, vars, connVars, managerVars, cleanupVars, stopVars
  <2> QED BY <1>15, <2>1, UnchangedInv DEF vars, cleanupVars
<1> HIDE DEF Inv
<1> QED BY <1>1, <1>2, <1>3, <1>4, <1>5, <1>6, <1>7, <1>8, <1>9, <1>10, <1>12, <1>13,
           <1>14, <1>15, <1>11
        DEF Next, OnConnection, TimeoutCleanup, Shutdown, DisconnectAll

-----------------------------------------------------------------------------

\* The invariant holds in every state of every behaviour.
THEOREM SpecInv == Spec => []Inv
<1> QED BY InitInv, NextInv, PTL DEF Spec

\* The variables keep their types.
THEOREM TypeCorrect == Spec => []TypeOK
<1>1. Inv => TypeOK
  BY DEF Inv
<1> QED BY <1>1, SpecInv, PTL

\* No interleaving of Add, Remove, timeouts and shutdown lets a user keep more
\* tracked connections of a type than maxPC or maxApp.
THEOREM DeviceLimitHolds == Spec => []DeviceLimit
<1>1. Inv => DeviceLimit
  BY DEF Inv
<1> QED BY <1>1, SpecInv, PTL

\* What Add evicts is older than everything of its type that stays.
THEOREM NewestSurviveHolds == Spec => []NewestSurvive
<1>1. Inv => NewestSurvive
  BY DEF Inv
<1> QED BY <1>1, SpecInv, PTL

\* A connection that closes with its handlers set is on its way to Remove.
THEOREM ClosedIsBeingRemovedHolds == Spec => []ClosedIsBeingRemoved
<1>1. Inv => ClosedIsBeingRemoved
  BY DEF Inv
<1> QED BY <1>1, SpecInv, PTL
=============================================================================
