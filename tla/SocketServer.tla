---------------------------- MODULE SocketServer ----------------------------
(***************************************************************************)
(* The Socket.IO connection layer: ConnectionManager                       *)
(* (internal/socket/manager.go) and the goroutines of Server               *)
(* (internal/socket/server.go) that call it.                               *)
(*                                                                         *)
(* A member of Sock is one Socket.IO connection with its handshake; it is  *)
(* opened at most once.  Four kinds of goroutine act on the manager:       *)
(*   - one per connection, running onConnection (state pc[s]);             *)
(*   - the transport of a connection, delivering its pings and its close;  *)
(*   - the timeout cleanup ("cleanup");                                    *)
(*   - the goroutine that runs Shutdown ("shutdown").                      *)
(* Socket.Disconnect runs the socket's "disconnect" handler in the         *)
(* goroutine that called it.  runner[s] is the goroutine that is inside    *)
(* the handler of s, waiting to enter Remove.                              *)
(***************************************************************************)
EXTENDS Naturals, FiniteSets

CONSTANTS
    Sock,             \* the connections clients may open
    MetaIds,          \* user identities
    NoMetaId,         \* the handshake carried no metaid
    MetaIdOf,         \* MetaIdOf[s]: the handshake's metaid
    TypeOf,           \* TypeOf[s]: the handshake's type after normalisation
    MaxPC, MaxApp,    \* cfg.MaxPCPerUser, cfg.MaxAppPerUser
    StaleAfter,       \* the heartbeat timeout (35 s in the code), in clock units
    MaxTime,          \* bound on the clock
    NoOne,            \* no goroutine, no socket
    ShutdownAllowed   \* whether the operator may stop the process

ConnTypes == {"pc", "app"}

ASSUME SockAssumption ==
    /\ IsFiniteSet(Sock)
    /\ NoOne \notin Sock \cup {"transport", "cleanup", "shutdown"}
    /\ MetaIdOf \in [Sock -> MetaIds \cup {NoMetaId}]
    /\ TypeOf \in [Sock -> ConnTypes]

\* config.Validate rejects limits that are not positive.
ASSUME LimitAssumption == MaxPC \in Nat \ {0} /\ MaxApp \in Nat \ {0}

ASSUME TimeAssumption ==
    StaleAfter \in Nat /\ MaxTime \in Nat /\ ShutdownAllowed \in BOOLEAN

VARIABLES
    sock,         \* library state of a connection: "new", "open", "closed"
    pc,           \* where onConnection is for this connection
    victim,       \* the connection that Add evicted and has still to disconnect
    tracked,      \* ConnectionManager.connections, all lists together
    addedAt,      \* position of the connection in the order of Add calls
    added,        \* number of Add calls so far
    lastPing,     \* TrackedConnection.LastPing
    handlers,     \* connections that were open when their handlers were set
    runner,       \* goroutine inside the disconnect handler of s, or NoOne
    stale,        \* rest of the list the cleanup goroutine is going through
    cleanupAlive, \* the cleanup goroutine has not returned
    lock,         \* TRUE while DisconnectAll holds m.mu across callbacks
    stopPC,       \* where Shutdown is
    swept,        \* connections DisconnectAll has called Disconnect on
    now           \* clock

connVars == <<sock, pc, victim, handlers, runner>>
managerVars == <<tracked, addedAt, added, lastPing>>
cleanupVars == <<stale, cleanupAlive>>
stopVars == <<lock, stopPC, swept>>
vars == <<connVars, managerVars, cleanupVars, stopVars, now>>

Runners == Sock \cup {"transport", "cleanup", "shutdown"}

TypeOK ==
    /\ sock \in [Sock -> {"new", "open", "closed"}]
    /\ pc \in [Sock -> {"idle", "add", "evict", "register", "serving", "rejected"}]
    /\ victim \in [Sock -> Sock \cup {NoOne}]
    /\ tracked \in SUBSET Sock
    /\ addedAt \in [Sock -> Nat]
    /\ added \in Nat
    /\ lastPing \in [Sock -> Nat]
    /\ handlers \in SUBSET Sock
    /\ runner \in [Sock -> Runners \cup {NoOne}]
    /\ stale \in SUBSET Sock
    /\ cleanupAlive \in BOOLEAN
    /\ lock \in BOOLEAN
    /\ stopPC \in {"running", "locking", "sweeping", "closing", "stopped"}
    /\ swept \in SUBSET Sock
    /\ now \in Nat

Init ==
    /\ sock = [s \in Sock |-> "new"]
    /\ pc = [s \in Sock |-> "idle"]
    /\ victim = [s \in Sock |-> NoOne]
    /\ tracked = {}
    /\ addedAt = [s \in Sock |-> 0]
    /\ added = 0
    /\ lastPing = [s \in Sock |-> 0]
    /\ handlers = {}
    /\ runner = [s \in Sock |-> NoOne]
    /\ stale = {}
    /\ cleanupAlive = TRUE
    /\ lock = FALSE
    /\ stopPC = "running"
    /\ swept = {}
    /\ now = 0

-----------------------------------------------------------------------------
(* Helpers *)

\* The connections of the same user and type that the manager tracks.
SameType(s) ==
    {t \in tracked : MetaIdOf[t] = MetaIdOf[s] /\ TypeOf[t] = TypeOf[s]}

Limit(type) == IF type = "app" THEN MaxApp ELSE MaxPC

\* Goroutine g is inside a disconnect handler and has not returned from it.
Busy(g) == \E s \in Sock : runner[s] = g

\* Socket.Disconnect(true) on s, called by goroutine g: an open connection
\* closes and its handler, when one is set, starts in g; a connection that is
\* closed already is left alone.
Disconnect(s, g) ==
    /\ sock' = [sock EXCEPT ![s] = "closed"]
    /\ runner' = IF sock[s] = "open" /\ s \in handlers
                 THEN [runner EXCEPT ![s] = g]
                 ELSE runner

-----------------------------------------------------------------------------
(* onConnection, one goroutine per connection *)

\* The library accepts the connection and starts onConnection.
Connect(s) ==
    /\ sock[s] = "new"
    /\ stopPC # "stopped"
    /\ MetaIdOf[s] # NoMetaId
    /\ sock' = [sock EXCEPT ![s] = "open"]
    /\ pc' = [pc EXCEPT ![s] = "add"]
    /\ UNCHANGED <<victim, handlers, runner, managerVars, cleanupVars, stopVars, now>>

\* A handshake without metaid: connect_error, Disconnect(true), return.
RejectMissingMetaId(s) ==
    /\ sock[s] = "new"
    /\ stopPC # "stopped"
    /\ MetaIdOf[s] = NoMetaId
    /\ sock' = [sock EXCEPT ![s] = "closed"]
    /\ pc' = [pc EXCEPT ![s] = "rejected"]
    /\ UNCHANGED <<victim, handlers, runner, managerVars, cleanupVars, stopVars, now>>

\* What Add assigns on every path.  ConnectedAt is read under m.mu, so the
\* order of ConnectedAt, ties broken by list position, is the order of Add.
Append(s) ==
    /\ addedAt' = [addedAt EXCEPT ![s] = added]
    /\ added' = added + 1
    /\ lastPing' = [lastPing EXCEPT ![s] = now]

\* Mutant of AddWithinLimit: <= for <.
AddOnePastLimit(s) ==
    /\ pc[s] = "add"
    /\ ~lock
    /\ Cardinality(SameType(s)) <= Limit(TypeOf[s])
    /\ tracked' = tracked \cup {s}
    /\ Append(s)
    /\ pc' = [pc EXCEPT ![s] = "register"]
    /\ UNCHANGED <<sock, victim, handlers, runner, cleanupVars, stopVars, now>>

\* Add below the device limit.
AddWithinLimit(s) ==
    /\ pc[s] = "add"
    /\ ~lock
    /\ Cardinality(SameType(s)) < Limit(TypeOf[s])
    /\ tracked' = tracked \cup {s}
    /\ Append(s)
    /\ pc' = [pc EXCEPT ![s] = "register"]
    /\ UNCHANGED <<sock, victim, handlers, runner, cleanupVars, stopVars, now>>

\* Mutant of AddEvictOldest: the comparison of ConnectedAt is turned round.
AddEvictNewest(s) ==
    /\ pc[s] = "add"
    /\ ~lock
    /\ Cardinality(SameType(s)) >= Limit(TypeOf[s])
    /\ \E v \in SameType(s) :
          /\ \A t \in SameType(s) : addedAt[v] >= addedAt[t]
          /\ tracked' = (tracked \ {v}) \cup {s}
          /\ victim' = [victim EXCEPT ![s] = v]
    /\ Append(s)
    /\ pc' = [pc EXCEPT ![s] = "evict"]
    /\ UNCHANGED <<sock, handlers, runner, cleanupVars, stopVars, now>>

\* Add at the device limit: the oldest connection of the type leaves the map
\* in the same critical section; it is disconnected after the unlock.
AddEvictOldest(s) ==
    /\ pc[s] = "add"
    /\ ~lock
    /\ Cardinality(SameType(s)) >= Limit(TypeOf[s])
    /\ \E v \in SameType(s) :
          /\ \A t \in SameType(s) : addedAt[v] <= addedAt[t]
          /\ tracked' = (tracked \ {v}) \cup {s}
          /\ victim' = [victim EXCEPT ![s] = v]
    /\ Append(s)
    /\ pc' = [pc EXCEPT ![s] = "evict"]
    /\ UNCHANGED <<sock, handlers, runner, cleanupVars, stopVars, now>>

\* Mutant of DisconnectVictim: the evicted socket is not disconnected.
ForgetVictim(s) ==
    /\ pc[s] = "evict"
    /\ victim' = [victim EXCEPT ![s] = NoOne]
    /\ pc' = [pc EXCEPT ![s] = "register"]
    /\ UNCHANGED <<sock, runner, handlers, managerVars, cleanupVars, stopVars, now>>

\* toDisconnect.Socket.Disconnect(true), outside the critical section.
DisconnectVictim(s) ==
    /\ pc[s] = "evict"
    /\ Disconnect(victim[s], s)
    /\ victim' = [victim EXCEPT ![s] = NoOne]
    /\ pc' = [pc EXCEPT ![s] = "register"]
    /\ UNCHANGED <<handlers, managerVars, cleanupVars, stopVars, now>>

\* Add has returned; sock.On("ping"), sock.On("disconnect").  Handlers set on
\* a connection that has closed in the meantime are never called.
RegisterHandlers(s) ==
    /\ pc[s] = "register"
    /\ ~Busy(s)
    /\ handlers' = IF sock[s] = "open" THEN handlers \cup {s} ELSE handlers
    /\ pc' = [pc EXCEPT ![s] = "serving"]
    /\ UNCHANGED <<sock, victim, runner, managerVars, cleanupVars, stopVars, now>>

-----------------------------------------------------------------------------
(* The transport of a connection *)

\* The "ping" handler: UpdatePing.
Ping(s) ==
    /\ sock[s] = "open"
    /\ s \in handlers
    /\ ~lock
    /\ lastPing[s] # now
    /\ lastPing' = [lastPing EXCEPT ![s] = now]
    /\ UNCHANGED <<connVars, tracked, addedAt, added, cleanupVars, stopVars, now>>

\* The client goes away or its transport fails.
ClientClose(s) ==
    /\ sock[s] = "open"
    /\ Disconnect(s, "transport")
    /\ UNCHANGED <<pc, victim, handlers, managerVars, cleanupVars, stopVars, now>>

\* Mutant of Remove: the last connection of a user stays in the map.
RemoveKeepsLast(s) ==
    /\ runner[s] # NoOne
    /\ ~lock
    /\ tracked' = IF Cardinality(tracked) = 1 THEN tracked ELSE tracked \ {s}
    /\ runner' = [runner EXCEPT ![s] = NoOne]
    /\ UNCHANGED <<sock, pc, victim, handlers, addedAt, added, lastPing,
                   cleanupVars, stopVars, now>>

\* The "disconnect" handler enters Remove, which needs m.mu, and returns.
Remove(s) ==
    /\ runner[s] # NoOne
    /\ ~lock
    /\ tracked' = tracked \ {s}
    /\ runner' = [runner EXCEPT ![s] = NoOne]
    /\ UNCHANGED <<sock, pc, victim, handlers, addedAt, added, lastPing,
                   cleanupVars, stopVars, now>>

-----------------------------------------------------------------------------
(* StartTimeoutCleanup *)

IsStale(s) == now - lastPing[s] > StaleAfter

\* Mutant of FindStaleConnections: the timeout is one unit longer.
FindStaleTooLate ==
    /\ cleanupAlive
    /\ stale = {}
    /\ ~Busy("cleanup")
    /\ ~lock
    /\ {s \in tracked : now - lastPing[s] > StaleAfter + 1} # {}
    /\ stale' = {s \in tracked : now - lastPing[s] > StaleAfter + 1}
    /\ UNCHANGED <<connVars, managerVars, cleanupAlive, stopVars, now>>

\* A tick: FindStaleConnections under the read lock.
FindStaleConnections ==
    /\ cleanupAlive
    /\ stale = {}
    /\ ~Busy("cleanup")
    /\ ~lock
    /\ {s \in tracked : IsStale(s)} # {}
    /\ stale' = {s \in tracked : IsStale(s)}
    /\ UNCHANGED <<connVars, managerVars, cleanupAlive, stopVars, now>>

\* Mutant of DisconnectStale: the transport is closed without the handler.
CloseStaleTransport ==
    /\ ~Busy("cleanup")
    /\ \E s \in stale :
          /\ sock' = [sock EXCEPT ![s] = "closed"]
          /\ stale' = stale \ {s}
    /\ UNCHANGED <<runner, pc, victim, handlers, managerVars, cleanupAlive, stopVars, now>>

\* The next connection of the list is disconnected, whatever happened to it
\* since the list was made.
DisconnectStale ==
    /\ ~Busy("cleanup")
    /\ \E s \in stale :
          /\ Disconnect(s, "cleanup")
          /\ stale' = stale \ {s}
    /\ UNCHANGED <<pc, victim, handlers, managerVars, cleanupAlive, stopVars, now>>

\* <-stopCh
CleanupReturns ==
    /\ cleanupAlive
    /\ stale = {}
    /\ ~Busy("cleanup")
    /\ stopPC # "running"
    /\ cleanupAlive' = FALSE
    /\ UNCHANGED <<connVars, managerVars, stale, stopVars, now>>

-----------------------------------------------------------------------------
(* Shutdown *)

\* close(s.stopCh)
CloseStopCh ==
    /\ ShutdownAllowed
    /\ stopPC = "running"
    /\ stopPC' = "locking"
    /\ UNCHANGED <<connVars, managerVars, cleanupVars, lock, swept, now>>

\* DisconnectAll takes m.mu and keeps it over its loops.
LockAll ==
    /\ stopPC = "locking"
    /\ stopPC' = "sweeping"
    /\ lock' = TRUE
    /\ UNCHANGED <<connVars, managerVars, cleanupVars, swept, now>>

\* c.Socket.Disconnect(true) for the next connection of the user's list; the
\* handler, when it runs, runs here and the loop waits for it.
SweepConnection(s) ==
    /\ stopPC = "sweeping"
    /\ ~Busy("shutdown")
    /\ s \in tracked \ swept
    /\ \A t \in tracked \cap swept : MetaIdOf[t] = MetaIdOf[s]
    /\ \A t \in tracked \ swept : MetaIdOf[t] = MetaIdOf[s] => addedAt[s] <= addedAt[t]
    /\ Disconnect(s, "shutdown")
    /\ swept' = swept \cup {s}
    /\ UNCHANGED <<pc, victim, handlers, managerVars, cleanupVars, lock, stopPC, now>>

\* delete(m.connections, metaId) once the user's list is done.
DeleteUser(m) ==
    LET conns == {s \in tracked : MetaIdOf[s] = m}
    IN  /\ stopPC = "sweeping"
        /\ ~Busy("shutdown")
        /\ conns # {}
        /\ conns \subseteq swept
        /\ tracked' = tracked \ conns
        /\ UNCHANGED <<connVars, addedAt, added, lastPing, cleanupVars, stopVars, now>>

\* The loop has ended; the deferred unlock.
UnlockAll ==
    /\ stopPC = "sweeping"
    /\ ~Busy("shutdown")
    /\ tracked = {}
    /\ lock' = FALSE
    /\ stopPC' = "closing"
    /\ UNCHANGED <<connVars, managerVars, cleanupVars, swept, now>>

\* ioServer.Close disconnects what is still open, one connection at a time.
CloseConnection(s) ==
    /\ stopPC = "closing"
    /\ ~Busy("shutdown")
    /\ sock[s] = "open"
    /\ Disconnect(s, "shutdown")
    /\ UNCHANGED <<pc, victim, handlers, managerVars, cleanupVars, stopVars, now>>

\* Shutdown returns.
ShutdownReturns ==
    /\ stopPC = "closing"
    /\ ~Busy("shutdown")
    /\ \A s \in Sock : sock[s] # "open"
    /\ stopPC' = "stopped"
    /\ UNCHANGED <<connVars, managerVars, cleanupVars, lock, swept, now>>

-----------------------------------------------------------------------------

Tick ==
    /\ now < MaxTime
    /\ now' = now + 1
    /\ UNCHANGED <<connVars, managerVars, cleanupVars, stopVars>>

OnConnection(s) ==
    \/ AddWithinLimit(s)
    \/ AddEvictOldest(s)
    \/ DisconnectVictim(s)
    \/ RegisterHandlers(s)

TimeoutCleanup == FindStaleConnections \/ DisconnectStale \/ CleanupReturns

DisconnectAll ==
    \/ LockAll
    \/ \E s \in Sock : SweepConnection(s)
    \/ \E m \in MetaIds : DeleteUser(m)
    \/ UnlockAll

Shutdown ==
    \/ DisconnectAll
    \/ \E s \in Sock : CloseConnection(s)
    \/ ShutdownReturns

Next ==
    \/ \E s \in Sock :
          \/ Connect(s)
          \/ RejectMissingMetaId(s)
          \/ OnConnection(s)
          \/ Ping(s)
          \/ ClientClose(s)
          \/ Remove(s)
    \/ TimeoutCleanup
    \/ CloseStopCh
    \/ Shutdown
    \/ Tick

Spec == Init /\ [][Next]_vars

\* The Go scheduler runs every goroutine that is not blocked; clients, the
\* clock and the operator promise nothing.
FairSpec ==
    /\ Spec
    /\ \A s \in Sock : WF_vars(OnConnection(s)) /\ WF_vars(Remove(s))
    /\ WF_vars(TimeoutCleanup)
    /\ WF_vars(Shutdown)

-----------------------------------------------------------------------------
(* Properties *)

\* A user never has more tracked connections of a type than the device limit,
\* whatever the interleaving of Add, evictions, disconnects and timeouts.
DeviceLimit ==
    \A m \in MetaIds, t \in ConnTypes :
        Cardinality({s \in tracked : MetaIdOf[s] = m /\ TypeOf[s] = t}) <= Limit(t)

\* Eviction keeps the newest devices: a connection that was added after one
\* that is still tracked, and that the manager no longer tracks, is one that
\* has closed or that DisconnectAll dropped.
NewestSurvive ==
    \A s, t \in Sock :
        /\ s \in tracked
        /\ t \notin tracked
        /\ MetaIdOf[s] = MetaIdOf[t] /\ TypeOf[s] = TypeOf[t]
        /\ pc[t] \in {"evict", "register", "serving"}
        /\ addedAt[t] > addedAt[s]
        => sock[t] = "closed"

\* A connection that closes once its handlers are set stays listed as online
\* only while a goroutine is inside its disconnect handler: no path loses the
\* call of Remove.
ClosedIsBeingRemoved ==
    \A s \in tracked \cap handlers : sock[s] = "closed" => runner[s] # NoOne

\* While the process runs, that goroutine gets there: the connection leaves the
\* online list.
ClosedIsForgotten ==
    \A s \in Sock :
        (s \in handlers /\ sock[s] = "closed") ~> (s \notin tracked \/ stopPC # "running")

\* A connection that Add evicted is disconnected, although that happens after
\* the critical section and in the goroutine of another connection, and even
\* when the process is being stopped.
EvictedIsDisconnected ==
    \A s, v \in Sock : (victim[s] = v) ~> (sock[v] = "closed")

\* A client that has stopped sending pings is disconnected while the process
\* runs.
SilentIsDisconnected ==
    \A s \in Sock :
        (s \in tracked /\ IsStale(s))
            ~> (sock[s] = "closed" \/ ~IsStale(s) \/ stopPC # "running")

\* TestServerShutdownCleanup: "Shutdown should complete without hanging".
ShutdownCompletes == (stopPC = "locking") ~> (stopPC = "stopped")
=============================================================================
