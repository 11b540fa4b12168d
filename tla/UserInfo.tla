------------------------------ MODULE UserInfo ------------------------------
(***************************************************************************)
(* The user-info aggregator (internal/aggregator/userinfo) with its two-   *)
(* level cache (internal/cache) on the Pebble store, for one user.         *)
(*                                                                         *)
(* The block scan and the backfill fold /info/* pins into a stored         *)
(* profile; requests read it through the cache and may complete it from a  *)
(* remote profile service.  Nothing locks a profile between the read and   *)
(* the write of a call.                                                    *)
(*                                                                         *)
(* The user has a metaid, a global metaid and an address.  The pins of     *)
(* some chains (MVC, Dogecoin, OPCAT) carry the address in place of both   *)
(* metaids; a backfill and most answers of the remote service have the     *)
(* real ones.  So one user may have several records, and a record may be   *)
(* stored under another id than the metaid it has.  The address is always  *)
(* there, and every answer of the remote service has both metaids.         *)
(***************************************************************************)
EXTENDS PinFeed

CONSTANTS
    Readers,      \* goroutines that serve requests
    Modes,        \* profile modes: "local-only", "local-first", "remote-only"
    OwnIds,       \* what the pins of a chain may carry as metaid
    RemoteIds,    \* identities that answers of the remote service may have
    Field,        \* Field[p]: the profile field a pin sets, "init" for "/", or "other"
    NoPin, NoProfile, NoKey

Fields == {"name", "avatar", "key", "role"}
MetaIds == {"metaid", "address"}
GlobalMetaIds == {"global", "address"}
Keys == {"metaid", "global", "address"}
Values == [Fields -> Pins \cup {NoPin}]
\* A field is given by the pin it came from.
Profiles == [metaid : MetaIds, global : GlobalMetaIds, value : Values]

ASSUME UserInfoAssumption ==
    /\ Modes \subseteq {"local-only", "local-first", "remote-only"}
    /\ OwnIds \subseteq MetaIds
    /\ RemoteIds \subseteq [metaid : MetaIds, global : GlobalMetaIds]
    /\ Field \in [Pins -> Fields \cup {"init", "other"}]
    /\ NoPin \notin Pins /\ NoProfile \notin Profiles /\ NoKey \notin Keys
    /\ Readers \cap AllWriters = {}
    /\ \A ws \in WriterSets : "scan" \in ws

VARIABLES
    own,       \* the metaid that the pins of this chain carry
    mode,      \* METASO_P2P_PROFILE_MODE of this process
    \* Pebble
    stored,    \* stored[k]: the profile under the key k, or NoProfile
    byGlobal,  \* byGlobal[g]: the metaid in the index entry of a global metaid, or NoKey
    byAddress, \* the metaid in the index entry of the address, or NoKey
    l2,        \* l2[k]: the cached profile of k in namespace cache_userinfo
    \* memory
    l1,        \* l1[k]: the cached profile of k in the LRU
    open,      \* this process has opened cache_userinfo
    \* one call per goroutine
    phase,     \* the call's next step
    via,       \* "pin", "init", "metaid", "global", "lookup"
    asked,     \* the id of the pin or of the request; NoKey for a lookup by address
    at,        \* the key that is being saved or invalidated
    base,      \* the profile the call has read
    copy,      \* the profile the call works on
    \* history, for the properties
    excused,   \* keys whose last save did not bring the cache up to date
    causes     \* what has kept the pins from the record, or the record from being found

setting == <<own, mode>>
profileVars == <<stored, byGlobal, byAddress>>
cacheVars == <<l1, l2, open>>
callVars == <<phase, via, asked, at, base, copy>>
history == <<excused, causes>>
vars == <<feedVars, setting, profileVars, cacheVars, callVars, history>>

Callers == AllWriters \cup Readers
Phases == {"idle", "l2", "load", "complete", "save", "global", "address",
           "purge", "delete", "setL1", "setL2"}

TypeOK ==
    /\ FeedTypeOK
    /\ own \in OwnIds /\ mode \in Modes
    /\ {stored, l1, l2} \subseteq [Keys -> Profiles \cup {NoProfile}]
    /\ byGlobal \in [GlobalMetaIds -> MetaIds \cup {NoKey}]
    /\ byAddress \in MetaIds \cup {NoKey}
    /\ open \in BOOLEAN
    /\ phase \in [Callers -> Phases]
    /\ via \in [Callers -> {"none", "pin", "init", "metaid", "global", "lookup"}]
    /\ {asked, at} \subseteq [Callers -> Keys \cup {NoKey}]
    /\ {base, copy} \subseteq [Callers -> Profiles \cup {NoProfile}]
    /\ excused \subseteq Keys /\ causes \subseteq {"overwritten", "renamed", "foreign"}

NoCalls ==
    /\ phase = [c \in Callers |-> "idle"]
    /\ via = [c \in Callers |-> "none"]
    /\ asked = [c \in Callers |-> NoKey] /\ at = [c \in Callers |-> NoKey]
    /\ base = [c \in Callers |-> NoProfile] /\ copy = [c \in Callers |-> NoProfile]

Init ==
    /\ FeedInit
    /\ own \in OwnIds /\ mode \in Modes
    /\ stored = [k \in Keys |-> NoProfile]
    /\ byGlobal = [g \in GlobalMetaIds |-> NoKey] /\ byAddress = NoKey
    /\ l1 = [k \in Keys |-> NoProfile] /\ l2 = [k \in Keys |-> NoProfile] /\ open = FALSE
    /\ NoCalls
    /\ excused = {} /\ causes = {}

-----------------------------------------------------------------------------
(* Completing a profile from the remote service *)

\* The pin of field f that is last in the first n pins of the chain.
LastPin(f, n) ==
    LET has == {i \in 1..n : Field[chain[i]] = f}
    IN  IF has = {} THEN NoPin ELSE chain[CHOOSE i \in has : \A j \in has : j <= i]

\* An answer of the remote service, which has indexed the first n pins; it has no
\* role.
RemoteProfile(id, n) ==
    [metaid |-> id.metaid, global |-> id.global,
     value |-> [f \in Fields |-> IF f = "role" THEN NoPin ELSE LastPin(f, n)]]

ProfileNeedsRemoteCompletion(p) ==
    IF p = NoProfile THEN TRUE ELSE NoPin \in {p.value["key"], p.value["avatar"]}

\* Mutant of MergeUserProfiles: what the remote service has wins.
MergePrefersRemote(local, remote) ==
    IF local = NoProfile THEN remote
    ELSE [remote EXCEPT !.value = [f \in Fields |->
             IF remote.value[f] # NoPin THEN remote.value[f] ELSE local.value[f]]]

\* The identity is the remote one.  Empty fields are filled; another avatar of
\* the remote service wins.
MergeUserProfiles(local, remote) ==
    IF local = NoProfile THEN remote
    ELSE [remote EXCEPT !.value = [f \in Fields |->
             IF remote.value[f] # NoPin /\ (local.value[f] = NoPin \/ f = "avatar")
             THEN remote.value[f] ELSE local.value[f]]]

\* fetchRemoteProfile: the first answer, completed by a second one.  NoProfile
\* is an error or no answer.
FetchedProfiles ==
    LET answers == {RemoteProfile(id, n) : id \in RemoteIds, n \in 1..mined}
    IN  {NoProfile} \cup answers
          \cup {MergeUserProfiles(a, b) :
                    a \in {x \in answers : ProfileNeedsRemoteCompletion(x)}, b \in answers}

ShouldFetchRemote(local) ==
    \/ mode = "remote-only"
    \/ mode = "local-first" /\ ProfileNeedsRemoteCompletion(local)

-----------------------------------------------------------------------------
(* Calls *)

Busy(c) == phase[c] # "idle"
\* The call has begun to save and has not finished invalidating.
Saving(c) ==
    \/ phase[c] \in {"global", "address", "purge", "delete"}
    \/ phase[c] = "save" /\ at[c] # copy[c].metaid

Goto(c, ph) == phase' = [phase EXCEPT ![c] = ph]
Work(c, p) == base' = [base EXCEPT ![c] = p] /\ copy' = [copy EXCEPT ![c] = p]

\* A call that begins while another one is saving may read what is half saved.
Start(c, v, id, ph) ==
    /\ phase[c] = "idle"
    /\ Goto(c, ph)
    /\ via' = [via EXCEPT ![c] = v]
    /\ asked' = [asked EXCEPT ![c] = id]
    /\ excused' = IF \E d \in Callers : Saving(d) THEN Keys ELSE excused
    /\ UNCHANGED causes

Finish(c) ==
    /\ Goto(c, "idle")
    /\ via' = [via EXCEPT ![c] = "none"]
    /\ asked' = [asked EXCEPT ![c] = NoKey] /\ at' = [at EXCEPT ![c] = NoKey]
    /\ Work(c, NoProfile)
    /\ IF via[c] \in {"pin", "init"} THEN Done(c) ELSE UNCHANGED feedVars

\* The metaid of a pin: the backfill's pins have the real one.
PinMetaId(w) == IF w = "backfill" THEN "metaid" ELSE own

\* A pin with a real metaid has a real global metaid.
GlobalOf(m) == IF m = "metaid" THEN "global" ELSE "address"
HasIdentity(p, m) == p.metaid = m /\ p.global = GlobalOf(m)

\* A profile without fields
NewProfile(m) ==
    [metaid |-> m, global |-> GlobalOf(m), value |-> [f \in Fields |-> NoPin]]

\* The pins a backfill asks for; the scan passes every pin.
Listed(w, p) == w = "backfill" => Field[p] = "role"

\* HandleBlockPin, up to the first write: load the profile of the pin's metaid or
\* create one, and set the field.  It will be saved under the metaid it has.  A
\* new avatar first invalidates the avatar's own entries, which empties the LRU.
HandleBlockPin(w, p) ==
    LET m == PinMetaId(w)
        profile == IF stored[m] = NoProfile THEN NewProfile(m) ELSE stored[m]
    IN  /\ Offered(w, p) /\ ~Busy(w)
        /\ \/ /\ Listed(w, p) /\ Field[p] \in Fields \cup {"init"}
              /\ Start(w, IF Field[p] = "init" THEN "init" ELSE "pin", m, "save")
              /\ at' = [at EXCEPT ![w] = profile.metaid]
              /\ base' = [base EXCEPT ![w] = stored[m]]
              /\ copy' = [copy EXCEPT ![w] = IF Field[p] = "init" THEN profile
                                             ELSE [profile EXCEPT !.value[Field[p]] = p]]
              /\ Take(w, p)
           \/ /\ ~Listed(w, p) \/ Field[p] = "other"
              /\ Pass(w, p)
              /\ UNCHANGED <<callVars, history>>
        /\ l1' = IF Listed(w, p) /\ Field[p] = "avatar" THEN [k \in Keys |-> NoProfile] ELSE l1
        /\ UNCHANGED <<setting, profileVars, l2, open>>

\* handleMetaIdInfo: the LRU answers, or the store is asked
RequestMetaId(c, m) ==
    /\ Start(c, "metaid", m, IF l1[m] # NoProfile THEN "complete" ELSE "l2")
    /\ Work(c, l1[m])
    /\ UNCHANGED <<feedVars, setting, profileVars, cacheVars, at>>

\* Cache.Get in Pebble: a hit is put back into the LRU.
GetL2(c) ==
    /\ phase[c] = "l2"
    /\ open' = TRUE
    /\ Work(c, l2[asked[c]])
    /\ IF l2[asked[c]] # NoProfile
       THEN l1' = [l1 EXCEPT ![asked[c]] = l2[asked[c]]] /\ Goto(c, "complete")
       ELSE l1' = l1 /\ Goto(c, "load")
    /\ UNCHANGED <<feedVars, setting, profileVars, l2, via, asked, at, history>>

\* getProfile on a miss
GetProfile(c) ==
    /\ phase[c] = "load"
    /\ Work(c, stored[asked[c]])
    /\ Goto(c, "complete")
    /\ UNCHANGED <<feedVars, setting, profileVars, cacheVars, via, asked, at, history>>

\* Mutant of FindProfile: no scan when the index has no entry.
FindIndexed(entry, matching) == IF entry \in matching THEN {stored[entry]} ELSE {NoProfile}

\* findProfileByAddress and findProfileByGlobalMetaId: the profile in the index
\* entry if it has the id that is asked for, or the last match of a scan over all
\* profiles, in the order of their keys
FindProfile(entry, matching) ==
    IF entry \in matching THEN {stored[entry]}
    ELSE IF matching = {} THEN {NoProfile} ELSE {stored[k] : k \in matching}

WithAddress == {k \in Keys : stored[k] # NoProfile}
WithGlobalMetaId(g) == {k \in WithAddress : stored[k].global = g}

FindProfileByAddress == FindProfile(byAddress, WithAddress)
FindProfileByGlobalMetaId(g) == FindProfile(byGlobal[g], WithGlobalMetaId(g))

\* LookupByMetaId and LookupByAddress, which other aggregators call as well
LookupByMetaId(c, m) ==
    /\ Start(c, "lookup", m, "complete")
    /\ Work(c, stored[m])
    /\ UNCHANGED <<feedVars, setting, profileVars, cacheVars, at>>

LookupByAddress(c) ==
    /\ Start(c, "lookup", NoKey, "complete")
    /\ \E p \in FindProfileByAddress : Work(c, p)
    /\ UNCHANGED <<feedVars, setting, profileVars, cacheVars, at>>

LookupByGlobalMetaId(c, g) ==
    /\ Start(c, "global", g, "complete")
    /\ \E p \in FindProfileByGlobalMetaId(g) : Work(c, p)
    /\ UNCHANGED <<feedVars, setting, profileVars, cacheVars, at>>

\* completeProfile: the call answers with its copy, or with the copy merged with
\* the remote profile, which it saves first.
Answer(c) ==
    IF via[c] = "metaid" /\ copy[c] # NoProfile
    THEN Goto(c, "setL1") /\ UNCHANGED <<via, asked, at, base, copy, feedVars>>
    ELSE Finish(c)

CompleteProfile(c) ==
    /\ phase[c] = "complete"
    /\ \/ ~ShouldFetchRemote(copy[c]) /\ Answer(c)
       \/ /\ ShouldFetchRemote(copy[c])
          /\ \E remote \in FetchedProfiles :
                IF remote = NoProfile THEN Answer(c)
                ELSE /\ copy' = [copy EXCEPT ![c] = MergeUserProfiles(copy[c], remote)]
                     /\ at' = [at EXCEPT ![c] = remote.metaid]
                     /\ Goto(c, "save")
                     /\ UNCHANGED <<via, asked, base, feedVars>>
    /\ UNCHANGED <<setting, profileVars, cacheVars, history>>

-----------------------------------------------------------------------------
(* Saving a profile and invalidating the cache *)

FromPin(c) == via[c] \in {"pin", "init"}

\* saveProfileAtKey, first write
SaveProfile(c) ==
    LET k == at[c]
        uncovered == \/ ~open \/ \E d \in Callers \ {c} : Busy(d)
                     \/ FromPin(c) /\ asked[c] # k
                     \/ via[c] = "init" /\ k \in excused
    IN  /\ phase[c] = "save"
        /\ stored' = [stored EXCEPT ![k] = copy[c]]
        /\ excused' = IF uncovered THEN excused \cup {k} ELSE excused \ {k}
        /\ causes' = causes \cup (IF k = own /\ stored[k] # base[c] THEN {"overwritten"} ELSE {})
                            \cup (IF k = own /\ copy[c].metaid # k THEN {"renamed"} ELSE {})
                            \cup (IF HasIdentity(copy[c], own) THEN {} ELSE {"foreign"})
        /\ Goto(c, "global")
        /\ UNCHANGED <<feedVars, setting, byGlobal, byAddress, cacheVars, via, asked, at, base, copy>>

SaveGlobalIndex(c) ==
    /\ phase[c] = "global"
    /\ byGlobal' = [byGlobal EXCEPT ![copy[c].global] = copy[c].metaid]
    /\ Goto(c, "address")
    /\ UNCHANGED <<feedVars, setting, stored, byAddress, cacheVars, via, asked, at, base, copy, history>>

\* persistMergedProfile: a request by another id than the profile's metaid saves
\* the profile under that id as well
NeedsAlias(c) == ~FromPin(c) /\ asked[c] \notin {NoKey, copy[c].metaid}

\* An init pin ends here, without an invalidation; the entry from the metaid to
\* the address that it adds is read nowhere.  A pin invalidates the entry of its
\* own metaid.
SaveAddressIndex(c) ==
    /\ phase[c] = "address"
    /\ byAddress' = copy[c].metaid
    /\ \/ via[c] = "init" /\ Finish(c)
       \/ /\ via[c] # "init"
          /\ IF NeedsAlias(c) /\ at[c] = copy[c].metaid THEN Goto(c, "save") ELSE Goto(c, "purge")
          /\ at' = [at EXCEPT ![c] = IF FromPin(c) \/ NeedsAlias(c) THEN asked[c] ELSE @]
          /\ UNCHANGED <<feedVars, via, asked, base, copy>>
    /\ UNCHANGED <<setting, stored, byGlobal, cacheVars, history>>

\* InvalidateByPrefix: the LRU is emptied ...
PurgeL1(c) ==
    /\ phase[c] = "purge"
    /\ l1' = [k \in Keys |-> NoProfile]
    /\ Goto(c, "delete")
    /\ UNCHANGED <<feedVars, setting, profileVars, l2, open, via, asked, at, base, copy, history>>

\* A request that has saved an alias invalidates the alias first.
Invalidated(c) ==
    \/ /\ ~FromPin(c) /\ at[c] # copy[c].metaid
       /\ Goto(c, "purge")
       /\ at' = [at EXCEPT ![c] = copy[c].metaid]
       /\ UNCHANGED <<feedVars, via, asked, base, copy>>
    \/ /\ via[c] = "metaid" /\ at[c] = copy[c].metaid
       /\ Goto(c, "setL1")
       /\ UNCHANGED <<feedVars, via, asked, at, base, copy>>
    \/ /\ FromPin(c) \/ (via[c] # "metaid" /\ at[c] = copy[c].metaid)
       /\ Finish(c)

\* Mutant of DeleteL2: the entry in Pebble stays.
DeleteNothing(c) ==
    /\ phase[c] = "delete"
    /\ Invalidated(c)
    /\ UNCHANGED <<setting, profileVars, cacheVars, history>>

\* ... and the entries in Pebble go, if this process has opened the namespace.
DeleteL2(c) ==
    /\ phase[c] = "delete"
    /\ l2' = IF open THEN [l2 EXCEPT ![at[c]] = NoProfile] ELSE l2
    /\ Invalidated(c)
    /\ UNCHANGED <<setting, profileVars, l1, open, history>>

\* Cache.Set
SetL1(c) ==
    /\ phase[c] = "setL1"
    /\ l1' = [l1 EXCEPT ![asked[c]] = copy[c]]
    /\ Goto(c, "setL2")
    /\ UNCHANGED <<feedVars, setting, profileVars, l2, open, via, asked, at, base, copy, history>>

SetL2(c) ==
    /\ phase[c] = "setL2"
    /\ l2' = [l2 EXCEPT ![asked[c]] = copy[c]]
    /\ open' = TRUE
    /\ Finish(c)
    /\ UNCHANGED <<setting, profileVars, l1, history>>

\* An entry's time in the LRU is over, or the LRU is full.
Expire(k) ==
    /\ l1[k] # NoProfile
    /\ l1' = [l1 EXCEPT ![k] = NoProfile]
    /\ UNCHANGED <<feedVars, setting, profileVars, l2, open, callVars, history>>

-----------------------------------------------------------------------------
Mine == MineNext({}) /\ UNCHANGED <<setting, profileVars, cacheVars, callVars, history>>

\* The process dies and starts again with an empty LRU and no open namespace.
Crash ==
    /\ Restart
    /\ l1' = [k \in Keys |-> NoProfile] /\ open' = FALSE
    /\ phase' = [c \in Callers |-> "idle"]
    /\ via' = [c \in Callers |-> "none"]
    /\ asked' = [c \in Callers |-> NoKey] /\ at' = [c \in Callers |-> NoKey]
    /\ base' = [c \in Callers |-> NoProfile] /\ copy' = [c \in Callers |-> NoProfile]
    /\ excused' = IF \E c \in Callers : Saving(c) THEN Keys ELSE excused
    /\ UNCHANGED <<setting, profileVars, l2, causes>>

Request(c) ==
    \/ \E m \in MetaIds : RequestMetaId(c, m) \/ LookupByMetaId(c, m)
    \/ LookupByAddress(c)
    \/ \E g \in GlobalMetaIds : LookupByGlobalMetaId(c, g)

Step(c) ==
    \/ GetL2(c) \/ GetProfile(c) \/ CompleteProfile(c)
    \/ SaveProfile(c) \/ SaveGlobalIndex(c) \/ SaveAddressIndex(c)
    \/ PurgeL1(c) \/ DeleteL2(c) \/ SetL1(c) \/ SetL2(c)

Next ==
    \/ Mine
    \/ \E p \in Pins : HandleBlockPin("scan", p) \/ HandleBlockPin("backfill", p)
    \/ \E c \in Readers : Request(c)
    \/ \E c \in Callers : Step(c)
    \/ \E k \in Keys : Expire(k)
    \/ Crash

Spec == Init /\ [][Next]_vars

-----------------------------------------------------------------------------
(* Properties *)

NoCall == \A c \in Callers : ~Busy(c)
KeptFields == Fields \ ({"avatar"} \cup IF "backfill" \in writers THEN {"role"} ELSE {})

\* Between calls, a cached profile differs from the stored one of its key only if
\* the last save of that key
\*   - overlapped another call of the user, or was cut short by a crash,
\*   - ran in a process that had not opened the cache's namespace yet, or
\*   - was made for a pin with another metaid than the profile has, which
\*     invalidates the entry of the pin's metaid only.
\* Whatever came before, the next save of the key that is none of these brings
\* the cache back to the store.
StaleIsExplained ==
    NoCall => \A k \in Keys \ excused : {l1[k], l2[k]} \subseteq {NoProfile, stored[k]}

\* When every pin of the chain is handled, each field of the record under the
\* pins' own metaid has the last value the chain gives it: requests that complete
\* the profile from a remote service that lags behind, restarts and repeated pins
\* undo nothing, unless at some time
\*   - a save replaced the record by a profile that was not made from it: by a
\*     call that overlapped, by a request that worked on an old cached profile,
\*     or by a request under whose id there was no record, or
\*   - a completion put a profile with another metaid under this key, where
\*     later pins no longer write.
\* The avatar is not among these fields, because a completion prefers the remote
\* one; with a backfill the role is not, because it goes through the roles from
\* the newest to the oldest.
PinsAreKept ==
    NoCall /\ AllRouted /\ causes \cap {"overwritten", "renamed"} = {} =>
        \A f \in KeptFields :
            LastPin(f, Len(chain)) # NoPin =>
                stored[own] # NoProfile /\ stored[own].value[f] = LastPin(f, Len(chain))

\* As long as no save has given a record another identity than the pins have, a
\* request by address or by that global metaid works on the record that the pins
\* update: it is found even when a crash has come between the record and its
\* index entries, and what is found is never a copy under an alias, which later
\* pins leave as it is.
StoredIsFound ==
    "foreign" \notin causes =>
        /\ FindProfileByAddress = {stored[own]}
        /\ FindProfileByGlobalMetaId(GlobalOf(own)) = {stored[own]}
=============================================================================
