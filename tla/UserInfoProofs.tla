--------------------------- MODULE UserInfoProofs ---------------------------
(***************************************************************************)
(* Proofs about UserInfo for any chains, fields, readers, modes and        *)
(* identities: type correctness, that the record of the pins is found,     *)
(* that a stale entry of the cache has an explanation, and that no pin of  *)
(* the chain is lost where nothing has replaced or renamed the record.     *)
(*                                                                         *)
(* Each result has an inductive invariant of its own, on top of what is    *)
(* known of the calls (CallsOK).                                           *)
(***************************************************************************)
EXTENDS UserInfo, WellFoundedInduction, NaturalsInduction, TLAPS

-----------------------------------------------------------------------------
(* What is known of the calls *)

Vias == {"none", "pin", "init", "metaid", "global", "lookup"}
MaybeProfile == Profiles \cup {NoProfile}
MaybeKey == Keys \cup {NoKey}

\* The phases in which a call has a profile to save.
Writing(c) == phase[c] \in {"save", "global", "address", "purge", "delete"}

\* A goroutine of the feed saves the profile under the metaid it has, and then
\* invalidates the entry of the pin's metaid.
WriterOK(c) ==
    c \in AllWriters /\ Busy(c) =>
        /\ c \in {"scan", "backfill"} /\ FromPin(c) /\ Writing(c)
        /\ asked[c] = PinMetaId(c)
        /\ phase[c] \in {"save", "global", "address"} => at[c] = copy[c].metaid
        /\ phase[c] \in {"purge", "delete"} => at[c] = asked[c] /\ via[c] = "pin"

\* A request saves its profile under the metaid it has, and under the alias.
ReaderOK(c) ==
    c \in Readers /\ Busy(c) =>
        /\ via[c] \in {"metaid", "global", "lookup"}
        /\ via[c] = "metaid" => asked[c] \in Keys
        /\ phase[c] \in {"l2", "load", "setL1", "setL2"} => via[c] = "metaid"
        /\ phase[c] = "complete" => copy[c] = base[c]
        /\ Writing(c) => at[c] = copy[c].metaid \/ (asked[c] # NoKey /\ at[c] = asked[c])
        /\ phase[c] \in {"purge", "delete"} /\ at[c] # copy[c].metaid => at[c] = asked[c]

CallsOK ==
    /\ "backfill" \notin writers => backfill = 0
    /\ Busy("scan") => pos < mined
    /\ Busy("backfill") => backfill > 0
    /\ \A c \in Callers : WriterOK(c) /\ ReaderOK(c)
    /\ \A c \in Callers : Writing(c) => copy[c] \in Profiles /\ at[c] \in Keys

Calls == TypeOK /\ CallsOK

-----------------------------------------------------------------------------
(* The remote profile *)

\* A set of positions has a last one: the distances to n have a least one.
LEMMA LastExists ==
    ASSUME NEW n \in Nat, NEW S, S \subseteq 1..n, S # {}
    PROVE  \E i \in S : \A j \in S : j <= i
<1> DEFINE R == OpToRel(<, Nat)
           T == {n - i : i \in S}
<1>1. T \subseteq Nat /\ T # {}
  <2>1. \A i \in S : n - i \in Nat
    OBVIOUS
  <2> QED BY <2>1
<1>2. IsWellFoundedOn(R, Nat)
  BY NatLessThanWellFounded
<1>3. \A x, y \in Nat : x < y => <<x, y>> \in R
  BY DEF OpToRel
<1>4. \A i \in S : i \in Nat /\ n - i \in T
  OBVIOUS
<1> HIDE DEF R
<1>5. PICK x \in T : \A y \in T : ~(<<y, x>> \in R)
  <2> HIDE DEF T
  <2> QED BY <1>1, <1>2, WFMin
<1>6. PICK i \in S : x = n - i
  OBVIOUS
<1>7. ASSUME NEW j \in S PROVE j <= i
  <2>1. n - j \in T /\ x \in Nat /\ n - j \in Nat /\ i \in Nat /\ j \in Nat
    BY <1>1, <1>4
  <2>2. ~(n - j < x)
    BY <1>3, <1>5, <2>1
  <2> QED BY <1>6, <2>1, <2>2
<1> QED BY <1>7

LEMMA ChainPins ==
    ASSUME FeedTypeOK
    PROVE  /\ Len(chain) \in Nat /\ mined \in Nat /\ pos \in Nat /\ backfill \in Nat
           /\ mined <= Len(chain) /\ pos <= mined /\ backfill <= mined
           /\ \A i \in 1..Len(chain) : chain[i] \in Pins
  BY FeedAssumption DEF FeedTypeOK, Pins, PinsOf

\* LastPin is what its name says.
LEMMA LastPinIsLast ==
    ASSUME FeedTypeOK, NEW n \in 0..Len(chain), NEW f
    PROVE  /\ LastPin(f, n) \in Pins \cup {NoPin}
           /\ LastPin(f, n) # NoPin =>
                 \E i \in 1..n : /\ Field[chain[i]] = f /\ LastPin(f, n) = chain[i]
                                 /\ \A j \in 1..n : Field[chain[j]] = f => j <= i
<1> DEFINE has == {i \in 1..n : Field[chain[i]] = f}
           i == CHOOSE x \in has : \A j \in has : j <= x
<1>1. LastPin(f, n) = IF has = {} THEN NoPin ELSE chain[i]
  BY DEF LastPin
<1>2. n \in Nat /\ has \subseteq 1..n /\ 1..n \subseteq 1..Len(chain)
  BY ChainPins
<1>3. has # {} => i \in has /\ \A j \in has : j <= i
  <2> HIDE DEF has
  <2> QED BY <1>2, LastExists
<1> HIDE DEF i
<1> QED BY <1>1, <1>2, <1>3, ChainPins

\* A merge has the remote identity and keeps what is known locally.
LEMMA MergeType ==
    ASSUME NEW local \in MaybeProfile, NEW remote \in Profiles
    PROVE  /\ MergeUserProfiles(local, remote) \in Profiles
           /\ MergeUserProfiles(local, remote).metaid = remote.metaid
           /\ local # NoProfile => \A f \in Fields \ {"avatar"} :
                 local.value[f] # NoPin =>
                     MergeUserProfiles(local, remote).value[f] = local.value[f]
<1>1. CASE local = NoProfile
  BY <1>1 DEF MergeUserProfiles
<1>2. CASE local # NoProfile
  <2> DEFINE v == [f \in Fields |->
                      IF remote.value[f] # NoPin /\ (local.value[f] = NoPin \/ f = "avatar")
                      THEN remote.value[f] ELSE local.value[f]]
  <2>1. local \in Profiles /\ local.value \in Values /\ remote.value \in Values
    BY <1>2 DEF Profiles, MaybeProfile
  <2>2. v \in Values
    BY <2>1 DEF Values
  <2>3. MergeUserProfiles(local, remote) = [remote EXCEPT !.value = v]
    BY <1>2 DEF MergeUserProfiles
  <2>4. \A f \in Fields \ {"avatar"} : local.value[f] # NoPin => v[f] = local.value[f]
    OBVIOUS
  <2> HIDE DEF v
  <2> QED BY <2>2, <2>3, <2>4 DEF Profiles
<1> QED BY <1>1, <1>2

\* What the remote service answers is a profile or nothing.
LEMMA FetchedType ==
    ASSUME FeedTypeOK, NEW remote \in FetchedProfiles, remote # NoProfile
    PROVE  remote \in Profiles
<1> DEFINE answers == {RemoteProfile(id, n) : id \in RemoteIds, n \in 1..mined}
<1>1. answers \subseteq Profiles
  <2> SUFFICES ASSUME NEW id \in RemoteIds, NEW n \in 1..mined PROVE RemoteProfile(id, n) \in Profiles
    OBVIOUS
  <2>1. n \in 0..Len(chain)
    BY ChainPins
  <2>2. \A f \in Fields : LastPin(f, n) \in Pins \cup {NoPin}
    BY <2>1, LastPinIsLast
  <2>3. [f \in Fields |-> IF f = "role" THEN NoPin ELSE LastPin(f, n)] \in Values
    BY <2>2 DEF Values
  <2>4. id.metaid \in MetaIds /\ id.global \in GlobalMetaIds
    BY UserInfoAssumption
  <2> QED BY <2>3, <2>4 DEF RemoteProfile, Profiles
<1>2. remote \in {NoProfile} \cup answers
          \cup {MergeUserProfiles(a, b) :
                    a \in {x \in answers : ProfileNeedsRemoteCompletion(x)}, b \in answers}
  BY DEF FetchedProfiles
<1> HIDE DEF answers
<1>3. CASE remote \in answers
  BY <1>1, <1>3
<1>4. CASE \E a, b \in answers : remote = MergeUserProfiles(a, b)
  BY <1>1, <1>4, MergeType DEF MaybeProfile
<1> QED BY <1>2, <1>3, <1>4

-----------------------------------------------------------------------------
(* What each step does to its call *)

SameCall(d) ==
    /\ phase'[d] = phase[d] /\ via'[d] = via[d] /\ asked'[d] = asked[d] /\ at'[d] = at[d]
    /\ base'[d] = base[d] /\ copy'[d] = copy[d]
Others(c) == \A d \in Callers : d # c => SameCall(d)

LEMMA FeedSame == ASSUME FeedTypeOK, UNCHANGED feedVars PROVE FeedTypeOK'
  BY DEF FeedTypeOK, feedVars

\* The end of a call: a goroutine of the feed goes on to the next pin.
LEMMA FinishEffect ==
    ASSUME Calls, NEW c \in Callers, Busy(c), Finish(c)
    PROVE  /\ FeedTypeOK' /\ UNCHANGED <<chain, writers, mined>>
           /\ pos' = (IF c = "scan" THEN pos + 1 ELSE pos)
           /\ backfill' = (IF c = "backfill" THEN backfill - 1 ELSE backfill)
           /\ "backfill" \notin writers => backfill' = 0
           /\ phase' \in [Callers -> Phases] /\ via' \in [Callers -> Vias]
           /\ asked' \in [Callers -> MaybeKey] /\ at' \in [Callers -> MaybeKey]
           /\ base' \in [Callers -> MaybeProfile] /\ copy' \in [Callers -> MaybeProfile]
           /\ phase'[c] = "idle" /\ Others(c)
<1>1. /\ phase' = [phase EXCEPT ![c] = "idle"] /\ via' = [via EXCEPT ![c] = "none"]
      /\ asked' = [asked EXCEPT ![c] = NoKey] /\ at' = [at EXCEPT ![c] = NoKey]
      /\ base' = [base EXCEPT ![c] = NoProfile] /\ copy' = [copy EXCEPT ![c] = NoProfile]
  BY DEF Finish, Goto, Work
<1>2. /\ c = "scan" => pos < mined /\ FromPin(c)
      /\ c = "backfill" => backfill > 0 /\ "backfill" \in writers /\ FromPin(c)
      /\ c \notin {"scan", "backfill"} => ~FromPin(c)
  BY UserInfoAssumption
     DEF Calls, TypeOK, FeedTypeOK, CallsOK, WriterOK, ReaderOK, FromPin, Callers, AllWriters
<1>3. Len(chain) \in Nat
  BY ChainPins DEF Calls, TypeOK
<1>4. /\ FeedTypeOK' /\ UNCHANGED <<chain, writers, mined>>
      /\ pos' = (IF c = "scan" THEN pos + 1 ELSE pos)
      /\ backfill' = (IF c = "backfill" THEN backfill - 1 ELSE backfill)
  BY <1>2, <1>3 DEF Finish, FromPin, Done, Advance, setup, feedVars, Calls, TypeOK, FeedTypeOK
<1>5. /\ phase' \in [Callers -> Phases] /\ via' \in [Callers -> Vias]
      /\ asked' \in [Callers -> MaybeKey] /\ at' \in [Callers -> MaybeKey]
      /\ base' \in [Callers -> MaybeProfile] /\ copy' \in [Callers -> MaybeProfile]
      /\ phase'[c] = "idle"
  BY <1>1 DEF Calls, TypeOK, Phases, Vias, MaybeKey, MaybeProfile
<1>6. Others(c)
  BY <1>1 DEF Others, SameCall, Calls, TypeOK
<1>7. "backfill" \notin writers => backfill' = 0
  BY <1>2, <1>4 DEF Calls, CallsOK
<1> QED BY <1>4, <1>5, <1>6, <1>7

\* CallsOK after a call has ended.
LEMMA FinishCalls ==
    ASSUME Calls, NEW c \in Callers, Busy(c), Finish(c), own' = own, TypeOK'
    PROVE  Calls'
<1>1. /\ UNCHANGED <<chain, writers, mined>>
      /\ pos' = (IF c = "scan" THEN pos + 1 ELSE pos)
      /\ backfill' = (IF c = "backfill" THEN backfill - 1 ELSE backfill)
      /\ "backfill" \notin writers => backfill' = 0
      /\ phase'[c] = "idle" /\ Others(c)
  BY FinishEffect
<1>2. "scan" \in Callers /\ "backfill" \in Callers
  BY DEF Callers, AllWriters
<1>3. (Busy("scan")' => pos' < mined') /\ (Busy("backfill")' => backfill' > 0)
  BY <1>1, <1>2 DEF Calls, CallsOK, Busy, Others, SameCall
<1>4. ASSUME NEW d \in Callers, Busy(d)' PROVE SameCall(d) /\ Busy(d)
  BY <1>1, <1>4 DEF Busy, Others, SameCall
<1>5. ASSUME NEW d \in Callers PROVE WriterOK(d)' /\ ReaderOK(d)'
  <2>1. CASE Busy(d)'
    BY <1>4, <2>1 DEF SameCall, Calls, CallsOK, WriterOK, ReaderOK, FromPin, Writing, PinMetaId, Busy
  <2> QED BY <2>1 DEF WriterOK, ReaderOK
<1>6. ASSUME NEW d \in Callers, Writing(d)' PROVE copy'[d] \in Profiles /\ at'[d] \in Keys
  <2>1. SameCall(d)
    BY <1>4, <1>6 DEF Writing, Busy
  <2> QED BY <1>6, <2>1 DEF SameCall, Calls, CallsOK, Writing
<1> QED BY <1>1, <1>3, <1>5, <1>6 DEF Calls, CallsOK

\* CallsOK after a step within a call.
LEMMA MoveCalls ==
    ASSUME Calls, NEW c \in Callers, Busy(c), TypeOK', Others(c),
           UNCHANGED <<writers, mined, pos, backfill, own>>,
           WriterOK(c)', ReaderOK(c)', Writing(c)' => copy'[c] \in Profiles /\ at'[c] \in Keys
    PROVE  Calls'
<1>1. "scan" \in Callers /\ "backfill" \in Callers
  BY DEF Callers, AllWriters
<1>2. (Busy("scan")' => pos' < mined') /\ (Busy("backfill")' => backfill' > 0)
  BY <1>1 DEF Calls, CallsOK, Busy, Others, SameCall
<1>3. ASSUME NEW d \in Callers, d # c
      PROVE  /\ WriterOK(d)' /\ ReaderOK(d)'
             /\ Writing(d)' => copy'[d] \in Profiles /\ at'[d] \in Keys
  BY <1>3 DEF Others, SameCall, Calls, CallsOK, WriterOK, ReaderOK, FromPin, Writing, PinMetaId, Busy
<1> QED BY <1>2, <1>3 DEF Calls, CallsOK

LEMMA StartEffect ==
    ASSUME Calls, NEW c \in Callers, NEW v \in Vias, NEW id \in MaybeKey, NEW ph \in Phases,
           Start(c, v, id, ph)
    PROVE  /\ phase[c] = "idle" /\ phase'[c] = ph /\ via'[c] = v /\ asked'[c] = id
           /\ phase' \in [Callers -> Phases] /\ via' \in [Callers -> Vias]
           /\ asked' \in [Callers -> MaybeKey]
           /\ \A d \in Callers : d # c =>
                 phase'[d] = phase[d] /\ via'[d] = via[d] /\ asked'[d] = asked[d]
           /\ excused' = (IF \E d \in Callers : Saving(d) THEN Keys ELSE excused)
           /\ excused' \subseteq Keys /\ causes' = causes
  BY DEF Start, Goto, Calls, TypeOK, Vias, MaybeKey

LEMMA WorkEffect ==
    ASSUME Calls, NEW c \in Callers, NEW p \in MaybeProfile, Work(c, p)
    PROVE  /\ base' \in [Callers -> MaybeProfile] /\ copy' \in [Callers -> MaybeProfile]
           /\ base'[c] = p /\ copy'[c] = p
           /\ \A d \in Callers : d # c => base'[d] = base[d] /\ copy'[d] = copy[d]
  BY DEF Work, Calls, TypeOK, MaybeProfile

LEMMA GotoEffect ==
    ASSUME Calls, NEW c \in Callers, NEW ph \in Phases, Goto(c, ph)
    PROVE  /\ phase' \in [Callers -> Phases] /\ phase'[c] = ph
           /\ \A d \in Callers : d # c => phase'[d] = phase[d]
  BY DEF Goto, Calls, TypeOK

-----------------------------------------------------------------------------
(* The calls are preserved *)

Frame == UNCHANGED <<chain, writers, mined, own, mode>>

LEMMA InitCalls == Init => Calls
<1> SUFFICES ASSUME Init PROVE Calls
  OBVIOUS
<1>1. FeedTypeOK
  <2>1. Len(chain) \in Nat
    BY FeedAssumption DEF Init, FeedInit
  <2>2. mined \in 0..Len(chain) /\ pos \in 0..mined /\ backfill \in 0..mined
    BY <2>1 DEF Init, FeedInit
  <2>3. crashes \in 0..MaxCrashes /\ polled \in [Pins -> 0..MaxPolls]
    BY FeedAssumption DEF Init, FeedInit
  <2> QED BY <2>2, <2>3 DEF Init, FeedInit, FeedTypeOK
<1>2. TypeOK
  BY <1>1 DEF Init, NoCalls, TypeOK, Phases
<1>3. \A c \in Callers : phase[c] = "idle"
  BY DEF Init, NoCalls
<1>4. CallsOK
  BY <1>3 DEF CallsOK, WriterOK, ReaderOK, Writing, Busy, Init, FeedInit, Callers, AllWriters
<1> QED BY <1>2, <1>4 DEF Calls

LEMMA FoundType ==
    ASSUME TypeOK, NEW entry, NEW matching \in SUBSET Keys, NEW p \in FindProfile(entry, matching)
    PROVE  p \in MaybeProfile
  BY DEF FindProfile, TypeOK, MaybeProfile

LEMMA RequestEffect ==
    ASSUME Calls, NEW c \in Readers, Request(c)
    PROVE  /\ Calls' /\ Frame /\ Others(c) /\ UNCHANGED <<pos, profileVars, cacheVars>>
           /\ ~Busy(c) /\ phase'[c] \in {"l2", "complete"}
           /\ excused' = (IF \E d \in Callers : Saving(d) THEN Keys ELSE excused)
           /\ causes' = causes
           /\ via'[c] = "metaid" /\ phase'[c] = "complete" => copy'[c] = l1[asked'[c]]
<1>1. c \in Callers
  BY DEF Callers
<1>2. WithAddress \subseteq Keys /\ \A g : WithGlobalMetaId(g) \subseteq Keys
  BY DEF WithAddress, WithGlobalMetaId
<1>3. PICK v \in {"metaid", "global", "lookup"}, id \in MaybeKey, ph \in {"l2", "complete"},
           p \in MaybeProfile :
        /\ Start(c, v, id, ph) /\ Work(c, p)
        /\ UNCHANGED <<feedVars, setting, profileVars, cacheVars, at>>
        /\ v = "metaid" => id \in Keys /\ p = l1[id]
        /\ ph = "l2" => v = "metaid"
  <2>1. CASE \E m \in MetaIds : RequestMetaId(c, m)
    <3>1. PICK m \in MetaIds : RequestMetaId(c, m)
      BY <2>1
    <3>2. m \in MaybeKey /\ m \in Keys /\ l1[m] \in MaybeProfile
      BY DEF MetaIds, Keys, MaybeKey, MaybeProfile, Calls, TypeOK
    <3> QED BY <3>1, <3>2 DEF RequestMetaId
  <2>2. CASE \E m \in MetaIds : LookupByMetaId(c, m)
    <3>1. PICK m \in MetaIds : LookupByMetaId(c, m)
      BY <2>2
    <3>2. m \in MaybeKey /\ stored[m] \in MaybeProfile
      BY DEF MetaIds, Keys, MaybeKey, MaybeProfile, Calls, TypeOK
    <3> QED BY <3>1, <3>2 DEF LookupByMetaId
  <2>3. CASE LookupByAddress(c)
    <3>1. PICK p \in FindProfileByAddress : Work(c, p)
      BY <2>3 DEF LookupByAddress
    <3>2. p \in MaybeProfile
      BY <1>2, FoundType DEF FindProfileByAddress, Calls
    <3> QED BY <2>3, <3>1, <3>2 DEF LookupByAddress, MaybeKey
  <2>4. CASE \E g \in GlobalMetaIds : LookupByGlobalMetaId(c, g)
    <3>1. PICK g \in GlobalMetaIds : LookupByGlobalMetaId(c, g)
      BY <2>4
    <3>2. PICK p \in FindProfileByGlobalMetaId(g) : Work(c, p)
      BY <3>1 DEF LookupByGlobalMetaId
    <3>3. p \in MaybeProfile
      BY <1>2, FoundType DEF FindProfileByGlobalMetaId, Calls
    <3> QED BY <3>1, <3>2, <3>3 DEF LookupByGlobalMetaId, MaybeKey, Keys, GlobalMetaIds
  <2> QED BY <2>1, <2>2, <2>3, <2>4 DEF Request
<1>4. v \in Vias /\ ph \in Phases
  BY DEF Vias, Phases
<1>5. /\ phase[c] = "idle" /\ phase'[c] = ph /\ via'[c] = v /\ asked'[c] = id
      /\ phase' \in [Callers -> Phases] /\ via' \in [Callers -> Vias]
      /\ asked' \in [Callers -> MaybeKey]
      /\ \A d \in Callers : d # c =>
            phase'[d] = phase[d] /\ via'[d] = via[d] /\ asked'[d] = asked[d]
      /\ excused' = (IF \E d \in Callers : Saving(d) THEN Keys ELSE excused)
      /\ excused' \subseteq Keys /\ causes' = causes
  BY <1>1, <1>3, <1>4, StartEffect
<1>6. /\ base' \in [Callers -> MaybeProfile] /\ copy' \in [Callers -> MaybeProfile]
      /\ base'[c] = p /\ copy'[c] = p
      /\ \A d \in Callers : d # c => base'[d] = base[d] /\ copy'[d] = copy[d]
  BY <1>1, <1>3, WorkEffect
<1>7. FeedTypeOK' /\ Frame /\ UNCHANGED <<pos, backfill>>
  BY <1>3, FeedSame DEF Frame, Calls, TypeOK, feedVars, setting
<1>8. TypeOK'
  BY <1>3, <1>5, <1>6, <1>7
     DEF Calls, TypeOK, setting, profileVars, cacheVars, Vias, MaybeKey, MaybeProfile
<1>9. Others(c)
  BY <1>3, <1>5, <1>6 DEF Others, SameCall
<1>10. c \notin AllWriters /\ "scan" # c /\ "backfill" # c /\ "scan" \in Callers /\ "backfill" \in Callers
  BY UserInfoAssumption DEF Callers, AllWriters
<1>11. WriterOK(c)' /\ ReaderOK(c)' /\ ~Writing(c)'
  BY <1>3, <1>5, <1>6, <1>10 DEF WriterOK, ReaderOK, Writing
<1>12. ASSUME NEW d \in Callers, d # c
       PROVE  /\ WriterOK(d)' /\ ReaderOK(d)'
              /\ Writing(d)' => copy'[d] \in Profiles /\ at'[d] \in Keys
  BY <1>7, <1>9, <1>12
     DEF Others, SameCall, Calls, CallsOK, WriterOK, ReaderOK, FromPin, Writing, PinMetaId, Busy, Frame
<1>13. Calls'
  BY <1>7, <1>8, <1>9, <1>10, <1>11, <1>12 DEF Calls, CallsOK, Busy, Others, SameCall, Frame
<1> QED BY <1>3, <1>5, <1>6, <1>7, <1>9, <1>13 DEF Busy

\* A call that does not write is a request.
LEMMA RequestCalls ==
    ASSUME Calls, NEW c \in Callers, Busy(c), ~Writing(c)
    PROVE  c \in Readers /\ c \notin AllWriters /\ via[c] \in {"metaid", "global", "lookup"}
  BY UserInfoAssumption DEF Calls, CallsOK, WriterOK, ReaderOK, Callers

LEMMA GetEffect ==
    ASSUME Calls, NEW c \in Callers, GetL2(c) \/ GetProfile(c)
    PROVE  /\ Calls' /\ Frame /\ Others(c) /\ UNCHANGED <<pos, profileVars, l2, history>>
           /\ Busy(c) /\ ~Writing(c) /\ asked[c] \in Keys
           /\ phase'[c] \in {"load", "complete"} /\ via'[c] = "metaid" /\ asked'[c] = asked[c]
           /\ phase'[c] = "complete" => copy'[c] \in {l2[asked[c]], stored[asked[c]]}
           /\ \A k \in Keys : l1'[k] = l1[k] \/ (k = asked[c] /\ l1'[k] = l2[k])
           /\ open => open'
<1>1. phase[c] \in {"l2", "load"} /\ Busy(c) /\ ~Writing(c)
  BY DEF GetL2, GetProfile, Busy, Writing
<1>2. c \in Readers /\ c \notin AllWriters /\ via[c] = "metaid" /\ asked[c] \in Keys
  BY <1>1, RequestCalls DEF Calls, CallsOK, ReaderOK
<1>3. PICK ph \in {"load", "complete"}, p \in {l2[asked[c]], stored[asked[c]]} :
        Goto(c, ph) /\ Work(c, p)
  BY DEF GetL2, GetProfile
<1>4. p \in MaybeProfile
  BY <1>2 DEF Calls, TypeOK, MaybeProfile
<1>5. /\ phase' \in [Callers -> Phases] /\ phase'[c] = ph
      /\ \A d \in Callers : d # c => phase'[d] = phase[d]
  BY <1>3, GotoEffect DEF Phases
<1>6. /\ base' \in [Callers -> MaybeProfile] /\ copy' \in [Callers -> MaybeProfile]
      /\ base'[c] = p /\ copy'[c] = p
      /\ \A d \in Callers : d # c => base'[d] = base[d] /\ copy'[d] = copy[d]
  BY <1>3, <1>4, WorkEffect
<1>7. /\ UNCHANGED <<feedVars, setting, profileVars, l2, via, asked, at, history>>
      /\ open' \in BOOLEAN /\ (open => open')
  BY DEF GetL2, GetProfile, cacheVars, Calls, TypeOK
<1>8. /\ l1' \in [Keys -> MaybeProfile]
      /\ \A k \in Keys : l1'[k] = l1[k] \/ (k = asked[c] /\ l1'[k] = l2[k])
  <2>1. l1' \in {l1, [l1 EXCEPT ![asked[c]] = l2[asked[c]]]}
    BY DEF GetL2, GetProfile, cacheVars
  <2> QED BY <1>2, <2>1 DEF Calls, TypeOK, MaybeProfile
<1>9. FeedTypeOK' /\ Frame /\ UNCHANGED <<pos, backfill>>
  BY <1>7, FeedSame DEF Frame, Calls, TypeOK, feedVars, setting
<1>10. TypeOK'
  BY <1>5, <1>6, <1>7, <1>8, <1>9
     DEF Calls, TypeOK, setting, profileVars, history, MaybeProfile
<1>11. Others(c)
  BY <1>5, <1>6, <1>7 DEF Others, SameCall
<1>12. WriterOK(c)' /\ ReaderOK(c)' /\ ~Writing(c)'
  BY <1>2, <1>5, <1>6, <1>7 DEF WriterOK, ReaderOK, Writing
<1>13. Calls'
  BY <1>1, <1>9, <1>10, <1>11, <1>12, MoveCalls DEF Frame
<1> QED BY <1>1, <1>2, <1>5, <1>6, <1>7, <1>8, <1>9, <1>11, <1>13

LEMMA CompleteEffect ==
    ASSUME Calls, NEW c \in Callers, CompleteProfile(c)
    PROVE  /\ Calls' /\ Frame /\ Others(c) /\ UNCHANGED <<pos, profileVars, cacheVars, history>>
           /\ Busy(c) /\ ~Writing(c) /\ phase[c] = "complete" /\ c \in Readers /\ copy[c] = base[c]
           /\ \/ phase'[c] = "idle"
              \/ /\ phase'[c] = "setL1" /\ via[c] = "metaid" /\ via'[c] = via[c] /\ asked'[c] = asked[c]
                 /\ copy'[c] = copy[c] /\ copy[c] # NoProfile
              \/ /\ phase'[c] = "save" /\ via'[c] = via[c] /\ asked'[c] = asked[c] /\ base'[c] = base[c]
                 /\ at'[c] = copy'[c].metaid
                 /\ \E remote \in Profiles : copy'[c] = MergeUserProfiles(copy[c], remote)
<1>1. phase[c] = "complete" /\ Busy(c) /\ ~Writing(c)
  BY DEF CompleteProfile, Busy, Writing
<1>2. c \in Readers /\ c \notin AllWriters /\ via[c] \in {"metaid", "global", "lookup"}
      /\ copy[c] = base[c] /\ (via[c] = "metaid" => asked[c] \in Keys)
  BY <1>1, RequestCalls DEF Calls, CallsOK, ReaderOK
<1>3. c # "scan"
  BY <1>2 DEF AllWriters
<1>4. UNCHANGED <<setting, profileVars, cacheVars, history>>
  BY DEF CompleteProfile
<1>5. CASE Finish(c)
  <2>1. /\ FeedTypeOK' /\ UNCHANGED <<chain, writers, mined, pos>>
        /\ phase' \in [Callers -> Phases] /\ via' \in [Callers -> Vias]
        /\ asked' \in [Callers -> MaybeKey] /\ at' \in [Callers -> MaybeKey]
        /\ base' \in [Callers -> MaybeProfile] /\ copy' \in [Callers -> MaybeProfile]
        /\ phase'[c] = "idle" /\ Others(c)
    BY <1>1, <1>3, <1>5, FinishEffect
  <2>2. TypeOK'
    BY <1>4, <2>1
       DEF Calls, TypeOK, setting, profileVars, cacheVars, history, MaybeKey, MaybeProfile, Vias
  <2>3. Calls'
    BY <1>1, <1>4, <1>5, <2>2, FinishCalls DEF setting
  <2> QED BY <1>1, <1>2, <1>4, <2>1, <2>3 DEF Frame, setting
<1>6. CASE /\ via[c] = "metaid" /\ copy[c] # NoProfile /\ Goto(c, "setL1")
           /\ UNCHANGED <<via, asked, at, base, copy, feedVars>>
  <2>1. /\ phase' \in [Callers -> Phases] /\ phase'[c] = "setL1"
        /\ \A d \in Callers : d # c => phase'[d] = phase[d]
    BY <1>6, GotoEffect DEF Phases
  <2>2. FeedTypeOK' /\ Frame /\ UNCHANGED <<pos, backfill>>
    BY <1>4, <1>6, FeedSame DEF Frame, Calls, TypeOK, feedVars, setting
  <2>3. TypeOK'
    BY <1>4, <1>6, <2>1, <2>2 DEF Calls, TypeOK, setting, profileVars, cacheVars, history
  <2>4. Others(c)
    BY <1>6, <2>1 DEF Others, SameCall
  <2>5. WriterOK(c)' /\ ReaderOK(c)' /\ ~Writing(c)'
    BY <1>2, <1>6, <2>1 DEF WriterOK, ReaderOK, Writing
  <2>6. Calls'
    BY <1>1, <2>2, <2>3, <2>4, <2>5, MoveCalls DEF Frame
  <2> QED BY <1>1, <1>2, <1>4, <1>6, <2>1, <2>2, <2>4, <2>6
<1>7. CASE \E remote \in FetchedProfiles :
             /\ remote # NoProfile
             /\ copy' = [copy EXCEPT ![c] = MergeUserProfiles(copy[c], remote)]
             /\ at' = [at EXCEPT ![c] = remote.metaid]
             /\ Goto(c, "save")
             /\ UNCHANGED <<via, asked, base, feedVars>>
  <2>1. PICK remote \in FetchedProfiles :
             /\ remote # NoProfile
             /\ copy' = [copy EXCEPT ![c] = MergeUserProfiles(copy[c], remote)]
             /\ at' = [at EXCEPT ![c] = remote.metaid]
             /\ Goto(c, "save")
             /\ UNCHANGED <<via, asked, base, feedVars>>
    BY <1>7
  <2>2. remote \in Profiles
    BY <2>1, FetchedType DEF Calls, TypeOK
  <2>3. copy[c] \in MaybeProfile
    BY DEF Calls, TypeOK, MaybeProfile
  <2>4. /\ MergeUserProfiles(copy[c], remote) \in Profiles
        /\ MergeUserProfiles(copy[c], remote).metaid = remote.metaid
    BY <2>2, <2>3, MergeType
  <2>5. remote.metaid \in Keys
    BY <2>2 DEF Profiles, MetaIds, Keys
  <2>6. /\ phase' \in [Callers -> Phases] /\ phase'[c] = "save"
        /\ \A d \in Callers : d # c => phase'[d] = phase[d]
    BY <2>1, GotoEffect DEF Phases
  <2>7. /\ copy' \in [Callers -> MaybeProfile] /\ at' \in [Callers -> MaybeKey]
        /\ copy'[c] = MergeUserProfiles(copy[c], remote) /\ at'[c] = remote.metaid
        /\ \A d \in Callers : d # c => copy'[d] = copy[d] /\ at'[d] = at[d]
    BY <2>1, <2>4, <2>5 DEF Calls, TypeOK, MaybeProfile, MaybeKey
  <2>8. FeedTypeOK' /\ Frame /\ UNCHANGED <<pos, backfill>>
    BY <1>4, <2>1, FeedSame DEF Frame, Calls, TypeOK, feedVars, setting
  <2>9. TypeOK'
    BY <1>4, <2>1, <2>6, <2>7, <2>8
       DEF Calls, TypeOK, setting, profileVars, cacheVars, history, MaybeProfile, MaybeKey
  <2>10. Others(c)
    BY <2>1, <2>6, <2>7 DEF Others, SameCall
  <2>11. WriterOK(c)' /\ ReaderOK(c)' /\ (Writing(c)' => copy'[c] \in Profiles /\ at'[c] \in Keys)
    BY <1>2, <2>1, <2>4, <2>5, <2>6, <2>7 DEF WriterOK, ReaderOK, Writing
  <2>12. Calls'
    BY <1>1, <2>8, <2>9, <2>10, <2>11, MoveCalls DEF Frame
  <2> QED BY <1>1, <1>2, <1>4, <2>1, <2>2, <2>4, <2>6, <2>7, <2>8, <2>10, <2>12
<1> QED BY <1>5, <1>6, <1>7 DEF CompleteProfile, Answer

\* The first write of a save.
LEMMA SaveEffect ==
    ASSUME Calls, NEW c \in Callers, SaveProfile(c)
    PROVE  /\ Calls' /\ Frame /\ Others(c) /\ UNCHANGED <<pos, byGlobal, byAddress, cacheVars>>
           /\ Busy(c) /\ Writing(c) /\ phase[c] = "save" /\ phase'[c] = "global"
           /\ copy[c] \in Profiles /\ at[c] \in Keys
           /\ UNCHANGED <<via, asked, at, base, copy>>
           /\ stored'[at[c]] = copy[c]
           /\ \A k \in Keys : k # at[c] => stored'[k] = stored[k]
<1>1. phase[c] = "save" /\ Busy(c) /\ Writing(c) /\ copy[c] \in Profiles /\ at[c] \in Keys
  BY DEF SaveProfile, Busy, Writing, Calls, CallsOK
<1>2. /\ UNCHANGED <<feedVars, setting, byGlobal, byAddress, cacheVars, via, asked, at, base, copy>>
      /\ stored' = [stored EXCEPT ![at[c]] = copy[c]]
      /\ Goto(c, "global")
      /\ excused' \in {excused \cup {at[c]}, excused \ {at[c]}}
  BY DEF SaveProfile
<1>3. /\ phase' \in [Callers -> Phases] /\ phase'[c] = "global"
      /\ \A d \in Callers : d # c => phase'[d] = phase[d]
  BY <1>2, GotoEffect DEF Phases
<1>4. FeedTypeOK' /\ Frame /\ UNCHANGED <<pos, backfill>>
  BY <1>2, FeedSame DEF Frame, Calls, TypeOK, feedVars, setting
<1>5. causes' \subseteq {"overwritten", "renamed", "foreign"} /\ excused' \subseteq Keys
  <2>1. causes' \subseteq causes \cup {"overwritten", "renamed", "foreign"}
    BY DEF SaveProfile
  <2> QED BY <1>1, <1>2, <2>1 DEF Calls, TypeOK
<1>6. /\ stored' \in [Keys -> MaybeProfile] /\ stored'[at[c]] = copy[c]
      /\ \A k \in Keys : k # at[c] => stored'[k] = stored[k]
  BY <1>1, <1>2 DEF Calls, TypeOK, MaybeProfile
<1>7. TypeOK'
  BY <1>2, <1>3, <1>4, <1>5, <1>6 DEF Calls, TypeOK, setting, cacheVars, MaybeProfile
<1>8. Others(c)
  BY <1>2, <1>3 DEF Others, SameCall
<1>9. WriterOK(c)' /\ ReaderOK(c)' /\ (Writing(c)' => copy'[c] \in Profiles /\ at'[c] \in Keys)
  BY <1>1, <1>2, <1>3, <1>4
     DEF Calls, CallsOK, WriterOK, ReaderOK, Writing, Busy, FromPin, PinMetaId, Frame
<1>10. Calls'
  BY <1>1, <1>4, <1>7, <1>8, <1>9, MoveCalls DEF Frame
<1> QED BY <1>1, <1>2, <1>3, <1>4, <1>6, <1>8, <1>10

LEMMA GlobalEffect ==
    ASSUME Calls, NEW c \in Callers, SaveGlobalIndex(c)
    PROVE  /\ Calls' /\ Frame /\ Others(c)
           /\ UNCHANGED <<pos, stored, byAddress, cacheVars, history>>
           /\ Busy(c) /\ phase[c] = "global" /\ phase'[c] = "address"
           /\ UNCHANGED <<via, asked, at, base, copy>>
           /\ copy[c] \in Profiles
           /\ \A g \in GlobalMetaIds :
                 byGlobal'[g] = IF g = copy[c].global THEN copy[c].metaid ELSE byGlobal[g]
<1>1. phase[c] = "global" /\ Busy(c) /\ Writing(c) /\ copy[c] \in Profiles /\ at[c] \in Keys
  BY DEF SaveGlobalIndex, Busy, Writing, Calls, CallsOK
<1>2. /\ UNCHANGED <<feedVars, setting, stored, byAddress, cacheVars, via, asked, at, base, copy, history>>
      /\ byGlobal' = [byGlobal EXCEPT ![copy[c].global] = copy[c].metaid]
      /\ Goto(c, "address")
  BY DEF SaveGlobalIndex
<1>3. /\ phase' \in [Callers -> Phases] /\ phase'[c] = "address"
      /\ \A d \in Callers : d # c => phase'[d] = phase[d]
  BY <1>2, GotoEffect DEF Phases
<1>4. FeedTypeOK' /\ Frame /\ UNCHANGED <<pos, backfill>>
  BY <1>2, FeedSame DEF Frame, Calls, TypeOK, feedVars, setting
<1>5. /\ byGlobal' \in [GlobalMetaIds -> MetaIds \cup {NoKey}]
      /\ \A g \in GlobalMetaIds :
            byGlobal'[g] = IF g = copy[c].global THEN copy[c].metaid ELSE byGlobal[g]
  <2>1. copy[c].metaid \in MetaIds
    BY <1>1 DEF Profiles
  <2> QED BY <1>2, <2>1 DEF Calls, TypeOK
<1>6. TypeOK'
  BY <1>2, <1>3, <1>4, <1>5 DEF Calls, TypeOK, setting, cacheVars, history
<1>7. Others(c)
  BY <1>2, <1>3 DEF Others, SameCall
<1>8. WriterOK(c)' /\ ReaderOK(c)' /\ (Writing(c)' => copy'[c] \in Profiles /\ at'[c] \in Keys)
  BY <1>1, <1>2, <1>3, <1>4
     DEF Calls, CallsOK, WriterOK, ReaderOK, Writing, Busy, FromPin, PinMetaId, Frame
<1>9. Calls'
  BY <1>1, <1>4, <1>6, <1>7, <1>8, MoveCalls DEF Frame
<1> QED BY <1>1, <1>2, <1>3, <1>4, <1>5, <1>7, <1>9

\* After the last index entry a call ends, saves the alias or invalidates.
LEMMA AddressEffect ==
    ASSUME Calls, NEW c \in Callers, SaveAddressIndex(c)
    PROVE  /\ Calls' /\ Frame /\ Others(c)
           /\ UNCHANGED <<stored, byGlobal, cacheVars, history>>
           /\ pos' = (IF c = "scan" /\ via[c] = "init" THEN pos + 1 ELSE pos)
           /\ Busy(c) /\ phase[c] = "address" /\ copy[c] \in Profiles
           /\ byAddress' = copy[c].metaid
           /\ \/ via[c] = "init" /\ phase'[c] = "idle"
              \/ /\ via[c] # "init" /\ via'[c] = via[c] /\ asked'[c] = asked[c]
                 /\ copy'[c] = copy[c] /\ base'[c] = base[c]
                 /\ \/ /\ phase'[c] = "save" /\ ~FromPin(c)
                       /\ at[c] = copy[c].metaid /\ at'[c] = asked[c] /\ asked[c] # copy[c].metaid
                    \/ /\ phase'[c] = "purge"
                       /\ FromPin(c) => at'[c] = asked[c]
                       /\ ~FromPin(c) => at'[c] = at[c] /\ at[c] = (IF asked[c] = NoKey THEN copy[c].metaid ELSE asked[c])
<1>1. phase[c] = "address" /\ Busy(c) /\ Writing(c) /\ copy[c] \in Profiles /\ at[c] \in Keys
  BY DEF SaveAddressIndex, Busy, Writing, Calls, CallsOK
<1>2. UNCHANGED <<setting, stored, byGlobal, cacheVars, history>> /\ byAddress' = copy[c].metaid
  BY DEF SaveAddressIndex
<1>3. copy[c].metaid \in MetaIds /\ copy[c].metaid \in Keys /\ NoKey \notin Keys
  BY <1>1, UserInfoAssumption DEF Profiles, MetaIds, Keys
<1>4. CASE via[c] = "init" /\ Finish(c)
  <2>1. /\ FeedTypeOK' /\ UNCHANGED <<chain, writers, mined>>
        /\ pos' = (IF c = "scan" THEN pos + 1 ELSE pos)
        /\ phase' \in [Callers -> Phases] /\ via' \in [Callers -> Vias]
        /\ asked' \in [Callers -> MaybeKey] /\ at' \in [Callers -> MaybeKey]
        /\ base' \in [Callers -> MaybeProfile] /\ copy' \in [Callers -> MaybeProfile]
        /\ phase'[c] = "idle" /\ Others(c)
    BY <1>1, <1>4, FinishEffect
  <2>2. TypeOK'
    BY <1>2, <1>3, <2>1
       DEF Calls, TypeOK, setting, cacheVars, history, MaybeKey, MaybeProfile, Vias
  <2>3. Calls'
    BY <1>1, <1>2, <1>4, <2>2, FinishCalls DEF setting
  <2> QED BY <1>1, <1>2, <1>4, <2>1, <2>3 DEF Frame, setting
<1>5. CASE /\ via[c] # "init"
           /\ IF NeedsAlias(c) /\ at[c] = copy[c].metaid THEN Goto(c, "save") ELSE Goto(c, "purge")
           /\ at' = [at EXCEPT ![c] = IF FromPin(c) \/ NeedsAlias(c) THEN asked[c] ELSE @]
           /\ UNCHANGED <<feedVars, via, asked, base, copy>>
  <2>1. PICK ph \in {"save", "purge"} :
           /\ Goto(c, ph)
           /\ ph = "save" <=> NeedsAlias(c) /\ at[c] = copy[c].metaid
    BY <1>5
  <2>2. /\ phase' \in [Callers -> Phases] /\ phase'[c] = ph
        /\ \A d \in Callers : d # c => phase'[d] = phase[d]
    BY <2>1, GotoEffect DEF Phases
  <2>3. /\ at'[c] = (IF FromPin(c) \/ NeedsAlias(c) THEN asked[c] ELSE at[c])
        /\ \A d \in Callers : d # c => at'[d] = at[d]
    BY <1>5 DEF Calls, TypeOK
  <2>4. FromPin(c) => c \in AllWriters /\ asked[c] \in Keys /\ via[c] = "pin"
    <3>1. PinMetaId(c) \in Keys
      BY UserInfoAssumption DEF PinMetaId, Calls, TypeOK, Keys, MetaIds
    <3> QED BY <1>1, <1>5, <3>1 DEF Calls, CallsOK, WriterOK, ReaderOK, FromPin, Callers
  <2>5. ~FromPin(c) => c \in Readers /\ c \notin AllWriters
    BY <1>1, UserInfoAssumption DEF Calls, CallsOK, WriterOK, Callers
  <2>6. asked[c] \in MaybeKey
    BY DEF Calls, TypeOK, MaybeKey
  <2>7. at'[c] \in Keys /\ at' \in [Callers -> MaybeKey]
    <3>1. at'[c] \in Keys
      BY <1>1, <2>3, <2>4, <2>6 DEF NeedsAlias, MaybeKey
    <3> QED BY <1>5, <2>6, <3>1 DEF Calls, TypeOK, MaybeKey
  <2>8. FeedTypeOK' /\ Frame /\ UNCHANGED <<pos, backfill>>
    BY <1>2, <1>5, FeedSame DEF Frame, Calls, TypeOK, feedVars, setting
  <2>9. TypeOK'
    BY <1>2, <1>3, <1>5, <2>2, <2>7, <2>8
       DEF Calls, TypeOK, setting, cacheVars, history, MaybeKey
  <2>10. Others(c)
    BY <1>5, <2>2, <2>3 DEF Others, SameCall
  <2>11. ph = "save" => ~FromPin(c) /\ asked[c] # copy[c].metaid /\ asked[c] # NoKey /\ at[c] = copy[c].metaid
    BY <2>1 DEF NeedsAlias
  <2>12. ~FromPin(c) /\ ph = "purge" =>
            at'[c] = at[c] /\ at[c] = IF asked[c] = NoKey THEN copy[c].metaid ELSE asked[c]
    <3>1. ~FromPin(c) => at[c] = copy[c].metaid \/ (asked[c] # NoKey /\ at[c] = asked[c])
      BY <1>1, <2>5 DEF Calls, CallsOK, ReaderOK
    <3> QED BY <2>1, <2>3, <3>1 DEF NeedsAlias
  <2>13. FromPin(c)' <=> FromPin(c)
    BY <1>5 DEF FromPin
  <2>14. WriterOK(c)' /\ ReaderOK(c)'
    <3>1. CASE FromPin(c)
      <4>1. ph = "purge" /\ at'[c] = asked[c] /\ c \in {"scan", "backfill"} /\ c \notin Readers
        BY <1>1, <2>3, <2>4, <2>11, <3>1, UserInfoAssumption DEF Calls, CallsOK, WriterOK
      <4> QED BY <1>1, <1>5, <2>2, <2>4, <2>8, <2>13, <3>1, <4>1
              DEF Calls, CallsOK, WriterOK, ReaderOK, Writing, Busy, PinMetaId, Frame
    <3>2. CASE ~FromPin(c)
      <4>1. via[c] \in {"metaid", "global", "lookup"} /\ (via[c] = "metaid" => asked[c] \in Keys)
        BY <1>1, <2>5, <3>2 DEF Calls, CallsOK, ReaderOK
      <4> QED BY <1>3, <1>5, <2>2, <2>3, <2>5, <2>11, <2>12, <3>2, <4>1 DEF WriterOK, ReaderOK, Writing, NeedsAlias
    <3> QED BY <3>1, <3>2
  <2>15. Calls'
    BY <1>1, <1>5, <2>7, <2>8, <2>9, <2>10, <2>14, MoveCalls DEF Frame
  <2> QED BY <1>1, <1>2, <1>5, <2>2, <2>3, <2>8, <2>10, <2>11, <2>12, <2>15, <2>1 DEF NeedsAlias
<1> QED BY <1>4, <1>5 DEF SaveAddressIndex

LEMMA PurgeEffect ==
    ASSUME Calls, NEW c \in Callers, PurgeL1(c)
    PROVE  /\ Calls' /\ Frame /\ Others(c) /\ UNCHANGED <<pos, profileVars, l2, open, history>>
           /\ Busy(c) /\ phase[c] = "purge" /\ phase'[c] = "delete"
           /\ UNCHANGED <<via, asked, at, base, copy>>
           /\ \A k \in Keys : l1'[k] = NoProfile
<1>1. phase[c] = "purge" /\ Busy(c) /\ Writing(c) /\ copy[c] \in Profiles /\ at[c] \in Keys
  BY DEF PurgeL1, Busy, Writing, Calls, CallsOK
<1>2. /\ UNCHANGED <<feedVars, setting, profileVars, l2, open, via, asked, at, base, copy, history>>
      /\ l1' = [k \in Keys |-> NoProfile]
      /\ Goto(c, "delete")
  BY DEF PurgeL1
<1>3. /\ phase' \in [Callers -> Phases] /\ phase'[c] = "delete"
      /\ \A d \in Callers : d # c => phase'[d] = phase[d]
  BY <1>2, GotoEffect DEF Phases
<1>4. FeedTypeOK' /\ Frame /\ UNCHANGED <<pos, backfill>>
  BY <1>2, FeedSame DEF Frame, Calls, TypeOK, feedVars, setting
<1>5. TypeOK'
  BY <1>2, <1>3, <1>4 DEF Calls, TypeOK, setting, profileVars, history
<1>6. Others(c)
  BY <1>2, <1>3 DEF Others, SameCall
<1>7. WriterOK(c)' /\ ReaderOK(c)' /\ (Writing(c)' => copy'[c] \in Profiles /\ at'[c] \in Keys)
  BY <1>1, <1>2, <1>3, <1>4
     DEF Calls, CallsOK, WriterOK, ReaderOK, Writing, Busy, FromPin, PinMetaId, Frame
<1>8. Calls'
  BY <1>1, <1>4, <1>5, <1>6, <1>7, MoveCalls DEF Frame
<1> QED BY <1>1, <1>2, <1>3, <1>4, <1>6, <1>8

LEMMA DeleteEffect ==
    ASSUME Calls, NEW c \in Callers, DeleteL2(c)
    PROVE  /\ Calls' /\ Frame /\ Others(c) /\ UNCHANGED <<profileVars, l1, open, history>>
           /\ pos' = (IF c = "scan" THEN pos + 1 ELSE pos)
           /\ Busy(c) /\ phase[c] = "delete" /\ at[c] \in Keys /\ copy[c] \in Profiles
           /\ open => l2'[at[c]] = NoProfile
           /\ \A k \in Keys : k # at[c] \/ ~open => l2'[k] = l2[k]
           /\ \/ phase'[c] = "idle" /\ (FromPin(c) \/ at[c] = copy[c].metaid)
              \/ /\ via'[c] = via[c] /\ asked'[c] = asked[c] /\ copy'[c] = copy[c]
                 /\ ~FromPin(c) /\ c # "scan"
                 /\ \/ /\ phase'[c] = "purge" /\ at'[c] = copy[c].metaid
                       /\ at[c] = asked[c] /\ at[c] # copy[c].metaid
                    \/ phase'[c] = "setL1" /\ via[c] = "metaid" /\ at[c] = copy[c].metaid
<1>1. phase[c] = "delete" /\ Busy(c) /\ Writing(c) /\ copy[c] \in Profiles /\ at[c] \in Keys
  BY DEF DeleteL2, Busy, Writing, Calls, CallsOK
<1>2. /\ UNCHANGED <<setting, profileVars, l1, open, history>>
      /\ l2' = IF open THEN [l2 EXCEPT ![at[c]] = NoProfile] ELSE l2
      /\ Invalidated(c)
  BY DEF DeleteL2
<1>3. /\ l2' \in [Keys -> MaybeProfile] /\ (open => l2'[at[c]] = NoProfile)
      /\ \A k \in Keys : k # at[c] \/ ~open => l2'[k] = l2[k]
  BY <1>1, <1>2 DEF Calls, TypeOK, MaybeProfile
<1>4. copy[c].metaid \in Keys
  BY <1>1 DEF Profiles, MetaIds, Keys
<1>5. ~FromPin(c) => /\ c \in Readers /\ c \notin AllWriters /\ c # "scan"
                     /\ via[c] \in {"metaid", "global", "lookup"}
                     /\ via[c] = "metaid" => asked[c] \in Keys
                     /\ at[c] # copy[c].metaid => at[c] = asked[c]
  <2>1. ~FromPin(c) => c \in Readers /\ c \notin AllWriters
    BY <1>1, UserInfoAssumption DEF Calls, CallsOK, WriterOK, Callers
  <2> QED BY <1>1, <2>1 DEF Calls, CallsOK, ReaderOK, AllWriters
<1>6. CASE Finish(c) /\ (FromPin(c) \/ at[c] = copy[c].metaid)
  <2>1. /\ FeedTypeOK' /\ UNCHANGED <<chain, writers, mined>>
        /\ pos' = (IF c = "scan" THEN pos + 1 ELSE pos)
        /\ phase' \in [Callers -> Phases] /\ via' \in [Callers -> Vias]
        /\ asked' \in [Callers -> MaybeKey] /\ at' \in [Callers -> MaybeKey]
        /\ base' \in [Callers -> MaybeProfile] /\ copy' \in [Callers -> MaybeProfile]
        /\ phase'[c] = "idle" /\ Others(c)
    BY <1>1, <1>6, FinishEffect
  <2>2. TypeOK'
    BY <1>2, <1>3, <2>1
       DEF Calls, TypeOK, setting, profileVars, history, MaybeKey, MaybeProfile, Vias
  <2>3. Calls'
    BY <1>1, <1>2, <1>6, <2>2, FinishCalls DEF setting
  <2> QED BY <1>1, <1>2, <1>3, <1>6, <2>1, <2>3 DEF Frame, setting
<1>7. CASE /\ ~FromPin(c) /\ at[c] # copy[c].metaid
           /\ Goto(c, "purge")
           /\ at' = [at EXCEPT ![c] = copy[c].metaid]
           /\ UNCHANGED <<feedVars, via, asked, base, copy>>
  <2>1. /\ phase' \in [Callers -> Phases] /\ phase'[c] = "purge"
        /\ \A d \in Callers : d # c => phase'[d] = phase[d]
    BY <1>7, GotoEffect DEF Phases
  <2>2. /\ at' \in [Callers -> MaybeKey] /\ at'[c] = copy[c].metaid
        /\ \A d \in Callers : d # c => at'[d] = at[d]
    BY <1>4, <1>7 DEF Calls, TypeOK, MaybeKey
  <2>3. FeedTypeOK' /\ Frame /\ UNCHANGED <<pos, backfill>>
    BY <1>2, <1>7, FeedSame DEF Frame, Calls, TypeOK, feedVars, setting
  <2>4. TypeOK'
    BY <1>2, <1>3, <1>7, <2>1, <2>2, <2>3
       DEF Calls, TypeOK, setting, profileVars, history, MaybeKey, MaybeProfile
  <2>5. Others(c)
    BY <1>7, <2>1, <2>2 DEF Others, SameCall
  <2>6. WriterOK(c)' /\ ReaderOK(c)' /\ (Writing(c)' => copy'[c] \in Profiles /\ at'[c] \in Keys)
    BY <1>1, <1>4, <1>5, <1>7, <2>1, <2>2 DEF WriterOK, ReaderOK, Writing
  <2>7. Calls'
    BY <1>1, <2>3, <2>4, <2>5, <2>6, MoveCalls DEF Frame
  <2> QED BY <1>1, <1>2, <1>3, <1>5, <1>7, <2>1, <2>2, <2>3, <2>5, <2>7
<1>8. CASE /\ via[c] = "metaid" /\ at[c] = copy[c].metaid
           /\ Goto(c, "setL1")
           /\ UNCHANGED <<feedVars, via, asked, at, base, copy>>
  <2>1. /\ phase' \in [Callers -> Phases] /\ phase'[c] = "setL1"
        /\ \A d \in Callers : d # c => phase'[d] = phase[d]
    BY <1>8, GotoEffect DEF Phases
  <2>2. FeedTypeOK' /\ Frame /\ UNCHANGED <<pos, backfill>>
    BY <1>2, <1>8, FeedSame DEF Frame, Calls, TypeOK, feedVars, setting
  <2>3. TypeOK'
    BY <1>2, <1>3, <1>8, <2>1, <2>2
       DEF Calls, TypeOK, setting, profileVars, history, MaybeProfile
  <2>4. Others(c)
    BY <1>8, <2>1 DEF Others, SameCall
  <2>5. ~FromPin(c)
    BY <1>8 DEF FromPin
  <2>6. WriterOK(c)' /\ ReaderOK(c)' /\ ~Writing(c)'
    BY <1>5, <1>8, <2>1, <2>5 DEF WriterOK, ReaderOK, Writing
  <2>7. Calls'
    BY <1>1, <2>2, <2>3, <2>4, <2>6, MoveCalls DEF Frame
  <2> QED BY <1>1, <1>2, <1>3, <1>5, <1>8, <2>1, <2>2, <2>4, <2>5, <2>7
<1> QED BY <1>2, <1>6, <1>7, <1>8 DEF Invalidated

LEMMA SetL1Effect ==
    ASSUME Calls, NEW c \in Callers, SetL1(c)
    PROVE  /\ Calls' /\ Frame /\ Others(c) /\ UNCHANGED <<pos, profileVars, l2, open, history>>
           /\ Busy(c) /\ ~Writing(c) /\ phase[c] = "setL1" /\ phase'[c] = "setL2"
           /\ via[c] = "metaid" /\ asked[c] \in Keys
           /\ UNCHANGED <<via, asked, at, base, copy>>
           /\ \A k \in Keys : l1'[k] = IF k = asked[c] THEN copy[c] ELSE l1[k]
<1>1. phase[c] = "setL1" /\ Busy(c) /\ ~Writing(c)
  BY DEF SetL1, Busy, Writing
<1>2. c \in Readers /\ c \notin AllWriters /\ via[c] = "metaid" /\ asked[c] \in Keys
  BY <1>1, RequestCalls DEF Calls, CallsOK, ReaderOK
<1>3. /\ UNCHANGED <<feedVars, setting, profileVars, l2, open, via, asked, at, base, copy, history>>
      /\ l1' = [l1 EXCEPT ![asked[c]] = copy[c]]
      /\ Goto(c, "setL2")
  BY DEF SetL1
<1>4. /\ phase' \in [Callers -> Phases] /\ phase'[c] = "setL2"
      /\ \A d \in Callers : d # c => phase'[d] = phase[d]
  BY <1>3, GotoEffect DEF Phases
<1>5. FeedTypeOK' /\ Frame /\ UNCHANGED <<pos, backfill>>
  BY <1>3, FeedSame DEF Frame, Calls, TypeOK, feedVars, setting
<1>6. /\ l1' \in [Keys -> MaybeProfile]
      /\ \A k \in Keys : l1'[k] = IF k = asked[c] THEN copy[c] ELSE l1[k]
  BY <1>2, <1>3 DEF Calls, TypeOK, MaybeProfile
<1>7. TypeOK'
  BY <1>3, <1>4, <1>5, <1>6 DEF Calls, TypeOK, setting, profileVars, history, MaybeProfile
<1>8. Others(c)
  BY <1>3, <1>4 DEF Others, SameCall
<1>9. WriterOK(c)' /\ ReaderOK(c)' /\ ~Writing(c)'
  BY <1>2, <1>3, <1>4 DEF WriterOK, ReaderOK, Writing
<1>10. Calls'
  BY <1>1, <1>5, <1>7, <1>8, <1>9, MoveCalls DEF Frame
<1> QED BY <1>1, <1>2, <1>3, <1>4, <1>5, <1>6, <1>8, <1>10

LEMMA SetL2Effect ==
    ASSUME Calls, NEW c \in Callers, SetL2(c)
    PROVE  /\ Calls' /\ Frame /\ Others(c) /\ UNCHANGED <<pos, profileVars, l1, history>>
           /\ Busy(c) /\ ~Writing(c) /\ phase[c] = "setL2" /\ phase'[c] = "idle" /\ open'
           /\ via[c] = "metaid" /\ asked[c] \in Keys
           /\ \A k \in Keys : l2'[k] = IF k = asked[c] THEN copy[c] ELSE l2[k]
<1>1. phase[c] = "setL2" /\ Busy(c) /\ ~Writing(c)
  BY DEF SetL2, Busy, Writing
<1>2. c \in Readers /\ c \notin AllWriters /\ via[c] = "metaid" /\ asked[c] \in Keys /\ c # "scan"
  BY <1>1, RequestCalls DEF Calls, CallsOK, ReaderOK, AllWriters
<1>3. /\ UNCHANGED <<setting, profileVars, l1, history>> /\ open' = TRUE
      /\ l2' = [l2 EXCEPT ![asked[c]] = copy[c]]
      /\ Finish(c)
  BY DEF SetL2
<1>4. /\ FeedTypeOK' /\ UNCHANGED <<chain, writers, mined, pos>>
      /\ phase' \in [Callers -> Phases] /\ via' \in [Callers -> Vias]
      /\ asked' \in [Callers -> MaybeKey] /\ at' \in [Callers -> MaybeKey]
      /\ base' \in [Callers -> MaybeProfile] /\ copy' \in [Callers -> MaybeProfile]
      /\ phase'[c] = "idle" /\ Others(c)
  BY <1>1, <1>2, <1>3, FinishEffect
<1>5. /\ l2' \in [Keys -> MaybeProfile]
      /\ \A k \in Keys : l2'[k] = IF k = asked[c] THEN copy[c] ELSE l2[k]
  BY <1>2, <1>3 DEF Calls, TypeOK, MaybeProfile
<1>6. TypeOK'
  BY <1>3, <1>4, <1>5
     DEF Calls, TypeOK, setting, profileVars, history, MaybeKey, MaybeProfile, Vias
<1>7. Calls'
  BY <1>1, <1>3, <1>6, FinishCalls DEF setting
<1> QED BY <1>1, <1>2, <1>3, <1>4, <1>5, <1>7 DEF Frame, setting

\* What a pin makes of the stored profile.
PinProfile(m) == IF stored[m] = NoProfile THEN NewProfile(m) ELSE stored[m]

LEMMA PinProfileType ==
    ASSUME TypeOK, NEW m \in MetaIds
    PROVE  PinProfile(m) \in Profiles
<1>1. [f \in Fields |-> NoPin] \in Values
  BY DEF Values
<1>2. NewProfile(m) \in Profiles
  BY <1>1 DEF NewProfile, GlobalOf, Profiles, GlobalMetaIds
<1>3. stored[m] \in MaybeProfile
  BY DEF TypeOK, MetaIds, Keys, MaybeProfile
<1> QED BY <1>2, <1>3 DEF PinProfile, MaybeProfile

\* The pin is handled: a call begins.
Taken(w, p) ==
    LET m == PinMetaId(w)
    IN  /\ Start(w, IF Field[p] = "init" THEN "init" ELSE "pin", m, "save")
        /\ at' = [at EXCEPT ![w] = PinProfile(m).metaid]
        /\ base' = [base EXCEPT ![w] = stored[m]]
        /\ copy' = [copy EXCEPT ![w] = IF Field[p] = "init" THEN PinProfile(m)
                                       ELSE [PinProfile(m) EXCEPT !.value[Field[p]] = p]]
        /\ Take(w, p) /\ Field[p] \in Fields \cup {"init"}

LEMMA HandleCases ==
    ASSUME NEW w, NEW p, HandleBlockPin(w, p)
    PROVE  /\ Offered(w, p) /\ ~Busy(w) /\ UNCHANGED <<setting, profileVars, l2, open>>
           /\ l1' \in {l1, [k \in Keys |-> NoProfile]}
           /\ \/ Taken(w, p) /\ Listed(w, p)
              \/ (~Listed(w, p) \/ Field[p] = "other") /\ Pass(w, p) /\ UNCHANGED <<callVars, history>>
  BY DEF HandleBlockPin, Taken, PinProfile

LEMMA TakenEffect ==
    ASSUME Calls, NEW w \in {"scan", "backfill"}, NEW p \in Pins, HandleBlockPin(w, p), Taken(w, p)
    PROVE  /\ Calls' /\ Frame /\ Others(w) /\ UNCHANGED <<pos, profileVars, l2, open>>
           /\ l1' \in {l1, [k \in Keys |-> NoProfile]}
           /\ ~Busy(w) /\ phase'[w] = "save" /\ asked'[w] = PinMetaId(w)
           /\ via'[w] = IF Field[p] = "init" THEN "init" ELSE "pin"
           /\ base'[w] = stored[PinMetaId(w)] /\ at'[w] = PinProfile(PinMetaId(w)).metaid
           /\ copy'[w] = IF Field[p] = "init" THEN PinProfile(PinMetaId(w))
                         ELSE [PinProfile(PinMetaId(w)) EXCEPT !.value[Field[p]] = p]
           /\ copy'[w] \in Profiles /\ PinProfile(PinMetaId(w)) \in Profiles
           /\ Field[p] \in Fields \cup {"init"}
           /\ w = "scan" => pos < mined /\ p = chain[pos + 1]
           /\ excused' = (IF \E d \in Callers : Saving(d) THEN Keys ELSE excused)
           /\ causes' = causes
<1> DEFINE m == PinMetaId(w)
           v == IF Field[p] = "init" THEN "init" ELSE "pin"
           q == IF Field[p] = "init" THEN PinProfile(m) ELSE [PinProfile(m) EXCEPT !.value[Field[p]] = p]
<1>1. /\ Start(w, v, m, "save") /\ Take(w, p) /\ Field[p] \in Fields \cup {"init"}
      /\ at' = [at EXCEPT ![w] = PinProfile(m).metaid]
      /\ base' = [base EXCEPT ![w] = stored[m]]
      /\ copy' = [copy EXCEPT ![w] = q]
  BY DEF Taken
<1>2. /\ Offered(w, p) /\ UNCHANGED <<setting, profileVars, l2, open>>
      /\ l1' \in {l1, [k \in Keys |-> NoProfile]}
  BY HandleCases
<1>3. m \in MetaIds /\ m \in Keys /\ m \in MaybeKey /\ v \in Vias /\ "save" \in Phases /\ w \in Callers
  BY UserInfoAssumption
     DEF PinMetaId, Calls, TypeOK, MetaIds, Keys, MaybeKey, Vias, Phases, Callers, AllWriters
<1>4. PinProfile(m) \in Profiles /\ stored[m] \in MaybeProfile
  BY <1>3, PinProfileType DEF Calls, TypeOK, MaybeProfile
<1>5. q \in Profiles /\ q.metaid = PinProfile(m).metaid /\ PinProfile(m).metaid \in Keys
  <2>1. CASE Field[p] = "init"
    BY <1>4, <2>1 DEF Profiles, MetaIds, Keys
  <2>2. CASE Field[p] \in Fields /\ Field[p] # "init"
    <3>1. PinProfile(m).value \in Values
      BY <1>4 DEF Profiles
    <3>2. [PinProfile(m).value EXCEPT ![Field[p]] = p] \in Values
      BY <3>1 DEF Values
    <3>3. q = [PinProfile(m) EXCEPT !.value = [PinProfile(m).value EXCEPT ![Field[p]] = p]]
      BY <2>2, <1>4 DEF Profiles
    <3> QED BY <1>4, <3>2, <3>3 DEF Profiles, MetaIds, Keys
  <2> QED BY <1>1, <2>1, <2>2
<1> HIDE DEF m, v, q
<1>6. /\ phase[w] = "idle" /\ phase'[w] = "save" /\ via'[w] = v /\ asked'[w] = m
      /\ phase' \in [Callers -> Phases] /\ via' \in [Callers -> Vias]
      /\ asked' \in [Callers -> MaybeKey]
      /\ \A d \in Callers : d # w =>
            phase'[d] = phase[d] /\ via'[d] = via[d] /\ asked'[d] = asked[d]
      /\ excused' = (IF \E d \in Callers : Saving(d) THEN Keys ELSE excused)
      /\ excused' \subseteq Keys /\ causes' = causes
  BY <1>1, <1>3, StartEffect
<1>7. /\ at' \in [Callers -> MaybeKey] /\ base' \in [Callers -> MaybeProfile]
      /\ copy' \in [Callers -> MaybeProfile]
      /\ at'[w] = PinProfile(m).metaid /\ base'[w] = stored[m] /\ copy'[w] = q
      /\ \A d \in Callers : d # w => at'[d] = at[d] /\ base'[d] = base[d] /\ copy'[d] = copy[d]
  BY <1>1, <1>3, <1>4, <1>5 DEF Calls, TypeOK, MaybeKey, MaybeProfile
<1>8. /\ FeedTypeOK' /\ UNCHANGED <<chain, writers, mined, pos, backfill>>
      /\ w = "scan" => pos < mined /\ p = chain[pos + 1]
      /\ w = "backfill" => backfill > 0
  <2>1. /\ w = "scan" => pos < mined /\ p = chain[pos + 1]
        /\ w = "backfill" => backfill > 0
    BY <1>2 DEF Offered, ScanOffers, BackfillOffers
  <2> QED BY <1>1, <2>1 DEF Take, setup, Calls, TypeOK, FeedTypeOK
<1>9. TypeOK' /\ Frame
  BY <1>2, <1>6, <1>7, <1>8
     DEF Frame, Calls, TypeOK, setting, profileVars, Vias, MaybeKey, MaybeProfile
<1>10. Others(w)
  BY <1>6, <1>7 DEF Others, SameCall
<1>11. w \in AllWriters /\ w \notin Readers /\ "scan" \in Callers /\ "backfill" \in Callers
  BY UserInfoAssumption DEF Callers, AllWriters
<1>12. WriterOK(w)' /\ ReaderOK(w)' /\ copy'[w] \in Profiles /\ at'[w] \in Keys
  <2>1. v \in {"pin", "init"} /\ m = PinMetaId(w) /\ PinMetaId(w)' = PinMetaId(w)
    BY <1>9 DEF v, m, PinMetaId, Frame
  <2> QED BY <1>5, <1>6, <1>7, <1>11, <2>1 DEF WriterOK, ReaderOK, Writing, FromPin
<1>13. ASSUME NEW d \in Callers, d # w
       PROVE  /\ WriterOK(d)' /\ ReaderOK(d)'
              /\ Writing(d)' => copy'[d] \in Profiles /\ at'[d] \in Keys
  BY <1>9, <1>10, <1>13
     DEF Others, SameCall, Calls, CallsOK, WriterOK, ReaderOK, FromPin, Writing, PinMetaId, Busy, Frame
<1>14. Calls'
  BY <1>8, <1>9, <1>10, <1>11, <1>12, <1>13 DEF Calls, CallsOK, Busy, Others, SameCall
<1> QED BY <1>1, <1>2, <1>4, <1>5, <1>6, <1>7, <1>8, <1>9, <1>10, <1>14 DEF Busy, m, v, q

\* The pin is none of the aggregator's.
LEMMA PassedEffect ==
    ASSUME Calls, NEW w \in {"scan", "backfill"}, NEW p \in Pins, HandleBlockPin(w, p),
           ~Listed(w, p) \/ Field[p] = "other", Pass(w, p), UNCHANGED <<callVars, history>>
    PROVE  /\ Calls' /\ Frame /\ UNCHANGED <<profileVars, l2, open, callVars, history>>
           /\ l1' \in {l1, [k \in Keys |-> NoProfile]}
           /\ phase[w] = "idle"
           /\ \/ pos' = pos
              \/ pos < mined /\ pos' = pos + 1 /\ w = "scan" /\ Field[chain[pos + 1]] = "other"
<1>1. /\ Offered(w, p) /\ UNCHANGED <<setting, profileVars, l2, open>> /\ phase[w] = "idle"
      /\ l1' \in {l1, [k \in Keys |-> NoProfile]}
  BY HandleCases DEF Busy
<1>2. Len(chain) \in Nat
  BY ChainPins DEF Calls, TypeOK
<1>3. /\ FeedTypeOK' /\ UNCHANGED <<chain, writers, mined>>
      /\ pos' = (IF w = "scan" THEN pos + 1 ELSE pos)
      /\ backfill' = (IF w = "backfill" THEN backfill - 1 ELSE backfill)
      /\ w = "scan" => pos < mined /\ p = chain[pos + 1]
      /\ w = "backfill" => backfill > 0
  <2>1. /\ w = "scan" => pos < mined /\ p = chain[pos + 1]
        /\ w = "backfill" => backfill > 0
    BY <1>1 DEF Offered, ScanOffers, BackfillOffers
  <2> QED BY <1>2, <2>1 DEF Pass, Advance, setup, Calls, TypeOK, FeedTypeOK
<1>4. TypeOK' /\ Frame
  BY <1>1, <1>3 DEF Frame, Calls, TypeOK, setting, profileVars, callVars, history
<1>5. "scan" \in Callers /\ "backfill" \in Callers
  BY DEF Callers, AllWriters
<1>6. ASSUME NEW d \in Callers
      PROVE  /\ WriterOK(d)' /\ ReaderOK(d)'
             /\ Writing(d)' => copy'[d] \in Profiles /\ at'[d] \in Keys
  BY <1>4
     DEF callVars, Calls, CallsOK, WriterOK, ReaderOK, FromPin, Writing, PinMetaId, Busy, Frame
<1>7. /\ Busy("scan")' => pos' < mined'
      /\ Busy("backfill")' => backfill' > 0
      /\ "backfill" \notin writers' => backfill' = 0
  BY <1>1, <1>3, <1>5 DEF callVars, Calls, CallsOK, Busy
<1>8. Calls'
  BY <1>4, <1>6, <1>7 DEF Calls, CallsOK
<1> QED BY <1>1, <1>3, <1>4, <1>8 DEF Listed

\* A pin is mined, or an entry of the LRU expires.
LEMMA ElsewhereEffect ==
    ASSUME Calls, Mine \/ \E k \in Keys : Expire(k)
    PROVE  /\ Calls' /\ UNCHANGED <<chain, writers, own, mode>>
           /\ UNCHANGED <<pos, profileVars, l2, open, callVars, history>>
           /\ mined' \in {mined, mined + 1}
           /\ \A k \in Keys : l1'[k] \in {l1[k], NoProfile}
<1>1. /\ UNCHANGED <<chain, writers, own, mode>>
      /\ UNCHANGED <<pos, backfill, setting, profileVars, l2, open, callVars, history>>
  BY DEF Mine, MineNext, Expire, setup, feedVars, setting, cacheVars
<1>2. FeedTypeOK' /\ mined' \in {mined, mined + 1} /\ mined <= mined'
  <2>1. Len(chain) \in Nat
    BY ChainPins DEF Calls, TypeOK
  <2>2. CASE Mine
    BY <2>1, <2>2 DEF Mine, MineNext, setup, Calls, TypeOK, FeedTypeOK
  <2>3. CASE UNCHANGED feedVars
    BY <2>1, <2>3, FeedSame DEF Calls, TypeOK, FeedTypeOK, feedVars
  <2> QED BY <2>2, <2>3 DEF Expire
<1>3. l1' \in [Keys -> MaybeProfile] /\ \A k \in Keys : l1'[k] \in {l1[k], NoProfile}
  <2>1. l1' = l1 \/ \E k \in Keys : l1' = [l1 EXCEPT ![k] = NoProfile]
    BY DEF Mine, Expire, cacheVars
  <2> QED BY <2>1 DEF Calls, TypeOK, MaybeProfile
<1>4. TypeOK'
  BY <1>1, <1>2, <1>3 DEF Calls, TypeOK, setting, profileVars, callVars, history, MaybeProfile
<1>5. ASSUME NEW d \in Callers
      PROVE  /\ WriterOK(d)' /\ ReaderOK(d)'
             /\ Writing(d)' => copy'[d] \in Profiles /\ at'[d] \in Keys
  BY <1>1 DEF callVars, Calls, CallsOK, WriterOK, ReaderOK, FromPin, Writing, PinMetaId, Busy
<1>6. /\ Busy("scan")' => pos' < mined'
      /\ Busy("backfill")' => backfill' > 0
      /\ "backfill" \notin writers' => backfill' = 0
  <2>1. pos \in Nat /\ mined \in Nat
    BY ChainPins DEF Calls, TypeOK
  <2> QED BY <1>1, <1>2, <2>1 DEF callVars, Calls, CallsOK, Busy
<1>7. Calls'
  BY <1>4, <1>5, <1>6 DEF Calls, CallsOK
<1> QED BY <1>1, <1>2, <1>3, <1>7

LEMMA CrashEffect ==
    ASSUME Calls, Crash
    PROVE  /\ Calls' /\ Frame /\ UNCHANGED <<profileVars, l2, causes>> /\ pos' \in 0..pos
           /\ \A k \in Keys : l1'[k] = NoProfile
           /\ \A d \in Callers : phase'[d] = "idle"
           /\ excused' = (IF \E c \in Callers : Saving(c) THEN Keys ELSE excused)
<1>1. /\ Restart /\ l1' = [k \in Keys |-> NoProfile] /\ open' = FALSE
      /\ phase' = [c \in Callers |-> "idle"] /\ via' = [c \in Callers |-> "none"]
      /\ asked' = [c \in Callers |-> NoKey] /\ at' = [c \in Callers |-> NoKey]
      /\ base' = [c \in Callers |-> NoProfile] /\ copy' = [c \in Callers |-> NoProfile]
      /\ excused' = (IF \E c \in Callers : Saving(c) THEN Keys ELSE excused)
      /\ UNCHANGED <<setting, profileVars, l2, causes>>
  BY DEF Crash
<1>2. /\ FeedTypeOK' /\ UNCHANGED <<chain, writers, mined>> /\ pos' \in 0..pos
      /\ "backfill" \notin writers => backfill' = 0
  <2>1. Len(chain) \in Nat
    BY ChainPins DEF Calls, TypeOK
  <2>2. crashes' \in 0..MaxCrashes /\ polled' \in [Pins -> 0..MaxPolls]
    BY <1>1, FeedAssumption DEF Calls, TypeOK, FeedTypeOK, Restart
  <2> QED BY <1>1, <2>1, <2>2 DEF Calls, TypeOK, FeedTypeOK, Restart, setup
<1>3. excused' \subseteq Keys
  BY <1>1 DEF Calls, TypeOK
<1>4. TypeOK' /\ Frame
  BY <1>1, <1>2, <1>3 DEF Calls, TypeOK, Phases, setting, profileVars, Frame
<1>5. \A d \in Callers : phase'[d] = "idle"
  BY <1>1
<1>6. Calls'
  BY <1>2, <1>4, <1>5 DEF Calls, CallsOK, WriterOK, ReaderOK, Writing, Busy, Callers, AllWriters
<1> QED BY <1>1, <1>2, <1>4, <1>5, <1>6

LEMMA CallsSame ==
    ASSUME Calls, UNCHANGED vars
    PROVE  Calls'
<1>1. UNCHANGED <<chain, writers, mined, pos, backfill, own>> /\ UNCHANGED callVars
  BY DEF vars, feedVars, setting
<1>2. TypeOK'
  BY FeedSame DEF Calls, vars, TypeOK, feedVars, setting, profileVars, cacheVars, callVars, history
<1>3. CallsOK'
  BY <1>1
     DEF callVars, Calls, CallsOK, WriterOK, ReaderOK, FromPin, Writing, PinMetaId, Busy
<1> QED BY <1>2, <1>3 DEF Calls

LEMMA NextCalls == Calls /\ [Next]_vars => Calls'
<1> SUFFICES ASSUME Calls, [Next]_vars PROVE Calls'
  OBVIOUS
<1>1. ASSUME NEW c \in Callers, Step(c) PROVE Calls'
  BY <1>1, GetEffect, CompleteEffect, SaveEffect, GlobalEffect, AddressEffect, PurgeEffect,
     DeleteEffect, SetL1Effect, SetL2Effect DEF Step
<1>2. ASSUME NEW w \in {"scan", "backfill"}, NEW p \in Pins, HandleBlockPin(w, p) PROVE Calls'
  BY <1>2, HandleCases, TakenEffect, PassedEffect
<1> QED BY <1>1, <1>2, RequestEffect, ElsewhereEffect, CrashEffect, CallsSame DEF Next

-----------------------------------------------------------------------------
(* The record of the pins is found *)

Indexed == byAddress = own /\ byGlobal[GlobalOf(own)] = own

\* There is a copy under an alias only where both index entries are.
IndexOK ==
    "foreign" \notin causes =>
        /\ \A k \in Keys : stored[k] # NoProfile => HasIdentity(stored[k], own)
        /\ byAddress \in {NoKey, own} /\ byGlobal[GlobalOf(own)] \in {NoKey, own}
        /\ own \in {byAddress, byGlobal[GlobalOf(own)]} => stored[own] # NoProfile
        /\ \A k \in Keys : k # own /\ stored[k] # NoProfile => Indexed
        /\ \A c \in Callers : Saving(c) => HasIdentity(copy[c], own) /\ stored[own] # NoProfile
        /\ \A c \in Callers : phase[c] = "address" => byGlobal[GlobalOf(own)] = own
        /\ \A c \in Callers : phase[c] = "save" /\ at[c] # copy[c].metaid => Indexed

LEMMA OwnIsKey ==
    ASSUME TypeOK
    PROVE  /\ own \in MetaIds /\ own \in Keys /\ own # NoKey
           /\ GlobalOf(own) \in GlobalMetaIds /\ GlobalOf(own) \in Keys
  BY UserInfoAssumption DEF TypeOK, MetaIds, Keys, GlobalOf, GlobalMetaIds

\* A step that saves nothing.
LEMMA IndexKeeps ==
    ASSUME IndexOK, UNCHANGED <<own, profileVars, causes>>,
           \A d \in Callers :
              /\ Saving(d)' => Saving(d) /\ copy'[d] = copy[d]
              /\ phase'[d] = "address" => phase[d] = "address"
              /\ phase'[d] = "save" /\ at'[d] # copy'[d].metaid => phase[d] = "save" /\ at[d] # copy[d].metaid
    PROVE  IndexOK'
  BY DEF IndexOK, Indexed, profileVars, GlobalOf, HasIdentity

\* Another call's state decides whether it is saving.
LEMMA SameSaving ==
    ASSUME NEW d \in Callers, SameCall(d)
    PROVE  Saving(d)' <=> Saving(d)
  BY DEF SameCall, Saving

\* What IndexKeeps asks of the calls that a step leaves alone.
LEMMA OthersKeep ==
    ASSUME NEW c \in Callers, Others(c), IndexOK, UNCHANGED <<own, profileVars, causes>>,
           Saving(c)' => Saving(c) /\ copy'[c] = copy[c],
           phase'[c] = "address" => phase[c] = "address",
           phase'[c] = "save" => at'[c] = copy'[c].metaid
    PROVE  IndexOK'
<1>1. ASSUME NEW d \in Callers
      PROVE  /\ Saving(d)' => Saving(d) /\ copy'[d] = copy[d]
             /\ phase'[d] = "address" => phase[d] = "address"
             /\ phase'[d] = "save" /\ at'[d] # copy'[d].metaid => phase[d] = "save" /\ at[d] # copy[d].metaid
  <2>1. CASE d # c
    BY <2>1, SameSaving DEF Others, SameCall
  <2> QED BY <2>1
<1> QED BY <1>1, IndexKeeps

LEMMA SaveIndex ==
    ASSUME Calls, IndexOK, NEW c \in Callers, SaveProfile(c)
    PROVE  IndexOK'
<1>1. /\ Frame /\ Others(c) /\ UNCHANGED <<byGlobal, byAddress>>
      /\ phase[c] = "save" /\ phase'[c] = "global" /\ copy[c] \in Profiles /\ at[c] \in Keys
      /\ UNCHANGED <<via, asked, at, base, copy>>
      /\ stored'[at[c]] = copy[c]
      /\ \A k \in Keys : k # at[c] => stored'[k] = stored[k]
  BY SaveEffect
<1>2. causes' = causes \cup (IF at[c] = own /\ stored[at[c]] # base[c] THEN {"overwritten"} ELSE {})
                       \cup (IF at[c] = own /\ copy[c].metaid # at[c] THEN {"renamed"} ELSE {})
                       \cup (IF HasIdentity(copy[c], own) THEN {} ELSE {"foreign"})
  BY DEF SaveProfile
<1> SUFFICES ASSUME "foreign" \notin causes' PROVE IndexOK'
  BY DEF IndexOK
<1>3. "foreign" \notin causes /\ HasIdentity(copy[c], own)
  BY <1>2
<1>4. own' = own /\ own \in Keys /\ own \in MetaIds /\ copy[c] # NoProfile /\ copy[c].metaid = own
  BY <1>1, <1>3, OwnIsKey, UserInfoAssumption DEF Calls, Frame, HasIdentity
<1>5. at[c] # own => Indexed
  BY <1>1, <1>3, <1>4 DEF IndexOK
<1>6. stored'[own] # NoProfile
  BY <1>1, <1>3, <1>4, <1>5, OwnIsKey DEF IndexOK, Indexed
<1>7. \A k \in Keys : stored'[k] # NoProfile => HasIdentity(stored'[k], own)
  BY <1>1, <1>3 DEF IndexOK
<1>8. \A k \in Keys : k # own /\ stored'[k] # NoProfile => Indexed
  BY <1>1, <1>3, <1>5 DEF IndexOK
<1>9. Indexed' <=> Indexed
  BY <1>1, <1>4 DEF Indexed, GlobalOf
<1>10. ASSUME NEW d \in Callers
       PROVE  /\ Saving(d)' => HasIdentity(copy'[d], own) /\ stored'[own] # NoProfile
              /\ phase'[d] = "address" => byGlobal[GlobalOf(own)] = own
              /\ phase'[d] = "save" /\ at'[d] # copy'[d].metaid => Indexed
  <2>1. CASE d = c
    BY <1>1, <1>3, <1>6, <2>1
  <2>2. CASE d # c
    <3>1. SameCall(d) /\ (Saving(d)' <=> Saving(d))
      BY <1>1, <2>2, SameSaving DEF Others
    <3> QED BY <1>3, <1>6, <3>1 DEF IndexOK, SameCall
  <2> QED BY <2>1, <2>2
<1>11. /\ byAddress \in {NoKey, own} /\ byGlobal[GlobalOf(own)] \in {NoKey, own}
  BY <1>3 DEF IndexOK
<1>12. HasIdentity(copy[c], own)' <=> HasIdentity(copy[c], own)
  BY <1>1, <1>4 DEF HasIdentity, GlobalOf
<1>13. \A k \in Keys : stored'[k] # NoProfile => HasIdentity(stored[k], own)'
  BY <1>4, <1>7 DEF HasIdentity, GlobalOf
<1>14. \A d \in Callers : Saving(d)' => HasIdentity(copy[d], own)'
  BY <1>4, <1>10 DEF HasIdentity, GlobalOf
<1>15. (byGlobal[GlobalOf(own)])' = byGlobal[GlobalOf(own)]
  BY <1>1, <1>4 DEF GlobalOf
<1> QED BY <1>1, <1>4, <1>6, <1>8, <1>9, <1>10, <1>11, <1>13, <1>14, <1>15 DEF IndexOK

LEMMA GlobalIndex ==
    ASSUME Calls, IndexOK, NEW c \in Callers, SaveGlobalIndex(c)
    PROVE  IndexOK'
<1>1. /\ Frame /\ Others(c) /\ UNCHANGED <<stored, byAddress, history>>
      /\ phase[c] = "global" /\ phase'[c] = "address" /\ copy[c] \in Profiles
      /\ UNCHANGED <<via, asked, at, base, copy>>
      /\ \A g \in GlobalMetaIds :
            byGlobal'[g] = IF g = copy[c].global THEN copy[c].metaid ELSE byGlobal[g]
  BY GlobalEffect
<1> SUFFICES ASSUME "foreign" \notin causes PROVE IndexOK'
  BY <1>1 DEF IndexOK, history
<1>2. Saving(c) /\ HasIdentity(copy[c], own) /\ stored[own] # NoProfile
  BY <1>1 DEF Saving, IndexOK
<1>3. own' = own /\ GlobalOf(own)' = GlobalOf(own) /\ GlobalOf(own) \in GlobalMetaIds
  BY <1>1, OwnIsKey DEF Calls, Frame, GlobalOf
<1>4. byGlobal'[GlobalOf(own)] = own
  BY <1>1, <1>2, <1>3 DEF HasIdentity
<1>5. Indexed => Indexed'
  BY <1>1, <1>3, <1>4 DEF Indexed
<1>6. ASSUME NEW d \in Callers
      PROVE  /\ Saving(d)' => HasIdentity(copy[d], own)'
             /\ phase'[d] = "save" /\ at'[d] # copy'[d].metaid => Indexed
  <2>1. CASE d = c
    BY <1>1, <1>2, <1>3, <2>1 DEF HasIdentity
  <2>2. CASE d # c
    <3>1. SameCall(d) /\ (Saving(d)' <=> Saving(d))
      BY <1>1, <2>2, SameSaving DEF Others
    <3> QED BY <1>1, <1>3, <3>1 DEF IndexOK, SameCall, HasIdentity
  <2> QED BY <2>1, <2>2
<1>7. \A k \in Keys : stored'[k] # NoProfile => HasIdentity(stored[k], own)'
  BY <1>1, <1>3 DEF IndexOK, HasIdentity
<1>8. /\ \A k \in Keys : k # own /\ stored[k] # NoProfile => Indexed
      /\ byAddress \in {NoKey, own}
  BY DEF IndexOK
<1> QED BY <1>1, <1>2, <1>3, <1>4, <1>5, <1>6, <1>7, <1>8 DEF IndexOK, history

LEMMA AddressIndex ==
    ASSUME Calls, IndexOK, NEW c \in Callers, SaveAddressIndex(c)
    PROVE  IndexOK'
<1>1. /\ Frame /\ Others(c) /\ UNCHANGED <<stored, byGlobal, history>>
      /\ phase[c] = "address" /\ byAddress' = copy[c].metaid
      /\ phase'[c] # "address"
      /\ phase'[c] = "idle" \/ copy'[c] = copy[c]
  BY AddressEffect
<1> SUFFICES ASSUME "foreign" \notin causes PROVE IndexOK'
  BY <1>1 DEF IndexOK, history
<1>2. /\ Saving(c) /\ HasIdentity(copy[c], own) /\ stored[own] # NoProfile
      /\ byGlobal[GlobalOf(own)] = own
  BY <1>1 DEF Saving, IndexOK
<1>3. own' = own /\ GlobalOf(own)' = GlobalOf(own)
  BY <1>1 DEF Frame, GlobalOf
<1>4. Indexed'
  BY <1>1, <1>2, <1>3 DEF Indexed, HasIdentity
<1>5. ASSUME NEW d \in Callers
      PROVE  Saving(d)' => HasIdentity(copy[d], own)'
  <2>1. CASE d = c
    BY <1>1, <1>2, <1>3, <2>1 DEF HasIdentity, Saving
  <2>2. CASE d # c
    <3>1. SameCall(d) /\ (Saving(d)' <=> Saving(d))
      BY <1>1, <2>2, SameSaving DEF Others
    <3> QED BY <1>1, <1>3, <3>1 DEF IndexOK, SameCall, HasIdentity
  <2> QED BY <2>1, <2>2
<1>6. \A k \in Keys : stored'[k] # NoProfile => HasIdentity(stored[k], own)'
  BY <1>1, <1>3 DEF IndexOK, HasIdentity
<1> QED BY <1>1, <1>2, <1>3, <1>4, <1>5, <1>6 DEF IndexOK, Indexed

LEMMA StepIndex ==
    ASSUME Calls, IndexOK, NEW c \in Callers, Step(c)
    PROVE  IndexOK'
<1>1. CASE GetL2(c) \/ GetProfile(c)
  BY <1>1, GetEffect, OthersKeep DEF Frame, history, Saving
<1>2. CASE CompleteProfile(c)
  BY <1>2, CompleteEffect, OthersKeep DEF Frame, history, Saving
<1>3. CASE PurgeL1(c)
  BY <1>3, PurgeEffect, OthersKeep DEF Frame, history, Saving
<1>4. CASE DeleteL2(c)
  BY <1>4, DeleteEffect, OthersKeep DEF Frame, history, Saving
<1>5. CASE SetL1(c)
  BY <1>5, SetL1Effect, OthersKeep DEF Frame, history, Saving
<1>6. CASE SetL2(c)
  BY <1>6, SetL2Effect, OthersKeep DEF Frame, history, Saving
<1> QED BY <1>1, <1>2, <1>3, <1>4, <1>5, <1>6, SaveIndex, GlobalIndex, AddressIndex DEF Step

LEMMA HandleIndex ==
    ASSUME Calls, IndexOK, NEW w \in {"scan", "backfill"}, NEW p \in Pins, HandleBlockPin(w, p)
    PROVE  IndexOK'
<1>1. CASE Taken(w, p)
  <2>1. /\ Calls' /\ Frame /\ Others(w) /\ UNCHANGED profileVars /\ phase'[w] = "save"
        /\ causes' = causes
    BY <1>1, TakenEffect
  <2>2. w \in Callers /\ w \in AllWriters
    BY DEF Callers, AllWriters
  <2>3. at'[w] = copy'[w].metaid
    BY <2>1, <2>2 DEF Calls, CallsOK, WriterOK, Busy
  <2>4. ~Saving(w)'
    BY <2>1, <2>3 DEF Saving
  <2> QED BY <2>1, <2>2, <2>3, <2>4, OthersKeep DEF Frame
<1>2. CASE ~Taken(w, p)
  <2>1. Frame /\ UNCHANGED <<profileVars, callVars, history>>
    BY <1>2, HandleCases, PassedEffect
  <2>2. \A d \in Callers : SameCall(d) /\ (Saving(d)' <=> Saving(d))
    BY <2>1, SameSaving DEF callVars, SameCall
  <2> QED BY <2>1, <2>2, IndexKeeps DEF Frame, history, SameCall
<1> QED BY <1>1, <1>2

LEMMA NextIndex == Calls /\ IndexOK /\ [Next]_vars => IndexOK'
<1> SUFFICES ASSUME Calls, IndexOK, [Next]_vars PROVE IndexOK'
  OBVIOUS
<1>1. ASSUME NEW c \in Readers, Request(c) PROVE IndexOK'
  <2>1. c \in Callers
    BY DEF Callers
  <2> QED BY <1>1, <2>1, RequestEffect, OthersKeep DEF Frame, Saving
<1>2. CASE Mine \/ (\E k \in Keys : Expire(k)) \/ UNCHANGED vars
  <2>1. UNCHANGED <<own, profileVars, callVars, history>>
    BY <1>2, ElsewhereEffect DEF vars, setting
  <2>2. \A d \in Callers : SameCall(d) /\ (Saving(d)' <=> Saving(d))
    BY <2>1, SameSaving DEF callVars, SameCall
  <2> QED BY <2>1, <2>2, IndexKeeps DEF history, SameCall
<1>3. CASE Crash
  BY <1>3, CrashEffect, IndexKeeps DEF Frame, Saving
<1> QED BY <1>1, <1>2, <1>3, StepIndex, HandleIndex DEF Next

-----------------------------------------------------------------------------
(* A stale entry of the cache has an explanation *)

Fresh(k) == {l1[k], l2[k]} \subseteq {NoProfile, stored[k]}
Alone(c) == \A d \in Callers : d # c => ~Busy(d)

\* The entries that a saving call has still to remove.
ToDelete(c) ==
    IF FromPin(c) THEN (IF via[c] = "pin" THEN {asked[c]} ELSE {})
    ELSE IF phase[c] = "save" THEN {copy[c].metaid} ELSE {at[c], copy[c].metaid}

Pending(c, k) ==
    /\ Saving(c) /\ Alone(c) /\ open /\ k \in ToDelete(c)
    /\ phase[c] = "delete" => l1[k] = NoProfile

\* What a call will put into the cache is what is stored; an init pin saves what
\* is stored.
CopyFresh(c, k) ==
    /\ via[c] = "metaid" /\ asked[c] = k =>
          /\ phase[c] = "complete" => copy[c] \in {NoProfile, stored[k]}
          /\ phase[c] \in {"setL1", "setL2", "purge", "delete"} => copy[c] = stored[k]
          /\ phase[c] \in {"global", "address"} /\ at[c] = k => copy[c] = stored[k]
    /\ via[c] = "init" /\ phase[c] = "save" /\ at[c] = k /\ asked[c] = k =>
          stored[k] \in {NoProfile, copy[c]}

Explained(k) == Fresh(k) \/ \E c \in Callers : Pending(c, k)

StaleOK ==
    \A k \in Keys \ excused : Explained(k) /\ \A c \in Callers : CopyFresh(c, k)

\* A call that is not saving knows that nobody is.
LEMMA FreshForOthers ==
    ASSUME StaleOK, NEW c \in Callers, Busy(c), ~Saving(c), NEW k \in Keys \ excused
    PROVE  Fresh(k)
  BY DEF StaleOK, Explained, Pending, Alone

\* A step of the call that is saving.
LEMMA FreshOrMine ==
    ASSUME StaleOK, NEW c \in Callers, Busy(c), NEW k \in Keys \ excused
    PROVE  Fresh(k) \/ Pending(c, k)
  BY DEF StaleOK, Explained, Pending, Alone

LEMMA CopyFreshSame ==
    ASSUME NEW d \in Callers, SameCall(d), NEW k, CopyFresh(d, k), stored'[k] = stored[k]
    PROVE  CopyFresh(d, k)'
  BY DEF SameCall, CopyFresh

\* CopyFresh after a step of c that does not save.
LEMMA CopiesFresh ==
    ASSUME StaleOK, NEW c \in Callers, Others(c), NEW k \in Keys \ excused, stored' = stored,
           CopyFresh(c, k)'
    PROVE  \A d \in Callers : CopyFresh(d, k)'
<1> SUFFICES ASSUME NEW d \in Callers, d # c PROVE CopyFresh(d, k)'
  OBVIOUS
<1> QED BY CopyFreshSame DEF StaleOK, Others

LEMMA AloneStays ==
    ASSUME NEW c \in Callers, Others(c), Alone(c)
    PROVE  Alone(c)'
  BY DEF Alone, Others, SameCall, Busy

\* Nobody calls, or an entry of the LRU goes.
LEMMA StaleKeeps ==
    ASSUME StaleOK, UNCHANGED <<stored, l2, open, callVars, excused>>,
           \A k \in Keys : l1'[k] \in {l1[k], NoProfile}
    PROVE  StaleOK'
<1> SUFFICES ASSUME NEW k \in Keys \ excused
             PROVE  Explained(k)' /\ \A c \in Callers : CopyFresh(c, k)'
  BY DEF StaleOK
<1>1. \A c \in Callers : SameCall(c) /\ (Saving(c)' <=> Saving(c))
  BY SameSaving DEF callVars, SameCall
<1>2. \A c \in Callers : CopyFresh(c, k)'
  BY <1>1, CopyFreshSame DEF StaleOK
<1>3. ASSUME Fresh(k) PROVE Explained(k)'
  BY <1>3 DEF Fresh, Explained
<1>4. ASSUME NEW c \in Callers, Pending(c, k) PROVE Pending(c, k)'
  <2>1. Alone(c)'
    BY <1>1, <1>4, AloneStays DEF Others, Pending
  <2>2. ToDelete(c)' = ToDelete(c)
    BY DEF ToDelete, FromPin, callVars
  <2> QED BY <1>1, <1>4, <2>1, <2>2 DEF Pending, SameCall
<1> QED BY <1>2, <1>3, <1>4 DEF StaleOK, Explained

LEMMA RequestStale ==
    ASSUME Calls, StaleOK, NEW c \in Readers, Request(c)
    PROVE  StaleOK'
<1>1. /\ Others(c) /\ UNCHANGED <<profileVars, cacheVars>> /\ Calls'
      /\ phase'[c] \in {"l2", "complete"}
      /\ excused' = (IF \E d \in Callers : Saving(d) THEN Keys ELSE excused)
      /\ via'[c] = "metaid" /\ phase'[c] = "complete" => copy'[c] = l1[asked'[c]]
  BY RequestEffect
<1> SUFFICES ASSUME NEW k \in Keys \ excused' PROVE Explained(k)' /\ \A d \in Callers : CopyFresh(d, k)'
  BY DEF StaleOK
<1>2. excused' = excused /\ ~\E d \in Callers : Saving(d)
  BY <1>1
<1>3. Fresh(k) /\ c \in Callers
  BY <1>2 DEF StaleOK, Explained, Pending, Callers
<1>4. Fresh(k)' /\ stored' = stored
  BY <1>1, <1>3 DEF Fresh, profileVars, cacheVars
<1>5. CopyFresh(c, k)'
  BY <1>1, <1>3, <1>4 DEF CopyFresh, Fresh, cacheVars
<1> QED BY <1>1, <1>2, <1>3, <1>4, <1>5, CopiesFresh DEF Explained

LEMMA HandleStale ==
    ASSUME Calls, StaleOK, NEW w \in {"scan", "backfill"}, NEW p \in Pins, HandleBlockPin(w, p)
    PROVE  StaleOK'
<1>1. CASE Taken(w, p)
  <2>1. /\ Others(w) /\ UNCHANGED <<profileVars, l2, open>>
        /\ l1' \in {l1, [k \in Keys |-> NoProfile]}
        /\ phase'[w] = "save" /\ asked'[w] = PinMetaId(w)
        /\ via'[w] = IF Field[p] = "init" THEN "init" ELSE "pin"
        /\ copy'[w] = IF Field[p] = "init" THEN PinProfile(PinMetaId(w))
                      ELSE [PinProfile(PinMetaId(w)) EXCEPT !.value[Field[p]] = p]
        /\ excused' = (IF \E d \in Callers : Saving(d) THEN Keys ELSE excused)
    BY <1>1, TakenEffect
  <2> SUFFICES ASSUME NEW k \in Keys \ excused'
               PROVE  Explained(k)' /\ \A d \in Callers : CopyFresh(d, k)'
    BY DEF StaleOK
  <2>2. excused' = excused /\ ~\E d \in Callers : Saving(d)
    BY <2>1
  <2>3. Fresh(k) /\ w \in Callers
    BY <2>2 DEF StaleOK, Explained, Pending, Callers, AllWriters
  <2>4. Fresh(k)' /\ stored' = stored
    BY <2>1, <2>3 DEF Fresh, profileVars
  <2>5. CopyFresh(w, k)'
    BY <2>1, <2>4 DEF CopyFresh, PinProfile
  <2> QED BY <2>1, <2>2, <2>3, <2>4, <2>5, CopiesFresh DEF Explained
<1>2. CASE ~Taken(w, p)
  <2>1. /\ UNCHANGED <<profileVars, l2, open, callVars, history>>
        /\ l1' \in {l1, [k \in Keys |-> NoProfile]}
    BY <1>2, HandleCases, PassedEffect
  <2> QED BY <2>1, StaleKeeps DEF profileVars, history
<1> QED BY <1>1, <1>2

\* The steps of a request that is not saving: reading, completing, and filling the
\* cache.
LEMMA ReadStale ==
    ASSUME Calls, StaleOK, NEW c \in Callers,
           GetL2(c) \/ GetProfile(c) \/ CompleteProfile(c) \/ SetL1(c) \/ SetL2(c)
    PROVE  StaleOK'
<1>1. Busy(c) /\ ~Writing(c) /\ Others(c) /\ UNCHANGED <<profileVars, history>>
  BY GetEffect, CompleteEffect, SetL1Effect, SetL2Effect
<1>2. ~Saving(c) /\ stored' = stored /\ excused' = excused
  BY <1>1 DEF Writing, Saving, profileVars, history
<1> SUFFICES ASSUME NEW k \in Keys \ excused PROVE Explained(k)' /\ \A d \in Callers : CopyFresh(d, k)'
  BY <1>2 DEF StaleOK
<1>3. Fresh(k) /\ CopyFresh(c, k)
  BY <1>1, <1>2, FreshForOthers DEF StaleOK
<1>4. Fresh(k)' /\ CopyFresh(c, k)'
  <2>1. CASE GetL2(c) \/ GetProfile(c)
    <3>1. /\ phase'[c] \in {"load", "complete"} /\ asked'[c] = asked[c]
          /\ phase'[c] = "complete" => copy'[c] \in {l2[asked[c]], stored[asked[c]]}
          /\ l1'[k] = l1[k] \/ l1'[k] = l2[k]
          /\ l2' = l2
      BY <2>1, GetEffect
    <3> QED BY <1>2, <1>3, <3>1 DEF Fresh, CopyFresh
  <2>2. CASE CompleteProfile(c)
    <3>1. /\ UNCHANGED cacheVars /\ phase[c] = "complete" /\ c \in Readers /\ Calls'
          /\ \/ phase'[c] = "idle"
             \/ /\ phase'[c] = "setL1" /\ via[c] = "metaid" /\ via'[c] = via[c] /\ asked'[c] = asked[c]
                /\ copy'[c] = copy[c] /\ copy[c] # NoProfile
             \/ phase'[c] = "save" /\ via'[c] = via[c]
      BY <2>2, CompleteEffect
    <3>2. via[c] # "init"
      BY <1>1, <3>1 DEF Calls, CallsOK, ReaderOK
    <3> QED BY <1>2, <1>3, <3>1, <3>2 DEF Fresh, CopyFresh, cacheVars
  <2>3. CASE SetL1(c)
    <3>1. /\ l2' = l2 /\ phase[c] = "setL1" /\ phase'[c] = "setL2" /\ via[c] = "metaid"
          /\ UNCHANGED <<via, asked, copy>>
          /\ l1'[k] = IF k = asked[c] THEN copy[c] ELSE l1[k]
      BY <2>3, SetL1Effect
    <3> QED BY <1>2, <1>3, <3>1 DEF Fresh, CopyFresh
  <2>4. CASE SetL2(c)
    <3>1. /\ l1' = l1 /\ phase[c] = "setL2" /\ phase'[c] = "idle" /\ via[c] = "metaid"
          /\ l2'[k] = IF k = asked[c] THEN copy[c] ELSE l2[k]
      BY <2>4, SetL2Effect
    <3> QED BY <1>2, <1>3, <3>1 DEF Fresh, CopyFresh
  <2> QED BY <2>1, <2>2, <2>3, <2>4
<1> QED BY <1>1, <1>2, <1>4, CopiesFresh DEF Explained

LEMMA SaveStale ==
    ASSUME Calls, StaleOK, NEW c \in Callers, SaveProfile(c)
    PROVE  StaleOK'
<1>1. /\ Frame /\ Others(c) /\ UNCHANGED cacheVars /\ Busy(c)
      /\ phase[c] = "save" /\ phase'[c] = "global" /\ copy[c] \in Profiles /\ at[c] \in Keys
      /\ UNCHANGED <<via, asked, at, base, copy>>
      /\ stored'[at[c]] = copy[c]
      /\ \A k \in Keys : k # at[c] => stored'[k] = stored[k]
  BY SaveEffect
<1> DEFINE uncovered == \/ ~open \/ \E d \in Callers \ {c} : Busy(d)
                        \/ FromPin(c) /\ asked[c] # at[c]
                        \/ via[c] = "init" /\ at[c] \in excused
<1>2. excused' = IF uncovered THEN excused \cup {at[c]} ELSE excused \ {at[c]}
  BY DEF SaveProfile
<1>3. Saving(c)'
  BY <1>1 DEF Saving
<1>4. FromPin(c)' <=> FromPin(c)
  BY <1>1 DEF FromPin
<1> SUFFICES ASSUME NEW k \in Keys, k \notin excused'
             PROVE  Explained(k)' /\ \A d \in Callers : CopyFresh(d, k)'
  BY DEF StaleOK
<1>5. CASE k # at[c]
  <2>1. k \notin excused /\ stored'[k] = stored[k]
    BY <1>1, <1>2, <1>5
  <2>2. ASSUME Fresh(k) PROVE Explained(k)'
    BY <1>1, <2>1, <2>2 DEF Fresh, Explained, cacheVars
  <2>3. ASSUME Pending(c, k) PROVE Explained(k)'
    <3>1. k \in ToDelete(c)' /\ open'
      BY <1>1, <1>4, <2>3 DEF Pending, ToDelete, cacheVars
    <3>2. Alone(c)'
      BY <1>1, <2>3, AloneStays DEF Pending
    <3>3. Pending(c, k)'
      BY <1>1, <1>3, <3>1, <3>2 DEF Pending
    <3> QED BY <3>3 DEF Explained
  <2>4. Explained(k)'
    BY <1>1, <2>1, <2>2, <2>3, FreshOrMine
  <2>5. ASSUME NEW d \in Callers PROVE CopyFresh(d, k)'
    <3>1. CASE d = c
      BY <1>1, <1>5, <3>1 DEF CopyFresh
    <3>2. CASE d # c
      BY <1>1, <2>1, <3>2, CopyFreshSame DEF StaleOK, Others
    <3> QED BY <3>1, <3>2
  <2> QED BY <2>4, <2>5
<1>6. CASE k = at[c]
  <2>1. ~uncovered
    BY <1>2, <1>6
  <2>2. /\ open' /\ Alone(c) /\ (FromPin(c) => asked[c] = k) /\ (via[c] = "init" => k \notin excused)
    BY <1>1, <1>6, <2>1 DEF cacheVars, Alone
  <2>3. Alone(c)'
    BY <1>1, <2>2, AloneStays
  <2>4. ASSUME via[c] # "init" PROVE Explained(k)'
    <3>1. k \in ToDelete(c)'
      BY <1>1, <1>4, <1>6, <2>2, <2>4 DEF ToDelete, FromPin
    <3>2. Pending(c, k)'
      BY <1>1, <1>3, <2>2, <2>3, <3>1 DEF Pending
    <3> QED BY <3>2 DEF Explained
  <2>5. ASSUME via[c] = "init" PROVE Explained(k)'
    <3>1. c \in AllWriters
      BY <1>1, <2>5 DEF Calls, CallsOK, ReaderOK, Callers
    <3>2. ~Saving(c)
      BY <1>1, <3>1 DEF Calls, CallsOK, WriterOK, Saving
    <3>3. Fresh(k)
      BY <1>1, <2>2, <2>5, <3>2, FreshForOthers
    <3>4. stored[k] \in {NoProfile, copy[c]}
      BY <1>1, <1>6, <2>2, <2>5 DEF StaleOK, CopyFresh, FromPin
    <3> QED BY <1>1, <1>6, <3>3, <3>4 DEF Fresh, Explained, cacheVars
  <2>6. ASSUME NEW d \in Callers PROVE CopyFresh(d, k)'
    <3>1. CASE d = c
      BY <1>1, <1>6, <3>1 DEF CopyFresh
    <3>2. CASE d # c
      BY <2>3, <3>2 DEF CopyFresh, Alone, Busy
    <3> QED BY <3>1, <3>2
  <2> QED BY <2>4, <2>5, <2>6
<1> QED BY <1>5, <1>6

LEMMA IndexStale ==
    ASSUME Calls, StaleOK, NEW c \in Callers, SaveGlobalIndex(c) \/ SaveAddressIndex(c)
    PROVE  StaleOK'
<1>1. /\ Others(c) /\ UNCHANGED <<stored, cacheVars, history>> /\ Busy(c) /\ Saving(c) /\ Calls'
      /\ phase[c] \in {"global", "address"}
  BY GlobalEffect, AddressEffect DEF Saving
<1>2. excused' = excused
  BY <1>1 DEF history
<1> SUFFICES ASSUME NEW k \in Keys \ excused PROVE Explained(k)' /\ \A d \in Callers : CopyFresh(d, k)'
  BY <1>2 DEF StaleOK
<1>3. CopyFresh(c, k)
  BY DEF StaleOK
<1>4. CopyFresh(c, k)' /\ (Pending(c, k) => Saving(c)' /\ k \in ToDelete(c)' /\ phase'[c] # "delete")
  <2>1. CASE SaveGlobalIndex(c)
    <3>1. phase[c] = "global" /\ phase'[c] = "address" /\ UNCHANGED <<via, asked, at, base, copy>>
      BY <2>1, GlobalEffect
    <3> QED BY <1>1, <1>3, <3>1 DEF CopyFresh, Pending, Saving, ToDelete, FromPin
  <2>2. CASE SaveAddressIndex(c)
    <3>1. /\ phase[c] = "address"
          /\ \/ via[c] = "init" /\ phase'[c] = "idle"
             \/ /\ via[c] # "init" /\ via'[c] = via[c] /\ asked'[c] = asked[c]
                /\ copy'[c] = copy[c] /\ base'[c] = base[c]
                /\ \/ /\ phase'[c] = "save" /\ ~FromPin(c)
                      /\ at[c] = copy[c].metaid /\ at'[c] = asked[c] /\ asked[c] # copy[c].metaid
                   \/ /\ phase'[c] = "purge"
                      /\ FromPin(c) => at'[c] = asked[c]
                      /\ ~FromPin(c) => at'[c] = at[c] /\ at[c] = (IF asked[c] = NoKey THEN copy[c].metaid ELSE asked[c])
      BY <2>2, AddressEffect
    <3>2. k # NoKey
      BY UserInfoAssumption
    <3>3. CopyFresh(c, k)'
      BY <1>1, <1>3, <3>1, <3>2 DEF CopyFresh, FromPin
    <3>4. Pending(c, k) => Saving(c)' /\ k \in ToDelete(c)' /\ phase'[c] # "delete"
      BY <3>1 DEF Pending, Saving, ToDelete, FromPin
    <3> QED BY <3>3, <3>4
  <2> QED BY <2>1, <2>2
<1>5. Explained(k)'
  <2>1. CASE Fresh(k)
    BY <1>1, <2>1 DEF Fresh, Explained, cacheVars
  <2>2. CASE Pending(c, k)
    <3>1. Alone(c)' /\ open'
      BY <1>1, <2>2, AloneStays DEF Pending, cacheVars
    <3>2. Pending(c, k)'
      BY <1>4, <2>2, <3>1 DEF Pending
    <3> QED BY <3>2 DEF Explained
  <2> QED BY <1>1, <2>1, <2>2, FreshOrMine
<1> QED BY <1>1, <1>4, <1>5, CopiesFresh

LEMMA PurgeStale ==
    ASSUME Calls, StaleOK, NEW c \in Callers, PurgeL1(c)
    PROVE  StaleOK'
<1>1. /\ Others(c) /\ UNCHANGED <<profileVars, l2, open, history>> /\ Busy(c)
      /\ phase[c] = "purge" /\ phase'[c] = "delete"
      /\ UNCHANGED <<via, asked, at, base, copy>>
      /\ \A k \in Keys : l1'[k] = NoProfile
  BY PurgeEffect
<1>2. excused' = excused /\ stored' = stored
  BY <1>1 DEF history, profileVars
<1> SUFFICES ASSUME NEW k \in Keys \ excused PROVE Explained(k)' /\ \A d \in Callers : CopyFresh(d, k)'
  BY <1>2 DEF StaleOK
<1>3. CopyFresh(c, k)'
  BY <1>1, <1>2 DEF StaleOK, CopyFresh
<1>4. ASSUME Fresh(k) PROVE Explained(k)'
  BY <1>1, <1>2, <1>4 DEF Fresh, Explained
<1>5. ASSUME Pending(c, k) PROVE Explained(k)'
  <2>1. Alone(c)'
    BY <1>1, <1>5, AloneStays DEF Pending
  <2>2. Pending(c, k)'
    BY <1>1, <1>5, <2>1 DEF Pending, Saving, ToDelete, FromPin
  <2> QED BY <2>2 DEF Explained
<1> QED BY <1>1, <1>2, <1>3, <1>4, <1>5, FreshOrMine, CopiesFresh

LEMMA DeleteStale ==
    ASSUME Calls, StaleOK, NEW c \in Callers, DeleteL2(c)
    PROVE  StaleOK'
<1>1. /\ Others(c) /\ UNCHANGED <<profileVars, l1, open, history>> /\ Busy(c)
      /\ phase[c] = "delete" /\ at[c] \in Keys /\ copy[c] \in Profiles
      /\ open => l2'[at[c]] = NoProfile
      /\ \A k \in Keys : k # at[c] \/ ~open => l2'[k] = l2[k]
      /\ \/ phase'[c] = "idle" /\ (FromPin(c) \/ at[c] = copy[c].metaid)
         \/ /\ via'[c] = via[c] /\ asked'[c] = asked[c] /\ copy'[c] = copy[c]
            /\ ~FromPin(c)
            /\ \/ /\ phase'[c] = "purge" /\ at'[c] = copy[c].metaid
                  /\ at[c] = asked[c] /\ at[c] # copy[c].metaid
               \/ phase'[c] = "setL1" /\ via[c] = "metaid" /\ at[c] = copy[c].metaid
  BY DeleteEffect
<1>2. excused' = excused /\ stored' = stored
  BY <1>1 DEF history, profileVars
<1> SUFFICES ASSUME NEW k \in Keys \ excused PROVE Explained(k)' /\ \A d \in Callers : CopyFresh(d, k)'
  BY <1>2 DEF StaleOK
<1>3. CopyFresh(c, k)'
  BY <1>1, <1>2 DEF StaleOK, CopyFresh
<1>4. ASSUME Fresh(k) PROVE Explained(k)'
  BY <1>1, <1>2, <1>4 DEF Fresh, Explained
<1>5. ASSUME Pending(c, k) /\ k = at[c] PROVE Explained(k)'
  BY <1>1, <1>2, <1>5 DEF Pending, Fresh, Explained
<1>6. ASSUME Pending(c, k) /\ k # at[c] PROVE Explained(k)'
  <2>1. ~FromPin(c)
    <3>1. FromPin(c) => at[c] = asked[c]
      BY <1>1 DEF Calls, CallsOK, WriterOK, ReaderOK, FromPin, Callers
    <3> QED BY <1>6, <3>1 DEF Pending, ToDelete
  <2>2. k = copy[c].metaid /\ at[c] # copy[c].metaid
    BY <1>1, <1>6, <2>1 DEF Pending, ToDelete
  <2>3. Alone(c)'
    BY <1>1, <1>6, AloneStays DEF Pending
  <2>4. Pending(c, k)'
    BY <1>1, <1>6, <2>1, <2>2, <2>3 DEF Pending, Saving, ToDelete, FromPin
  <2> QED BY <2>4 DEF Explained
<1> QED BY <1>1, <1>2, <1>3, <1>4, <1>5, <1>6, FreshOrMine, CopiesFresh

LEMMA InitStale == Init => StaleOK
<1> SUFFICES ASSUME Init, NEW k \in Keys PROVE Fresh(k) /\ \A c \in Callers : CopyFresh(c, k)
  BY DEF StaleOK, Explained
<1>1. l1[k] = NoProfile /\ l2[k] = NoProfile /\ \A c \in Callers : phase[c] = "idle"
  BY DEF Init, NoCalls
<1> QED BY <1>1 DEF Fresh, CopyFresh

LEMMA NextStale == Calls /\ StaleOK /\ [Next]_vars => StaleOK'
<1> SUFFICES ASSUME Calls, StaleOK, [Next]_vars PROVE StaleOK'
  OBVIOUS
<1>1. CASE Mine \/ (\E k \in Keys : Expire(k)) \/ UNCHANGED vars
  <2>1. /\ UNCHANGED <<profileVars, l2, open, callVars, history>>
        /\ \A k \in Keys : l1'[k] \in {l1[k], NoProfile}
    BY <1>1, ElsewhereEffect DEF vars, cacheVars
  <2> QED BY <2>1, StaleKeeps DEF profileVars, history
<1>2. CASE Crash
  <2>1. /\ UNCHANGED <<profileVars, l2>>
        /\ \A k \in Keys : l1'[k] = NoProfile
        /\ \A d \in Callers : phase'[d] = "idle"
        /\ excused' = (IF \E c \in Callers : Saving(c) THEN Keys ELSE excused)
    BY <1>2, CrashEffect
  <2> SUFFICES ASSUME NEW k \in Keys \ excused' PROVE Fresh(k)' /\ \A d \in Callers : CopyFresh(d, k)'
    BY DEF StaleOK, Explained
  <2>2. k \notin excused /\ ~\E c \in Callers : Saving(c)
    BY <2>1
  <2>3. Fresh(k)
    BY <2>2 DEF StaleOK, Explained, Pending
  <2> QED BY <2>1, <2>3 DEF Fresh, CopyFresh, profileVars
<1>3. ASSUME NEW c \in Callers, Step(c) PROVE StaleOK'
  BY <1>3, ReadStale, SaveStale, IndexStale, PurgeStale, DeleteStale DEF Step
<1> QED BY <1>1, <1>2, <1>3, RequestStale, HandleStale DEF Next

-----------------------------------------------------------------------------
(* No pin is lost *)

Clean == causes \cap {"overwritten", "renamed"} = {}

\* The profile p has, of each field, a pin that is not older than the last of the
\* first n pins.
Kept(p, n) ==
    \A f \in KeptFields : \A j \in 1..n : Field[chain[j]] = f =>
        p # NoProfile /\ \E i \in j..mined : Field[chain[i]] = f /\ p.value[f] = chain[i]

\* The pins whose fields the store has: the scan's own pin is among them when its
\* profile is written.
Written == IF phase["scan"] \in {"global", "address", "purge", "delete"} THEN pos + 1 ELSE pos

\* What a call is about to save keeps what it has read, but for the scan's pin.
Derived(c) ==
    \A f \in KeptFields :
        IF c = "scan" /\ f = Field[chain[pos + 1]] THEN copy[c].value[f] = chain[pos + 1]
        ELSE base[c] # NoProfile /\ base[c].value[f] # NoPin => copy[c].value[f] = base[c].value[f]

ToSave(c) == phase[c] = "save" /\ at[c] = copy[c].metaid

KeptOK ==
    Clean =>
        /\ stored[own] # NoProfile => stored[own].metaid = own
        /\ Kept(stored[own], Written)
        /\ phase["scan"] = "save" => at["scan"] = own
        /\ \A c \in Callers : ToSave(c) => Derived(c)

LEMMA ScanCalls == "scan" \in Callers /\ "scan" \in AllWriters
  BY DEF Callers, AllWriters

LEMMA WrittenType ==
    ASSUME Calls
    PROVE  Written \in Nat /\ Written <= mined
  BY ScanCalls, ChainPins DEF Calls, TypeOK, CallsOK, Written, Busy

LEMMA DerivedSame ==
    ASSUME NEW d \in Callers, SameCall(d), UNCHANGED <<chain, writers>>, d = "scan" => pos' = pos,
           Derived(d)
    PROVE  Derived(d)'
  BY DEF SameCall, Derived, KeptFields

\* A step that leaves the record alone.
LEMMA KeptKeeps ==
    ASSUME Calls, KeptOK, Clean, UNCHANGED <<chain, writers, own>>, mined' \in {mined, mined + 1},
           stored'[own] = stored[own], Written' \in 0..Written,
           phase'["scan"] = "save" => at'["scan"] = own,
           \A d \in Callers : ToSave(d)' => Derived(d)'
    PROVE  KeptOK'
<1>1. Kept(stored[own], Written) /\ Written \in Nat /\ mined \in Nat
  BY WrittenType, ChainPins DEF KeptOK, Calls, TypeOK
<1>2. KeptFields' = KeptFields
  BY DEF KeptFields
<1>3. Kept(stored[own], Written)'
  <2> SUFFICES ASSUME NEW f \in KeptFields, NEW j \in 1..Written', Field[chain[j]] = f
               PROVE  /\ stored[own] # NoProfile
                      /\ \E i \in j..mined' : Field[chain[i]] = f /\ stored[own].value[f] = chain[i]
    BY <1>2 DEF Kept
  <2>1. j \in 1..Written /\ j \in Nat
    BY <1>1
  <2>2. stored[own] # NoProfile /\ \E i \in j..mined : Field[chain[i]] = f /\ stored[own].value[f] = chain[i]
    BY <1>1, <2>1 DEF Kept
  <2>3. j..mined \subseteq j..mined'
    BY <1>1, <2>1
  <2> QED BY <2>2, <2>3
<1> QED BY <1>3 DEF KeptOK

\* A step of the call c that leaves the record alone.
LEMMA OthersKept ==
    ASSUME Calls, KeptOK, Clean, NEW c \in Callers, Others(c), Frame, stored'[own] = stored[own],
           c # "scan" => pos' = pos,
           c = "scan" => Written' = Written /\ phase'[c] # "save",
           ToSave(c)' => Derived(c)'
    PROVE  KeptOK'
<1>1. Written' \in 0..Written
  BY WrittenType, ScanCalls DEF Written, Others, SameCall
<1>2. phase'["scan"] = "save" => at'["scan"] = own
  BY ScanCalls DEF KeptOK, Others, SameCall
<1>3. ASSUME NEW d \in Callers, ToSave(d)' PROVE Derived(d)'
  <2>1. CASE d # c
    <3>1. SameCall(d) /\ Derived(d)
      BY <1>3, <2>1 DEF Others, KeptOK, ToSave, SameCall
    <3> QED BY <2>1, <3>1, DerivedSame DEF Frame
  <2> QED BY <1>3, <2>1
<1> QED BY <1>1, <1>2, <1>3, KeptKeeps DEF Frame

\* What is made from the record keeps its fields.
LEMMA DerivedKeeps ==
    ASSUME Calls, NEW c \in Callers, NEW n \in Nat, n <= mined, Kept(base[c], n), Derived(c), copy[c] # NoProfile,
           c = "scan" => n = pos /\ pos < mined
    PROVE  /\ c # "scan" => Kept(copy[c], n)
           /\ c = "scan" => Kept(copy[c], n + 1)
<1>1. mined \in Nat /\ mined <= Len(chain) /\ \A i \in 1..Len(chain) : chain[i] \in Pins
  BY ChainPins DEF Calls, TypeOK
<1> DEFINE m == IF c = "scan" THEN n + 1 ELSE n
<1> SUFFICES ASSUME NEW f \in KeptFields, NEW j \in 1..m, Field[chain[j]] = f
             PROVE  \E i \in j..mined : Field[chain[i]] = f /\ copy[c].value[f] = chain[i]
  BY DEF Kept
<1>2. CASE c = "scan" /\ f = Field[chain[pos + 1]]
  <2>1. copy[c].value[f] = chain[pos + 1]
    BY <1>2 DEF Derived
  <2>2. pos + 1 \in j..mined
    BY <1>1, <1>2
  <2> QED BY <1>2, <2>1, <2>2
<1>3. CASE ~(c = "scan" /\ f = Field[chain[pos + 1]])
  <2>1. j \in 1..n
    BY <1>3
  <2>2. PICK i \in j..mined : Field[chain[i]] = f /\ base[c].value[f] = chain[i]
    BY <2>1 DEF Kept
  <2>3. i \in 1..Len(chain)
    BY <1>1, <2>1
  <2>4. base[c] # NoProfile /\ base[c].value[f] # NoPin
    BY <1>1, <2>1, <2>2, <2>3, UserInfoAssumption DEF Kept
  <2> QED BY <1>3, <2>2, <2>4 DEF Derived
<1> QED BY <1>2, <1>3

LEMMA SaveKept ==
    ASSUME Calls, KeptOK, NEW c \in Callers, SaveProfile(c)
    PROVE  KeptOK'
<1>1. /\ Calls' /\ Frame /\ Others(c) /\ pos' = pos
      /\ phase[c] = "save" /\ phase'[c] = "global" /\ copy[c] \in Profiles /\ at[c] \in Keys
      /\ stored'[at[c]] = copy[c]
      /\ \A k \in Keys : k # at[c] => stored'[k] = stored[k]
  BY SaveEffect
<1>2. causes' = causes \cup (IF at[c] = own /\ stored[at[c]] # base[c] THEN {"overwritten"} ELSE {})
                       \cup (IF at[c] = own /\ copy[c].metaid # at[c] THEN {"renamed"} ELSE {})
                       \cup (IF HasIdentity(copy[c], own) THEN {} ELSE {"foreign"})
  BY DEF SaveProfile
<1> SUFFICES ASSUME Clean' PROVE KeptOK'
  BY DEF KeptOK
<1>3. /\ Clean
      /\ at[c] = own => stored[own] = base[c] /\ copy[c].metaid = own
  BY <1>2 DEF Clean
<1>4. own \in Keys /\ copy[c] # NoProfile
  BY <1>1, OwnIsKey, UserInfoAssumption DEF Calls
<1>5. CASE at[c] # own
  <2>1. c # "scan" /\ stored'[own] = stored[own]
    BY <1>1, <1>3, <1>4, <1>5 DEF KeptOK
  <2> QED BY <1>1, <1>3, <2>1, OthersKept DEF ToSave
<1>6. CASE at[c] = own
  <2>1. /\ ToSave(c) /\ Derived(c) /\ Kept(base[c], Written) /\ stored'[own] = copy[c]
        /\ copy[c].metaid = own
    BY <1>1, <1>3, <1>6 DEF KeptOK, ToSave
  <2>2. Written \in Nat /\ Written <= mined
    BY WrittenType
  <2>3. c = "scan" => Written = pos /\ pos < mined
    BY <1>1 DEF Written, Calls, CallsOK, Busy
  <2>4. Written' = (IF c = "scan" THEN Written + 1 ELSE Written)
    BY <1>1, <2>3, ScanCalls DEF Written, Others, SameCall
  <2>5. Kept(copy[c], Written')
    BY <1>4, <2>1, <2>2, <2>3, <2>4, DerivedKeeps
  <2>6. Kept(stored[own], Written)'
    BY <1>1, <2>1, <2>5 DEF Kept, KeptFields, Frame
  <2>7. phase'["scan"] = "save" => at'["scan"] = own
    BY <1>1, <1>3, ScanCalls DEF KeptOK, Others, SameCall
  <2>8. ASSUME NEW d \in Callers, ToSave(d)' PROVE Derived(d)'
    <3>1. d # c
      BY <1>1, <2>8 DEF ToSave
    <3>2. SameCall(d) /\ Derived(d)
      BY <1>1, <1>3, <2>8, <3>1 DEF Others, KeptOK, ToSave, SameCall
    <3> QED BY <1>1, <3>2, DerivedSame DEF Frame
  <2>9. own' = own
    BY <1>1 DEF Frame
  <2> QED BY <2>1, <2>6, <2>7, <2>8, <2>9 DEF KeptOK
<1> QED BY <1>5, <1>6

LEMMA StepKept ==
    ASSUME Calls, KeptOK, NEW c \in Callers, Step(c)
    PROVE  KeptOK'
<1> SUFFICES ASSUME ~SaveProfile(c) PROVE KeptOK'
  BY SaveKept
<1>1. Frame /\ Others(c) /\ stored' = stored /\ causes' = causes /\ Busy(c)
  BY GetEffect, CompleteEffect, GlobalEffect, AddressEffect, PurgeEffect, DeleteEffect,
     SetL1Effect, SetL2Effect DEF Step, profileVars, history
<1> SUFFICES ASSUME Clean PROVE KeptOK'
  BY <1>1 DEF KeptOK, Clean
<1>2. c = "scan" => Writing(c) /\ FromPin(c) /\ c \notin Readers
  BY <1>1, ScanCalls, UserInfoAssumption DEF Calls, CallsOK, WriterOK
<1>3. CASE GetL2(c) \/ GetProfile(c) \/ SetL1(c) \/ SetL2(c)
  BY <1>1, <1>2, <1>3, GetEffect, SetL1Effect, SetL2Effect, OthersKept DEF ToSave
<1>4. CASE CompleteProfile(c)
  <2>1. /\ pos' = pos /\ c # "scan" /\ copy[c] = base[c]
        /\ phase'[c] # "save" \/ /\ base'[c] = base[c]
                                 /\ \E remote \in Profiles : copy'[c] = MergeUserProfiles(copy[c], remote)
    BY <1>2, <1>4, CompleteEffect
  <2>2. ASSUME ToSave(c)' PROVE Derived(c)'
    <3>1. PICK remote \in Profiles : copy'[c] = MergeUserProfiles(base[c], remote)
      BY <2>1, <2>2 DEF ToSave
    <3>2. base[c] \in MaybeProfile /\ base'[c] = base[c]
      BY <2>1, <2>2 DEF Calls, TypeOK, MaybeProfile, ToSave
    <3>3. base[c] # NoProfile => \A f \in Fields \ {"avatar"} :
              base[c].value[f] # NoPin => copy'[c].value[f] = base[c].value[f]
      BY <3>1, <3>2, MergeType
    <3>4. KeptFields' \subseteq Fields \ {"avatar"}
      BY DEF KeptFields
    <3> QED BY <2>1, <3>2, <3>3, <3>4 DEF Derived
  <2> QED BY <1>1, <2>1, <2>2, OthersKept
<1>5. CASE SaveGlobalIndex(c) \/ PurgeL1(c)
  <2>1. /\ pos' = pos /\ phase'[c] \in {"address", "delete"}
        /\ phase[c] \in {"global", "purge"}
    BY <1>5, GlobalEffect, PurgeEffect
  <2> QED BY <1>1, <2>1, OthersKept DEF ToSave, Written
<1>6. CASE SaveAddressIndex(c)
  <2>1. /\ pos' = (IF c = "scan" /\ via[c] = "init" THEN pos + 1 ELSE pos)
        /\ phase[c] = "address"
        /\ via[c] = "init" => phase'[c] = "idle"
        /\ via[c] # "init" /\ FromPin(c) => phase'[c] = "purge"
        /\ phase'[c] = "save" => at'[c] # copy'[c].metaid
    BY <1>6, AddressEffect
  <2> QED BY <1>1, <1>2, <2>1, OthersKept DEF ToSave, Written
<1>7. CASE DeleteL2(c)
  <2>1. /\ pos' = (IF c = "scan" THEN pos + 1 ELSE pos)
        /\ phase[c] = "delete" /\ phase'[c] # "save"
        /\ c = "scan" => phase'[c] = "idle"
    BY <1>7, DeleteEffect
  <2> QED BY <1>1, <2>1, OthersKept DEF ToSave, Written
<1> QED BY <1>3, <1>4, <1>5, <1>6, <1>7 DEF Step

LEMMA HandleKept ==
    ASSUME Calls, KeptOK, NEW w \in {"scan", "backfill"}, NEW p \in Pins, HandleBlockPin(w, p)
    PROVE  KeptOK'
<1>0. w \in Callers
  BY DEF Callers, AllWriters
<1>1. CASE Taken(w, p)
  <2> DEFINE m == PinMetaId(w)
  <2>1. /\ Frame /\ Others(w) /\ UNCHANGED <<pos, profileVars>> /\ causes' = causes
        /\ ~Busy(w) /\ phase'[w] = "save"
        /\ base'[w] = stored[m] /\ at'[w] = PinProfile(m).metaid
        /\ copy'[w] = IF Field[p] = "init" THEN PinProfile(m)
                      ELSE [PinProfile(m) EXCEPT !.value[Field[p]] = p]
        /\ PinProfile(m) \in Profiles
        /\ Field[p] \in Fields \cup {"init"}
        /\ w = "scan" => pos < mined /\ p = chain[pos + 1]
    BY <1>1, TakenEffect
  <2> SUFFICES ASSUME Clean PROVE KeptOK'
    BY <2>1 DEF KeptOK, Clean
  <2>2. Offered(w, p) /\ (w = "backfill" => Field[p] \notin KeptFields)
    <3>1. Offered(w, p) /\ Listed(w, p)
      BY <2>1, HandleCases DEF callVars, Busy
    <3>2. w = "backfill" => Field[p] = "role" /\ backfill # 0
      BY <3>1 DEF Offered, BackfillOffers, Listed
    <3>3. w = "backfill" => "backfill" \in writers
      BY <3>2 DEF Calls, CallsOK
    <3> QED BY <3>1, <3>2, <3>3 DEF KeptFields
  <2>3. w = "scan" => at'[w] = own
    BY <2>1 DEF PinProfile, PinMetaId, NewProfile, KeptOK
  <2>4. \A f \in Fields : copy'[w].value[f] = IF f = Field[p] THEN p ELSE PinProfile(m).value[f]
    <3> HIDE DEF m
    <3>1. "init" \notin Fields
      BY DEF Fields
    <3>2. CASE Field[p] = "init"
      BY <2>1, <3>1, <3>2
    <3>3. CASE Field[p] \in Fields
      <4>1. PinProfile(m).value \in [Fields -> Pins \cup {NoPin}]
        BY <2>1 DEF Profiles, Values
      <4>2. copy'[w] = [PinProfile(m) EXCEPT !.value[Field[p]] = p]
        BY <2>1, <3>1, <3>3
      <4>3. copy'[w].value = [PinProfile(m).value EXCEPT ![Field[p]] = p]
        BY <2>1, <4>2 DEF Profiles
      <4> QED BY <4>1, <4>3
    <3> QED BY <2>1, <3>2, <3>3
  <2>5. Derived(w)'
    <3>1. \A f \in KeptFields : f \in Fields /\ f \in KeptFields'
      BY <2>1 DEF KeptFields, Frame
    <3>2. KeptFields' = KeptFields
      BY <2>1 DEF KeptFields, Frame
    <3>3. \A f \in Fields : f # Field[p] /\ stored[m] # NoProfile => copy'[w].value[f] = stored[m].value[f]
      BY <2>4 DEF PinProfile
    <3>4. chain' = chain /\ pos' = pos
      BY <2>1 DEF Frame
    <3> HIDE DEF m
    <3> QED BY <2>1, <2>2, <2>4, <3>1, <3>2, <3>3, <3>4 DEF Derived
  <2>6. Written' \in 0..Written
    BY <2>1, WrittenType, ScanCalls DEF Written, Others, SameCall, Busy
  <2>7. phase'["scan"] = "save" => at'["scan"] = own
    BY <2>1, <2>3, ScanCalls DEF KeptOK, Others, SameCall
  <2>8. ASSUME NEW d \in Callers, ToSave(d)' PROVE Derived(d)'
    <3>1. CASE d # w
      <4>1. SameCall(d) /\ Derived(d)
        BY <2>1, <2>8, <3>1 DEF Others, KeptOK, ToSave, SameCall
      <4> QED BY <2>1, <4>1, DerivedSame DEF Frame
    <3> QED BY <2>5, <3>1
  <2> QED BY <2>1, <2>6, <2>7, <2>8, KeptKeeps DEF Frame, profileVars
<1>2. CASE ~Taken(w, p)
  <2>1. /\ Frame /\ UNCHANGED <<profileVars, callVars, history>> /\ phase[w] = "idle"
        /\ \/ pos' = pos
           \/ pos < mined /\ pos' = pos + 1 /\ w = "scan" /\ Field[chain[pos + 1]] = "other"
    BY <1>2, HandleCases, PassedEffect
  <2> SUFFICES ASSUME Clean PROVE KeptOK'
    BY <2>1 DEF KeptOK, Clean, history
  <2>2. phase' = phase /\ own' = own /\ stored' = stored /\ KeptFields' = KeptFields /\ mined' = mined /\ chain' = chain
    BY <2>1 DEF callVars, Frame, profileVars, KeptFields
  <2>3. CASE pos' = pos
    <3>1. \A d \in Callers : SameCall(d)
      BY <2>1 DEF callVars, SameCall
    <3>2. Written' \in 0..Written
      BY <2>2, <2>3, WrittenType DEF Written
    <3>3. phase'["scan"] = "save" => at'["scan"] = own
      BY <2>1 DEF callVars, KeptOK
    <3>4. ASSUME NEW d \in Callers, ToSave(d)' PROVE Derived(d)'
      BY <2>1, <2>3, <3>1, <3>4, DerivedSame DEF KeptOK, ToSave, SameCall, Frame
    <3> QED BY <2>1, <2>2, <3>2, <3>3, <3>4, KeptKeeps DEF Frame
  <2>4. CASE pos' = pos + 1 /\ w = "scan" /\ pos < mined /\ Field[chain[pos + 1]] = "other"
    <3>1. Written = pos /\ Written' = pos + 1 /\ Written \in Nat /\ phase["scan"] = "idle"
      BY <2>1, <2>2, <2>4, WrittenType DEF Written
    <3>2. Kept(stored[own], pos)
      BY <3>1 DEF KeptOK
    <3>3. "other" \notin KeptFields
      BY DEF KeptFields, Fields
    <3>4. \A j \in 1..(pos + 1) : j \in 1..pos \/ j = pos + 1
      BY <3>1
    <3>5. Kept(stored[own], pos + 1)
      BY <2>4, <3>2, <3>3, <3>4 DEF Kept
    <3>6. Kept(stored[own], Written)'
      BY <2>2, <3>1, <3>5 DEF Kept
    <3>7. ASSUME NEW d \in Callers, ToSave(d)' PROVE Derived(d)'
      <4>1. SameCall(d)
        BY <2>1 DEF callVars, SameCall
      <4>2. d # "scan" /\ Derived(d)
        BY <2>1, <2>2, <3>1, <3>7, <4>1 DEF KeptOK, ToSave, SameCall
      <4> QED BY <2>1, <4>1, <4>2, DerivedSame DEF Frame
    <3> QED BY <2>2, <3>1, <3>6, <3>7 DEF KeptOK
  <2> QED BY <2>1, <2>3, <2>4
<1> QED BY <1>1, <1>2

LEMMA InitKept == Init => KeptOK
<1> SUFFICES ASSUME Init PROVE KeptOK
  OBVIOUS
<1>1. stored[own] = NoProfile /\ \A c \in Callers : phase[c] = "idle"
  BY InitCalls, OwnIsKey DEF Init, NoCalls, Calls
<1>2. Written = 0
  BY <1>1, ScanCalls DEF Written, Init, FeedInit
<1>3. Kept(stored[own], Written)
  BY <1>2 DEF Kept
<1> QED BY <1>1, <1>3, ScanCalls DEF KeptOK, ToSave

LEMMA NextKept == Calls /\ KeptOK /\ [Next]_vars => KeptOK'
<1> SUFFICES ASSUME Calls, KeptOK, [Next]_vars PROVE KeptOK'
  OBVIOUS
<1>0. mined \in Nat /\ pos \in Nat
  BY ChainPins DEF Calls, TypeOK
<1>1. CASE Mine \/ (\E k \in Keys : Expire(k)) \/ UNCHANGED vars
  <2>1. /\ UNCHANGED <<chain, writers, own, pos, profileVars, callVars, history>>
        /\ mined' \in {mined, mined + 1}
    BY <1>1, ElsewhereEffect DEF vars, setting, feedVars
  <2> SUFFICES ASSUME Clean PROVE KeptOK'
    BY <2>1 DEF KeptOK, Clean, history
  <2>2. \A d \in Callers : SameCall(d)
    BY <2>1 DEF callVars, SameCall
  <2>3. Written' \in 0..Written
    BY <2>1, WrittenType DEF Written, callVars
  <2>4. phase'["scan"] = "save" => at'["scan"] = own
    BY <2>1 DEF callVars, KeptOK
  <2>5. ASSUME NEW d \in Callers, ToSave(d)' PROVE Derived(d)'
    BY <2>1, <2>2, <2>5, DerivedSame DEF KeptOK, ToSave, SameCall
  <2> QED BY <2>1, <2>3, <2>4, <2>5, KeptKeeps DEF profileVars
<1>2. CASE Crash
  <2>1. /\ Frame /\ UNCHANGED <<profileVars, causes>> /\ pos' \in 0..pos
        /\ \A d \in Callers : phase'[d] = "idle"
    BY <1>2, CrashEffect
  <2> SUFFICES ASSUME Clean PROVE KeptOK'
    BY <2>1 DEF KeptOK, Clean
  <2>2. Written' \in 0..Written
    <3>1. Written' = pos' /\ Written \in {pos, pos + 1}
      BY <2>1, ScanCalls DEF Written
    <3> QED BY <1>0, <2>1, <3>1
  <2> QED BY <2>1, <2>2, ScanCalls, KeptKeeps DEF Frame, profileVars, ToSave
<1>3. ASSUME NEW c \in Readers, Request(c) PROVE KeptOK'
  <2>1. c \in Callers /\ c # "scan"
    BY ScanCalls, UserInfoAssumption DEF Callers
  <2>2. Frame /\ Others(c) /\ UNCHANGED <<pos, profileVars, causes>> /\ phase'[c] # "save"
    BY <1>3, RequestEffect
  <2> SUFFICES ASSUME Clean PROVE KeptOK'
    BY <2>2 DEF KeptOK, Clean
  <2> QED BY <2>1, <2>2, OthersKept DEF ToSave, profileVars
<1> QED BY <1>1, <1>2, <1>3, StepKept, HandleKept DEF Next

-----------------------------------------------------------------------------
(* The theorems *)

LEMMA InitIndex == Init => IndexOK
<1> SUFFICES ASSUME Init PROVE IndexOK
  OBVIOUS
<1>1. /\ \A k \in Keys : stored[k] = NoProfile
      /\ \A c \in Callers : phase[c] = "idle"
      /\ byAddress = NoKey /\ byGlobal[GlobalOf(own)] = NoKey /\ own # NoKey
  BY InitCalls, OwnIsKey DEF Init, NoCalls, Calls
<1> QED BY <1>1 DEF IndexOK, Saving

\* The variables of the aggregator, its cache and its calls keep their types
\* through HandleBlockPin, the requests and Crash, for any fields, modes and
\* identities.
THEOREM TypeCorrect == Spec => []TypeOK
<1>1. Calls => TypeOK
  BY DEF Calls
<1> QED BY <1>1, InitCalls, NextCalls, PTL DEF Spec

\* findProfileByAddress and findProfileByGlobalMetaId find the record that
\* HandleBlockPin updates, although SaveProfile, SaveGlobalIndex and
\* SaveAddressIndex are separate writes and a completion leaves copies under
\* aliases, as long as no profile with another identity has been saved.
THEOREM StoredIsFoundHolds == Spec => []StoredIsFound
<1>1. Calls /\ IndexOK => StoredIsFound
  <2> SUFFICES ASSUME Calls, IndexOK, "foreign" \notin causes
               PROVE  /\ FindProfileByAddress = {stored[own]}
                      /\ FindProfileByGlobalMetaId(GlobalOf(own)) = {stored[own]}
    BY DEF StoredIsFound
  <2>1. own \in Keys /\ NoKey \notin Keys
    BY OwnIsKey, UserInfoAssumption DEF Calls
  <2>2. WithGlobalMetaId(GlobalOf(own)) = WithAddress
    BY DEF WithGlobalMetaId, WithAddress, IndexOK, HasIdentity
  <2>3. CASE stored[own] = NoProfile
    <3>1. WithAddress = {}
      BY <2>3 DEF WithAddress, IndexOK, Indexed
    <3> QED BY <2>2, <2>3, <3>1 DEF FindProfileByAddress, FindProfileByGlobalMetaId, FindProfile
  <2>4. CASE stored[own] # NoProfile
    <3>1. own \in WithAddress
      BY <2>1, <2>4 DEF WithAddress
    <3>2. NoKey \notin WithAddress
      BY <2>1 DEF WithAddress
    <3>3. CASE Indexed
      BY <2>2, <3>1, <3>3 DEF Indexed, FindProfileByAddress, FindProfileByGlobalMetaId, FindProfile
    <3>4. CASE ~Indexed
      <4>1. WithAddress = {own}
        BY <3>1, <3>4 DEF WithAddress, IndexOK
      <4>2. {stored[k] : k \in {own}} = {stored[own]}
        OBVIOUS
      <4>3. \A e \in {NoKey, own} : FindProfile(e, WithAddress) = {stored[own]}
        BY <3>2, <4>1, <4>2 DEF FindProfile
      <4>4. byAddress \in {NoKey, own} /\ byGlobal[GlobalOf(own)] \in {NoKey, own}
        BY DEF IndexOK
      <4> QED BY <2>2, <4>3, <4>4 DEF FindProfileByAddress, FindProfileByGlobalMetaId
    <3> QED BY <3>3, <3>4
  <2> QED BY <2>3, <2>4
<1> QED BY <1>1, InitCalls, NextCalls, InitIndex, NextIndex, PTL DEF Spec

\* Between calls, an entry of the LRU or of cache_userinfo is the stored profile
\* unless the last save of its key overlapped another call or a crash, had no open
\* namespace to delete from, or was a pin's under another metaid (SaveProfile,
\* PurgeL1, DeleteL2).
THEOREM StaleIsExplainedHolds == Spec => []StaleIsExplained
<1>1. StaleOK => StaleIsExplained
  <2> SUFFICES ASSUME StaleOK, NoCall, NEW k \in Keys \ excused
               PROVE  {l1[k], l2[k]} \subseteq {NoProfile, stored[k]}
    BY DEF StaleIsExplained
  <2>1. ~\E c \in Callers : Pending(c, k)
    BY DEF NoCall, Busy, Pending, Saving
  <2> QED BY <2>1 DEF StaleOK, Explained, Fresh
<1> QED BY <1>1, InitCalls, NextCalls, InitStale, NextStale, PTL DEF Spec

\* When the chain is routed, the record of the pins has the last name, key and
\* role of the chain (HandleBlockPin), whatever requests have merged from the
\* remote service, unless a save has replaced the record by a profile that was
\* not made from it, or has put one with another metaid in its place.
THEOREM PinsAreKeptHolds == Spec => []PinsAreKept
<1>1. Calls /\ KeptOK => PinsAreKept
  <2> SUFFICES ASSUME Calls, KeptOK, NoCall, AllRouted, Clean, NEW f \in KeptFields,
                      LastPin(f, Len(chain)) # NoPin
               PROVE  stored[own] # NoProfile /\ stored[own].value[f] = LastPin(f, Len(chain))
    BY DEF PinsAreKept, Clean
  <2>1. "scan" \in writers
    BY UserInfoAssumption DEF Calls, TypeOK, FeedTypeOK
  <2>2. pos = Len(chain) /\ mined = Len(chain) /\ Len(chain) \in Nat
    BY <2>1, ChainPins DEF AllRouted, Calls, TypeOK
  <2>3. Written = Len(chain)
    BY <2>2, ScanCalls DEF Written, NoCall, Busy
  <2>4. PICK j \in 1..Len(chain) :
            /\ Field[chain[j]] = f /\ LastPin(f, Len(chain)) = chain[j]
            /\ \A i \in 1..Len(chain) : Field[chain[i]] = f => i <= j
    BY <2>2, LastPinIsLast DEF Calls, TypeOK
  <2>5. stored[own] # NoProfile /\ \E i \in j..Len(chain) : Field[chain[i]] = f /\ stored[own].value[f] = chain[i]
    BY <2>2, <2>3, <2>4 DEF KeptOK, Kept
  <2>6. PICK i \in j..Len(chain) : Field[chain[i]] = f /\ stored[own].value[f] = chain[i]
    BY <2>5
  <2>7. i = j
    BY <2>2, <2>4, <2>6
  <2> QED BY <2>4, <2>5, <2>6, <2>7
<1> QED BY <1>1, InitCalls, NextCalls, InitKept, NextKept, PTL DEF Spec
=============================================================================
