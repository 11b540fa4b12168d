---------------------------- MODULE ChatLogProofs ----------------------------
(***************************************************************************)
(* Proofs about ChatLog and ChatHomes for any chains, messages, rooms,     *)
(* times, page size and capacity: the three ways of paging through a room  *)
(* miss no message, what is pushed can be read, a message is listed once,  *)
(* and the lists of conversations show the newest message.                 *)
(*                                                                         *)
(* The first part is about finite sets of keys: least and greatest         *)
(* elements, and the rank of a key, the number of newer ones, by which the *)
(* server counts pages.  The inductive invariant then says of each kind of *)
(* client where the messages are that it has not seen yet.                 *)
(***************************************************************************)
EXTENDS ChatHomes, FiniteSetTheorems, TLAPS

-----------------------------------------------------------------------------
(* Least and greatest elements *)

\* A set of natural numbers that is not empty has a least element.
LEMMA LeastExists ==
    ASSUME NEW T, T \subseteq Nat, T # {}
    PROVE  \E x \in T : \A y \in T : x <= y
<1> DEFINE R == OpToRel(<, Nat)
<1>1. IsWellFoundedOn(R, Nat)
  BY NatLessThanWellFounded
<1>2. \A x, y \in Nat : x < y => <<x, y>> \in R
  BY DEF OpToRel
<1>3. SUFFICES ASSUME NEW Q, IsWellFoundedOn(Q, Nat), \A x, y \in Nat : x < y => <<x, y>> \in Q
               PROVE  \E x \in T : \A y \in T : x <= y
  <2> HIDE DEF R
  <2> QED BY <1>1, <1>2
<1>4. \E x \in T : \A y \in T : ~(<<y, x>> \in Q)
  <2>1. IsWellFoundedOn(Q, Nat)
    BY <1>3
  <2> QED BY ONLY <2>1, WFMin, T \subseteq Nat, T # {}
<1>5. PICK x \in T : \A y \in T : ~(<<y, x>> \in Q)
  BY ONLY <1>4
<1>6. ASSUME NEW y \in T PROVE x <= y
  <2>1. x \in Nat /\ y \in Nat
    OBVIOUS
  <2>2. ~(y < x)
    BY ONLY <1>3, <1>5, <2>1, <1>6
  <2> QED BY ONLY <2>1, <2>2
<1> QED BY ONLY <1>6

\* Min and Max of FiniteSetsExt are what their names say.
LEMMA MinIsLeast ==
    ASSUME NEW T, T \subseteq Nat, T # {}
    PROVE  Min(T) \in T /\ \A y \in T : Min(T) <= y
  BY LeastExists DEF Min

\* A finite set of natural numbers has an upper bound: a smallest one without
\* would have a bounded subset with one element less.
LEMMA BoundExists ==
    ASSUME NEW T, T \subseteq Nat, IsFiniteSet(T)
    PROVE  \E b \in Nat : \A y \in T : y <= b
<1> DEFINE Bounded(S) == \E b \in Nat : \A y \in S : y <= b
           Bad == {n \in Nat : \E S \in SUBSET Nat :
                                   IsFiniteSet(S) /\ Cardinality(S) = n /\ ~Bounded(S)}
<1>1. SUFFICES ASSUME ~Bounded(T) PROVE FALSE
  OBVIOUS
<1>2. Cardinality(T) \in Bad
  BY <1>1, FS_CardinalityType
<1>3. PICK n \in Bad : \A m \in Bad : n <= m
  <2>1. Bad \subseteq Nat /\ Bad # {}
    BY <1>2
  <2> HIDE DEF Bad
  <2> QED BY <2>1, LeastExists
<1>4. PICK S \in SUBSET Nat : IsFiniteSet(S) /\ Cardinality(S) = n /\ ~Bounded(S)
  BY <1>3
<1>5. S # {}
  BY <1>4
<1>6. PICK x \in S : TRUE
  BY <1>5
<1>7. IsFiniteSet(S \ {x}) /\ Cardinality(S \ {x}) = n - 1
  BY <1>4, FS_RemoveElement
<1>8. n \in Nat /\ n - 1 \in Nat
  BY <1>3, <1>7, FS_CardinalityType
<1>9. Bounded(S \ {x})
  <2>1. n - 1 \notin Bad
    BY <1>3, <1>8
  <2>2. S \ {x} \in SUBSET Nat
    OBVIOUS
  <2> QED BY <1>7, <1>8, <2>1, <2>2
<1>10. PICK b \in Nat : \A y \in S \ {x} : y <= b
  BY <1>9
<1>11. \A y \in S : y <= (IF x <= b THEN b ELSE x)
  BY <1>10
<1>12. Bounded(S)
  BY <1>11
<1> QED BY <1>4, <1>12

LEMMA MaxIsGreatest ==
    ASSUME NEW T, T \subseteq Nat, T # {}, IsFiniteSet(T)
    PROVE  Max(T) \in T /\ \A y \in T : Max(T) >= y
<1> DEFINE U == {b \in Nat : \A y \in T : y <= b}
<1>1. U \subseteq Nat /\ U # {}
  BY BoundExists
<1>2. PICK b \in U : \A c \in U : b <= c
  <2> HIDE DEF U
  <2> QED BY <1>1, LeastExists
<1>3. b \in T
  <2>1. CASE b \notin T
    <3>1. PICK x \in T : TRUE
      OBVIOUS
    <3>2. \A y \in T : y <= b - 1 /\ y < b
      BY <1>2, <2>1
    <3>3. b - 1 \in Nat
      BY <3>1, <3>2
    <3>4. b - 1 \in U
      BY <3>2, <3>3
    <3> QED BY <1>2, <3>4
  <2> QED BY <2>1
<1>4. \E x \in T : \A y \in T : x >= y
  BY <1>2, <1>3
<1> QED BY <1>4 DEF Max

-----------------------------------------------------------------------------
(* The rank of a key *)

Pairs == Nat \X Nat

\* The number of newer keys.
Rank(K, k) == Cardinality({l \in K : Before(k, l)})

LEMMA BeforeOrder ==
    ASSUME NEW k \in Pairs, NEW l \in Pairs, NEW m \in Pairs
    PROVE  /\ ~Before(k, k)
           /\ Before(k, l) /\ Before(l, m) => Before(k, m)
           /\ k # l => Before(k, l) \/ Before(l, k)
<1>1. /\ k = <<k[1], k[2]>> /\ l = <<l[1], l[2]>>
      /\ k[1] \in Nat /\ k[2] \in Nat /\ l[1] \in Nat /\ l[2] \in Nat /\ m[1] \in Nat /\ m[2] \in Nat
  BY DEF Pairs
<1> QED BY <1>1 DEF Before

LEMMA RankType ==
    ASSUME NEW K \in SUBSET Pairs, IsFiniteSet(K), NEW k \in Pairs
    PROVE  Rank(K, k) \in Nat
<1>1. IsFiniteSet({l \in K : Before(k, l)})
  BY FS_Subset
<1> QED BY <1>1, FS_CardinalityType DEF Rank

\* A newer key has a smaller rank.
LEMMA RankStrict ==
    ASSUME NEW K \in SUBSET Pairs, IsFiniteSet(K), NEW k \in Pairs, NEW m \in K, Before(k, m)
    PROVE  Rank(K, m) < Rank(K, k)
<1> DEFINE A == {l \in K : Before(m, l)}
           B == {l \in K : Before(k, l)}
<1>1. A \subseteq B /\ m \in B /\ m \notin A
  BY BeforeOrder
<1>2. IsFiniteSet(B) /\ IsFiniteSet(A)
  BY FS_Subset
<1> HIDE DEF A, B
<1>3. Cardinality(A) <= Cardinality(B) /\ Cardinality(A) # Cardinality(B)
  BY <1>1, <1>2, FS_Subset
<1>4. Cardinality(A) \in Nat /\ Cardinality(B) \in Nat
  BY <1>2, FS_CardinalityType
<1> QED BY <1>3, <1>4 DEF Rank, A, B

\* More keys can only raise the rank.
LEMMA RankGrows ==
    ASSUME NEW L \in SUBSET Pairs, IsFiniteSet(L), NEW K \in SUBSET L, NEW k \in Pairs
    PROVE  Rank(K, k) <= Rank(L, k)
<1>1. {l \in K : Before(k, l)} \subseteq {l \in L : Before(k, l)}
  OBVIOUS
<1>2. IsFiniteSet({l \in L : Before(k, l)})
  BY FS_Subset
<1> QED BY <1>1, <1>2, FS_Subset DEF Rank

\* The ranks of n keys are the numbers below n, each once.
LEMMA RankBijection ==
    ASSUME NEW K \in SUBSET Pairs, IsFiniteSet(K)
    PROVE  /\ \A k, m \in K : Rank(K, k) = Rank(K, m) => k = m
           /\ \A k \in K : Rank(K, k) \in 0..(Cardinality(K) - 1)
           /\ \A i \in 0..(Cardinality(K) - 1) : \E k \in K : Rank(K, k) = i
<1> DEFINE n == Cardinality(K)
           f == [k \in K |-> Rank(K, k)]
<1>0. n \in Nat
  BY FS_CardinalityType
<1>1. \A k, m \in K : Rank(K, k) = Rank(K, m) => k = m
  <2> SUFFICES ASSUME NEW k \in K, NEW m \in K, k # m PROVE Rank(K, k) # Rank(K, m)
    OBVIOUS
  <2>1. Before(k, m) \/ Before(m, k)
    BY BeforeOrder
  <2>2. Rank(K, m) \in Nat /\ Rank(K, k) \in Nat
    BY RankType
  <2>3. Rank(K, m) < Rank(K, k) \/ Rank(K, k) < Rank(K, m)
    BY <2>1, RankStrict
  <2> QED BY <2>2, <2>3
<1>2. \A k \in K : Rank(K, k) \in 0..(n - 1)
  <2> SUFFICES ASSUME NEW k \in K PROVE Rank(K, k) \in 0..(n - 1)
    OBVIOUS
  <2> DEFINE A == {l \in K : Before(k, l)}
  <2>1. A \in SUBSET K /\ A # K
    BY BeforeOrder
  <2>2. IsFiniteSet(A)
    BY FS_Subset
  <2> HIDE DEF A
  <2>3. Cardinality(A) <= n /\ Cardinality(A) # n /\ Cardinality(A) \in Nat
    BY <2>1, <2>2, FS_Subset, FS_CardinalityType
  <2>4. Rank(K, k) = Cardinality(A)
    BY DEF Rank, A
  <2> HIDE DEF n
  <2> QED BY <1>0, <2>3, <2>4
<1> DEFINE I == 0..(n - 1)
<1>3. IsFiniteSet(I) /\ Cardinality(I) = n
  <2> HIDE DEF n
  <2>1. 0 \in Int /\ n - 1 \in Int /\ (0 > n - 1 => n = 0)
    BY <1>0
  <2>2. IsFiniteSet(I) /\ Cardinality(I) = IF 0 > n - 1 THEN 0 ELSE n - 1 - 0 + 1
    BY <2>1, FS_Interval
  <2> QED BY <1>0, <2>1, <2>2
<1>4. f \in Injection(K, I)
  BY <1>1, <1>2 DEF Injection, IsInjective
<1>5. f \in Surjection(K, I)
  <2> HIDE DEF f, I
  <2> QED BY <1>3, <1>4, FS_Injection
<1>6. \A i \in I : \E k \in K : Rank(K, k) = i
  BY <1>5 DEF Surjection
<1> QED BY <1>1, <1>2, <1>6

\* A page has at most PageSize keys, and fewer only if it is the last one.
LEMMA PageFull ==
    ASSUME NEW K \in SUBSET Pairs, IsFiniteSet(K), NEW n \in Nat
    PROVE  /\ Cardinality(NewestAfter(K, n)) \in Nat
           /\ Cardinality(NewestAfter(K, n)) <= PageSize
           /\ Cardinality(NewestAfter(K, n)) < PageSize =>
                  \A k \in K : Rank(K, k) < n + PageSize
<1> DEFINE P == NewestAfter(K, n)
           I == n..(n + PageSize - 1)
           f == [k \in P |-> Rank(K, k)]
<1>0. PageSize \in Nat /\ PageSize > 0
  BY ChatAssumption
<1>1. P = {k \in K : n <= Rank(K, k) /\ Rank(K, k) < n + PageSize}
  BY DEF NewestAfter, Rank
<1>2. IsFiniteSet(P) /\ Cardinality(P) \in Nat
  BY <1>1, FS_Subset, FS_CardinalityType
<1>3. IsFiniteSet(I) /\ Cardinality(I) = PageSize
  BY <1>0, FS_Interval
<1> HIDE DEF P
<1>4. f \in Injection(P, I)
  <2>1. \A k \in P : Rank(K, k) \in I
    BY <1>0, <1>1, RankType
  <2>2. \A k, m \in P : Rank(K, k) = Rank(K, m) => k = m
    BY <1>1, RankBijection
  <2> QED BY <2>1, <2>2 DEF Injection, IsInjective
<1>5. Cardinality(P) <= PageSize
  <2> HIDE DEF f, I
  <2> QED BY <1>3, <1>4, FS_Injection
<1>6. ASSUME NEW k \in K, ~(Rank(K, k) < n + PageSize) PROVE ~(Cardinality(P) < PageSize)
  <2>1. Rank(K, k) \in Nat /\ Cardinality(K) \in Nat /\ Rank(K, k) < Cardinality(K)
    BY RankType, RankBijection, FS_CardinalityType
  <2>2. \A i \in I : i \in 0..(Cardinality(K) - 1)
    BY <1>0, <1>6, <2>1
  <2>3. \A i \in I : \E l \in P : f[l] = i
    <3> SUFFICES ASSUME NEW i \in I PROVE \E l \in P : f[l] = i
      OBVIOUS
    <3>1. PICK l \in K : Rank(K, l) = i
      BY <2>2, RankBijection
    <3>2. n <= i /\ i < n + PageSize
      BY <1>0
    <3>3. l \in P
      BY <1>1, <3>1, <3>2
    <3> QED BY <3>1, <3>3
  <2>4. f \in Surjection(P, I)
    BY <1>4, <2>3 DEF Injection, Surjection
  <2>5. Cardinality(P) = PageSize
    <3> HIDE DEF f, I
    <3> QED BY <1>3, <1>4, <2>4, FS_Injection
  <2> QED BY <1>0, <2>5
<1> QED BY <1>2, <1>5, <1>6 DEF P

-----------------------------------------------------------------------------
(* The inductive invariant *)

OneWriter == \E w \in AllWriters : writers = {w}

\* Only a goroutine that runs has a source of pins, and only such a one calls;
\* the scan and the backfill call with the pin at their position.
OnlyWritersCall ==
    /\ queue # {} => "mempool" \in writers
    /\ "backfill" \notin writers => backfill = 0
    /\ \A w \in AllWriters : phase[w] # "idle" => w \in writers
    /\ phase["scan"] # "idle" => pos < mined
    /\ phase["backfill"] # "idle" => backfill > 0

\* A call carries a message, which is stored when its event is about to be sent.
CallsOK ==
    \A w \in AllWriters :
        /\ phase[w] # "idle" => msg[w].key \in Keys
        /\ phase[w] # "idle" /\ w # "mempool" => msg[w].key[1] = BlockTime[msg[w].key[2]]
        /\ phase[w] = "send" => msg[w].key \in DOMAIN log

\* The log is finite, and the scan stores a message under the time of its block.
LogOK ==
    /\ IsFiniteSet(DOMAIN log)
    /\ "mempool" \notin writers => \A k \in DOMAIN log : k[1] = BlockTime[k[2]]

\* A pushed message is stored.
EventsOK == \A i \in 1..Len(notifyCh) : \E k \in DOMAIN log : k[2] = notifyCh[i]

\* With one goroutine the listed messages have different indexes, a message about
\* to be stored has a larger one, and the client has not gone past the largest.
StoreOK(w) ==
    phase[w] = "store" =>
        \A l \in Messages(Room[msg[w].key[2]]) : log[l] < msg[w].index
IndexOK ==
    OneWriter =>
        /\ \A w \in AllWriters : StoreOK(w)
        /\ \A r \in Rooms : \A k, l \in Messages(r) : log[k] = log[l] => k = l
        /\ mode = "index" =>
             /\ at = 0 \/ \E k \in Messages(room) : at <= log[k] + 1
             /\ \A k \in Messages(room) : log[k] < at => k[2] \in got

\* Each message that the client of a cursor has to see is listed; it was in an
\* answer if its rank is below the cursor.
CursorOK ==
    mode = "cursor" /\ (kind = "group" \/ ~backdated) =>
        /\ state = "new" => at = 0
        /\ state = "reading" =>
             \A p \in must : \E k \in Messages(room) :
                 k[2] = p /\ (Rank(Messages(room), k) < at => p \in got)
        /\ state = "done" => must \subseteq got

\* Two keys of the room share a time.
Tie == \E k, l \in CollectGroupMessages(room) : k[1] = l[1] /\ k # l

\* Each message that the client of a timestamp has not yet seen and has to see has
\* a key with an earlier time.
TimeOK ==
    mode = "time" /\ ~Tie =>
        /\ state = "new" => at = 0
        /\ state = "reading" => at # 0
        /\ state = "reading" =>
             \A p \in must \ got : \E k \in DOMAIN log : k[2] = p /\ Room[p] = room /\ k[1] < at
        /\ state = "done" => must \subseteq got

Inv ==
    /\ TypeOK /\ OnlyWritersCall /\ CallsOK /\ LogOK /\ EventsOK
    /\ IndexOK /\ CursorOK /\ TimeOK

-----------------------------------------------------------------------------
(* The messages of a room *)

LEMMA KeysArePairs ==
    /\ Keys \subseteq Pairs
    /\ \A k \in Keys : k[1] \in Nat /\ k[2] \in Nat /\ k[1] # 0 /\ k[2] \in Pins
    /\ \A k, l \in Keys : k[1] = l[1] /\ k[2] = l[2] => k = l
<1> DEFINE T == Times \cup {BlockTime[p] : p \in Pins}
<1>1. T \subseteq Nat \ {0} /\ Pins \subseteq Nat
  BY ChatAssumption
<1>2. Keys = T \X Pins
  BY DEF Keys
<1> HIDE DEF T
<1>3. \A k \in Keys : k[1] \in T /\ k[2] \in Pins /\ k = <<k[1], k[2]>>
  BY <1>2
<1>4. Keys \subseteq Pairs
  BY <1>1, <1>2 DEF Pairs
<1>5. \A k \in Keys : k[1] \in Nat /\ k[2] \in Nat /\ k[1] # 0 /\ k[2] \in Pins
  BY <1>1, <1>3
<1>6. \A k, l \in Keys : k[1] = l[1] /\ k[2] = l[2] => k = l
  BY <1>3
<1> QED BY <1>4, <1>5, <1>6

LEMMA ListedType ==
    ASSUME TypeOK, LogOK, NEW r
    PROVE  /\ Messages(r) \subseteq DOMAIN log /\ IsFiniteSet(Messages(r))
           /\ Messages(r) \in SUBSET Pairs /\ Messages(r) \subseteq Keys
           /\ Messages(r) \subseteq CollectGroupMessages(r)
           /\ \A k \in Messages(r) : log[k] \in Nat /\ k[2] \in Pins /\ Room[k[2]] = r
<1>1. Messages(r) \subseteq DOMAIN log /\ \A k \in Messages(r) : Room[k[2]] = r
  BY DEF Messages, CollectGroupMessages, CollectPrivateMessages
<1>2. IsFiniteSet(Messages(r))
  BY <1>1, FS_Subset DEF LogOK
<1>3. DOMAIN log \subseteq Keys /\ \A k \in DOMAIN log : log[k] \in Nat
  BY DEF TypeOK
<1> QED BY <1>1, <1>2, <1>3, KeysArePairs DEF CollectGroupMessages

\* A stored message is listed, under the oldest of its keys or earlier.
LEMMA StoredIsListed ==
    ASSUME TypeOK, NEW k \in DOMAIN log
    PROVE  \E l \in Messages(Room[k[2]]) : l[2] = k[2] /\ l[1] <= k[1]
<1>0. DOMAIN log \subseteq Keys /\ k[1] \in Nat
  BY KeysArePairs DEF TypeOK
<1>1. CASE kind = "group"
  BY <1>0, <1>1 DEF Messages, CollectGroupMessages
<1>2. CASE kind # "group"
  <2> DEFINE T == {l[1] : l \in {m \in DOMAIN log : m[2] = k[2]}}
  <2>1. T \subseteq Nat /\ k[1] \in T
    BY <1>0, KeysArePairs
  <2>2. PICK t \in T : \A u \in T : t <= u
    <3> HIDE DEF T
    <3> QED BY <2>1, LeastExists
  <2>3. PICK l \in DOMAIN log : l[2] = k[2] /\ l[1] = t
    BY <2>2
  <2>4. \A m \in DOMAIN log : m[2] = l[2] => l[1] <= m[1]
    BY <2>2, <2>3
  <2>5. l \in Messages(Room[k[2]])
    BY <1>2, <2>3, <2>4 DEF Messages, CollectPrivateMessages
  <2> QED BY <2>3, <2>4, <2>5
<1> QED BY <1>1, <1>2

LEMMA ImageFinite ==
    ASSUME NEW K, IsFiniteSet(K), NEW f
    PROVE  IsFiniteSet({f[k] : k \in K})
<1> DEFINE g == [k \in K |-> f[k]]
           T == {f[k] : k \in K}
<1>1. g \in Surjection(K, T)
  BY DEF Surjection
<1> HIDE DEF g, T
<1>2. IsFiniteSet(T)
  BY <1>1, FS_Surjection
<1> QED BY <1>2 DEF T

\* nextChatIndex: larger than every index it has seen.
LEMMA IndexAfterBound ==
    ASSUME NEW K, IsFiniteSet(K), \A k \in K : log[k] \in Nat
    PROVE  IndexAfter(K) \in Nat /\ \A k \in K : log[k] < IndexAfter(K)
<1> DEFINE f == [k \in K |-> log[k] + 1]
           S == {f[k] : k \in K}
           T == S \cup {0}
<1>1. IsFiniteSet(S)
  <2> HIDE DEF f
  <2> QED BY ImageFinite
<1>2. IsFiniteSet(T) /\ T # {} /\ T \subseteq Nat
  <2>1. S \subseteq Nat
    OBVIOUS
  <2> HIDE DEF S
  <2> QED BY <1>1, <2>1, FS_AddElement
<1>3. {log[k] + 1 : k \in K} \cup {0} = T
  OBVIOUS
<1>4. \A k \in K : log[k] + 1 \in T
  OBVIOUS
<1> HIDE DEF T
<1>5. Max(T) \in T /\ \A y \in T : Max(T) >= y
  BY <1>2, MaxIsGreatest
<1>6. Max(T) \in Nat
  BY <1>2, <1>5
<1>7. \A k \in K : log[k] < Max(T)
  <2> SUFFICES ASSUME NEW k \in K PROVE log[k] < Max(T)
    OBVIOUS
  <2>1. Max(T) >= log[k] + 1
    BY <1>4, <1>5
  <2> QED BY <1>6, <2>1
<1> QED BY <1>3, <1>6, <1>7 DEF IndexAfter

\* What a write does to the lists: it lists at most the new key; it takes a key
\* off a list only by a copy with an earlier time, which is then listed.
LEMMA SaveEffect ==
    ASSUME TypeOK, CallsOK, LogOK, NEW w \in AllWriters, Save(w), NEW r
    PROVE  LET k == msg[w].key
           IN  /\ k \in Keys /\ DOMAIN log' = DOMAIN log \cup {k}
               /\ log'[k] = msg[w].index
               /\ \A l \in DOMAIN log : l # k => log'[l] = log[l]
               /\ Messages(r)' \subseteq Messages(r) \cup {k}
               /\ kind = "group" \/ ~backdated' => Messages(r) \subseteq Messages(r)'
               /\ \A m \in Messages(r) : m \notin Messages(r)' => k \in Messages(r)'
<1> DEFINE k == msg[w].key
<1>1. k \in Keys
  BY DEF CallsOK, Save
<1>2. /\ log' = [l \in DOMAIN log \cup {k} |-> IF l = k THEN msg[w].index ELSE log[l]]
      /\ backdated' = (backdated \/ \E l \in DOMAIN log : l[2] = k[2] /\ k[1] < l[1])
      /\ kind' = kind
  BY DEF Save, setting
<1> HIDE DEF k
<1>3. /\ DOMAIN log' = DOMAIN log \cup {k} /\ log'[k] = msg[w].index
      /\ \A l \in DOMAIN log : l # k => log'[l] = log[l]
  BY <1>2
<1>4. \A l \in DOMAIN log \cup {k} : l[1] \in Nat
  BY <1>1, KeysArePairs DEF TypeOK
<1>5. Messages(r)' \subseteq Messages(r) \cup {k}
  BY <1>2, <1>3 DEF Messages, CollectGroupMessages, CollectPrivateMessages
<1>6. ASSUME kind = "group" PROVE Messages(r) \subseteq Messages(r)'
  BY <1>2, <1>3, <1>6 DEF Messages, CollectGroupMessages
<1>7. ASSUME kind # "group", NEW m \in Messages(r), m \notin Messages(r)'
      PROVE  k[2] = m[2] /\ k[1] < m[1] /\ k \in Messages(r)'
  <2>1. m \in DOMAIN log /\ Room[m[2]] = r /\ \A l \in DOMAIN log : l[2] = m[2] => m[1] <= l[1]
    BY <1>7 DEF Messages, CollectPrivateMessages
  <2>2. k[2] = m[2] /\ ~(m[1] <= k[1])
    BY <1>2, <1>3, <1>7, <2>1 DEF Messages, CollectPrivateMessages
  <2>3. k[1] < m[1]
    BY <1>4, <2>1, <2>2
  <2>4. \A l \in DOMAIN log : l[2] = k[2] => k[1] <= l[1]
    BY <1>4, <2>1, <2>2, <2>3
  <2>5. k[1] <= k[1]
    BY <1>4
  <2> QED BY <1>2, <1>3, <1>7, <2>1, <2>2, <2>3, <2>4, <2>5 DEF Messages, CollectPrivateMessages
<1>8. ASSUME ~backdated' PROVE Messages(r) \subseteq Messages(r)'
  BY <1>2, <1>6, <1>7, <1>8 DEF Messages, CollectPrivateMessages
<1> QED BY <1>1, <1>3, <1>5, <1>6, <1>7, <1>8 DEF k

-----------------------------------------------------------------------------
(* The feed *)

LEMMA FeedSteps ==
    ASSUME FeedTypeOK, NEW w \in AllWriters, NEW p \in Pins,
           w = "scan" => pos < mined, w = "backfill" => backfill > 0,
           Take(w, p) \/ Pass(w, p) \/ Done(w)
    PROVE  /\ FeedTypeOK' /\ writers' = writers /\ mined' = mined /\ queue' \subseteq queue
           /\ w # "scan" => pos' = pos
           /\ w # "backfill" => backfill' = backfill
           /\ Take(w, p) => pos' = pos /\ backfill' = backfill
<1>1. Len(chain) \in Nat
  BY FeedAssumption DEF FeedTypeOK
<1> QED BY <1>1 DEF FeedTypeOK, Take, Pass, Done, Advance, setup

-----------------------------------------------------------------------------
(* The invariant *)

\* The number of polls of a pin keeps its bound.
LEMMA PollCounts ==
    /\ [p \in Pins |-> 0] \in [Pins -> 0..MaxPolls]
    /\ \A f \in [Pins -> 0..MaxPolls], p \in Pins :
          f[p] < MaxPolls => [f EXCEPT ![p] = @ + 1] \in [Pins -> 0..MaxPolls]
<1>1. 0 \in 0..MaxPolls /\ \A n \in 0..MaxPolls : n < MaxPolls => n + 1 \in 0..MaxPolls
  BY FeedAssumption
<1> QED BY <1>1

LEMMA InitInv == Init => Inv
<1> SUFFICES ASSUME Init PROVE Inv
  OBVIOUS
<1>1. FeedTypeOK
  <2>1. Len(chain) \in Nat
    BY FeedAssumption DEF Init, FeedInit
  <2>2. mined \in 0..Len(chain) /\ pos \in 0..mined /\ backfill \in 0..mined
    BY <2>1 DEF Init, FeedInit
  <2>3. crashes \in 0..MaxCrashes
    BY FeedAssumption DEF Init, FeedInit
  <2> QED BY <2>2, <2>3, PollCounts DEF Init, FeedInit, FeedTypeOK
<1>2. DOMAIN log = {} /\ DOMAIN channels = {} /\ Len(notifyCh) = 0
  BY DEF Init
<1>3. NoMsg \in [key : Keys \cup {<<0, 0>>}, index : Nat]
  BY DEF NoMsg
<1>4. TypeOK
  <2>1. notifyCh \in Seq(Pins) /\ Len(notifyCh) <= NotifyCap
    BY <1>2, ChatAssumption DEF Init
  <2> QED BY <1>1, <1>2, <1>3, <2>1 DEF Init, TypeOK
<1>5. OnlyWritersCall /\ CallsOK
  BY DEF Init, FeedInit, OnlyWritersCall, CallsOK, AllWriters
<1>6. LogOK /\ EventsOK
  BY <1>2, FS_EmptySet DEF LogOK, EventsOK
<1>7. \A r : Messages(r) = {}
  BY <1>2 DEF Messages, CollectGroupMessages, CollectPrivateMessages
<1>8. IndexOK
  BY <1>7 DEF Init, IndexOK, StoreOK
<1>9. CursorOK /\ TimeOK
  BY DEF Init, CursorOK, TimeOK
<1> QED BY <1>4, <1>5, <1>6, <1>8, <1>9 DEF Inv

\* A step that writes no message and answers no request.
LEMMA ElsewhereInv ==
    ASSUME Inv, UNCHANGED <<log, setting, clientVars, backdated, writers>>,
           TypeOK', OnlyWritersCall', CallsOK', EventsOK',
           OneWriter => \A w \in AllWriters : StoreOK(w)'
    PROVE  Inv'
<1>1. \A r : Messages(r)' = Messages(r)
  BY DEF setting, Messages, CollectGroupMessages, CollectPrivateMessages
<1>2. LogOK'
  BY DEF Inv, LogOK
<1>3. IndexOK'
  BY <1>1 DEF Inv, IndexOK, OneWriter, setting, clientVars
<1>4. CursorOK'
  BY <1>1 DEF Inv, CursorOK, Rank, setting, clientVars
<1>5. TimeOK'
  BY DEF Inv, TimeOK, Tie, CollectGroupMessages, setting, clientVars
<1> QED BY <1>2, <1>3, <1>4, <1>5 DEF Inv

\* With one goroutine, the others have no call.
LEMMA OthersIdle ==
    ASSUME Inv, OneWriter, NEW w \in AllWriters, w \in writers, NEW v \in AllWriters, v # w
    PROVE  phase[v] = "idle"
  BY DEF Inv, OnlyWritersCall, OneWriter

\* A handler has read the room.
LEMMA BeginInv ==
    ASSUME Inv, NEW w \in AllWriters, NEW p \in Pins, Offered(w, p), NEW index,
           index = IndexAfter(Messages(Room[p])), Begin(w, p, index),
           UNCHANGED <<setting, log, channels, notifyCh, clientVars, backdated>>
    PROVE  Inv'
<1>1. w \in writers /\ (w = "scan" => pos < mined) /\ (w = "backfill" => backfill > 0)
  BY DEF Offered, ScanOffers, MempoolOffers, BackfillOffers, Inv, OnlyWritersCall, TypeOK, FeedTypeOK
<1>2. PICK t \in PinTimes(w, p) : msg' = [msg EXCEPT ![w] = [key |-> <<t, p>>, index |-> index]]
  BY DEF Begin
<1>3. phase[w] = "idle" /\ phase' = [phase EXCEPT ![w] = "store"] /\ Take(w, p)
  BY DEF Begin
<1>4. /\ FeedTypeOK' /\ writers' = writers /\ mined' = mined /\ queue' \subseteq queue
      /\ pos' = pos /\ backfill' = backfill
  BY <1>1, <1>3, FeedSteps DEF Inv, TypeOK
<1>5. <<t, p>> \in Keys /\ (w # "mempool" => t = BlockTime[p])
  BY DEF PinTimes, Keys
<1>6. index \in Nat /\ \A l \in Messages(Room[p]) : log[l] < index
  BY ListedType, IndexAfterBound DEF Inv
<1>7. msg' \in [AllWriters -> [key : Keys \cup {<<0, 0>>}, index : Nat]]
  BY <1>2, <1>5, <1>6 DEF Inv, TypeOK
<1>8. TypeOK'
  BY <1>3, <1>4, <1>7 DEF Inv, TypeOK, setting, clientVars
<1>9. OnlyWritersCall'
  BY <1>1, <1>3, <1>4 DEF Inv, TypeOK, OnlyWritersCall
<1>10. msg'[w] = [key |-> <<t, p>>, index |-> index] /\ phase'[w] = "store"
       /\ \A v \in AllWriters : v # w => msg'[v] = msg[v] /\ phase'[v] = phase[v]
  BY <1>2, <1>3 DEF Inv, TypeOK
<1>11. CallsOK'
  <2> SUFFICES ASSUME NEW v \in AllWriters
               PROVE  /\ phase'[v] # "idle" => msg'[v].key \in Keys
                      /\ phase'[v] # "idle" /\ v # "mempool" => msg'[v].key[1] = BlockTime[msg'[v].key[2]]
                      /\ phase'[v] = "send" => msg'[v].key \in DOMAIN log
    BY DEF CallsOK
  <2>1. CASE v = w
    <3>1. msg'[v].key = <<t, p>>
      BY <1>10, <2>1
    <3> QED BY <1>5, <1>10, <2>1, <3>1
  <2>2. CASE v # w
    BY <1>10, <2>2 DEF Inv, CallsOK
  <2> QED BY <2>1, <2>2
<1>12. EventsOK'
  BY DEF Inv, EventsOK
<1>13. ASSUME OneWriter, NEW v \in AllWriters PROVE StoreOK(v)'
  <2>1. CASE v = w
    <3>1. Messages(Room[p])' = Messages(Room[p])
      BY DEF setting, Messages, CollectGroupMessages, CollectPrivateMessages
    <3>2. msg'[v].key[2] = p /\ msg'[v].index = index
      BY <1>10, <2>1
    <3> QED BY <1>6, <3>1, <3>2 DEF StoreOK
  <2>2. CASE v # w
    BY <1>1, <1>10, <1>13, <2>2, OthersIdle DEF StoreOK
  <2> QED BY <2>1, <2>2
<1> QED BY <1>4, <1>8, <1>9, <1>11, <1>12, <1>13, ElsewhereInv

LEMMA DispatchInv ==
    ASSUME Inv, NEW w \in AllWriters, NEW p \in Pins, DispatchPin(w, p)
    PROVE  Inv'
<1>0. Offered(w, p) /\ UNCHANGED <<setting, log, notifyCh, clientVars, backdated>>
  BY DEF DispatchPin
<1>1. CASE HandleGroupChat(w, p) /\ UNCHANGED channels
  <2>1. NextChatIndex(p) = IndexAfter(Messages(Room[p]))
    BY <1>1 DEF HandleGroupChat, NextChatIndex, Messages
  <2> QED BY <1>0, <1>1, <2>1, BeginInv DEF HandleGroupChat
<1>2. CASE HandlePrivateChat(w, p) /\ UNCHANGED channels
  <2>1. NextPrivateMessageIndex(p) = IndexAfter(Messages(Room[p]))
    BY <1>2 DEF HandlePrivateChat, NextPrivateMessageIndex, Messages
  <2> QED BY <1>0, <1>2, <2>1, BeginInv DEF HandlePrivateChat
<1>3. CASE HandleGroupChannel(w, p) \/ Ignored(w, p)
  <2>1. w \in writers /\ (w = "scan" => pos < mined) /\ (w = "backfill" => backfill > 0)
    BY <1>0 DEF Offered, ScanOffers, MempoolOffers, BackfillOffers, Inv, OnlyWritersCall, TypeOK,
                FeedTypeOK
  <2>2. phase[w] = "idle" /\ Pass(w, p) /\ UNCHANGED callVars
    BY <1>3 DEF HandleGroupChannel, Ignored
  <2>3. /\ FeedTypeOK' /\ writers' = writers /\ mined' = mined /\ queue' \subseteq queue
        /\ (w # "scan" => pos' = pos) /\ (w # "backfill" => backfill' = backfill)
    BY <2>1, <2>2, FeedSteps DEF Inv, TypeOK
  <2>4. DOMAIN channels' \subseteq Rooms /\ \A r \in DOMAIN channels' : channels'[r] \in Nat
    <3>1. CASE UNCHANGED channels
      BY <3>1 DEF Inv, TypeOK
    <3>2. CASE HandleGroupChannel(w, p)
      <4>1. PICK t \in PinTimes(w, p) :
                channels' = [r \in DOMAIN channels \cup {Room[p]} |-> IF r = Room[p] THEN t ELSE channels[r]]
        BY <3>2 DEF HandleGroupChannel
      <4>2. t \in Nat /\ Room[p] \in Rooms
        BY ChatAssumption DEF PinTimes, Rooms
      <4> QED BY <4>1, <4>2 DEF Inv, TypeOK
    <3> QED BY <1>3, <3>1, <3>2 DEF Ignored
  <2>5. TypeOK'
    BY <1>0, <2>2, <2>3, <2>4 DEF Inv, TypeOK, setting, clientVars, callVars
  <2>6. OnlyWritersCall'
    BY <2>1, <2>2, <2>3 DEF Inv, OnlyWritersCall, callVars
  <2>7. CallsOK' /\ EventsOK'
    BY <1>0, <2>2 DEF Inv, CallsOK, EventsOK, callVars
  <2>8. \A r : Messages(r)' = Messages(r)
    BY <1>0 DEF setting, Messages, CollectGroupMessages, CollectPrivateMessages
  <2>9. OneWriter => \A v \in AllWriters : StoreOK(v)'
    BY <1>0, <2>2, <2>8 DEF Inv, IndexOK, StoreOK, callVars
  <2> QED BY <1>0, <2>3, <2>5, <2>6, <2>7, <2>9, ElsewhereInv
<1> QED BY <1>1, <1>2, <1>3 DEF DispatchPin

\* The write of SaveChatMessage, SavePrivateMessage.
LEMMA SaveInv ==
    ASSUME Inv, NEW w \in AllWriters, Save(w)
    PROVE  Inv'
<1> DEFINE k == msg[w].key
           i == msg[w].index
<1>1. /\ phase[w] = "store" /\ phase' = [phase EXCEPT ![w] = "send"]
      /\ backdated' = (backdated \/ \E l \in DOMAIN log : l[2] = k[2] /\ k[1] < l[1])
      /\ UNCHANGED <<feedVars, setting, channels, msg, notifyCh, clientVars>>
  BY DEF Save
<1>2. i \in Nat /\ k \in Keys /\ w \in writers /\ (w # "mempool" => k[1] = BlockTime[k[2]])
  BY <1>1 DEF Inv, TypeOK, CallsOK, OnlyWritersCall
<1>3. /\ DOMAIN log' = DOMAIN log \cup {k} /\ log'[k] = i
      /\ \A l \in DOMAIN log : l # k => log'[l] = log[l]
  BY SaveEffect DEF Inv
<1>4. ASSUME NEW r
      PROVE  /\ Messages(r)' \subseteq Messages(r) \cup {k}
             /\ kind = "group" \/ ~backdated' => Messages(r) \subseteq Messages(r)'
             /\ \A m \in Messages(r) : m \notin Messages(r)' => k \in Messages(r)'
             /\ \A m \in Messages(r)' : Room[m[2]] = r
  <2>1. \A m \in Messages(r)' : Room[m[2]] = r
    BY DEF Messages, CollectGroupMessages, CollectPrivateMessages
  <2> QED BY <2>1, SaveEffect DEF Inv
<1>15. /\ Messages(room)' \subseteq Messages(room) \cup {k}
       /\ kind = "group" \/ ~backdated' => Messages(room) \subseteq Messages(room)'
       /\ \A m \in Messages(room) : m \notin Messages(room)' => k \in Messages(room)'
       /\ \A m \in Messages(room)' : Room[m[2]] = room
  <2> HIDE DEF k
  <2>1. PICK r : r = room
    OBVIOUS
  <2>2. Messages(room)' = Messages(r)'
    BY <1>1, <2>1 DEF setting, Messages, CollectGroupMessages, CollectPrivateMessages
  <2> QED BY <1>4, <2>1, <2>2
<1> HIDE DEF k, i
<1>5. \A l \in DOMAIN log : log[l] \in Nat
  BY DEF Inv, TypeOK
<1>6. TypeOK'
  <2>1. DOMAIN log' \subseteq Keys /\ \A l \in DOMAIN log' : log'[l] \in Nat
    BY <1>2, <1>3, <1>5 DEF Inv, TypeOK
  <2>2. FeedTypeOK'
    BY <1>1 DEF Inv, TypeOK, FeedTypeOK, feedVars
  <2>3. backdated' \in BOOLEAN
    BY <1>1 DEF Inv, TypeOK
  <2>4. phase' \in [AllWriters -> {"idle", "store", "send"}]
    BY <1>1 DEF Inv, TypeOK
  <2> QED BY <1>1, <2>1, <2>2, <2>3, <2>4 DEF Inv, TypeOK, setting, clientVars
<1>7. \A v \in AllWriters : phase'[v] = IF v = w THEN "send" ELSE phase[v]
  BY <1>1 DEF Inv, TypeOK
<1>8. OnlyWritersCall'
  <2>1. UNCHANGED <<writers, queue, backfill, pos, mined>>
    BY <1>1 DEF feedVars
  <2>2. \A v \in AllWriters : phase'[v] # "idle" => phase[v] # "idle"
    BY <1>1, <1>7
  <2> QED BY <2>1, <2>2 DEF Inv, OnlyWritersCall, AllWriters
<1>9. CallsOK'
  <2> SUFFICES ASSUME NEW v \in AllWriters
               PROVE  /\ phase'[v] # "idle" => msg[v].key \in Keys
                      /\ phase'[v] # "idle" /\ v # "mempool" =>
                             msg[v].key[1] = BlockTime[msg[v].key[2]]
                      /\ phase'[v] = "send" => msg[v].key \in DOMAIN log'
    BY <1>1 DEF CallsOK
  <2>1. CASE v = w
    BY <1>2, <1>3, <2>1 DEF k
  <2>2. CASE v # w
    BY <1>3, <1>7, <2>2 DEF Inv, CallsOK
  <2> QED BY <2>1, <2>2
<1>10. LogOK'
  <2>1. IsFiniteSet(DOMAIN log')
    BY <1>3, FS_AddElement DEF Inv, LogOK
  <2>2. writers' = writers
    BY <1>1 DEF feedVars
  <2>3. "mempool" \notin writers => \A l \in DOMAIN log' : l[1] = BlockTime[l[2]]
    BY <1>2, <1>3 DEF Inv, LogOK
  <2> QED BY <2>1, <2>2, <2>3 DEF LogOK
<1>11. EventsOK'
  BY <1>1, <1>3 DEF Inv, EventsOK
<1>12. IndexOK'
  <2> SUFFICES ASSUME OneWriter PROVE
         /\ \A v \in AllWriters : StoreOK(v)'
         /\ \A r \in Rooms : \A a, b \in Messages(r)' : log'[a] = log'[b] => a = b
         /\ mode = "index" =>
              /\ at = 0 \/ \E m \in Messages(room)' : at <= log'[m] + 1
              /\ \A a \in Messages(room)' : log'[a] < at => a[2] \in got
    BY <1>1 DEF IndexOK, OneWriter, feedVars, setting, clientVars
  <2>1. \A v \in AllWriters : StoreOK(v)'
    BY <1>2, <1>7, OthersIdle DEF StoreOK
  <2>2. \A l \in Messages(Room[k[2]]) : log[l] < i
    BY <1>1 DEF Inv, IndexOK, StoreOK, k, i
  <2>3. \A r : Messages(r) \subseteq DOMAIN log
    BY DEF Messages, CollectGroupMessages, CollectPrivateMessages
  <2>4. ASSUME NEW r \in Rooms, NEW a \in Messages(r)', NEW b \in Messages(r)', log'[a] = log'[b]
        PROVE  a = b
    <3>1. ASSUME NEW c \in Messages(r), k \in Messages(r)', c # k PROVE log'[c] < log'[k]
      BY <1>3, <1>4, <2>2, <2>3, <3>1
    <3>2. \A c \in Messages(r) : c # k => log'[c] = log[c] /\ log[c] \in Nat
      BY <1>3, <1>5, <2>3
    <3>3. a \in Messages(r) \cup {k} /\ b \in Messages(r) \cup {k}
      BY <1>4
    <3>4. CASE a # k /\ b # k
      BY <2>4, <3>2, <3>3, <3>4 DEF Inv, IndexOK
    <3>5. CASE a = k /\ b # k
      BY <1>2, <1>3, <2>4, <3>1, <3>2, <3>3, <3>5
    <3>6. CASE a # k /\ b = k
      BY <1>2, <1>3, <2>4, <3>1, <3>2, <3>3, <3>6
    <3> QED BY <3>4, <3>5, <3>6
  <2>5. ASSUME mode = "index"
        PROVE  /\ at = 0 \/ \E m \in Messages(room)' : at <= log'[m] + 1
               /\ \A a \in Messages(room)' : log'[a] < at => a[2] \in got
    <3>1. /\ at = 0 \/ \E m \in Messages(room) : at <= log[m] + 1
          /\ \A a \in Messages(room) : log[a] < at => a[2] \in got
          /\ at \in Nat
      BY <2>5 DEF Inv, IndexOK, TypeOK
    <3>2. k \in Messages(room)' => Room[k[2]] = room
      BY <1>15
    <3>3. ASSUME at # 0 PROVE \E m \in Messages(room)' : at <= log'[m] + 1
      <4>1. PICK m \in Messages(room) : at <= log[m] + 1
        BY <3>1, <3>3
      <4>2. log[m] \in Nat /\ (m # k => log'[m] = log[m])
        BY <1>3, <1>5, <2>3
      <4>3. CASE m \in Messages(room)' /\ m # k
        BY <4>1, <4>2, <4>3
      <4>4. CASE k \in Messages(room)'
        <5>1. log[m] < i
          BY <2>2, <3>2, <4>4
        <5>2. at <= i + 1
          BY <1>2, <3>1, <4>1, <4>2, <5>1
        <5> QED BY <1>3, <4>4, <5>2
      <4> QED BY <1>15, <4>3, <4>4
    <3>4. ASSUME NEW a \in Messages(room)', log'[a] < at PROVE a[2] \in got
      <4>1. CASE a # k
        BY <1>3, <1>15, <2>3, <3>1, <3>4, <4>1
      <4>2. CASE a = k
        <5>1. i < at
          BY <1>3, <3>4, <4>2
        <5>2. PICK m \in Messages(room) : at <= log[m] + 1
          BY <1>2, <3>1, <5>1
        <5>3. log[m] \in Nat /\ log[m] < i
          BY <1>5, <2>2, <2>3, <3>2, <4>2
        <5> QED BY <1>2, <3>1, <5>1, <5>2, <5>3
      <4> QED BY <4>1, <4>2
    <3> QED BY <3>3, <3>4
  <2> QED BY <2>1, <2>4, <2>5
<1>13. CursorOK'
  <2> SUFFICES ASSUME mode = "cursor", kind = "group" \/ ~backdated'
               PROVE  /\ state = "new" => at = 0
                      /\ state = "reading" =>
                           \A p \in must : \E m \in Messages(room)' :
                               m[2] = p /\ (Rank(Messages(room)', m) < at => p \in got)
                      /\ state = "done" => must \subseteq got
    BY <1>1 DEF CursorOK, setting, clientVars, Rank, Before
  <2>1. kind = "group" \/ ~backdated
    BY <1>1
  <2>2. Messages(room) \subseteq Messages(room)' /\ Messages(room)' \subseteq Messages(room) \cup {k}
    BY <1>15
  <2>3. /\ IsFiniteSet(Messages(room)) /\ Messages(room) \in SUBSET Pairs
    BY ListedType DEF Inv
  <2> DEFINE L == Messages(room)'
             K == Messages(room)
  <2>4. k \in Pairs
    BY <1>2, KeysArePairs
  <2>5. IsFiniteSet(K \cup {k})
    BY <2>3, FS_AddElement
  <2>6. IsFiniteSet(L) /\ L \in SUBSET Pairs /\ K \in SUBSET L /\ K \in SUBSET Pairs /\ IsFiniteSet(K)
    <3> HIDE DEF L, K
    <3>1. L \subseteq K \cup {k} /\ K \subseteq L /\ IsFiniteSet(K) /\ K \subseteq Pairs
      BY <2>2, <2>3 DEF K, L
    <3> QED BY <2>4, <2>5, <3>1, FS_Subset
  <2>7. ASSUME state = "reading", NEW p \in must
        PROVE  \E m \in L : m[2] = p /\ (Rank(L, m) < at => p \in got)
    <3>1. PICK m \in K : m[2] = p /\ (Rank(K, m) < at => p \in got)
      BY <2>1, <2>7 DEF Inv, CursorOK
    <3> HIDE DEF K, L
    <3>2. m \in L /\ m \in Pairs
      BY <2>6, <3>1
    <3>3. Rank(K, m) <= Rank(L, m)
      BY <2>6, <3>2, RankGrows
    <3>4. Rank(K, m) \in Nat /\ Rank(L, m) \in Nat
      BY <2>6, <3>2, RankType
    <3>5. at \in Nat
      BY DEF Inv, TypeOK
    <3> QED BY <3>1, <3>2, <3>3, <3>4, <3>5
  <2> QED BY <2>1, <2>7 DEF Inv, CursorOK
<1>14. TimeOK'
  <2>1. Tie => Tie'
    BY <1>1, <1>3 DEF Tie, CollectGroupMessages, setting
  <2> QED BY <1>1, <1>3, <2>1 DEF Inv, TimeOK, setting, clientVars
<1> QED BY <1>6, <1>8, <1>9, <1>10, <1>11, <1>12, <1>13, <1>14 DEF Inv

-----------------------------------------------------------------------------
(* A request *)

\* What every request leaves alone.
LEMMA ReadInv ==
    ASSUME Inv, NEW page, page \subseteq Messages(room), Read(page),
           at' \in Nat, state' \in {"reading", "done"},
           IndexOK', CursorOK', TimeOK'
    PROVE  Inv'
<1>1. UNCHANGED <<feedVars, setting, log, channels, callVars, notifyCh, backdated>>
  BY DEF Read
<1>2. must' \subseteq Pins /\ got' \subseteq Pins
  <2>1. \A k \in Messages(room) : k[2] \in Pins
    BY ListedType DEF Inv
  <2> QED BY <2>1 DEF Read, PinsIn, Inv, TypeOK
<1>3. FeedTypeOK'
  BY <1>1 DEF Inv, TypeOK, FeedTypeOK, feedVars
<1>4. TypeOK'
  BY <1>1, <1>2, <1>3 DEF Inv, TypeOK, setting, callVars
<1>5. OnlyWritersCall' /\ CallsOK' /\ LogOK' /\ EventsOK'
  BY <1>1 DEF Inv, OnlyWritersCall, CallsOK, LogOK, EventsOK, feedVars, callVars
<1> QED BY <1>4, <1>5 DEF Inv

\* A request does not change what is listed, nor what the other kinds of client
\* rely on.
LEMMA ReadElsewhere ==
    ASSUME Inv, NEW page, Read(page)
    PROVE  /\ Messages(room)' = Messages(room)
           /\ UNCHANGED <<log, kind, mode, room, backdated>>
           /\ mode # "index" => IndexOK'
           /\ mode # "cursor" => CursorOK'
           /\ mode # "time" => TimeOK'
<1>1. UNCHANGED <<feedVars, setting, log, callVars, backdated>>
  BY DEF Read
<1>2. \A r : Messages(r)' = Messages(r)
  BY <1>1 DEF setting, Messages, CollectGroupMessages, CollectPrivateMessages
<1>3. Messages(room)' = Messages(room)
  BY <1>1 DEF setting, Messages, CollectGroupMessages, CollectPrivateMessages
<1>4. ASSUME mode # "index" PROVE IndexOK'
  <2>1. \A w \in AllWriters : StoreOK(w) => StoreOK(w)'
    BY <1>1, <1>2 DEF StoreOK, callVars
  <2> QED BY <1>1, <1>2, <1>4, <2>1 DEF Inv, IndexOK, OneWriter, setting, feedVars
<1>5. mode # "cursor" => CursorOK'
  BY <1>1 DEF CursorOK, setting
<1>6. mode # "time" => TimeOK'
  BY <1>1 DEF TimeOK, setting
<1> QED BY <1>1, <1>3, <1>4, <1>5, <1>6 DEF setting

LEMMA ChatListPage ==
    ASSUME NEW n, NEW t
    PROVE  ChatList(n, t) = PaginateMessagesDesc(FilterBeforeTimestamp(Messages(room), t), n)
  BY DEF ChatList, GetChatListV2, GetPrivateChatList, Messages

LEMMA ReadByCursorInv ==
    ASSUME Inv, ReadByCursor
    PROVE  Inv'
<1> DEFINE K == Messages(room)
           page == NewestAfter(K, at)
           n == Cardinality(page)
           more == at + n < Cardinality(K) /\ n = PageSize
<1>1. /\ mode = "cursor" /\ state # "done" /\ Read(page)
      /\ at' = at + n /\ state' = IF more THEN "reading" ELSE "done"
  BY ChatListPage DEF ReadByCursor, FilterBeforeTimestamp, PaginateMessagesDesc
<1>2. K \in SUBSET Pairs /\ IsFiniteSet(K) /\ at \in Nat /\ PageSize \in Nat
  BY ListedType, ChatAssumption DEF Inv, TypeOK
<1>3. page = {k \in K : at <= Rank(K, k) /\ Rank(K, k) < at + PageSize}
  BY DEF NewestAfter, Rank
<1>4. K' = K /\ UNCHANGED <<log, kind, mode, room, backdated>> /\ IndexOK' /\ TimeOK'
  BY <1>1, ReadElsewhere
<1>5. /\ must' = IF state = "new" THEN PinsIn(K) ELSE must
      /\ got' = got \cup PinsIn(page)
  BY <1>1 DEF Read
<1> HIDE DEF K, page
<1>6. n \in Nat /\ n <= PageSize /\ (n < PageSize => \A k \in K : Rank(K, k) < at + PageSize)
  BY <1>2, PageFull DEF page
<1>7. \A k \in K : Rank(K, k) \in Nat /\ Rank(K, k) < Cardinality(K) /\ Cardinality(K) \in Nat
  BY <1>2, RankBijection, FS_CardinalityType
<1> HIDE DEF n
<1>8. CursorOK'
  <2> SUFFICES ASSUME kind = "group" \/ ~backdated
               PROVE  /\ state' # "new"
                      /\ state' = "reading" =>
                           \A p \in must' : \E k \in K : k[2] = p /\ (Rank(K, k) < at' => p \in got')
                      /\ state' = "done" => must' \subseteq got'
    BY <1>4 DEF CursorOK, K, Rank, Before
  <2>1. ASSUME NEW p \in must'
        PROVE  \E k \in K : k[2] = p /\ (Rank(K, k) < at + PageSize => p \in got')
    <3>1. PICK k \in K : k[2] = p /\ (Rank(K, k) < at => p \in got)
      <4>1. CASE state = "new"
        <5>1. at = 0
          BY <1>1, <4>1 DEF Inv, CursorOK
        <5> QED BY <1>5, <1>7, <2>1, <4>1, <5>1 DEF PinsIn
      <4>2. CASE state # "new"
        <5>1. state = "reading" /\ p \in must
          BY <1>1, <1>5, <4>2 DEF Inv, TypeOK
        <5> QED BY <1>1, <5>1 DEF Inv, CursorOK, K
      <4> QED BY <4>1, <4>2
    <3>2. ASSUME Rank(K, k) < at + PageSize PROVE p \in got'
      <4>1. CASE Rank(K, k) < at
        BY <1>5, <3>1, <4>1
      <4>2. CASE k \in page
        BY <1>5, <3>1, <4>2 DEF PinsIn
      <4> QED BY <1>2, <1>3, <1>7, <3>2, <4>1, <4>2
    <3> QED BY <3>1, <3>2
  <2>2. ASSUME state' = "reading", NEW p \in must'
        PROVE  \E k \in K : k[2] = p /\ (Rank(K, k) < at' => p \in got')
    <3>1. at' = at + PageSize
      BY <1>1, <2>2
    <3> QED BY <2>1, <3>1
  <2>3. ASSUME state' = "done", NEW p \in must' PROVE p \in got'
    <3>1. PICK k \in K : k[2] = p /\ (Rank(K, k) < at + PageSize => p \in got')
      BY <2>1
    <3>2. ~more
      BY <1>1, <2>3
    <3>3. Rank(K, k) < at + PageSize
      BY <1>2, <1>6, <1>7, <3>2
    <3> QED BY <3>1, <3>3
  <2> QED BY <1>1, <2>2, <2>3
<1>9. at' \in Nat /\ state' \in {"reading", "done"} /\ page \subseteq K
  BY <1>1, <1>2, <1>3, <1>6
<1> QED BY <1>1, <1>4, <1>8, <1>9, ReadInv DEF K

LEMMA ReadByTimeInv ==
    ASSUME Inv, ReadByTime
    PROVE  Inv'
<1> DEFINE K == Messages(room)
           F == FilterBeforeTimestamp(K, at)
           page == NewestAfter(F, 0)
           T == {k[1] : k \in page} \cup (IF page = {} THEN {0} ELSE {})
<1>1. /\ mode = "time" /\ state # "done" /\ Read(page)
      /\ at' = Min(T) /\ state' = IF page = {} THEN "done" ELSE "reading"
  BY ChatListPage DEF ReadByTime, PaginateMessagesDesc
<1>2. /\ K \in SUBSET Pairs /\ IsFiniteSet(K) /\ K \subseteq Keys /\ at \in Nat
      /\ K \subseteq CollectGroupMessages(room) /\ K \subseteq DOMAIN log
      /\ \A k \in K : Room[k[2]] = room
      /\ PageSize \in Nat /\ PageSize # 0
  BY ListedType, ChatAssumption DEF Inv, TypeOK
<1>3. F \subseteq K /\ (at = 0 => F = K) /\ \A k \in K : k[1] < at => k \in F
  BY DEF FilterBeforeTimestamp
<1>4. page = {k \in F : 0 <= Rank(F, k) /\ Rank(F, k) < 0 + PageSize}
  BY DEF NewestAfter, Rank
<1>5. K' = K /\ UNCHANGED <<log, kind, mode, room, backdated>> /\ IndexOK' /\ CursorOK'
  BY <1>1, ReadElsewhere
<1>6. /\ must' = IF state = "new" THEN PinsIn(K) ELSE must
      /\ got' = got \cup PinsIn(page)
  BY <1>1 DEF Read
<1>7. F \in SUBSET Pairs /\ IsFiniteSet(F)
  BY <1>2, <1>3, FS_Subset
<1>8. T \subseteq Nat /\ T # {}
  BY <1>2, <1>3, <1>4, KeysArePairs
<1> HIDE DEF K, F, page
<1>9. Min(T) \in T /\ \A t \in T : Min(T) <= t
  <2> HIDE DEF T
  <2> QED BY <1>8, MinIsLeast
<1>10. Cardinality(page) < PageSize => \A k \in F : Rank(F, k) < 0 + PageSize
  BY <1>7, PageFull DEF page
<1>11. \A k \in F : Rank(F, k) \in Nat
  BY <1>7, RankType
<1>12. ASSUME ~Tie, NEW p \in must' \ got' PROVE \E l \in F : l[2] = p
  <2>1. CASE state = "new"
    <3>1. at = 0
      BY <1>1, <1>12, <2>1 DEF Inv, TimeOK
    <3> QED BY <1>3, <1>6, <1>12, <2>1, <3>1 DEF PinsIn
  <2>2. CASE state # "new"
    <3>1. state = "reading" /\ p \in must \ got
      BY <1>1, <1>6, <1>12, <2>2 DEF Inv, TypeOK
    <3>2. PICK k \in DOMAIN log : k[2] = p /\ Room[p] = room /\ k[1] < at
      BY <1>1, <1>12, <3>1 DEF Inv, TimeOK
    <3>3. PICK l \in Messages(Room[k[2]]) : l[2] = k[2] /\ l[1] <= k[1]
      BY StoredIsListed DEF Inv
    <3>4. l \in K
      BY <3>2, <3>3 DEF K
    <3>5. l[1] \in Nat /\ k[1] \in Nat
      BY <1>2, <3>4, KeysArePairs DEF Inv, TypeOK
    <3>6. l[1] < at
      BY <1>2, <3>2, <3>3, <3>5
    <3> QED BY <1>3, <3>2, <3>3, <3>4, <3>6
  <2> QED BY <2>1, <2>2
<1>13. TimeOK'
  <2>1. Tie' = Tie
    BY <1>5 DEF Tie, CollectGroupMessages
  <2> SUFFICES ASSUME ~Tie
               PROVE  /\ state' # "new"
                      /\ state' = "reading" => at' # 0
                      /\ state' = "reading" => \A p \in must' \ got' :
                             \E k \in DOMAIN log : k[2] = p /\ Room[p] = room /\ k[1] < at'
                      /\ state' = "done" => must' \subseteq got'
    BY <1>5, <2>1 DEF TimeOK
  <2>2. ASSUME page = {} PROVE must' \subseteq got'
    <3>1. Cardinality(page) = 0
      BY <2>2, FS_EmptySet
    <3>2. F = {}
      BY <1>2, <1>4, <1>10, <1>11, <2>2, <3>1
    <3> QED BY <1>12, <3>2
  <2>3. ASSUME page # {} PROVE at' # 0
    BY <1>1, <1>2, <1>3, <1>4, <1>9, <2>3, KeysArePairs
  <2>4. ASSUME page # {}, NEW p \in must' \ got'
        PROVE  \E k \in DOMAIN log : k[2] = p /\ Room[p] = room /\ k[1] < at'
    <3>1. PICK l \in F : l[2] = p
      BY <1>12
    <3>2. PICK m \in page : m[1] = at'
      BY <1>1, <1>9, <2>4
    <3>3. l \notin page
      BY <1>6, <2>4, <3>1 DEF PinsIn
    <3>4. m \in F /\ Rank(F, m) < Rank(F, l)
      BY <1>2, <1>4, <1>11, <3>2, <3>3
    <3>5. l \in K /\ m \in K /\ l \in Pairs /\ m \in Pairs /\ l # m
      BY <1>2, <1>3, <3>2, <3>3, <3>4
    <3>6. ~Before(m, l)
      <4>1. Before(m, l) => Rank(F, l) < Rank(F, m)
        BY <1>7, <3>5, RankStrict
      <4> QED BY <1>11, <3>4, <4>1
    <3>7. Before(l, m)
      BY <3>5, <3>6, BeforeOrder
    <3>8. l[1] # m[1]
      BY <1>2, <3>5 DEF Tie
    <3>9. l[1] < at'
      BY <3>2, <3>7, <3>8 DEF Before
    <3> QED BY <1>2, <3>1, <3>5, <3>9
  <2> QED BY <1>1, <2>2, <2>3, <2>4
<1>14. at' \in Nat /\ state' \in {"reading", "done"} /\ page \subseteq K
  BY <1>1, <1>3, <1>4, <1>8, <1>9
<1> QED BY <1>1, <1>5, <1>13, <1>14, ReadInv DEF K

LEMMA ReadByIndexInv ==
    ASSUME Inv, ReadByIndex
    PROVE  Inv'
<1> DEFINE K == Messages(room)
           from == {k \in K : log[k] >= at}
           earlier(k) == {l \in from : IndexBefore(l, k)}
           page == {k \in from : Cardinality(earlier(k)) < PageSize}
           T == {log[k] : k \in page}
<1>1. mode = "index" /\ page # {} /\ Read(page) /\ at' = Max(T) + 1 /\ state' = "reading"
  BY DEF ReadByIndex, GetChatListByIndex, GetPrivateChatListByIndex, SliceMessagesByIndex, Messages
<1>2. IsFiniteSet(K) /\ (\A k \in K : log[k] \in Nat) /\ at \in Nat /\ PageSize \in Nat
  BY ListedType, ChatAssumption DEF Inv, TypeOK
<1>3. K' = K /\ UNCHANGED <<log, kind, mode, room, backdated>> /\ CursorOK' /\ TimeOK'
  BY <1>1, ReadElsewhere
<1>4. UNCHANGED <<writers, phase, msg>> /\ got' = got \cup PinsIn(page)
  BY <1>1 DEF Read, feedVars, callVars
<1>5. IsFiniteSet(from) /\ IsFiniteSet(page)
  <2>1. from \subseteq K /\ page \subseteq from
    OBVIOUS
  <2> HIDE DEF from, page
  <2> QED BY <1>2, <2>1, FS_Subset
<1>6. T \subseteq Nat /\ T # {} /\ IsFiniteSet(T)
  <2>1. T \subseteq Nat /\ T # {}
    BY <1>1, <1>2
  <2> HIDE DEF page
  <2> QED BY <1>5, <2>1, ImageFinite
<1>7. Max(T) \in T /\ \A y \in T : Max(T) >= y
  <2> HIDE DEF T
  <2> QED BY <1>6, MaxIsGreatest
<1>8. PICK m \in page : log[m] = Max(T)
  BY <1>7
<1>9. IndexOK'
  <2> SUFFICES ASSUME OneWriter PROVE
         /\ \A w \in AllWriters : StoreOK(w)'
         /\ \A r \in Rooms : \A k, l \in Messages(r)' : log[k] = log[l] => k = l
         /\ \E k \in K : at' <= log[k] + 1
         /\ \A k \in K : log[k] < at' => k[2] \in got'
    BY <1>3, <1>4 DEF IndexOK, OneWriter
  <2>1. \A r : Messages(r)' = Messages(r)
    BY <1>3 DEF Messages, CollectGroupMessages, CollectPrivateMessages
  <2>2. \A w \in AllWriters : StoreOK(w)'
    BY <1>3, <1>4, <2>1 DEF Inv, IndexOK, StoreOK
  <2>3. m \in K /\ log[m] \in Nat /\ at' = log[m] + 1
    BY <1>1, <1>2, <1>8
  <2>4. ASSUME NEW k \in K, log[k] < at' PROVE k[2] \in got'
    <3>1. CASE log[k] < at
      BY <1>1, <1>4, <3>1 DEF Inv, IndexOK
    <3>2. CASE k \in from /\ log[k] = log[m]
      <4>1. room \in Rooms
        BY DEF Inv, TypeOK
      <4>2. k = m
        BY <2>3, <3>2, <4>1 DEF Inv, IndexOK
      <4> QED BY <1>4, <4>2 DEF PinsIn
    <3>3. CASE k \in from /\ log[k] < log[m]
      <4>1. earlier(k) \subseteq earlier(m)
        <5> SUFFICES ASSUME NEW l \in from, IndexBefore(l, k) PROVE IndexBefore(l, m)
          OBVIOUS
        <5>1. log[l] \in Nat /\ log[k] \in Nat /\ log[l] <= log[k]
          BY <1>2 DEF IndexBefore
        <5> QED BY <2>3, <3>3, <5>1 DEF IndexBefore
      <4>2. IsFiniteSet(earlier(m)) /\ IsFiniteSet(earlier(k))
        <5>1. earlier(m) \subseteq from /\ earlier(k) \subseteq from
          OBVIOUS
        <5> HIDE DEF earlier, from
        <5> QED BY <1>5, <5>1, FS_Subset
      <4>3. Cardinality(earlier(m)) < PageSize
        OBVIOUS
      <4>4. Cardinality(earlier(k)) < PageSize
        <5> HIDE DEF earlier
        <5>1. Cardinality(earlier(k)) <= Cardinality(earlier(m))
          BY <4>1, <4>2, FS_Subset
        <5>2. Cardinality(earlier(k)) \in Nat /\ Cardinality(earlier(m)) \in Nat
          BY <4>2, FS_CardinalityType
        <5> QED BY <1>2, <4>3, <5>1, <5>2
      <4> QED BY <1>4, <3>3, <4>4 DEF PinsIn
    <3>4. log[k] \in Nat /\ log[k] <= log[m]
      BY <1>2, <2>3, <2>4
    <3>5. log[k] < at \/ k \in from
      BY <1>2, <3>4
    <3> QED BY <2>3, <3>1, <3>2, <3>3, <3>4, <3>5
  <2>5. \A r \in Rooms : \A k, l \in Messages(r)' : log[k] = log[l] => k = l
    BY <2>1 DEF Inv, IndexOK
  <2> QED BY <2>2, <2>3, <2>4, <2>5
<1>10. at' \in Nat /\ page \subseteq K
  <2>1. page \subseteq K
    OBVIOUS
  <2>2. Max(T) \in Nat
    <3> HIDE DEF T
    <3> QED BY <1>6, <1>7
  <2>3. at' \in Nat
    <3> HIDE DEF T
    <3> QED BY <1>1, <2>2
  <2> QED BY <2>1, <2>3
<1> QED BY <1>1, <1>3, <1>9, <1>10, ReadInv

-----------------------------------------------------------------------------
(* The other steps *)

LEMMA SendInv ==
    ASSUME Inv, NEW w \in AllWriters, SendNotifyEvent(w)
    PROVE  Inv'
<1> DEFINE p == msg[w].key[2]
<1>1. /\ phase[w] = "send" /\ phase' = [phase EXCEPT ![w] = "idle"]
      /\ msg' = [msg EXCEPT ![w] = NoMsg] /\ Done(w)
      /\ notifyCh' = IF Len(notifyCh) < NotifyCap THEN Append(notifyCh, p) ELSE notifyCh
      /\ UNCHANGED <<setting, log, channels, clientVars, backdated>>
  BY DEF SendNotifyEvent, Enqueue
<1>2. msg[w].key \in DOMAIN log /\ p \in Pins /\ w \in writers
  BY <1>1, KeysArePairs DEF Inv, CallsOK, OnlyWritersCall
<1>3. (w = "scan" => pos < mined) /\ (w = "backfill" => backfill > 0)
  BY <1>1 DEF Inv, OnlyWritersCall
<1>4. /\ FeedTypeOK' /\ writers' = writers /\ mined' = mined /\ queue' \subseteq queue
      /\ w # "scan" => pos' = pos
      /\ w # "backfill" => backfill' = backfill
  BY <1>1, <1>2, <1>3, FeedSteps DEF Inv, TypeOK
<1>5. /\ phase' \in [AllWriters -> {"idle", "store", "send"}] /\ phase'[w] = "idle"
      /\ \A v \in AllWriters : v # w => phase'[v] = phase[v] /\ msg'[v] = msg[v]
      /\ msg' \in [AllWriters -> [key : Keys \cup {<<0, 0>>}, index : Nat]]
  <2>1. NoMsg \in [key : Keys \cup {<<0, 0>>}, index : Nat]
    BY DEF NoMsg
  <2> QED BY <1>1, <2>1 DEF Inv, TypeOK
<1>6. /\ notifyCh' \in Seq(Pins) /\ Len(notifyCh') <= NotifyCap
      /\ \A i \in 1..Len(notifyCh') :
             (i \in 1..Len(notifyCh) /\ notifyCh'[i] = notifyCh[i]) \/ notifyCh'[i] = p
  <2> HIDE DEF p
  <2>1. notifyCh \in Seq(Pins) /\ Len(notifyCh) <= NotifyCap /\ NotifyCap \in Nat
    BY ChatAssumption DEF Inv, TypeOK
  <2> QED BY <1>1, <1>2, <2>1
<1>7. TypeOK'
  BY <1>1, <1>4, <1>5, <1>6 DEF Inv, TypeOK, setting, clientVars
<1>8. OnlyWritersCall'
  <2>1. pos' = pos \/ phase'["scan"] = "idle"
    BY <1>4, <1>5
  <2>2. backfill' = backfill \/ (phase'["backfill"] = "idle" /\ "backfill" \in writers)
    BY <1>2, <1>4, <1>5
  <2>3. \A v \in AllWriters : phase'[v] # "idle" => phase[v] # "idle"
    BY <1>5
  <2> QED BY <1>4, <2>1, <2>2, <2>3 DEF Inv, OnlyWritersCall, AllWriters
<1>9. CallsOK'
  BY <1>1, <1>5 DEF Inv, CallsOK
<1>10. EventsOK'
  BY <1>1, <1>2, <1>6 DEF Inv, EventsOK
<1>11. ASSUME OneWriter, NEW v \in AllWriters PROVE StoreOK(v)'
  BY <1>2, <1>5, <1>11, OthersIdle DEF StoreOK
<1> QED BY <1>1, <1>4, <1>7, <1>8, <1>9, <1>10, <1>11, ElsewhereInv

LEMMA PushInv ==
    ASSUME Inv, PushNotification
    PROVE  Inv'
<1>1. /\ notifyCh # << >> /\ notifyCh' = Tail(notifyCh)
      /\ UNCHANGED <<feedVars, setting, log, channels, callVars, clientVars, backdated>>
  BY DEF PushNotification
<1>2. /\ notifyCh' \in Seq(Pins) /\ Len(notifyCh') <= NotifyCap
      /\ \A i \in 1..Len(notifyCh') : i + 1 \in 1..Len(notifyCh) /\ notifyCh'[i] = notifyCh[i + 1]
  <2>1. notifyCh \in Seq(Pins) /\ Len(notifyCh) <= NotifyCap /\ NotifyCap \in Nat
    BY ChatAssumption DEF Inv, TypeOK
  <2> QED BY <1>1, <2>1
<1>3. FeedTypeOK'
  BY <1>1 DEF Inv, TypeOK, FeedTypeOK, feedVars
<1>4. TypeOK'
  BY <1>1, <1>2, <1>3 DEF Inv, TypeOK, setting, clientVars, callVars
<1>5. OnlyWritersCall' /\ CallsOK'
  BY <1>1 DEF Inv, OnlyWritersCall, CallsOK, feedVars, callVars
<1>6. EventsOK'
  BY <1>1, <1>2 DEF Inv, EventsOK
<1>7. \A r : Messages(r)' = Messages(r)
  BY <1>1 DEF setting, Messages, CollectGroupMessages, CollectPrivateMessages
<1>8. OneWriter => \A w \in AllWriters : StoreOK(w)'
  BY <1>1, <1>7 DEF Inv, IndexOK, StoreOK, callVars
<1> QED BY <1>1, <1>4, <1>5, <1>6, <1>8, ElsewhereInv DEF feedVars

\* A block is mined, a poll lists a pin, or nothing changes.
LEMMA FeedInv ==
    ASSUME Inv, Mine \/ (\E p \in Pins : Poll(p)) \/ UNCHANGED vars
    PROVE  Inv'
<1>1. /\ FeedTypeOK' /\ UNCHANGED <<writers, pos, backfill>> /\ (mined' = mined \/ mined' = mined + 1)
      /\ queue' = queue \/ "mempool" \in writers
  <2>1. CASE Mine
    <3>1. Len(chain) \in Nat
      BY FeedAssumption DEF Inv, TypeOK, FeedTypeOK
    <3>2. late' \in BOOLEAN
      BY <2>1 DEF Mine, MineNext
    <3> QED BY <2>1, <3>1, <3>2 DEF Mine, MineNext, setup, Inv, TypeOK, FeedTypeOK
  <2>2. ASSUME NEW p \in Pins, Poll(p)
        PROVE  /\ FeedTypeOK' /\ UNCHANGED <<writers, pos, backfill>> /\ mined' = mined
               /\ "mempool" \in writers
    BY <2>2, PollCounts DEF Poll, PollMempool, setup, Inv, TypeOK, FeedTypeOK
  <2>3. CASE UNCHANGED vars
    BY <2>3 DEF vars, feedVars, Inv, TypeOK, FeedTypeOK
  <2> QED BY <2>1, <2>2, <2>3
<1>2. UNCHANGED <<setting, log, channels, callVars, notifyCh, clientVars, backdated>>
  BY DEF Mine, Poll, vars
<1>3. TypeOK'
  BY <1>1, <1>2 DEF Inv, TypeOK, setting, clientVars, callVars
<1>4. OnlyWritersCall'
  <2>1. pos \in Nat /\ mined \in Nat
    BY FeedAssumption DEF Inv, TypeOK, FeedTypeOK
  <2> QED BY <1>1, <1>2, <2>1 DEF Inv, OnlyWritersCall, callVars
<1>5. CallsOK' /\ EventsOK'
  BY <1>2 DEF Inv, CallsOK, EventsOK, callVars
<1>6. \A r : Messages(r)' = Messages(r)
  BY <1>2 DEF setting, Messages, CollectGroupMessages, CollectPrivateMessages
<1>7. OneWriter => \A w \in AllWriters : StoreOK(w)'
  BY <1>2, <1>6 DEF Inv, IndexOK, StoreOK, callVars
<1> QED BY <1>1, <1>2, <1>3, <1>4, <1>5, <1>7, ElsewhereInv

LEMMA CrashInv ==
    ASSUME Inv, Crash
    PROVE  Inv'
<1>1. /\ Restart /\ phase' = [w \in AllWriters |-> "idle"] /\ msg' = [w \in AllWriters |-> NoMsg]
      /\ notifyCh' = << >> /\ UNCHANGED <<setting, log, channels, clientVars, backdated>>
  BY DEF Crash
<1>2. FeedTypeOK' /\ writers' = writers /\ queue' = {} /\ ("backfill" \notin writers => backfill' = 0)
  <2>1. Len(chain) \in Nat
    BY FeedAssumption DEF Inv, TypeOK, FeedTypeOK
  <2>2. crashes' \in 0..MaxCrashes
    BY <1>1, FeedAssumption DEF Inv, TypeOK, FeedTypeOK, Restart
  <2> QED BY <1>1, <2>1, <2>2, PollCounts DEF Inv, TypeOK, FeedTypeOK, Restart, setup
<1>3. NoMsg \in [key : Keys \cup {<<0, 0>>}, index : Nat]
  BY DEF NoMsg
<1>4. notifyCh' \in Seq(Pins) /\ Len(notifyCh') = 0 /\ NotifyCap >= 0
  BY <1>1, ChatAssumption
<1>5. TypeOK'
  BY <1>1, <1>2, <1>3, <1>4 DEF Inv, TypeOK, setting, clientVars
<1>6. OnlyWritersCall' /\ CallsOK'
  BY <1>1, <1>2 DEF OnlyWritersCall, CallsOK, AllWriters
<1>7. EventsOK'
  BY <1>4 DEF EventsOK
<1>8. \A w \in AllWriters : StoreOK(w)'
  BY <1>1 DEF StoreOK
<1> QED BY <1>1, <1>2, <1>5, <1>6, <1>7, <1>8, ElsewhereInv

LEMMA NextInv == Inv /\ [Next]_vars => Inv'
  BY FeedInv, DispatchInv, SaveInv, SendInv, PushInv, ReadByCursorInv, ReadByTimeInv,
     ReadByIndexInv, CrashInv DEF Next

\* IndexedIsSeen speaks of one goroutine by the number of them.
LEMMA CardinalityOne == Inv /\ Cardinality(writers) = 1 => OneWriter
<1> SUFFICES ASSUME Inv, Cardinality(writers) = 1 PROVE OneWriter
  OBVIOUS
<1>1. writers \subseteq AllWriters
  BY FeedAssumption DEF Inv, TypeOK, FeedTypeOK
<1>2. IsFiniteSet(AllWriters)
  <2>1. IsFiniteSet({"scan"}) /\ IsFiniteSet({"mempool"}) /\ IsFiniteSet({"backfill"})
        /\ IsFiniteSet({"replay"})
    BY FS_Singleton
  <2>2. AllWriters = (({"scan"} \cup {"mempool"}) \cup {"backfill"}) \cup {"replay"}
    BY DEF AllWriters
  <2> QED BY <2>1, <2>2, FS_Union
<1>3. IsFiniteSet(writers)
  BY <1>1, <1>2, FS_Subset
<1>4. \E w : writers = {w}
  BY <1>3, FS_Singleton
<1> QED BY <1>1, <1>4 DEF OneWriter

-----------------------------------------------------------------------------
(* The lists of conversations *)

\* A finite set of keys has a newest and an oldest one.
LEMMA NewestExists ==
    ASSUME NEW K \in SUBSET Pairs, IsFiniteSet(K), K # {}
    PROVE  /\ \E k \in K : \A l \in K \ {k} : Before(l, k)
           /\ \E k \in K : \A l \in K \ {k} : Before(k, l)
<1>1. Cardinality(K) \in Nat /\ Cardinality(K) # 0
  BY FS_CardinalityType, FS_EmptySet
<1>2. PICK k \in K : Rank(K, k) = 0
  BY <1>1, RankBijection
<1>3. PICK m \in K : Rank(K, m) = Cardinality(K) - 1
  BY <1>1, RankBijection
<1>4. ASSUME NEW l \in K \ {k} PROVE Before(l, k)
  <2>1. Rank(K, l) \in Nat
    BY RankType
  <2>2. ~Before(k, l)
    BY <1>2, <2>1, RankStrict
  <2> QED BY <2>2, BeforeOrder
<1>5. ASSUME NEW l \in K \ {m} PROVE Before(m, l)
  <2>1. Rank(K, l) \in 0..(Cardinality(K) - 1)
    BY RankBijection
  <2>2. ~Before(l, m)
    BY <1>1, <1>3, <2>1, RankStrict
  <2> QED BY <2>2, BeforeOrder
<1> QED BY <1>4, <1>5

\* The scan of the private lists ends with one of the messages with the latest time.
LEMMA LatestPrivateExists ==
    ASSUME NEW K \in SUBSET Pairs, IsFiniteSet(K), K # {}
    PROVE  \E k \in K : \A l \in K \ {k} : l[1] < k[1] \/ (l[1] = k[1] /\ Before(k, l))
<1>1. PICK m \in K : \A l \in K \ {m} : Before(l, m)
  BY NewestExists
<1> DEFINE L == {k \in K : k[1] = m[1]}
<1>2. L \in SUBSET Pairs /\ IsFiniteSet(L) /\ L # {}
  BY FS_Subset
<1>3. PICK k \in L : \A l \in L \ {k} : Before(k, l)
  <2> HIDE DEF L
  <2> QED BY <1>2, NewestExists
<1>4. ASSUME NEW l \in K \ {k} PROVE l[1] < k[1] \/ (l[1] = k[1] /\ Before(k, l))
  <2>1. l[1] \in Nat /\ k[1] \in Nat /\ m[1] \in Nat /\ k[1] = m[1]
    BY DEF Pairs
  <2>2. l[1] <= m[1]
    BY <1>1, <2>1 DEF Before
  <2> QED BY <1>3, <2>1, <2>2
<1> QED BY <1>4

\* What the scans find in a room with messages.
LEMMA RoomScans ==
    ASSUME TypeOK, LogOK, NEW r, Stored(r) # {}
    PROVE  LET K == Stored(r)
               p == LatestPrivateMessage(r)
               n == LatestMessageByTimestamp(K)
           IN  /\ p \in K /\ \A l \in K \ {p} : l[1] < p[1] \/ (l[1] = p[1] /\ Before(p, l))
               /\ n \in K /\ \A l \in K \ {n} : Before(l, n)
               /\ \A l \in K : l[1] <= p[1] /\ l[1] <= n[1]
               /\ NoKey \notin K
<1> DEFINE K == Stored(r)
           p == LatestPrivateMessage(r)
           n == LatestMessageByTimestamp(K)
<1>1. K \subseteq DOMAIN log /\ DOMAIN log \subseteq Keys /\ IsFiniteSet(DOMAIN log)
  BY DEF Stored, CollectGroupMessages, TypeOK, LogOK
<1>2. K \in SUBSET Pairs /\ IsFiniteSet(K) /\ K # {} /\ K \subseteq Keys
  BY <1>1, KeysArePairs, FS_Subset
<1>3. p \in K /\ \A l \in K \ {p} : l[1] < p[1] \/ (l[1] = p[1] /\ Before(p, l))
  <2>1. \E k \in K : \A l \in K \ {k} : l[1] < k[1] \/ (l[1] = k[1] /\ Before(k, l))
    <3> HIDE DEF K
    <3> QED BY <1>2, LatestPrivateExists
  <2> QED BY <2>1 DEF LatestPrivateMessage
<1>4. n \in K /\ \A l \in K \ {n} : Before(l, n)
  <2>1. \E k \in K : \A l \in K \ {k} : Before(l, k)
    <3> HIDE DEF K
    <3> QED BY <1>2, NewestExists
  <2> HIDE DEF K
  <2> QED BY <1>2, <2>1 DEF LatestMessageByTimestamp
<1>5. \A l \in K : l[1] \in Nat /\ l[1] # 0
  BY <1>2, KeysArePairs
<1> HIDE DEF K, p, n
<1>6. \A l \in K : l[1] <= p[1] /\ l[1] <= n[1]
  BY <1>3, <1>4, <1>5 DEF Before
<1>7. NoKey \notin K
  BY <1>5 DEF NoKey
<1> QED BY <1>3, <1>4, <1>6, <1>7 DEF K, p, n

\* The entry that the lists have for a room.
Shown(r) ==
    IF kind = "group" THEN LatestMessageByTimestamp(Stored(r)) ELSE LatestPrivateMessage(r)

LEMMA ListedRooms ==
    ASSUME TypeOK
    PROVE  /\ \A s \in Listed : s = [room |-> s.room, last |-> Shown(s.room)]
           /\ kind = "private" => \A s \in Listed : s.room \in Conversations
           /\ \A r \in Conversations : [room |-> r, last |-> Shown(r)] \in Listed
<1>1. CASE kind = "private"
  BY <1>1 DEF Listed, GetUserLatestChatInfoList, GetPrivateChatHomes, Shown
<1>2. CASE kind = "group"
  <2> DEFINE C == (Conversations \cup GetStoredGroupChannels) \ {Root}
  <2>1. Listed = {[room |-> Root, last |-> Shown(Root)]} \cup {[room |-> r, last |-> Shown(r)] : r \in C}
    <3>1. {[room |-> c.room, last |-> c.last] : c \in GetGroupChannelList}
            = {[room |-> r, last |-> Shown(r)] : r \in C}
      <4>1. \A c \in GetGroupChannelList : c.room \in C /\ c.last = Shown(c.room)
        BY <1>2 DEF GetGroupChannelList, Shown
      <4>2. ASSUME NEW r \in C PROVE \E c \in GetGroupChannelList : c.room = r /\ c.last = Shown(r)
        <5> DEFINE c == [room |-> r, last |-> LatestMessageByTimestamp(Stored(r)),
                         time |-> ChannelSortTimestamp(r)]
        <5>1. c \in GetGroupChannelList
          BY DEF GetGroupChannelList
        <5>2. c.room = r /\ c.last = Shown(r)
          BY <1>2 DEF Shown
        <5> QED BY <5>1, <5>2
      <4> HIDE DEF C
      <4> QED BY <4>1, <4>2
    <3> QED BY <1>2, <3>1 DEF Listed, GetUserLatestChatInfoList, Shown
  <2> QED BY <1>2, <2>1
<1> QED BY <1>1, <1>2 DEF TypeOK

\* Without copies and equal times the list of a private conversation is the log.
LEMMA NoCopies ==
    ASSUME TypeOK, LogOK, NEW r, kind # "group",
           \A k, l \in Stored(r) : k # l => k[1] # l[1] /\ k[2] # l[2]
    PROVE  Messages(r) = Stored(r)
<1>1. DOMAIN log \subseteq Keys
  BY DEF TypeOK
<1>2. ASSUME NEW k \in Stored(r), NEW l \in DOMAIN log, l[2] = k[2] PROVE k[1] <= l[1]
  <2>1. l \in Stored(r)
    BY <1>2 DEF Stored, CollectGroupMessages
  <2>2. k = l
    BY <1>2, <2>1
  <2>3. k[1] \in Nat
    BY <1>1, <1>2, <2>2, KeysArePairs
  <2> QED BY <2>2, <2>3
<1> QED BY <1>2 DEF Messages, CollectPrivateMessages, Stored, CollectGroupMessages

-----------------------------------------------------------------------------
(* Theorems *)

\* Every variable keeps its type with any set of goroutines: every stored key is a
\* time and a message, and notifyCh stays within its capacity.
THEOREM TypeCorrect == Spec => []TypeOK
<1>1. Inv => TypeOK
  BY DEF Inv
<1> QED BY <1>1, InitInv, NextInv, PTL DEF Spec

\* A client that follows nextCursor (paginateMessagesDesc) misses no message that
\* the room had when it began, with any page size and any goroutines storing
\* meanwhile; in a private conversation, if no copy was backdated.
THEOREM CursorPagesCompleteHolds == Spec => []CursorPagesComplete
<1>1. Inv => CursorPagesComplete
  BY DEF Inv, CursorOK, CursorPagesComplete
<1> QED BY <1>1, InitInv, NextInv, PTL DEF Spec

\* A client that follows nextTimestamp (filterMessagesBeforeTimestamp) misses no
\* message that the room had when it began, if no two keys of it share a time.
THEOREM TimePagesCompleteHolds == Spec => []TimePagesComplete
<1>1. Inv => TimePagesComplete
  BY DEF Inv, TimeOK, Tie, TimePagesComplete
<1> QED BY <1>1, InitInv, NextInv, PTL DEF Spec

\* With one goroutine a client that asks for what comes after the largest index it
\* has seen (sliceMessagesByIndex) passes no message by, through any crashes.
THEOREM IndexedIsSeenHolds == Spec => []IndexedIsSeen
<1>1. Inv => IndexedIsSeen
  BY CardinalityOne DEF Inv, IndexOK, IndexedIsSeen
<1> QED BY <1>1, InitInv, NextInv, PTL DEF Spec

\* Every event for the socket server (sendNotifyEvent) belongs to a message that a
\* request would list.
THEOREM PushedIsListedHolds == Spec => []PushedIsListed
<1>1. Inv => PushedIsListed
  <2> SUFFICES ASSUME Inv, NEW i \in 1..Len(notifyCh)
               PROVE  notifyCh[i] \in PinsIn(Messages(Room[notifyCh[i]]))
    BY DEF PushedIsListed
  <2>1. PICK k \in DOMAIN log : k[2] = notifyCh[i]
    BY DEF Inv, EventsOK
  <2>2. PICK l \in Messages(Room[k[2]]) : l[2] = k[2]
    BY StoredIsListed DEF Inv
  <2> QED BY <2>1, <2>2 DEF PinsIn
<1> QED BY <1>1, InitInv, NextInv, PTL DEF Spec

\* A message is listed once in a private conversation (collectPrivateMessages) and,
\* when only the scan goroutine stores, in a group.
THEOREM ListedOnceHolds == Spec => []ListedOnce
<1>1. Inv => ListedOnce
  <2> SUFFICES ASSUME Inv, kind = "private" \/ writers = {"scan"}, NEW r \in Rooms,
                      NEW k \in Messages(r), NEW l \in Messages(r), k[2] = l[2]
               PROVE  k = l
    BY DEF ListedOnce
  <2>1. k \in Keys /\ l \in Keys /\ k \in DOMAIN log /\ l \in DOMAIN log
    BY ListedType DEF Inv
  <2>2. k[1] \in Nat /\ l[1] \in Nat
    BY <2>1, KeysArePairs
  <2>3. CASE kind = "private"
    <3>1. k[1] <= l[1] /\ l[1] <= k[1]
      BY <2>1, <2>3 DEF Messages, CollectPrivateMessages
    <3> QED BY <2>1, <2>2, <3>1, KeysArePairs
  <2>4. CASE writers = {"scan"}
    <3>1. k[1] = l[1]
      BY <2>1, <2>4 DEF Inv, LogOK
    <3> QED BY <2>1, <3>1, KeysArePairs
  <2> QED BY <2>3, <2>4
<1> QED BY <1>1, InitInv, NextInv, PTL DEF Spec

\* The lists of conversations (GetUserLatestChatInfoList, GetGroupChannelList,
\* GetPrivateChatHomes) have every room with a message once, with its newest one.
THEOREM HomeShowsNewestHolds == Spec => []HomeShowsNewest
<1>1. Inv => HomeShowsNewest
  <2> SUFFICES ASSUME Inv PROVE HomeShowsNewest
    OBVIOUS
  <2>0. TypeOK /\ LogOK
    BY DEF Inv
  <2>1. \A r : Messages(r) \subseteq Stored(r) /\ (kind = "group" => Messages(r) = Stored(r))
    BY DEF Messages, CollectPrivateMessages, CollectGroupMessages, Stored
  <2>2. \A r : Stored(r) # {} => Messages(r) # {}
    BY <2>0, StoredIsListed DEF Stored, CollectGroupMessages
  <2>3. ASSUME NEW r \in Rooms, Messages(r) # {}
        PROVE  Cardinality({s \in Listed : s.room = r}) = 1
    <3>1. r \in Conversations
      BY <2>1, <2>3 DEF Conversations
    <3>2. {s \in Listed : s.room = r} = {[room |-> r, last |-> Shown(r)]}
      BY <2>0, <3>1, ListedRooms
    <3> QED BY <3>2, FS_Singleton
  <2>4. ASSUME NEW s \in Listed
        PROVE  /\ s.last = NoKey <=> Messages(s.room) = {}
               /\ s.last # NoKey => Room[s.last[2]] = s.room
               /\ \A k \in Messages(s.room) : k[1] <= s.last[1]
               /\ (kind = "group" \/ \A k, l \in Stored(s.room) : k # l => k[1] # l[1] /\ k[2] # l[2])
                      => s.last = FirstOfRoom(s.room)
    <3> DEFINE r == s.room
    <3>1. s.last = Shown(r) /\ (kind = "private" => Stored(r) # {})
      BY <2>0, ListedRooms DEF Conversations
    <3>2. kind = "group" \/ kind = "private"
      BY <2>0 DEF TypeOK
    <3>3. CASE Stored(r) = {}
      BY <2>1, <3>1, <3>2, <3>3 DEF Shown, LatestMessageByTimestamp, FirstOfRoom
    <3>4. CASE Stored(r) # {}
      <4>1. /\ s.last \in Stored(r) /\ NoKey \notin Stored(r)
            /\ \A l \in Stored(r) : l[1] <= s.last[1]
        BY <2>0, <3>1, <3>4, RoomScans DEF Shown
      <4>2. Room[s.last[2]] = r
        BY <4>1 DEF Stored, CollectGroupMessages
      <4>3. ASSUME kind # "group", \A k, l \in Stored(r) : k # l => k[1] # l[1] /\ k[2] # l[2]
            PROVE  s.last = FirstOfRoom(r)
        <5> DEFINE p == LatestPrivateMessage(r)
                   n == LatestMessageByTimestamp(Stored(r))
        <5>1. p \in Stored(r) /\ n \in Stored(r) /\ p[1] <= n[1] /\ n[1] <= p[1]
          BY <2>0, <3>4, RoomScans
        <5>2. p[1] \in Nat /\ n[1] \in Nat
          BY <2>0, <5>1, KeysArePairs DEF TypeOK, Stored, CollectGroupMessages
        <5>3. p = n
          BY <4>3, <5>1, <5>2
        <5>4. Messages(r) = Stored(r)
          BY <2>0, <4>3, NoCopies
        <5> QED BY <3>1, <4>3, <5>3, <5>4 DEF Shown, FirstOfRoom
      <4>4. kind = "group" => s.last = FirstOfRoom(r)
        BY <2>1, <3>1 DEF Shown, FirstOfRoom
      <4> QED BY <2>1, <2>2, <3>4, <4>1, <4>2, <4>3, <4>4
    <3> QED BY <3>3, <3>4
  <2>5. ASSUME kind = "private", NEW s \in Listed
        PROVE  \E p \in GetPrivateGroupPaths : p.room = s.room /\ p.first[1] <= s.last[1]
    <3> DEFINE r == s.room
               K == Stored(r)
               first == CHOOSE k \in K : \A l \in K \ {k} : Before(k, l)
    <3>1. r \in Conversations /\ K # {} /\ s.last = LatestPrivateMessage(r)
      BY <2>0, <2>5, ListedRooms DEF Conversations, Shown
    <3>2. K \in SUBSET Pairs /\ IsFiniteSet(K)
      <4>1. K \subseteq DOMAIN log /\ DOMAIN log \subseteq Keys
        BY <2>0 DEF TypeOK, Stored, CollectGroupMessages
      <4> QED BY <2>0, <4>1, KeysArePairs, FS_Subset DEF LogOK
    <3>3. first \in K
      <4> HIDE DEF K
      <4> QED BY <3>1, <3>2, NewestExists
    <3>4. first[1] <= s.last[1]
      BY <2>0, <3>1, <3>3, RoomScans
    <3>5. [room |-> r, first |-> first] \in GetPrivateGroupPaths
      BY <3>1 DEF GetPrivateGroupPaths
    <3> HIDE DEF first
    <3> QED BY <3>4, <3>5
  <2> QED BY <2>3, <2>4, <2>5 DEF HomeShowsNewest
<1> QED BY <1>1, InitInv, NextInv, PTL DEF Spec
=============================================================================
