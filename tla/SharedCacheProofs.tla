------------------------- MODULE SharedCacheProofs -------------------------
(***************************************************************************)
(* What is proved of SharedCache, for any number of connections, caches    *)
(* and tables and any settings: types, what btreeIntegrity() asserts, the  *)
(* isolation of transactions, that a waiting writer keeps readers out,     *)
(* that no one who waits is forgotten, and that connections never wait for *)
(* each other in a circle.  That a call-back is made is liveness, and left *)
(* to TLC.                                                                 *)
(***************************************************************************)
EXTENDS SharedCache, FiniteSetTheorems, NaturalsInduction, WellFoundedInduction, TLAPS

Modes == {"none", "read", "write"}

CacheType ==
    [pWriter : Conns \cup {None}, exclusive : BOOLEAN, pending : BOOLEAN,
     inTransaction : Modes, nTransaction : Nat,
     inTrans : [Conns -> Modes], lock : [Conns -> [AllTables -> Modes]]]

(* The connections that have a transaction on the shared B-tree b. *)
Users(b) == {c \in Conns : b.inTrans[c] # "none"}

Counts(b) ==
    /\ b.nTransaction = Cardinality(Users(b))
    /\ b.inTransaction = "none" <=> b.nTransaction = 0
    /\ b.inTransaction = "write" <=> b.pWriter # None

(* Locks belong to transactions, write locks to the writer's, and no one   *)
(* has locked what another has locked for writing.                         *)
Locks(b) ==
    \A c \in Conns :
        /\ b.inTrans[c] = "write" <=> b.pWriter = c
        /\ b.inTrans[c] # "none" <=> b.lock[c][Schema] # "none"
        /\ \A t \in AllTables :
              /\ b.lock[c][t] = "write" => b.pWriter = c
              /\ b.lock[c][t] # "none" => b.inTrans[c] # "none"
              /\ b.lock[c][t] = "write" => \A d \in Conns : b.lock[d][t] # "none" => c = d

Flags(b) ==
    /\ b.pending => b.pWriter # None /\ b.nTransaction > 1
    /\ b.exclusive => b.pWriter # None /\ b.nTransaction = 1

CacheOK(b) == b \in CacheType /\ Counts(b) /\ Locks(b) /\ Flags(b)

(* The history: what a transaction has changed or read, it has locked. *)
HistoryOK(b, ch, se) ==
    /\ ch \in [AllTables -> Conns \cup {None}]
    /\ se \in [Conns -> SUBSET AllTables]
    /\ \A t \in AllTables : ch[t] # None => b.lock[ch[t]][t] = "write"
    /\ \A c \in Conns : \A t \in se[c] : b.lock[c][t] # "none"

-----------------------------------------------------------------------------
(* The number of transactions.                                             *)
LEMMA UsersFinite ==
  ASSUME NEW b
  PROVE  IsFiniteSet(Users(b)) /\ Cardinality(Users(b)) \in Nat
  <1>1. Users(b) \subseteq Conns
    BY DEF Users
  <1> QED BY <1>1, UnlockNotifyAssumption, FS_Subset, FS_CardinalityType

(* Two connections with transactions make more than one. *)
LEMMA TwoUsers ==
  ASSUME NEW b, NEW c \in Users(b), NEW d \in Users(b), c # d
  PROVE  Cardinality(Users(b)) > 1
  <1>1. {c, d} \subseteq Users(b) /\ Cardinality({c, d}) = 2
    <2>1. Cardinality({c}) = 1 /\ IsFiniteSet({c})
      BY FS_Singleton
    <2>2. Cardinality({c} \cup {d}) = 2
      BY <2>1, FS_AddElement
    <2>3. {c, d} = {c} \cup {d}
      OBVIOUS
    <2> QED BY <2>2, <2>3
  <1> QED BY <1>1, UsersFinite, FS_Subset

(* The last one is alone. *)
LEMMA OneUser ==
  ASSUME NEW b, NEW c \in Users(b), Cardinality(Users(b)) <= 1
  PROVE  Users(b) = {c}
  BY TwoUsers, UsersFinite

LEMMA SomeUser ==
  ASSUME NEW b, NEW c \in Users(b)
  PROVE  Cardinality(Users(b)) > 0
  BY UsersFinite, FS_EmptySet

-----------------------------------------------------------------------------
(* The operations of one shared B-tree.                                    *)
LEMMA InitCacheOK == CacheOK(InitCache)
  <1>1. InitCache \in CacheType
    BY DEF InitCache, CacheType, Modes
  <1>2. Users(InitCache) = {}
    BY DEF Users, InitCache
  <1>3. Counts(InitCache)
    BY <1>2, FS_EmptySet DEF Counts, InitCache
  <1>4. Locks(InitCache) /\ Flags(InitCache)
    BY UnlockNotifyAssumption DEF Locks, Flags, InitCache, AllTables
  <1> QED BY <1>1, <1>3, <1>4 DEF CacheOK

(* Whoever is named as the reason for a refusal is another connection, and *)
(* has a transaction.                                                      *)
LEMMA InTheWay ==
  ASSUME NEW b, CacheOK(b), NEW c \in Conns, NEW t \in AllTables, NEW eLock \in {"read", "write"}
  PROVE  /\ querySharedCacheTableLock(b, c, t, eLock) \subseteq Users(b) \ {c}
         /\ \A flag \in 0 .. 2 : BeginRefused(b, c, flag) \subseteq Users(b) \ {c}
  <1>1. b.inTrans \in [Conns -> Modes] /\ b.pWriter \in Conns \cup {None}
    BY DEF CacheOK, CacheType
  <1>2. b.pWriter # None => b.pWriter \in Users(b) /\ b.inTrans[b.pWriter] = "write"
    BY <1>1 DEF CacheOK, Locks, Users
  <1>3. \A u \in AllTables : \A l \in {"read", "write"} :
           querySharedCacheTableLock(b, c, u, l) \subseteq Users(b) \ {c}
    BY <1>1, <1>2 DEF querySharedCacheTableLock, Conflicting, CacheOK, Flags, Locks, Users
  <1>4. Holders(b, c) \subseteq Users(b) \ {c}
    BY DEF Holders, Users, CacheOK, Locks
  <1>5. ASSUME NEW w \in 0 .. 2 PROVE BeginRefused(b, c, w) \subseteq Users(b) \ {c}
    <2>1. CASE ~HasTransaction(b, c, w) /\ NoNewTransaction(b, w)
      <3>1. b.pWriter # None /\ b.pWriter # c
        <4>1. b.pWriter # None
          BY <2>1 DEF NoNewTransaction, CacheOK, Counts, Flags
        <4>2. b.inTrans[c] # "write"
          BY <2>1 DEF HasTransaction
        <4> QED BY <4>1, <4>2, <1>2
      <3> QED BY <2>1, <3>1, <1>2 DEF BeginRefused
    <2>2. CASE HasTransaction(b, c, w) \/ ~NoNewTransaction(b, w)
      BY <2>2, <1>3, <1>4 DEF BeginRefused, AllTables
    <2> QED BY <2>1, <2>2
  <1> QED BY <1>3, <1>5

(* What no operation on behalf of c does: touch the transactions of        *)
(* others, lose the locks of a transaction that goes on, or let anyone in  *)
(* while a writer waits.                                                   *)
KeepsOthers(b, r, c) == \A d \in Conns \ {c} : r.inTrans[d] = b.inTrans[d]

KeepsLocks(b, r) ==
    \A c \in Conns : \A t \in AllTables :
        /\ r.inTrans[c] = "write" /\ b.lock[c][t] = "write" => r.lock[c][t] = "write"
        /\ r.inTrans[c] # "none" /\ b.lock[c][t] # "none" => r.lock[c][t] # "none"

KeepsOut(b, r) == b.pending => Users(r) \subseteq Users(b)

Proper(b, r, c) == CacheOK(r) /\ KeepsOthers(b, r, c) /\ KeepsLocks(b, r) /\ KeepsOut(b, r)

(* Operations that only add: no lock becomes weaker. *)
LocksGrow(b, r) ==
    \A c \in Conns : \A t \in AllTables :
        /\ b.lock[c][t] = "write" => r.lock[c][t] = "write"
        /\ b.lock[c][t] # "none" => r.lock[c][t] # "none"

LEMMA Same ==
  ASSUME NEW b, CacheOK(b), NEW c \in Conns
  PROVE  Proper(b, b, c) /\ LocksGrow(b, b)
  BY DEF Proper, KeepsOthers, KeepsLocks, KeepsOut, LocksGrow

LEMMA GrowThenProper ==
  ASSUME NEW a, NEW b, NEW r, NEW c \in Conns,
         LocksGrow(a, b), KeepsOthers(a, b, c), KeepsOut(a, b), a.pending => b.pending,
         Proper(b, r, c)
  PROVE  Proper(a, r, c)
  BY DEF Proper, LocksGrow, KeepsOthers, KeepsLocks, KeepsOut

LEMMA GrowIsProper ==
  ASSUME NEW b, NEW r, NEW c \in Conns,
         CacheOK(r), LocksGrow(b, r), KeepsOthers(b, r, c), KeepsOut(b, r)
  PROVE  Proper(b, r, c)
  BY DEF Proper, LocksGrow, KeepsLocks

(* sqlite3BtreeBeginTrans() that is not refused finds no writer that       *)
(* waits and none that is to be alone.                                     *)
LEMMA NotRefused ==
  ASSUME NEW b, CacheOK(b), NEW c \in Conns, NEW flag \in 0 .. 2,
         BeginRefused(b, c, flag) = {}, ~HasTransaction(b, c, flag)
  PROVE  /\ ~b.pending /\ ~b.exclusive
         /\ b.pWriter # c
         /\ \A d \in Conns \ {c} : b.lock[d][Schema] # "write"
         /\ flag > 0 => b.pWriter = None /\ b.inTransaction # "write"
         /\ flag = 2 => Users(b) \subseteq {c}
         /\ flag = 0 => b.inTrans[c] = "none"
  <1>0. b \in CacheType /\ Counts(b) /\ Locks(b) /\ Flags(b)
    BY DEF CacheOK
  <1>1. ~NoNewTransaction(b, flag)
    BY DEF BeginRefused
  <1>2. querySharedCacheTableLock(b, c, Schema, "read") = {} /\ (flag = 2 => Holders(b, c) = {})
    BY <1>1 DEF BeginRefused
  <1>3. b.inTrans[c] # "write" /\ b.pWriter # c
    BY <1>0 DEF HasTransaction, Locks
  <1>4. ~b.exclusive /\ Conflicting(b, c, Schema, "read") = {}
    BY <1>0, <1>2, <1>3 DEF querySharedCacheTableLock, CacheType
  <1>5. b.inTrans[c] \in Modes
    BY <1>0 DEF CacheType
  <1>6. flag = 2 => Users(b) \subseteq {c}
    BY <1>0, <1>2 DEF Holders, Users, Locks, AllTables
  <1> QED BY <1>0, <1>1, <1>3, <1>4, <1>5, <1>6
          DEF NoNewTransaction, Conflicting, Counts, HasTransaction, Modes

LEMMA BegunEffect ==
  ASSUME NEW b, CacheOK(b), NEW c \in Conns, NEW flag \in 0 .. 2,
         BeginRefused(b, c, flag) = {}, ~HasTransaction(b, c, flag)
  PROVE  LET r == Begun(b, c, flag)
             level == IF flag = 0 THEN "read" ELSE "write"
             new == b.inTrans[c] = "none"
         IN  /\ r \in CacheType
             /\ r.pWriter = IF flag > 0 THEN c ELSE b.pWriter
             /\ r.exclusive => flag = 2
             /\ ~r.pending
             /\ r.inTransaction = IF b.inTransaction = "write" THEN "write" ELSE level
             /\ r.nTransaction = IF new THEN b.nTransaction + 1 ELSE b.nTransaction
             /\ r.inTrans[c] = level /\ \A d \in Conns : d # c => r.inTrans[d] = b.inTrans[d]
             /\ \A d \in Conns : \A t \in AllTables :
                   r.lock[d][t] = IF new /\ d = c /\ t = Schema THEN "read" ELSE b.lock[d][t]
  <1> DEFINE level == IF flag = 0 THEN "read" ELSE "write"
             new == b.inTrans[c] = "none"
             r == Begun(b, c, flag)
             inTrans == [b.inTrans EXCEPT ![c] = level]
             lock == IF new THEN [b.lock EXCEPT ![c][Schema] = "read"] ELSE b.lock
             n == IF new THEN b.nTransaction + 1 ELSE b.nTransaction
  <1>0. b \in CacheType /\ ~b.pending /\ ~b.exclusive /\ Schema \in AllTables
    BY NotRefused DEF CacheOK, AllTables
  <1>1. r = [pWriter |-> IF flag > 0 THEN c ELSE b.pWriter,
             exclusive |-> IF flag > 0 THEN flag = 2 ELSE b.exclusive,
             pending |-> b.pending,
             inTransaction |-> IF b.inTransaction = "write" THEN "write" ELSE level,
             nTransaction |-> n, inTrans |-> inTrans, lock |-> lock]
    BY DEF Begun
  <1>2. inTrans \in [Conns -> Modes] /\ inTrans[c] = level
        /\ \A d \in Conns : d # c => inTrans[d] = b.inTrans[d]
    BY <1>0 DEF CacheType, Modes
  <1>3. lock \in [Conns -> [AllTables -> Modes]]
        /\ \A d \in Conns : \A t \in AllTables :
              lock[d][t] = IF new /\ d = c /\ t = Schema THEN "read" ELSE b.lock[d][t]
    BY <1>0 DEF CacheType, Modes
  <1>4. n \in Nat /\ b.pWriter \in Conns \cup {None} /\ level \in Modes
    BY <1>0 DEF CacheType, Modes
  <1> HIDE DEF inTrans, lock, n, r
  <1>5. r \in CacheType
    BY <1>0, <1>1, <1>2, <1>3, <1>4 DEF CacheType, Modes
  <1>6. (r.exclusive => flag = 2) /\ ~r.pending
    BY <1>0, <1>1
  <1> QED BY <1>1, <1>2, <1>3, <1>5, <1>6 DEF r, n

LEMMA BegunOK ==
  ASSUME NEW b, CacheOK(b), NEW c \in Conns, NEW flag \in 0 .. 2,
         BeginRefused(b, c, flag) = {}
  PROVE  LET r == Begun(b, c, flag)
         IN  /\ CacheOK(r) /\ KeepsOthers(b, r, c) /\ LocksGrow(b, r) /\ KeepsOut(b, r)
             /\ b.pending => r.pending
             /\ r.inTrans[c] # "none" /\ (flag > 0 => r.inTrans[c] = "write")
  <1> DEFINE r == Begun(b, c, flag)
  <1>1. CASE HasTransaction(b, c, flag)
    <2>1. r = b /\ b.inTrans[c] # "none" /\ (flag > 0 => b.inTrans[c] = "write")
      BY <1>1 DEF Begun, HasTransaction
    <2> HIDE DEF r
    <2> QED BY <2>1, Same DEF Proper, r
  <1>2. CASE ~HasTransaction(b, c, flag)
    <2> DEFINE level == IF flag = 0 THEN "read" ELSE "write"
               new == b.inTrans[c] = "none"
    <2>0. b \in CacheType /\ Counts(b) /\ Locks(b) /\ Flags(b) /\ Schema \in AllTables
      BY DEF CacheOK, AllTables
    <2>1. /\ ~b.pending /\ ~b.exclusive /\ b.pWriter # c
          /\ \A d \in Conns \ {c} : b.lock[d][Schema] # "write"
          /\ flag > 0 => b.pWriter = None /\ b.inTransaction # "write"
          /\ flag = 2 => Users(b) \subseteq {c}
          /\ flag = 0 => b.inTrans[c] = "none"
      BY <1>2, NotRefused
    <2>2. /\ r \in CacheType
          /\ r.pWriter = IF flag > 0 THEN c ELSE b.pWriter
          /\ r.exclusive => flag = 2
          /\ ~r.pending
          /\ r.inTransaction = IF b.inTransaction = "write" THEN "write" ELSE level
          /\ r.nTransaction = IF new THEN b.nTransaction + 1 ELSE b.nTransaction
          /\ r.inTrans[c] = level /\ \A d \in Conns : d # c => r.inTrans[d] = b.inTrans[d]
          /\ \A d \in Conns : \A t \in AllTables :
                r.lock[d][t] = IF new /\ d = c /\ t = Schema THEN "read" ELSE b.lock[d][t]
      BY <1>2, BegunEffect
    <2> HIDE DEF r
    <2>3. Users(r) = Users(b) \cup {c}
      BY <2>2 DEF Users
    <2>4. r.nTransaction = Cardinality(Users(r))
      <3>1. c \in Users(b) <=> ~new
        BY DEF Users
      <3>2. b.nTransaction = Cardinality(Users(b))
        BY <2>0 DEF Counts
      <3>3. IsFiniteSet(Users(b)) /\ Cardinality(Users(b) \cup {c})
                = IF c \in Users(b) THEN Cardinality(Users(b)) ELSE Cardinality(Users(b)) + 1
        BY UsersFinite, FS_AddElement
      <3>4. r.nTransaction = IF new THEN b.nTransaction + 1 ELSE b.nTransaction
        BY <2>2
      <3> QED BY <2>3, <3>1, <3>2, <3>3, <3>4
    <2>5. Cardinality(Users(r)) \in Nat /\ Cardinality(Users(r)) > 0
      BY <2>3, UsersFinite, SomeUser
    <2>6. Counts(r)
      BY <2>0, <2>1, <2>2, <2>4, <2>5, UnlockNotifyAssumption DEF Counts
    <2>7. Locks(r)
      BY <2>0, <2>1, <2>2, UnlockNotifyAssumption DEF Locks
    <2>8. Flags(r)
      <3>1. flag = 2 => Users(r) = {c}
        BY <2>1, <2>3
      <3>2. Cardinality({c}) = 1
        BY FS_Singleton
      <3>3. flag = 2 => r.nTransaction = 1 /\ r.pWriter # None
        <4>1. flag = 2 => r.nTransaction = 1
          BY <2>4, <3>1, <3>2
        <4>2. flag = 2 => r.pWriter = c
          BY <2>2
        <4> QED BY <4>1, <4>2, UnlockNotifyAssumption
      <3>4. (r.exclusive => flag = 2) /\ ~r.pending
        BY <2>2
      <3> QED BY <3>3, <3>4 DEF Flags
    <2>9. LocksGrow(b, r) /\ KeepsOthers(b, r, c) /\ KeepsOut(b, r)
      BY <2>0, <2>1, <2>2 DEF LocksGrow, KeepsOthers, KeepsOut, Locks
    <2> QED BY <2>1, <2>2, <2>6, <2>7, <2>8, <2>9 DEF CacheOK, r
  <1> QED BY <1>1, <1>2

(* A table lock that is granted. *)
LEMMA LockOK ==
  ASSUME NEW b, CacheOK(b), NEW c \in Conns, NEW t \in AllTables, NEW eLock \in {"read", "write"},
         b.inTrans[c] # "none", eLock = "write" => b.inTrans[c] = "write",
         querySharedCacheTableLock(b, c, t, eLock) = {}
  PROVE  LET r == setSharedCacheTableLock(b, c, t, eLock)
         IN  /\ Proper(b, r, c) /\ r.inTrans = b.inTrans
             /\ r.lock[c][t] \in {"write", eLock} /\ (eLock = "write" => r.lock[c][t] = "write")
  <1> DEFINE r == setSharedCacheTableLock(b, c, t, eLock)
             new == IF b.lock[c][t] = "write" THEN "write" ELSE eLock
             lock == [b.lock EXCEPT ![c][t] = new]
  <1>0. b \in CacheType /\ Counts(b) /\ Locks(b) /\ Flags(b) /\ Schema \in AllTables
    BY DEF CacheOK, AllTables
  <1>1. r = [b EXCEPT !.lock = lock]
    BY <1>0 DEF setSharedCacheTableLock, CacheType
  <1>2. /\ lock \in [Conns -> [AllTables -> Modes]]
        /\ \A d \in Conns : \A u \in AllTables :
              lock[d][u] = IF d = c /\ u = t THEN new ELSE b.lock[d][u]
    BY <1>0 DEF CacheType, Modes
  <1>3. new \in {"write", eLock} /\ new # "none" /\ (eLock = "write" => new = "write")
    OBVIOUS
  <1> HIDE DEF lock, r
  <1>4. /\ r \in CacheType /\ r.lock = lock /\ r.inTrans = b.inTrans /\ r.pWriter = b.pWriter
        /\ r.inTransaction = b.inTransaction /\ r.nTransaction = b.nTransaction
        /\ r.pending = b.pending /\ r.exclusive = b.exclusive
    BY <1>0, <1>1, <1>2 DEF CacheType
  <1>5. Conflicting(b, c, t, eLock) = {}
    <2>1. b.pWriter # c /\ b.exclusive => FALSE
      BY DEF querySharedCacheTableLock
    <2> QED BY <2>1 DEF querySharedCacheTableLock
  <1>6. \A d \in Conns \ {c} : b.lock[d][t] \in {"none", eLock}
    BY <1>5 DEF Conflicting
  <1>7. Counts(r) /\ Flags(r)
    BY <1>0, <1>4 DEF Counts, Flags, Users
  <1>8. Locks(r)
    <2> HIDE DEF new
    <2>1. ASSUME NEW d \in Conns, NEW u \in AllTables
          PROVE  /\ r.lock[d][u] = "write" => b.pWriter = d
                 /\ r.lock[d][u] # "none" => b.inTrans[d] # "none"
      BY <1>0, <1>2, <1>3, <1>4 DEF Locks, new
    <2>2. ASSUME NEW d \in Conns, NEW e \in Conns, NEW u \in AllTables,
                 r.lock[d][u] = "write", r.lock[e][u] # "none"
          PROVE  d = e
      <3>1. CASE u # t
        BY <1>0, <1>2, <1>4, <2>2, <3>1 DEF Locks
      <3>2. CASE u = t /\ d = c /\ e # c
        <4>1. b.lock[e][t] = eLock /\ eLock # "none"
          BY <1>2, <1>4, <1>6, <2>2, <3>2
        <4>2. CASE eLock = "write"
          <5>1. b.pWriter = e /\ b.pWriter = c
            BY <1>0, <4>1, <4>2 DEF Locks
          <5> QED BY <5>1, <3>2
        <4>3. CASE eLock = "read"
          <5>1. new = "write"
            BY <1>2, <1>4, <2>2, <3>2
          <5>2. b.lock[c][t] = "write"
            BY <5>1, <4>3 DEF new
          <5> QED BY <1>0, <4>1, <5>2, <3>2, <4>3 DEF Locks
        <4> QED BY <4>2, <4>3
      <3>3. CASE u = t /\ d # c
        <4>1. b.lock[d][t] = "write" /\ eLock = "write"
          BY <1>2, <1>4, <1>6, <2>2, <3>3
        <4>2. b.pWriter = d /\ b.pWriter = c
          BY <1>0, <4>1 DEF Locks
        <4> QED BY <4>2, <3>3
      <3> QED BY <3>1, <3>2, <3>3
    <2>3. \A d \in Conns : r.lock[d][Schema] # "none" <=> b.inTrans[d] # "none"
      BY <1>0, <1>2, <1>3, <1>4, <2>1 DEF Locks
    <2> QED BY <1>0, <1>4, <2>1, <2>2, <2>3 DEF Locks
  <1>9. LocksGrow(b, r) /\ KeepsOthers(b, r, c) /\ KeepsOut(b, r)
    BY <1>2, <1>3, <1>4 DEF LocksGrow, KeepsOthers, KeepsOut, Users
  <1>10. Proper(b, r, c)
    BY <1>4, <1>7, <1>8, <1>9, GrowIsProper DEF CacheOK
  <1>11. r.lock[c][t] = new
    BY <1>2, <1>4
  <1> QED BY <1>3, <1>4, <1>10, <1>11 DEF r

(* A write lock that is refused to the writer makes him wait, for another  *)
(* transaction that there is.                                              *)
LEMMA RefusedOK ==
  ASSUME NEW b, CacheOK(b), NEW c \in Conns, NEW t \in AllTables, NEW eLock \in {"read", "write"},
         eLock = "write" => b.inTrans[c] = "write",
         querySharedCacheTableLock(b, c, t, eLock) # {}
  PROVE  LET r == Refused(b, eLock)
         IN  /\ CacheOK(r) /\ KeepsOthers(b, r, c) /\ LocksGrow(b, r) /\ KeepsOut(b, r)
             /\ b.pending => r.pending
             /\ r.inTrans = b.inTrans
  <1> DEFINE r == Refused(b, eLock)
  <1>0. b \in CacheType /\ Counts(b) /\ Locks(b) /\ Flags(b)
    BY DEF CacheOK
  <1>1. /\ r \in CacheType /\ r.lock = b.lock /\ r.inTrans = b.inTrans /\ r.pWriter = b.pWriter
        /\ r.inTransaction = b.inTransaction /\ r.nTransaction = b.nTransaction
        /\ r.pending <=> b.pending \/ eLock = "write"
        /\ r.exclusive = b.exclusive
    BY <1>0 DEF Refused, CacheType
  <1> HIDE DEF r
  <1>2. ASSUME eLock = "write" PROVE b.pWriter # None /\ b.nTransaction > 1
    <2>1. PICK d \in Users(b) : d # c
      BY InTheWay
    <2>2. b.pWriter = c /\ c \in Users(b)
      BY <1>0, <1>2 DEF Locks, Users
    <2> QED BY <1>0, <2>1, <2>2, TwoUsers, UnlockNotifyAssumption DEF Counts
  <1>3. Counts(r) /\ Locks(r)
    BY <1>0, <1>1 DEF Counts, Locks, Users
  <1>4. Flags(r)
    BY <1>0, <1>1, <1>2 DEF Flags
  <1>5. LocksGrow(b, r) /\ KeepsOthers(b, r, c) /\ KeepsOut(b, r)
    BY <1>1 DEF LocksGrow, KeepsOthers, KeepsOut, Users
  <1> QED BY <1>1, <1>3, <1>4, <1>5 DEF CacheOK, r

(* The end of a transaction whose connection still reads: a writer becomes *)
(* a reader, and all write locks become read locks.                        *)
LEMMA Downgraded ==
  ASSUME NEW b, CacheOK(b), NEW c \in Conns, NEW n, n > 1, b.inTrans[c] # "none"
  PROVE  LET r == EndTransaction(b, c, n)
         IN  Proper(b, r, c) /\ Users(r) = Users(b)
  <1> DEFINE r == EndTransaction(b, c, n)
             inTrans == [b.inTrans EXCEPT ![c] = "read"]
             lock == [d \in Conns |-> [t \in AllTables |->
                         IF b.lock[d][t] = "none" THEN "none" ELSE "read"]]
  <1>0. b \in CacheType /\ Counts(b) /\ Locks(b) /\ Flags(b) /\ Schema \in AllTables
    BY DEF CacheOK, AllTables
  <1>1. CASE b.pWriter # c
    <2>1. b.inTrans[c] = "read"
      BY <1>0, <1>1 DEF Locks, CacheType, Modes
    <2>2. r = b
      BY <1>0, <1>1, <2>1 DEF EndTransaction, downgradeAllSharedCacheTableLocks, CacheType
    <2> QED BY <2>2, Same
  <1>2. CASE b.pWriter = c
    <2>1. r = [b EXCEPT !.inTransaction = "read", !.pWriter = None, !.exclusive = FALSE,
                        !.pending = FALSE, !.lock = lock, !.inTrans = inTrans]
      <3>1. b.inTrans[c] = "write"
        BY <1>0, <1>2 DEF Locks
      <3> QED BY <1>0, <1>2, <3>1
              DEF EndTransaction, downgradeAllSharedCacheTableLocks, CacheType
    <2>2. /\ inTrans \in [Conns -> Modes] /\ lock \in [Conns -> [AllTables -> Modes]]
          /\ inTrans[c] = "read" /\ \A d \in Conns : d # c => inTrans[d] = b.inTrans[d]
          /\ \A d \in Conns : \A t \in AllTables :
                lock[d][t] = IF b.lock[d][t] = "none" THEN "none" ELSE "read"
      BY <1>0 DEF CacheType, Modes
    <2> HIDE DEF r, inTrans, lock
    <2>3. /\ r \in CacheType /\ r.pWriter = None /\ ~r.exclusive /\ ~r.pending
          /\ r.inTransaction = "read" /\ r.nTransaction = b.nTransaction
          /\ r.inTrans = inTrans /\ r.lock = lock
      BY <1>0, <2>1, <2>2 DEF CacheType, Modes
    <2>4. Users(r) = Users(b)
      BY <2>2, <2>3 DEF Users
    <2>5. Counts(r)
      <3>1. r.nTransaction # 0
        BY <1>0, <2>3, SomeUser DEF Counts, Users
      <3> QED BY <1>0, <2>3, <2>4, <3>1 DEF Counts
    <2>6. \A d \in Conns : b.inTrans[d] # "write" \/ d = c
      BY <1>0, <1>2 DEF Locks
    <2>7. Locks(r)
      BY <1>0, <2>2, <2>3, <2>6, UnlockNotifyAssumption DEF Locks
    <2>8. Flags(r)
      BY <2>3 DEF Flags
    <2>9. KeepsLocks(b, r) /\ KeepsOthers(b, r, c) /\ KeepsOut(b, r)
      BY <2>2, <2>3, <2>4, <2>6 DEF KeepsLocks, KeepsOthers, KeepsOut
    <2> QED BY <2>3, <2>4, <2>5, <2>7, <2>8, <2>9 DEF CacheOK, Proper, r
  <1> QED BY <1>1, <1>2

(* The end of a transaction whose locks all go. *)
LEMMA AllCleared ==
  ASSUME NEW b, CacheOK(b), NEW c \in Conns, NEW n, ~(n > 1), b.inTrans[c] # "none"
  PROVE  LET r == EndTransaction(b, c, n)
         IN  Proper(b, r, c) /\ Users(r) = Users(b) \ {c}
  <1> DEFINE r == EndTransaction(b, c, n)
             inTrans == [b.inTrans EXCEPT ![c] = "none"]
             lock == [b.lock EXCEPT ![c] = [t \in AllTables |-> "none"]]
             left == IF b.nTransaction = 1 THEN "none"
                     ELSE IF b.inTrans[c] = "write" THEN "read" ELSE b.inTransaction
             writer == IF b.pWriter = c THEN None ELSE b.pWriter
  <1>0. b \in CacheType /\ Counts(b) /\ Locks(b) /\ Flags(b) /\ Schema \in AllTables
    BY DEF CacheOK, AllTables
  <1>1. /\ r.inTransaction = left /\ r.pWriter = writer /\ r.nTransaction = b.nTransaction - 1
        /\ r.inTrans = inTrans /\ r.lock = lock
        /\ r.exclusive = (b.exclusive /\ b.pWriter # c)
        /\ r.pending = (b.pending /\ b.pWriter # c /\ b.nTransaction # 2)
        /\ r = [pWriter |-> r.pWriter, exclusive |-> r.exclusive, pending |-> r.pending,
                inTransaction |-> r.inTransaction, nTransaction |-> r.nTransaction,
                inTrans |-> r.inTrans, lock |-> r.lock]
    BY <1>0 DEF EndTransaction, clearAllSharedCacheTableLocks, LastReader, CacheType
  <1>2. /\ inTrans \in [Conns -> Modes] /\ lock \in [Conns -> [AllTables -> Modes]]
        /\ inTrans[c] = "none" /\ \A d \in Conns : d # c => inTrans[d] = b.inTrans[d]
        /\ \A d \in Conns : \A t \in AllTables :
              lock[d][t] = IF d = c THEN "none" ELSE b.lock[d][t]
    BY <1>0 DEF CacheType, Modes
  <1>3. /\ c \in Users(b) /\ b.nTransaction \in Nat /\ b.nTransaction > 0
        /\ b.nTransaction = Cardinality(Users(b))
    BY <1>0, SomeUser DEF Counts, Users, CacheType
  <1>4. writer \in Conns \cup {None} /\ left \in Modes
    BY <1>0 DEF CacheType, Modes
  <1>5. b.inTrans[c] = "write" <=> b.pWriter = c
    BY <1>0 DEF Locks
  <1>6. ASSUME b.nTransaction = 1 PROVE Users(b) = {c}
    <2>1. Cardinality(Users(b)) <= 1
      BY <1>3, <1>6
    <2> QED BY <1>3, <2>1, OneUser
  <1> HIDE DEF r, inTrans, lock
  <1>7. r \in CacheType
    <2>1. r.exclusive \in BOOLEAN /\ r.pending \in BOOLEAN
      BY <1>1
    <2>2. r.nTransaction \in Nat /\ r.pWriter \in Conns \cup {None} /\ r.inTransaction \in Modes
      BY <1>1, <1>3, <1>4
    <2>3. r.inTrans \in [Conns -> Modes] /\ r.lock \in [Conns -> [AllTables -> Modes]]
      BY <1>1, <1>2
    <2> QED BY <1>1, <2>1, <2>2, <2>3 DEF CacheType
  <1>8. Users(r) = Users(b) \ {c}
    BY <1>1, <1>2 DEF Users
  <1>9. Counts(r)
    <2>1. r.nTransaction = Cardinality(Users(r))
      BY <1>1, <1>3, <1>8, UsersFinite, FS_RemoveElement
    <2>2. b.nTransaction = 1 => b.pWriter \in {c, None}
      BY <1>0, <1>6 DEF Locks, Users, CacheType
    <2>3. r.inTransaction = "write" <=> r.pWriter # None
      BY <1>0, <1>1, <1>5, <2>2 DEF Counts
    <2>4. r.inTransaction = "none" <=> r.nTransaction = 0
      BY <1>0, <1>1, <1>3 DEF Counts
    <2> QED BY <2>1, <2>3, <2>4 DEF Counts
  <1>10. Locks(r)
    BY <1>0, <1>1, <1>2, <1>5, UnlockNotifyAssumption DEF Locks
  <1>11. Flags(r)
    <2>1. r.pending => b.pending /\ r.pWriter # None /\ r.nTransaction > 1
      BY <1>0, <1>1, <1>3, <1>7 DEF Flags, CacheType
    <2>2. ~r.exclusive
      <3>1. SUFFICES ASSUME b.exclusive, b.pWriter # c PROVE FALSE
        BY <1>1
      <3>2. Users(b) = {c} /\ b.pWriter # None
        BY <1>0, <1>6, <3>1 DEF Flags
      <3> QED BY <1>0, <3>1, <3>2 DEF Locks, Users, CacheType
    <2> QED BY <2>1, <2>2 DEF Flags
  <1>12. KeepsLocks(b, r) /\ KeepsOthers(b, r, c) /\ KeepsOut(b, r)
    BY <1>1, <1>2, <1>8 DEF KeepsLocks, KeepsOthers, KeepsOut
  <1> QED BY <1>7, <1>8, <1>9, <1>10, <1>11, <1>12 DEF CacheOK, Proper, r

LEMMA EndOK ==
  ASSUME NEW b, CacheOK(b), NEW c \in Conns, NEW n
  PROVE  LET r == EndTransaction(b, c, n)
         IN  /\ Proper(b, r, c) /\ Users(r) \subseteq Users(b)
             /\ ~(n > 1) => c \notin Users(r)
  <1>1. CASE b.inTrans[c] = "none"
    <2>1. EndTransaction(b, c, n) = b
      BY <1>1 DEF EndTransaction
    <2> QED BY <1>1, <2>1, Same DEF Users
  <1>2. CASE b.inTrans[c] # "none"
    BY <1>2, Downgraded, AllCleared
  <1> QED BY <1>1, <1>2

-----------------------------------------------------------------------------
(* What the steps do to the caches and to the history.                     *)
CachesOK ==
    /\ cache \in [AllCaches -> CacheType]
    /\ changed \in [AllCaches -> [AllTables -> Conns \cup {None}]]
    /\ seen \in [AllCaches -> [Conns -> SUBSET AllTables]]
    /\ \A k \in AllCaches : CacheOK(cache[k]) /\ HistoryOK(cache[k], changed[k], seen[k])

(* A step on behalf of c leaves the caches in order. *)
Moves(c) ==
    /\ CachesOK'
    /\ \A k \in AllCaches : Proper(cache[k], cache'[k], c)

LEMMA NoMove ==
  ASSUME CachesOK, NEW c \in Conns, UNCHANGED <<cache, changed, seen>>
  PROVE  Moves(c)
  BY Same DEF CachesOK, Moves

LEMMA BecomesMoves ==
  ASSUME CachesOK, NEW c \in Conns, NEW new, DOMAIN new = AllCaches, new = [k \in AllCaches |-> new[k]],
         \A k \in AllCaches : Proper(cache[k], new[k], c), Becomes(new)
  PROVE  Moves(c)
  <1>1. cache' = new /\ \A k \in AllCaches : CacheOK(new[k]) /\ new[k] \in CacheType
    BY DEF Becomes, Proper, CacheOK
  <1>2. cache' \in [AllCaches -> CacheType]
    BY <1>1
  <1>3. \A k \in AllCaches : \A t \in AllTables : changed'[k][t] =
           IF \E d \in Conns : changed[k][t] = d /\ new[k].inTrans[d] = "write"
           THEN changed[k][t] ELSE None
    BY DEF Becomes
  <1>4. \A k \in AllCaches : \A d \in Conns : seen'[k][d] =
           IF new[k].inTrans[d] = "none" THEN {} ELSE seen[k][d] \cup {Schema}
    BY DEF Becomes
  <1>5. changed' \in [AllCaches -> [AllTables -> Conns \cup {None}]]
    BY DEF Becomes, CachesOK
  <1>6. seen' \in [AllCaches -> [Conns -> SUBSET AllTables]]
    BY DEF Becomes, CachesOK, AllTables
  <1>7. ASSUME NEW k \in AllCaches PROVE HistoryOK(new[k], changed'[k], seen'[k])
    <2>1. HistoryOK(cache[k], changed[k], seen[k]) /\ KeepsLocks(cache[k], new[k]) /\ Locks(new[k])
      BY DEF CachesOK, Proper, CacheOK
    <2>2. ASSUME NEW t \in AllTables, changed'[k][t] # None
          PROVE  new[k].lock[changed'[k][t]][t] = "write"
      <3>1. PICK d \in Conns : changed[k][t] = d /\ new[k].inTrans[d] = "write" /\ changed'[k][t] = d
        BY <1>3, <2>2
      <3>2. cache[k].lock[d][t] = "write"
        BY <2>1, <3>1, UnlockNotifyAssumption DEF HistoryOK
      <3> QED BY <2>1, <3>1, <3>2 DEF KeepsLocks
    <2>3. ASSUME NEW d \in Conns, NEW t \in seen'[k][d]
          PROVE  new[k].lock[d][t] # "none"
      <3>0. seen'[k][d] = IF new[k].inTrans[d] = "none" THEN {} ELSE seen[k][d] \cup {Schema}
        BY <1>4
      <3>1. new[k].inTrans[d] # "none" /\ (t \in seen[k][d] \/ t = Schema)
        <4>1. new[k].inTrans[d] # "none"
          BY <2>3, <3>0
        <4> QED BY <2>3, <3>0, <4>1
      <3>2. CASE t = Schema
        BY <2>1, <3>1, <3>2 DEF Locks
      <3>3. CASE t \in seen[k][d]
        BY <2>1, <3>1, <3>3 DEF HistoryOK, KeepsLocks
      <3> QED BY <3>1, <3>2, <3>3
    <2> QED BY <1>5, <1>6, <2>2, <2>3 DEF HistoryOK
  <1> QED BY <1>1, <1>2, <1>5, <1>6, <1>7 DEF Moves, CachesOK

(* The end of the transactions of c on all his caches. *)
LEMMA EndedProper ==
  ASSUME NEW c \in Conns, NEW n, NEW new, \A k \in AllCaches : CacheOK(new[k])
  PROVE  /\ DOMAIN Ended(new, c, n) = AllCaches
         /\ Ended(new, c, n) = [k \in AllCaches |-> Ended(new, c, n)[k]]
         /\ \A k \in AllCaches : Proper(new[k], Ended(new, c, n)[k], c)
         /\ \A k \in Caches \cap AllCaches : ~(n > 1) => c \notin Users(Ended(new, c, n)[k])
  <1>1. DOMAIN Ended(new, c, n) = AllCaches /\ Ended(new, c, n) = [k \in AllCaches |-> Ended(new, c, n)[k]]
    BY DEF Ended
  <1>2. \A k \in AllCaches : Ended(new, c, n)[k] =
           IF k \in Caches THEN EndTransaction(new[k], c, n) ELSE new[k]
    BY DEF Ended
  <1> QED BY <1>1, <1>2, EndOK, Same

LEMMA EndedMoves ==
  ASSUME CachesOK, NEW c \in Conns, NEW n, Becomes(Ended(cache, c, n))
  PROVE  Moves(c)
  BY EndedProper, BecomesMoves DEF CachesOK

LEMMA StartMoves ==
  ASSUME CachesOK, NEW c \in Conns, NEW k \in AllCaches, NEW t \in AllTables, NEW w \in BOOLEAN,
         Start(c, k, t, w)
  PROVE  Moves(c) /\ \A j \in AllCaches : LocksGrow(cache[j], cache'[j])
  <1> DEFINE b == Begun(cache[k], c, wrflag(w))
             r == WithLock(b, c, t, w)
  <1>0. /\ BeginRefused(cache[k], c, wrflag(w)) = {} /\ TableRefused(b, c, t, w) = {}
        /\ cache' = [cache EXCEPT ![k] = r]
        /\ changed' = IF w THEN [changed EXCEPT ![k][t] = c] ELSE changed
        /\ seen' = [seen EXCEPT ![k][c] = @ \cup {Schema} \cup IF NeedsLock(c, w) THEN {t} ELSE {}]
    BY DEF Start
  <1>1. wrflag(w) \in 0 .. 2 /\ (w => wrflag(w) > 0) /\ Level(w) \in {"read", "write"}
        /\ (Level(w) = "write" => w) /\ (w => Level(w) = "write" /\ NeedsLock(c, w))
    BY DEF wrflag, Level, NeedsLock
  <1>2. CacheOK(cache[k]) /\ HistoryOK(cache[k], changed[k], seen[k])
    BY DEF CachesOK
  <1>3. /\ CacheOK(b) /\ KeepsOthers(cache[k], b, c) /\ LocksGrow(cache[k], b) /\ KeepsOut(cache[k], b)
        /\ cache[k].pending => b.pending
        /\ b.inTrans[c] # "none" /\ (w => b.inTrans[c] = "write")
    BY <1>0, <1>1, <1>2, BegunOK
  <1> HIDE DEF b
  <1>4. /\ Proper(b, r, c) /\ r.inTrans = b.inTrans /\ LocksGrow(b, r)
        /\ NeedsLock(c, w) => r.lock[c][t] # "none"
        /\ w => r.lock[c][t] = "write"
    <2>1. CASE NeedsLock(c, w)
      <3>1. r = setSharedCacheTableLock(b, c, t, Level(w))
        BY <2>1 DEF WithLock
      <3>2. querySharedCacheTableLock(b, c, t, Level(w)) = {}
        BY <1>0, <2>1 DEF TableRefused
      <3>3. Proper(b, r, c) /\ r.inTrans = b.inTrans /\ r.lock[c][t] \in {"write", Level(w)}
            /\ (w => r.lock[c][t] = "write")
        BY <1>1, <1>3, <3>1, <3>2, LockOK
      <3>4. LocksGrow(b, r)
        BY <3>3, <1>3 DEF Proper, KeepsLocks, LocksGrow, CacheOK, Locks
      <3> QED BY <1>1, <3>3, <3>4
    <2>2. CASE ~NeedsLock(c, w)
      <3>1. r = b /\ ~w
        BY <1>1, <2>2 DEF WithLock
      <3> QED BY <1>3, <2>2, <3>1, Same
    <2> QED BY <2>1, <2>2
  <1> HIDE DEF r
  <1>5. Proper(cache[k], r, c)
    BY <1>3, <1>4, GrowThenProper
  <1>6. /\ CacheOK(r) /\ r \in CacheType /\ Locks(r)
        /\ LocksGrow(cache[k], r) /\ r.inTrans[c] # "none"
    BY <1>3, <1>4 DEF Proper, CacheOK, LocksGrow
  <1>7. cache' \in [AllCaches -> CacheType] /\ cache'[k] = r /\ \A j \in AllCaches : j # k => cache'[j] = cache[j]
    BY <1>0, <1>6 DEF CachesOK
  <1>8. changed' \in [AllCaches -> [AllTables -> Conns \cup {None}]]
        /\ (\A j \in AllCaches : j # k => changed'[j] = changed[j])
        /\ \A u \in AllTables : changed'[k][u] = IF w /\ u = t THEN c ELSE changed[k][u]
    BY <1>0 DEF CachesOK
  <1>9. seen' \in [AllCaches -> [Conns -> SUBSET AllTables]]
        /\ (\A j \in AllCaches : j # k => seen'[j] = seen[j])
        /\ \A d \in Conns : seen'[k][d] = IF d # c THEN seen[k][d] ELSE
              seen[k][d] \cup {Schema} \cup IF NeedsLock(c, w) THEN {t} ELSE {}
    BY <1>0 DEF CachesOK, AllTables
  <1>10. HistoryOK(r, changed'[k], seen'[k])
    <2>1. ASSUME NEW u \in AllTables, changed'[k][u] # None
          PROVE  r.lock[changed'[k][u]][u] = "write"
      <3>1. CASE w /\ u = t
        BY <1>4, <1>8, <3>1
      <3>2. CASE ~(w /\ u = t)
        <4>1. changed'[k][u] = changed[k][u] /\ changed[k][u] \in Conns
          BY <1>2, <1>8, <2>1, <3>2 DEF HistoryOK
        <4> QED BY <1>2, <1>6, <2>1, <4>1 DEF HistoryOK, LocksGrow
      <3> QED BY <3>1, <3>2
    <2>2. ASSUME NEW d \in Conns, NEW u \in seen'[k][d]
          PROVE  r.lock[d][u] # "none"
      <3>1. u \in seen[k][d] \/ (d = c /\ u = Schema) \/ (d = c /\ u = t /\ NeedsLock(c, w))
        BY <1>9, <2>2
      <3>2. CASE u \in seen[k][d]
        BY <1>2, <1>6, <3>2 DEF HistoryOK, LocksGrow
      <3>3. CASE d = c /\ u = Schema
        BY <1>6, <3>3 DEF Locks
      <3> QED BY <1>4, <3>1, <3>2, <3>3
    <2> QED BY <1>8, <1>9, <2>1, <2>2 DEF HistoryOK
  <1>11. CachesOK'
    BY <1>6, <1>7, <1>8, <1>9, <1>10 DEF CachesOK
  <1>12. ASSUME NEW j \in AllCaches
         PROVE  Proper(cache[j], cache'[j], c) /\ LocksGrow(cache[j], cache'[j])
    <2>1. CASE j = k
      BY <1>5, <1>6, <1>7, <2>1
    <2>2. CASE j # k
      BY <1>7, <2>2, Same DEF CachesOK
    <2> QED BY <2>1, <2>2
  <1> QED BY <1>11, <1>12 DEF Moves

-----------------------------------------------------------------------------
(* The steps.                                                              *)

(* A record of caches with one of them replaced. *)
LEMMA OneBecomes ==
  ASSUME CachesOK, NEW c \in Conns, NEW k \in AllCaches, NEW r,
         Proper(cache[k], r, c), Becomes([cache EXCEPT ![k] = r])
  PROVE  Moves(c)
  <1> DEFINE new == [cache EXCEPT ![k] = r]
  <1>1. /\ DOMAIN new = AllCaches /\ new = [j \in AllCaches |-> new[j]]
        /\ new[k] = r /\ \A j \in AllCaches : j # k => new[j] = cache[j]
    BY DEF CachesOK
  <1>2. Becomes(new)
    OBVIOUS
  <1> HIDE DEF new
  <1>3. \A j \in AllCaches : Proper(cache[j], new[j], c)
    BY <1>1, Same DEF CachesOK
  <1> QED BY <1>1, <1>2, <1>3, BecomesMoves

(* The end of the transactions of c, after cache k has changed. *)
LEMMA HaltMoves ==
  ASSUME CachesOK, NEW c \in Conns, NEW k \in AllCaches, NEW r,
         Proper(cache[k], r, c), LocksGrow(cache[k], r), cache[k].pending => r.pending,
         HaltRefused(c, [cache EXCEPT ![k] = r])
  PROVE  Moves(c)
  <1> DEFINE new == [cache EXCEPT ![k] = r]
  <1>1. CASE Becomes(new)
    BY <1>1, OneBecomes
  <1>2. CASE Becomes(Ended(new, c, Count(c) + 1))
    <2> DEFINE end == Ended(new, c, Count(c) + 1)
    <2>1. new[k] = r /\ \A j \in AllCaches : j # k => new[j] = cache[j]
      BY DEF CachesOK
    <2> HIDE DEF new
    <2>2. \A j \in AllCaches : /\ Proper(cache[j], new[j], c) /\ LocksGrow(cache[j], new[j])
                               /\ cache[j].pending => new[j].pending
      BY <2>1, Same DEF CachesOK
    <2>3. \A j \in AllCaches : CacheOK(new[j])
      BY <2>2 DEF Proper
    <2>4. /\ DOMAIN end = AllCaches /\ end = [j \in AllCaches |-> end[j]]
          /\ \A j \in AllCaches : Proper(new[j], end[j], c)
      BY <2>3, EndedProper
    <2>5. Becomes(end)
      BY <1>2
    <2> HIDE DEF end
    <2>6. \A j \in AllCaches : Proper(cache[j], end[j], c)
      BY <2>2, <2>4, GrowThenProper DEF Proper
    <2> QED BY <2>4, <2>5, <2>6, BecomesMoves
  <1> QED BY <1>1, <1>2 DEF HaltRefused

LEMMA StartRefusedMoves ==
  ASSUME CachesOK, NEW c \in Conns, NEW k \in AllCaches, NEW t \in AllTables, NEW w \in BOOLEAN,
         StartRefused(c, k, t, w)
  PROVE  Moves(c)
  <1>1. cache = [cache EXCEPT ![k] = cache[k]]
    BY DEF CachesOK
  <1>2. HaltRefused(c, [cache EXCEPT ![k] = cache[k]])
    BY <1>1 DEF StartRefused
  <1> QED BY <1>2, Same, HaltMoves DEF CachesOK

LEMMA LevelTypes ==
  ASSUME NEW w \in BOOLEAN, NEW c \in Conns
  PROVE  /\ wrflag(w) \in 0 .. 2 /\ (w => wrflag(w) > 0) /\ Level(w) \in {"read", "write"}
         /\ (Level(w) = "write" => w) /\ (w => Level(w) = "write" /\ NeedsLock(c, w))
  BY DEF wrflag, Level, NeedsLock

(* A cache on which c could begin, but not lock the table. *)
LEMMA LockRefusedCache ==
  ASSUME NEW a, CacheOK(a), NEW c \in Conns, NEW t \in AllTables, NEW w \in BOOLEAN,
         BeginRefused(a, c, wrflag(w)) = {},
         TableRefused(Begun(a, c, wrflag(w)), c, t, w) # {}
  PROVE  LET b == Begun(a, c, wrflag(w))
             r == Refused(b, Level(w))
         IN  /\ Proper(a, r, c) /\ LocksGrow(a, r) /\ (a.pending => r.pending)
             /\ r.inTrans[c] # "none"
             /\ TableRefused(b, c, t, w) \subseteq Users(a) \ {c}
  <1> DEFINE b == Begun(a, c, wrflag(w))
             r == Refused(b, Level(w))
  <1>1. /\ CacheOK(b) /\ KeepsOthers(a, b, c) /\ LocksGrow(a, b) /\ KeepsOut(a, b)
        /\ a.pending => b.pending
        /\ b.inTrans[c] # "none" /\ (w => b.inTrans[c] = "write")
    BY LevelTypes, BegunOK
  <1> HIDE DEF b
  <1>2. NeedsLock(c, w) /\ TableRefused(b, c, t, w) = querySharedCacheTableLock(b, c, t, Level(w))
    BY DEF TableRefused, b
  <1>3. querySharedCacheTableLock(b, c, t, Level(w)) # {}
    BY <1>2 DEF b
  <1>4. /\ CacheOK(r) /\ KeepsOthers(b, r, c) /\ LocksGrow(b, r) /\ KeepsOut(b, r)
        /\ b.pending => r.pending
        /\ r.inTrans = b.inTrans
    BY <1>1, <1>3, LevelTypes, RefusedOK
  <1>5. TableRefused(b, c, t, w) \subseteq Users(b) \ {c}
    BY <1>1, <1>2, LevelTypes, InTheWay
  <1> HIDE DEF r
  <1>6. Proper(b, r, c)
    BY <1>4, GrowIsProper
  <1>7. Proper(a, r, c)
    BY <1>1, <1>6, GrowThenProper
  <1>8. LocksGrow(a, r)
    BY <1>1, <1>4 DEF LocksGrow
  <1>9. TableRefused(b, c, t, w) \subseteq Users(a) \ {c}
    BY <1>1, <1>5 DEF Users, KeepsOthers
  <1> QED BY <1>1, <1>4, <1>7, <1>8, <1>9 DEF b, r

LEMMA LockRefusedMoves ==
  ASSUME CachesOK, NEW c \in Conns, NEW k \in AllCaches, NEW t \in AllTables, NEW w \in BOOLEAN,
         LockRefused(c, k, t, w)
  PROVE  Moves(c)
  <1> DEFINE b == Begun(cache[k], c, wrflag(w))
             r == Refused(b, Level(w))
  <1>1. /\ BeginRefused(cache[k], c, wrflag(w)) = {} /\ TableRefused(b, c, t, w) # {}
        /\ HaltRefused(c, [cache EXCEPT ![k] = r])
    BY DEF LockRefused
  <1>2. Proper(cache[k], r, c) /\ LocksGrow(cache[k], r) /\ (cache[k].pending => r.pending)
    BY <1>1, LockRefusedCache DEF CachesOK
  <1> HIDE DEF r, b
  <1> QED BY <1>1, <1>2, HaltMoves

LEMMA BeginWriteMoves ==
  ASSUME CachesOK, NEW c \in Conns, NEW flag \in 1 .. 2, BeginWrite(c, flag)
  PROVE  Moves(c)
  <1>1. CASE UNCHANGED <<cache, changed, seen>>
    BY <1>1, NoMove
  <1>2. CASE /\ \A k \in Caches : BeginRefused(cache[k], c, flag) = {}
             /\ Becomes([k \in AllCaches |-> IF k \in Caches THEN Begun(cache[k], c, flag)
                                             ELSE cache[k]])
    <2> DEFINE new == [k \in AllCaches |-> IF k \in Caches THEN Begun(cache[k], c, flag) ELSE cache[k]]
    <2>1. ASSUME NEW k \in AllCaches PROVE Proper(cache[k], new[k], c)
      <3>1. CASE k \in Caches
        <4>1. new[k] = Begun(cache[k], c, flag) /\ flag \in 0 .. 2 /\ CacheOK(cache[k])
          BY <3>1 DEF CachesOK
        <4> QED BY <1>2, <3>1, <4>1, BegunOK, GrowIsProper
      <3>2. CASE k \notin Caches
        BY <3>2, Same DEF CachesOK
      <3> QED BY <3>1, <3>2
    <2>2. DOMAIN new = AllCaches /\ new = [k \in AllCaches |-> new[k]] /\ Becomes(new)
      BY <1>2
    <2> HIDE DEF new
    <2> QED BY <2>1, <2>2, BecomesMoves
  <1> QED BY <1>1, <1>2 DEF BeginWrite

LEMMA BackupStepMoves ==
  ASSUME CachesOK, NEW c \in Conns, NEW k \in AllCaches, BackupStep(c, k)
  PROVE  Moves(c)
  <1>1. CASE UNCHANGED <<cache, changed, seen>>
    BY <1>1, NoMove
  <1>2. CASE /\ BeginRefused(cache[k], c, 2) = {}
             /\ Becomes([cache EXCEPT ![k] = Begun(cache[k], c, 2)])
    <2>1. Proper(cache[k], Begun(cache[k], c, 2), c)
      BY <1>2, BegunOK, GrowIsProper DEF CachesOK
    <2> QED BY <1>2, <2>1, OneBecomes
  <1> QED BY <1>1, <1>2 DEF BackupStep

LEMMA StepMoves ==
  ASSUME CachesOK, Caches \subseteq AllCaches, NEW c \in Conns, Step(c)
  PROVE  Moves(c)
  <1>1. ASSUME NEW k \in Caches, NEW t \in AllTables, NEW w \in BOOLEAN,
               Start(c, k, t, w) \/ StartRefused(c, k, t, w) \/ LockRefused(c, k, t, w)
        PROVE  Moves(c)
    BY <1>1, StartMoves, StartRefusedMoves, LockRefusedMoves
  <1>2. ASSUME NEW w \in BOOLEAN, FailStatement(c, w) PROVE Moves(c)
    BY <1>2, EndedMoves DEF FailStatement
  <1>3. ASSUME NEW flag \in 1 .. 2, BeginWrite(c, flag) PROVE Moves(c)
    BY <1>3, BeginWriteMoves
  <1>4. ASSUME NEW k \in Caches, EndCache(c, k) \/ BackupEnd(c, k) PROVE Moves(c)
    <2>1. \A n : Proper(cache[k], EndTransaction(cache[k], c, n), c)
      BY EndOK DEF CachesOK
    <2> QED BY <1>4, <2>1, OneBecomes DEF EndCache, BackupEnd
  <1>5. ASSUME NEW k \in Caches, BackupStep(c, k) PROVE Moves(c)
    BY <1>5, BackupStepMoves
  <1>6. CASE Rollback(c) \/ Close(c)
    BY <1>6, EndedMoves DEF Rollback, Close
  <1>7. ASSUME UNCHANGED <<cache, changed, seen>> PROVE Moves(c)
    BY <1>7, NoMove
  <1>8. CASE \/ \E w \in BOOLEAN : FinishStatement(c, w)
             \/ PrepareRefused(c) \/ Begin(c) \/ Commit(c)
             \/ Unlock(c) \/ Closed(c) \/ Open(c) \/ Register(c) \/ Cancel(c)
    BY <1>7, <1>8 DEF FinishStatement, PrepareRefused, Begin, Commit, Unlock, Closed, Open,
                      Register, Cancel
  <1> QED BY <1>1, <1>2, <1>3, <1>4, <1>5, <1>6, <1>8 DEF Step

-----------------------------------------------------------------------------
(* The inductive invariant.                                                *)

ConnTypes ==
    /\ autoCommit \in [Conns -> BOOLEAN]
    /\ active \in [Conns -> [r : Nat, w : 0 .. 1]]
    /\ stage \in [Conns -> {"ready", "ending", "unlocking", "closing", "closed", "backup"}]
    /\ todo \in [Conns -> SUBSET AllCaches]

(* Who is closed has no transaction, and a backup is for who may make one. *)
StagesOK ==
    \A c \in Conns :
        /\ stage[c] \in {"closing", "closed"} => \A k \in Caches : c \notin Users(cache[k])
        /\ stage[c] = "backup" => setting.backup

IInv ==
    /\ setting \in Settings
    /\ ConnTypes
    /\ NotifyTypeOK
    /\ CachesOK
    /\ StagesOK
    /\ NoLostWakeUp
    /\ NoWaitCycle

LEMMA SettingType == ASSUME setting \in Settings PROVE Caches \subseteq AllCaches
  BY SharedCacheAssumption DEF Caches

LEMMA StepSetting == ASSUME NEW c \in Conns, Step(c) PROVE UNCHANGED setting
  BY ZenonT(60)
     DEF Step, Start, StartRefused, LockRefused, HaltRefused, FinishStatement, FailStatement,
         BeginWrite, EndCache, BackupStep, BackupEnd, PrepareRefused, Begin, Commit, Rollback,
         Unlock, Close, Closed, Open, Register, Cancel

LEMMA EndingTypes ==
  ASSUME ConnTypes, Caches \subseteq AllCaches, NEW c \in Conns, Ending(c)
  PROVE  /\ stage' \in [Conns -> {"ready", "ending", "unlocking", "closing", "closed", "backup"}]
         /\ todo' \in [Conns -> SUBSET AllCaches]
         /\ stage'[c] \in {"ending", "unlocking"}
  <1> DEFINE used == {k \in Caches : cache[k].inTrans[c] # "none"}
  <1>1. todo' = [todo EXCEPT ![c] = used] /\ used \subseteq AllCaches
    BY DEF Ending
  <1>2. stage' = [stage EXCEPT ![c] = IF used = {} THEN "unlocking" ELSE "ending"]
    BY DEF Ending, At
  <1> HIDE DEF used
  <1> QED BY <1>1, <1>2 DEF ConnTypes

LEMMA WithoutType ==
  ASSUME ConnTypes, NEW c \in Conns, NEW w \in BOOLEAN, InProgress(c, w)
  PROVE  Without(c, w) \in [Conns -> [r : Nat, w : 0 .. 1]]
  BY DEF ConnTypes, InProgress, Without

LEMMA StepConnTypes ==
  ASSUME ConnTypes, Caches \subseteq AllCaches, NEW c \in Conns, Step(c)
  PROVE  ConnTypes'
  <1>1. ASSUME NEW k \in Caches, NEW t \in AllTables, NEW w \in BOOLEAN,
               Start(c, k, t, w) PROVE ConnTypes'
    BY <1>1 DEF ConnTypes, Start
  <1>2. ASSUME NEW k \in Caches, NEW t \in AllTables, NEW w \in BOOLEAN,
               StartRefused(c, k, t, w) \/ LockRefused(c, k, t, w) PROVE ConnTypes'
    BY <1>2 DEF ConnTypes, StartRefused, LockRefused, HaltRefused, Unlocking, At
  <1>3. ASSUME NEW w \in BOOLEAN, FinishStatement(c, w) PROVE ConnTypes'
    <2>1. active' \in [Conns -> [r : Nat, w : 0 .. 1]] /\ autoCommit' = autoCommit
      BY <1>3, WithoutType DEF FinishStatement
    <2>2. CASE Ending(c)
      BY <2>1, <2>2, EndingTypes DEF ConnTypes
    <2>3. CASE ~Ending(c)
      BY <1>3, <2>1, <2>3 DEF ConnTypes, FinishStatement, Unlocking, At
    <2> QED BY <2>2, <2>3
  <1>4. ASSUME NEW w \in BOOLEAN, FailStatement(c, w) PROVE ConnTypes'
    <2>1. active' \in [Conns -> [r : Nat, w : 0 .. 1]]
      BY <1>4, WithoutType DEF FailStatement
    <2> QED BY <1>4, <2>1 DEF ConnTypes, FailStatement, Unlocking, At
  <1>5. ASSUME NEW flag \in 1 .. 2, BeginWrite(c, flag) PROVE ConnTypes'
    BY <1>5 DEF ConnTypes, BeginWrite, Unlocking, At
  <1>6. ASSUME NEW k \in Caches, EndCache(c, k) \/ BackupEnd(c, k) PROVE ConnTypes'
    BY <1>6 DEF ConnTypes, EndCache, BackupEnd, Unlocking, At
  <1>7. ASSUME NEW k \in Caches, BackupStep(c, k) PROVE ConnTypes'
    BY <1>7 DEF ConnTypes, BackupStep, At
  <1>8. CASE Rollback(c) \/ Close(c) \/ Begin(c)
    BY <1>8 DEF ConnTypes, Rollback, Close, Begin, Unlocking, At
  <1>9. CASE Commit(c)
    BY <1>9, EndingTypes DEF ConnTypes, Commit
  <1>10. CASE Unlock(c) \/ Closed(c) \/ Open(c)
    BY <1>10 DEF ConnTypes, Unlock, Closed, Open, At
  <1>11. CASE PrepareRefused(c) \/ Register(c) \/ Cancel(c)
    BY <1>11 DEF ConnTypes, PrepareRefused, Register, Cancel, connVars
  <1> QED BY <1>1, <1>2, <1>3, <1>4, <1>5, <1>6, <1>7, <1>8, <1>9, <1>10, <1>11 DEF Step

(* What a step does to the pointers. *)
LEMMA StepPointers ==
  ASSUME CachesOK, Caches \subseteq AllCaches, NEW c \in Conns, Step(c)
  PROVE  \/ UNCHANGED notifyVars
         \/ \E k \in Caches : \E d \in Users(cache[k]) \ {c} : ConnectionBlocked(c, d)
         \/ Unlock(c) \/ Closed(c) \/ Register(c) \/ Cancel(c)
  <1> DEFINE Refusal == \E k \in Caches : \E d \in Users(cache[k]) \ {c} : ConnectionBlocked(c, d)
  <1>0. \A k \in Caches : CacheOK(cache[k])
    BY DEF CachesOK
  <1>1. ASSUME NEW k \in Caches, NEW t \in AllTables, NEW w \in BOOLEAN, StartRefused(c, k, t, w)
        PROVE  Refusal
    BY <1>0, <1>1, LevelTypes, InTheWay DEF StartRefused
  <1>2. ASSUME NEW k \in Caches, NEW t \in AllTables, NEW w \in BOOLEAN, LockRefused(c, k, t, w)
        PROVE  Refusal
    <2> DEFINE b == Begun(cache[k], c, wrflag(w))
    <2>1. PICK d \in TableRefused(b, c, t, w) : ConnectionBlocked(c, d)
      BY <1>2 DEF LockRefused
    <2>2. BeginRefused(cache[k], c, wrflag(w)) = {} /\ TableRefused(b, c, t, w) # {}
      BY <1>2, <2>1 DEF LockRefused
    <2>3. d \in Users(cache[k]) \ {c}
      BY <1>0, <2>1, <2>2, LockRefusedCache
    <2> QED BY <2>1, <2>3
  <1>3. ASSUME NEW flag \in 1 .. 2, BeginWrite(c, flag) PROVE Refusal \/ UNCHANGED notifyVars
    <2>1. flag \in 0 .. 2 /\ Schema \in AllTables
      BY DEF AllTables
    <2> QED BY <1>0, <1>3, <2>1, InTheWay DEF BeginWrite
  <1>4. ASSUME NEW k \in Caches, BackupStep(c, k) PROVE Refusal \/ UNCHANGED notifyVars
    <2>1. 2 \in 0 .. 2 /\ Schema \in AllTables
      BY DEF AllTables
    <2> QED BY <1>0, <1>4, <2>1, InTheWay DEF BackupStep
  <1>5. ASSUME PrepareRefused(c) PROVE Refusal
    <2>1. Schema \in AllTables
      BY DEF AllTables
    <2> QED BY <1>0, <1>5, <2>1, InTheWay DEF PrepareRefused
  <1>6. ASSUME \/ \E k \in Caches, t \in AllTables, w \in BOOLEAN : Start(c, k, t, w)
               \/ \E w \in BOOLEAN : FinishStatement(c, w) \/ FailStatement(c, w)
               \/ \E k \in Caches : EndCache(c, k) \/ BackupEnd(c, k)
               \/ Begin(c) \/ Commit(c) \/ Rollback(c) \/ Close(c) \/ Open(c)
        PROVE  UNCHANGED notifyVars
    BY <1>6 DEF Start, FinishStatement, FailStatement, EndCache, BackupEnd, Begin, Commit, Rollback,
                Close, Open
  <1> HIDE DEF Refusal
  <1> DEFINE Done == Refusal \/ UNCHANGED notifyVars \/ Unlock(c) \/ Closed(c) \/ Register(c) \/ Cancel(c)
  <1> HIDE DEF Done
  <1>7. ASSUME \E k \in Caches, t \in AllTables, w \in BOOLEAN :
                  StartRefused(c, k, t, w) \/ LockRefused(c, k, t, w)
        PROVE  Done
    BY <1>1, <1>2, <1>7 DEF Done
  <1>8. ASSUME \/ \E flag \in 1 .. 2 : BeginWrite(c, flag)
               \/ \E k \in Caches : BackupStep(c, k)
        PROVE  Done
    BY <1>3, <1>4, <1>8 DEF Done
  <1>9. Done
    BY <1>5, <1>6, <1>7, <1>8 DEF Step, Done
  <1> QED BY <1>9 DEF Done, Refusal

LEMMA StepNotifyType ==
  ASSUME CachesOK, NotifyTypeOK, Caches \subseteq AllCaches, NEW c \in Conns, Step(c)
  PROVE  NotifyTypeOK'
  <1>1. CASE UNCHANGED notifyVars
    BY <1>1 DEF NotifyTypeOK, notifyVars
  <1>2. ASSUME NEW d \in Conns, ConnectionBlocked(c, d) PROVE NotifyTypeOK'
    BY <1>2 DEF NotifyTypeOK, ConnectionBlocked
  <1>3. CASE Unlock(c)
    BY <1>3 DEF NotifyTypeOK, Unlock, ConnectionUnlocked, Cleared
  <1>4. CASE Closed(c)
    BY <1>4 DEF NotifyTypeOK, Closed, ConnectionClosed, Cleared
  <1>5. CASE Register(c)
    BY <1>5 DEF NotifyTypeOK, Register, unlock_notify
  <1>6. CASE Cancel(c)
    BY <1>6 DEF NotifyTypeOK, Cancel, CancelNotify
  <1> QED BY <1>1, <1>2, <1>3, <1>4, <1>5, <1>6, StepPointers DEF Users

-----------------------------------------------------------------------------
(* Whoever has a transaction keeps it, unless it ends.                     *)

LEMMA GrowKeepsUser ==
  ASSUME NEW b, NEW r, CacheOK(b), CacheOK(r), LocksGrow(b, r)
  PROVE  Users(b) \subseteq Users(r)
  <1>1. Locks(b) /\ Locks(r) /\ Schema \in AllTables
    BY DEF CacheOK, AllTables
  <1>2. ASSUME NEW c \in Users(b) PROVE c \in Users(r)
    <2>1. c \in Conns /\ b.lock[c][Schema] # "none"
      BY <1>1 DEF Users, Locks
    <2> QED BY <1>1, <2>1 DEF Users, Locks, LocksGrow
  <1> QED BY <1>2

LEMMA StepStages ==
  ASSUME CachesOK, ConnTypes, StagesOK, Caches \subseteq AllCaches, NEW c \in Conns, Step(c), Moves(c)
  PROVE  /\ StagesOK'
         /\ \A d \in Conns \ {c} : stage'[d] = stage[d]
         /\ stage'[c] = "closed" => stage[c] = "closed" \/ Closed(c)
  <1> DEFINE Clear == \A k \in Caches : c \notin Users(cache'[k])
  <1>0. UNCHANGED setting /\ Caches' = Caches
    BY StepSetting DEF Caches
  <1>1. (\A d \in Conns \ {c} : stage'[d] = stage[d])
        /\ \/ UNCHANGED <<stage, cache>>
           \/ UNCHANGED stage /\ stage[c] \in {"ready", "ending"}
           \/ stage'[c] \in {"ending", "unlocking", "ready"}
           \/ stage'[c] = "closing" /\ Clear
           \/ stage'[c] = "closed" /\ stage[c] = "closing" /\ UNCHANGED cache /\ Closed(c)
           \/ stage'[c] = "backup" /\ setting.backup
    <2> DEFINE Done ==
          (\A d \in Conns \ {c} : stage'[d] = stage[d])
          /\ \/ UNCHANGED <<stage, cache>>
             \/ UNCHANGED stage /\ stage[c] \in {"ready", "ending"}
             \/ stage'[c] \in {"ending", "unlocking", "ready"}
             \/ stage'[c] = "closing" /\ Clear
             \/ stage'[c] = "closed" /\ stage[c] = "closing" /\ UNCHANGED cache /\ Closed(c)
             \/ stage'[c] = "backup" /\ setting.backup
    <2>1. ASSUME NEW k \in Caches, NEW t \in AllTables, NEW w \in BOOLEAN,
                 Start(c, k, t, w) \/ StartRefused(c, k, t, w) \/ LockRefused(c, k, t, w)
          PROVE  Done
      BY <2>1 DEF Start, StartRefused, LockRefused, HaltRefused, Startable, CanTry, CanAct, Unlocking,
                  At, ConnTypes
    <2>2. ASSUME NEW w \in BOOLEAN, FinishStatement(c, w) PROVE Done
      BY <2>2 DEF FinishStatement, CanAct, Ending, Unlocking, At, ConnTypes
    <2>3. ASSUME NEW w \in BOOLEAN, FailStatement(c, w) PROVE Done
      BY <2>3 DEF FailStatement, Unlocking, At, ConnTypes
    <2>4. ASSUME NEW flag \in 1 .. 2, BeginWrite(c, flag) PROVE Done
      BY <2>4 DEF BeginWrite, CanAct, Unlocking, At, ConnTypes
    <2>5. ASSUME NEW k \in Caches, EndCache(c, k) \/ BackupEnd(c, k) PROVE Done
      BY <2>5 DEF EndCache, BackupEnd, Unlocking, At, ConnTypes
    <2>6. ASSUME NEW k \in Caches, BackupStep(c, k) PROVE Done
      BY <2>6 DEF BackupStep, At, ConnTypes
    <2>7. ASSUME Close(c) PROVE Done
      <3>1. Becomes(Ended(cache, c, 0)) /\ stage' = [stage EXCEPT ![c] = "closing"]
        BY <2>7 DEF Close, At
      <3>2. Clear
        <4>1. cache' = Ended(cache, c, 0) /\ ~(0 > 1) /\ \A k \in AllCaches : CacheOK(cache[k])
          BY <3>1 DEF Becomes, CachesOK
        <4> QED BY <4>1, EndedProper
      <3> HIDE DEF Clear
      <3> QED BY <3>1, <3>2 DEF ConnTypes
    <2> HIDE DEF Clear
    <2>8. ASSUME Unlock(c) \/ Closed(c) \/ Open(c) \/ Rollback(c) \/ Commit(c) \/ Begin(c)
          PROVE  Done
      BY <2>8 DEF Unlock, Closed, Open, Rollback, Commit, Begin, Ending, Unlocking, At, ConnTypes
    <2>9. ASSUME PrepareRefused(c) \/ Register(c) \/ Cancel(c) PROVE Done
      BY <2>9 DEF PrepareRefused, Register, Cancel, connVars
    <2> HIDE DEF Done
    <2>10. Done
      BY <2>1, <2>2, <2>3, <2>4, <2>5, <2>6, <2>7, <2>8, <2>9 DEF Step
    <2> QED BY <2>10 DEF Done
  <1>2. ASSUME NEW d \in Conns \ {c}, NEW k \in Caches, d \notin Users(cache[k])
        PROVE  d \notin Users(cache'[k])
    BY <1>2 DEF Moves, Proper, KeepsOthers, Users
  <1>3. stage'[c] \in {"closing", "closed"} => Clear
    BY <1>1 DEF StagesOK
  <1>4. stage'[c] = "backup" => setting.backup
    BY <1>1 DEF StagesOK
  <1>5. \A d \in Conns \ {c} : stage'[d] \in {"closing", "closed"} => \A k \in Caches : d \notin Users(cache'[k])
    BY <1>1, <1>2 DEF StagesOK
  <1>6. \A d \in Conns \ {c} : stage'[d] = "backup" => setting.backup
    BY <1>1 DEF StagesOK
  <1>7. \A k : Users(cache'[k]) = Users(cache[k])'
    BY DEF Users
  <1>8. StagesOK'
    BY <1>0, <1>3, <1>4, <1>5, <1>6, <1>7 DEF StagesOK
  <1> QED BY <1>1, <1>8

(* Whoever others may wait for stays so until he tells them. *)
LEMMA StepConcludes ==
  ASSUME CachesOK, ConnTypes, StagesOK, Caches \subseteq AllCaches, NEW c \in Conns, Step(c),
         Concluding(c), ~Unlock(c), ~Closed(c), ~setting.backup
  PROVE  Concluding(c)'
  <1> DEFINE Telling == stage'[c] \in {"ending", "unlocking", "closing"}
             Keeping == \A k \in Caches : Users(cache[k]) \subseteq Users(cache'[k])
  <1>0. Caches' = Caches
    BY StepSetting DEF Caches
  <1>1. Telling \/ (Keeping /\ stage'[c] = stage[c]) \/ (UNCHANGED cache /\ stage[c] = "closed")
    <2> DEFINE Done == Telling \/ (Keeping /\ stage'[c] = stage[c]) \/ (UNCHANGED cache /\ stage[c] = "closed")
    <2>1. ASSUME NEW k \in Caches, NEW t \in AllTables, NEW w \in BOOLEAN, Start(c, k, t, w)
          PROVE  Done
      <3>1. Moves(c) /\ \A j \in AllCaches : LocksGrow(cache[j], cache'[j])
        BY <2>1, StartMoves
      <3>2. Keeping
        BY <3>1, GrowKeepsUser DEF Moves, Proper, CachesOK
      <3> QED BY <2>1, <3>2 DEF Start
    <2>2. ASSUME NEW k \in AllCaches, NEW r, Proper(cache[k], r, c), LocksGrow(cache[k], r),
                 HaltRefused(c, [cache EXCEPT ![k] = r])
          PROVE  Done
      <3>1. CASE autoCommit[c]
        BY <2>2, <3>1 DEF HaltRefused, Unlocking, At, ConnTypes
      <3>2. CASE ~autoCommit[c]
        <4>1. Users(cache[k]) \subseteq Users(r)
          BY <2>2, GrowKeepsUser DEF Proper, CachesOK
        <4>2. cache' = [cache EXCEPT ![k] = r] /\ UNCHANGED stage
          BY <2>2, <3>2 DEF HaltRefused, Becomes
        <4>3. \A j \in AllCaches : cache'[j] = IF j = k THEN r ELSE cache[j]
          BY <4>2 DEF CachesOK
        <4> QED BY <4>1, <4>2, <4>3
      <3> QED BY <3>1, <3>2
    <2>3. ASSUME NEW k \in Caches, NEW t \in AllTables, NEW w \in BOOLEAN, StartRefused(c, k, t, w)
          PROVE  Done
      <3>1. cache = [cache EXCEPT ![k] = cache[k]]
        BY DEF CachesOK
      <3>2. HaltRefused(c, [cache EXCEPT ![k] = cache[k]])
        BY <2>3, <3>1 DEF StartRefused
      <3>3. Proper(cache[k], cache[k], c) /\ LocksGrow(cache[k], cache[k])
        BY Same DEF CachesOK
      <3> HIDE DEF Done
      <3> QED BY <2>2, <3>2, <3>3
    <2>4. ASSUME NEW k \in Caches, NEW t \in AllTables, NEW w \in BOOLEAN, LockRefused(c, k, t, w)
          PROVE  Done
      <3> DEFINE b == Begun(cache[k], c, wrflag(w))
                 r == Refused(b, Level(w))
      <3>1. /\ BeginRefused(cache[k], c, wrflag(w)) = {} /\ TableRefused(b, c, t, w) # {}
            /\ HaltRefused(c, [cache EXCEPT ![k] = r])
        BY <2>4 DEF LockRefused
      <3>2. Proper(cache[k], r, c) /\ LocksGrow(cache[k], r)
        BY <3>1, LockRefusedCache DEF CachesOK
      <3> HIDE DEF r, b, Done
      <3> QED BY <2>2, <3>1, <3>2
    <2>5. ASSUME NEW flag \in 1 .. 2, BeginWrite(c, flag) PROVE Done
      <3>1. CASE Unlocking(c)
        BY <3>1 DEF Unlocking, At, ConnTypes
      <3>2. CASE ~Unlocking(c)
        <4>1. /\ \A k \in Caches : BeginRefused(cache[k], c, flag) = {}
              /\ cache' = [k \in AllCaches |-> IF k \in Caches THEN Begun(cache[k], c, flag) ELSE cache[k]]
              /\ UNCHANGED stage
          BY <2>5, <3>2 DEF BeginWrite, Becomes
        <4>2. ASSUME NEW k \in Caches PROVE Users(cache[k]) \subseteq Users(cache'[k])
          <5>1. cache'[k] = Begun(cache[k], c, flag) /\ flag \in 0 .. 2 /\ CacheOK(cache[k])
            BY <4>1 DEF CachesOK
          <5>2. CacheOK(cache'[k]) /\ LocksGrow(cache[k], cache'[k])
            BY <4>1, <5>1, BegunOK
          <5> QED BY <5>1, <5>2, GrowKeepsUser
        <4> QED BY <4>1, <4>2
      <3> QED BY <3>1, <3>2
    <2>6. ASSUME NEW w \in BOOLEAN, FinishStatement(c, w) PROVE Done
      BY <2>6 DEF FinishStatement, Ending, Unlocking, At, ConnTypes
    <2>7. ASSUME NEW k \in Caches, EndCache(c, k) PROVE Done
      BY <2>7 DEF EndCache, Unlocking, At, ConnTypes
    <2>8. ASSUME NEW w \in BOOLEAN, FailStatement(c, w) PROVE Done
      BY <2>8 DEF FailStatement, Unlocking, At, ConnTypes
    <2>9. ASSUME Rollback(c) \/ Close(c) \/ Commit(c) PROVE Done
      BY <2>9 DEF Rollback, Close, Commit, Ending, Unlocking, At, ConnTypes
    <2>10. ASSUME Begin(c) \/ PrepareRefused(c) \/ Register(c) \/ Cancel(c) PROVE Done
      BY <2>10 DEF Begin, PrepareRefused, Register, Cancel, connVars
    <2>11. ASSUME Open(c) PROVE Done
      BY <2>11 DEF Open
    <2>12. ~\E k \in Caches : BackupStep(c, k) \/ BackupEnd(c, k)
      BY DEF BackupStep, BackupEnd, StagesOK
    <2> HIDE DEF Done
    <2>13. Done
      BY <2>1, <2>3, <2>4, <2>5, <2>6, <2>7, <2>8, <2>9, <2>10, <2>11, <2>12 DEF Step
    <2> QED BY <2>13 DEF Done
  <1>2. (\E k \in Caches : c \in Users(cache[k])) \/ stage[c] \in {"ending", "unlocking", "closing"}
    BY DEF Concluding, Users
  <1>3. stage[c] # "closed" \/ \E k \in Caches : c \in Users(cache[k])
    BY <1>2
  <1>4. (\E k \in Caches : c \in Users(cache'[k])) \/ Telling
    BY <1>1, <1>2
  <1> QED BY <1>0, <1>4 DEF Concluding, Users

-----------------------------------------------------------------------------
(* No one who waits is forgotten.                                          *)

(* Whom a connection points at after a step it pointed at before, or just  *)
(* found in its way; and no one points at whoever has made his calls.      *)
LEMMA PointedAt ==
  ASSUME CachesOK, NotifyTypeOK, NoLostWakeUp, Caches \subseteq AllCaches, NEW a \in Conns, Step(a),
         NEW c \in Conns, NEW b \in Conns, b \in {pBlockingConnection'[c], pUnlockConnection'[c]}
  PROVE  /\ c \in blockedList'
         /\ \/ /\ b \in {pBlockingConnection[c], pUnlockConnection[c]}
               /\ Unlock(a) \/ Closed(a) => b # a
            \/ \E k \in Caches : b \in Users(cache[k]) \ {a} /\ ~Unlock(a) /\ ~Closed(a)
  <1>0. /\ pBlockingConnection \in [Conns -> Conns \cup {None}]
        /\ pUnlockConnection \in [Conns -> Conns \cup {None}]
        /\ blockedList \subseteq Conns /\ None \notin Conns
    BY UnlockNotifyAssumption DEF NotifyTypeOK
  <1>1. \A d \in Conns : pBlockingConnection[d] # None \/ pUnlockConnection[d] # None => d \in blockedList
    BY <1>0 DEF NoLostWakeUp
  <1>2. CASE Unlock(a)
    <2>1. \A pointer \in {pBlockingConnection, pUnlockConnection} : \A d \in Conns :
             Cleared(pointer, a)[d] = IF d \in blockedList /\ pointer[d] = a THEN None ELSE pointer[d]
      BY DEF Cleared
    <2>2. /\ pBlockingConnection' = Cleared(pBlockingConnection, a)
          /\ pUnlockConnection' = Cleared(pUnlockConnection, a)
          /\ blockedList' = {d \in blockedList : pBlockingConnection'[d] # None
                                                  \/ pUnlockConnection'[d] # None}
      BY <1>2 DEF Unlock, ConnectionUnlocked
    <2>3. b \in {pBlockingConnection[c], pUnlockConnection[c]} /\ b # a /\ c \in blockedList
      BY <1>0, <1>1, <2>1, <2>2
    <2> QED BY <1>0, <2>2, <2>3
  <1>3. CASE Closed(a)
    <2>1. \A pointer \in {pBlockingConnection, pUnlockConnection} : \A d \in Conns :
             [Cleared(pointer, a) EXCEPT ![a] = None][d] =
                IF d = a \/ (d \in blockedList /\ pointer[d] = a) THEN None ELSE pointer[d]
      BY DEF Cleared
    <2>2. /\ pBlockingConnection' = [Cleared(pBlockingConnection, a) EXCEPT ![a] = None]
          /\ pUnlockConnection' = [Cleared(pUnlockConnection, a) EXCEPT ![a] = None]
          /\ blockedList' = {d \in blockedList \ {a} : pBlockingConnection'[d] # None
                                                        \/ pUnlockConnection'[d] # None}
      BY <1>3 DEF Closed, ConnectionClosed
    <2>3. b \in {pBlockingConnection[c], pUnlockConnection[c]} /\ b # a /\ c \in blockedList \ {a}
      BY <1>0, <1>1, <2>1, <2>2
    <2> QED BY <1>0, <2>2, <2>3
  <1>4. CASE ~Unlock(a) /\ ~Closed(a)
    <2>1. CASE UNCHANGED notifyVars
      BY <1>0, <1>1, <1>4, <2>1 DEF notifyVars
    <2>2. ASSUME NEW k \in Caches, NEW d \in Users(cache[k]) \ {a}, ConnectionBlocked(a, d)
          PROVE  /\ c \in blockedList'
                 /\ b \in {pBlockingConnection[c], pUnlockConnection[c], d}
      BY <1>0, <1>1, <2>2 DEF ConnectionBlocked
    <2>3. CASE Register(a)
      BY <1>0, <1>1, <1>4, <2>3 DEF Register, unlock_notify
    <2>4. CASE Cancel(a)
      BY <1>0, <1>1, <1>4, <2>4 DEF Cancel, CancelNotify
    <2> QED BY <1>4, <2>1, <2>2, <2>3, <2>4, StepPointers
  <1> QED BY <1>2, <1>3, <1>4

LEMMA StepNoLostWakeUp ==
  ASSUME CachesOK, ConnTypes, NotifyTypeOK, StagesOK, NoLostWakeUp, Caches \subseteq AllCaches,
         NEW a \in Conns, Step(a)
  PROVE  NoLostWakeUp'
  <1>1. Moves(a)
    BY StepMoves
  <1>2. /\ \A d \in Conns \ {a} : stage'[d] = stage[d]
        /\ stage'[a] = "closed" => stage[a] = "closed" \/ Closed(a)
    BY <1>1, StepStages
  <1>3. setting' = setting /\ Caches' = Caches
    BY StepSetting DEF Caches
  <1>4. \A d \in Conns \ {a} : \A k \in Caches : cache'[k].inTrans[d] = cache[k].inTrans[d]
    BY <1>1 DEF Moves, Proper, KeepsOthers
  <1>5. ASSUME NEW d \in Conns \ {a}, Concluding(d) PROVE Concluding(d)'
    BY <1>2, <1>3, <1>4, <1>5 DEF Concluding
  <1>6. ASSUME NEW c \in Conns, NEW b \in Conns, b \in {pBlockingConnection'[c], pUnlockConnection'[c]}
        PROVE  c \in blockedList' /\ stage'[b] # "closed" /\ (Concluding(b)' \/ setting'.backup)
    <2>1. /\ c \in blockedList'
          /\ \/ /\ b \in {pBlockingConnection[c], pUnlockConnection[c]}
                /\ Unlock(a) \/ Closed(a) => b # a
             \/ \E k \in Caches : b \in Users(cache[k]) \ {a} /\ ~Unlock(a) /\ ~Closed(a)
      BY <1>6, PointedAt
    <2>2. CASE /\ b \in {pBlockingConnection[c], pUnlockConnection[c]}
               /\ Unlock(a) \/ Closed(a) => b # a
      <3>1. stage[b] # "closed" /\ (Concluding(b) \/ setting.backup)
        BY <2>2 DEF NoLostWakeUp
      <3>2. CASE b = a
        BY <1>2, <1>3, <2>1, <2>2, <3>1, <3>2, StepConcludes
      <3>3. CASE b # a
        BY <1>2, <1>3, <1>5, <2>1, <3>1, <3>3
      <3> QED BY <3>2, <3>3
    <2>3. ASSUME NEW k \in Caches, b \in Users(cache[k]) \ {a}
          PROVE  stage'[b] # "closed" /\ Concluding(b)'
      <3>1. stage[b] # "closed" /\ Concluding(b) /\ b \in Conns \ {a}
        BY <2>3 DEF StagesOK, Users, Concluding
      <3> QED BY <1>2, <1>5, <3>1
    <2> QED BY <2>1, <2>2, <2>3
  <1> QED BY <1>6 DEF NoLostWakeUp

-----------------------------------------------------------------------------
(* Connections never wait for each other in a circle.                      *)

LEMMA LeastOf ==
  ASSUME NEW T, T \subseteq Nat, T # {}
  PROVE  \E x \in T : \A y \in T : x <= y
  <1>1. \E x \in T : \A y \in T : <<y, x>> \notin OpToRel(<, Nat)
    BY NatLessThanWellFounded, WFMin
  <1>2. \A x, y \in Nat : <<y, x>> \notin OpToRel(<, Nat) => ~(y < x)
    BY Zenon DEF OpToRel
  <1>3. \E x \in T : \A y \in T : ~(y < x)
    BY <1>1, <1>2, Zenon
  <1> QED BY <1>3

(* The walk of Deadlocked(db). *)
After(db, x) == IF x \in {db, None} THEN x ELSE pUnlockConnection[x]

LEMMA WalkExists ==
  ASSUME NEW db, NEW N \in Nat
  PROVE  \E at : at = [n \in 0 .. N |-> IF n = 0 THEN pBlockingConnection[db]
                                       ELSE After(db, at[n - 1])]
  <1> DEFINE IsWalk(at, m) == at = [n \in 0 .. m |-> IF n = 0 THEN pBlockingConnection[db]
                                                   ELSE After(db, at[n - 1])]
             T == {m \in 0 .. N : ~\E at : IsWalk(at, m)}
  <1>1. SUFFICES ASSUME T # {} PROVE FALSE
    OBVIOUS
  <1> HIDE DEF IsWalk
  <1>0. T \subseteq 0 .. N /\ T \subseteq Nat
    OBVIOUS
  <1>2. PICK m \in T : \A y \in T : m <= y
    <2> HIDE DEF T
    <2> QED BY <1>0, <1>1, LeastOf
  <1>3. CASE m = 0
    <2> DEFINE at == [n \in 0 .. 0 |-> pBlockingConnection[db]]
    <2>1. IsWalk(at, 0)
      BY DEF IsWalk
    <2> HIDE DEF at
    <2> QED BY <1>3, <2>1
  <1>4. CASE m # 0
    <2>1. m - 1 \in 0 .. N /\ m - 1 \notin T
      <3> HIDE DEF T
      <3> QED BY <1>0, <1>2, <1>4
    <2>2. PICK g : IsWalk(g, m - 1)
      BY <2>1
    <2> DEFINE h == [n \in 0 .. m |-> IF n = m THEN After(db, g[m - 1]) ELSE g[n]]
    <2>3. ASSUME NEW n \in 0 .. m
          PROVE  h[n] = IF n = 0 THEN pBlockingConnection[db] ELSE After(db, h[n - 1])
      <3>1. CASE n = m
        BY <1>2, <1>4, <3>1
      <3>2. CASE n # m
        <4>1. n \in 0 .. m - 1 /\ h[n] = g[n] /\ (n # 0 => h[n - 1] = g[n - 1])
          BY <1>2, <3>2
        <4>2. g[n] = IF n = 0 THEN pBlockingConnection[db] ELSE After(db, g[n - 1])
          BY <2>2, <4>1 DEF IsWalk
        <4> QED BY <4>1, <4>2
      <3> QED BY <3>1, <3>2
    <2>4. h = [n \in 0 .. m |-> h[n]]
      OBVIOUS
    <2>5. IsWalk(h, m)
      <3> HIDE DEF h
      <3> QED BY <2>3, <2>4 DEF IsWalk
    <2> HIDE DEF h
    <2> QED BY <1>2, <2>5
  <1> QED BY <1>3, <1>4

LEMMA DeadlockedWalk ==
  ASSUME NEW db, ~Deadlocked(db), NEW N, N = Cardinality(Conns)
  PROVE  \E at : /\ at[0] = pBlockingConnection[db]
                 /\ \A n \in 1 .. N : at[n] = After(db, at[n - 1])
                 /\ at[N] # db
  <1> DEFINE at == CHOOSE at : at = [n \in 0 .. Cardinality(Conns) |->
                       IF n = 0 THEN pBlockingConnection[db] ELSE After(db, at[n - 1])]
  <1>1. N \in Nat /\ Cardinality(Conns) \in Nat
    BY UnlockNotifyAssumption, FS_CardinalityType
  <1>2. at[Cardinality(Conns)] # db
    BY DEF Deadlocked, After
  <1>3. at = [n \in 0 .. Cardinality(Conns) |->
                IF n = 0 THEN pBlockingConnection[db] ELSE After(db, at[n - 1])]
    <2>1. \E f : f = [n \in 0 .. Cardinality(Conns) |->
                       IF n = 0 THEN pBlockingConnection[db] ELSE After(db, f[n - 1])]
      BY <1>1, WalkExists, ZenonT(60)
    <2> QED BY <2>1, ZenonT(60)
  <1> HIDE DEF at
  <1>4. at[0] = pBlockingConnection[db] /\ \A n \in 1 .. N : at[n] = After(db, at[n - 1])
    BY <1>1, <1>3
  <1> QED BY <1>2, <1>4

(* A registration that would close a circle is refused.  In the circle the *)
(* walk would never meet db, else it would end there; so it would come     *)
(* twice to a connection, and have walked around an older circle.          *)
LEMMA RegisterNoCycle ==
  ASSUME NotifyTypeOK, NoWaitCycle, NEW db \in Conns, unlock_notify(db)
  PROVE  NoWaitCycle'
  <1>0. /\ pBlockingConnection \in [Conns -> Conns \cup {None}]
        /\ pUnlockConnection \in [Conns -> Conns \cup {None}]
        /\ None \notin Conns
    BY UnlockNotifyAssumption DEF NotifyTypeOK
  <1>1. SUFFICES ASSUME NEW S \in (SUBSET Conns) \ {{}}, \A c \in S : pUnlockConnection'[c] \in S
                 PROVE  FALSE
    BY DEF NoWaitCycle
  <1>2. /\ pUnlockConnection' = [pUnlockConnection EXCEPT ![db] = pBlockingConnection[db]]
        /\ ~Deadlocked(db)
    BY DEF unlock_notify
  <1>3. \A c \in S \ {db} : pUnlockConnection[c] \in S
    BY <1>0, <1>1, <1>2
  <1>4. db \in S /\ pBlockingConnection[db] \in S
    <2>1. db \in S
      BY <1>3 DEF NoWaitCycle
    <2> QED BY <1>0, <1>1, <1>2, <2>1
  <1>5. PICK N \in Nat : N = Cardinality(Conns)
    BY UnlockNotifyAssumption, FS_CardinalityType
  <1>6. PICK at : /\ at[0] = pBlockingConnection[db]
                  /\ \A n \in 1 .. N : at[n] = After(db, at[n - 1])
                  /\ at[N] # db
    BY <1>2, <1>5, DeadlockedWalk
  <1>7. \A n \in 0 .. N : at[n] # db
    <2>1. SUFFICES ASSUME NEW n \in 0 .. N, at[n] = db PROVE FALSE
      OBVIOUS
    <2> DEFINE T == {m \in n .. N : at[m] # db}
    <2>2. N \in T /\ T \subseteq Nat
      BY <1>5, <1>6
    <2>3. PICK m \in T : \A y \in T : m <= y
      <3> HIDE DEF T
      <3> QED BY <2>2, LeastOf
    <2>4. m \in 1 .. N /\ m - 1 \in n .. N /\ m - 1 \notin T
      BY <1>5, <2>1, <2>3
    <2>5. at[m - 1] = db
      BY <2>4
    <2> QED BY <1>6, <2>3, <2>4, <2>5 DEF After
  <1>8. \A n \in 0 .. N : at[n] \in S
    <2>1. SUFFICES ASSUME {n \in 0 .. N : at[n] \notin S} # {} PROVE FALSE
      OBVIOUS
    <2> DEFINE T == {n \in 0 .. N : at[n] \notin S}
    <2>2. T \subseteq Nat /\ T # {}
      BY <1>5, <2>1
    <2>3. PICK m \in T : \A y \in T : m <= y
      <3> HIDE DEF T
      <3> QED BY <2>2, LeastOf
    <2>4. m # 0
      BY <1>4, <1>6, <2>3
    <2>5. m \in 1 .. N /\ m - 1 \in 0 .. N /\ m - 1 \notin T
      BY <1>5, <2>3, <2>4
    <2>6. at[m - 1] \in S
      BY <2>5
    <2> QED BY <1>0, <1>3, <1>6, <1>7, <2>3, <2>5, <2>6 DEF After
  <1>9. \A n \in 0 .. N : at[n] \in Conns \ {db} /\ (n # N => at[n + 1] = pUnlockConnection[at[n]])
    <2>1. ASSUME NEW n \in 0 .. N PROVE at[n] \in Conns \ {db} /\ at[n] # None
      BY <1>0, <1>1, <1>7, <1>8
    <2>2. ASSUME NEW n \in 0 .. N, n # N PROVE at[n + 1] = pUnlockConnection[at[n]]
      <3>1. n + 1 \in 1 .. N /\ (n + 1) - 1 = n
        BY <1>5, <2>2
      <3>2. at[n + 1] = After(db, at[n])
        BY <1>6, <3>1
      <3> QED BY <2>1, <3>2 DEF After
    <2> QED BY <2>1, <2>2
  <1>10. PICK i \in 0 .. N, j \in 0 .. N : i < j /\ at[i] = at[j]
    <2> DEFINE f == [n \in 0 .. N |-> at[n]]
    <2>1. IsFiniteSet(0 .. N) /\ Cardinality(0 .. N) = N + 1
      <3>1. N - 0 + 1 = N + 1 /\ ~(0 > N) /\ 0 \in Int /\ N \in Int
        BY <1>5
      <3> QED BY <3>1, FS_Interval
    <2>2. IsFiniteSet(Conns \ {db}) /\ Cardinality(Conns \ {db}) < N + 1
      <3>1. IsFiniteSet(Conns \ {db}) /\ Cardinality(Conns \ {db}) <= Cardinality(Conns)
            /\ Cardinality(Conns \ {db}) \in Nat
        BY UnlockNotifyAssumption, FS_Subset, FS_CardinalityType
      <3> QED BY <1>5, <3>1
    <2>3. f \in [0 .. N -> Conns \ {db}]
      BY <1>9
    <2>4. \E x, y \in 0 .. N : x # y /\ f[x] = f[y]
      <3> HIDE DEF f
      <3>1. Cardinality(Conns \ {db}) < Cardinality(0 .. N)
        BY <2>1, <2>2
      <3>2. IsFiniteSet(0 .. N) /\ IsFiniteSet(Conns \ {db})
        BY <2>1, <2>2
      <3> QED BY <3>1, <3>2, <2>3, FS_PigeonHole
    <2>5. \E x, y \in 0 .. N : x # y /\ at[x] = at[y]
      BY <2>4
    <2> QED BY <1>5, <2>5
  <1> DEFINE C == {at[n] : n \in i .. j - 1}
  <1>11. C \in (SUBSET Conns) \ {{}}
    <2>1. i \in i .. j - 1 /\ i .. j - 1 \subseteq 0 .. N
      BY <1>5, <1>10
    <2>2. at[i] \in C
      BY <2>1
    <2>3. \A n \in i .. j - 1 : at[n] \in Conns
      BY <1>9, <2>1
    <2> QED BY <2>2, <2>3
  <1>12. ASSUME NEW c \in C PROVE pUnlockConnection[c] \in C
    <2>1. PICK n \in i .. j - 1 : c = at[n]
      OBVIOUS
    <2>2. n \in 0 .. N /\ n # N
      BY <1>5, <1>10
    <2>3. pUnlockConnection[c] = at[n + 1]
      BY <1>9, <2>1, <2>2
    <2>4. CASE n + 1 = j
      <3>1. i \in i .. j - 1
        BY <1>10
      <3> QED BY <1>10, <2>3, <2>4, <3>1
    <2>5. CASE n + 1 # j
      <3>1. n + 1 \in i .. j - 1
        BY <1>5, <1>10, <2>5
      <3> QED BY <2>3, <3>1
    <2> QED BY <2>4, <2>5
  <1> HIDE DEF C
  <1> QED BY <1>11, <1>12 DEF NoWaitCycle

LEMMA ClearNoCycle ==
  ASSUME NotifyTypeOK, NoWaitCycle,
         \A c \in Conns : pUnlockConnection'[c] \in {pUnlockConnection[c], None}
  PROVE  NoWaitCycle'
  BY UnlockNotifyAssumption DEF NoWaitCycle

LEMMA StepNoWaitCycle ==
  ASSUME CachesOK, NotifyTypeOK, NoWaitCycle, Caches \subseteq AllCaches, NEW c \in Conns, Step(c)
  PROVE  NoWaitCycle'
  <1>1. CASE Register(c)
    BY <1>1, RegisterNoCycle DEF Register
  <1>2. CASE ~Register(c)
    <2>1. \A d \in Conns : pUnlockConnection'[d] \in {pUnlockConnection[d], None}
      <3>1. CASE UNCHANGED notifyVars
        BY <3>1 DEF notifyVars
      <3>2. ASSUME NEW d, ConnectionBlocked(c, d) PROVE UNCHANGED pUnlockConnection
        BY <3>2 DEF ConnectionBlocked
      <3>3. CASE Unlock(c)
        BY <3>3 DEF Unlock, ConnectionUnlocked, Cleared
      <3>4. CASE Closed(c)
        BY <3>4 DEF Closed, ConnectionClosed, Cleared
      <3>5. CASE Cancel(c)
        BY <3>5 DEF Cancel, CancelNotify, NotifyTypeOK
      <3> QED BY <1>2, <3>1, <3>2, <3>3, <3>4, <3>5, StepPointers
    <2> QED BY <2>1, ClearNoCycle
  <1> QED BY <1>1, <1>2

-----------------------------------------------------------------------------
(* The theorems.                                                           *)

LEMMA InitIInv == ASSUME Init PROVE IInv
  <1>1. cache = [k \in AllCaches |-> InitCache] /\ setting \in Settings
        /\ changed = [k \in AllCaches |-> [t \in AllTables |-> None]]
        /\ seen = [k \in AllCaches |-> [c \in Conns |-> {}]]
    BY DEF Init
  <1>2. CachesOK
    <2>1. CacheOK(InitCache) /\ InitCache \in CacheType
      BY InitCacheOK DEF CacheOK
    <2>2. HistoryOK(InitCache, [t \in AllTables |-> None], [c \in Conns |-> {}])
      BY DEF HistoryOK
    <2> HIDE DEF InitCache
    <2> QED BY <1>1, <2>1, <2>2 DEF CachesOK
  <1>3. ConnTypes
    <2>1. Idle \in [r : Nat, w : 0 .. 1]
      BY DEF Idle
    <2> QED BY <2>1 DEF ConnTypes, Init
  <1>4. NotifyTypeOK /\ NoLostWakeUp /\ NoWaitCycle
    BY UnlockNotifyAssumption DEF Init, NotifyInit, NotifyTypeOK, NoLostWakeUp, NoWaitCycle
  <1>5. StagesOK
    <2>1. \A k \in Caches : Users(cache[k]) = {}
      BY <1>1, SettingType DEF Users, InitCache
    <2>2. \A c \in Conns : stage[c] # "backup"
      BY DEF Init
    <2> QED BY <2>1, <2>2 DEF StagesOK
  <1> QED BY <1>1, <1>2, <1>3, <1>4, <1>5 DEF IInv

LEMMA StepIInv == ASSUME IInv, NEW c \in Conns, Step(c) PROVE IInv'
  <1>1. /\ setting \in Settings /\ ConnTypes /\ NotifyTypeOK /\ CachesOK /\ StagesOK
        /\ NoLostWakeUp /\ NoWaitCycle
    BY DEF IInv
  <1>2. Caches \subseteq AllCaches
    BY <1>1, SettingType
  <1>3. setting' \in Settings
    BY <1>1, StepSetting
  <1>4. Moves(c)
    BY <1>1, <1>2, StepMoves
  <1>5. ConnTypes'
    BY <1>1, <1>2, StepConnTypes
  <1>6. NotifyTypeOK'
    BY <1>1, <1>2, StepNotifyType
  <1>7. StagesOK'
    BY <1>1, <1>2, <1>4, StepStages
  <1>8. NoLostWakeUp'
    BY <1>1, <1>2, StepNoLostWakeUp
  <1>9. NoWaitCycle'
    BY <1>1, <1>2, StepNoWaitCycle
  <1> QED BY <1>3, <1>4, <1>5, <1>6, <1>7, <1>8, <1>9 DEF IInv, Moves

LEMMA StutterIInv == ASSUME IInv, UNCHANGED vars PROVE IInv'
  <1>1. CachesOK'
    BY DEF IInv, vars, CachesOK
  <1>2. setting' \in Settings /\ ConnTypes' /\ NotifyTypeOK'
    BY DEF IInv, vars, connVars, notifyVars, ConnTypes, NotifyTypeOK
  <1>3. StagesOK'
    BY DEF IInv, vars, connVars, StagesOK, Users, Caches
  <1>4. NoLostWakeUp' /\ NoWaitCycle'
    BY DEF IInv, vars, connVars, notifyVars, NoLostWakeUp, NoWaitCycle, Concluding, Caches
  <1> QED BY <1>1, <1>2, <1>3, <1>4 DEF IInv

(* The inductive invariant holds in every reachable state. *)
THEOREM Invariance == Spec => []IInv
  <1>1. Init => IInv
    BY InitIInv
  <1>2. IInv /\ [Next]_vars => IInv'
    BY StepIInv, StutterIInv DEF Next
  <1> QED BY <1>1, <1>2, PTL DEF Spec

(* The fields of BtShared, the stages of a call and the pointers of        *)
(* notify.c have their types.                                              *)
THEOREM Typing == Spec => []TypeOK
  <1>1. IInv => TypeOK
    BY DEF IInv, TypeOK, ConnTypes, CachesOK, CacheType, Modes
  <1> QED BY <1>1, Invariance, PTL

(* btreeIntegrity() and the assertions of the lock functions: counts,      *)
(* writer, locks and flags of every shared B-tree agree.                   *)
THEOREM IntegrityHolds == Spec => []BtreeIntegrity
  <1>1. ASSUME IInv, NEW k \in AllCaches
        PROVE  CacheOK(cache[k]) /\ Users(cache[k]) = {c \in Conns : cache[k].inTrans[c] # "none"}
    BY <1>1 DEF IInv, CachesOK, Users
  <1>2. IInv => BtreeIntegrity
    BY <1>1 DEF BtreeIntegrity, CacheOK, Counts, Locks, Flags
  <1> QED BY <1>2, Invariance, PTL

(* What a transaction has read, no other has changed before both are over, *)
(* because both have locked it: reads with a lock that goes on, changes    *)
(* with one that no other lock is compatible with.                         *)
THEOREM IsolationHolds == Spec => []Isolation
  <1>1. ASSUME IInv, NEW k \in AllCaches, NEW t \in AllTables, NEW c \in Conns, t \in seen[k][c]
        PROVE  changed[k][t] \in {c, None}
    <2>1. HistoryOK(cache[k], changed[k], seen[k]) /\ Locks(cache[k])
      BY <1>1 DEF IInv, CachesOK, CacheOK
    <2>2. changed[k][t] \in Conns \cup {None} /\ cache[k].lock[c][t] # "none"
      BY <1>1, <2>1 DEF HistoryOK
    <2>3. CASE changed[k][t] \in Conns
      <3>1. cache[k].lock[changed[k][t]][t] = "write"
        BY <2>1, <2>3, UnlockNotifyAssumption DEF HistoryOK
      <3> QED BY <2>1, <2>2, <2>3, <3>1 DEF Locks
    <2> QED BY <2>2, <2>3
  <1>2. IInv => Isolation
    BY <1>1 DEF Isolation
  <1> QED BY <1>2, Invariance, PTL

(* While a writer waits for its lock, no transaction begins.               *)
THEOREM WriterIsNotStarved == Spec => PendingKeepsReadersOut
  <1> DEFINE A == \A k \in AllCaches :
                    cache[k].pending /\ cache'[k].pWriter = cache[k].pWriter =>
                      \A c \in Conns : cache'[k].inTrans[c] # "none" => cache[k].inTrans[c] # "none"
  <1>1. ASSUME IInv, NEW c \in Conns, Step(c) PROVE A
    <2>1. Moves(c)
      BY <1>1, SettingType, StepMoves DEF IInv
    <2>2. \A k \in AllCaches : KeepsOut(cache[k], cache'[k])
      BY <2>1 DEF Moves, Proper
    <2> QED BY <2>2 DEF KeepsOut, Users
  <1>2. IInv /\ [Next]_vars => [A]_vars
    BY <1>1 DEF Next
  <1>3. [][A]_vars => PendingKeepsReadersOut
    BY PTL DEF PendingKeepsReadersOut
  <1> QED BY <1>2, <1>3, Invariance, PTL DEF Spec

(* Whoever waits for a call-back, or may ask for one, is on the list that  *)
(* the call-backs are made from, and the one it points at is still to end  *)
(* its transaction or, in a setting with backups, is at least open.        *)
THEOREM WaiterIsKnown == Spec => []NoLostWakeUp
  <1>1. IInv => NoLostWakeUp
    BY DEF IInv
  <1> QED BY <1>1, Invariance, PTL

(* sqlite3_unlock_notify() lets no circle of waiting connections arise.    *)
THEOREM NoDeadlock == Spec => []NoWaitCycle
  <1>1. IInv => NoWaitCycle
    BY DEF IInv
  <1> QED BY <1>1, Invariance, PTL
=============================================================================
