------------------------ MODULE SuperJournalProofs ------------------------
(***************************************************************************)
(* What is proved of SuperJournal, for any connections, databases and      *)
(* bounds: types, for all settings; and where journals are deleted and     *)
(* either processes die and calls fail or the power does, any number of    *)
(* times, that a commit over several databases is in all of them or in     *)
(* none and that no failure takes it back.                                 *)
(***************************************************************************)
EXTENDS SuperJournal, FiniteSetTheorems, WellFoundedInduction, TLAPS

-----------------------------------------------------------------------------
(* What connections do, and what they hold.                                *)

Naming == {"create", "syncSuper", "name", "delete", "syncDir"}
PhaseOne == {"journal", "pages", "syncDb"}
Working == {"write"} \cup Naming \cup PhaseOne
Committing == Naming \cup PhaseOne \cup {"end"}
Restoring == {"play", "restored", "finalize"}
Released == {"children", "next"}
Steps == {"idle"} \cup Working \cup {"end"} \cup Restoring \cup Released

Holds(w) ==
    IF w.pc \in Working THEN w.dbs
    ELSE IF w.pc \in {"end"} \cup Restoring THEN w.todo
    ELSE IF w.pc \in Released THEN w.todo \ {First(w.todo)} ELSE {}

(* The databases whose journal is still to be named. *)
Ahead(w) ==
    IF w.pc \in {"write", "create", "syncSuper"} THEN w.dbs
    ELSE IF w.pc = "name" THEN w.todo
    ELSE IF w.pc \in PhaseOne THEN w.todo \ {First(w.todo)} ELSE {}

(* The databases that are written and synced. *)
Behind(w) ==
    IF w.pc \in PhaseOne \cup {"name"} THEN w.dbs \ w.todo
    ELSE IF w.pc \in {"delete", "syncDir"} THEN w.dbs
    ELSE IF w.pc = "end" THEN w.todo ELSE {}

ConType ==
    [pc : Steps, dbs : SUBSET Dbs, todo : SUBSET Dbs, txn : 0 .. MaxTxns,
     super : 0 .. MaxTxns, name : 0 .. MaxTxns, check : SUBSET Dbs]

ConOK(w) ==
    /\ w \in ConType
    /\ w.pc = "idle" => w = Idle
    /\ w.pc # "idle" => w.dbs # {}
    /\ w.todo \subseteq w.dbs
    /\ w.pc \notin {"idle", "write"} => w.todo # {}
    /\ w.pc \in Committing =>
          /\ w.txn \in Txns /\ Members(w.txn) = w.dbs
          /\ w.super = IF NeedsSuper(w.dbs) THEN w.txn ELSE NoName
    /\ w.pc \in Naming => NeedsSuper(w.dbs)
    /\ w.pc \in Naming \ {"name"} => w.todo = w.dbs
    /\ w.pc = "children" => w.name # NoName

LocksHeld ==
    \A d \in Dbs : /\ \A c \in Conns : c \in lock[d] <=> d \in Holds(con[c])
                   /\ \A c, e \in lock[d] : c = e

Distinct ==
    \A c, e \in Conns : con[c].pc \in Committing /\ con[e].pc \in Committing
                        /\ con[c].txn = con[e].txn => c = e

Begun == \E k \in 0 .. MaxTxns : \A t \in Txns : Members(t) # {} <=> t <= k

Supers == [there : BOOLEAN, names : SUBSET Dbs]

(* A file of values of S. *)
FileOf(S) == {f \in [now : S, may : SUBSET S] : f.now \in f.may}

(* What d may hold: the numbers of transactions that it took part in. *)
Values(d) == {0} \cup {t \in Txns : d \in Members(t)}
Contents(d) == {Torn} \cup Values(d)
JournalsOf(d) == [head : {Zeroed, Damaged} \cup Contents(d), len : 0 .. MaxRecs + 1,
                  name : 0 .. MaxTxns]

FileTypes ==
    /\ super \in [Txns -> FileOf(Supers)]
    /\ db = [d \in Dbs |-> db[d]] /\ jrnl = [d \in Dbs |-> jrnl[d]]
    /\ \A d \in Dbs : db[d] \in FileOf(Contents(d)) /\ jrnl[d] \in FileOf(JournalsOf(d))

PastType ==
    /\ past = [t \in Txns |-> past[t]]
    /\ \A t \in Txns : /\ past[t] \in [Members(t) -> SUBSET Txns] /\ Members(t) \subseteq Dbs
                       /\ \A d \in Members(t) : \A u \in past[t][d] : Members(u) # {}

CInv ==
    /\ FileTypes /\ PastType /\ Begun
    /\ lock \in [Dbs -> SUBSET Conns] /\ off \in [Dbs -> 0 .. MaxRecs + 1]
    /\ con \in [Conns -> ConType] /\ \A c \in Conns : ConOK(con[c])
    /\ \A c \in Conns : \A d \in Ahead(con[c]) : off[d] <= MaxRecs
    /\ LocksHeld /\ Distinct
    /\ kept \subseteq Txns /\ faults \in Nat /\ setting \in Settings

-----------------------------------------------------------------------------
(* What recoveries may find.                                               *)

(* Journals are deleted, and failures are of one kind. *)
Deletes ==
    \A s \in Settings : /\ \A d \in Dbs : s.journal[d] = "delete"
                        /\ s.faults \subseteq {"die", "io"} \/ s.faults \subseteq {"power"}

(* What may be found of a file after the failures that are expected. *)
Remains(f) == IF "power" \in setting.faults THEN f.may ELSE {f.now}

J(d) == Remains(jrnl[d])
X(d) == Remains(db[d])
G(s) == Remains(super[s])

Live(j) == j.len > 0 /\ j.head >= 0

(* The content of d when the journal j, the file x and the super-journal   *)
(* that j names (or not) are found.                                        *)
Found(j, x, there) == IF Live(j) /\ (j.name = NoName \/ there) THEN j.head ELSE x
MayBeThere(s) == IF s = NoName THEN {TRUE} ELSE {g.there : g \in G(s)}

In(x, d) == IF x \in Txns THEN past[x][d] ELSE {}

(* The multi-file transactions of a content. *)
Multi(x, d) == {t \in In(x, d) : NeedsSuper(Members(t))}

(* The super-journal is unlinked and its directory not synced. *)
Deciding(s) == s # NoName /\ \E c \in Conns : con[c].pc = "syncDir" /\ con[c].super = s

Shape(d) ==
    \A j \in J(d) : j = NoJournal \/ (j.len > 0 /\ j.head \in Values(d) \cup {Damaged})

Names(d) ==
    \A j \in J(d) : j.name # NoName =>
        /\ d \in Members(j.name)
        /\ \A g \in G(j.name) : /\ g.there => d \in g.names
                                /\ super[j.name].now.there => g.there

(* A name that is there no more once the directory is synced. *)
Stale(d) == \A j \in J(d) : j.name # NoName /\ j # jrnl[d].now => NoJournal \in J(d)

Quiet(d) ==
    Live(jrnl[d].now) /\ ~IsCold(jrnl[d].now) /\ (\E j \in J(d) : ~Live(j))
        => db[d].now = jrnl[d].now.head

(* Whatever is found of d, it has the multi-file transactions it has now,  *)
(* but for one that is just being decided.                                 *)
Sound(d) ==
    \A j \in J(d), x \in X(d) : \A b \in MayBeThere(j.name) :
        /\ Found(j, x, b) \in Values(d)
        /\ Multi(Found(j, x, b), d) = Multi(Content(d), d) \/ (b /\ Deciding(j.name))

Local(d) == Shape(d) /\ Names(d) /\ Stale(d) /\ Quiet(d) /\ Sound(d)

-----------------------------------------------------------------------------
(* What a connection knows of the files it has in hand.                    *)

Journalled(w) ==
    /\ w.pc \in Working => \A d \in w.dbs : Live(jrnl[d].now)
    /\ \A d \in Ahead(w) : jrnl[d].now.name = NoName

Written(w) ==
    /\ w.pc \in PhaseOne => jrnl[First(w.todo)].now.name = w.super
    /\ w.pc \in {"pages", "syncDb"} => J(First(w.todo)) = {jrnl[First(w.todo)].now}
    /\ w.pc = "syncDb" => db[First(w.todo)].now = w.txn
    /\ \A d \in Behind(w) : /\ J(d) = {jrnl[d].now} /\ X(d) = {w.txn}
                            /\ Live(jrnl[d].now) /\ jrnl[d].now.name = w.super

Adds(w) ==
    w.pc \in Committing => \A d \in Holds(w) :
        LET h == jrnl[d].now.head IN
        w.txn \notin In(h, d) /\ past[w.txn][d] = In(h, d) \cup {w.txn}

SuperOf(w) ==
    LET all == [there |-> TRUE, names |-> w.dbs] IN
    /\ w.pc \in {"create", "syncSuper"} =>
          \A d \in Dbs : \A j \in J(d) : j.name # w.super
    /\ w.pc = "syncSuper" => super[w.super].now = all
    /\ w.pc \in PhaseOne \cup {"name", "delete"} /\ w.super # NoName => G(w.super) = {all}
    /\ w.pc = "syncDir" => super[w.super].now = NoSuper
    /\ w.pc = "end" /\ w.super # NoName => \A g \in G(w.super) : ~g.there

Restored(w) ==
    /\ w.pc \in {"restored", "finalize"} =>
          Content(First(w.todo)) = db[First(w.todo)].now
    /\ w.pc = "finalize" => X(First(w.todo)) = {db[First(w.todo)].now}
    /\ w.pc \in {"restored", "finalize", "children"} /\ w.name # NoName =>
          /\ Members(w.name) # {}
          /\ \A e \in Conns : con[e].pc \in Committing => con[e].super # w.name
    /\ w.pc = "children" =>
          \A k \in Dbs : jrnl[k].now.name = w.name => k \in w.check

Known(w) == Journalled(w) /\ Written(w) /\ Adds(w) /\ SuperOf(w) /\ Restored(w)

Together ==
    \A t \in Txns : NeedsSuper(Members(t)) =>
        \A d, e \in Members(t) : t \in Included(d) => t \in Included(e)

Final(t) ==
    /\ NeedsSuper(Members(t))
    /\ \A d \in Members(t) : t \in Included(d)
    /\ \A c \in Conns : con[c].pc \in Committing => con[c].txn # t

FInv ==
    /\ \A d \in Dbs : Local(d)
    /\ \A c \in Conns : Known(con[c])
    /\ Together /\ \A t \in kept : Final(t)

IInv == CInv /\ FInv

-----------------------------------------------------------------------------
(* Data.                                                                   *)

LEMMA FirstIn ==
  ASSUME NEW S, S \subseteq Dbs, S # {}
  PROVE  First(S) \in S
<1>1. S \subseteq Nat
  BY SuperJournalAssumption
<1>2. \E x \in S : \A y \in S : <<y, x>> \notin OpToRel(<, Nat)
  BY <1>1, NatLessThanWellFounded, WFMin
<1>3. \A x, y \in Nat : <<y, x>> \notin OpToRel(<, Nat) => ~(y < x)
  BY Zenon DEF OpToRel
<1>4. \E x \in S : \A y \in S : ~(y < x)
  BY <1>1, <1>2, <1>3, Zenon
<1>5. \E x \in S : \A y \in S : x <= y
  BY <1>1, <1>4
<1> QED BY <1>5, Zenon DEF First

(* A commit over one database has no super-journal. *)
LEMMA OneDatabase ==
  ASSUME NEW S, S \subseteq Dbs, ~NeedsSuper(S), NEW d \in S
  PROVE  S = {d}
<1>1. IsFiniteSet(S) /\ Cardinality(S) \in Nat
  BY SuperJournalAssumption, FS_Subset, FS_CardinalityType
<1>2. Cardinality(S) # 0
  BY <1>1, FS_EmptySet
<1>3. Cardinality(S) = 1
  BY <1>1, <1>2 DEF NeedsSuper
<1> QED BY <1>1, <1>3, FS_Singleton

LEMMA TxnsBegunIs ==
  ASSUME Begun
  PROVE  /\ TxnsBegun \in 0 .. MaxTxns
         /\ \A t \in Txns : Members(t) # {} <=> t <= TxnsBegun
<1>1. PICK k \in 0 .. MaxTxns : \A t \in Txns : Members(t) # {} <=> t <= k
  BY DEF Begun
<1>2. {t \in Txns : Members(t) # {}} = 1 .. k
  BY <1>1, SuperJournalAssumption DEF Txns
<1>3. Cardinality(1 .. k) = k
  BY <1>1, FS_Interval, SuperJournalAssumption
<1> QED BY <1>1, <1>2, <1>3 DEF TxnsBegun

LEMMA Files ==
  ASSUME NEW S
  PROVE  /\ \A x \in S : File(x) \in FileOf(S)
         /\ \A f \in FileOf(S) : Synced(f) \in FileOf(S)
         /\ \A f \in FileOf(S), x \in S, half \in SUBSET S : Changed(f, x, half) \in FileOf(S)
BY DEF FileOf, File, Synced, Changed

LEMMA Consts ==
  /\ MaxTxns \in Nat /\ MaxRecs \in Nat /\ MaxRecs # 0
  /\ Dbs \subseteq Nat
  /\ \A s \in Settings : s.txns \in 1 .. MaxTxns /\ s.most \in Nat
BY SuperJournalAssumption

LEMMA Nones ==
  ASSUME NEW d
  PROVE  /\ NoJournal \in JournalsOf(d) /\ NoSuper \in Supers
         /\ 0 \in Contents(d) /\ Torn \in Contents(d)
         /\ Contents(d) \subseteq {Torn} \cup 0 .. MaxTxns
         /\ JournalsOf(d) \subseteq Journals
BY Consts DEF NoJournal, JournalsOf, Journals, NoSuper, Supers, Contents, Values, Zeroed, NoName,
              Txns

LEMMA SameValues ==
  ASSUME past' = past, NEW d
  PROVE  /\ Values(d)' = Values(d) /\ Contents(d)' = Contents(d)
         /\ JournalsOf(d)' = JournalsOf(d)
BY DEF Values, Contents, JournalsOf, Members

(* One database file, one journal or one super-journal changes.            *)
LEMMA DbChanges ==
  ASSUME FileTypes, NEW d \in Dbs, NEW f \in FileOf(Contents(d)), db' = SetOf(db, d, f),
         jrnl' = jrnl, super' = super, past' = past
  PROVE  FileTypes'
BY SameValues DEF SetOf, FileTypes

LEMMA JrnlChanges ==
  ASSUME FileTypes, NEW d \in Dbs, NEW f \in FileOf(JournalsOf(d)), jrnl' = SetOf(jrnl, d, f),
         db' = db, super' = super, past' = past
  PROVE  FileTypes'
BY SameValues DEF SetOf, FileTypes

LEMMA SuperChanges ==
  ASSUME FileTypes, NEW s \in Txns, NEW f \in FileOf(Supers), super' = SetOf(super, s, f),
         db' = db, jrnl' = jrnl, past' = past
  PROVE  FileTypes'
BY SameValues DEF SetOf, FileTypes

LEMMA NoFileChanges ==
  ASSUME FileTypes, db' = db, jrnl' = jrnl, super' = super, past' = past
  PROVE  FileTypes'
BY SameValues DEF FileTypes

-----------------------------------------------------------------------------
(* Steps of one connection.                                                *)

(* Everyone but c stays as he is, and what c holds is locked by c alone.   *)
Moves(c) ==
    /\ con' \in [Conns -> ConType] /\ \A e \in Conns \ {c} : con'[e] = con[e]
    /\ ConOK(con'[c])
    /\ con'[c].pc \in Committing =>
          con[c].pc \in Committing /\ con'[c].txn = con[c].txn
    /\ \A d \in Dbs : lock'[d] = IF d \in Holds(con'[c]) THEN {c}
                                 ELSE IF d \in Holds(con[c]) THEN {} ELSE lock[d]
    /\ \A d \in Holds(con'[c]) \ Holds(con[c]) : lock[d] = {}
    /\ \A d \in Dbs : d \notin Holds(con[c]) \cup Holds(con'[c]) => off'[d] = off[d]
    /\ \A d \in Ahead(con'[c]) : off'[d] <= MaxRecs
    /\ lock' \in [Dbs -> SUBSET Conns] /\ off' \in [Dbs -> 0 .. MaxRecs + 1]

LEMMA HoldsIn ==
  ASSUME NEW w, ConOK(w)
  PROVE  Ahead(w) \subseteq Holds(w) /\ Holds(w) \subseteq w.dbs /\ w.dbs \subseteq Dbs
                                     /\ Behind(w) \subseteq Holds(w)
BY DEF ConOK, ConType, Ahead, Holds, Behind, Working, Naming, PhaseOne, Restoring, Released

LEMMA MovesKeep ==
  ASSUME CInv, NEW c \in Conns, Moves(c), FileTypes', past' = past,
         kept' \subseteq Txns, faults' \in Nat, setting' = setting
  PROVE  CInv'
<1>1. PastType' /\ Begun'
  BY ZenonT(60) DEF CInv, PastType, Begun, Members
<1>2. \A e \in Conns : ConOK(con[e])'
  BY DEF CInv, Moves, ConOK, Members
<1>3. ASSUME NEW e \in Conns, NEW d \in Ahead(con[e])'
      PROVE  off'[d] <= MaxRecs
  <2>1. CASE e = c
    BY <1>3, <2>1 DEF Moves
  <2>2. CASE e # c
    <3>1. con'[e] = con[e] /\ ConOK(con[e]) /\ ConOK(con[c]) /\ ConOK(con'[c])
      BY <2>2 DEF Moves, CInv
    <3>2. d \in Ahead(con[e])
      BY <1>3, <3>1
    <3>3. d \in Holds(con[e]) /\ d \in Dbs
      BY <3>1, <3>2, HoldsIn
    <3>4. e \in lock[d] /\ d \notin Holds(con[c]) /\ lock[d] # {}
      BY <2>2, <3>3 DEF CInv, LocksHeld
    <3>5. d \notin Holds(con'[c])
      BY <3>4 DEF Moves
    <3> QED BY <3>2, <3>3, <3>4, <3>5 DEF Moves, CInv
  <2> QED BY <2>1, <2>2
<1>4. LocksHeld'
  <2>1. ASSUME NEW d \in Dbs
        PROVE  /\ \A e \in Conns : e \in lock'[d] <=> d \in Holds(con'[e])
               /\ \A e, f \in lock'[d] : e = f
    <3>1. /\ \A e \in Conns : e \in lock[d] <=> d \in Holds(con[e])
          /\ \A e, f \in lock[d] : e = f
      BY DEF CInv, LocksHeld
    <3>2. \A e \in Conns \ {c} : Holds(con'[e]) = Holds(con[e])
      BY DEF Moves
    <3>3. lock'[d] = IF d \in Holds(con'[c]) THEN {c}
                     ELSE IF d \in Holds(con[c]) THEN {} ELSE lock[d]
      BY DEF Moves
    <3>4. d \in Holds(con'[c]) /\ d \notin Holds(con[c]) => lock[d] = {}
      BY DEF Moves
    <3> QED BY <3>1, <3>2, <3>3, <3>4
  <2> QED BY <2>1 DEF LocksHeld
<1>5. Distinct'
  <2>1. ASSUME NEW e \in Conns
        PROVE  con'[e].pc \in Committing => con[e].pc \in Committing /\ con'[e].txn = con[e].txn
    BY DEF Moves
  <2> QED BY <2>1 DEF Distinct, CInv
<1> QED BY <1>1, <1>2, <1>3, <1>4, <1>5 DEF CInv, Moves

LEMMA NothingMoves ==
  ASSUME CInv, FileTypes', con' = con, lock' = lock, off' = off, past' = past,
         kept' = kept, faults' = faults, setting' = setting
  PROVE  CInv'
<1>1. PastType'
  BY DEF CInv, PastType, Members
<1>0. Begun'
  BY DEF CInv, Begun, Members
<1>2. \A e \in Conns : ConOK(con[e])'
  BY DEF CInv, ConOK, Members
<1>3. LocksHeld' /\ Distinct'
  BY DEF CInv, LocksHeld, Distinct
<1> QED BY <1>0, <1>1, <1>2, <1>3 DEF CInv

(* The next state of c is w, and it holds what it held.                    *)
LEMMA Keeps ==
  ASSUME CInv, NEW c \in Conns, NEW w, con' = [con EXCEPT ![c] = w], ConOK(w),
         w.pc \in Committing => con[c].pc \in Committing /\ w.txn = con[c].txn,
         Holds(w) = Holds(con[c]), lock' = lock, off' \in [Dbs -> 0 .. MaxRecs + 1],
         \A d \in Dbs \ Holds(w) : off'[d] = off[d],
         \A d \in Ahead(w) : off'[d] <= MaxRecs
  PROVE  Moves(c)
<1>1. con'[c] = w /\ w \in ConType /\ con' \in [Conns -> ConType]
  BY DEF CInv, ConOK
<1>2. \A e \in Conns \ {c} : con'[e] = con[e]
  BY DEF CInv
<1>3. \A d \in Dbs : d \in Holds(w) => lock[d] = {c}
  BY DEF CInv, LocksHeld
<1> QED BY <1>1, <1>2, <1>3 DEF Moves, CInv

(* The same, but for one database that it no longer holds.                 *)
LEMMA LetsGo ==
  ASSUME CInv, NEW c \in Conns, NEW w, con' = [con EXCEPT ![c] = w], ConOK(w),
         w.pc \in Committing => con[c].pc \in Committing /\ w.txn = con[c].txn,
         NEW d \in Holds(con[c]), Holds(w) = Holds(con[c]) \ {d},
         Lock(d, Nobody), AtOff(d, 0), Ahead(w) = {}
  PROVE  Moves(c)
<1>0. d \in Dbs
  BY HoldsIn DEF CInv
<1>1. con'[c] = w /\ w \in ConType /\ con' \in [Conns -> ConType]
  BY DEF CInv, ConOK
<1>2. \A e \in Conns \ {c} : con'[e] = con[e]
  BY DEF CInv
<1>3. \A e \in Dbs : e \in Holds(con[c]) => lock[e] = {c}
  BY DEF CInv, LocksHeld
<1>4. \A e \in Dbs : lock'[e] = IF e = d THEN {} ELSE lock[e]
  BY <1>0 DEF CInv, Lock, Nobody
<1>5. lock' \in [Dbs -> SUBSET Conns]
  BY <1>0 DEF CInv, Lock, Nobody
<1>6. off' \in [Dbs -> 0 .. MaxRecs + 1] /\ \A e \in Dbs \ {d} : off'[e] = off[e]
  BY <1>0, Consts DEF CInv, AtOff
<1> QED BY <1>0, <1>1, <1>2, <1>3, <1>4, <1>5, <1>6 DEF Moves

LEMMA CurrentIn ==
  ASSUME CInv, NEW c \in Conns, con[c].todo # {}
  PROVE  Current(c) \in con[c].todo /\ Current(c) \in con[c].dbs /\ Current(c) \in Dbs
<1>1. con[c].todo \subseteq con[c].dbs /\ con[c].dbs \subseteq Dbs
  BY DEF CInv, ConOK, ConType
<1> QED BY <1>1, FirstIn DEF Current

LEMMA Bounds ==
  ASSUME CInv, NEW c \in Conns
  PROVE  /\ ConOK(con[c]) /\ con[c] \in ConType
         /\ off \in [Dbs -> 0 .. MaxRecs + 1]
         /\ \A d \in Ahead(con[c]) : off[d] <= MaxRecs
         /\ kept \subseteq Txns /\ faults \in Nat
         /\ FileTypes
BY DEF CInv

(* The effect of the data.                                                 *)
LEMMA OverType ==
  ASSUME NEW d, NEW j \in JournalsOf(d), NEW h \in Contents(d) \cup {Damaged},
         NEW n \in 1 .. MaxRecs
  PROVE  Over(j, h, n) \in JournalsOf(d)
BY Consts DEF Over, JournalsOf, Larger, NoName

LEMMA NamedType ==
  ASSUME NEW d, NEW j \in JournalsOf(d), NEW n \in 0 .. MaxRecs, NEW s \in 0 .. MaxTxns
  PROVE  Named(j, n, s) \in JournalsOf(d)
BY Consts DEF Named, JournalsOf

LEMMA FinalizedType ==
  ASSUME FileTypes, NEW d \in Dbs, NEW b
  PROVE  Finalized(d, b) \in FileOf(JournalsOf(d))
<1>1. jrnl[d] \in FileOf(JournalsOf(d)) /\ NoJournal \in JournalsOf(d)
  BY Nones DEF FileTypes
<1>2. [jrnl[d].now EXCEPT !.head = Zeroed] \in JournalsOf(d)
  BY <1>1 DEF FileOf, JournalsOf
<1>3. {} \in SUBSET JournalsOf(d)
  OBVIOUS
<1> QED BY <1>1, <1>2, <1>3, Files DEF Finalized

USE DEF Steps, Working, Naming, PhaseOne, Committing, Restoring, Released

-----------------------------------------------------------------------------
(* The steps of a transaction and of its commit.                           *)

LEMMA CWrite ==
  ASSUME CInv, NEW c \in Conns, NEW d \in Dbs, NEW n \in 1 .. MaxRecs, Write(c, d, n)
  PROVE  CInv' /\ Moves(c)
<1> DEFINE w == [con[c] EXCEPT !.pc = "write", !.dbs = @ \cup {d}]
           x == Changed(jrnl[d], Over(jrnl[d].now, db[d].now, n),
                        {Over(jrnl[d].now, Damaged, n)})
<1>0. con[c].pc \in {"idle", "write"} /\ lock[d] = {} /\ ConOK(con[c]) /\ con[c] \in ConType
  BY Bounds DEF Write, Nobody
<1>1. con' = [con EXCEPT ![c] = w] /\ w.pc = "write" /\ w.dbs = con[c].dbs \cup {d}
      /\ w.todo = con[c].todo /\ w \in ConType
  BY <1>0 DEF Write, Start, ConType
<1> HIDE DEF w
<1>2. ConOK(w)
  BY <1>0, <1>1 DEF ConOK
<1>3. Holds(w) = con[c].dbs \cup {d} /\ Ahead(w) = con[c].dbs \cup {d}
  BY <1>1 DEF Holds, Ahead
<1>4. Holds(con[c]) = con[c].dbs /\ Ahead(con[c]) \subseteq con[c].dbs
      /\ (con[c].pc = "write" => Ahead(con[c]) = con[c].dbs)
      /\ (con[c].pc = "idle" => con[c].dbs = {})
  BY <1>0 DEF Holds, Ahead, ConOK, Idle
<1>5. con' \in [Conns -> ConType] /\ con'[c] = w /\ \A e \in Conns \ {c} : con'[e] = con[e]
  BY <1>1 DEF CInv
<1>6. lock' = [lock EXCEPT ![d] = {c}] /\ off' = [off EXCEPT ![d] = n]
  BY DEF Write, Lock, AtOff
<1>7. lock' \in [Dbs -> SUBSET Conns] /\ off' \in [Dbs -> 0 .. MaxRecs + 1]
  BY <1>6, Consts DEF CInv
<1>8. \A e \in Dbs : lock'[e] = IF e = d THEN {c} ELSE lock[e]
  BY <1>6 DEF CInv
<1>9. \A e \in Dbs : off'[e] = IF e = d THEN n ELSE off[e]
  BY <1>6 DEF CInv
<1>10. \A e \in con[c].dbs : lock[e] = {c} /\ e \in Dbs
  BY <1>4, <1>0 DEF CInv, LocksHeld, ConType
<1>11. ASSUME NEW e \in Ahead(w) PROVE off'[e] <= MaxRecs
  <2>1. CASE e = d
    BY <1>9, <2>1, Consts
  <2>2. CASE e # d
    <3>1. e \in con[c].dbs
      BY <1>3, <1>11, <2>2
    <3>2. e \in Ahead(con[c]) /\ e \in Dbs
      BY <1>0, <1>4, <1>10, <3>1
    <3>3. off[e] <= MaxRecs
      BY <3>2, Bounds
    <3> QED BY <1>9, <2>2, <3>2, <3>3
  <2> QED BY <2>1, <2>2
<1>12. Moves(c)
  BY <1>0, <1>1, <1>2, <1>3, <1>4, <1>5, <1>7, <1>8, <1>9, <1>10, <1>11 DEF Moves
<1>13. x \in FileOf(JournalsOf(d)) /\ jrnl' = SetOf(jrnl, d, x) /\ db' = db /\ super' = super
       /\ past' = past
  <2>1. jrnl[d] \in FileOf(JournalsOf(d)) /\ db[d] \in FileOf(Contents(d))
    BY DEF CInv, FileTypes
  <2>2. jrnl[d].now \in JournalsOf(d) /\ db[d].now \in Contents(d)
    BY <2>1 DEF FileOf
  <2>3. /\ Over(jrnl[d].now, db[d].now, n) \in JournalsOf(d)
        /\ Over(jrnl[d].now, Damaged, n) \in JournalsOf(d)
    BY <2>2, OverType
  <2>4. x \in FileOf(JournalsOf(d))
    BY <2>1, <2>3, Files
  <2> QED BY <2>4 DEF Write, history
<1>14. FileTypes'
  <2> HIDE DEF x
  <2> QED BY <1>13, JrnlChanges, Bounds
<1> QED BY <1>12, <1>14, MovesKeep, Bounds DEF Write, history, fixed

LEMMA CSpill ==
  ASSUME CInv, NEW c \in Conns, NEW d \in Dbs, Spill(c, d)
  PROVE  CInv'
<1>1. jrnl[d] \in FileOf(JournalsOf(d)) /\ db[d] \in FileOf(Contents(d)) /\ FileTypes
  BY DEF CInv, FileTypes
<1>2. Synced(jrnl[d]) \in FileOf(JournalsOf(d))
  BY <1>1, Files
<1>3. Changed(db[d], Torn, {}) \in FileOf(Contents(d))
  <2>1. Torn \in Contents(d) /\ {} \in SUBSET Contents(d)
    BY DEF Contents
  <2> QED BY <1>1, <2>1, Files
<1>4. FileTypes'
  BY <1>1, <1>2, <1>3, SameValues DEF Spill, SetOf, FileTypes, history
<1>5. /\ con' = con /\ lock' = lock /\ off' = off /\ past' = past /\ kept' = kept
      /\ faults' = faults /\ setting' = setting
  BY DEF Spill, history, fixed
<1> QED BY <1>4, <1>5, NothingMoves

(* A transaction begins its commit: the first number that is not taken.    *)
LEMMA Fresh ==
  ASSUME CInv, TxnsBegun < setting.txns
  PROVE  /\ TxnsBegun + 1 \in Txns /\ Members(TxnsBegun + 1) = {}
         /\ TxnsBegun + 1 <= MaxTxns
<1>1. TxnsBegun \in 0 .. MaxTxns /\ \A t \in Txns : Members(t) # {} <=> t <= TxnsBegun
  BY TxnsBegunIs DEF CInv
<1>2. setting.txns \in 1 .. MaxTxns
  BY Consts DEF CInv
<1> QED BY <1>1, <1>2, Consts DEF Txns

LEMMA IncludedBegun ==
  ASSUME CInv, NEW d \in Dbs
  PROVE  \A u \in Included(d) : u \in Txns /\ Members(u) # {}
<1>1. Content(d) \in Contents(d) \/ Content(d) \in {Zeroed, Damaged}
  BY DEF CInv, FileTypes, FileOf, JournalsOf, Content
<1>2. ASSUME Content(d) \in Txns PROVE d \in Members(Content(d))
  BY <1>1, <1>2, Consts DEF Contents, Values, Txns, Torn, Zeroed, Damaged
<1>3. ASSUME Content(d) \in Txns
      PROVE  \A u \in past[Content(d)][d] : u \in Txns /\ Members(u) # {}
  BY <1>2, <1>3 DEF CInv, PastType
<1> QED BY <1>3 DEF Included

LEMMA FileOfGrows ==
  ASSUME NEW S, NEW T, S \subseteq T
  PROVE  FileOf(S) \subseteq FileOf(T)
<1>1. ASSUME NEW f \in FileOf(S) PROVE f \in FileOf(T)
  <2>1. f \in [now : S, may : SUBSET S] /\ f.now \in f.may
    BY DEF FileOf
  <2>2. f \in [now : T, may : SUBSET T]
    BY <2>1
  <2> QED BY <2>1, <2>2 DEF FileOf
<1> QED BY <1>1

LEMMA BeginEffect ==
  ASSUME CInv, NEW c \in Conns, BeginCommit(c)
  PROVE  \E t \in Txns :
         /\ t = TxnsBegun + 1 /\ Members(t) = {}
         /\ con[c].pc = "write" /\ con[c].dbs # {} /\ con[c].dbs \subseteq Dbs
         /\ con'[c] = [con[c] EXCEPT !.pc = IF NeedsSuper(con[c].dbs) THEN "create" ELSE "journal",
                               !.txn = t,
                               !.super = IF NeedsSuper(con[c].dbs) THEN t ELSE NoName,
                               !.todo = con[c].dbs]
         /\ \A e \in Conns \ {c} : con'[e] = con[e]
         /\ \A u \in Txns \ {t} : past'[u] = past[u] /\ Members(u)' = Members(u)
         /\ past'[t] = [d \in con[c].dbs |-> Included(d) \cup {t}]
         /\ past' = [u \in Txns |-> past'[u]]
         /\ Members(t)' = con[c].dbs
<1>0. PICK t \in Txns : t = TxnsBegun + 1 /\ Members(t) = {}
  BY Fresh DEF BeginCommit
<1>1. t \in Txns /\ Members(t) = {}
  BY <1>0
<1>2. con[c].pc = "write" /\ con[c].dbs # {} /\ con[c].dbs \subseteq Dbs
  BY Bounds DEF BeginCommit, At, ConOK, ConType
<1>3. past' = [past EXCEPT ![t] = [d \in con[c].dbs |-> Included(d) \cup {t}]]
  BY <1>0 DEF BeginCommit
<1>4. con \in [Conns -> ConType] /\ past = [u \in Txns |-> past[u]]
  BY DEF CInv, PastType
<1>5. con' = [con EXCEPT ![c] = [con[c] EXCEPT
                     !.pc = IF NeedsSuper(con[c].dbs) THEN "create" ELSE "journal",
                     !.txn = t,
                     !.super = IF NeedsSuper(con[c].dbs) THEN t ELSE NoName,
                     !.todo = con[c].dbs]]
  BY <1>0 DEF BeginCommit, Start
<1>6. /\ \A u \in Txns \ {t} : past'[u] = past[u]
      /\ past'[t] = [d \in con[c].dbs |-> Included(d) \cup {t}]
      /\ past' = [u \in Txns |-> past'[u]]
  BY <1>1, <1>3, <1>4
<1>7. Members(t)' = con[c].dbs /\ \A u \in Txns \ {t} : Members(u)' = Members(u)
  BY <1>6 DEF Members
<1>8. /\ \A e \in Conns \ {c} : con'[e] = con[e]
      /\ con'[c] = [con[c] EXCEPT
                       !.pc = IF NeedsSuper(con[c].dbs) THEN "create" ELSE "journal",
                       !.txn = t,
                       !.super = IF NeedsSuper(con[c].dbs) THEN t ELSE NoName,
                       !.todo = con[c].dbs]
  BY <1>4, <1>5
<1> QED BY <1>0, <1>2, <1>6, <1>7, <1>8

LEMMA CBeginCommit ==
  ASSUME CInv, NEW c \in Conns, BeginCommit(c)
  PROVE  CInv'
<1>1. PICK t \in Txns :
      /\ t = TxnsBegun + 1 /\ Members(t) = {}
      /\ con[c].pc = "write" /\ con[c].dbs # {} /\ con[c].dbs \subseteq Dbs
      /\ \A e \in Conns \ {c} : con'[e] = con[e]
      /\ \A u \in Txns \ {t} : past'[u] = past[u] /\ Members(u)' = Members(u)
      /\ past'[t] = [d \in con[c].dbs |-> Included(d) \cup {t}]
      /\ past' = [u \in Txns |-> past'[u]]
      /\ Members(t)' = con[c].dbs
      /\ con'[c] = [con[c] EXCEPT !.pc = IF NeedsSuper(con[c].dbs) THEN "create" ELSE "journal",
                         !.txn = t,
                         !.super = IF NeedsSuper(con[c].dbs) THEN t ELSE NoName,
                         !.todo = con[c].dbs]
  BY BeginEffect, ZenonT(60)
<1>2. PICK w : w = con'[c]
  OBVIOUS
<1>3. /\ db' = db /\ jrnl' = jrnl /\ super' = super /\ lock' = lock /\ off' = off
      /\ kept' = kept /\ faults' = faults /\ setting' = setting
  BY DEF BeginCommit, fixed
<1>t. TxnsBegun \in 0 .. MaxTxns /\ \A u \in Txns : Members(u) # {} <=> u <= TxnsBegun
  BY TxnsBegunIs DEF CInv
<1>4. \A u \in Txns : Members(u) \subseteq Members(u)' /\ (Members(u) # {} => u # t)
  BY <1>1
<1>5. Begun'
  <2>1. t \in 0 .. MaxTxns
    BY <1>1, Consts DEF Txns
  <2>2. \A u \in Txns : Members(u)' # {} <=> u <= t
    BY <1>1, <1>t, Consts DEF Txns
  <2> QED BY <2>1, <2>2, Zenon DEF Begun
<1>6. FileTypes'
  <2>1. \A d \in Dbs : Contents(d) \subseteq Contents(d)' /\ JournalsOf(d) \subseteq JournalsOf(d)'
    <3>1. \A d \in Dbs : Values(d) \subseteq Values(d)'
      BY <1>4 DEF Values
    <3>2. \A d \in Dbs : Contents(d) \subseteq Contents(d)'
      BY <3>1 DEF Contents
    <3> QED BY <3>2 DEF JournalsOf
  <2>2. ASSUME NEW d \in Dbs
        PROVE  db'[d] \in FileOf(Contents(d)') /\ jrnl'[d] \in FileOf(JournalsOf(d)')
    BY <2>1, <1>3, FileOfGrows DEF CInv, FileTypes
  <2> QED BY <1>3, <2>2 DEF CInv, FileTypes
<1>7. PastType'
  <2>1. ASSUME NEW u \in Txns
        PROVE  /\ past'[u] \in [Members(u)' -> SUBSET Txns] /\ Members(u)' \subseteq Dbs
               /\ \A d \in Members(u)' : \A v \in past'[u][d] : Members(v)' # {}
    <3>1. CASE u = t
      <4>1. \A d \in con[c].dbs : \A v \in Included(d) : v \in Txns /\ Members(v) # {}
        BY <1>1, IncludedBegun
      <4>2. past'[u] \in [Members(u)' -> SUBSET Txns] /\ Members(u)' \subseteq Dbs
        BY <1>1, <3>1, <4>1
      <4>3. ASSUME NEW d \in Members(u)', NEW v \in past'[u][d]
            PROVE  Members(v)' # {}
        <5>1. d \in con[c].dbs /\ v \in Included(d) \cup {t}
          BY <1>1, <3>1, <4>3
        <5> QED BY <5>1, <4>1, <1>1, <1>4
      <4> QED BY <4>2, <4>3
    <3>2. CASE u # t
      <4>1. past'[u] = past[u] /\ Members(u)' = Members(u)
        BY <1>1, <3>2
      <4>2. /\ past[u] \in [Members(u) -> SUBSET Txns] /\ Members(u) \subseteq Dbs
            /\ \A d \in Members(u) : \A v \in past[u][d] : Members(v) # {}
        BY DEF CInv, PastType
      <4>3. \A d \in Members(u) : \A v \in past[u][d] : v \in Txns
        BY <4>2
      <4>4. \A d \in Members(u) : \A v \in past[u][d] : Members(v)' # {}
        BY <4>2, <4>3, <1>4
      <4> QED BY <4>1, <4>2, <4>4
    <3> QED BY <3>1, <3>2
  <2> QED BY <1>1, <2>1 DEF PastType
<1>8. ConOK(con[c]) /\ con[c] \in ConType /\ t \in 0 .. MaxTxns
  BY <1>1, Bounds, Consts DEF Txns
<1>9. /\ w \in ConType /\ w.dbs = con[c].dbs /\ w.todo = con[c].dbs /\ w.txn = t
      /\ w.pc = IF NeedsSuper(con[c].dbs) THEN "create" ELSE "journal"
      /\ w.super = IF NeedsSuper(con[c].dbs) THEN t ELSE NoName
  <2>1. /\ w.dbs = con[c].dbs /\ w.todo = con[c].dbs /\ w.txn = t
        /\ w.pc = IF NeedsSuper(con[c].dbs) THEN "create" ELSE "journal"
        /\ w.super = IF NeedsSuper(con[c].dbs) THEN t ELSE NoName
    BY <1>1, <1>2, <1>8 DEF ConType
  <2>2. CASE NeedsSuper(con[c].dbs)
    BY <1>1, <1>2, <1>8, <2>1, <2>2 DEF ConType
  <2>3. CASE ~NeedsSuper(con[c].dbs)
    <3>1. NoName \in 0 .. MaxTxns
      BY Consts DEF NoName
    <3>2. w = [con[c] EXCEPT !.pc = "journal", !.txn = t, !.super = NoName, !.todo = con[c].dbs]
      BY <1>1, <1>2, <2>3
    <3> QED BY <1>8, <2>1, <2>3, <3>1, <3>2 DEF ConType
  <2> QED BY <2>1, <2>2, <2>3
<1>10. \A e \in Conns : ConOK(con[e])'
  <2>1. ConOK(con[c])'
    <3> QED BY <1>1, <1>2, <1>9 DEF ConOK
  <2>2. ASSUME NEW e \in Conns \ {c} PROVE ConOK(con[e])'
    <3>1. con'[e] = con[e] /\ ConOK(con[e])
      BY <1>1 DEF CInv
    <3>2. con[e].pc \in Committing => con[e].txn \in Txns /\ con[e].txn # t
      BY <3>1, <1>4 DEF ConOK
    <3> QED BY <3>1, <3>2, <1>1 DEF ConOK
  <2> QED BY <2>1, <2>2
<1>11. con' \in [Conns -> ConType]
  BY <1>1, <1>2, <1>9 DEF CInv, BeginCommit, Start
<1>12. Holds(w) = Holds(con[c]) /\ Ahead(w) \subseteq Ahead(con[c])
  BY <1>1, <1>9 DEF Holds, Ahead
<1>13. LocksHeld'
  BY <1>1, <1>2, <1>3, <1>12 DEF LocksHeld, CInv
<1>14. \A e \in Conns : \A d \in Ahead(con[e])' : off'[d] <= MaxRecs
  BY <1>1, <1>2, <1>3, <1>12 DEF CInv
<1>15. Distinct'
  <2>1. \A e \in Conns \ {c} : con[e].pc \in Committing => con[e].txn # t
    BY <1>4 DEF CInv, ConOK
  <2>2. ASSUME NEW e \in Conns, NEW f \in Conns, con'[e].pc \in Committing,
               con'[f].pc \in Committing, con'[e].txn = con'[f].txn
        PROVE  e = f
    <3>1. CASE e = c /\ f # c
      BY <2>1, <2>2, <3>1, <1>1, <1>2, <1>9
    <3>2. CASE f = c /\ e # c
      BY <2>1, <2>2, <3>2, <1>1, <1>2, <1>9
    <3>3. CASE e # c /\ f # c
      BY <2>2, <3>3, <1>1 DEF CInv, Distinct
    <3> QED BY <3>1, <3>2, <3>3
  <2> QED BY <2>2 DEF Distinct
<1> QED BY <1>3, <1>5, <1>6, <1>7, <1>10, <1>11, <1>13, <1>14, <1>15 DEF CInv

Ways ==
    {<<"create", "syncSuper">>, <<"syncSuper", "name">>, <<"journal", "pages">>,
     <<"pages", "syncDb">>, <<"delete", "syncDir">>, <<"syncDir", "end">>,
     <<"restored", "finalize">>, <<"children", "next">>}

LEMMA GoToKeeps ==
  ASSUME CInv, NEW c \in Conns, NEW q, <<con[c].pc, q>> \in Ways, GoTo(c, q),
         lock' = lock, off' = off
  PROVE  Moves(c)
<1> DEFINE w == [con[c] EXCEPT !.pc = q]
<1>1. ConOK(con[c]) /\ con[c] \in ConType /\ q \in Steps
  BY Bounds DEF Ways
<1>2. /\ w \in ConType /\ w.pc = q /\ w.dbs = con[c].dbs /\ w.todo = con[c].todo
      /\ w.txn = con[c].txn /\ w.super = con[c].super /\ w.name = con[c].name
  BY <1>1 DEF ConType
<1>3. con' = [con EXCEPT ![c] = w]
  BY DEF GoTo, Start
<1> HIDE DEF w
<1>4. ConOK(w)
  BY <1>1, <1>2 DEF ConOK, Ways
<1>5. Holds(w) = Holds(con[c])
  BY <1>1, <1>2 DEF Holds, Ways, ConOK
<1>6. Ahead(w) \subseteq Ahead(con[c])
  BY <1>1, <1>2 DEF Ahead, Ways, ConOK
<1>7. w.pc \in Committing => con[c].pc \in Committing /\ w.txn = con[c].txn
  BY <1>2 DEF Ways
<1> QED BY <1>3, <1>4, <1>5, <1>6, <1>7, Bounds, Keeps

LEMMA SuperFile ==
  ASSUME CInv, NEW c \in Conns, con[c].super # NoName
  PROVE  con[c].super \in Txns /\ super[con[c].super] \in FileOf(Supers)
BY Bounds DEF ConType, CInv, FileTypes, NoName, Txns

LEMMA CCreateSuper ==
  ASSUME CInv, NEW c \in Conns, CreateSuper(c)
  PROVE  CInv' /\ Moves(c)
<1> DEFINE x == Changed(super[con[c].super], [there |-> TRUE, names |-> con[c].dbs],
                        [there : {TRUE}, names : SUBSET con[c].dbs])
<1>1. con[c].pc = "create" /\ ConOK(con[c]) /\ con[c] \in ConType
  BY Bounds DEF CreateSuper, At
<1>2. Moves(c)
  BY <1>1, GoToKeeps DEF CreateSuper, Ways
<1>3. con[c].super \in Txns /\ super[con[c].super] \in FileOf(Supers)
  BY <1>1, SuperFile DEF ConOK, NoName, Txns
<1>4. x \in FileOf(Supers)
  <2>1. /\ [there |-> TRUE, names |-> con[c].dbs] \in Supers
        /\ [there : {TRUE}, names : SUBSET con[c].dbs] \in SUBSET Supers
    BY <1>1 DEF Supers, ConType
  <2> QED BY <1>3, <2>1, Files
<1>5. super' = SetOf(super, con[c].super, x) /\ db' = db /\ jrnl' = jrnl /\ past' = past
  BY DEF CreateSuper, history
<1>6. FileTypes'
  <2> HIDE DEF x
  <2> QED BY <1>3, <1>4, <1>5, SuperChanges, Bounds
<1> QED BY <1>2, <1>6, MovesKeep, Bounds DEF CreateSuper, history, fixed

(* The super-journal of c is synced, or unlinked. *)
LEMMA SuperTypes ==
  ASSUME CInv, NEW s \in Txns, db' = db, jrnl' = jrnl, past' = past,
         \/ super' = SetOf(super, s, Synced(super[s]))
         \/ super' = SetOf(super, s, Changed(super[s], NoSuper, {}))
  PROVE  FileTypes'
<1>1. super[s] \in FileOf(Supers)
  BY DEF CInv, FileTypes
<1>2. /\ Synced(super[s]) \in FileOf(Supers)
      /\ Changed(super[s], NoSuper, {}) \in FileOf(Supers)
  <2>1. NoSuper \in Supers /\ {} \in SUBSET Supers
    BY Nones
  <2> QED BY <1>1, <2>1, Files
<1> QED BY <1>2, SuperChanges, Bounds DEF CInv

LEMMA CSyncSuper ==
  ASSUME CInv, NEW c \in Conns, SyncSuper(c)
  PROVE  CInv' /\ Moves(c)
<1>1. con[c].pc = "syncSuper" /\ con[c].super # NoName
  BY Bounds DEF SyncSuper, At, ConOK, NoName, Txns
<1>2. Moves(c)
  BY <1>1, GoToKeeps DEF SyncSuper, Ways
<1>3. FileTypes'
  BY <1>1, SuperFile, SuperTypes DEF SyncSuper, history
<1> QED BY <1>2, <1>3, MovesKeep, Bounds DEF SyncSuper, history, fixed

LEMMA CDeleteSuper ==
  ASSUME CInv, NEW c \in Conns, DeleteSuper(c)
  PROVE  CInv' /\ Moves(c)
<1>1. con[c].pc = "delete" /\ con[c].super # NoName
  BY Bounds DEF DeleteSuper, At, ConOK, NoName, Txns
<1>2. Moves(c)
  BY <1>1, GoToKeeps DEF DeleteSuper, Ways
<1>3. FileTypes'
  BY <1>1, SuperFile, SuperTypes DEF DeleteSuper, history
<1> QED BY <1>2, <1>3, MovesKeep, Bounds DEF DeleteSuper, history, fixed

LEMMA CSyncDir ==
  ASSUME CInv, NEW c \in Conns, SyncDir(c)
  PROVE  CInv' /\ Moves(c)
<1>1. con[c].pc = "syncDir" /\ con[c].super # NoName
  BY Bounds DEF SyncDir, At, ConOK, NoName, Txns
<1>2. Moves(c)
  BY <1>1, GoToKeeps DEF SyncDir, Ways
<1>3. FileTypes'
  BY <1>1, SuperFile, SuperTypes DEF SyncDir, history, DirSynced
<1> QED BY <1>2, <1>3, MovesKeep, Bounds DEF SyncDir, history, fixed

LEMMA CJournalSuper ==
  ASSUME CInv, NEW c \in Conns, JournalSuper(c)
  PROVE  CInv' /\ Moves(c)
<1> DEFINE w == [con[c] EXCEPT !.pc = "journal"]
<1>0. PICK d : d = Current(c)
  OBVIOUS
<1>1. con[c].pc = "name" /\ ConOK(con[c]) /\ con[c] \in ConType /\ con[c].todo # {}
  BY Bounds DEF JournalSuper, At, ConOK
<1>2. d \in con[c].todo /\ d \in Dbs /\ d = First(con[c].todo)
  BY <1>0, <1>1, CurrentIn DEF Current
<1>3. /\ w \in ConType /\ w.pc = "journal" /\ w.dbs = con[c].dbs /\ w.todo = con[c].todo
      /\ w.txn = con[c].txn /\ w.super = con[c].super
  BY <1>1 DEF ConType
<1>4. con' = [con EXCEPT ![c] = w] /\ lock' = lock /\ off' = [off EXCEPT ![d] = off[d] + 1]
  BY <1>0 DEF JournalSuper, GoTo, Start, AtOff
<1> HIDE DEF w
<1>5. ConOK(w)
  BY <1>1, <1>3 DEF ConOK
<1>6. Holds(w) = con[c].dbs /\ Holds(con[c]) = con[c].dbs /\ Ahead(con[c]) = con[c].todo
      /\ Ahead(w) = con[c].todo \ {d}
  BY <1>1, <1>2, <1>3 DEF Holds, Ahead
<1>7. off[d] \in 0 .. MaxRecs
  BY <1>2, <1>6, Bounds, Consts
<1>8. off' \in [Dbs -> 0 .. MaxRecs + 1] /\ \A e \in Dbs \ {d} : off'[e] = off[e]
  BY <1>2, <1>4, <1>7, Bounds, Consts
<1>9. d \in con[c].dbs /\ con[c].todo \subseteq Dbs
  BY <1>1, <1>2 DEF ConOK, ConType
<1>10. Moves(c)
  <2>1. \A e \in Ahead(w) : off'[e] <= MaxRecs
    BY <1>6, <1>8, <1>9, Bounds
  <2> QED BY <1>1, <1>3, <1>4, <1>5, <1>6, <1>8, <1>9, <2>1, Keeps
<1>11. FileTypes'
  <2>1. jrnl[d] \in FileOf(JournalsOf(d)) /\ jrnl[d].now \in JournalsOf(d)
    BY <1>2 DEF CInv, FileTypes, FileOf
  <2>2. Named(jrnl[d].now, off[d], con[c].super) \in JournalsOf(d)
    BY <2>1, <1>1, <1>7, NamedType DEF ConType
  <2>3. Changed(jrnl[d], Named(jrnl[d].now, off[d], con[c].super), {}) \in FileOf(JournalsOf(d))
    <3>1. {} \in SUBSET JournalsOf(d)
      OBVIOUS
    <3> QED BY <2>1, <2>2, <3>1, Files
  <2> QED BY <1>0, <1>2, <2>3, JrnlChanges, Bounds DEF JournalSuper, history
<1> QED BY <1>10, <1>11, MovesKeep, Bounds DEF JournalSuper, history, fixed

LEMMA CSyncJournal ==
  ASSUME CInv, NEW c \in Conns, SyncJournal(c)
  PROVE  CInv' /\ Moves(c)
<1>1. con[c].pc = "journal" /\ Current(c) \in Dbs
  BY Bounds, CurrentIn DEF SyncJournal, At, ConOK
<1>2. Moves(c)
  BY <1>1, GoToKeeps DEF SyncJournal, Ways
<1>3. FileTypes'
  <2>1. Synced(jrnl[Current(c)]) \in FileOf(JournalsOf(Current(c)))
    BY <1>1, Files DEF CInv, FileTypes
  <2> QED BY <1>1, <2>1, JrnlChanges, Bounds DEF SyncJournal, history
<1> QED BY <1>2, <1>3, MovesKeep, Bounds DEF SyncJournal, history, fixed

LEMMA CWritePages ==
  ASSUME CInv, NEW c \in Conns, WritePages(c)
  PROVE  CInv' /\ Moves(c)
<1>0. PICK d : d = Current(c)
  OBVIOUS
<1>1. con[c].pc = "pages" /\ d \in Dbs /\ d \in con[c].dbs
  BY <1>0, Bounds, CurrentIn DEF WritePages, At, ConOK
<1>2. Moves(c)
  BY <1>1, GoToKeeps DEF WritePages, Ways
<1>3. FileTypes'
  <2>1. con[c].txn \in Contents(d) /\ {Torn} \in SUBSET Contents(d)
    BY <1>1, Bounds DEF ConOK, Contents, Values
  <2>2. Changed(db[d], con[c].txn, {Torn}) \in FileOf(Contents(d))
    BY <1>1, <2>1, Files DEF CInv, FileTypes
  <2> QED BY <1>0, <1>1, <2>2, DbChanges, Bounds DEF WritePages, history
<1> QED BY <1>2, <1>3, MovesKeep, Bounds DEF WritePages, history, fixed

(* A database file is synced. *)
LEMMA DbSyncTypes ==
  ASSUME CInv, NEW d \in Dbs, db' = SetOf(db, d, Synced(db[d])), jrnl' = jrnl,
         super' = super, past' = past
  PROVE  FileTypes'
<1>1. Synced(db[d]) \in FileOf(Contents(d))
  BY Files DEF CInv, FileTypes
<1> QED BY <1>1, DbChanges DEF CInv

LEMMA NextDb ==
  ASSUME CInv, NEW c \in Conns, SyncDb(c)
  PROVE  \E w : /\ con' = [con EXCEPT ![c] = w] /\ ConOK(w)
                /\ w.dbs = con[c].dbs /\ w.txn = con[c].txn /\ w.super = con[c].super
                /\ w.pc \in {"name", "delete", "end"}
                /\ w.pc \in {"name", "delete"} <=> con[c].super # NoName
                /\ Holds(w) = con[c].dbs /\ Holds(con[c]) = con[c].dbs
                /\ Ahead(w) \subseteq Ahead(con[c])
                /\ Behind(w) \subseteq Behind(con[c]) \cup {Current(c)}
<1>0. PICK d : d = Current(c)
  OBVIOUS
<1>1. con[c].pc = "syncDb" /\ ConOK(con[c]) /\ con[c] \in ConType /\ con[c].todo # {}
  BY Bounds DEF SyncDb, At, ConOK
<1>2. d \in con[c].todo /\ d \in Dbs /\ d \in con[c].dbs /\ d = First(con[c].todo)
  BY <1>0, <1>1, CurrentIn DEF Current
<1>3. PICK w : /\ con' = [con EXCEPT ![c] = w]
               /\ w = [con[c] EXCEPT
                         !.todo = IF con[c].todo \ {d} = {} THEN con[c].dbs ELSE con[c].todo \ {d},
                         !.pc = IF con[c].todo \ {d} = {}
                                THEN (IF con[c].super # NoName THEN "delete" ELSE "end")
                                ELSE (IF con[c].super # NoName THEN "name" ELSE "end")]
  BY <1>0 DEF SyncDb, Advance, Start
<1>4. con[c].super = NoName => con[c].dbs = {d} /\ con[c].todo = {d}
  BY <1>1, <1>2, OneDatabase DEF ConOK, ConType, NoName, Txns
<1>5. con[c].super # NoName => NeedsSuper(con[c].dbs)
  BY <1>1 DEF ConOK
<1>6. /\ w \in ConType /\ w.dbs = con[c].dbs /\ w.txn = con[c].txn /\ w.super = con[c].super
      /\ w.todo \subseteq con[c].dbs /\ w.todo # {}
      /\ (w.todo = con[c].dbs /\ con[c].todo = {d}) \/ w.todo = con[c].todo \ {d}
      /\ w.pc \in {"delete", "end"} => w.todo = con[c].dbs /\ con[c].todo = {d}
      /\ w.pc = "name" => con[c].super # NoName /\ w.todo = con[c].todo \ {d}
      /\ w.pc = "delete" => con[c].super # NoName
      /\ w.pc = "end" => con[c].super = NoName
      /\ w.pc \in {"delete", "end", "name"}
  BY <1>1, <1>2, <1>3, <1>4, ZenonT(60) DEF ConOK, ConType
<1>7. ConOK(w)
  BY <1>1, <1>5, <1>6 DEF ConOK
<1>8. Holds(w) = con[c].dbs /\ Holds(con[c]) = con[c].dbs
  BY <1>1, <1>6 DEF Holds
<1>9. Ahead(w) \subseteq Ahead(con[c])
  BY <1>1, <1>2, <1>6 DEF Ahead
<1>10. Behind(w) \subseteq Behind(con[c]) \cup {d}
  BY <1>1, <1>6 DEF Behind
<1>11. w.pc \in {"name", "delete"} <=> con[c].super # NoName
  BY <1>6
<1> QED BY <1>0, <1>3, <1>6, <1>7, <1>8, <1>9, <1>10, <1>11, ZenonT(60)

LEMMA CSyncDb ==
  ASSUME CInv, NEW c \in Conns, SyncDb(c)
  PROVE  CInv' /\ Moves(c)
<1>1. con[c].pc = "syncDb" /\ Current(c) \in Dbs
  BY Bounds, CurrentIn DEF SyncDb, At, ConOK
<1>2. PICK w : /\ con' = [con EXCEPT ![c] = w] /\ ConOK(w)
               /\ w.dbs = con[c].dbs /\ w.txn = con[c].txn /\ w.super = con[c].super
               /\ w.pc \in {"name", "delete", "end"}
               /\ w.pc \in {"name", "delete"} <=> con[c].super # NoName
               /\ Holds(w) = con[c].dbs /\ Holds(con[c]) = con[c].dbs
               /\ Ahead(w) \subseteq Ahead(con[c])
               /\ Behind(w) \subseteq Behind(con[c]) \cup {Current(c)}
  BY NextDb
<1>3. Moves(c)
  <2>1. lock' = lock /\ off' = off
    BY DEF SyncDb
  <2> QED BY <1>1, <1>2, <2>1, Keeps, Bounds
<1>4. FileTypes'
  BY <1>1, DbSyncTypes DEF SyncDb, history
<1> QED BY <1>3, <1>4, MovesKeep, Bounds DEF SyncDb, history, fixed

(* The end of the work on one database. *)
LEMMA LeaveMoves ==
  ASSUME CInv, NEW c \in Conns, con[c].pc = "end", Leave(c), Release(c)
  PROVE  Moves(c)
<1>0. PICK d : d = Current(c)
  OBVIOUS
<1>1. ConOK(con[c]) /\ con[c] \in ConType /\ con[c].todo # {}
  BY Bounds DEF ConOK
<1>2. d \in con[c].todo /\ d = First(con[c].todo)
  BY <1>0, <1>1, CurrentIn DEF Current
<1>3. PICK w : /\ con' = [con EXCEPT ![c] = w]
               /\ w = IF con[c].todo \ {d} = {} THEN Idle
                      ELSE [con[c] EXCEPT !.todo = con[c].todo \ {d}]
  BY <1>0 DEF Leave, Start
<1>4. ConOK(w)
  <2>1. CASE con[c].todo \ {d} = {}
    BY <1>3, <2>1, Consts DEF ConOK, ConType, Idle, NoName
  <2>2. CASE con[c].todo \ {d} # {}
    <3>1. w = [con[c] EXCEPT !.todo = con[c].todo \ {d}]
      BY <1>3, <2>2
    <3>2. /\ w \in ConType /\ w.pc = "end" /\ w.dbs = con[c].dbs /\ w.txn = con[c].txn
          /\ w.super = con[c].super /\ w.todo = con[c].todo \ {d}
      BY <3>1, <1>1 DEF ConType
    <3> QED BY <1>1, <2>2, <3>2 DEF ConOK
  <2> QED BY <2>1, <2>2
<1>5. /\ Holds(w) = Holds(con[c]) \ {d} /\ d \in Holds(con[c]) /\ Ahead(w) = {}
      /\ w.pc \in Committing => con[c].pc \in Committing /\ w.txn = con[c].txn
  BY <1>1, <1>2, <1>3 DEF Holds, Ahead, Idle, ConType
<1> QED BY <1>0, <1>3, <1>4, <1>5, LetsGo DEF Release

LEMMA CEndJournal ==
  ASSUME CInv, NEW c \in Conns, EndJournal(c)
  PROVE  CInv' /\ Moves(c)
<1>1. con[c].pc = "end" /\ Current(c) \in Dbs /\ con[c].txn \in Txns
  BY Bounds, CurrentIn DEF EndJournal, At, ConOK
<1>2. Moves(c)
  BY <1>1, LeaveMoves DEF EndJournal
<1>3. FileTypes'
  BY <1>1, FinalizedType, JrnlChanges, Bounds DEF EndJournal
<1>4. kept' \subseteq Txns
  BY <1>1, Bounds DEF EndJournal
<1> QED BY <1>2, <1>3, <1>4, MovesKeep, Bounds DEF EndJournal, fixed

-----------------------------------------------------------------------------
(* Roll-back and recovery.                                                 *)

(* All that c holds is rolled back. *)
LEMMA PlayAll ==
  ASSUME CInv, NEW c \in Conns, con[c].pc \in Working,
         Start(c, [con[c] EXCEPT !.pc = "play", !.todo = con[c].dbs]),
         lock' = lock, off' = off
  PROVE  Moves(c)
<1>1. PICK w : con' = [con EXCEPT ![c] = w]
               /\ w = [con[c] EXCEPT !.pc = "play", !.todo = con[c].dbs]
  BY DEF Start
<1>2. ConOK(con[c]) /\ con[c] \in ConType
  BY Bounds
<1>3. w \in ConType /\ w.pc = "play" /\ w.dbs = con[c].dbs /\ w.todo = con[c].dbs
  BY <1>1, <1>2 DEF ConType
<1>4. ConOK(w)
  BY <1>2, <1>3 DEF ConOK
<1>5. Holds(w) = Holds(con[c]) /\ Ahead(w) = {} /\ w.pc \notin Committing
  BY <1>2, <1>3 DEF Holds, Ahead
<1> QED BY <1>1, <1>4, <1>5, Keeps, Bounds

LEMMA CRollback ==
  ASSUME CInv, NEW c \in Conns, Rollback(c)
  PROVE  CInv' /\ Moves(c)
<1>1. con[c].pc = "write"
  BY DEF Rollback, At
<1>2. Moves(c)
  BY <1>1, PlayAll DEF Rollback
<1>3. FileTypes'
  BY NoFileChanges, Bounds DEF Rollback, history
<1> QED BY <1>2, <1>3, MovesKeep, Bounds DEF Rollback, history, fixed

LEMMA CRecover ==
  ASSUME CInv, NEW c \in Conns, NEW d \in Dbs, Recover(c, d)
  PROVE  CInv' /\ Moves(c)
<1>1. PICK w : con' = [con EXCEPT ![c] = w]
               /\ w = [con[c] EXCEPT !.pc = "play", !.dbs = {d}, !.todo = {d}]
  BY DEF Recover, Start
<1>2. con[c] = Idle /\ con[c] \in ConType /\ lock[d] = {}
  BY Bounds DEF Recover, Hot, Nobody
<1>3. w \in ConType /\ w.pc = "play" /\ w.dbs = {d} /\ w.todo = {d}
  BY <1>1, <1>2 DEF ConType
<1>4. ConOK(w)
  BY <1>3 DEF ConOK
<1>5. Holds(w) = {d} /\ Holds(con[c]) = {} /\ Ahead(w) = {} /\ w.pc \notin Committing
  BY <1>2, <1>3 DEF Holds, Ahead, Idle
<1>6. con' \in [Conns -> ConType] /\ con'[c] = w /\ \A e \in Conns \ {c} : con'[e] = con[e]
  BY <1>1, <1>3 DEF CInv
<1>7. lock' = [lock EXCEPT ![d] = {c}] /\ off' = [off EXCEPT ![d] = 0]
  BY DEF Recover, Lock, AtOff
<1>8. lock' \in [Dbs -> SUBSET Conns] /\ off' \in [Dbs -> 0 .. MaxRecs + 1]
  BY <1>7, Consts DEF CInv
<1>9. \A e \in Dbs : lock'[e] = (IF e = d THEN {c} ELSE lock[e]) /\ (e # d => off'[e] = off[e])
  BY <1>7 DEF CInv
<1>10. Moves(c)
  BY <1>2, <1>4, <1>5, <1>6, <1>8, <1>9 DEF Moves
<1>11. FileTypes'
  <2> DEFINE x == [now |-> jrnl[d].now,
                   may |-> {jrnl[d].now} \cup (jrnl[d].may \cap {NoJournal})]
  <2>1. x \in FileOf(JournalsOf(d))
    <3>1. jrnl[d] \in [now : JournalsOf(d), may : SUBSET JournalsOf(d)]
      BY DEF CInv, FileTypes, FileOf
    <3> QED BY <3>1 DEF FileOf
  <2>2. jrnl' = SetOf(jrnl, d, x) /\ db' = db /\ super' = super /\ past' = past
    BY DEF Recover, history
  <2> HIDE DEF x
  <2> QED BY <2>1, <2>2, JrnlChanges, Bounds
<1> QED BY <1>10, <1>11, MovesKeep, Bounds DEF Recover, history, fixed

LEMMA CPlay ==
  ASSUME CInv, NEW c \in Conns, Play(c)
  PROVE  CInv' /\ Moves(c)
<1>0. PICK d : d = Current(c)
  OBVIOUS
<1>1. con[c].pc = "play" /\ ConOK(con[c]) /\ con[c] \in ConType /\ con[c].todo # {}
  BY Bounds DEF Play, At, ConOK
<1>2. d \in con[c].todo /\ d \in Dbs
  BY <1>0, <1>1, CurrentIn
<1>3. PICK w : /\ con' = [con EXCEPT ![c] = w]
               /\ w = [con[c] EXCEPT !.pc = "restored",
                          !.name = IF IsCold(jrnl[d].now) THEN NoName ELSE jrnl[d].now.name]
  BY <1>0 DEF Play, Start
<1>4. jrnl[d].now \in JournalsOf(d) /\ db[d] \in FileOf(Contents(d))
  BY <1>2 DEF CInv, FileTypes, FileOf
<1>5. w \in ConType /\ w.pc = "restored" /\ w.dbs = con[c].dbs /\ w.todo = con[c].todo
  <2>1. NoName \in 0 .. MaxTxns /\ jrnl[d].now.name \in 0 .. MaxTxns
    BY <1>4, Consts DEF NoName, JournalsOf
  <2> QED BY <1>1, <1>3, <2>1 DEF ConType
<1>6. ConOK(w)
  BY <1>1, <1>5 DEF ConOK
<1>7. Holds(w) = con[c].todo /\ Holds(con[c]) = con[c].todo /\ Ahead(w) = {}
      /\ w.pc \notin Committing
  BY <1>1, <1>5 DEF Holds, Ahead
<1>8. off' = [off EXCEPT ![d] = IF IsCold(jrnl[d].now) THEN off[d] ELSE Larger(off[d], 1)]
      /\ lock' = lock
  BY <1>0 DEF Play, AtOff
<1>9. off' \in [Dbs -> 0 .. MaxRecs + 1] /\ \A e \in Dbs \ {d} : off'[e] = off[e]
  <2>1. Larger(off[d], 1) \in 0 .. MaxRecs + 1 /\ off[d] \in 0 .. MaxRecs + 1
    BY <1>2, Bounds, Consts DEF Larger
  <2> QED BY <1>2, <1>8, <2>1, Bounds
<1>10. Moves(c)
  BY <1>2, <1>3, <1>6, <1>7, <1>8, <1>9, Keeps
<1>11. FileTypes'
  <2>1. CASE db' = db
    BY <2>1, NoFileChanges, Bounds DEF Play, history
  <2>2. CASE db' # db
    <3> DEFINE x == Changed(db[d], jrnl[d].now.head,
                            IF db[d].now = jrnl[d].now.head THEN {} ELSE {Torn})
    <3>1. ~(jrnl[d].now.head < 0) /\ db' = SetOf(db, d, x)
      BY <1>0, <2>2 DEF Play
    <3>2. jrnl[d].now.head \in Contents(d)
      BY <1>4, <3>1 DEF JournalsOf, Zeroed, Damaged
    <3>3. x \in FileOf(Contents(d))
      <4>1. Torn \in Contents(d)
        BY Nones
      <4> QED BY <1>4, <3>2, <4>1, Files
    <3> HIDE DEF x
    <3> QED BY <1>2, <3>1, <3>3, DbChanges, Bounds DEF Play, history
  <2> QED BY <2>1, <2>2
<1> QED BY <1>10, <1>11, MovesKeep, Bounds DEF Play, history, fixed

LEMMA CSyncRestored ==
  ASSUME CInv, NEW c \in Conns, SyncRestored(c)
  PROVE  CInv' /\ Moves(c)
<1>1. con[c].pc = "restored" /\ Current(c) \in Dbs
  BY Bounds, CurrentIn DEF SyncRestored, At, ConOK
<1>2. Moves(c)
  BY <1>1, GoToKeeps DEF SyncRestored, Ways
<1>3. FileTypes'
  BY <1>1, DbSyncTypes DEF SyncRestored, history
<1> QED BY <1>2, <1>3, MovesKeep, Bounds DEF SyncRestored, history, fixed

(* The database that is current is unlocked, and c looks at the rest. *)
LEMMA ReleaseMoves ==
  ASSUME CInv, NEW c \in Conns, con[c].pc \in Restoring, Release(c),
         NEW q \in Released, NEW S \in SUBSET Dbs, q = "children" => con[c].name # NoName,
         Start(c, [con[c] EXCEPT !.pc = q, !.check = S])
  PROVE  Moves(c)
<1>0. PICK d : d = Current(c)
  OBVIOUS
<1>1. ConOK(con[c]) /\ con[c] \in ConType /\ con[c].todo # {}
  BY Bounds DEF ConOK
<1>2. d \in con[c].todo /\ d = First(con[c].todo)
  BY <1>0, <1>1, CurrentIn DEF Current
<1>3. PICK w : con' = [con EXCEPT ![c] = w] /\ w = [con[c] EXCEPT !.pc = q, !.check = S]
  BY DEF Start
<1>4. /\ w \in ConType /\ w.pc = q /\ w.dbs = con[c].dbs /\ w.todo = con[c].todo
      /\ w.name = con[c].name
  BY <1>1, <1>3 DEF ConType
<1>5. ConOK(w)
  BY <1>1, <1>4 DEF ConOK
<1>6. Holds(w) = Holds(con[c]) \ {d} /\ d \in Holds(con[c]) /\ Ahead(w) = {}
      /\ w.pc \notin Committing
  BY <1>1, <1>2, <1>4 DEF Holds, Ahead
<1> QED BY <1>0, <1>3, <1>5, <1>6, LetsGo DEF Release

LEMMA SuperNow ==
  ASSUME CInv, NEW s \in Txns
  PROVE  super[s].now \in Supers /\ super[s].now.names \subseteq Dbs
BY DEF CInv, FileTypes, FileOf, Supers

LEMMA NameIn ==
  ASSUME CInv, NEW c \in Conns, con[c].name # NoName
  PROVE  con[c].name \in Txns
BY Bounds DEF ConType, NoName, Txns

LEMMA CEndRollback ==
  ASSUME CInv, NEW c \in Conns, EndRollback(c)
  PROVE  CInv' /\ Moves(c)
<1>1. con[c].pc = "finalize" /\ Current(c) \in Dbs /\ con[c] \in ConType
  BY Bounds, CurrentIn DEF EndRollback, At, ConOK
<1>2. Moves(c)
  <2>1. CASE con[c].name # NoName /\ super[con[c].name].now.there
    <3>1. super[con[c].name].now.names \in SUBSET Dbs
      BY <2>1, NameIn, SuperNow
    <3>2. Start(c, [con[c] EXCEPT !.pc = "children", !.check = super[con[c].name].now.names])
      BY <2>1 DEF EndRollback
    <3> QED BY <1>1, <2>1, <3>1, <3>2, ReleaseMoves DEF EndRollback
  <2>2. CASE ~(con[c].name # NoName /\ super[con[c].name].now.there)
    <3>1. Start(c, [con[c] EXCEPT !.pc = "next"])
      BY <2>2 DEF EndRollback
    <3>2. [con[c] EXCEPT !.pc = "next"] = [con[c] EXCEPT !.pc = "next", !.check = con[c].check]
          /\ con[c].check \in SUBSET Dbs
      BY <1>1 DEF ConType
    <3>3. Start(c, [con[c] EXCEPT !.pc = "next", !.check = con[c].check])
      BY <3>1, <3>2
    <3> QED BY <1>1, <3>2, <3>3, ReleaseMoves DEF EndRollback
  <2> QED BY <2>1, <2>2
<1>3. FileTypes'
  BY <1>1, FinalizedType, JrnlChanges, Bounds DEF EndRollback, history
<1> QED BY <1>2, <1>3, MovesKeep, Bounds DEF EndRollback, history, fixed

LEMMA CNextRollback ==
  ASSUME CInv, NEW c \in Conns, NextRollback(c)
  PROVE  CInv' /\ Moves(c)
<1>0. PICK d : d = Current(c)
  OBVIOUS
<1>1. con[c].pc = "next" /\ ConOK(con[c]) /\ con[c] \in ConType /\ con[c].todo # {}
  BY Bounds DEF NextRollback, At, ConOK
<1>2. d \in con[c].todo /\ d = First(con[c].todo)
  BY <1>0, <1>1, CurrentIn DEF Current
<1>3. PICK w : /\ con' = [con EXCEPT ![c] = w]
               /\ w = IF con[c].todo \ {d} = {} THEN Idle
                      ELSE [con[c] EXCEPT !.pc = "play", !.todo = con[c].todo \ {d}]
  BY <1>0 DEF NextRollback, Start
<1>4. ConOK(w) /\ Holds(w) = con[c].todo \ {d} /\ Ahead(w) = {} /\ w.pc \notin Committing
  <2>1. CASE con[c].todo \ {d} = {}
    BY <1>3, <2>1, Consts DEF ConOK, ConType, Idle, NoName, Holds, Ahead
  <2>2. CASE con[c].todo \ {d} # {}
    <3>1. w = [con[c] EXCEPT !.pc = "play", !.todo = con[c].todo \ {d}]
      BY <1>3, <2>2
    <3>2. /\ w \in ConType /\ w.pc = "play" /\ w.dbs = con[c].dbs
          /\ w.todo = con[c].todo \ {d}
      BY <3>1, <1>1 DEF ConType
    <3> QED BY <1>1, <2>2, <3>2 DEF ConOK, Holds, Ahead
  <2> QED BY <2>1, <2>2
<1>5. Holds(con[c]) = con[c].todo \ {d}
  BY <1>1, <1>2 DEF Holds
<1>6. Moves(c)
  BY <1>3, <1>4, <1>5, Keeps, Bounds DEF NextRollback
<1>7. FileTypes'
  BY NoFileChanges, Bounds DEF NextRollback, history
<1> QED BY <1>6, <1>7, MovesKeep, Bounds DEF NextRollback, history, fixed

LEMMA CCheckChild ==
  ASSUME CInv, NEW c \in Conns, CheckChild(c)
  PROVE  CInv' /\ Moves(c)
<1>1. con[c].pc = "children" /\ ConOK(con[c]) /\ con[c] \in ConType
  BY Bounds DEF CheckChild, At
<1>2. Moves(c)
  <2>1. CASE GoTo(c, "next")
    BY <1>1, <2>1, GoToKeeps DEF CheckChild, Ways
  <2>2. CASE ~GoTo(c, "next")
    <3>1. PICK w : /\ con' = [con EXCEPT ![c] = w]
                   /\ w = [con[c] EXCEPT !.check = con[c].check \ {First(con[c].check)}]
      BY <2>2 DEF CheckChild, Start
    <3>2. /\ w \in ConType /\ w.pc = con[c].pc /\ w.dbs = con[c].dbs /\ w.todo = con[c].todo
          /\ w.name = con[c].name
      BY <1>1, <3>1 DEF ConType
    <3>3. ConOK(w) /\ Holds(w) = Holds(con[c]) /\ Ahead(w) = {} /\ w.pc \notin Committing
      BY <1>1, <3>2 DEF ConOK, Holds, Ahead
    <3> QED BY <3>1, <3>3, Keeps, Bounds DEF CheckChild
  <2> QED BY <2>1, <2>2
<1>3. FileTypes'
  BY NoFileChanges, Bounds DEF CheckChild, history
<1> QED BY <1>2, <1>3, MovesKeep, Bounds DEF CheckChild, history, fixed

LEMMA CDelSuper ==
  ASSUME CInv, NEW c \in Conns, DelSuper(c)
  PROVE  CInv' /\ Moves(c)
<1>1. con[c].pc = "children" /\ con[c].name # NoName
  BY Bounds DEF DelSuper, At, ConOK
<1>2. Moves(c)
  BY <1>1, GoToKeeps DEF DelSuper, Ways
<1>3. FileTypes'
  BY <1>1, NameIn, SuperTypes DEF DelSuper, history
<1> QED BY <1>2, <1>3, MovesKeep, Bounds DEF DelSuper, history, fixed

-----------------------------------------------------------------------------
(* Faults.                                                                 *)

LEMMA CIoError ==
  ASSUME CInv, NEW c \in Conns, IoError(c)
  PROVE  CInv' /\ Moves(c)
<1>0. faults' \in Nat /\ kept' = kept /\ past' = past /\ setting' = setting
  BY Bounds DEF IoError, Fault
<1>1. CASE (FailCommit(c) \/ FailSyncSuper(c) \/ FailWritePages(c)) /\ UNCHANGED <<lock, off>>
  <2>1. con[c].pc \in Working /\ ToRollback(c)
    BY <1>1 DEF FailCommit, FailSyncSuper, FailWritePages, At
  <2>2. Moves(c)
    BY <1>1, <2>1, PlayAll DEF ToRollback
  <2>3. CASE FailCommit(c)
    BY <1>0, <2>2, <2>3, NoFileChanges, MovesKeep, Bounds DEF FailCommit
  <2>4. CASE FailSyncSuper(c)
    <3>1. con[c].super # NoName
      BY <2>4, Bounds DEF FailSyncSuper, At, ConOK, NoName, Txns
    <3>2. FileTypes'
      BY <1>0, <2>4, <3>1, SuperFile, SuperTypes DEF FailSyncSuper
    <3> QED BY <1>0, <2>2, <3>2, MovesKeep, Bounds
  <2>5. CASE FailWritePages(c)
    <3>1. Current(c) \in Dbs
      BY <2>5, Bounds, CurrentIn DEF FailWritePages, At, ConOK
    <3>2. Changed(db[Current(c)], Torn, {}) \in FileOf(Contents(Current(c)))
      <4>1. Torn \in Contents(Current(c)) /\ {} \in SUBSET Contents(Current(c))
        BY Nones
      <4> QED BY <3>1, <4>1, Files DEF CInv, FileTypes
    <3>3. FileTypes'
      BY <1>0, <2>5, <3>1, <3>2, DbChanges, Bounds DEF FailWritePages
    <3> QED BY <1>0, <2>2, <3>3, MovesKeep, Bounds
  <2> QED BY <1>1, <2>3, <2>4, <2>5
<1>2. CASE GiveUp(c) /\ Release(c)
  <2>1. Moves(c)
    <3>1. CASE con[c].pc = "end"
      BY <1>2, <3>1, LeaveMoves DEF GiveUp, At
    <3>2. CASE con[c].pc \in Restoring
      <4>1. con[c] \in ConType /\ GoTo(c, "next")
        BY <1>2, <3>2, Bounds DEF GiveUp, At
      <4>2. [con[c] EXCEPT !.pc = "next"] = [con[c] EXCEPT !.pc = "next", !.check = con[c].check]
            /\ con[c].check \in SUBSET Dbs
        BY <4>1 DEF ConType
      <4>3. Start(c, [con[c] EXCEPT !.pc = "next", !.check = con[c].check])
        BY <4>1, <4>2 DEF GoTo
      <4> QED BY <1>2, <3>2, <4>2, <4>3, ReleaseMoves
    <3> QED BY <1>2, <3>1, <3>2 DEF GiveUp
  <2> QED BY <1>0, <1>2, <2>1, NoFileChanges, MovesKeep, Bounds DEF GiveUp
<1> QED BY <1>1, <1>2 DEF IoError

LEMMA CDie ==
  ASSUME CInv, NEW c \in Conns, Die(c)
  PROVE  CInv' /\ Moves(c)
<1>1. con' = [con EXCEPT ![c] = Idle]
  BY DEF Die, Start
<1>2. ConOK(Idle) /\ Idle \in ConType /\ Holds(Idle) = {} /\ Ahead(Idle) = {}
      /\ Idle.pc \notin Committing
  BY Consts DEF ConOK, ConType, Idle, NoName, Holds, Ahead
<1>3. con' \in [Conns -> ConType] /\ con'[c] = Idle /\ \A e \in Conns \ {c} : con'[e] = con[e]
  BY <1>1, <1>2 DEF CInv
<1>4. \A d \in Dbs : lock'[d] = (IF d \in Holds(con[c]) THEN {} ELSE lock[d])
  BY DEF Die, CInv, LocksHeld
<1>5. \A d \in Dbs : d \notin Holds(con[c]) => off'[d] = off[d]
  <2>1. \A d \in Dbs : d \notin Holds(con[c]) => d \notin Held(c)
    BY DEF Held, CInv, LocksHeld
  <2> QED BY <2>1 DEF Die
<1>6. lock' \in [Dbs -> SUBSET Conns] /\ off' \in [Dbs -> 0 .. MaxRecs + 1]
  <2>1. off' = [d \in Dbs |-> IF d \in Held(c) THEN 0 ELSE off[d]]
    BY DEF Die
  <2>2. lock' = [d \in Dbs |-> lock[d] \ {c}]
    BY DEF Die
  <2> QED BY <2>1, <2>2, Consts DEF CInv
<1>7. Moves(c)
  BY <1>2, <1>3, <1>4, <1>5, <1>6 DEF Moves
<1>8. FileTypes' /\ faults' \in Nat
  BY NoFileChanges, Bounds DEF Die, Fault
<1> QED BY <1>7, <1>8, MovesKeep, Bounds DEF Die, Fault

(* What a power failure leaves of each file. *)
LEMMA PowerLeaves ==
  ASSUME CInv, PowerFailure
  PROVE  /\ \E x : /\ \A d \in Dbs : x[d] \in db[d].may
                   /\ db' = [d \in Dbs |-> File(x[d])]
         /\ \E x : /\ \A d \in Dbs : x[d] \in jrnl[d].may
                   /\ jrnl' = [d \in Dbs |-> File(x[d])]
         /\ \E x : /\ \A s \in Txns : x[s] \in super[s].may
                   /\ super' = [s \in Txns |-> File(x[s])]
BY Zenon DEF PowerFailure

LEMMA CPower ==
  ASSUME CInv, PowerFailure
  PROVE  CInv'
<1>0. faults' \in Nat /\ kept' = kept /\ past' = past /\ setting' = setting
  BY DEF CInv, PowerFailure, Fault
<1>1. PICK x : /\ \A d \in Dbs : x[d] \in db[d].may
               /\ db' = [d \in Dbs |-> File(x[d])]
  BY PowerLeaves
<1>2. PICK y : /\ \A d \in Dbs : y[d] \in jrnl[d].may
               /\ jrnl' = [d \in Dbs |-> File(y[d])]
  BY PowerLeaves
<1>3. PICK z : /\ \A s \in Txns : z[s] \in super[s].may
               /\ super' = [s \in Txns |-> File(z[s])]
  BY PowerLeaves
<1>4. ASSUME NEW d \in Dbs
      PROVE  db'[d] \in FileOf(Contents(d)) /\ jrnl'[d] \in FileOf(JournalsOf(d))
  <2>1. x[d] \in Contents(d) /\ y[d] \in JournalsOf(d)
    BY <1>1, <1>2 DEF CInv, FileTypes, FileOf
  <2> QED BY <1>1, <1>2, <2>1, Files
<1>5. super' \in [Txns -> FileOf(Supers)]
  <2>1. \A s \in Txns : z[s] \in Supers
    BY <1>3 DEF CInv, FileTypes, FileOf
  <2>2. \A s \in Txns : File(z[s]) \in FileOf(Supers)
    BY <2>1, Files
  <2> QED BY <1>3, <2>2
<1>6. FileTypes'
  BY <1>0, <1>1, <1>2, <1>4, <1>5, SameValues DEF FileTypes
<1>7. con' = [c \in Conns |-> Idle] /\ lock' = [d \in Dbs |-> {}] /\ off' = [d \in Dbs |-> 0]
  BY DEF PowerFailure, Nobody
<1>8. Idle \in ConType /\ Holds(Idle) = {} /\ Ahead(Idle) = {} /\ Idle.pc \notin Committing
      /\ Idle.pc = "idle" /\ Idle.todo = {}
  BY Consts DEF ConType, Idle, NoName, Holds, Ahead
<1>9. ConOK(Idle)'
  BY <1>8 DEF ConOK
<1>10. LocksHeld' /\ Distinct'
  BY <1>7, <1>8 DEF LocksHeld, Distinct
<1>11. PastType' /\ Begun'
  BY <1>0, ZenonT(60) DEF CInv, PastType, Begun, Members
<1>12. /\ lock' \in [Dbs -> SUBSET Conns] /\ off' \in [Dbs -> 0 .. MaxRecs + 1]
       /\ con' \in [Conns -> ConType] /\ \A c \in Conns : ConOK(con[c])'
       /\ \A c \in Conns : \A d \in Ahead(con[c])' : off'[d] <= MaxRecs
  BY <1>7, <1>8, <1>9, Consts
<1> QED BY <1>0, <1>6, <1>10, <1>11, <1>12 DEF CInv

LEMMA CInit ==
  ASSUME Init
  PROVE  CInv
<1>1. FileTypes
  <2>1. \A d \in Dbs : File(0) \in FileOf(Contents(d)) /\ File(NoJournal) \in FileOf(JournalsOf(d))
    BY Nones, Files
  <2>2. File(NoSuper) \in FileOf(Supers)
    BY Nones, Files
  <2> QED BY <2>1, <2>2 DEF Init, FileTypes
<1>2. \A t \in Txns : Members(t) = {}
  BY DEF Init, Members, NotBegun
<1>3. PastType
  <2>1. \A t \in Txns : past[t] \in [Members(t) -> SUBSET Txns]
    BY DEF Init, Members, NotBegun
  <2> QED BY <1>2, <2>1 DEF PastType, Init
<1>4. Begun
  BY <1>2, Consts DEF Begun, Txns
<1>5. Idle \in ConType /\ Holds(Idle) = {} /\ Ahead(Idle) = {} /\ Idle.pc \notin Committing
      /\ ConOK(Idle)
  BY Consts DEF ConType, Idle, NoName, Holds, Ahead, ConOK
<1>6. LocksHeld /\ Distinct
  BY <1>5 DEF Init, LocksHeld, Distinct, Nobody
<1>7. /\ lock \in [Dbs -> SUBSET Conns] /\ off \in [Dbs -> 0 .. MaxRecs + 1]
      /\ con \in [Conns -> ConType] /\ \A c \in Conns : ConOK(con[c])
      /\ \A c \in Conns : \A d \in Ahead(con[c]) : off[d] <= MaxRecs
  BY <1>5, Consts DEF Init, Nobody
<1> QED BY <1>1, <1>3, <1>4, <1>6, <1>7 DEF CInv, Init

LEMMA CStep ==
  CInv /\ [Next]_vars => CInv'
<1> SUFFICES ASSUME CInv, [Next]_vars PROVE CInv'
  OBVIOUS
<1>1. CASE UNCHANGED vars
  BY <1>1, NoFileChanges, NothingMoves DEF vars, CInv
<1>2. ASSUME NEW c \in Conns, Commit(c) PROVE CInv'
  BY <1>2, CBeginCommit, CCreateSuper, CSyncSuper, CJournalSuper, CSyncJournal, CWritePages,
     CSyncDb, CDeleteSuper, CSyncDir, CEndJournal DEF Commit
<1>3. ASSUME NEW c \in Conns, RollingBack(c) PROVE CInv'
  BY <1>3, CRollback, CPlay, CSyncRestored, CEndRollback, CCheckChild, CDelSuper,
     CNextRollback DEF RollingBack
<1> QED BY <1>1, <1>2, <1>3, CWrite, CSpill, CRecover, CIoError, CDie, CPower DEF Next

(* Who holds which database, what is left to do and which transaction it   *)
(* is for fit together in every state, for every setting.                  *)
THEOREM ControlInvariance == Spec => []CInv
<1>1. Init => CInv
  BY CInit
<1> QED BY <1>1, CStep, PTL DEF Spec

(* Types, for every journal mode, level of syncing and fault.              *)
THEOREM Typing == Spec => []TypeOK
<1>1. CInv => TypeOK
  <2> SUFFICES ASSUME CInv PROVE TypeOK
    OBVIOUS
  <2>1. ASSUME NEW d \in Dbs
        PROVE  /\ db[d].may \subseteq {Torn} \cup 0 .. MaxTxns /\ db[d].now \in db[d].may
               /\ jrnl[d].may \subseteq Journals /\ jrnl[d].now \in jrnl[d].may
               /\ lock[d] \subseteq Conns /\ off[d] \in 0 .. MaxRecs + 1
    BY Nones DEF CInv, FileTypes, FileOf
  <2>2. ASSUME NEW d \in Dbs PROVE Cardinality(lock[d]) <= 1
    <3>1. lock[d] = {} \/ \E c : lock[d] = {c}
      BY DEF CInv, LocksHeld
    <3>2. Cardinality(lock[d]) \in {0, 1}
      BY <3>1, FS_EmptySet, FS_Singleton
    <3> QED BY <3>2
  <2>3. ASSUME NEW s \in Txns
        PROVE  /\ super[s].may \subseteq [there : BOOLEAN, names : SUBSET Dbs]
               /\ super[s].now \in super[s].may
    BY DEF CInv, FileTypes, FileOf, Supers
  <2>4. ASSUME NEW c \in Conns
        PROVE  /\ con[c].dbs \subseteq Dbs /\ con[c].todo \subseteq con[c].dbs
               /\ con[c].check \subseteq Dbs
               /\ con[c].txn \in 0 .. MaxTxns /\ con[c].super \in 0 .. MaxTxns
    BY Bounds DEF ConOK, ConType
  <2> QED BY <2>1, <2>2, <2>3, <2>4 DEF TypeOK, CInv
<1> QED BY <1>1, ControlInvariance, PTL

-----------------------------------------------------------------------------
(* What a step of one connection leaves as it is.                          *)

Power == "power" \in setting.faults

LEMMA RemainsIs ==
  ASSUME CInv
  PROVE  /\ \A d \in Dbs : /\ jrnl[d].now \in J(d) /\ J(d) \subseteq JournalsOf(d)
                           /\ db[d].now \in X(d) /\ X(d) \subseteq Contents(d)
                           /\ ~Power => J(d) = {jrnl[d].now} /\ X(d) = {db[d].now}
                           /\ Power => J(d) = jrnl[d].may /\ X(d) = db[d].may
         /\ \A s \in Txns : /\ super[s].now \in G(s) /\ G(s) \subseteq Supers
                            /\ ~Power => G(s) = {super[s].now}
                            /\ Power => G(s) = super[s].may
<1>1. ASSUME NEW S, NEW f \in FileOf(S)
      PROVE  /\ f.now \in Remains(f) /\ Remains(f) \subseteq S
             /\ ~Power => Remains(f) = {f.now}
             /\ Power => Remains(f) = f.may
  BY DEF FileOf, Remains, Power
<1>2. \A d \in Dbs : jrnl[d] \in FileOf(JournalsOf(d)) /\ db[d] \in FileOf(Contents(d))
  BY DEF CInv, FileTypes
<1>3. \A s \in Txns : super[s] \in FileOf(Supers)
  BY DEF CInv, FileTypes
<1> QED BY <1>1, <1>2, <1>3 DEF J, X, G

LEMMA ContentIs ==
  ASSUME NEW d
  PROVE  Content(d) = IF Live(jrnl[d].now) /\ ~IsCold(jrnl[d].now)
                      THEN jrnl[d].now.head ELSE db[d].now
BY DEF Content, Live

(* What is there now is one of the things that may be found.               *)
LEMMA FoundNow ==
  ASSUME CInv, NEW d \in Dbs
  PROVE  \E b \in MayBeThere(jrnl[d].now.name) :
             /\ Content(d) = Found(jrnl[d].now, db[d].now, b)
             /\ b = ~IsCold(jrnl[d].now)
<1>1. jrnl[d].now.name \in 0 .. MaxTxns
  BY RemainsIs DEF JournalsOf
<1>2. CASE jrnl[d].now.name = NoName
  BY <1>2, ContentIs DEF MayBeThere, Found, IsCold
<1>3. CASE jrnl[d].now.name # NoName
  <2>1. jrnl[d].now.name \in Txns
    BY <1>1, <1>3 DEF NoName, Txns
  <2>2. super[jrnl[d].now.name].now \in G(jrnl[d].now.name)
        /\ super[jrnl[d].now.name].now.there \in BOOLEAN
    BY <2>1, RemainsIs, SuperNow DEF Supers
  <2> QED BY <1>3, <2>2, ContentIs DEF MayBeThere, Found, IsCold
<1> QED BY <1>2, <1>3

(* Without power failures, what is there now is all that may be found.     *)
LEMMA Calm ==
  ASSUME CInv, ~Power, NEW e \in Dbs
  PROVE  \A j \in J(e), x \in X(e) : \A b \in MayBeThere(j.name) : Found(j, x, b) = Content(e)
<1>1. J(e) = {jrnl[e].now} /\ X(e) = {db[e].now}
  BY RemainsIs
<1>2. MayBeThere(jrnl[e].now.name) = {~IsCold(jrnl[e].now)}
  <2>1. jrnl[e].now.name \in 0 .. MaxTxns
    BY RemainsIs DEF JournalsOf
  <2>2. CASE jrnl[e].now.name = NoName
    BY <2>2 DEF MayBeThere, IsCold
  <2>3. CASE jrnl[e].now.name # NoName
    <3>1. jrnl[e].now.name \in Txns
      BY <2>1, <2>3 DEF NoName, Txns
    <3>2. G(jrnl[e].now.name) = {super[jrnl[e].now.name].now}
          /\ super[jrnl[e].now.name].now.there \in BOOLEAN
      BY <3>1, RemainsIs, SuperNow DEF Supers
    <3> QED BY <2>3, <3>2 DEF MayBeThere, IsCold
  <2> QED BY <2>2, <2>3
<1>3. Content(e) = Found(jrnl[e].now, db[e].now, ~IsCold(jrnl[e].now))
  BY FoundNow
<1> QED BY <1>1, <1>2, <1>3

Quietly(s) == Deciding(s) => Deciding(s)'

(* A database that the step does not touch, nor the super-journals that    *)
(* its journals name.                                                      *)
LEMMA LocalStays ==
  ASSUME CInv, NEW e \in Dbs, Local(e), db'[e] = db[e], jrnl'[e] = jrnl[e],
         past' = past, setting' = setting,
         \A j \in J(e) : j.name \in Txns => super'[j.name] = super[j.name],
         (\A j \in J(e) : Quietly(j.name)) \/ ~Power
  PROVE  Local(e)' /\ Multi(Content(e), e)' = Multi(Content(e), e)
<1>1. J(e)' = J(e) /\ X(e)' = X(e)
  BY DEF J, X, Remains
<1>2. /\ Values(e)' = Values(e) /\ \A x : Multi(x, e)' = Multi(x, e)
      /\ \A s : Members(s)' = Members(s)
  BY DEF Values, Multi, In, Members
<1>3. ASSUME NEW j \in J(e)
      PROVE  /\ MayBeThere(j.name)' = MayBeThere(j.name) /\ IsCold(j)' = IsCold(j)
             /\ j.name # NoName => super'[j.name] = super[j.name] /\ G(j.name)' = G(j.name)
  <2>1. j.name \in 0 .. MaxTxns
    BY RemainsIs DEF JournalsOf
  <2>2. j.name # NoName => super'[j.name] = super[j.name]
    BY <2>1 DEF NoName, Txns
  <2>3. j.name # NoName => G(j.name)' = G(j.name)
    BY <2>2 DEF G, Remains
  <2> QED BY <2>2, <2>3 DEF MayBeThere, IsCold
<1>4. jrnl[e].now \in J(e)
  BY RemainsIs
<1>5. Content(e)' = Content(e) /\ IsCold(jrnl[e].now)' = IsCold(jrnl[e].now)
  BY <1>3, <1>4 DEF Content, IsCold
<1>6. Shape(e)' /\ Stale(e)'
  BY <1>1, <1>2 DEF Local, Shape, Stale
<1>7. Names(e)'
  BY <1>1, <1>2, <1>3 DEF Local, Names
<1>8. Quiet(e)'
  BY <1>1, <1>5 DEF Local, Quiet
<1>9. Sound(e)'
  <2>1. CASE \A j \in J(e) : Quietly(j.name)
    BY <2>1, <1>1, <1>2, <1>3, <1>5 DEF Local, Sound, Quietly
  <2>2. CASE ~Power
    BY <2>2, <1>1, <1>2, <1>3, <1>5, Calm DEF Local, Sound
  <2> QED BY <2>1, <2>2
<1>10. Multi(Content(e), e)' = Multi(Content(e), e)
  BY <1>5 DEF Multi, In, Members
<1> QED BY <1>6, <1>7, <1>8, <1>9, <1>10 DEF Local

(* The files of others are left alone, no journal is given a name but that *)
(* of the commit, and no super-journal that is gone comes back.            *)
Alone(c) ==
    /\ \A d \in Dbs : \/ db'[d] = db[d] /\ jrnl'[d] = jrnl[d]
                      \/ d \in Holds(con[c]) \cup Holds(con'[c])
    /\ \A d \in Dbs : \A j \in J(d)' :
          \/ j.name = NoName
          \/ \E i \in J(d) : i.name = j.name
          \/ con[c].pc \in Committing /\ j.name = con[c].super
    /\ \A d \in Dbs : \/ jrnl'[d].now.name \in {NoName, jrnl[d].now.name}
                      \/ con[c].pc \in Committing /\ jrnl'[d].now.name = con[c].super
    /\ \A e \in Conns \ {c} : con[e].pc \in Committing /\ con[e].super # NoName =>
          super'[con[e].super] = super[con[e].super]
    /\ \A s \in Txns : (\E d \in Dbs : jrnl[d].now.name = s) /\ ~super[s].now.there
          => ~super'[s].now.there
    /\ past' = past /\ setting' = setting

(* Two commits have different super-journals.                              *)
LEMMA SupersDiffer ==
  ASSUME CInv, NEW c \in Conns, NEW e \in Conns, c # e, con[c].pc \in Committing,
         con[e].pc \in Committing, con[c].super # NoName
  PROVE  con[e].super # con[c].super
<1>1. con[c].txn # con[e].txn
  BY DEF CInv, Distinct
<1>2. ConOK(con[c]) /\ ConOK(con[e])
  BY Bounds
<1> QED BY <1>1, <1>2 DEF ConOK

LEMMA HoldsApart ==
  ASSUME CInv, NEW c \in Conns, NEW e \in Conns, c # e, Moves(c), NEW d \in Holds(con[e])
  PROVE  d \in Dbs /\ d \notin Holds(con[c]) /\ d \notin Holds(con'[c])
<1>1. d \in Dbs
  BY Bounds, HoldsIn
<1>2. e \in lock[d] /\ d \notin Holds(con[c])
  BY <1>1 DEF CInv, LocksHeld
<1> QED BY <1>1, <1>2 DEF Moves

LEMMA OthersKnow ==
  ASSUME IInv, NEW c \in Conns, Moves(c), Alone(c), NEW e \in Conns, e # c
  PROVE  Known(con[e])'
<1>0. CInv
  BY DEF IInv
<1>1. PICK v : v = con[e]
  OBVIOUS
<1>2. con'[e] = v /\ ConOK(v) /\ v \in ConType /\ Known(v)
  BY <1>1, Bounds DEF IInv, FInv, Moves
<1>3. \A d \in Holds(v) : d \in Dbs /\ db'[d] = db[d] /\ jrnl'[d] = jrnl[d]
                          /\ J(d)' = J(d) /\ X(d)' = X(d)
  <2>1. ASSUME NEW d \in Holds(v)
        PROVE  d \in Dbs /\ db'[d] = db[d] /\ jrnl'[d] = jrnl[d] /\ setting' = setting
    BY <1>0, <1>1, HoldsApart DEF Alone
  <2> QED BY <2>1 DEF J, X, Remains
<1>4. v.todo # {} => First(v.todo) \in v.todo /\ First(v.todo) \in Dbs
  BY <1>2, FirstIn DEF ConOK, ConType
<1>5. Ahead(v) \subseteq Holds(v) /\ Behind(v) \subseteq Holds(v) /\ Holds(v) \subseteq v.dbs
  BY <1>2, HoldsIn
<1>6. v.pc \in Working => Holds(v) = v.dbs
  BY DEF Holds
<1>7. v.pc \in PhaseOne \cup Restoring => First(v.todo) \in Holds(v)
  BY <1>2, <1>4 DEF Holds, ConOK
<1>8. Journalled(v)'
  BY <1>2, <1>3, <1>5, <1>6 DEF Known, Journalled
<1>9. Written(v)'
  BY <1>2, <1>3, <1>5, <1>7 DEF Known, Written
<1>10. Adds(v)'
  BY <1>2, <1>3 DEF Known, Adds, In, Alone
<1>11. SuperOf(v)'
  <2>1. v.pc \in Committing /\ v.super # NoName =>
            super'[v.super] = super[v.super] /\ G(v.super)' = G(v.super)
    BY <1>1 DEF Alone, G, Remains
  <2>2. v.pc \in Naming => v.super # NoName
    BY <1>2 DEF ConOK, Txns, NoName
  <2>3. ASSUME v.pc \in {"create", "syncSuper"}, NEW d \in Dbs, NEW j \in J(d)'
        PROVE  j.name # v.super
    <3>1. v.super # NoName
      BY <2>2, <2>3
    <3>2. \A i \in J(d) : i.name # v.super
      BY <1>2, <2>3 DEF Known, SuperOf
    <3>3. con[c].pc \in Committing => con[c].super # v.super
      BY <1>0, <1>1, <2>3, <3>1, SupersDiffer
    <3>4. \/ j.name = NoName
          \/ \E i \in J(d) : i.name = j.name
          \/ con[c].pc \in Committing /\ j.name = con[c].super
      BY DEF Alone
    <3> QED BY <3>1, <3>2, <3>3, <3>4
  <2>4. v.pc = "syncSuper" => super'[v.super].now = [there |-> TRUE, names |-> v.dbs]
    BY <1>2, <2>1, <2>2 DEF Known, SuperOf
  <2>5. v.pc \in PhaseOne \cup {"name", "delete"} /\ v.super # NoName
            => G(v.super)' = {[there |-> TRUE, names |-> v.dbs]}
    BY <1>2, <2>1 DEF Known, SuperOf
  <2>6. v.pc = "syncDir" => super'[v.super].now = NoSuper
    BY <1>2, <2>1, <2>2 DEF Known, SuperOf
  <2>7. v.pc = "end" /\ v.super # NoName => \A g \in G(v.super)' : ~g.there
    BY <1>2, <2>1 DEF Known, SuperOf
  <2> QED BY <2>3, <2>4, <2>5, <2>6, <2>7 DEF SuperOf
<1>12. Restored(v)'
  <2>1. ASSUME v.pc \in {"restored", "finalize"}
        PROVE  Content(First(v.todo))' = db'[First(v.todo)].now
    <3>1. PICK d : d = First(v.todo)
      OBVIOUS
    <3>2. d \in Holds(v) /\ d \in Dbs /\ db'[d] = db[d] /\ jrnl'[d] = jrnl[d]
      BY <1>3, <1>7, <2>1, <3>1
    <3>3. Content(d) = db[d].now
      BY <1>2, <2>1, <3>1 DEF Known, Restored
    <3>4. IsCold(jrnl[d].now) => IsCold(jrnl[d].now)'
      <4>1. jrnl[d].now.name \in 0 .. MaxTxns
        BY <1>0, <3>2, RemainsIs DEF JournalsOf
      <4>2. ASSUME jrnl[d].now.name # NoName, ~super[jrnl[d].now.name].now.there
            PROVE  ~super'[jrnl[d].now.name].now.there
        <5>1. jrnl[d].now.name \in Txns
          BY <4>1, <4>2 DEF Txns, NoName
        <5> QED BY <3>2, <4>2, <5>1 DEF Alone
      <4> QED BY <3>2, <4>2 DEF IsCold
    <3>5. Content(d)' = db'[d].now
      BY <3>2, <3>3, <3>4 DEF Content
    <3> QED BY <3>1, <3>5
  <2>2. v.pc = "finalize" => X(First(v.todo))' = {db'[First(v.todo)].now}
    BY <1>2, <1>3, <1>7 DEF Known, Restored
  <2>3. ASSUME v.pc \in {"restored", "finalize", "children"}, v.name # NoName,
               NEW f \in Conns, con'[f].pc \in Committing
        PROVE  con'[f].super # v.name
    <3>1. \A g \in Conns : con[g].pc \in Committing => con[g].super # v.name
      BY <1>2, <2>3 DEF Known, Restored
    <3>2. CASE f # c
      BY <2>3, <3>1, <3>2 DEF Moves
    <3>3. CASE f = c
      <4>1. con[c].pc \in Committing /\ con'[c].txn = con[c].txn
        BY <2>3, <3>3 DEF Moves
      <4>2. ConOK(con[c]) /\ ConOK(con'[c])
        BY <1>0, Bounds DEF Moves
      <4>3. con'[c].super = con[c].super
        BY <2>3, <3>3, <4>1, <4>2 DEF ConOK
      <4> QED BY <3>1, <3>3, <4>1, <4>3
    <3> QED BY <3>2, <3>3
  <2>4. ASSUME v.pc = "children", NEW k \in Dbs, jrnl'[k].now.name = v.name
        PROVE  k \in v.check
    <3>1. v.name # NoName
      BY <1>2, <2>4 DEF ConOK
    <3>2. con[c].pc \in Committing => con[c].super # v.name
      BY <1>2, <2>4, <3>1 DEF Known, Restored
    <3>3. jrnl[k].now.name = v.name
      BY <2>4, <3>1, <3>2 DEF Alone
    <3> QED BY <1>2, <2>4, <3>3 DEF Known, Restored
  <2>5. v.pc \in {"restored", "finalize", "children"} /\ v.name # NoName => Members(v.name)' # {}
    BY <1>2 DEF Known, Restored, Members, Alone
  <2> QED BY <2>1, <2>2, <2>3, <2>4, <2>5 DEF Restored
<1>13. Known(v)'
  BY <1>8, <1>9, <1>10, <1>11, <1>12 DEF Known
<1> QED BY <1>2, <1>13 DEF Known, Journalled, Written, Adds, SuperOf, Restored

LEMMA KeepsTogether ==
  ASSUME IInv, past' = past,
         \A d \in Dbs : Multi(Content(d), d)' = Multi(Content(d), d),
         \A c \in Conns : con'[c].pc \in Committing =>
                              con[c].pc \in Committing /\ con'[c].txn = con[c].txn
  PROVE  Together' /\ \A t \in kept : Final(t)'
<1>1. \A t : Members(t)' = Members(t)
  BY DEF Members
<1>2. \A t \in Txns : Members(t) \subseteq Dbs
  BY DEF IInv, CInv, PastType
<1>3. /\ \A d \in Dbs : \A t : NeedsSuper(Members(t)) =>
            (t \in Included(d) <=> t \in Multi(Content(d), d))
      /\ \A d \in Dbs : \A t : NeedsSuper(Members(t)) =>
            (t \in Included(d)' <=> t \in Multi(Content(d), d)')
  BY <1>1 DEF Included, Multi, In
<1>4. \A d \in Dbs : \A t : NeedsSuper(Members(t)) => (t \in Included(d)' <=> t \in Included(d))
  BY <1>3
<1>5. Together'
  BY <1>1, <1>2, <1>4 DEF IInv, FInv, Together
<1>6. \A t \in kept : Final(t)'
  <2>1. kept \subseteq Txns /\ \A t \in kept : Final(t)
    BY DEF IInv, FInv, CInv
  <2> QED BY <2>1, <1>1, <1>2, <1>4 DEF Final
<1> QED BY <1>5, <1>6

LEMMA NoneDecided ==
  ASSUME NEW c \in Conns, Moves(c), con[c].pc # "syncDir"
  PROVE  \A s : Quietly(s)
BY DEF Moves, Quietly, Deciding

(* A step that changes no super-journal and the files of d alone.          *)
LEMMA OnlyFile ==
  ASSUME IInv, NEW c \in Conns, Moves(c), Alone(c), NEW d \in Dbs,
         \A e \in Dbs \ {d} : db'[e] = db[e] /\ jrnl'[e] = jrnl[e],
         super' = super, con[c].pc # "syncDir",
         Local(d)', Multi(Content(d), d)' = Multi(Content(d), d), Known(con[c])'
  PROVE  /\ \A e \in Dbs : Local(e)'
         /\ \A e \in Conns : Known(con[e])'
         /\ Together' /\ \A t \in kept : Final(t)'
<1>1. past' = past /\ setting' = setting /\ CInv /\ \A s : Quietly(s)
  BY NoneDecided DEF Alone, IInv
<1>2. ASSUME NEW e \in Dbs PROVE Local(e)' /\ Multi(Content(e), e)' = Multi(Content(e), e)
  <2>1. CASE e = d
    BY <2>1
  <2>2. CASE e # d
    BY <1>1, <2>2, LocalStays DEF IInv, FInv
  <2> QED BY <2>1, <2>2
<1>3. Together' /\ \A t \in kept : Final(t)'
  BY <1>1, <1>2, KeepsTogether DEF Moves
<1>4. ASSUME NEW e \in Conns PROVE Known(con[e])'
  <2>1. CASE e = c
    BY <2>1
  <2>2. CASE e # c
    BY <2>2, OthersKnow
  <2> QED BY <2>1, <2>2
<1> QED BY <1>2, <1>3, <1>4

LEMMA OneFile ==
  ASSUME IInv, NEW c \in Conns, Moves(c), Alone(c), NEW d \in Dbs,
         \A e \in Dbs \ {d} : db'[e] = db[e] /\ jrnl'[e] = jrnl[e],
         super' = super, kept' = kept, con[c].pc # "syncDir",
         Local(d)', Multi(Content(d), d)' = Multi(Content(d), d), Known(con[c])'
  PROVE  FInv'
BY OnlyFile DEF FInv

(* A step that changes no file.                                            *)
LEMMA NoFile ==
  ASSUME IInv, NEW c \in Conns, Moves(c), db' = db, jrnl' = jrnl, super' = super,
         past' = past, setting' = setting, kept' = kept, con[c].pc # "syncDir" \/ ~Power,
         Known(con[c])'
  PROVE  FInv'
<1>1. CInv /\ ((\A s : Quietly(s)) \/ ~Power)
  BY NoneDecided DEF IInv
<1>2. Alone(c)
  <2>1. \A d : J(d)' = J(d)
    BY DEF J, Remains
  <2> QED BY <2>1 DEF Alone
<1>3. \A e \in Dbs : Local(e)' /\ Multi(Content(e), e)' = Multi(Content(e), e)
  BY <1>1, LocalStays DEF IInv, FInv
<1>4. Together' /\ \A t \in kept : Final(t)'
  BY <1>3, KeepsTogether DEF Moves
<1>5. ASSUME NEW e \in Conns PROVE Known(con[e])'
  <2>1. CASE e = c
    BY <2>1
  <2>2. CASE e # c
    BY <2>2, <1>2, OthersKnow
  <2> QED BY <2>1, <2>2
<1> QED BY <1>3, <1>4, <1>5 DEF FInv

LEMMA NextRemains ==
  ASSUME setting' = setting
  PROVE  /\ \A d : J(d)' = Remains(jrnl'[d]) /\ X(d)' = Remains(db'[d])
         /\ \A s : G(s)' = Remains(super'[s])
         /\ Power' = Power
BY DEF J, X, G, Remains, Power

LEMMA ChangedRemains ==
  ASSUME NEW f, NEW x, NEW half
  PROVE  /\ Changed(f, x, half).now = x
         /\ x \in Remains(Changed(f, x, half))
         /\ Remains(Changed(f, x, half)) \subseteq Remains(f) \cup {x} \cup half
         /\ Power => Remains(Changed(f, x, half)) = Remains(f) \cup {x} \cup half
         /\ ~Power => Remains(Changed(f, x, half)) = {x}
BY DEF Changed, Remains, Power

LEMMA SyncedRemains ==
  ASSUME NEW f
  PROVE  Synced(f).now = f.now /\ Remains(Synced(f)) = {f.now}
BY DEF Synced, File, Remains

LEMMA IInvParts ==
  ASSUME IInv
  PROVE  /\ CInv /\ Together /\ \A t \in kept : Final(t)
         /\ \A d \in Dbs : Local(d) /\ Shape(d) /\ Names(d) /\ Stale(d) /\ Quiet(d) /\ Sound(d)
         /\ \A c \in Conns : Known(con[c])
BY DEF IInv, FInv, Local

(* What d holds now is what some transaction left.                         *)
LEMMA ContentValue ==
  ASSUME IInv, NEW d \in Dbs
  PROVE  Content(d) \in Values(d)
<1>1. jrnl[d].now \in J(d) /\ db[d].now \in X(d)
  BY RemainsIs, IInvParts
<1>2. PICK b \in MayBeThere(jrnl[d].now.name) : Content(d) = Found(jrnl[d].now, db[d].now, b)
  BY FoundNow, IInvParts
<1> QED BY <1>1, <1>2, IInvParts DEF Sound

(* The content of a database whose file may be read.                       *)
LEMMA FileSound ==
  ASSUME IInv, NEW d \in Dbs, NoJournal \in J(d), NEW x \in X(d)
  PROVE  x \in Values(d) /\ Multi(x, d) = Multi(Content(d), d)
<1>1. MayBeThere(NoName) = {TRUE} /\ ~Deciding(NoName)
  BY DEF MayBeThere, Deciding
<1>2. NoJournal.name = NoName /\ Found(NoJournal, x, TRUE) = x
  BY DEF NoJournal, Found, Live
<1> QED BY <1>1, <1>2, IInvParts DEF Sound

LEMMA DeleteMode ==
  ASSUME Deletes, CInv
  PROVE  /\ \A d \in Dbs : setting.journal[d] = "delete"
         /\ setting.faults \subseteq {"die", "io"} \/ setting.faults \subseteq {"power"}
BY DEF Deletes, CInv

(* A file of d is synced: less may be found than before.                   *)
LEMMA Shrinks ==
  ASSUME IInv, NEW d \in Dbs, super' = super, past' = past, setting' = setting,
         jrnl'[d].now = jrnl[d].now, db'[d].now = db[d].now,
         J(d)' \subseteq J(d), X(d)' \subseteq X(d),
         J(d)' = {jrnl[d].now} \/ (NoJournal \in J(d) => NoJournal \in J(d)'),
         \A s : Quietly(s)
  PROVE  Local(d)' /\ Multi(Content(d), d)' = Multi(Content(d), d)
<1>1. /\ Values(d)' = Values(d) /\ \A x : Multi(x, d)' = Multi(x, d)
      /\ \A s : MayBeThere(s)' = MayBeThere(s) /\ Members(s)' = Members(s) /\ G(s)' = G(s)
  BY DEF Values, Multi, In, MayBeThere, Members, G, Remains
<1>2. Content(d)' = Content(d) /\ \A j : IsCold(j)' = IsCold(j)
  BY DEF Content, IsCold
<1>3. Shape(d)' /\ Names(d)' /\ Quiet(d)'
  BY <1>1, <1>2, IInvParts DEF Shape, Names, Quiet
<1>4. Stale(d)'
  BY IInvParts DEF Stale
<1>5. Sound(d)'
  BY <1>1, <1>2, IInvParts DEF Sound, Quietly
<1>6. Multi(Content(d), d)' = Multi(Content(d), d)
  BY <1>1, <1>2
<1> QED BY <1>3, <1>4, <1>5, <1>6 DEF Local

(* A journal that is sure to be rolled back, and no other, may be found:   *)
(* what is in the file does not matter.                                    *)
LEMMA Covered ==
  ASSUME IInv, NEW d \in Dbs, super' = super, past' = past, setting' = setting,
         jrnl'[d].now = jrnl[d].now, J(d)' = {jrnl[d].now}, Live(jrnl[d].now),
         jrnl[d].now.name = NoName \/ \A g \in G(jrnl[d].now.name) : g.there
  PROVE  Local(d)' /\ Multi(Content(d), d)' = Multi(Content(d), d)
<1>j. PICK j : j = jrnl[d].now
  OBVIOUS
<1>0. CInv /\ j \in J(d) /\ J(d)' = {j} /\ jrnl'[d].now = j /\ Live(j)
  BY <1>j, IInvParts, RemainsIs
<1>1. /\ Values(d)' = Values(d) /\ \A x : Multi(x, d)' = Multi(x, d)
      /\ \A s : MayBeThere(s)' = MayBeThere(s) /\ Members(s)' = Members(s) /\ G(s)' = G(s)
  BY DEF Values, Multi, In, MayBeThere, Members, G, Remains
<1>2. MayBeThere(j.name) = {TRUE} /\ ~IsCold(j) /\ ~IsCold(j)'
  <2>1. CASE j.name = NoName
    BY <2>1, <1>0 DEF MayBeThere, IsCold
  <2>2. CASE j.name # NoName
    <3>1. j.name \in Txns
      BY <1>0, <2>2, RemainsIs DEF JournalsOf, NoName, Txns
    <3>2. super[j.name].now \in G(j.name) /\ \A g \in G(j.name) : g.there /\ g \in Supers
      BY <1>0, <1>j, <2>2, <3>1, RemainsIs
    <3>3. \A g \in G(j.name) : g.there = TRUE
      BY <3>2 DEF Supers
    <3> QED BY <2>2, <3>2, <3>3 DEF MayBeThere, IsCold
  <2> QED BY <2>1, <2>2
<1>3. Content(d) = j.head /\ Content(d)' = j.head
  BY <1>0, <1>j, <1>2 DEF Content, Live
<1>4. Shape(d)' /\ Names(d)' /\ Stale(d)'
  BY <1>0, <1>1, IInvParts DEF Shape, Names, Stale
<1>5. Quiet(d)'
  BY <1>0 DEF Quiet
<1>6. Sound(d)'
  <2>1. j.head \in Values(d)
    BY <1>3, ContentValue
  <2>2. \A x, b : b \in MayBeThere(j.name)' => Found(j, x, b) = j.head
    BY <1>0, <1>1, <1>2 DEF Found
  <2> QED BY <1>0, <1>1, <1>3, <2>1, <2>2 DEF Sound
<1> QED BY <1>1, <1>3, <1>4, <1>5, <1>6 DEF Local

-----------------------------------------------------------------------------
(* The steps of a transaction, and what may be found of its files.         *)

LEMMA FWrite ==
  ASSUME Deletes, IInv, NEW c \in Conns, NEW d \in Dbs, NEW n \in 1 .. MaxRecs,
         Write(c, d, n), Moves(c)
  PROVE  FInv'
<1> DEFINE a == [head |-> db[d].now, len |-> n, name |-> NoName]
           b == [head |-> Damaged, len |-> n, name |-> NoName]
<1>0. CInv /\ Local(d)
  BY IInvParts DEF Local
<1>1. jrnl[d].now \in J(d) /\ db[d].now \in X(d) /\ X(d) \subseteq Contents(d)
  BY <1>0, RemainsIs
<1>2. jrnl[d].now = NoJournal
  <2>1. ~StaysCold(d)
    BY <1>0, DeleteMode DEF StaysCold
  <2>2. ~(jrnl[d].now.len > 0 /\ jrnl[d].now.head # Zeroed)
    BY <2>1 DEF Write, Hot
  <2>3. \A v \in Values(d) \cup {Damaged} : v # Zeroed
    BY DEF Values, Txns, Damaged, Zeroed
  <2> QED BY <1>0, <1>1, <2>2, <2>3 DEF Local, Shape
<1>3. Over(jrnl[d].now, db[d].now, n) = a /\ Over(jrnl[d].now, Damaged, n) = b
  BY <1>2, Consts DEF Over, NoJournal, Larger, NoName
<1>4. /\ jrnl'[d] = Changed(jrnl[d], a, {b}) /\ db' = db /\ super' = super /\ past' = past
      /\ setting' = setting /\ kept' = kept
      /\ \A e \in Dbs \ {d} : jrnl'[e] = jrnl[e]
  BY <1>0, <1>3 DEF Write, SetOf, history, fixed, CInv, FileTypes
<1>5. Content(d) = db[d].now /\ db[d].now \in Values(d)
  <2>1. Content(d) = db[d].now
    BY <1>2 DEF Content, NoJournal
  <2> QED BY <2>1, ContentValue
<1>6. a.name = NoName /\ b.name = NoName /\ Live(a) /\ ~Live(b) /\ a.head = db[d].now
      /\ a.len > 0 /\ b.len > 0 /\ b.head = Damaged
  BY <1>5, Consts DEF Live, Values, Txns, Damaged
<1> HIDE DEF a, b
<1>7. /\ jrnl'[d].now = a /\ a \in J(d)' /\ J(d)' \subseteq J(d) \cup {a, b}
      /\ Power => J(d)' = J(d) \cup {a, b}
      /\ ~Power => J(d)' = {a}
      /\ X(d)' = X(d)
  <2>1. J(d) = Remains(jrnl[d]) /\ J(d)' = Remains(jrnl'[d]) /\ X(d)' = X(d)
    BY <1>4, NextRemains DEF J, X, Remains
  <2> QED BY <1>4, <2>1, ChangedRemains
<1>8. /\ Values(d)' = Values(d) /\ \A x : Multi(x, d)' = Multi(x, d)
      /\ \A s : MayBeThere(s)' = MayBeThere(s) /\ Members(s)' = Members(s) /\ G(s)' = G(s)
  BY <1>4 DEF Values, Multi, In, MayBeThere, Members, G, Remains
<1>9. Content(d)' = Content(d)
  BY <1>4, <1>5, <1>6, <1>7 DEF Content, Live, IsCold
<1>10. Shape(d)'
  BY <1>0, <1>5, <1>6, <1>7, <1>8 DEF Local, Shape
<1>11. Names(d)'
  BY <1>0, <1>4, <1>6, <1>7, <1>8 DEF Local, Names
<1>12. Stale(d)'
  BY <1>0, <1>2, <1>6, <1>7 DEF Local, Stale, NoJournal
<1>13. Quiet(d)'
  BY <1>4, <1>6, <1>7 DEF Quiet
<1>14. Sound(d)'
  <2>1. ASSUME NEW j \in J(d)', NEW x \in X(d)', NEW g \in MayBeThere(j.name)'
        PROVE  /\ Found(j, x, g) \in Values(d)
               /\ Multi(Found(j, x, g), d) = Multi(Content(d), d)
                  \/ (g /\ Deciding(j.name)')
    <3>1. CASE j = a
      BY <1>5, <1>6, <3>1 DEF Found
    <3>2. CASE j = b
      <4>1. Found(j, x, g) = x
        BY <1>6, <3>2 DEF Found
      <4> QED BY <1>1, <1>2, <1>7, <4>1, FileSound
    <3>3. CASE j \in J(d)
      <4>1. g \in MayBeThere(j.name) /\ x \in X(d) /\ Quietly(j.name)
        BY <1>7, <1>8, NoneDecided DEF Write
      <4> QED BY <1>0, <3>3, <4>1 DEF Local, Sound, Quietly
    <3> QED BY <1>7, <3>1, <3>2, <3>3
  <2> QED BY <2>1, <1>8, <1>9 DEF Sound
<1>15. Alone(c)
  <2>1. d \in Holds(con'[c])
    <3>1. con'[c].pc = "write" /\ d \in con'[c].dbs
      BY <1>0, Bounds DEF Write, Start, CInv, ConType
    <3> QED BY <3>1 DEF Holds
  <2>2. \A e \in Dbs \ {d} : J(e)' = J(e)
    BY <1>4 DEF J, Remains
  <2> QED BY <2>1, <2>2, <1>4, <1>6, <1>7 DEF Alone
<1>16. Known(con[c])'
  <2>1. PICK w : w = con'[c]
    OBVIOUS
  <2>2. w.pc = "write" /\ w.dbs = con[c].dbs \cup {d}
    BY <1>0, <2>1, Bounds DEF Write, Start, CInv, ConType
  <2>3. ASSUME NEW e \in con[c].dbs
        PROVE  e \in Dbs /\ Live(jrnl[e].now) /\ jrnl[e].now.name = NoName
    <3>1. con[c].pc = "write" /\ e \in Dbs
      BY <1>0, <2>3, Bounds DEF Write, ConOK, ConType, Idle
    <3>2. Known(con[c])
      BY IInvParts
    <3> QED BY <3>1, <3>2, <2>3 DEF Known, Journalled, Ahead
  <2>4. \A e \in w.dbs : Live(jrnl'[e].now) /\ jrnl'[e].now.name = NoName
    BY <1>4, <1>6, <1>7, <2>2, <2>3
  <2>5. Journalled(w)'
    BY <2>2, <2>4 DEF Journalled, Ahead
  <2>6. Written(w)' /\ Adds(w)'
    BY <2>2 DEF Written, Behind, Adds
  <2>7. SuperOf(w)' /\ Restored(w)'
    BY <2>2 DEF SuperOf, Restored
  <2> QED BY <2>1, <2>5, <2>6, <2>7 DEF Known, Journalled, Written, Adds, SuperOf, Restored
<1>17. Local(d)' /\ Multi(Content(d), d)' = Multi(Content(d), d)
  BY <1>8, <1>9, <1>10, <1>11, <1>12, <1>13, <1>14 DEF Local
<1> QED BY <1>4, <1>15, <1>16, <1>17, OneFile DEF Write

LEMMA FSpill ==
  ASSUME IInv, NEW c \in Conns, NEW d \in Dbs, Spill(c, d)
  PROVE  FInv'
<1>1. con[c].pc = "write" /\ d \in con[c].dbs /\ con' = con /\ CInv
  BY IInvParts DEF Spill, At
<1>2. Moves(c)
  <2>1. con' = [con EXCEPT ![c] = con[c]] /\ ConOK(con[c]) /\ lock' = lock /\ off' = off
    BY <1>1, Bounds DEF Spill, CInv
  <2> QED BY <1>1, <2>1, Keeps, Bounds
<1>3. Live(jrnl[d].now) /\ jrnl[d].now.name = NoName
  BY <1>1, IInvParts DEF Known, Journalled, Ahead
<1>4. /\ jrnl'[d] = Synced(jrnl[d]) /\ super' = super /\ past' = past
      /\ setting' = setting /\ kept' = kept
      /\ \A e \in Dbs \ {d} : jrnl'[e] = jrnl[e] /\ db'[e] = db[e]
  BY <1>1 DEF Spill, SetOf, history, fixed, CInv, FileTypes
<1>5. jrnl'[d].now = jrnl[d].now /\ J(d)' = {jrnl[d].now} /\ jrnl[d].now \in J(d)
  BY <1>1, <1>4, SyncedRemains, NextRemains, RemainsIs
<1>6. Local(d)' /\ Multi(Content(d), d)' = Multi(Content(d), d)
  BY <1>3, <1>4, <1>5, Covered
<1>7. Alone(c)
  <2>1. d \in Holds(con[c])
    BY <1>1 DEF Holds
  <2>2. \A e \in Dbs \ {d} : J(e)' = J(e)
    BY <1>4 DEF J, Remains
  <2> QED BY <1>4, <1>5, <2>1, <2>2 DEF Alone
<1>8. Known(con[c])'
  <2>1. PICK w : w = con[c]
    OBVIOUS
  <2>2. w.pc = "write" /\ Journalled(w)
    BY <1>1, <2>1, IInvParts DEF Known
  <2>3. w.dbs \subseteq Dbs
    BY <1>1, <2>1, Bounds DEF ConType
  <2>4. Journalled(w)'
    BY <1>4, <1>5, <2>2, <2>3 DEF Journalled, Ahead
  <2>5. Written(w)' /\ Adds(w)'
    BY <2>2 DEF Written, Behind, Adds
  <2>6. SuperOf(w)' /\ Restored(w)'
    BY <2>2 DEF SuperOf, Restored
  <2> QED BY <1>1, <2>1, <2>4, <2>5, <2>6 DEF Known, Journalled, Written, Adds, SuperOf, Restored
<1> QED BY <1>1, <1>2, <1>4, <1>6, <1>7, <1>8, OneFile

-----------------------------------------------------------------------------
(* Steps that change no file.                                              *)

(* Who has nothing in hand, or is only to roll back, knows nothing.        *)
LEMMA NothingToKnow ==
  ASSUME NEW c \in Conns, con'[c].pc \in {"idle", "play", "next"}
  PROVE  Known(con[c])'
<1>1. PICK w : w = con'[c]
  OBVIOUS
<1>2. w.pc \in {"idle", "play", "next"}
  BY <1>1
<1>3. Journalled(w)' /\ Written(w)' /\ Adds(w)'
  BY <1>2 DEF Journalled, Ahead, Written, Behind, Adds
<1>4. SuperOf(w)' /\ Restored(w)'
  BY <1>2 DEF SuperOf, Restored
<1> QED BY <1>1, <1>3, <1>4 DEF Known, Journalled, Written, Adds, SuperOf, Restored

(* The next database of a commit: what is behind stays as it is.           *)
LEMMA LeavesKnown ==
  ASSUME IInv, NEW c \in Conns, con[c].pc = "end", Leave(c), super' = super, past' = past,
         setting' = setting,
         \A e \in Dbs \ {Current(c)} : db'[e] = db[e] /\ jrnl'[e] = jrnl[e]
  PROVE  Known(con[c])'
<1>0. PICK d : d = Current(c)
  OBVIOUS
<1>1. CInv /\ Known(con[c]) /\ con[c].todo \subseteq Dbs /\ con[c] \in ConType
  BY IInvParts, Bounds DEF ConType
<1>2. PICK w : /\ con' = [con EXCEPT ![c] = w]
               /\ w = IF con[c].todo \ {d} = {} THEN Idle
                      ELSE [con[c] EXCEPT !.todo = con[c].todo \ {d}]
  BY <1>0 DEF Leave, Start
<1>3. con'[c] = w
  BY <1>1, <1>2 DEF CInv
<1>4. CASE con[c].todo \ {d} = {}
  <2>1. con'[c].pc = "idle"
    BY <1>2, <1>3, <1>4 DEF Idle
  <2> QED BY <2>1, NothingToKnow
<1>5. CASE con[c].todo \ {d} # {}
  <2>1. w.pc = "end" /\ w.todo = con[c].todo \ {d} /\ w.txn = con[c].txn /\ w.super = con[c].super
    BY <1>1, <1>2, <1>5 DEF ConType
  <2>2. \A e \in w.todo : /\ e \in Dbs /\ e \in con[c].todo
                          /\ jrnl'[e] = jrnl[e] /\ J(e)' = J(e) /\ X(e)' = X(e)
    <3>1. \A e \in w.todo : e \in Dbs /\ e \in con[c].todo /\ jrnl'[e] = jrnl[e] /\ db'[e] = db[e]
      BY <1>0, <1>1, <2>1
    <3> QED BY <3>1 DEF J, X, Remains
  <2>3. Journalled(w)'
    BY <2>1 DEF Journalled, Ahead
  <2>4. Written(w)'
    <3>1. Behind(w) = w.todo /\ Behind(con[c]) = con[c].todo
      BY <2>1 DEF Behind
    <3>2. \A e \in Behind(con[c]) :
             /\ J(e) = {jrnl[e].now} /\ X(e) = {con[c].txn}
             /\ Live(jrnl[e].now) /\ jrnl[e].now.name = con[c].super
      BY <1>1 DEF Known, Written
    <3> QED BY <2>1, <2>2, <3>1, <3>2 DEF Written
  <2>5. Adds(w)'
    <3>1. Holds(w) = w.todo /\ Holds(con[c]) = con[c].todo /\ con[c].pc \in Committing
      BY <2>1 DEF Holds
    <3> QED BY <1>1, <2>1, <2>2, <3>1 DEF Known, Adds, In
  <2>6. SuperOf(w)'
    <3>1. \A s : G(s)' = G(s)
      BY DEF G, Remains
    <3> QED BY <1>1, <2>1, <3>1 DEF Known, SuperOf
  <2>7. Restored(w)'
    BY <2>1 DEF Restored
  <2> QED BY <1>3, <2>3, <2>4, <2>5, <2>6, <2>7
          DEF Known, Journalled, Written, Adds, SuperOf, Restored
<1> QED BY <1>4, <1>5

LEMMA FRollback ==
  ASSUME IInv, NEW c \in Conns, Rollback(c), Moves(c)
  PROVE  FInv'
<1>1. con[c].pc = "write" /\ con'[c].pc = "play"
  BY IInvParts, Bounds DEF Rollback, At, Start, CInv, ConType
<1> QED BY <1>1, NothingToKnow, NoFile DEF Rollback, history, fixed

LEMMA FNextRollback ==
  ASSUME IInv, NEW c \in Conns, NextRollback(c), Moves(c)
  PROVE  FInv'
<1>1. con[c].pc = "next" /\ con'[c].pc \in {"idle", "play"}
  BY IInvParts, Bounds DEF NextRollback, At, Start, CInv, ConType, Idle
<1> QED BY <1>1, NothingToKnow, NoFile DEF NextRollback, history, fixed

LEMMA FCheckChild ==
  ASSUME IInv, NEW c \in Conns, CheckChild(c), Moves(c)
  PROVE  FInv'
<1>1. con[c].pc = "children" /\ con[c] \in ConType /\ Known(con[c]) /\ CInv
  BY IInvParts, Bounds DEF CheckChild, At
<1>2. Known(con[c])'
  <2>1. CASE GoTo(c, "next")
    <3>1. con'[c].pc = "next"
      BY <1>1, <2>1 DEF GoTo, Start, CInv, ConType
    <3> QED BY <3>1, NothingToKnow
  <2>2. CASE ~GoTo(c, "next")
    <3>0. PICK k : k = First(con[c].check)
      OBVIOUS
    <3>1. PICK w : /\ con' = [con EXCEPT ![c] = w]
                   /\ w = [con[c] EXCEPT !.check = con[c].check \ {k}]
      BY <2>2, <3>0 DEF CheckChild, Start
    <3>2. jrnl[k].now.name # con[c].name
      BY <2>2, <3>0 DEF CheckChild, StillNeeded
    <3>3. /\ w.pc = "children" /\ w.name = con[c].name /\ w.check = con[c].check \ {k}
          /\ con'[c] = w /\ \A e \in Conns \ {c} : con'[e] = con[e]
      BY <1>1, <3>1 DEF ConType, CInv
    <3>4. Restored(w)'
      <4>1. \A d \in Dbs : jrnl'[d].now.name = w.name => d \in w.check
        BY <1>1, <3>2, <3>3 DEF CheckChild, Known, Restored
      <4>2. w.name # NoName => /\ Members(w.name)' # {}
                               /\ \A e \in Conns : con'[e].pc \in Committing => con'[e].super # w.name
        BY <1>1, <3>3 DEF Known, Restored, Members, CheckChild, history
      <4> QED BY <3>3, <4>1, <4>2 DEF Restored
    <3>5. Journalled(w)' /\ Written(w)' /\ Adds(w)' /\ SuperOf(w)'
      BY <3>3 DEF Journalled, Ahead, Written, Behind, Adds, SuperOf
    <3> QED BY <3>3, <3>4, <3>5 DEF Known, Journalled, Written, Adds, SuperOf, Restored
  <2> QED BY <2>1, <2>2
<1> QED BY <1>1, <1>2, NoFile DEF CheckChild, history, fixed

(* What fails or dies is met where the power does not fail.                *)
LEMMA FaultIs ==
  ASSUME Deletes, CInv
  PROVE  /\ Fault("io") => ~Power /\ past' = past /\ setting' = setting /\ kept' = kept
         /\ Fault("die") => ~Power /\ past' = past /\ setting' = setting /\ kept' = kept
         /\ Fault("power") => Power /\ past' = past /\ setting' = setting /\ kept' = kept
BY DeleteMode DEF Fault, Power

LEMMA FDie ==
  ASSUME Deletes, IInv, NEW c \in Conns, Die(c), Moves(c)
  PROVE  FInv'
<1>1. ~Power /\ past' = past /\ setting' = setting /\ kept' = kept
  BY FaultIs, IInvParts DEF Die
<1>2. con'[c].pc = "idle"
  BY IInvParts DEF Die, Start, CInv, Idle
<1> QED BY <1>1, <1>2, NothingToKnow, NoFile DEF Die

LEMMA FFailCommit ==
  ASSUME IInv, ~Power, past' = past, setting' = setting, kept' = kept,
         NEW c \in Conns, FailCommit(c), Moves(c)
  PROVE  FInv'
<1>1. con'[c].pc = "play"
  BY IInvParts, Bounds DEF FailCommit, ToRollback, Start, CInv, ConType
<1> QED BY <1>1, NothingToKnow, NoFile DEF FailCommit

LEMMA FGiveUp ==
  ASSUME IInv, ~Power, past' = past, setting' = setting, kept' = kept,
         NEW c \in Conns, GiveUp(c), Moves(c)
  PROVE  FInv'
<1>1. CASE con[c].pc = "end"
  BY <1>1, LeavesKnown, NoFile DEF GiveUp, At
<1>2. CASE con[c].pc # "end"
  <2>1. con'[c].pc = "next"
    BY <1>2, IInvParts, Bounds DEF GiveUp, At, GoTo, Start, CInv, ConType
  <2> QED BY <2>1, NothingToKnow, NoFile DEF GiveUp
<1> QED BY <1>1, <1>2

-----------------------------------------------------------------------------
(* Steps that change the files of one database.                            *)

LEMMA AloneWith ==
  ASSUME NEW c \in Conns, NEW d \in Dbs, d \in Holds(con[c]) \cup Holds(con'[c]),
         super' = super, past' = past, setting' = setting,
         \A e \in Dbs \ {d} : db'[e] = db[e] /\ jrnl'[e] = jrnl[e],
         J(d)' \subseteq J(d) \cup {NoJournal}, jrnl'[d].now \in {jrnl[d].now, NoJournal}
  PROVE  Alone(c)
<1>1. \A e \in Dbs \ {d} : J(e)' = J(e)
  BY DEF J, Remains
<1>2. NoJournal.name = NoName
  BY DEF NoJournal
<1>3. \A e \in Dbs : \A j \in J(e)' : j.name = NoName \/ \E i \in J(e) : i.name = j.name
  BY <1>1, <1>2
<1>4. \A e \in Dbs : jrnl'[e].now.name \in {NoName, jrnl[e].now.name}
  BY <1>2
<1> QED BY <1>3, <1>4 DEF Alone

(* What a connection holds at each step.                                   *)
LEMMA HandIs ==
  ASSUME CInv, NEW c \in Conns, con[c].pc # "idle", con[c].pc # "write"
  PROVE  /\ con[c].todo # {} /\ Current(c) \in con[c].todo
         /\ Current(c) \in con[c].dbs /\ Current(c) \in Dbs /\ con[c] \in ConType
         /\ con[c].pc \notin Released => Current(c) \in Holds(con[c])
         /\ con[c].pc \in Working => Holds(con[c]) = con[c].dbs
         /\ con[c].pc \in Committing => /\ con[c].txn \in Txns /\ Members(con[c].txn) = con[c].dbs
                                        /\ con[c].super \in {NoName, con[c].txn}
<1>1. ConOK(con[c]) /\ con[c] \in ConType
  BY Bounds
<1>2. con[c].todo # {} /\ con[c].todo \subseteq con[c].dbs
  BY <1>1 DEF ConOK
<1>3. Current(c) \in con[c].todo /\ Current(c) \in con[c].dbs /\ Current(c) \in Dbs
  BY <1>2, CurrentIn
<1>4. con[c].pc \in Working => Holds(con[c]) = con[c].dbs
  BY DEF Holds
<1>5. con[c].pc \notin Released => Current(c) \in Holds(con[c])
  BY <1>1, <1>3, <1>4 DEF Holds, ConType, Steps
<1>6. con[c].pc \in Committing => /\ con[c].txn \in Txns /\ Members(con[c].txn) = con[c].dbs
                                  /\ con[c].super \in {NoName, con[c].txn}
  BY <1>1 DEF ConOK
<1> QED BY <1>1, <1>2, <1>3, <1>4, <1>5, <1>6

(* The next step of the commit of one database.                            *)
LEMMA PhaseKnown ==
  ASSUME IInv, NEW c \in Conns, con[c].pc \in PhaseOne \cup {"name"}, NEW q \in PhaseOne,
         GoTo(c, q), super' = super, past' = past, setting' = setting,
         NEW d, d = Current(c), \A e \in Dbs \ {d} : db'[e] = db[e] /\ jrnl'[e] = jrnl[e],
         NEW j, jrnl'[d].now = j,
         Live(j), j.head = jrnl[d].now.head, j.name = con[c].super,
         q \in {"pages", "syncDb"} => J(d)' = {j},
         q = "syncDb" => db'[d].now = con[c].txn
  PROVE  Known(con[c])'
<1>1. CInv /\ Known(con[c]) /\ con[c] \in ConType /\ d \in con[c].todo /\ d \in Dbs
      /\ Holds(con[c]) = con[c].dbs /\ con[c].dbs \subseteq Dbs /\ d = First(con[c].todo)
      /\ con[c].todo \subseteq con[c].dbs
  BY IInvParts, HandIs, Bounds DEF ConType, Current, ConOK
<1>2. PICK w : con' = [con EXCEPT ![c] = w] /\ w = [con[c] EXCEPT !.pc = q]
  BY DEF GoTo, Start
<1>3. /\ con'[c] = w /\ w.pc = q /\ w.dbs = con[c].dbs /\ w.todo = con[c].todo
      /\ w.txn = con[c].txn /\ w.super = con[c].super
  BY <1>1, <1>2 DEF CInv, ConType
<1>4. q = "syncDb" => db'[d].now = w.txn
  BY <1>3
<1>5. \A e \in Dbs \ {d} : jrnl'[e] = jrnl[e] /\ J(e)' = J(e) /\ X(e)' = X(e)
  BY DEF J, X, Remains
<1>6. /\ Holds(w) = con[c].dbs /\ Ahead(w) = con[c].todo \ {d}
      /\ Behind(w) = con[c].dbs \ con[c].todo /\ Behind(con[c]) = con[c].dbs \ con[c].todo
      /\ Ahead(w) \subseteq Ahead(con[c])
  BY <1>1, <1>3 DEF Holds, Ahead, Behind
<1>7. Journalled(w)'
  <2>1. \A e \in con[c].dbs : Live(jrnl[e].now)
    BY <1>1 DEF Known, Journalled
  <2>2. \A e \in Ahead(w) : jrnl[e].now.name = NoName /\ e \in Dbs \ {d}
    BY <1>1, <1>6 DEF Known, Journalled
  <2> QED BY <1>1, <1>3, <1>4, <1>5, <1>6, <2>1, <2>2 DEF Journalled
<1>8. Written(w)'
  <2>1. \A e \in Behind(w) : e \in Dbs \ {d}
    BY <1>1, <1>6
  <2>2. \A e \in Behind(w) : /\ J(e) = {jrnl[e].now} /\ X(e) = {w.txn}
                             /\ Live(jrnl[e].now) /\ jrnl[e].now.name = w.super
    BY <1>1, <1>3, <1>6 DEF Known, Written
  <2> QED BY <1>1, <1>3, <1>4, <1>5, <2>1, <2>2 DEF Written
<1>9. Adds(w)'
  <2>1. \A e \in Dbs : jrnl'[e].now.head = jrnl[e].now.head
    BY <1>4, <1>5
  <2> QED BY <1>1, <1>3, <1>6, <2>1 DEF Known, Adds, In
<1>10. SuperOf(w)'
  <2>1. \A s : G(s)' = G(s)
    BY DEF G, Remains
  <2> QED BY <1>1, <1>3, <2>1 DEF Known, SuperOf
<1>11. Restored(w)'
  BY <1>3 DEF Restored
<1> QED BY <1>3, <1>7, <1>8, <1>9, <1>10, <1>11
        DEF Known, Journalled, Written, Adds, SuperOf, Restored

LEMMA FSyncJournal ==
  ASSUME IInv, NEW c \in Conns, SyncJournal(c), Moves(c)
  PROVE  FInv'
<1>0. PICK d : d = Current(c)
  OBVIOUS
<1>1. con[c].pc = "journal" /\ CInv /\ d \in Dbs /\ d \in Holds(con[c]) /\ d = First(con[c].todo)
      /\ d \in con[c].dbs
  BY <1>0, IInvParts, HandIs DEF SyncJournal, At, Current
<1>2. /\ jrnl'[d] = Synced(jrnl[d]) /\ db' = db /\ super' = super /\ past' = past
      /\ setting' = setting /\ kept' = kept /\ GoTo(c, "pages")
      /\ \A e \in Dbs \ {d} : db'[e] = db[e] /\ jrnl'[e] = jrnl[e]
  BY <1>0, <1>1 DEF SyncJournal, SetOf, history, fixed, CInv, FileTypes
<1>3. jrnl'[d].now = jrnl[d].now /\ J(d)' = {jrnl[d].now} /\ jrnl[d].now \in J(d) /\ X(d)' = X(d)
  <2>1. X(d)' = X(d)
    BY <1>2 DEF X, Remains
  <2> QED BY <2>1, <1>1, <1>2, SyncedRemains, NextRemains, RemainsIs
<1>4. Live(jrnl[d].now) /\ jrnl[d].now.name = con[c].super
  BY <1>1, IInvParts DEF Known, Journalled, Written
<1>5. Local(d)' /\ Multi(Content(d), d)' = Multi(Content(d), d)
  BY <1>1, <1>2, <1>3, NoneDecided, Shrinks
<1>6. Alone(c)
  BY <1>1, <1>2, <1>3, AloneWith
<1>7. Known(con[c])'
  BY <1>0, <1>1, <1>2, <1>3, <1>4, PhaseKnown
<1> QED BY <1>1, <1>2, <1>5, <1>6, <1>7, OneFile

(* The journal of d is on disk: its database may be written.               *)
LEMMA PagesCovered ==
  ASSUME IInv, NEW c \in Conns, con[c].pc = "pages", NEW d, d = Current(c),
         jrnl' = jrnl, super' = super, past' = past, setting' = setting
  PROVE  /\ Local(d)' /\ Multi(Content(d), d)' = Multi(Content(d), d)
         /\ d \in Dbs /\ d \in Holds(con[c]) /\ Live(jrnl[d].now)
         /\ J(d)' = {jrnl[d].now} /\ J(d) = {jrnl[d].now} /\ jrnl[d].now.name = con[c].super
<1>1. CInv /\ d \in Dbs /\ d \in Holds(con[c]) /\ d = First(con[c].todo) /\ d \in con[c].dbs
      /\ Known(con[c])
  BY IInvParts, HandIs DEF Current
<1>2. Live(jrnl[d].now) /\ jrnl[d].now.name = con[c].super /\ J(d) = {jrnl[d].now}
  BY <1>1 DEF Known, Journalled, Written
<1>3. J(d)' = J(d)
  BY DEF J, Remains
<1>4. con[c].super # NoName => \A g \in G(con[c].super) : g.there
  BY <1>1 DEF Known, SuperOf
<1> QED BY <1>1, <1>2, <1>3, <1>4, Covered

LEMMA FWritePages ==
  ASSUME IInv, NEW c \in Conns, WritePages(c), Moves(c)
  PROVE  FInv'
<1>0. PICK d : d = Current(c)
  OBVIOUS
<1>1. con[c].pc = "pages"
  BY DEF WritePages, At
<1>2. /\ jrnl' = jrnl /\ super' = super /\ past' = past
      /\ setting' = setting /\ kept' = kept /\ GoTo(c, "syncDb")
  BY <1>0 DEF WritePages, history, fixed
<1>3. /\ Local(d)' /\ Multi(Content(d), d)' = Multi(Content(d), d)
      /\ d \in Dbs /\ d \in Holds(con[c]) /\ Live(jrnl[d].now)
      /\ J(d)' = {jrnl[d].now} /\ J(d) = {jrnl[d].now} /\ jrnl[d].now.name = con[c].super
  BY <1>0, <1>1, <1>2, PagesCovered
<1>4. /\ db'[d].now = con[c].txn
      /\ \A e \in Dbs \ {d} : db'[e] = db[e] /\ jrnl'[e] = jrnl[e]
  BY <1>0, <1>3, IInvParts DEF WritePages, SetOf, CInv, FileTypes, Changed
<1>5. Alone(c)
  BY <1>2, <1>3, <1>4, AloneWith
<1>6. Known(con[c])'
  BY <1>0, <1>1, <1>2, <1>3, <1>4, PhaseKnown
<1> QED BY <1>1, <1>2, <1>3, <1>4, <1>5, <1>6, OneFile

LEMMA FFailWritePages ==
  ASSUME IInv, past' = past, setting' = setting, kept' = kept,
         NEW c \in Conns, FailWritePages(c), Moves(c)
  PROVE  FInv'
<1>0. PICK d : d = Current(c)
  OBVIOUS
<1>1. con[c].pc = "pages" /\ jrnl' = jrnl /\ super' = super
  BY DEF FailWritePages, At
<1>2. /\ Local(d)' /\ Multi(Content(d), d)' = Multi(Content(d), d)
      /\ d \in Dbs /\ d \in Holds(con[c]) /\ J(d)' = J(d)
  BY <1>0, <1>1, PagesCovered
<1>3. \A e \in Dbs \ {d} : db'[e] = db[e] /\ jrnl'[e] = jrnl[e]
  BY <1>0, <1>1, <1>2, IInvParts DEF FailWritePages, SetOf, CInv, FileTypes
<1>4. Alone(c)
  BY <1>1, <1>2, <1>3, AloneWith
<1>5. con'[c].pc = "play"
  BY IInvParts, Bounds DEF FailWritePages, ToRollback, Start, CInv, ConType
<1> QED BY <1>1, <1>2, <1>3, <1>4, <1>5, NothingToKnow, OneFile

LEMMA FSyncDb ==
  ASSUME IInv, NEW c \in Conns, SyncDb(c), Moves(c)
  PROVE  FInv'
<1>0. PICK d : d = Current(c)
  OBVIOUS
<1>1. con[c].pc = "syncDb" /\ CInv /\ d \in Dbs /\ d \in Holds(con[c]) /\ d = First(con[c].todo)
      /\ d \in con[c].todo /\ con[c].dbs \subseteq Dbs /\ Known(con[c]) /\ d \in con[c].dbs
  BY <1>0, IInvParts, HandIs DEF SyncDb, At, Current, ConType
<1>2. /\ db'[d] = Synced(db[d]) /\ jrnl' = jrnl /\ super' = super /\ past' = past
      /\ setting' = setting /\ kept' = kept
      /\ \A e \in Dbs \ {d} : db'[e] = db[e] /\ jrnl'[e] = jrnl[e]
  BY <1>0, <1>1 DEF SyncDb, SetOf, history, fixed, CInv, FileTypes
<1>3. db'[d].now = db[d].now /\ X(d)' = {db[d].now} /\ db[d].now \in X(d) /\ \A e : J(e)' = J(e)
  <2>1. \A e : J(e)' = J(e)
    BY <1>2 DEF J, Remains
  <2> QED BY <2>1, <1>1, <1>2, SyncedRemains, NextRemains, RemainsIs
<1>4. /\ Live(jrnl[d].now) /\ jrnl[d].now.name = con[c].super /\ J(d) = {jrnl[d].now}
      /\ db[d].now = con[c].txn
  BY <1>1 DEF Known, Journalled, Written
<1>5. Local(d)' /\ Multi(Content(d), d)' = Multi(Content(d), d)
  BY <1>1, <1>2, <1>3, NoneDecided, Shrinks
<1>6. Alone(c)
  BY <1>1, <1>2, <1>3, AloneWith
<1>7. Known(con[c])'
  <2>1. PICK w : /\ con' = [con EXCEPT ![c] = w] /\ ConOK(w)
                 /\ w.dbs = con[c].dbs /\ w.txn = con[c].txn /\ w.super = con[c].super
                 /\ w.pc \in {"name", "delete", "end"}
                 /\ w.pc \in {"name", "delete"} <=> con[c].super # NoName
                 /\ Holds(w) = con[c].dbs /\ Holds(con[c]) = con[c].dbs
                 /\ Ahead(w) \subseteq Ahead(con[c])
                 /\ Behind(w) \subseteq Behind(con[c]) \cup {d}
    BY <1>0, <1>1, NextDb
  <2>2. con'[c] = w
    BY <1>1, <2>1 DEF CInv
  <2>3. Journalled(w)'
    <3>1. \A e \in con[c].dbs : Live(jrnl[e].now)
      BY <1>1 DEF Known, Journalled
    <3>2. \A e \in Ahead(w) : jrnl[e].now.name = NoName
      BY <1>1, <2>1 DEF Known, Journalled
    <3> QED BY <1>2, <2>1, <3>1, <3>2 DEF Journalled
  <2>4. Written(w)'
    <3>1. Behind(con[c]) \subseteq Dbs \ {d}
      BY <1>1 DEF Behind
    <3>2. \A e \in Dbs \ {d} : X(e)' = X(e)
      BY <1>2 DEF X, Remains
    <3>3. \A e \in Behind(con[c]) : /\ J(e) = {jrnl[e].now} /\ X(e) = {w.txn}
                                    /\ Live(jrnl[e].now) /\ jrnl[e].now.name = w.super
      BY <1>1, <2>1 DEF Known, Written
    <3>4. \A e \in Behind(w) : /\ J(e)' = {jrnl'[e].now} /\ X(e)' = {w.txn}
                               /\ Live(jrnl'[e].now) /\ jrnl'[e].now.name = w.super
      BY <1>2, <1>3, <1>4, <2>1, <3>1, <3>2, <3>3
    <3> QED BY <2>1, <3>4 DEF Written
  <2>5. Adds(w)'
    BY <1>1, <1>2, <2>1 DEF Known, Adds, In
  <2>6. SuperOf(w)'
    <3>1. \A s : G(s)' = G(s)
      BY <1>2 DEF G, Remains
    <3> QED BY <1>1, <2>1, <3>1 DEF Known, SuperOf
  <2>7. Restored(w)'
    BY <2>1 DEF Restored
  <2> QED BY <2>2, <2>3, <2>4, <2>5, <2>6, <2>7
          DEF Known, Journalled, Written, Adds, SuperOf, Restored
<1> QED BY <1>1, <1>2, <1>5, <1>6, <1>7, OneFile

LEMMA FJournalSuper ==
  ASSUME IInv, NEW c \in Conns, JournalSuper(c), Moves(c)
  PROVE  FInv'
<1>0. PICK d : d = Current(c)
  OBVIOUS
<1>1. PICK n : n = Named(jrnl[d].now, off[d], con[c].super)
  OBVIOUS
<1>2. con[c].pc = "name" /\ CInv /\ d \in Dbs /\ d \in Holds(con[c]) /\ d = First(con[c].todo)
      /\ d \in con[c].todo /\ d \in con[c].dbs /\ Known(con[c])
  BY <1>0, IInvParts, HandIs DEF JournalSuper, At, Current, ConType
<1>3. con[c].txn \in Txns /\ Members(con[c].txn) = con[c].dbs /\ con[c].super = con[c].txn
      /\ con[c].super # NoName
  BY <1>2, Bounds DEF ConOK, Txns, NoName
<1>4. /\ jrnl'[d] = Changed(jrnl[d], n, {}) /\ db' = db /\ super' = super /\ past' = past
      /\ setting' = setting /\ kept' = kept /\ GoTo(c, "journal")
      /\ \A e \in Dbs \ {d} : db'[e] = db[e] /\ jrnl'[e] = jrnl[e]
  BY <1>0, <1>1, <1>2 DEF JournalSuper, SetOf, history, fixed, CInv, FileTypes
<1>5. Live(jrnl[d].now) /\ jrnl[d].now.name = NoName /\ jrnl[d].now \in J(d)
  BY <1>2, RemainsIs DEF Known, Journalled, Ahead
<1>6. /\ n.head = jrnl[d].now.head /\ n.name = con[c].super /\ Live(n)
  <2>1. off[d] \in 0 .. MaxRecs + 1
    BY <1>2, Bounds
  <2>2. n.len = off[d] + 1 /\ n.head = jrnl[d].now.head /\ n.name = con[c].super
    BY <1>1 DEF Named
  <2> QED BY <1>5, <2>1, <2>2, Consts DEF Live
<1>7. /\ jrnl'[d].now = n /\ n \in J(d)' /\ J(d)' \subseteq J(d) \cup {n}
      /\ Power => J(d)' = J(d) \cup {n}
      /\ ~Power => J(d)' = {n}
      /\ X(d)' = X(d)
  <2>1. J(d) = Remains(jrnl[d]) /\ J(d)' = Remains(jrnl'[d]) /\ X(d)' = X(d)
    BY <1>4, NextRemains DEF J, X, Remains
  <2> QED BY <1>4, <2>1, ChangedRemains
<1>8. /\ Values(d)' = Values(d) /\ \A x : Multi(x, d)' = Multi(x, d)
      /\ \A s : MayBeThere(s)' = MayBeThere(s) /\ Members(s)' = Members(s) /\ G(s)' = G(s)
      /\ \A j : IsCold(j)' = IsCold(j)
  BY <1>4 DEF Values, Multi, In, MayBeThere, Members, G, Remains, IsCold
<1>9. G(con[c].super) = {[there |-> TRUE, names |-> con[c].dbs]}
      /\ super[con[c].super].now.there
  <2>1. G(con[c].super) = {[there |-> TRUE, names |-> con[c].dbs]}
    BY <1>2, <1>3 DEF Known, SuperOf
  <2>2. super[con[c].super].now \in G(con[c].super)
    BY <1>2, <1>3, RemainsIs
  <2> QED BY <2>1, <2>2
<1>10. MayBeThere(n.name) = {TRUE} /\ ~IsCold(n)
  <2>1. {g.there : g \in G(con[c].super)} = {TRUE}
    <3>1. PICK a : a = [there |-> TRUE, names |-> con[c].dbs]
      OBVIOUS
    <3>2. a.there = TRUE /\ G(con[c].super) = {a}
      BY <1>9, <3>1
    <3> QED BY <3>2
  <2>2. MayBeThere(con[c].super) = {TRUE}
    BY <1>3, <2>1 DEF MayBeThere
  <2>3. ~IsCold(n)
    BY <1>6, <1>9 DEF IsCold
  <2> QED BY <1>6, <2>2, <2>3
<1>11. Content(d) = n.head /\ Content(d)' = n.head /\ n.head \in Values(d)
  <2>1. Content(d) = n.head
    BY <1>5, <1>6 DEF Content, Live, IsCold
  <2>2. Content(d)' = n.head
    BY <1>6, <1>7, <1>8, <1>10 DEF Content, Live
  <2> QED BY <1>2, <2>1, <2>2, ContentValue
<1>12. Shape(d)'
  BY <1>2, <1>6, <1>7, <1>8, <1>11, IInvParts DEF Shape, Live
<1>13. Names(d)'
  <2>1. ASSUME NEW j \in J(d)', j.name # NoName
        PROVE  /\ d \in Members(j.name)
               /\ \A g \in G(j.name) : /\ g.there => d \in g.names
                                       /\ super[j.name].now.there => g.there
    <3>1. CASE j = n
      BY <3>1, <1>2, <1>3, <1>6, <1>9
    <3>2. CASE j \in J(d)
      BY <1>2, <2>1, <3>2, IInvParts DEF Names
    <3> QED BY <1>7, <3>1, <3>2
  <2> QED BY <1>4, <1>8, <2>1 DEF Names
<1>14. Stale(d)'
  BY <1>2, <1>5, <1>7, IInvParts DEF Stale
<1>15. Quiet(d)'
  <2>1. ASSUME NEW j \in J(d)', ~Live(j)
        PROVE  db[d].now = n.head
    <3>1. j \in J(d)
      BY <1>6, <1>7, <2>1
    <3> QED BY <1>2, <1>5, <1>6, <2>1, <3>1, IInvParts DEF Quiet, IsCold
  <2> QED BY <1>4, <1>7, <2>1 DEF Quiet
<1>16. Sound(d)'
  <2>1. ASSUME NEW j \in J(d)', NEW x \in X(d)', NEW b \in MayBeThere(j.name)'
        PROVE  /\ Found(j, x, b) \in Values(d)
               /\ \/ Multi(Found(j, x, b), d) = Multi(Content(d), d)
                  \/ b /\ Deciding(j.name)'
    <3>1. CASE j = n
      <4>1. Found(j, x, b) = n.head
        BY <1>6, <1>8, <1>10, <3>1 DEF Found
      <4> QED BY <1>11, <4>1
    <3>2. CASE j \in J(d)
      <4>1. b \in MayBeThere(j.name) /\ x \in X(d) /\ Quietly(j.name)
        BY <1>2, <1>7, <1>8, NoneDecided
      <4> QED BY <1>2, <3>2, <4>1, IInvParts DEF Sound, Quietly
    <3> QED BY <1>7, <3>1, <3>2
  <2> QED BY <1>8, <1>11, <2>1 DEF Sound
<1>17. Local(d)' /\ Multi(Content(d), d)' = Multi(Content(d), d)
  BY <1>8, <1>11, <1>12, <1>13, <1>14, <1>15, <1>16 DEF Local
<1>18. Alone(c)
  <2>1. \A e \in Dbs \ {d} : J(e)' = J(e)
    BY <1>4 DEF J, Remains
  <2>2. con[c].pc \in Committing
    BY <1>2
  <2> QED BY <1>2, <1>4, <1>6, <1>7, <2>1, <2>2 DEF Alone
<1>19. Known(con[c])'
  BY <1>0, <1>2, <1>4, <1>6, <1>7, PhaseKnown
<1> QED BY <1>2, <1>4, <1>17, <1>18, <1>19, OneFile

LEMMA FRecover ==
  ASSUME IInv, NEW c \in Conns, NEW d \in Dbs, Recover(c, d), Moves(c)
  PROVE  FInv'
<1>1. con[c].pc = "idle" /\ con'[c].pc = "play" /\ con'[c].todo = {d} /\ CInv
  BY IInvParts, Bounds DEF Recover, Start, CInv, ConType, Idle
<1>2. /\ jrnl'[d] = [now |-> jrnl[d].now,
                     may |-> {jrnl[d].now} \cup (jrnl[d].may \cap {NoJournal})]
      /\ db' = db /\ super' = super /\ past' = past
      /\ setting' = setting /\ kept' = kept
      /\ \A e \in Dbs \ {d} : db'[e] = db[e] /\ jrnl'[e] = jrnl[e]
  BY <1>1 DEF Recover, SetOf, history, fixed, CInv, FileTypes
<1>3. jrnl'[d].now = jrnl[d].now /\ X(d)' = X(d) /\ jrnl[d].now \in J(d)
  <2>1. X(d)' = X(d)
    BY <1>2 DEF X, Remains
  <2> QED BY <1>1, <1>2, <2>1, RemainsIs
<1>4. J(d)' \subseteq J(d) /\ (J(d)' = {jrnl[d].now} \/ (NoJournal \in J(d) => NoJournal \in J(d)'))
  <2>1. J(d)' = Remains(jrnl'[d])
    BY <1>2, NextRemains
  <2>2. CASE Power
    <3>1. J(d) = jrnl[d].may /\ J(d)' = {jrnl[d].now} \cup (jrnl[d].may \cap {NoJournal})
      BY <1>1, <1>2, <2>1, <2>2, RemainsIs DEF Remains, Power
    <3> QED BY <1>3, <3>1
  <2>3. CASE ~Power
    <3>1. J(d)' = {jrnl[d].now}
      BY <1>2, <2>1, <2>3 DEF Remains, Power
    <3> QED BY <1>3, <3>1
  <2> QED BY <2>2, <2>3
<1>5. Local(d)' /\ Multi(Content(d), d)' = Multi(Content(d), d)
  BY <1>1, <1>2, <1>3, <1>4, NoneDecided, Shrinks
<1>6. Alone(c)
  <2>1. d \in Holds(con'[c])
    BY <1>1 DEF Holds
  <2> QED BY <1>2, <1>3, <1>4, <2>1, AloneWith
<1> QED BY <1>1, <1>2, <1>5, <1>6, NothingToKnow, OneFile

LEMMA FSyncRestored ==
  ASSUME IInv, NEW c \in Conns, SyncRestored(c), Moves(c)
  PROVE  FInv'
<1>0. PICK d : d = Current(c)
  OBVIOUS
<1>1. con[c].pc = "restored" /\ CInv /\ d \in Dbs /\ d \in Holds(con[c]) /\ d = First(con[c].todo)
      /\ con[c] \in ConType /\ Known(con[c])
  BY <1>0, IInvParts, HandIs DEF SyncRestored, At, Current
<1>2. /\ db'[d] = Synced(db[d]) /\ jrnl' = jrnl /\ super' = super /\ past' = past
      /\ setting' = setting /\ kept' = kept /\ GoTo(c, "finalize")
      /\ \A e \in Dbs \ {d} : db'[e] = db[e] /\ jrnl'[e] = jrnl[e]
  BY <1>0, <1>1 DEF SyncRestored, SetOf, history, fixed, CInv, FileTypes
<1>3. db'[d].now = db[d].now /\ X(d)' = {db[d].now} /\ db[d].now \in X(d) /\ J(d)' = J(d)
  <2>1. J(d)' = J(d)
    BY <1>2 DEF J, Remains
  <2> QED BY <2>1, <1>1, <1>2, SyncedRemains, NextRemains, RemainsIs
<1>4. Local(d)' /\ Multi(Content(d), d)' = Multi(Content(d), d)
  BY <1>1, <1>2, <1>3, NoneDecided, Shrinks
<1>5. Alone(c)
  BY <1>1, <1>2, <1>3, AloneWith
<1>6. Known(con[c])'
  <2>1. PICK w : con' = [con EXCEPT ![c] = w] /\ w = [con[c] EXCEPT !.pc = "finalize"]
    BY <1>2 DEF GoTo, Start
  <2>2. /\ con'[c] = w /\ w.pc = "finalize" /\ w.todo = con[c].todo /\ w.name = con[c].name
        /\ First(w.todo) = d /\ \A e \in Conns \ {c} : con'[e] = con[e]
    BY <1>1, <2>1 DEF CInv, ConType
  <2>3. Content(d)' = db'[d].now
    <3>1. Content(d) = db[d].now
      BY <1>1 DEF Known, Restored
    <3>2. Content(d)' = Content(d)
      BY <1>2, <1>3 DEF Content, IsCold
    <3> QED BY <1>3, <3>1, <3>2
  <2>4. w.name # NoName => /\ Members(w.name)' # {}
                           /\ \A e \in Conns : con'[e].pc \in Committing => con'[e].super # w.name
    BY <1>1, <1>2, <2>2 DEF Known, Restored, Members
  <2>5. Restored(w)'
    BY <1>3, <2>2, <2>3, <2>4 DEF Restored
  <2>6. Journalled(w)' /\ Written(w)' /\ Adds(w)' /\ SuperOf(w)'
    BY <2>2 DEF Journalled, Ahead, Written, Behind, Adds, SuperOf
  <2> QED BY <2>2, <2>5, <2>6 DEF Known, Journalled, Written, Adds, SuperOf, Restored
<1> QED BY <1>1, <1>2, <1>4, <1>5, <1>6, OneFile

(* A super-journal that a journal of d names, and that is there, is of no  *)
(* commit but one that holds d and has not decided.                        *)
LEMMA NotCommitting ==
  ASSUME IInv, NEW c \in Conns, NEW d \in Holds(con[c]), d \in Dbs, con[c].pc \notin Committing,
         jrnl[d].now.name # NoName, super[jrnl[d].now.name].now.there
  PROVE  /\ Members(jrnl[d].now.name) # {}
         /\ \A e \in Conns : con[e].pc \in Committing => con[e].super # jrnl[d].now.name
<1>0. PICK s : s = jrnl[d].now.name
  OBVIOUS
<1>1. CInv /\ jrnl[d].now \in J(d) /\ s \in Txns /\ super[s].now \in G(s) /\ s # NoName
  <2>1. CInv /\ jrnl[d].now \in J(d) /\ s \in 0 .. MaxTxns
    BY <1>0, IInvParts, RemainsIs DEF JournalsOf
  <2> QED BY <1>0, <2>1, RemainsIs DEF Txns, NoName
<1>2. d \in Members(s)
  BY <1>0, <1>1, IInvParts DEF Names
<1>3. ASSUME NEW e \in Conns, con[e].pc \in Committing, con[e].super = s
      PROVE  FALSE
  <2>1. ConOK(con[e]) /\ Known(con[e]) /\ e # c
    BY <1>1, <1>3, IInvParts, Bounds
  <2>2. Members(s) = con[e].dbs
    BY <1>1, <1>3, <2>1 DEF ConOK
  <2>3. con[e].pc # "end"
    <3>1. con[e].pc = "end" => \A g \in G(s) : ~g.there
      BY <1>1, <1>3, <2>1 DEF Known, SuperOf
    <3> QED BY <1>0, <1>1, <3>1
  <2>4. d \in Holds(con[e])
    BY <1>2, <1>3, <2>2, <2>3 DEF Holds
  <2> QED BY <1>1, <2>1, <2>4 DEF CInv, LocksHeld
<1> QED BY <1>0, <1>2, <1>3

LEMMA FPlay ==
  ASSUME IInv, NEW c \in Conns, Play(c), Moves(c)
  PROVE  FInv'
<1>0. PICK d, j, h : d = Current(c) /\ j = jrnl[d].now /\ h = jrnl[d].now.head
  OBVIOUS
<1>1. con[c].pc = "play" /\ CInv /\ d \in Dbs /\ d \in Holds(con[c]) /\ d = First(con[c].todo)
      /\ con[c] \in ConType
  BY <1>0, IInvParts, HandIs DEF Play, At, Current
<1>2. /\ jrnl' = jrnl /\ super' = super /\ past' = past
      /\ setting' = setting /\ kept' = kept
      /\ \A e \in Dbs \ {d} : db'[e] = db[e] /\ jrnl'[e] = jrnl[e]
      /\ \/ db'[d] = db[d] /\ (IsCold(j) \/ h < 0)
         \/ /\ ~IsCold(j) /\ ~(h < 0)
            /\ db'[d] = Changed(db[d], h, IF db[d].now = h THEN {} ELSE {Torn})
  BY <1>0, <1>1 DEF Play, SetOf, history, fixed, CInv, FileTypes
<1>3. j \in J(d) /\ j = jrnl'[d].now /\ j.head = h /\ db[d].now \in X(d)
      /\ (\A e : J(e)' = J(e)) /\ j.len \in Int /\ h \in Int
  <2>1. \A e : J(e)' = J(e)
    BY <1>2 DEF J, Remains
  <2>2. j \in J(d) /\ db[d].now \in X(d) /\ j \in JournalsOf(d)
    BY <1>0, <1>1, RemainsIs
  <2>3. j.len \in Int /\ j.head \in Int
    BY <2>2, Consts DEF JournalsOf, Contents, Values, Txns, Torn, Zeroed, Damaged
  <2> QED BY <1>0, <1>2, <2>1, <2>2, <2>3
<1>4. /\ Values(d)' = Values(d) /\ \A x : Multi(x, d)' = Multi(x, d)
      /\ \A s : MayBeThere(s)' = MayBeThere(s) /\ Members(s)' = Members(s) /\ G(s)' = G(s)
      /\ \A i : IsCold(i)' = IsCold(i)
  BY <1>2 DEF Values, Multi, In, MayBeThere, Members, G, Remains, IsCold
<1>5. Content(d)' = Content(d) /\ Content(d)' = db'[d].now
  <2>1. CASE db'[d] = db[d] /\ (IsCold(j) \/ h < 0)
    BY <1>0, <1>3, <1>4, <2>1 DEF Content
  <2>2. CASE /\ ~IsCold(j) /\ ~(h < 0)
             /\ db'[d] = Changed(db[d], h, IF db[d].now = h THEN {} ELSE {Torn})
    <3>1. j.len > 0
      BY <1>1, <1>3, <2>2, IInvParts DEF Shape, NoJournal, Zeroed
    <3>2. db'[d].now = h
      BY <2>2 DEF Changed
    <3> QED BY <1>0, <1>3, <1>4, <2>2, <3>1, <3>2 DEF Content
  <2> QED BY <1>2, <2>1, <2>2
<1>6. Local(d)' /\ Multi(Content(d), d)' = Multi(Content(d), d)
  <2>1. CASE db'[d] = db[d]
    <3>1. \A s : Quietly(s)
      BY <1>1, NoneDecided
    <3> QED BY <1>1, <1>2, <2>1, <3>1, LocalStays, IInvParts
  <2>2. CASE /\ ~IsCold(j) /\ ~(h < 0)
             /\ db'[d] = Changed(db[d], h, IF db[d].now = h THEN {} ELSE {Torn})
    <3>1. Live(j)
      BY <1>1, <1>3, <2>2, IInvParts DEF Shape, NoJournal, Zeroed, Live
    <3>2. Content(d) = h /\ h \in Values(d)
      BY <1>0, <1>1, <1>3, <2>2, <3>1, ContentIs, ContentValue
    <3>3. db'[d].now = h /\ \A x \in X(d)' : x \in X(d) \/ x = h \/ (x = Torn /\ db[d].now # h)
      <4>1. X(d) = Remains(db[d]) /\ X(d)' = Remains(db'[d])
        BY <1>2, NextRemains DEF X
      <4>2. X(d)' \subseteq X(d) \cup {h} \cup (IF db[d].now = h THEN {} ELSE {Torn})
        BY <2>2, <4>1, ChangedRemains
      <4>3. db'[d].now = h
        BY <2>2 DEF Changed
      <4> QED BY <4>2, <4>3
    <3>4. Shape(d)' /\ Names(d)' /\ Stale(d)'
      BY <1>1, <1>2, <1>3, <1>4, IInvParts DEF Shape, Names, Stale
    <3>5. Quiet(d)'
      BY <1>0, <1>3, <3>3 DEF Quiet
    <3>6. ASSUME db[d].now # h, NEW i \in J(d), NEW b \in MayBeThere(i.name)
          PROVE  Live(i) /\ (i.name = NoName \/ b)
      <4>1. \A k \in J(d) : Live(k)
        BY <1>0, <1>1, <1>3, <2>2, <3>1, <3>6, IInvParts DEF Quiet
      <4>2. CASE i.name # NoName /\ ~b
        <5>1. NoJournal \notin J(d)
          BY <4>1 DEF NoJournal, Live
        <5>2. i = j
          BY <1>0, <1>1, <4>2, <5>1, IInvParts DEF Stale
        <5>3. super[j.name].now.there
          BY <2>2, <4>2, <5>2 DEF IsCold
        <5>4. \A g \in G(j.name) : g.there
          BY <1>1, <1>3, <4>2, <5>2, <5>3, IInvParts DEF Names
        <5>5. \E g \in G(i.name) : b = g.there
          BY <4>2 DEF MayBeThere
        <5> QED BY <4>2, <5>2, <5>4, <5>5
      <4> QED BY <4>1, <4>2
    <3>7. ASSUME NEW i \in J(d)', NEW x \in X(d)', NEW b \in MayBeThere(i.name)'
          PROVE  /\ Found(i, x, b) \in Values(d)
                 /\ \/ Multi(Found(i, x, b), d) = Multi(Content(d), d)
                    \/ b /\ Deciding(i.name)'
      <4>1. i \in J(d) /\ b \in MayBeThere(i.name) /\ Quietly(i.name)
        BY <1>1, <1>3, <1>4, NoneDecided
      <4>2. \A y \in X(d) : /\ Found(i, y, b) \in Values(d)
                            /\ \/ Multi(Found(i, y, b), d) = Multi(Content(d), d)
                               \/ b /\ Deciding(i.name)'
        BY <1>1, <4>1, IInvParts DEF Sound, Quietly
      <4>3. CASE x \in X(d)
        BY <4>2, <4>3
      <4>4. CASE x = h
        <5>1. Found(i, x, b) = h \/ Found(i, x, b) = Found(i, db[d].now, b)
          BY <4>4 DEF Found
        <5> QED BY <1>3, <3>2, <4>2, <5>1
      <4>5. CASE x = Torn /\ db[d].now # h
        <5>1. Found(i, x, b) = Found(i, db[d].now, b)
          BY <3>6, <4>1, <4>5 DEF Found
        <5> QED BY <1>3, <4>2, <5>1
      <4> QED BY <3>3, <4>3, <4>4, <4>5
    <3>8. Sound(d)'
      BY <1>4, <1>5, <3>7 DEF Sound
    <3> QED BY <1>4, <1>5, <3>4, <3>5, <3>8 DEF Local
  <2> QED BY <1>2, <2>1, <2>2
<1>7. Alone(c)
  BY <1>0, <1>1, <1>2, <1>3, AloneWith
<1>8. Known(con[c])'
  <2>1. PICK w : /\ con' = [con EXCEPT ![c] = w]
                 /\ w = [con[c] EXCEPT !.pc = "restored",
                                       !.name = IF IsCold(j) THEN NoName ELSE j.name]
    BY <1>0 DEF Play, Start
  <2>2. /\ con'[c] = w /\ w.pc = "restored" /\ First(w.todo) = d
        /\ w.name = (IF IsCold(j) THEN NoName ELSE j.name)
        /\ \A e \in Conns \ {c} : con'[e] = con[e]
    BY <1>1, <2>1 DEF CInv, ConType
  <2>3. ASSUME w.name # NoName
        PROVE  /\ Members(w.name)' # {}
               /\ \A e \in Conns : con'[e].pc \in Committing => con'[e].super # w.name
    <3>1. w.name = jrnl[d].now.name /\ super[jrnl[d].now.name].now.there
      BY <1>0, <2>2, <2>3 DEF IsCold
    <3>2. /\ Members(w.name) # {}
          /\ \A e \in Conns : con[e].pc \in Committing => con[e].super # w.name
      BY <1>1, <2>3, <3>1, NotCommitting
    <3> QED BY <1>4, <2>2, <3>2
  <2>4. Restored(w)'
    BY <1>5, <2>2, <2>3 DEF Restored
  <2>5. Journalled(w)' /\ Written(w)' /\ Adds(w)' /\ SuperOf(w)'
    BY <2>2 DEF Journalled, Ahead, Written, Behind, Adds, SuperOf
  <2> QED BY <2>2, <2>4, <2>5 DEF Known, Journalled, Written, Adds, SuperOf, Restored
<1> QED BY <1>1, <1>2, <1>6, <1>7, <1>8, OneFile

LEMMA JournalDeleted ==
  ASSUME Deletes, CInv, NEW d \in Dbs, NEW b, jrnl' = SetOf(jrnl, d, Finalized(d, b)),
         setting' = setting
  PROVE  /\ jrnl'[d].now = NoJournal /\ NoJournal \in J(d)' /\ J(d)' \subseteq J(d) \cup {NoJournal}
         /\ \A e \in Dbs \ {d} : jrnl'[e] = jrnl[e]
<1>1. jrnl'[d] = Finalized(d, b) /\ \A e \in Dbs \ {d} : jrnl'[e] = jrnl[e]
  BY DEF SetOf, CInv, FileTypes
<1>2. jrnl'[d] \in {File(NoJournal), Changed(jrnl[d], NoJournal, {})}
  BY <1>1, DeleteMode DEF Finalized
<1>3. J(d)' = Remains(jrnl'[d]) /\ J(d) = Remains(jrnl[d])
  BY NextRemains DEF J
<1>4. CASE jrnl'[d] = File(NoJournal)
  BY <1>1, <1>3, <1>4 DEF File, Remains
<1>5. CASE jrnl'[d] = Changed(jrnl[d], NoJournal, {})
  BY <1>1, <1>3, <1>5, ChangedRemains
<1> QED BY <1>2, <1>4, <1>5

(* The journal of d is deleted, and the file has what it is to have.       *)
LEMMA EndsSound ==
  ASSUME Deletes, IInv, NEW d \in Dbs, NEW b, jrnl' = SetOf(jrnl, d, Finalized(d, b)),
         db' = db, super' = super, past' = past, setting' = setting, \A s : Quietly(s),
         X(d) = {db[d].now}, db[d].now \in Values(d),
         Multi(db[d].now, d) = Multi(Content(d), d)
  PROVE  Local(d)' /\ Multi(Content(d), d)' = Multi(Content(d), d)
<1>1. PICK v : v = db[d].now
  OBVIOUS
<1>2. /\ jrnl'[d].now = NoJournal /\ NoJournal \in J(d)' /\ J(d)' \subseteq J(d) \cup {NoJournal}
      /\ X(d)' = {v}
  BY <1>1, JournalDeleted, IInvParts DEF X, Remains
<1>3. /\ Values(d)' = Values(d) /\ \A x : Multi(x, d)' = Multi(x, d)
      /\ \A s : MayBeThere(s)' = MayBeThere(s) /\ Members(s)' = Members(s) /\ G(s)' = G(s)
  BY DEF Values, Multi, In, MayBeThere, Members, G, Remains
<1>4. NoJournal.name = NoName /\ ~Live(NoJournal)
  BY DEF NoJournal, Live
<1>5. Content(d)' = v
  BY <1>1, <1>2 DEF Content, NoJournal
<1>6. Shape(d)'
  BY <1>2, <1>3, IInvParts DEF Shape
<1>7. Names(d)'
  BY <1>2, <1>3, <1>4, IInvParts DEF Names
<1>8. Stale(d)' /\ Quiet(d)'
  BY <1>2, <1>4 DEF Stale, Quiet
<1>9. Sound(d)'
  <2>1. ASSUME NEW j \in J(d)', NEW g \in MayBeThere(j.name)'
        PROVE  /\ Found(j, v, g) \in Values(d)
               /\ Multi(Found(j, v, g), d) = Multi(v, d) \/ (g /\ Deciding(j.name)')
    <3>1. CASE j = NoJournal
      <4>1. Found(j, v, g) = v
        BY <1>4, <3>1 DEF Found
      <4> QED BY <1>1, <4>1
    <3>2. CASE j \in J(d)
      BY <1>1, <1>3, <3>2, IInvParts DEF Sound, Quietly
    <3> QED BY <1>2, <3>1, <3>2
  <2> QED BY <1>2, <1>3, <1>5, <2>1 DEF Sound
<1> QED BY <1>1, <1>3, <1>5, <1>6, <1>7, <1>8, <1>9 DEF Local

LEMMA FEndRollback ==
  ASSUME Deletes, IInv, NEW c \in Conns, EndRollback(c), Moves(c)
  PROVE  FInv'
<1>0. PICK d, s : d = Current(c) /\ s = con[c].name
  OBVIOUS
<1>1. con[c].pc = "finalize" /\ CInv /\ d \in Dbs /\ d \in Holds(con[c]) /\ d = First(con[c].todo)
      /\ con[c] \in ConType /\ Known(con[c])
  BY <1>0, IInvParts, HandIs DEF EndRollback, At, Current
<1>2. /\ db' = db /\ super' = super /\ past' = past /\ setting' = setting /\ kept' = kept
      /\ \E b : jrnl' = SetOf(jrnl, d, Finalized(d, b))
  BY <1>0 DEF EndRollback, history, fixed
<1>3. /\ jrnl'[d].now = NoJournal /\ NoJournal \in J(d)' /\ J(d)' \subseteq J(d) \cup {NoJournal}
      /\ \A e \in Dbs \ {d} : db'[e] = db[e] /\ jrnl'[e] = jrnl[e]
  BY <1>1, <1>2, JournalDeleted
<1>4. Local(d)' /\ Multi(Content(d), d)' = Multi(Content(d), d)
  <2>1. X(d) = {db[d].now} /\ Content(d) = db[d].now
    BY <1>1 DEF Known, Restored
  <2>2. db[d].now \in Values(d)
    BY <1>1, <2>1, ContentValue
  <2> QED BY <1>1, <1>2, <2>1, <2>2, NoneDecided, EndsSound
<1>5. Alone(c)
  BY <1>1, <1>2, <1>3, AloneWith
<1>6. Known(con[c])'
  <2>1. CASE s # NoName /\ super[s].now.there
    <3>1. PICK w : /\ con' = [con EXCEPT ![c] = w]
                   /\ w = [con[c] EXCEPT !.pc = "children", !.check = super[s].now.names]
      BY <1>0, <2>1 DEF EndRollback, Start
    <3>2. /\ con'[c] = w /\ w.pc = "children" /\ w.name = s /\ w.check = super[s].now.names
          /\ \A e \in Conns \ {c} : con'[e] = con[e]
      BY <1>0, <1>1, <3>1 DEF CInv, ConType
    <3>3. /\ Members(s)' # {}
          /\ \A e \in Conns : con'[e].pc \in Committing => con'[e].super # s
      BY <1>0, <1>1, <1>2, <2>1, <3>2 DEF Known, Restored, Members
    <3>4. ASSUME NEW k \in Dbs, jrnl'[k].now.name = s
          PROVE  k \in super[s].now.names
      <4>1. k # d /\ jrnl[k].now.name = s
        BY <1>3, <2>1, <3>4 DEF NoJournal
      <4>2. jrnl[k].now \in J(k)
        BY <1>1, RemainsIs
      <4>3. super[s].now \in G(s)
        BY <1>0, <1>1, <2>1, NameIn, RemainsIs
      <4> QED BY <2>1, <4>1, <4>2, <4>3, IInvParts DEF Names
    <3>5. Restored(w)'
      BY <3>2, <3>3, <3>4 DEF Restored
    <3>6. Journalled(w)' /\ Written(w)' /\ Adds(w)' /\ SuperOf(w)'
      BY <3>2 DEF Journalled, Ahead, Written, Behind, Adds, SuperOf
    <3> QED BY <3>2, <3>5, <3>6 DEF Known, Journalled, Written, Adds, SuperOf, Restored
  <2>2. CASE ~(s # NoName /\ super[s].now.there)
    <3>1. con'[c].pc = "next"
      BY <1>0, <1>1, <2>2 DEF EndRollback, Start, CInv, ConType
    <3> QED BY <3>1, NothingToKnow
  <2> QED BY <2>1, <2>2
<1> QED BY <1>1, <1>2, <1>3, <1>4, <1>5, <1>6, OneFile

LEMMA FEndJournal ==
  ASSUME Deletes, IInv, NEW c \in Conns, EndJournal(c), Moves(c)
  PROVE  FInv'
<1>0. PICK d, t : d = Current(c) /\ t = con[c].txn
  OBVIOUS
<1>1. con[c].pc = "end" /\ CInv /\ d \in Dbs /\ d \in Holds(con[c]) /\ d = First(con[c].todo)
      /\ d \in con[c].todo /\ d \in con[c].dbs /\ Known(con[c]) /\ t \in Txns
      /\ Members(t) = con[c].dbs /\ con[c].super \in {NoName, t} /\ con[c].dbs \subseteq Dbs
  BY <1>0, IInvParts, HandIs DEF EndJournal, At, Current, ConType
<1>2. /\ db' = db /\ super' = super /\ past' = past /\ setting' = setting
      /\ \E b : jrnl' = SetOf(jrnl, d, Finalized(d, b))
  BY <1>0 DEF EndJournal, fixed
<1>3. /\ jrnl'[d].now = NoJournal /\ NoJournal \in J(d)' /\ J(d)' \subseteq J(d) \cup {NoJournal}
      /\ \A e \in Dbs \ {d} : db'[e] = db[e] /\ jrnl'[e] = jrnl[e]
  BY <1>1, <1>2, JournalDeleted
<1>4. PICK j, h : j = jrnl[d].now /\ h = jrnl[d].now.head
  OBVIOUS
<1>5. /\ J(d) = {j} /\ X(d) = {t} /\ Live(j) /\ j.name = con[c].super /\ db[d].now = t
      /\ t \notin In(h, d) /\ past[t][d] = In(h, d) \cup {t}
  <2>1. Behind(con[c]) = con[c].todo /\ Holds(con[c]) = con[c].todo /\ con[c].pc \in Committing
    BY <1>1 DEF Behind, Holds
  <2>2. J(d) = {j} /\ X(d) = {t} /\ Live(j) /\ j.name = con[c].super
    BY <1>0, <1>1, <1>4, <2>1 DEF Known, Written
  <2>3. t \notin In(h, d) /\ past[t][d] = In(h, d) \cup {t}
    BY <1>0, <1>1, <1>4, <2>1 DEF Known, Adds
  <2>4. db[d].now = t
    BY <1>1, <2>2, RemainsIs
  <2> QED BY <2>2, <2>3, <2>4
<1>6. In(t, d) = In(h, d) \cup {t} /\ t \in Values(d)
  BY <1>1, <1>5 DEF In, Values
<1>7. Multi(t, d) = Multi(Content(d), d)
  <2>1. CASE con[c].super # NoName
    <3>1. super[j.name].now \in G(j.name)
      BY <1>1, <1>5, <2>1, RemainsIs
    <3>2. IsCold(j)
      BY <1>1, <1>5, <2>1, <3>1 DEF Known, SuperOf, IsCold
    <3>3. Content(d) = t
      BY <1>4, <1>5, <3>2, ContentIs
    <3> QED BY <3>3
  <2>2. CASE con[c].super = NoName
    <3>1. Content(d) = h
      BY <1>4, <1>5, <2>2, ContentIs DEF IsCold
    <3>2. ~NeedsSuper(Members(t))
      BY <1>0, <1>1, <2>2, Bounds DEF ConOK, Txns, NoName
    <3> QED BY <1>6, <3>1, <3>2 DEF Multi
  <2> QED BY <2>1, <2>2
<1>8. Local(d)' /\ Multi(Content(d), d)' = Multi(Content(d), d)
  BY <1>1, <1>2, <1>5, <1>6, <1>7, NoneDecided, EndsSound
<1>9. Alone(c)
  BY <1>1, <1>2, <1>3, AloneWith
<1>10. Known(con[c])'
  BY <1>0, <1>1, <1>2, <1>3, LeavesKnown DEF EndJournal
<1>11. /\ \A e \in Dbs : Local(e)'
       /\ \A e \in Conns : Known(con[e])'
       /\ Together' /\ \A u \in kept : Final(u)'
  BY <1>1, <1>2, <1>3, <1>8, <1>9, <1>10, OnlyFile
<1>12. ASSUME kept' # kept
       PROVE  kept' = kept \cup {t} /\ Final(t)'
  <2>1. kept' = kept \cup {t} /\ con[c].super # NoName /\ con[c].todo = {d}
    BY <1>0, <1>12 DEF EndJournal
  <2>2. Members(t)' = con[c].dbs /\ NeedsSuper(Members(t)')
    BY <1>1, <1>2, <2>1, Bounds DEF ConOK, Members
  <2>3. t \in Included(d)'
    <3>1. Content(d)' = t
      BY <1>2, <1>3, <1>5 DEF Content, NoJournal
    <3> QED BY <1>1, <1>2, <1>5, <3>1 DEF Included
  <2>4. \A e \in Members(t)' : t \in Included(e)'
    BY <1>1, <1>11, <2>2, <2>3 DEF Together
  <2>5. con'[c].pc = "idle"
    <3>1. con' = [con EXCEPT ![c] = Idle]
      BY <1>0, <2>1 DEF EndJournal, Leave, Start
    <3> QED BY <1>1, <3>1 DEF CInv, Idle
  <2>6. ASSUME NEW e \in Conns, con'[e].pc \in Committing
        PROVE  con'[e].txn # t
    <3>1. e # c /\ con'[e] = con[e]
      BY <2>5, <2>6 DEF Moves
    <3> QED BY <1>0, <1>1, <2>6, <3>1 DEF CInv, Distinct
  <2> QED BY <2>1, <2>2, <2>4, <2>6 DEF Final
<1> QED BY <1>11, <1>12 DEF FInv

-----------------------------------------------------------------------------
(* Steps that change a super-journal.                                      *)

LEMMA AloneSuper ==
  ASSUME CInv, NEW c \in Conns, NEW s \in Txns, db' = db, jrnl' = jrnl, past' = past,
         setting' = setting, \A u \in Txns \ {s} : super'[u] = super[u],
         \A e \in Conns \ {c} : con[e].pc \in Committing => con[e].super # s,
         ~super'[s].now.there \/ \A d \in Dbs : jrnl[d].now.name # s
  PROVE  Alone(c)
<1>1. \A d : J(d)' = J(d)
  BY DEF J, Remains
<1>2. \A e \in Conns \ {c} : con[e].pc \in Committing /\ con[e].super # NoName =>
          con[e].super \in Txns \ {s}
  BY Bounds DEF ConType, NoName, Txns
<1> QED BY <1>1, <1>2 DEF Alone

(* No journal that may be found of e names the super-journal that changes. *)
LEMMA Unnamed ==
  ASSUME IInv, NEW c \in Conns, Moves(c), NEW s \in Txns, db' = db, jrnl' = jrnl, past' = past,
         setting' = setting, \A u \in Txns \ {s} : super'[u] = super[u],
         con[c].pc = "syncDir" => con[c].super = s,
         NEW e \in Dbs, \A j \in J(e) : j.name # s
  PROVE  Local(e)' /\ Multi(Content(e), e)' = Multi(Content(e), e)
<1>1. \A u : u # s => Quietly(u)
  BY DEF Moves, Quietly, Deciding
<1> QED BY <1>1, IInvParts, LocalStays

LEMMA SuperIs ==
  ASSUME CInv, NEW c \in Conns, con[c].pc \in Naming
  PROVE  /\ con[c].super = con[c].txn /\ con[c].super \in Txns /\ con[c].super # NoName
         /\ Members(con[c].super) = con[c].dbs /\ con[c].dbs \subseteq Dbs
         /\ NeedsSuper(con[c].dbs) /\ con[c] \in ConType /\ Holds(con[c]) = con[c].dbs
         /\ \A e \in Conns \ {c} : con[e].pc \in Committing => con[e].super # con[c].super
<1>1. ConOK(con[c]) /\ con[c] \in ConType
  BY Bounds
<1>2. /\ con[c].super = con[c].txn /\ con[c].super \in Txns /\ con[c].super # NoName
      /\ Members(con[c].super) = con[c].dbs /\ con[c].dbs \subseteq Dbs
      /\ NeedsSuper(con[c].dbs)
  BY <1>1 DEF ConOK, ConType, Txns, NoName
<1> QED BY <1>1, <1>2, SupersDiffer DEF Holds

(* A super-journal is made, synced or given up: no journal names it yet.   *)
LEMMA NotYetNamed ==
  ASSUME IInv, NEW c \in Conns, Moves(c), con[c].pc \in {"create", "syncSuper"},
         NEW f, super' = SetOf(super, con[c].super, f), db' = db, jrnl' = jrnl, past' = past,
         setting' = setting, kept' = kept, Known(con[c])'
  PROVE  FInv'
<1>0. PICK s : s = con[c].super
  OBVIOUS
<1>1. CInv /\ s \in Txns /\ Known(con[c])
      /\ \A e \in Conns \ {c} : con[e].pc \in Committing => con[e].super # s
  BY <1>0, IInvParts, SuperIs
<1>2. \A u \in Txns \ {s} : super'[u] = super[u]
  BY <1>0, <1>1 DEF SetOf, CInv, FileTypes
<1>3. \A e \in Dbs : \A j \in J(e) : j.name # s
  BY <1>0, <1>1 DEF Known, SuperOf
<1>4. \A e \in Dbs : Local(e)' /\ Multi(Content(e), e)' = Multi(Content(e), e)
  BY <1>1, <1>2, <1>3, Unnamed
<1>5. Together' /\ \A t \in kept : Final(t)'
  BY <1>4, KeepsTogether DEF Moves
<1>6. Alone(c)
  <2>1. \A d \in Dbs : jrnl[d].now.name # s
    BY <1>1, <1>3, RemainsIs
  <2> QED BY <1>1, <1>2, <2>1, AloneSuper
<1>7. ASSUME NEW e \in Conns PROVE Known(con[e])'
  <2>1. CASE e = c
    BY <2>1
  <2>2. CASE e # c
    BY <2>2, <1>6, OthersKnow
  <2> QED BY <2>1, <2>2
<1> QED BY <1>4, <1>5, <1>7 DEF FInv

(* The next step of c; the files of its databases are as they were.        *)
LEMMA NamingKnown ==
  ASSUME IInv, NEW c \in Conns, con[c].pc \in Naming \ {"name"}, NEW q, GoTo(c, q),
         <<con[c].pc, q>> \in Ways,
         db' = db, jrnl' = jrnl, past' = past, setting' = setting,
         NEW w, w = [con[c] EXCEPT !.pc = q], SuperOf(w)'
  PROVE  Known(con[c])'
<1>1. CInv /\ Known(con[c]) /\ con[c] \in ConType /\ con[c].todo = con[c].dbs
      /\ con[c].dbs \subseteq Dbs
  BY IInvParts, Bounds DEF ConOK, ConType
<1>2. con' = [con EXCEPT ![c] = w]
  BY DEF GoTo, Start
<1>3. /\ con'[c] = w /\ w.pc = q /\ w.dbs = con[c].dbs /\ w.todo = con[c].todo
      /\ w.txn = con[c].txn /\ w.super = con[c].super
      /\ q \in {"syncSuper", "name", "syncDir", "end"}
      /\ q \in {"syncSuper", "name"} <=> con[c].pc \in {"create", "syncSuper"}
      /\ con[c].pc \in {"create", "syncSuper", "delete", "syncDir"}
  BY <1>1, <1>2 DEF CInv, ConType, Ways
<1>4. \A e : J(e)' = J(e) /\ X(e)' = X(e)
  BY DEF J, X, Remains
<1>5. /\ Holds(w) = con[c].dbs /\ Holds(con[c]) = con[c].dbs
      /\ Ahead(w) \subseteq Ahead(con[c])
      /\ Behind(w) \subseteq Behind(con[c])
  BY <1>1, <1>3 DEF Holds, Ahead, Behind
<1>6. Journalled(w)'
  BY <1>1, <1>3, <1>5 DEF Known, Journalled
<1>7. Written(w)'
  BY <1>1, <1>3, <1>4, <1>5 DEF Known, Written
<1>8. Adds(w)'
  BY <1>1, <1>3, <1>5 DEF Known, Adds, In
<1>9. Restored(w)'
  BY <1>3 DEF Restored
<1> QED BY <1>3, <1>6, <1>7, <1>8, <1>9
        DEF Known, Journalled, Written, Adds, SuperOf, Restored

LEMMA FCreateSuper ==
  ASSUME IInv, NEW c \in Conns, CreateSuper(c), Moves(c)
  PROVE  FInv'
<1>0. PICK s, f : /\ s = con[c].super
                  /\ f = Changed(super[s], [there |-> TRUE, names |-> con[c].dbs],
                                 [there : {TRUE}, names : SUBSET con[c].dbs])
  OBVIOUS
<1>1. con[c].pc = "create" /\ CInv /\ s \in Txns /\ Known(con[c]) /\ con[c] \in ConType
  BY <1>0, IInvParts, SuperIs DEF CreateSuper, At
<1>2. /\ super' = SetOf(super, s, f) /\ db' = db /\ jrnl' = jrnl /\ past' = past
      /\ setting' = setting /\ kept' = kept /\ GoTo(c, "syncSuper")
  BY <1>0 DEF CreateSuper, history, fixed
<1>3. PICK w : w = [con[c] EXCEPT !.pc = "syncSuper"]
  OBVIOUS
<1>4. w.pc = "syncSuper" /\ w.super = s /\ w.dbs = con[c].dbs
  BY <1>0, <1>1, <1>3 DEF ConType
<1>5. SuperOf(w)'
  <2>1. super'[s].now = [there |-> TRUE, names |-> w.dbs]
    BY <1>0, <1>1, <1>2, <1>4 DEF SetOf, CInv, FileTypes, Changed
  <2>2. \A d \in Dbs : \A j \in J(d)' : j.name # s
    <3>1. \A d \in Dbs : J(d)' = J(d)
      BY <1>2 DEF J, Remains
    <3> QED BY <1>0, <1>1, <3>1 DEF Known, SuperOf
  <2> QED BY <1>4, <2>1, <2>2 DEF SuperOf
<1>6. Known(con[c])'
  BY <1>1, <1>2, <1>3, <1>5, NamingKnown DEF Ways, Naming
<1> QED BY <1>0, <1>1, <1>2, <1>6, NotYetNamed

LEMMA FSyncSuper ==
  ASSUME IInv, NEW c \in Conns, SyncSuper(c), Moves(c)
  PROVE  FInv'
<1>0. PICK s : s = con[c].super
  OBVIOUS
<1>1. con[c].pc = "syncSuper" /\ CInv /\ s \in Txns /\ Known(con[c]) /\ con[c] \in ConType
  BY <1>0, IInvParts, SuperIs DEF SyncSuper, At
<1>2. /\ super' = SetOf(super, s, Synced(super[s])) /\ db' = db /\ jrnl' = jrnl /\ past' = past
      /\ setting' = setting /\ kept' = kept /\ GoTo(c, "name")
  BY <1>0 DEF SyncSuper, history, fixed
<1>3. PICK w : w = [con[c] EXCEPT !.pc = "name"]
  OBVIOUS
<1>4. w.pc = "name" /\ w.super = s /\ w.dbs = con[c].dbs
  BY <1>0, <1>1, <1>3 DEF ConType
<1>5. SuperOf(w)'
  <2>1. super'[s] = Synced(super[s])
    BY <1>1, <1>2 DEF SetOf, CInv, FileTypes
  <2>2. G(s)' = {super[s].now}
    BY <1>2, <2>1, SyncedRemains, NextRemains
  <2>3. super[s].now = [there |-> TRUE, names |-> w.dbs]
    BY <1>0, <1>1, <1>4 DEF Known, SuperOf
  <2> QED BY <1>4, <2>2, <2>3 DEF SuperOf
<1>6. Known(con[c])'
  BY <1>1, <1>2, <1>3, <1>5, NamingKnown DEF Ways, Naming
<1> QED BY <1>0, <1>1, <1>2, <1>6, NotYetNamed

LEMMA FFailSyncSuper ==
  ASSUME IInv, past' = past, setting' = setting, kept' = kept,
         NEW c \in Conns, FailSyncSuper(c), Moves(c)
  PROVE  FInv'
<1>1. con[c].pc = "syncSuper" /\ con'[c].pc = "play" /\ db' = db /\ jrnl' = jrnl
  BY IInvParts, Bounds DEF FailSyncSuper, At, ToRollback, Start, CInv, ConType
<1> QED BY <1>1, NothingToKnow, NotYetNamed DEF FailSyncSuper

(* A database of the commit whose super-journal is being unlinked.         *)
LEMMA Unlinking ==
  ASSUME IInv, NEW c \in Conns, con[c].pc \in {"delete", "syncDir"}, NEW d \in con[c].dbs
  PROVE  /\ d \in Dbs /\ J(d) = {jrnl[d].now} /\ X(d) = {con[c].super} /\ Live(jrnl[d].now)
         /\ jrnl[d].now.name = con[c].super /\ db[d].now = con[c].super
         /\ jrnl[d].now.head \in Values(d)
         /\ con[c].super \in Values(d) /\ con[c].super \notin In(jrnl[d].now.head, d)
         /\ In(con[c].super, d) = In(jrnl[d].now.head, d) \cup {con[c].super}
<1>1. CInv /\ Known(con[c]) /\ con[c].super = con[c].txn /\ con[c].super \in Txns /\ d \in Dbs
      /\ Members(con[c].super) = con[c].dbs /\ con[c].pc \in Committing
      /\ Holds(con[c]) = con[c].dbs /\ Behind(con[c]) = con[c].dbs
  BY IInvParts, SuperIs DEF Behind
<1>2. /\ J(d) = {jrnl[d].now} /\ X(d) = {con[c].super} /\ Live(jrnl[d].now)
      /\ jrnl[d].now.name = con[c].super
  BY <1>1 DEF Known, Written
<1>3. db[d].now = con[c].super
  BY <1>1, <1>2, RemainsIs
<1>4. con[c].super \notin In(jrnl[d].now.head, d)
      /\ past[con[c].super][d] = In(jrnl[d].now.head, d) \cup {con[c].super}
  BY <1>1 DEF Known, Adds
<1>5. con[c].super \in Values(d)
  BY <1>1 DEF Values
<1>6. jrnl[d].now.head \in Values(d)
  <2>1. jrnl[d].now \in J(d) /\ jrnl[d].now # NoJournal /\ jrnl[d].now.head # Damaged
    BY <1>1, <1>2, Consts DEF Live, NoJournal, Damaged
  <2> QED BY <1>1, <2>1, IInvParts DEF Shape
<1> QED BY <1>1, <1>2, <1>3, <1>4, <1>5, <1>6 DEF In

LEMMA FDeleteSuper ==
  ASSUME IInv, NEW c \in Conns, DeleteSuper(c), Moves(c)
  PROVE  FInv'
<1>0. PICK s, D : s = con[c].super /\ D = con[c].dbs
  OBVIOUS
<1>1. /\ con[c].pc = "delete" /\ CInv /\ s \in Txns /\ Known(con[c]) /\ con[c] \in ConType
      /\ s = con[c].txn /\ s # NoName /\ Members(s) = D /\ D \subseteq Dbs /\ NeedsSuper(D)
      /\ \A e \in Conns \ {c} : con[e].pc \in Committing => con[e].super # s
  BY <1>0, IInvParts, SuperIs DEF DeleteSuper, At
<1>2. /\ super' = SetOf(super, s, Changed(super[s], NoSuper, {})) /\ db' = db /\ jrnl' = jrnl
      /\ past' = past /\ setting' = setting /\ kept' = kept /\ GoTo(c, "syncDir")
  BY <1>0 DEF DeleteSuper, history, fixed
<1>3. PICK w : w = [con[c] EXCEPT !.pc = "syncDir"]
  OBVIOUS
<1>4. w.pc = "syncDir" /\ w.super = s /\ w.dbs = D /\ con'[c] = w
  BY <1>0, <1>1, <1>2, <1>3 DEF ConType, GoTo, Start, CInv
<1>5. super'[s].now = NoSuper /\ \A u \in Txns \ {s} : super'[u] = super[u]
  BY <1>1, <1>2 DEF SetOf, CInv, FileTypes, Changed
<1>6. \A g \in G(s)' : g.there => D \subseteq g.names
  <2>1. G(s)' \subseteq G(s) \cup {NoSuper}
    <3>1. super'[s] = Changed(super[s], NoSuper, {})
      BY <1>1, <1>2 DEF SetOf, CInv, FileTypes
    <3> QED BY <1>2, <3>1, NextRemains, ChangedRemains DEF G
  <2>2. G(s) = {[there |-> TRUE, names |-> D]}
    BY <1>0, <1>1 DEF Known, SuperOf
  <2> QED BY <2>1, <2>2 DEF NoSuper
<1>7. Known(con[c])'
  <2>1. SuperOf(w)'
    BY <1>4, <1>5 DEF SuperOf
  <2> QED BY <1>1, <1>2, <1>3, <2>1, NamingKnown DEF Ways, Naming
<1>8. Alone(c)
  BY <1>1, <1>2, <1>5, AloneSuper DEF NoSuper
<1>9. ASSUME NEW e \in Conns PROVE Known(con[e])'
  <2>1. CASE e = c
    BY <1>7, <2>1
  <2>2. CASE e # c
    BY <2>2, <1>8, OthersKnow
  <2> QED BY <2>1, <2>2
<1>10. Deciding(s)'
  BY <1>1, <1>4 DEF Deciding
<1>11. ASSUME NEW d \in D
       PROVE  /\ Local(d)' /\ Content(d)' = s
              /\ In(s, d)' = In(Content(d), d) \cup {s}
  <2>1. PICK j : j = jrnl[d].now
    OBVIOUS
  <2>2. /\ d \in Dbs /\ J(d) = {j} /\ X(d) = {s} /\ Live(j) /\ j.name = s /\ db[d].now = s
        /\ j.head \in Values(d) /\ s \in Values(d) /\ In(s, d) = In(j.head, d) \cup {s}
    <3>1. d \in con[c].dbs
      BY <1>0
    <3>2. con[c].pc \in {"delete", "syncDir"}
      BY <1>1
    <3>3. /\ d \in Dbs /\ J(d) = {jrnl[d].now} /\ X(d) = {con[c].super} /\ Live(jrnl[d].now)
          /\ jrnl[d].now.name = con[c].super /\ db[d].now = con[c].super
          /\ jrnl[d].now.head \in Values(d)
          /\ con[c].super \in Values(d) /\ con[c].super \notin In(jrnl[d].now.head, d)
          /\ In(con[c].super, d) = In(jrnl[d].now.head, d) \cup {con[c].super}
      BY <3>1, <3>2, Unlinking, Zenon
    <3> QED BY <1>0, <2>1, <3>3
  <2>3. J(d)' = {j} /\ X(d)' = {s} /\ jrnl'[d].now = j /\ db'[d].now = s
    BY <1>2, <2>1, <2>2 DEF J, X, Remains
  <2>4. /\ Values(d)' = Values(d) /\ \A x : Multi(x, d)' = Multi(x, d) /\ In(x, d)' = In(x, d)
        /\ \A u : Members(u)' = Members(u)
    BY <1>2 DEF Values, Multi, In, Members
  <2>5. IsCold(j)' /\ ~IsCold(j)
    <3>1. super[s].now \in G(s) /\ G(s) = {[there |-> TRUE, names |-> D]}
      BY <1>0, <1>1, RemainsIs DEF Known, SuperOf
    <3>2. super[s].now.there
      BY <3>1
    <3> QED BY <1>1, <1>5, <2>2, <3>2 DEF IsCold, NoSuper
  <2>6. Content(d)' = s
    BY <2>3, <2>5 DEF Content
  <2>7. Content(d) = j.head
    BY <2>1, <2>2, <2>5, ContentIs
  <2>8. Shape(d)' /\ Stale(d)' /\ Quiet(d)'
    BY <2>2, <2>3, <2>4, <2>5 DEF Shape, Stale, Quiet, Live
  <2>9. Names(d)'
    BY <1>1, <1>5, <1>6, <2>2, <2>3, <2>4 DEF Names, NoSuper
  <2>10. Sound(d)'
    <3>1. ASSUME NEW b \in MayBeThere(s)'
          PROVE  /\ Found(j, s, b) \in Values(d)
                 /\ Multi(Found(j, s, b), d) = Multi(s, d) \/ (b /\ Deciding(s)')
      BY <1>1, <1>10, <2>2 DEF Found
    <3> QED BY <2>2, <2>3, <2>4, <2>6, <3>1 DEF Sound
  <2> QED BY <2>2, <2>4, <2>6, <2>7, <2>8, <2>9, <2>10 DEF Local
<1>12. ASSUME NEW d \in Dbs \ D
       PROVE  Local(d)' /\ Multi(Content(d), d)' = Multi(Content(d), d)
  <2>1. \A j \in J(d) : j.name # s
    BY <1>1, IInvParts DEF Names
  <2> QED BY <1>0, <1>1, <1>2, <1>5, <2>1, Unnamed
<1>13. ASSUME NEW t \in Txns, NeedsSuper(Members(t)), NEW d \in Dbs
       PROVE  t \in Included(d)' <=> t \in Included(d) \/ (t = s /\ d \in D)
  <2>1. Members(t)' = Members(t)
    BY <1>2 DEF Members
  <2>2. CASE d \in D
    <3>1. Included(d)' = Included(d) \cup {s}
      BY <1>11, <2>2 DEF Included, In
    <3> QED BY <2>2, <3>1
  <2>3. CASE d \notin D
    BY <1>12, <1>13, <2>1, <2>3 DEF Included, Multi, In
  <2> QED BY <2>2, <2>3
<1>14. \A t \in Txns : Members(t)' = Members(t) /\ Members(t) \subseteq Dbs
  BY <1>1, <1>2 DEF Members, CInv, PastType
<1>15. Together'
  BY <1>1, <1>13, <1>14, IInvParts DEF Together
<1>16. \A t \in kept : Final(t)'
  <2>1. \A e \in Conns : con'[e].pc \in Committing =>
            con[e].pc \in Committing /\ con'[e].txn = con[e].txn
    BY DEF Moves
  <2>2. kept \subseteq Txns /\ \A t \in kept : Final(t)
    BY <1>1, IInvParts DEF CInv
  <2> QED BY <1>13, <1>14, <2>1, <2>2 DEF Final
<1> QED BY <1>2, <1>9, <1>11, <1>12, <1>15, <1>16 DEF FInv

LEMMA FSyncDir ==
  ASSUME IInv, NEW c \in Conns, SyncDir(c), Moves(c)
  PROVE  FInv'
<1>0. PICK s, D : s = con[c].super /\ D = con[c].dbs
  OBVIOUS
<1>1. /\ con[c].pc = "syncDir" /\ CInv /\ s \in Txns /\ Known(con[c]) /\ con[c] \in ConType
      /\ s # NoName /\ Members(s) = D /\ D \subseteq Dbs
      /\ \A e \in Conns \ {c} : con[e].pc \in Committing => con[e].super # s
  BY <1>0, IInvParts, SuperIs DEF SyncDir, At
<1>2. /\ super' = SetOf(super, s, Synced(super[s])) /\ db' = db /\ jrnl' = jrnl
      /\ past' = past /\ setting' = setting /\ kept' = kept /\ GoTo(c, "end")
  BY <1>0 DEF SyncDir, history, fixed, DirSynced
<1>3. PICK w : w = [con[c] EXCEPT !.pc = "end"]
  OBVIOUS
<1>4. w.pc = "end" /\ w.super = s
  BY <1>0, <1>1, <1>3 DEF ConType
<1>5. /\ super'[s] = Synced(super[s]) /\ \A u \in Txns \ {s} : super'[u] = super[u]
      /\ super[s].now = NoSuper
  BY <1>0, <1>1, <1>2 DEF SetOf, CInv, FileTypes, Known, SuperOf
<1>6. G(s)' = {NoSuper} /\ super'[s].now = NoSuper
  BY <1>2, <1>5, SyncedRemains, NextRemains
<1>7. Known(con[c])'
  <2>1. SuperOf(w)'
    BY <1>4, <1>6 DEF SuperOf, NoSuper
  <2> QED BY <1>1, <1>2, <1>3, <2>1, NamingKnown DEF Ways, Naming
<1>8. Alone(c)
  BY <1>1, <1>2, <1>5, <1>6, AloneSuper DEF NoSuper
<1>9. ASSUME NEW e \in Conns PROVE Known(con[e])'
  <2>1. CASE e = c
    BY <1>7, <2>1
  <2>2. CASE e # c
    BY <2>2, <1>8, OthersKnow
  <2> QED BY <2>1, <2>2
<1>10. ASSUME NEW d \in Dbs
       PROVE  Local(d)' /\ Multi(Content(d), d)' = Multi(Content(d), d)
  <2>1. CASE d \in D
    <3>1. PICK j : j = jrnl[d].now
      OBVIOUS
    <3>2. /\ J(d) = {j} /\ X(d) = {s} /\ Live(j) /\ j.name = s /\ db[d].now = s
          /\ j.head \in Values(d) /\ s \in Values(d)
      <4>1. d \in con[c].dbs /\ con[c].pc \in {"delete", "syncDir"}
        BY <1>0, <1>1, <2>1
      <4>2. /\ J(d) = {jrnl[d].now} /\ X(d) = {con[c].super} /\ Live(jrnl[d].now)
            /\ jrnl[d].now.name = con[c].super /\ db[d].now = con[c].super
            /\ jrnl[d].now.head \in Values(d)
            /\ con[c].super \in Values(d)
        BY <4>1, Unlinking, Zenon
      <4> QED BY <1>0, <3>1, <4>2
    <3>3. J(d)' = {j} /\ X(d)' = {s} /\ jrnl'[d].now = j /\ db'[d].now = s
      BY <1>2, <3>1, <3>2 DEF J, X, Remains
    <3>4. /\ Values(d)' = Values(d) /\ \A x : Multi(x, d)' = Multi(x, d)
          /\ \A u : Members(u)' = Members(u)
      BY <1>2 DEF Values, Multi, In, Members
    <3>5. IsCold(j)' /\ IsCold(j)
      BY <1>1, <1>5, <1>6, <3>2 DEF IsCold, NoSuper
    <3>6. Content(d)' = s /\ Content(d) = s
      BY <3>1, <3>2, <3>3, <3>5 DEF Content
    <3>7. Shape(d)' /\ Stale(d)' /\ Quiet(d)'
      BY <3>2, <3>3, <3>4, <3>5 DEF Shape, Stale, Quiet, Live
    <3>8. Names(d)'
      BY <1>1, <1>6, <2>1, <3>2, <3>3, <3>4 DEF Names, NoSuper
    <3>9. Sound(d)'
      <4>1. ASSUME NEW b \in MayBeThere(s)'
            PROVE  b = FALSE
        BY <1>1, <1>6 DEF MayBeThere, NoSuper
      <4>2. Found(j, s, FALSE) = s
        BY <1>1, <3>2 DEF Found
      <4> QED BY <3>2, <3>3, <3>4, <3>6, <4>1, <4>2 DEF Sound
    <3> QED BY <3>4, <3>6, <3>7, <3>8, <3>9 DEF Local
  <2>2. CASE d \notin D
    <3>1. \A j \in J(d) : j.name # s
      BY <1>1, <2>2, IInvParts DEF Names
    <3> QED BY <1>0, <1>1, <1>2, <1>5, <3>1, Unnamed
  <2> QED BY <2>1, <2>2
<1>11. Together' /\ \A t \in kept : Final(t)'
  BY <1>2, <1>10, KeepsTogether DEF Moves
<1> QED BY <1>2, <1>9, <1>10, <1>11 DEF FInv

LEMMA FDelSuper ==
  ASSUME IInv, NEW c \in Conns, DelSuper(c), Moves(c)
  PROVE  FInv'
<1>0. PICK s : s = con[c].name
  OBVIOUS
<1>1. /\ con[c].pc = "children" /\ CInv /\ s \in Txns /\ s # NoName /\ Known(con[c])
      /\ con[c].check = {} /\ con[c] \in ConType
  BY <1>0, IInvParts, Bounds, NameIn DEF DelSuper, At, ConOK
<1>2. /\ super' = SetOf(super, s, Changed(super[s], NoSuper, {})) /\ db' = db /\ jrnl' = jrnl
      /\ past' = past /\ setting' = setting /\ kept' = kept /\ GoTo(c, "next")
  BY <1>0 DEF DelSuper, history, fixed
<1>3. con'[c].pc = "next"
  BY <1>1, <1>2 DEF GoTo, Start, CInv, ConType
<1>4. /\ \A u \in Txns \ {s} : super'[u] = super[u]
      /\ super'[s] = Changed(super[s], NoSuper, {}) /\ super'[s].now = NoSuper
  BY <1>1, <1>2 DEF SetOf, CInv, FileTypes, Changed
<1>5. G(s)' \subseteq G(s) \cup {NoSuper}
  BY <1>2, <1>4, NextRemains, ChangedRemains DEF G
<1>6. /\ \A e \in Conns : con[e].pc \in Committing => con[e].super # s
      /\ \A d \in Dbs : jrnl[d].now.name # s
  BY <1>0, <1>1 DEF Known, Restored
<1>7. Alone(c)
  BY <1>1, <1>2, <1>4, <1>6, AloneSuper
<1>8. ASSUME NEW e \in Conns PROVE Known(con[e])'
  <2>1. CASE e = c
    BY <1>3, <2>1, NothingToKnow
  <2>2. CASE e # c
    BY <2>2, <1>7, OthersKnow
  <2> QED BY <2>1, <2>2
<1>9. ASSUME NEW d \in Dbs
      PROVE  Local(d)' /\ Multi(Content(d), d)' = Multi(Content(d), d)
  <2>1. J(d)' = J(d) /\ X(d)' = X(d) /\ jrnl[d].now \in J(d)
    BY <1>1, <1>2, RemainsIs DEF J, X, Remains
  <2>2. /\ Values(d)' = Values(d) /\ \A x : Multi(x, d)' = Multi(x, d)
        /\ \A u : Members(u)' = Members(u)
    BY <1>2 DEF Values, Multi, In, Members
  <2>3. ASSUME NEW j \in J(d), j.name # s, j.name # NoName
        PROVE  super'[j.name] = super[j.name] /\ G(j.name)' = G(j.name)
    <3>1. j.name \in Txns
      BY <1>1, <2>3, RemainsIs DEF JournalsOf, Txns, NoName
    <3>2. super'[j.name] = super[j.name]
      BY <1>4, <2>3, <3>1
    <3> QED BY <1>2, <3>2 DEF G, Remains
  <2>4. IsCold(jrnl[d].now)' = IsCold(jrnl[d].now)
    BY <1>2, <1>6, <2>1, <2>3 DEF IsCold
  <2>5. Content(d)' = Content(d)
    BY <1>2, <2>4 DEF Content
  <2>6. Shape(d)' /\ Stale(d)' /\ Quiet(d)'
    BY <1>2, <2>1, <2>2, <2>4, IInvParts DEF Shape, Stale, Quiet
  <2>7. Names(d)'
    <3>1. ASSUME NEW j \in J(d), j.name # NoName
          PROVE  /\ d \in Members(j.name)
                 /\ \A g \in G(j.name)' : /\ g.there => d \in g.names
                                          /\ super'[j.name].now.there => g.there
      <4>1. CASE j.name = s
        BY <1>4, <1>5, <3>1, <4>1, IInvParts DEF Names, NoSuper
      <4>2. CASE j.name # s
        BY <2>3, <3>1, <4>2, IInvParts DEF Names
      <4> QED BY <4>1, <4>2
    <3> QED BY <2>1, <2>2, <3>1 DEF Names
  <2>8. Sound(d)'
    <3>1. ASSUME NEW j \in J(d), NEW x \in X(d), NEW b \in MayBeThere(j.name)'
          PROVE  /\ Found(j, x, b) \in Values(d)
                 /\ \/ Multi(Found(j, x, b), d) = Multi(Content(d), d)
                    \/ b /\ Deciding(j.name)'
      <4>1. CASE b \in MayBeThere(j.name)
        <5>1. Quietly(j.name)
          BY <1>1, NoneDecided
        <5> QED BY <4>1, <5>1, IInvParts DEF Sound, Quietly
      <4>2. CASE b \notin MayBeThere(j.name)
        <5>1. j.name = s
          <6>1. j.name # s => MayBeThere(j.name)' = MayBeThere(j.name)
            BY <2>3 DEF MayBeThere
          <6> QED BY <4>2, <6>1
        <5>2. b = FALSE
          BY <1>1, <1>5, <4>2, <5>1 DEF MayBeThere, NoSuper
        <5>3. Found(j, x, b) = x
          BY <1>1, <5>1, <5>2 DEF Found
        <5>4. NoJournal \in J(d)
          BY <1>1, <1>6, <5>1, IInvParts DEF Stale
        <5> QED BY <5>3, <5>4, FileSound
      <4> QED BY <4>1, <4>2
    <3> QED BY <2>1, <2>2, <2>5, <3>1 DEF Sound
  <2> QED BY <2>2, <2>5, <2>6, <2>7, <2>8 DEF Local
<1>10. Together' /\ \A t \in kept : Final(t)'
  BY <1>2, <1>9, KeepsTogether DEF Moves
<1> QED BY <1>2, <1>8, <1>9, <1>10 DEF FInv

LEMMA FIoError ==
  ASSUME Deletes, IInv, NEW c \in Conns, IoError(c), Moves(c)
  PROVE  FInv'
<1>1. ~Power /\ past' = past /\ setting' = setting /\ kept' = kept
  BY FaultIs, IInvParts DEF IoError
<1> QED BY <1>1, FFailCommit, FFailSyncSuper, FFailWritePages, FGiveUp DEF IoError

-----------------------------------------------------------------------------
(* A new transaction: what its number is was in use nowhere.               *)

LEMMA NotNone == ~NeedsSuper({})
BY FS_EmptySet DEF NeedsSuper

LEMMA InIs ==
  ASSUME CInv, NEW d \in Dbs, NEW x \in Values(d)
  PROVE  \A u \in In(x, d) : u \in Txns /\ Members(u) # {}
BY DEF CInv, PastType, In, Values, Txns

LEMMA BeginNew ==
  ASSUME IInv, NEW t \in Txns, Members(t) = {},
         \A u \in Txns \ {t} : past'[u] = past[u] /\ Members(u)' = Members(u)
  PROVE  \A d \in Dbs :
           /\ Values(d) \subseteq Values(d)'
           /\ \A x \in Values(d) :
                 x # t /\ In(x, d)' = In(x, d) /\ t \notin In(x, d) /\ Multi(x, d)' = Multi(x, d)
<1> SUFFICES ASSUME NEW d \in Dbs
             PROVE  /\ Values(d) \subseteq Values(d)'
                    /\ \A x \in Values(d) : /\ x # t /\ In(x, d)' = In(x, d) /\ t \notin In(x, d)
                                            /\ Multi(x, d)' = Multi(x, d)
  OBVIOUS
<1>1. CInv
  BY IInvParts
<1>2. ASSUME NEW x \in Values(d)
      PROVE  x # t /\ (x \in Txns => d \in Members(x))
  BY <1>2 DEF Values, Txns
<1>3. ASSUME NEW x \in Values(d)
      PROVE  x \in Values(d)'
  BY <1>2, <1>3 DEF Values
<1>4. ASSUME NEW x \in Values(d)
      PROVE  In(x, d)' = In(x, d) /\ t \notin In(x, d) /\ Multi(x, d)' = Multi(x, d)
  <2>1. In(x, d)' = In(x, d)
    BY <1>2 DEF In
  <2>2. \A u \in In(x, d) : u \in Txns /\ u # t
    BY <1>1, InIs
  <2>3. Multi(x, d)' = Multi(x, d)
    <3>1. \A u \in In(x, d) : Members(u)' = Members(u)
      BY <2>2
    <3> QED BY <2>1, <3>1 DEF Multi
  <2> QED BY <2>1, <2>2, <2>3
<1> QED BY <1>2, <1>3, <1>4

LEMMA FBeginCommit ==
  ASSUME IInv, NEW c \in Conns, BeginCommit(c)
  PROVE  FInv'
<1>1. PICK t \in Txns :
      /\ t = TxnsBegun + 1 /\ Members(t) = {}
      /\ con[c].pc = "write" /\ con[c].dbs # {} /\ con[c].dbs \subseteq Dbs
      /\ con'[c] = [con[c] EXCEPT !.pc = IF NeedsSuper(con[c].dbs) THEN "create" ELSE "journal",
                            !.txn = t,
                            !.super = IF NeedsSuper(con[c].dbs) THEN t ELSE NoName,
                            !.todo = con[c].dbs]
      /\ \A e \in Conns \ {c} : con'[e] = con[e]
      /\ \A u \in Txns \ {t} : past'[u] = past[u] /\ Members(u)' = Members(u)
      /\ past'[t] = [d \in con[c].dbs |-> Included(d) \cup {t}]
      /\ past' = [u \in Txns |-> past'[u]]
      /\ Members(t)' = con[c].dbs
  BY BeginEffect, IInvParts, Zenon
<1>2. /\ db' = db /\ jrnl' = jrnl /\ super' = super /\ kept' = kept /\ setting' = setting
      /\ CInv /\ t # NoName
  BY IInvParts DEF BeginCommit, fixed, Txns, NoName
<1>3. /\ \A d : J(d)' = J(d) /\ X(d)' = X(d) /\ Content(d)' = Content(d)
      /\ \A s : G(s)' = G(s) /\ MayBeThere(s)' = MayBeThere(s)
      /\ \A j : IsCold(j)' = IsCold(j)
  BY <1>2 DEF J, X, G, Remains, MayBeThere, Content, IsCold
<1>4. \A d \in Dbs :
           /\ Values(d) \subseteq Values(d)'
           /\ \A x \in Values(d) :
                 x # t /\ In(x, d)' = In(x, d) /\ t \notin In(x, d) /\ Multi(x, d)' = Multi(x, d)
  BY <1>1, BeginNew, Zenon
<1>5. \A d \in Dbs : Content(d) \in Values(d)
  BY ContentValue
<1>6. \A s : Deciding(s) => Deciding(s)'
  BY <1>1 DEF Deciding
<1>7. \A d \in Dbs : Included(d) = In(Content(d), d) /\ t \notin Included(d)
                     /\ Included(d)' = Included(d)
  BY <1>3, <1>4, <1>5 DEF Included, In
<1>8. ASSUME NEW d \in Dbs, NEW j \in J(d), j.name # NoName
      PROVE  j.name \in Txns \ {t} /\ Members(j.name)' = Members(j.name)
  <2>1. j.name \in Txns
    BY <1>2, <1>8, RemainsIs DEF JournalsOf, Txns, NoName
  <2>2. d \in Members(j.name)
    BY <1>8, IInvParts DEF Names
  <2> QED BY <1>1, <2>1, <2>2
<1>9. ASSUME NEW d \in Dbs PROVE Local(d)'
  <2>1. Shape(d)' /\ Stale(d)' /\ Quiet(d)'
    BY <1>2, <1>3, <1>4, IInvParts DEF Shape, Stale, Quiet
  <2>2. Names(d)'
    BY <1>2, <1>3, <1>8, IInvParts DEF Names
  <2>3. Sound(d)'
    <3>1. ASSUME NEW j \in J(d), NEW x \in X(d), NEW b \in MayBeThere(j.name)
          PROVE  /\ Found(j, x, b) \in Values(d)'
                 /\ Multi(Found(j, x, b), d)' = Multi(Content(d), d)'
                    \/ (b /\ Deciding(j.name)')
      <4>1. PICK v, k : v = Found(j, x, b) /\ k = Content(d)
        OBVIOUS
      <4>2. v \in Values(d) /\ k \in Values(d)
            /\ (Multi(v, d) = Multi(k, d) \/ (b /\ Deciding(j.name)))
        BY <1>5, <4>1, IInvParts DEF Sound
      <4>3. v \in Values(d)' /\ (Multi(v, d)' = Multi(k, d)' \/ (b /\ Deciding(j.name)'))
        BY <1>4, <1>6, <4>2
      <4>4. Content(d)' = k /\ Found(j, x, b) = v
        BY <1>3, <4>1
      <4> QED BY <4>3, <4>4
    <3> QED BY <1>3, <3>1 DEF Sound
  <2> QED BY <2>1, <2>2, <2>3 DEF Local
<1>10. Known(con[c])'
  <2>1. PICK w : w = con'[c]
    OBVIOUS
  <2>2. /\ w.pc = IF NeedsSuper(con[c].dbs) THEN "create" ELSE "journal"
        /\ w.dbs = con[c].dbs /\ w.todo = con[c].dbs /\ w.txn = t
        /\ w.super = IF NeedsSuper(con[c].dbs) THEN t ELSE NoName
    BY <1>1, <1>2, <2>1, Bounds DEF ConType
  <2>3. \A d \in con[c].dbs : Live(jrnl[d].now) /\ jrnl[d].now.name = NoName
    BY <1>1, IInvParts DEF Known, Journalled, Ahead
  <2>4. First(w.todo) \in con[c].dbs
    BY <1>1, <2>2, FirstIn
  <2>5. Journalled(w)'
    <3>1. Ahead(w) \subseteq con[c].dbs
      BY <2>2 DEF Ahead
    <3> QED BY <1>2, <2>2, <2>3, <3>1 DEF Journalled
  <2>6. Written(w)'
    <3>1. Behind(w) = {}
      BY <2>2 DEF Behind
    <3> QED BY <1>2, <2>2, <2>3, <2>4, <3>1 DEF Written
  <2>7. Adds(w)'
    <3>1. Holds(w) = con[c].dbs
      BY <2>2 DEF Holds
    <3>2. ASSUME NEW d \in con[c].dbs, NEW h, h = jrnl[d].now.head
          PROVE  t \notin In(h, d)' /\ past'[t][d] = In(h, d)' \cup {t}
      <4>1. Content(d) = h
        BY <2>3, <3>2 DEF Content, Live, IsCold
      <4>2. h \in Values(d) /\ past'[t][d] = In(h, d) \cup {t}
        BY <1>1, <1>5, <1>7, <3>2, <4>1
      <4> QED BY <1>1, <1>4, <3>2, <4>2
    <3> QED BY <1>2, <2>2, <3>1, <3>2 DEF Adds
  <2>8. SuperOf(w)'
    <3>1. \A d \in Dbs : \A j \in J(d)' : j.name # t
      BY <1>2, <1>3, <1>8
    <3> QED BY <2>2, <3>1 DEF SuperOf
  <2>9. Restored(w)'
    BY <2>2 DEF Restored
  <2> QED BY <2>1, <2>5, <2>6, <2>7, <2>8, <2>9
          DEF Known, Journalled, Written, Adds, SuperOf, Restored
<1>11. ASSUME NEW e \in Conns \ {c} PROVE Known(con[e])'
  <2>1. PICK v : v = con[e]
    OBVIOUS
  <2>2. con'[e] = v /\ Known(v) /\ ConOK(v) /\ v \in ConType
    BY <1>1, <1>2, <2>1, IInvParts, Bounds
  <2>3. Journalled(v)' /\ Written(v)'
    BY <1>2, <1>3, <2>2 DEF Known, Journalled, Written
  <2>4. Adds(v)'
    <3>1. v.pc \in Committing => v.txn \in Txns \ {t}
      BY <1>1, <2>2 DEF ConOK
    <3>2. ASSUME NEW d \in Holds(v), NEW h, h = jrnl[d].now.head
          PROVE  In(h, d)' = In(h, d)
      <4>1. d \in Dbs
        BY <2>2, HoldsIn
      <4>2. h \in Txns => h \in Values(d)
        BY <1>2, <3>2, <4>1, RemainsIs DEF JournalsOf, Contents, Txns, Zeroed, Damaged, Torn
      <4> QED BY <1>4, <4>1, <4>2 DEF In
    <3> QED BY <1>1, <1>2, <2>2, <3>1, <3>2 DEF Known, Adds
  <2>5. SuperOf(v)'
    BY <1>2, <1>3, <2>2 DEF Known, SuperOf
  <2>6. Restored(v)'
    <3>1. ASSUME v.name # NoName, Members(v.name) # {}
          PROVE  v.name # t /\ Members(v.name)' = Members(v.name)
      <4>1. v.name \in Txns
        BY <2>2, <3>1 DEF ConType, Txns, NoName
      <4> QED BY <1>1, <3>1, <4>1
    <3>2. con'[c].super \in {t, NoName}
      BY <1>1, <1>2, Bounds DEF ConType
    <3>3. ASSUME v.pc \in {"restored", "finalize", "children"}, v.name # NoName
          PROVE  /\ Members(v.name)' # {}
                 /\ \A f \in Conns : con'[f].pc \in Committing => con'[f].super # v.name
      <4>1. /\ Members(v.name) # {}
            /\ \A f \in Conns : con[f].pc \in Committing => con[f].super # v.name
        BY <2>2, <3>3 DEF Known, Restored
      <4>2. v.name # t /\ Members(v.name)' # {}
        BY <3>1, <3>3, <4>1
      <4>3. ASSUME NEW f \in Conns, con'[f].pc \in Committing
            PROVE  con'[f].super # v.name
        <5>1. CASE f = c
          BY <3>2, <3>3, <4>2, <5>1
        <5>2. CASE f # c
          BY <1>1, <4>1, <4>3, <5>2
        <5> QED BY <5>1, <5>2
      <4> QED BY <4>2, <4>3
    <3>4. /\ v.pc \in {"restored", "finalize"} => Content(First(v.todo)) = db[First(v.todo)].now
          /\ v.pc = "finalize" => X(First(v.todo)) = {db[First(v.todo)].now}
          /\ v.pc = "children" => \A k \in Dbs : jrnl[k].now.name = v.name => k \in v.check
      BY <2>2 DEF Known, Restored
    <3> QED BY <1>2, <1>3, <3>3, <3>4 DEF Restored
  <2> QED BY <2>2, <2>3, <2>4, <2>5, <2>6
          DEF Known, Journalled, Written, Adds, SuperOf, Restored
<1>12. \A u \in Txns : Members(u)' \subseteq Dbs
  BY <1>1, <1>2 DEF CInv, PastType
<1>13. Together'
  BY <1>1, <1>7, <1>12, IInvParts DEF Together
<1>14. ASSUME NEW u \in kept PROVE Final(u)'
  <2>1. Final(u) /\ u \in Txns
    BY <1>2, IInvParts DEF CInv
  <2>2. u # t /\ Members(u)' = Members(u)
    <3>1. Members(u) # {}
      BY <2>1, NotNone DEF Final
    <3> QED BY <1>1, <2>1, <3>1
  <2>3. con'[c].txn = t
    BY <1>1, <1>2, Bounds DEF ConType
  <2>4. NeedsSuper(Members(u))' /\ \A d \in Members(u)' : u \in Included(d)'
    BY <1>7, <1>12, <2>1, <2>2 DEF Final
  <2>5. \A f \in Conns : con'[f].pc \in Committing => con'[f].txn # u
    BY <1>1, <2>1, <2>2, <2>3 DEF Final
  <2> QED BY <2>4, <2>5 DEF Final
<1> QED BY <1>2, <1>9, <1>10, <1>11, <1>13, <1>14 DEF FInv

-----------------------------------------------------------------------------
(* The power fails.  A transaction that is just being decided is in all of *)
(* its databases if its super-journal is found no more, and else in none.  *)

LEMMA PowerState ==
  ASSUME Deletes, IInv, PowerFailure
  PROVE  /\ CInv /\ Power /\ past' = past /\ setting' = setting /\ kept' = kept
         /\ \A c \in Conns : con'[c].pc = "idle"
         /\ \A d \in Dbs : /\ db'[d].now \in X(d) /\ jrnl'[d].now \in J(d)
                           /\ X(d)' = {db'[d].now} /\ J(d)' = {jrnl'[d].now}
         /\ \A s \in Txns : super'[s].now \in G(s) /\ G(s)' = {super'[s].now}
<1>1. CInv /\ Power /\ past' = past /\ setting' = setting /\ kept' = kept
  BY FaultIs, IInvParts DEF PowerFailure
<1>2. \A c \in Conns : con'[c].pc = "idle"
  BY DEF PowerFailure, Idle
<1>3. PICK x : /\ \A d \in Dbs : x[d] \in db[d].may
               /\ db' = [d \in Dbs |-> File(x[d])]
  BY <1>1, PowerLeaves
<1>4. PICK y : /\ \A d \in Dbs : y[d] \in jrnl[d].may
               /\ jrnl' = [d \in Dbs |-> File(y[d])]
  BY <1>1, PowerLeaves
<1>5. PICK z : /\ \A s \in Txns : z[s] \in super[s].may
               /\ super' = [s \in Txns |-> File(z[s])]
  BY <1>1, PowerLeaves
<1>6. \A v : File(v).now = v /\ Remains(File(v)) = {v}
  BY DEF File, Remains
<1>7. \A d \in Dbs : /\ x[d] \in X(d) /\ y[d] \in J(d)
                     /\ db'[d].now = x[d] /\ jrnl'[d].now = y[d]
                     /\ X(d)' = {x[d]} /\ J(d)' = {y[d]}
  BY <1>1, <1>3, <1>4, <1>6, RemainsIs, NextRemains
<1>8. \A s \in Txns : z[s] \in G(s) /\ super'[s].now = z[s] /\ G(s)' = {z[s]}
  BY <1>1, <1>5, <1>6, RemainsIs, NextRemains
<1> QED BY <1>1, <1>2, <1>7, <1>8

(* The databases of a transaction that is just being decided.              *)
LEMMA DecidingIs ==
  ASSUME IInv, NEW s, Deciding(s), NEW e \in Dbs, e \in Members(s)
  PROVE  /\ s \in Txns /\ J(e) = {jrnl[e].now} /\ jrnl[e].now.name = s /\ Live(jrnl[e].now)
         /\ jrnl[e].now.head \in Values(e)
         /\ s \notin In(jrnl[e].now.head, e)
         /\ Included(e) = In(jrnl[e].now.head, e) \cup {s}
<1>1. PICK c \in Conns : con[c].pc = "syncDir" /\ con[c].super = s
  BY DEF Deciding
<1>2. s \in Txns /\ e \in con[c].dbs /\ con[c].txn = s /\ Holds(con[c]) = con[c].dbs /\ CInv
  BY <1>1, SuperIs, IInvParts
<1>3. PICK h : h = jrnl[e].now.head
  OBVIOUS
<1>4. /\ J(e) = {jrnl[e].now} /\ Live(jrnl[e].now) /\ jrnl[e].now.name = s
      /\ db[e].now = s /\ h \in Values(e)
  BY <1>1, <1>2, <1>3, Unlinking
<1>5. super[s].now = NoSuper
  BY <1>1, IInvParts DEF Known, SuperOf
<1>6. Content(e) = s
  BY <1>2, <1>4, <1>5 DEF Content, IsCold, NoSuper, NoName, Txns
<1>7. s \notin In(h, e) /\ past[s][e] = In(h, e) \cup {s}
  BY <1>1, <1>2, <1>3, IInvParts DEF Known, Adds
<1>8. Included(e) = In(h, e) \cup {s}
  BY <1>2, <1>6, <1>7 DEF Included
<1> QED BY <1>2, <1>3, <1>4, <1>7, <1>8

LEMMA FPower ==
  ASSUME Deletes, IInv, PowerFailure
  PROVE  FInv'
<1>1. /\ CInv /\ past' = past /\ setting' = setting /\ kept' = kept
      /\ \A c \in Conns : con'[c].pc = "idle"
  BY PowerState
<1>0. PICK x, y, z : /\ x = [d \in Dbs |-> db'[d].now] /\ y = [d \in Dbs |-> jrnl'[d].now]
                     /\ z = [s \in Txns |-> super'[s].now]
  OBVIOUS
<1>2. /\ \A d \in Dbs : /\ x[d] \in X(d) /\ y[d] \in J(d)
                        /\ db'[d].now = x[d] /\ jrnl'[d].now = y[d]
                        /\ X(d)' = {x[d]} /\ J(d)' = {y[d]}
      /\ \A s \in Txns : z[s] \in G(s) /\ super'[s].now = z[s] /\ G(s)' = {z[s]}
  BY <1>0, PowerState
<1>3. \A d : /\ Values(d)' = Values(d) /\ \A v : Multi(v, d)' = Multi(v, d)
             /\ \A t : Members(t)' = Members(t)
             /\ \A v : In(v, d)' = In(v, d)
  BY <1>1 DEF Values, Multi, In, Members
<1>4. ASSUME NEW d \in Dbs
      PROVE  \E b \in MayBeThere(y[d].name) :
               /\ b = ~IsCold(y[d])' /\ Content(d)' = Found(y[d], x[d], b)
               /\ \A g \in MayBeThere(y[d].name)' : g = b
               /\ y[d].name # NoName => b = z[y[d].name].there
  <2>1. y[d].name \in 0 .. MaxTxns
    BY <1>1, <1>2, RemainsIs DEF JournalsOf
  <2>2. Content(d)' = Found(y[d], x[d], ~IsCold(y[d])')
    BY <1>2 DEF Content, Found, Live, IsCold
  <2>3. CASE y[d].name = NoName
    BY <2>2, <2>3 DEF MayBeThere, IsCold
  <2>4. CASE y[d].name # NoName
    <3>1. PICK s \in Txns : s = y[d].name
      BY <2>1, <2>4 DEF Txns, NoName
    <3>2. z[s] \in G(s) /\ super'[s].now = z[s] /\ G(s)' = {z[s]} /\ z[s].there \in BOOLEAN
      BY <1>1, <1>2, RemainsIs DEF Supers
    <3>3. PICK b : b = z[s].there
      OBVIOUS
    <3>4. b = ~IsCold(y[d])'
      BY <2>4, <3>1, <3>2, <3>3 DEF IsCold
    <3>5. b \in MayBeThere(y[d].name) /\ \A g \in MayBeThere(y[d].name)' : g = b
      BY <2>4, <3>1, <3>2, <3>3 DEF MayBeThere
    <3>6. Content(d)' = Found(y[d], x[d], b) /\ b = z[y[d].name].there
      BY <2>2, <3>1, <3>3, <3>4
    <3> QED BY <3>4, <3>5, <3>6, Zenon
  <2> QED BY <2>3, <2>4
<1>5. ASSUME NEW d \in Dbs
      PROVE  /\ Content(d)' \in Values(d)
             /\ \/ Multi(Content(d)', d) = Multi(Content(d), d)
                \/ y[d].name # NoName /\ z[y[d].name].there /\ Deciding(y[d].name)
  <2>1. PICK b \in MayBeThere(y[d].name) :
               /\ Content(d)' = Found(y[d], x[d], b)
               /\ y[d].name # NoName => b = z[y[d].name].there
    BY <1>4
  <2>2. PICK v : v = Content(d)'
    OBVIOUS
  <2>3. v \in Values(d) /\ (Multi(v, d) = Multi(Content(d), d) \/ (b /\ Deciding(y[d].name)))
    BY <1>2, <2>1, <2>2, IInvParts DEF Sound
  <2>4. Deciding(y[d].name) => y[d].name # NoName
    BY DEF Deciding
  <2> QED BY <2>1, <2>2, <2>3, <2>4
<1>6. ASSUME NEW d \in Dbs PROVE Local(d)'
  <2>1. Shape(d)' /\ Stale(d)' /\ Quiet(d)'
    BY <1>2, <1>3, IInvParts DEF Shape, Stale, Quiet
  <2>2. Names(d)'
    <3>1. ASSUME y[d].name # NoName
          PROVE  /\ d \in Members(y[d].name) /\ (z[y[d].name].there => d \in z[y[d].name].names)
                 /\ super'[y[d].name].now = z[y[d].name] /\ G(y[d].name)' = {z[y[d].name]}
      <4>1. y[d].name \in Txns
        BY <1>1, <1>2, <3>1, RemainsIs DEF JournalsOf, Txns, NoName
      <4> QED BY <1>2, <3>1, <4>1, IInvParts DEF Names
    <3>2. ASSUME NEW j \in J(d)', j.name # NoName
          PROVE  /\ d \in Members(j.name)
                 /\ \A g \in G(j.name)' : /\ g.there => d \in g.names
                                          /\ super'[j.name].now.there => g.there
      <4>1. j = y[d]
        BY <1>2, <3>2
      <4>2. /\ d \in Members(j.name) /\ (z[j.name].there => d \in z[j.name].names)
            /\ super'[j.name].now = z[j.name] /\ G(j.name)' = {z[j.name]}
        BY <3>1, <3>2, <4>1
      <4>3. ASSUME NEW g \in G(j.name)'
            PROVE  (g.there => d \in g.names) /\ (super'[j.name].now.there => g.there)
        BY <4>2
      <4> QED BY <4>2, <4>3
    <3> QED BY <1>3, <3>2 DEF Names
  <2>3. Sound(d)'
    <3>1. \A g \in MayBeThere(y[d].name)' : Found(y[d], x[d], g) = Content(d)'
      BY <1>4
    <3>2. \A j \in J(d)', v \in X(d)' : j = y[d] /\ v = x[d]
      BY <1>2
    <3> QED BY <1>3, <1>5, <3>1, <3>2 DEF Sound
  <2> QED BY <2>1, <2>2, <2>3 DEF Local
<1>7. ASSUME NEW t \in Txns, NeedsSuper(Members(t)), NEW e \in Dbs, e \in Members(t)
      PROVE  t \in Included(e)' <=> t \in Included(e) /\ ~(Deciding(t) /\ z[t].there)
  <2>1. PICK v : v = Content(e)'
    OBVIOUS
  <2>2. Included(e)' = In(v, e) /\ Included(e) = In(Content(e), e)
    BY <1>1, <2>1 DEF Included, In
  <2>3. Deciding(t) => y[e].name = t /\ t # NoName
    BY <1>2, <1>7, DecidingIs DEF Deciding
  <2>4. CASE Multi(v, e) = Multi(Content(e), e)
             /\ ~(y[e].name # NoName /\ z[y[e].name].there /\ Deciding(y[e].name))
    <3>1. t \in Included(e)' <=> t \in Included(e)
      BY <1>7, <2>2, <2>4 DEF Multi
    <3> QED BY <2>3, <2>4, <3>1
  <2>5. CASE y[e].name # NoName /\ z[y[e].name].there /\ Deciding(y[e].name)
    <3>1. PICK s : s = y[e].name
      OBVIOUS
    <3>2. e \in Members(s)
      BY <1>2, <2>5, <3>1, IInvParts DEF Names
    <3>3. /\ s \in Txns /\ J(e) = {jrnl[e].now} /\ Live(jrnl[e].now)
          /\ s \notin In(jrnl[e].now.head, e)
          /\ Included(e) = In(jrnl[e].now.head, e) \cup {s}
      BY <2>5, <3>1, <3>2, DecidingIs
    <3>4. v = jrnl[e].now.head
      <4>1. y[e] = jrnl[e].now /\ Live(y[e])
        BY <1>2, <3>3
      <4>2. PICK b \in MayBeThere(y[e].name) :
              v = Found(y[e], x[e], b) /\ b = z[y[e].name].there
        BY <1>4, <2>1, <2>5
      <4> QED BY <2>5, <4>1, <4>2 DEF Found
    <3> QED BY <2>2, <2>3, <2>5, <3>1, <3>3, <3>4
  <2> QED BY <1>5, <2>1, <2>4, <2>5
<1>8. \A t \in Txns : Members(t)' = Members(t) /\ Members(t) \subseteq Dbs
  BY <1>1, <1>3 DEF CInv, PastType
<1>9. Together'
  BY <1>7, <1>8, IInvParts DEF Together
<1>10. ASSUME NEW t \in kept PROVE Final(t)'
  <2>1. Final(t) /\ t \in Txns
    BY <1>1, IInvParts DEF CInv
  <2>2. ~Deciding(t)
    <3>1. ASSUME NEW c \in Conns, con[c].pc = "syncDir", con[c].super = t
          PROVE  FALSE
      BY <1>1, <2>1, <3>1, SuperIs DEF Final
    <3> QED BY <3>1 DEF Deciding
  <2>3. \A d \in Members(t) : t \in Included(d)'
    BY <1>7, <1>8, <2>1, <2>2 DEF Final
  <2> QED BY <1>1, <1>8, <2>1, <2>3 DEF Final
<1>11. \A c \in Conns : Known(con[c])'
  BY <1>1, NothingToKnow
<1> QED BY <1>1, <1>6, <1>9, <1>10, <1>11 DEF FInv

-----------------------------------------------------------------------------
(* The invariant.                                                          *)

LEMMA FInit ==
  ASSUME Init
  PROVE  FInv
<1>1. CInv
  BY CInit
<1>2. \A d \in Dbs : /\ jrnl[d].now = NoJournal /\ J(d) = {NoJournal}
                     /\ db[d].now = 0 /\ X(d) = {0}
  BY DEF Init, J, X, Remains, File
<1>3. NoJournal.name = NoName /\ ~Live(NoJournal) /\ NoJournal.len = 0
  BY DEF NoJournal, Live
<1>4. ASSUME NEW d \in Dbs PROVE Local(d) /\ Content(d) = 0
  <2>1. Content(d) = 0
    BY <1>2, <1>3, ContentIs
  <2>2. Shape(d) /\ Names(d) /\ Stale(d) /\ Quiet(d)
    BY <1>2, <1>3 DEF Shape, Names, Stale, Quiet
  <2>3. Sound(d)
    BY <1>2, <1>3, <2>1 DEF Sound, Found, Values
  <2> QED BY <2>1, <2>2, <2>3 DEF Local
<1>5. ASSUME NEW c \in Conns PROVE Known(con[c])
  <2>1. PICK w : w = con[c]
    OBVIOUS
  <2>2. w.pc = "idle"
    BY <2>1 DEF Init, Idle
  <2>3. Journalled(w) /\ Written(w) /\ Adds(w)
    BY <2>2 DEF Journalled, Ahead, Written, Behind, Adds
  <2>4. SuperOf(w) /\ Restored(w)
    BY <2>2 DEF SuperOf, Restored
  <2> QED BY <2>1, <2>3, <2>4 DEF Known
<1>6. \A d \in Dbs : Included(d) = {}
  BY <1>4 DEF Included, Txns
<1>7. \A t \in Txns : Members(t) \subseteq Dbs
  BY <1>1 DEF CInv, PastType
<1>8. Together
  BY <1>6, <1>7 DEF Together
<1> QED BY <1>4, <1>5, <1>8 DEF FInv, Init

LEMMA FStutter ==
  ASSUME IInv, UNCHANGED vars
  PROVE  FInv'
<1>1. /\ db' = db /\ jrnl' = jrnl /\ super' = super /\ con' = con /\ past' = past
      /\ kept' = kept /\ setting' = setting /\ CInv
  BY IInvParts DEF vars
<1>2. \A s : Quietly(s)
  BY <1>1 DEF Quietly, Deciding
<1>3. \A d \in Dbs : Local(d)' /\ Multi(Content(d), d)' = Multi(Content(d), d)
  BY <1>1, <1>2, IInvParts, LocalStays
<1>4. Together' /\ \A t \in kept : Final(t)'
  BY <1>1, <1>3, KeepsTogether
<1>5. ASSUME NEW c \in Conns PROVE Known(con[c])'
  <2>1. PICK w : w = con[c]
    OBVIOUS
  <2>2. con'[c] = w /\ Known(w)
    BY <1>1, <2>1, IInvParts
  <2>3. /\ \A d : J(d)' = J(d) /\ X(d)' = X(d) /\ Content(d)' = Content(d)
        /\ \A s : G(s)' = G(s) /\ Members(s)' = Members(s)
    BY <1>1 DEF J, X, G, Remains, Content, IsCold, Members
  <2>4. Journalled(w)' /\ Written(w)'
    BY <1>1, <2>2, <2>3 DEF Known, Journalled, Written
  <2>5. Adds(w)'
    BY <1>1, <2>2 DEF Known, Adds, In
  <2>6. SuperOf(w)'
    BY <1>1, <2>2, <2>3 DEF Known, SuperOf
  <2>7. Restored(w)'
    BY <1>1, <2>2, <2>3 DEF Known, Restored
  <2> QED BY <2>2, <2>4, <2>5, <2>6, <2>7
          DEF Known, Journalled, Written, Adds, SuperOf, Restored
<1> QED BY <1>1, <1>3, <1>4, <1>5 DEF FInv

LEMMA FStep ==
  ASSUME Deletes, IInv, [Next]_vars
  PROVE  FInv'
<1>1. CInv
  BY IInvParts
<1>2. ASSUME NEW c \in Conns, Commit(c) PROVE FInv'
  <2>1. CASE BeginCommit(c)
    BY <2>1, FBeginCommit
  <2>2. CASE CreateSuper(c)
    BY <1>1, <2>2, CCreateSuper, FCreateSuper
  <2>3. CASE SyncSuper(c)
    BY <1>1, <2>3, CSyncSuper, FSyncSuper
  <2>4. CASE JournalSuper(c)
    BY <1>1, <2>4, CJournalSuper, FJournalSuper
  <2>5. CASE SyncJournal(c)
    BY <1>1, <2>5, CSyncJournal, FSyncJournal
  <2>6. CASE WritePages(c)
    BY <1>1, <2>6, CWritePages, FWritePages
  <2>7. CASE SyncDb(c)
    BY <1>1, <2>7, CSyncDb, FSyncDb
  <2>8. CASE DeleteSuper(c)
    BY <1>1, <2>8, CDeleteSuper, FDeleteSuper
  <2>9. CASE SyncDir(c)
    BY <1>1, <2>9, CSyncDir, FSyncDir
  <2>10. CASE EndJournal(c)
    BY <1>1, <2>10, CEndJournal, FEndJournal
  <2> QED BY <1>2, <2>1, <2>2, <2>3, <2>4, <2>5, <2>6, <2>7, <2>8, <2>9, <2>10 DEF Commit
<1>3. ASSUME NEW c \in Conns, RollingBack(c) PROVE FInv'
  <2>1. CASE Rollback(c)
    BY <1>1, <2>1, CRollback, FRollback
  <2>2. CASE Play(c)
    BY <1>1, <2>2, CPlay, FPlay
  <2>3. CASE SyncRestored(c)
    BY <1>1, <2>3, CSyncRestored, FSyncRestored
  <2>4. CASE EndRollback(c)
    BY <1>1, <2>4, CEndRollback, FEndRollback
  <2>5. CASE CheckChild(c)
    BY <1>1, <2>5, CCheckChild, FCheckChild
  <2>6. CASE DelSuper(c)
    BY <1>1, <2>6, CDelSuper, FDelSuper
  <2>7. CASE NextRollback(c)
    BY <1>1, <2>7, CNextRollback, FNextRollback
  <2> QED BY <1>3, <2>1, <2>2, <2>3, <2>4, <2>5, <2>6, <2>7 DEF RollingBack
<1>4. ASSUME NEW c \in Conns, NEW d \in Dbs, NEW n \in 1 .. MaxRecs, Write(c, d, n)
      PROVE  FInv'
  BY <1>1, <1>4, CWrite, FWrite
<1>5. ASSUME NEW c \in Conns, NEW d \in Dbs, Spill(c, d) PROVE FInv'
  BY <1>5, FSpill
<1>6. ASSUME NEW c \in Conns, NEW d \in Dbs, Recover(c, d) PROVE FInv'
  BY <1>1, <1>6, CRecover, FRecover
<1>7. ASSUME NEW c \in Conns, IoError(c) PROVE FInv'
  BY <1>1, <1>7, CIoError, FIoError
<1>8. ASSUME NEW c \in Conns, Die(c) PROVE FInv'
  BY <1>1, <1>8, CDie, FDie
<1>9. CASE UNCHANGED vars
  BY <1>9, FStutter
<1>10. CASE PowerFailure
  BY <1>10, FPower
<1> QED BY <1>2, <1>3, <1>4, <1>5, <1>6, <1>7, <1>8, <1>9, <1>10 DEF Next

(* Where journals are deleted, and either processes die and calls fail or  *)
(* the power does, IInv holds in every state.                              *)
THEOREM Invariance == ASSUME Deletes PROVE Spec => []IInv
<1>1. Init => IInv
  BY CInit, FInit DEF IInv
<1>2. IInv /\ [Next]_vars => IInv'
  <2> SUFFICES ASSUME IInv, [Next]_vars PROVE IInv'
    OBVIOUS
  <2>1. CInv'
    BY CStep, IInvParts
  <2>2. FInv'
    BY FStep
  <2> QED BY <2>1, <2>2 DEF IInv
<1> QED BY <1>1, <1>2, PTL DEF Spec

(* A commit of vdbeCommit is in all of its databases or in none, and none  *)
(* of them holds a part of it, after any number of deaths and failing      *)
(* calls, or of power failures, and after any recovery of some of them by  *)
(* connections that do not know of the others.                             *)
THEOREM CommitIsAtomic == ASSUME Deletes PROVE Spec => []AllOrNothing
<1>1. IInv => AllOrNothing
  <2> SUFFICES ASSUME IInv PROVE AllOrNothing
    OBVIOUS
  <2>1. \A d \in Dbs : Content(d) # Torn
    BY ContentValue DEF Values, Txns, Torn
  <2>2. ASSUME NEW t \in Txns, NEW d \in Members(t), NEW e \in Members(t), t \in Included(d)
        PROVE  t \in Included(e)
    <3>1. Members(t) \subseteq Dbs
      BY IInvParts DEF CInv, PastType
    <3>2. CASE NeedsSuper(Members(t))
      BY <2>2, <3>2, IInvParts DEF Together
    <3>3. CASE ~NeedsSuper(Members(t))
      <4>1. Members(t) = {d}
        BY <3>1, <3>3, OneDatabase
      <4> QED BY <2>2, <4>1
    <3> QED BY <3>2, <3>3
  <2> QED BY <2>1, <2>2 DEF AllOrNothing
<1> QED BY <1>1, Invariance, PTL

(* Once vdbeCommit has returned from a commit with a super-journal, its    *)
(* transaction stays in all of its databases, whoever dies and whatever    *)
(* the power failures leave of the files.                                  *)
THEOREM CommitIsFinal == ASSUME Deletes PROVE Spec => []MultiFileCommitIsFinal
<1>1. IInv => MultiFileCommitIsFinal
  BY IInvParts DEF MultiFileCommitIsFinal, Final
<1> QED BY <1>1, Invariance, PTL
=============================================================================
