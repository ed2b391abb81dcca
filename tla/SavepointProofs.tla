--------------------------- MODULE SavepointProofs --------------------------
(***************************************************************************)
(* For any number of pages, savepoints and changes: a playback that undoes *)
(* a savepoint never meets a header of the journal where it expects a      *)
(* record, the variables have their types, and a page is in the            *)
(* sub-journal only if the main journal has it or it is new.  The          *)
(* invariant relates where a savepoint was opened to the segments of the   *)
(* journal.                                                                *)
(***************************************************************************)
EXTENDS Savepoint, SequenceTheorems, WellFoundedInduction, TLAPS

-----------------------------------------------------------------------------
(* What every state of the pager keeps to: struct Pager and its pages.     *)

IsSeq(x) == x \in Seq({x[k] : k \in 1 .. Len(x)})

Page(g) ==
    /\ g \in [val : {g.val}, dirty : BOOLEAN, needSync : BOOLEAN, writeable : BOOLEAN,
              dontWrite : BOOLEAN]
    /\ g.writeable => g.dirty

Fields(s) ==
    s \in [eState : {"READER", "LOCKED", "CACHEMOD", "DBMOD"},
           dbSize : 1 .. MaxPage, dbOrigSize : 1 .. MaxPage, dbFileSize : {s.dbFileSize},
           cache : {s.cache}, journal : {s.journal}, journalHdr : {s.journalHdr},
           pInJournal : {s.pInJournal}, pHasContent : {s.pHasContent},
           hasContentSize : {s.hasContentSize}, aSavepoint : {s.aSavepoint},
           subjournal : {s.subjournal}, pWal : {s.pWal}]

Pages(s) ==
    /\ s.cache = [p \in DOMAIN s.cache |-> s.cache[p]]
    /\ 1 \in DOMAIN s.cache /\ DOMAIN s.cache \subseteq 1 .. MaxPage
    /\ \A p \in DOMAIN s.cache : Page(s.cache[p])

(* Nothing has been changed before the journal is open. *)
Idle(s) == s.eState \in {"READER", "LOCKED"}

Untouched(s) ==
    Idle(s) => /\ s.journal = <<>> /\ s.subjournal = <<>>
               /\ \A p \in DOMAIN s.cache : ~s.cache[p].dirty

(* Page p can be brought back from the main journal, or is new: so it is   *)
(* with a page that may be written to, and one that is in the sub-journal. *)
InJournal(s, p) == useWal \/ p \in s.pInJournal \/ p > s.dbOrigSize

Journal(s) ==
    /\ IsSeq(s.journal)
    /\ \A k \in 1 .. Len(s.journal) : s.journal[k].pg \in 0 .. MaxPage
    /\ useWal => s.journal = <<>>

SubJournal(s) ==
    /\ IsSeq(s.subjournal)
    /\ \A k \in 1 .. Len(s.subjournal) : s.subjournal[k].pg \in 1 .. MaxPage

AllInJournal(s) ==
    /\ \A p \in DOMAIN s.cache : s.cache[p].writeable => InJournal(s, p)
    /\ \A k \in 1 .. Len(s.subjournal) : InJournal(s, s.subjournal[k].pg)

(* No header is between where a savepoint was opened and the end of that   *)
(* segment of the journal (PagerSavepoint.iOffset, iHdrOffset).            *)
SavepointRec(sp) ==
    sp \in [nOrig : 1 .. MaxPage, iOffset : Nat \ {0}, iHdrOffset : Nat, iSubRec : Nat,
            pInSavepoint : {sp.pInSavepoint}, bTruncateOnRelease : BOOLEAN,
            aWalData : {sp.aWalData}]

OffsetsFit(s, sp) ==
    /\ sp.iHdrOffset <= Len(s.journal) /\ sp.iSubRec <= Len(s.subjournal)
    /\ \A k \in 1 .. Len(s.journal) :
          k > sp.iOffset /\ (sp.iHdrOffset = 0 \/ k <= sp.iHdrOffset) => s.journal[k].pg # 0

Savepoints(s) ==
    /\ IsSeq(s.aSavepoint) /\ Len(s.aSavepoint) <= MaxSavepoints
    /\ \A i \in 1 .. Len(s.aSavepoint) :
          SavepointRec(s.aSavepoint[i]) /\ OffsetsFit(s, s.aSavepoint[i])
    /\ \A i, j \in 1 .. Len(s.aSavepoint) :
          i <= j => s.aSavepoint[i].iSubRec <= s.aSavepoint[j].iSubRec

Good(s) ==
    /\ Fields(s) /\ Pages(s) /\ Untouched(s) /\ Journal(s) /\ SubJournal(s)
    /\ AllInJournal(s) /\ Savepoints(s)

GoodFile(file) == IsSeq(file) /\ Len(file) <= MaxPage

IInv == Good(pager) /\ GoodFile(db)

-----------------------------------------------------------------------------
(* Sequences of records whose content is of no concern.                    *)

LEMMA SomeSeq ==
    ASSUME NEW S, NEW x \in Seq(S)
    PROVE  IsSeq(x) /\ Len(x) \in Nat /\ DOMAIN x = 1 .. Len(x)
  BY DEF IsSeq

LEMMA LenOf ==
    ASSUME NEW x, IsSeq(x)
    PROVE  Len(x) \in Nat /\ DOMAIN x = 1 .. Len(x)
  BY SomeSeq DEF IsSeq

LEMMA NoneSeq == IsSeq(<<>>) /\ Len(<<>>) = 0
<1>1. <<>> \in Seq({}) /\ Len(<<>>) = 0
  OBVIOUS
<1>2. \A x \in Seq({}) : IsSeq(x)
  BY SomeSeq
<1> QED BY <1>1, <1>2, Zenon

LEMMA SeqFrom ==
    ASSUME NEW n \in Nat, NEW x, DOMAIN x = 1 .. n, x = [k \in DOMAIN x |-> x[k]]
    PROVE  IsSeq(x) /\ Len(x) = n
<1> DEFINE S == {x[k] : k \in 1 .. n}
<1>1. x \in [1 .. n -> S]
  OBVIOUS
<1>2. x \in Seq(S) /\ Len(x) = n
  BY <1>1
<1> QED BY <1>2, SomeSeq

LEMMA AppendIs ==
    ASSUME NEW x, IsSeq(x), NEW e
    PROVE  /\ IsSeq(Append(x, e)) /\ Len(Append(x, e)) = Len(x) + 1 /\ Len(x) \in Nat
           /\ \A k \in 1 .. Len(x) : Append(x, e)[k] = x[k]
           /\ Append(x, e)[Len(x) + 1] = e
<1> DEFINE S == {x[k] : k \in 1 .. Len(x)} \cup {e}
<1>1. x \in Seq(S) /\ e \in S
  BY DEF IsSeq
<1>2. /\ Append(x, e) \in Seq(S) /\ Len(Append(x, e)) = Len(x) + 1 /\ Len(x) \in Nat
      /\ \A k \in 1 .. Len(x) : Append(x, e)[k] = x[k]
      /\ Append(x, e)[Len(x) + 1] = e
  <2> HIDE DEF S
  <2> QED BY <1>1
<1> HIDE DEF S
<1> QED BY <1>2, SomeSeq

LEMMA SubSeqIs ==
    ASSUME NEW x, IsSeq(x), NEW n \in 0 .. Len(x)
    PROVE  /\ IsSeq(SubSeq(x, 1, n)) /\ Len(SubSeq(x, 1, n)) = n
           /\ \A k \in 1 .. n : SubSeq(x, 1, n)[k] = x[k]
<1> DEFINE S == {x[k] : k \in 1 .. Len(x)}
<1>1. x \in Seq(S)
  BY DEF IsSeq
<1>2. /\ SubSeq(x, 1, n) \in Seq(S) /\ Len(SubSeq(x, 1, n)) = n
      /\ \A k \in 1 .. n : SubSeq(x, 1, n)[k] = x[k]
  <2> HIDE DEF S
  <2>1. Len(x) \in Nat /\ n \in Nat /\ n <= Len(x)
    BY <1>1
  <2> QED BY <1>1, <2>1, SubSeqProperties
<1> QED BY <1>2, SomeSeq

-----------------------------------------------------------------------------
(* The savepoints, with offsets that still fit.                            *)

SameSavepoints(s, t) ==
    /\ IsSeq(t.aSavepoint) /\ Len(t.aSavepoint) = Len(s.aSavepoint)
    /\ \A i \in 1 .. Len(s.aSavepoint) :
          /\ SavepointRec(t.aSavepoint[i])
          /\ t.aSavepoint[i].iOffset = s.aSavepoint[i].iOffset
          /\ t.aSavepoint[i].iHdrOffset = s.aSavepoint[i].iHdrOffset
          /\ t.aSavepoint[i].iSubRec = s.aSavepoint[i].iSubRec

(* The journal y is x, or x with more records and no more headers. *)
MoreRecords(x, y) ==
    /\ IsSeq(x) /\ IsSeq(y) /\ Len(x) <= Len(y)
    /\ \A k \in 1 .. Len(x) : y[k] = x[k]
    /\ \A k \in Len(x) + 1 .. Len(y) : y[k].pg # 0

LEMMA SameIsSame ==
    ASSUME NEW s, Savepoints(s), NEW t, t.aSavepoint = s.aSavepoint
    PROVE  SameSavepoints(s, t)
  BY DEF Savepoints, SameSavepoints

LEMMA SavepointsKept ==
    ASSUME NEW s, Savepoints(s), NEW t, SameSavepoints(s, t),
           MoreRecords(s.journal, t.journal),
           IsSeq(s.subjournal), IsSeq(t.subjournal), Len(s.subjournal) <= Len(t.subjournal)
    PROVE  Savepoints(t)
<1> DEFINE n == Len(s.aSavepoint)
<1>1. n \in Nat /\ n <= MaxSavepoints /\ IsSeq(t.aSavepoint) /\ Len(t.aSavepoint) = n
  BY LenOf DEF Savepoints, SameSavepoints
<1>2. /\ Len(s.journal) \in Nat /\ Len(t.journal) \in Nat
      /\ Len(s.subjournal) \in Nat /\ Len(t.subjournal) \in Nat
  BY LenOf DEF MoreRecords
<1>3. ASSUME NEW i \in 1 .. n
      PROVE  SavepointRec(t.aSavepoint[i]) /\ OffsetsFit(t, t.aSavepoint[i])
  <2> DEFINE sp == s.aSavepoint[i]
             tp == t.aSavepoint[i]
  <2>1. /\ SavepointRec(sp) /\ SavepointRec(tp) /\ OffsetsFit(s, sp)
        /\ tp.iOffset = sp.iOffset /\ tp.iHdrOffset = sp.iHdrOffset /\ tp.iSubRec = sp.iSubRec
    BY <1>3 DEF Savepoints, SameSavepoints
  <2>2. sp.iOffset \in Nat /\ sp.iHdrOffset \in Nat /\ sp.iSubRec \in Nat
    BY <2>1 DEF SavepointRec
  <2> HIDE DEF sp, tp
  <2>3. tp.iHdrOffset <= Len(t.journal) /\ tp.iSubRec <= Len(t.subjournal)
    BY <2>1, <2>2, <1>2 DEF OffsetsFit, MoreRecords
  <2>4. ASSUME NEW k \in 1 .. Len(t.journal), k > tp.iOffset,
               tp.iHdrOffset = 0 \/ k <= tp.iHdrOffset
        PROVE  t.journal[k].pg # 0
    <3>1. CASE k \in 1 .. Len(s.journal)
      BY <3>1, <2>1, <2>4 DEF OffsetsFit, MoreRecords
    <3>2. CASE k \notin 1 .. Len(s.journal)
      <4>1. k \in Len(s.journal) + 1 .. Len(t.journal)
        BY <3>2, <1>2
      <4> QED BY <4>1 DEF MoreRecords
    <3> QED BY <3>1, <3>2
  <2>5. OffsetsFit(t, tp)
    BY <2>3, <2>4 DEF OffsetsFit
  <2> QED BY <2>1, <2>5 DEF sp, tp
<1>4. ASSUME NEW i \in 1 .. n, NEW j \in 1 .. n, i <= j
      PROVE  t.aSavepoint[i].iSubRec <= t.aSavepoint[j].iSubRec
  BY <1>4 DEF Savepoints, SameSavepoints
<1> HIDE DEF n
<1> QED BY <1>1, <1>3, <1>4 DEF Savepoints

LEMMA NoMoreRecords ==
    ASSUME NEW x, IsSeq(x)
    PROVE  MoreRecords(x, x)
  BY LenOf DEF MoreRecords

LEMMA OneMoreRecord ==
    ASSUME NEW x, IsSeq(x), NEW r, r.pg # 0
    PROVE  MoreRecords(x, Append(x, r))
<1>1. /\ IsSeq(Append(x, r)) /\ Len(Append(x, r)) = Len(x) + 1 /\ Len(x) \in Nat
      /\ \A k \in 1 .. Len(x) : Append(x, r)[k] = x[k]
      /\ Append(x, r)[Len(x) + 1] = r
  BY AppendIs
<1> QED BY <1>1 DEF MoreRecords

(* Good of a pager that has another cache. *)
LEMMA CacheGood ==
    ASSUME NEW s, Good(s), NEW t, Fields(t), Pages(t),
           t.eState = s.eState, t.dbOrigSize = s.dbOrigSize, t.journal = s.journal,
           t.pInJournal = s.pInJournal, t.aSavepoint = s.aSavepoint,
           t.subjournal = s.subjournal,
           Idle(s) => \A p \in DOMAIN t.cache : ~t.cache[p].dirty,
           \A p \in DOMAIN t.cache : t.cache[p].writeable => InJournal(s, p)
    PROVE  Good(t)
<1>1. Untouched(t)
  BY DEF Good, Untouched, Idle
<1>2. Journal(t) /\ SubJournal(t)
  BY DEF Good, Journal, SubJournal
<1>3. AllInJournal(t)
  BY DEF Good, AllInJournal, InJournal
<1>4. Savepoints(t)
  <2>1. Savepoints(s) /\ IsSeq(s.journal) /\ IsSeq(s.subjournal)
    BY DEF Good, Journal, SubJournal
  <2>2. SameSavepoints(s, t) /\ MoreRecords(s.journal, t.journal)
    BY <2>1, SameIsSame, NoMoreRecords
  <2>3. Len(s.subjournal) \in Nat
    BY <2>1, LenOf
  <2> QED BY <2>1, <2>2, <2>3, SavepointsKept
<1> QED BY <1>1, <1>2, <1>3, <1>4 DEF Good

-----------------------------------------------------------------------------
(* One page of the cache.                                                  *)

OnlyCache(s, t) == t = [s EXCEPT !.cache = t.cache]

LEMMA OthersSame ==
    ASSUME NEW s, Fields(s), NEW t, OnlyCache(s, t)
    PROVE  /\ Fields(t)
           /\ t.eState = s.eState /\ t.dbSize = s.dbSize /\ t.dbOrigSize = s.dbOrigSize
           /\ t.journal = s.journal /\ t.pInJournal = s.pInJournal
           /\ t.aSavepoint = s.aSavepoint /\ t.subjournal = s.subjournal
<1>1. s = [s EXCEPT !.cache = s.cache]
  BY DEF Fields
<1> DEFINE c == t.cache
<1>2. t = [s EXCEPT !.cache = c]
  BY DEF OnlyCache
<1> HIDE DEF c
<1> QED BY <1>2 DEF Fields

LEMMA PageSet ==
    ASSUME NEW s, Good(s), NEW p \in 1 .. MaxPage, NEW g, Page(g),
           Idle(s) => ~g.dirty, g.writeable => InJournal(s, p)
    PROVE  LET t == SetPage(s, p, g)
           IN  /\ Good(t) /\ OnlyCache(s, t)
               /\ DOMAIN t.cache = DOMAIN s.cache \cup {p} /\ t.cache[p] = g
               /\ \A q \in DOMAIN s.cache : q # p => t.cache[q] = s.cache[q]
<1> DEFINE t == SetPage(s, p, g)
           c == [q \in DOMAIN s.cache \cup {p} |-> IF q = p THEN g ELSE s.cache[q]]
<1>1. Fields(s) /\ Pages(s)
  BY DEF Good
<1>2. t = [s EXCEPT !.cache = c]
  BY DEF SetPage
<1>3. /\ DOMAIN c = DOMAIN s.cache \cup {p} /\ c[p] = g
      /\ \A q \in DOMAIN s.cache : q # p => c[q] = s.cache[q]
      /\ c = [q \in DOMAIN c |-> c[q]]
  OBVIOUS
<1> HIDE DEF c, t
<1>4. t.cache = c
  BY <1>1, <1>2 DEF Fields
<1>5. OnlyCache(s, t)
  BY <1>2, <1>4 DEF OnlyCache
<1>6. Pages(t)
  BY <1>1, <1>3, <1>4 DEF Pages
<1>7. Idle(s) => \A q \in DOMAIN t.cache : ~t.cache[q].dirty
  BY <1>3, <1>4 DEF Good, Untouched
<1>8. \A q \in DOMAIN t.cache : t.cache[q].writeable => InJournal(s, q)
  BY <1>3, <1>4 DEF Good, AllInJournal
<1>9. Good(t)
  BY <1>1, <1>5, <1>6, <1>7, <1>8, OthersSame, CacheGood
<1> QED BY <1>3, <1>4, <1>5, <1>9 DEF t

LEMMA PageChanged ==
    ASSUME NEW s, Good(s), NEW p \in DOMAIN s.cache, NEW g
    PROVE  [s EXCEPT !.cache[p] = g] = SetPage(s, p, g)
<1>1. [s.cache EXCEPT ![p] = g]
         = [q \in DOMAIN s.cache \cup {p} |-> IF q = p THEN g ELSE s.cache[q]]
  BY DEF Good, Pages
<1> QED BY <1>1 DEF SetPage

LEMMA PageOfCache ==
    ASSUME NEW s, Good(s), NEW p \in DOMAIN s.cache
    PROVE  /\ p \in 1 .. MaxPage /\ Page(s.cache[p])
           /\ Idle(s) => ~s.cache[p].dirty
           /\ s.cache[p].writeable => InJournal(s, p)
  BY DEF Good, Pages, Untouched, AllInJournal

LEMMA OneCached ==
    ASSUME NEW s, Good(s)
    PROVE  1 \in DOMAIN s.cache /\ 1 \in 1 .. MaxPage
  BY DEF Good, Pages

(* A page with another content. *)
LEMMA ValueChanged ==
    ASSUME NEW s, Good(s), NEW p \in DOMAIN s.cache, NEW val
    PROVE  LET t == [s EXCEPT !.cache[p].val = val]
           IN  Good(t) /\ OnlyCache(s, t) /\ DOMAIN t.cache = DOMAIN s.cache
<1> DEFINE g == [s.cache[p] EXCEPT !.val = val]
           t == [s EXCEPT !.cache[p].val = val]
<1>1. /\ p \in 1 .. MaxPage /\ Page(s.cache[p])
      /\ Idle(s) => ~s.cache[p].dirty
      /\ s.cache[p].writeable => InJournal(s, p)
  BY PageOfCache
<1>2. Page(g) /\ g.dirty = s.cache[p].dirty /\ g.writeable = s.cache[p].writeable
  <2> DEFINE h == s.cache[p]
  <2>1. /\ h \in [val : {h.val}, dirty : BOOLEAN, needSync : BOOLEAN, writeable : BOOLEAN,
                    dontWrite : BOOLEAN]
        /\ h.writeable => h.dirty
    BY <1>1 DEF Page
  <2> HIDE DEF h
  <2>2. /\ [h EXCEPT !.val = val] \in [val : {val}, dirty : BOOLEAN, needSync : BOOLEAN,
                                       writeable : BOOLEAN, dontWrite : BOOLEAN]
        /\ [h EXCEPT !.val = val].val = val /\ [h EXCEPT !.val = val].dirty = h.dirty
        /\ [h EXCEPT !.val = val].writeable = h.writeable
    BY <2>1
  <2> QED BY <2>1, <2>2 DEF Page, h
<1>3. t = SetPage(s, p, g)
  BY PageChanged
<1> HIDE DEF g, t
<1>4. DOMAIN s.cache \cup {p} = DOMAIN s.cache
  OBVIOUS
<1>5. Idle(s) => ~g.dirty
  BY <1>1, <1>2
<1>6. g.writeable => InJournal(s, p)
  BY <1>1, <1>2
<1>7. Good(t) /\ OnlyCache(s, t) /\ DOMAIN t.cache = DOMAIN s.cache
  <2>1. /\ Good(SetPage(s, p, g)) /\ OnlyCache(s, SetPage(s, p, g))
        /\ DOMAIN SetPage(s, p, g).cache = DOMAIN s.cache \cup {p}
        /\ SetPage(s, p, g).cache[p] = g
    BY <1>1, <1>2, <1>5, <1>6, PageSet
  <2> QED BY <2>1, <1>2, <1>3, <1>4
<1> QED BY <1>7 DEF t

LEMMA CleanPage == \A val : Page(Clean(val)) /\ ~Clean(val).dirty /\ ~Clean(val).writeable
  BY DEF Page, Clean

LEMMA Got ==
    ASSUME NEW s, Good(s), NEW p \in 1 .. MaxPage
    PROVE  /\ Good(Get(s, p)) /\ OnlyCache(s, Get(s, p))
           /\ DOMAIN Get(s, p).cache = DOMAIN s.cache \cup {p}
<1>1. CASE Cached(s, p)
  <2>1. Get(s, p) = s /\ DOMAIN s.cache \cup {p} = DOMAIN s.cache
    BY <1>1 DEF Get, Cached
  <2>2. OnlyCache(s, s)
    BY DEF OnlyCache, Good, Fields
  <2> QED BY <2>1, <2>2
<1>2. CASE ~Cached(s, p)
  <2>1. PICK val : Get(s, p) = SetPage(s, p, Clean(val))
    BY <1>2 DEF Get
  <2> QED BY <2>1, CleanPage, PageSet
<1> QED BY <1>1, <1>2

LEMMA MadeDirty ==
    ASSUME NEW s, Good(s), ~Idle(s), NEW p \in DOMAIN s.cache
    PROVE  LET t == MakeDirty(s, p)
           IN  /\ Good(t) /\ OnlyCache(s, t) /\ DOMAIN t.cache = DOMAIN s.cache
               /\ t.cache[p].dirty
<1> DEFINE g == [s.cache[p] EXCEPT !.dirty = TRUE, !.dontWrite = FALSE]
           t == MakeDirty(s, p)
<1>1. /\ p \in 1 .. MaxPage /\ Page(s.cache[p])
      /\ s.cache[p].writeable => InJournal(s, p)
  BY PageOfCache
<1>2. Page(g) /\ g.dirty /\ g.writeable = s.cache[p].writeable
  BY <1>1 DEF Page
<1>3. t = [s EXCEPT !.cache[p] = g]
  BY DEF MakeDirty, Good, Fields, Pages
<1>4. t = SetPage(s, p, g)
  BY <1>3, PageChanged
<1> HIDE DEF g, t
<1>5. DOMAIN s.cache \cup {p} = DOMAIN s.cache
  OBVIOUS
<1>6. Idle(s) => ~g.dirty
  BY <1>1, <1>2
<1>7. g.writeable => InJournal(s, p)
  BY <1>1, <1>2
<1>8. Good(t) /\ OnlyCache(s, t) /\ DOMAIN t.cache = DOMAIN s.cache /\ t.cache[p].dirty
  <2>1. /\ Good(SetPage(s, p, g)) /\ OnlyCache(s, SetPage(s, p, g))
        /\ DOMAIN SetPage(s, p, g).cache = DOMAIN s.cache \cup {p}
        /\ SetPage(s, p, g).cache[p] = g
    BY <1>1, <1>2, <1>6, <1>7, PageSet
  <2> QED BY <2>1, <1>2, <1>4, <1>5
<1> QED BY <1>8 DEF t

-----------------------------------------------------------------------------
(* The savepoints note a page, or the end of a segment of the journal.     *)

OnlySavepoints(s, t) == t = [s EXCEPT !.aSavepoint = t.aSavepoint]

LEMMA OnlySavepointsIs ==
    ASSUME NEW s, Fields(s), NEW t, OnlySavepoints(s, t)
    PROVE  /\ Fields(t)
           /\ t.eState = s.eState /\ t.dbSize = s.dbSize /\ t.dbOrigSize = s.dbOrigSize
           /\ t.cache = s.cache /\ t.journal = s.journal /\ t.pInJournal = s.pInJournal
           /\ t.subjournal = s.subjournal
<1> DEFINE a == t.aSavepoint
<1>1. t = [s EXCEPT !.aSavepoint = a]
  BY DEF OnlySavepoints
<1> HIDE DEF a
<1> QED BY <1>1 DEF Fields

LEMMA SavepointsGood ==
    ASSUME NEW s, Good(s), NEW t, OnlySavepoints(s, t), SameSavepoints(s, t)
    PROVE  Good(t)
<1>1. /\ Fields(t)
      /\ t.eState = s.eState /\ t.dbSize = s.dbSize /\ t.dbOrigSize = s.dbOrigSize
      /\ t.cache = s.cache /\ t.journal = s.journal /\ t.pInJournal = s.pInJournal
      /\ t.subjournal = s.subjournal
  BY OnlySavepointsIs DEF Good
<1>2. Pages(t) /\ Untouched(t)
  BY <1>1 DEF Good, Pages, Untouched, Idle
<1>3. Journal(t) /\ SubJournal(t) /\ AllInJournal(t)
  BY <1>1 DEF Good, Journal, SubJournal, AllInJournal, InJournal
<1>4. Savepoints(t)
  <2>1. Savepoints(s) /\ IsSeq(s.journal) /\ IsSeq(s.subjournal)
    BY DEF Good, Journal, SubJournal
  <2>2. MoreRecords(s.journal, t.journal) /\ Len(s.subjournal) \in Nat
    BY <2>1, <1>1, NoMoreRecords, LenOf
  <2> QED BY <2>1, <2>2, <1>1, SavepointsKept
<1> QED BY <1>1, <1>2, <1>3, <1>4 DEF Good

(* A savepoint that has changed, its offsets not. *)
OffsetsSame(sp, tp) ==
    \/ tp = sp
    \/ \E v : tp = [sp EXCEPT !.pInSavepoint = v]
    \/ tp = [sp EXCEPT !.bTruncateOnRelease = FALSE]

LEMMA ChangedOneByOne ==
    ASSUME NEW s, Savepoints(s), NEW t, DOMAIN t.aSavepoint = DOMAIN s.aSavepoint,
           t.aSavepoint = [i \in DOMAIN s.aSavepoint |-> t.aSavepoint[i]],
           \A i \in DOMAIN s.aSavepoint : OffsetsSame(s.aSavepoint[i], t.aSavepoint[i])
    PROVE  SameSavepoints(s, t)
<1>1. /\ Len(s.aSavepoint) \in Nat /\ DOMAIN s.aSavepoint = 1 .. Len(s.aSavepoint)
      /\ \A i \in 1 .. Len(s.aSavepoint) : SavepointRec(s.aSavepoint[i])
  BY LenOf DEF Savepoints
<1>2. IsSeq(t.aSavepoint) /\ Len(t.aSavepoint) = Len(s.aSavepoint)
  <2> DEFINE x == t.aSavepoint
             n == Len(s.aSavepoint)
  <2>1. n \in Nat /\ DOMAIN x = 1 .. n /\ x = [i \in DOMAIN x |-> x[i]]
    BY <1>1
  <2> HIDE DEF x, n
  <2>2. IsSeq(x) /\ Len(x) = n
    BY <2>1, SeqFrom
  <2> QED BY <2>2 DEF x, n
<1>3. ASSUME NEW i \in 1 .. Len(s.aSavepoint)
      PROVE  /\ SavepointRec(t.aSavepoint[i])
             /\ t.aSavepoint[i].iOffset = s.aSavepoint[i].iOffset
             /\ t.aSavepoint[i].iHdrOffset = s.aSavepoint[i].iHdrOffset
             /\ t.aSavepoint[i].iSubRec = s.aSavepoint[i].iSubRec
  <2> DEFINE sp == s.aSavepoint[i]
             tp == t.aSavepoint[i]
  <2>1. SavepointRec(sp)
    BY <1>1, <1>3
  <2>2. \/ tp = sp
        \/ \E v : tp = [sp EXCEPT !.pInSavepoint = v]
        \/ tp = [sp EXCEPT !.bTruncateOnRelease = FALSE]
    BY <1>1, <1>3 DEF OffsetsSame
  <2> HIDE DEF sp, tp
  <2>3. /\ SavepointRec(tp) /\ tp.iOffset = sp.iOffset /\ tp.iHdrOffset = sp.iHdrOffset
        /\ tp.iSubRec = sp.iSubRec
    <3>1. CASE tp = sp
      BY <2>1, <3>1
    <3>2. ASSUME NEW v, tp = [sp EXCEPT !.pInSavepoint = v]
          PROVE  /\ SavepointRec(tp) /\ tp.iOffset = sp.iOffset
                 /\ tp.iHdrOffset = sp.iHdrOffset /\ tp.iSubRec = sp.iSubRec
      BY <2>1, <3>2 DEF SavepointRec
    <3>3. CASE tp = [sp EXCEPT !.bTruncateOnRelease = FALSE]
      BY <2>1, <3>3 DEF SavepointRec
    <3> QED BY <2>2, <3>1, <3>2, <3>3
  <2> QED BY <2>3 DEF sp, tp
<1> QED BY <1>2, <1>3 DEF SameSavepoints

LEMMA Noted ==
    ASSUME NEW s, Good(s), NEW p
    PROVE  LET t == addToSavepointBitvecs(s, p)
           IN  Good(t) /\ OnlySavepoints(s, t)
<1> DEFINE t == addToSavepointBitvecs(s, p)
           a == [i \in DOMAIN s.aSavepoint |->
                    IF p <= s.aSavepoint[i].nOrig
                    THEN [s.aSavepoint[i] EXCEPT !.pInSavepoint = @ \cup {p}]
                    ELSE s.aSavepoint[i]]
<1>1. t = [s EXCEPT !.aSavepoint = a]
  BY DEF addToSavepointBitvecs
<1>2. /\ DOMAIN a = DOMAIN s.aSavepoint /\ a = [i \in DOMAIN s.aSavepoint |-> a[i]]
      /\ \A i \in DOMAIN s.aSavepoint :
            OffsetsSame(s.aSavepoint[i], a[i])
  <2>1. \A i \in DOMAIN s.aSavepoint :
           \/ a[i] = s.aSavepoint[i]
           \/ a[i] = [s.aSavepoint[i] EXCEPT !.pInSavepoint = s.aSavepoint[i].pInSavepoint \cup {p}]
    OBVIOUS
  <2>2. DOMAIN a = DOMAIN s.aSavepoint /\ a = [i \in DOMAIN s.aSavepoint |-> a[i]]
    OBVIOUS
  <2> HIDE DEF a
  <2>3. ASSUME NEW i \in DOMAIN s.aSavepoint
        PROVE  OffsetsSame(s.aSavepoint[i], a[i])
    <3> DEFINE w == s.aSavepoint[i].pInSavepoint \cup {p}
    <3>1. a[i] = s.aSavepoint[i] \/ a[i] = [s.aSavepoint[i] EXCEPT !.pInSavepoint = w]
      BY <2>1, <2>3
    <3> HIDE DEF w
    <3> QED BY <3>1 DEF OffsetsSame
  <2> QED BY <2>2, <2>3
<1> HIDE DEF a, t
<1>3. t.aSavepoint = a /\ OnlySavepoints(s, t)
  BY <1>1 DEF Good, Fields, OnlySavepoints
<1>4. SameSavepoints(s, t)
  <2>1. /\ Savepoints(s) /\ DOMAIN t.aSavepoint = DOMAIN s.aSavepoint
        /\ t.aSavepoint = [i \in DOMAIN s.aSavepoint |-> t.aSavepoint[i]]
        /\ \A i \in DOMAIN s.aSavepoint : OffsetsSame(s.aSavepoint[i], t.aSavepoint[i])
    BY <1>2, <1>3 DEF Good
  <2> QED BY <2>1, ChangedOneByOne
<1>5. Good(t) /\ OnlySavepoints(s, t)
  BY <1>3, <1>4, SavepointsGood
<1> QED BY <1>5 DEF t

(* More pages are in the journal. *)
LEMMA MoreInJournal ==
    ASSUME NEW s, Good(s), NEW d, s.pInJournal \subseteq d
    PROVE  LET t == [s EXCEPT !.pInJournal = d]
           IN  /\ Good(t) /\ t.pInJournal = d
               /\ t.eState = s.eState /\ t.dbSize = s.dbSize /\ t.dbOrigSize = s.dbOrigSize
               /\ t.cache = s.cache /\ t.journal = s.journal
               /\ t.aSavepoint = s.aSavepoint /\ t.subjournal = s.subjournal
<1> DEFINE t == [s EXCEPT !.pInJournal = d]
<1>1. /\ Fields(t) /\ t.pInJournal = d
      /\ t.eState = s.eState /\ t.dbSize = s.dbSize /\ t.dbOrigSize = s.dbOrigSize
      /\ t.cache = s.cache /\ t.journal = s.journal
      /\ t.aSavepoint = s.aSavepoint /\ t.subjournal = s.subjournal
  BY DEF Good, Fields
<1> HIDE DEF t
<1>2. Pages(t) /\ Untouched(t) /\ Journal(t) /\ SubJournal(t)
  BY <1>1 DEF Good, Pages, Untouched, Idle, Journal, SubJournal
<1>3. AllInJournal(t)
  BY <1>1 DEF Good, AllInJournal, InJournal
<1>4. Savepoints(t)
  BY <1>1 DEF Good, Savepoints, OffsetsFit
<1>5. Good(t)
  BY <1>1, <1>2, <1>3, <1>4 DEF Good
<1> QED BY <1>1, <1>5 DEF t

-----------------------------------------------------------------------------
(* Pages without content, and the headers of the journal.                  *)

SameFiles(s, t) ==
    /\ t.eState = s.eState /\ t.dbSize = s.dbSize /\ t.dbOrigSize = s.dbOrigSize
    /\ t.journal = s.journal /\ t.subjournal = s.subjournal

LEMMA ValuePage ==
    ASSUME NEW h, Page(h), NEW val
    PROVE  LET g == [h EXCEPT !.val = val]
           IN  Page(g) /\ g.dirty = h.dirty /\ g.writeable = h.writeable
<1>1. /\ h \in [val : {h.val}, dirty : BOOLEAN, needSync : BOOLEAN, writeable : BOOLEAN,
                dontWrite : BOOLEAN]
      /\ h.writeable => h.dirty
  BY DEF Page
<1>2. /\ [h EXCEPT !.val = val] \in [val : {val}, dirty : BOOLEAN, needSync : BOOLEAN,
                                     writeable : BOOLEAN, dontWrite : BOOLEAN]
      /\ [h EXCEPT !.val = val].val = val /\ [h EXCEPT !.val = val].dirty = h.dirty
      /\ [h EXCEPT !.val = val].writeable = h.writeable
  BY <1>1
<1> QED BY <1>1, <1>2 DEF Page

LEMMA GotNoContent ==
    ASSUME NEW s, Good(s), NEW p \in 1 .. MaxPage
    PROVE  LET t == GetNoContent(s, p)
           IN  Good(t) /\ SameFiles(s, t) /\ DOMAIN t.cache = DOMAIN s.cache \cup {p}
<1> DEFINE d == IF p <= s.dbOrigSize /\ ~useWal THEN s.pInJournal \cup {p} ELSE s.pInJournal
           m == [s EXCEPT !.pInJournal = d]
           n == addToSavepointBitvecs(m, p)
           g == IF Cached(s, p) THEN [s.cache[p] EXCEPT !.val = Zeroed] ELSE Clean(Zeroed)
           t == SetPage(n, p, g)
<1>1. GetNoContent(s, p) = t
  <2>1. m = IF p <= s.dbOrigSize /\ ~useWal
            THEN [s EXCEPT !.pInJournal = @ \cup {p}] ELSE s
    BY DEF Good, Fields
  <2> HIDE DEF m
  <2> QED BY <2>1 DEF GetNoContent
<1>2. /\ Good(m) /\ m.pInJournal = d /\ SameFiles(s, m) /\ m.cache = s.cache
  <2>1. s.pInJournal \subseteq d
    OBVIOUS
  <2> HIDE DEF d
  <2> QED BY <2>1, MoreInJournal DEF SameFiles
<1>3. Good(n) /\ SameFiles(m, n) /\ n.cache = s.cache
  <2> HIDE DEF m
  <2>1. Good(n) /\ OnlySavepoints(m, n) /\ Fields(m)
    BY <1>2, Noted DEF Good
  <2> QED BY <2>1, <1>2, OnlySavepointsIs DEF SameFiles
<1> HIDE DEF d, m, n
<1>4. Page(g) /\ (Idle(n) => ~g.dirty) /\ (g.writeable => InJournal(n, p))
  <2>1. CASE Cached(s, p)
    <3>1. p \in DOMAIN n.cache /\ s.cache[p] = n.cache[p]
      BY <2>1, <1>3 DEF Cached
    <3>2. /\ Page(s.cache[p]) /\ (Idle(n) => ~s.cache[p].dirty)
          /\ s.cache[p].writeable => InJournal(n, p)
      BY <3>1, <1>3, PageOfCache
    <3>3. g = [s.cache[p] EXCEPT !.val = Zeroed]
      BY <2>1
    <3> DEFINE h == s.cache[p]
    <3> HIDE DEF g, h
    <3>4. Page(g) /\ g.dirty = h.dirty /\ g.writeable = h.writeable
      BY <3>2, <3>3, ValuePage DEF h
    <3> QED BY <3>2, <3>4 DEF h
  <2>2. CASE ~Cached(s, p)
    BY <2>2, CleanPage
  <2> QED BY <2>1, <2>2
<1> HIDE DEF g
<1>5. /\ Good(t) /\ OnlyCache(n, t) /\ DOMAIN t.cache = DOMAIN n.cache \cup {p}
  BY <1>3, <1>4, PageSet
<1> HIDE DEF t
<1>6. SameFiles(n, t)
  BY <1>3, <1>5, OthersSame DEF SameFiles, Good
<1>7. SameFiles(s, t)
  BY <1>2, <1>3, <1>6 DEF SameFiles
<1> QED BY <1>1, <1>3, <1>5, <1>7

(* A header starts the next segment of the journal. *)
LEMMA HeaderWritten ==
    ASSUME NEW s, Good(s), ~Idle(s), ~useWal
    PROVE  LET t == writeJournalHdr(s)
           IN  /\ Good(t)
               /\ t.eState = s.eState /\ t.dbSize = s.dbSize /\ t.dbOrigSize = s.dbOrigSize
               /\ t.cache = s.cache /\ t.pInJournal = s.pInJournal
               /\ t.subjournal = s.subjournal
<1> DEFINE t == writeJournalHdr(s)
           n == Len(s.journal)
           a == [i \in DOMAIN s.aSavepoint |-> NoteHeader(s.aSavepoint[i], n)]
           j == Append(s.journal, Header)
<1>1. t = [s EXCEPT !.journalHdr = n, !.journal = j, !.aSavepoint = a]
  BY DEF writeJournalHdr
<1>2. /\ IsSeq(j) /\ Len(j) = n + 1 /\ n \in Nat /\ Header.pg = 0 /\ j[n + 1] = Header
      /\ \A k \in 1 .. n : j[k] = s.journal[k]
  BY AppendIs DEF Good, Journal, Header, Record
<1>3. /\ DOMAIN s.aSavepoint = 1 .. Len(s.aSavepoint) /\ Len(s.aSavepoint) \in Nat
      /\ DOMAIN a = 1 .. Len(s.aSavepoint) /\ a = [i \in DOMAIN a |-> a[i]]
      /\ \A i \in 1 .. Len(s.aSavepoint) : a[i] = NoteHeader(s.aSavepoint[i], n)
  BY LenOf DEF Good, Savepoints
<1> HIDE DEF a, j, n, t
<1>4. /\ Fields(t) /\ t.journal = j /\ t.aSavepoint = a
      /\ t.eState = s.eState /\ t.dbSize = s.dbSize /\ t.dbOrigSize = s.dbOrigSize
      /\ t.cache = s.cache /\ t.pInJournal = s.pInJournal /\ t.subjournal = s.subjournal
  BY <1>1 DEF Good, Fields
<1>5. Pages(t) /\ Untouched(t) /\ SubJournal(t) /\ AllInJournal(t)
  BY <1>4 DEF Good, Pages, Untouched, Idle, SubJournal, AllInJournal, InJournal
<1>6. Journal(t)
  <2>1. \A k \in 1 .. n + 1 : k \in 1 .. n \/ k = n + 1
    BY <1>2
  <2>2. \A k \in 1 .. n : j[k].pg \in 0 .. MaxPage
    BY <1>2 DEF Good, Journal, n
  <2>3. j[n + 1].pg \in 0 .. MaxPage
    BY <1>2, SavepointAssumption
  <2> QED BY <1>2, <1>4, <2>1, <2>2, <2>3 DEF Journal
<1>7. Savepoints(t)
  <2>1. IsSeq(a) /\ Len(a) = Len(s.aSavepoint) /\ Len(a) <= MaxSavepoints
    BY <1>3, SeqFrom DEF Good, Savepoints
  <2>2. ASSUME NEW i \in 1 .. Len(s.aSavepoint)
        PROVE  /\ SavepointRec(a[i]) /\ OffsetsFit(t, a[i])
               /\ a[i].iSubRec = s.aSavepoint[i].iSubRec
    <3> DEFINE sp == s.aSavepoint[i]
               tp == a[i]
    <3>1. /\ SavepointRec(sp) /\ OffsetsFit(s, sp)
          /\ tp = IF sp.iHdrOffset = 0 THEN [sp EXCEPT !.iHdrOffset = n] ELSE sp
      BY <2>2, <1>3 DEF Good, Savepoints, NoteHeader
    <3> HIDE DEF sp, tp
    <3>2. /\ SavepointRec(tp) /\ tp.iSubRec = sp.iSubRec /\ tp.iOffset = sp.iOffset
          /\ tp.iHdrOffset = IF sp.iHdrOffset = 0 THEN n ELSE sp.iHdrOffset
          /\ sp.iHdrOffset \in Nat /\ sp.iOffset \in Nat \ {0} /\ sp.iSubRec \in Nat
      BY <3>1, <1>2 DEF SavepointRec
    <3>3. /\ sp.iHdrOffset <= n /\ sp.iSubRec <= Len(s.subjournal)
          /\ \A k \in 1 .. n :
                k > sp.iOffset /\ (sp.iHdrOffset = 0 \/ k <= sp.iHdrOffset) => j[k].pg # 0
      BY <3>1, <1>2 DEF OffsetsFit, n
    <3>4. tp.iHdrOffset <= n + 1 /\ tp.iSubRec <= Len(t.subjournal)
      BY <3>2, <3>3, <1>2, <1>4
    <3>5. ASSUME NEW k \in 1 .. n + 1, k > tp.iOffset,
                 tp.iHdrOffset = 0 \/ k <= tp.iHdrOffset
          PROVE  j[k].pg # 0
      <4>1. k \in 1 .. n
        BY <3>5, <3>2, <3>3, <1>2
      <4>2. sp.iHdrOffset = 0 \/ k <= sp.iHdrOffset
        BY <3>5, <3>2
      <4> QED BY <4>1, <4>2, <3>3, <3>5, <3>2
    <3>6. OffsetsFit(t, tp)
      BY <3>4, <3>5, <1>2, <1>4 DEF OffsetsFit
    <3> QED BY <3>2, <3>6 DEF sp, tp
  <2>3. \A i, l \in 1 .. Len(s.aSavepoint) :
           i <= l => s.aSavepoint[i].iSubRec <= s.aSavepoint[l].iSubRec
    BY DEF Good, Savepoints
  <2> QED BY <2>1, <2>2, <2>3, <1>4 DEF Savepoints
<1>8. Good(t)
  BY <1>4, <1>5, <1>6, <1>7 DEF Good
<1> QED BY <1>4, <1>8 DEF t

LEMMA JournalOpened ==
    ASSUME NEW s, Good(s), s.eState # "READER"
    PROVE  LET t == pager_open_journal(s)
           IN  Good(t) /\ ~Idle(t) /\ t.cache = s.cache
<1>1. CASE s.eState # "LOCKED"
  BY <1>1 DEF pager_open_journal, Idle
<1>2. CASE s.eState = "LOCKED"
  <2> DEFINE o == [s EXCEPT !.eState = "CACHEMOD"]
             e == [o EXCEPT !.pInJournal = {}, !.journal = <<>>]
  <2>1. s.journal = <<>> /\ s.subjournal = <<>> /\ \A p \in DOMAIN s.cache : ~s.cache[p].dirty
    BY <1>2 DEF Good, Untouched, Idle
  <2>2. \A p \in DOMAIN s.cache : ~s.cache[p].writeable
    BY <2>1 DEF Good, Pages, Page
  <2>3. ASSUME NEW t, Fields(t), t.eState = "CACHEMOD", t.dbSize = s.dbSize,
               t.dbOrigSize = s.dbOrigSize, t.cache = s.cache, t.journal = s.journal,
               t.aSavepoint = s.aSavepoint, t.subjournal = s.subjournal
        PROVE  Good(t) /\ ~Idle(t)
    <3>1. Pages(t) /\ Untouched(t) /\ ~Idle(t) /\ Journal(t) /\ SubJournal(t)
      BY <2>3 DEF Good, Pages, Untouched, Idle, Journal, SubJournal
    <3>2. AllInJournal(t)
      BY <2>1, <2>2, <2>3, NoneSeq DEF AllInJournal
    <3>3. Savepoints(t)
      BY <2>3 DEF Good, Savepoints, OffsetsFit
    <3> QED BY <2>3, <3>1, <3>2, <3>3 DEF Good
  <2>4. /\ Fields(o) /\ o.eState = "CACHEMOD" /\ o.dbSize = s.dbSize
        /\ o.dbOrigSize = s.dbOrigSize /\ o.cache = s.cache /\ o.journal = s.journal
        /\ o.aSavepoint = s.aSavepoint /\ o.subjournal = s.subjournal
    BY DEF Good, Fields
  <2>5. /\ Fields(e) /\ e.eState = "CACHEMOD" /\ e.dbSize = s.dbSize
        /\ e.dbOrigSize = s.dbOrigSize /\ e.cache = s.cache /\ e.journal = s.journal
        /\ e.aSavepoint = s.aSavepoint /\ e.subjournal = s.subjournal
    BY <2>1 DEF Good, Fields
  <2>6. pager_open_journal(s) = IF useWal THEN o ELSE writeJournalHdr(e)
    BY <1>2 DEF pager_open_journal
  <2> HIDE DEF o, e
  <2>7. Good(o) /\ ~Idle(o)
    BY <2>3, <2>4
  <2>8. Good(e) /\ ~Idle(e)
    BY <2>3, <2>5
  <2>9. ~useWal => LET t == writeJournalHdr(e)
                   IN  Good(t) /\ t.eState = e.eState /\ t.cache = e.cache
    BY <2>8, HeaderWritten
  <2> QED BY <2>4, <2>5, <2>6, <2>7, <2>8, <2>9 DEF Idle
<1> QED BY <1>1, <1>2

-----------------------------------------------------------------------------
(* A page becomes writeable.                                               *)

(* A page with a flag that is not in the invariant. *)
LEMMA NeedsSync ==
    ASSUME NEW s, Good(s), NEW p \in DOMAIN s.cache
    PROVE  LET t == [s EXCEPT !.cache[p].needSync = TRUE]
           IN  /\ Good(t) /\ OnlyCache(s, t) /\ DOMAIN t.cache = DOMAIN s.cache
               /\ t.cache[p].dirty = s.cache[p].dirty
<1> DEFINE h == s.cache[p]
           g == [h EXCEPT !.needSync = TRUE]
           t == [s EXCEPT !.cache[p].needSync = TRUE]
<1>1. /\ p \in 1 .. MaxPage /\ Page(h) /\ (Idle(s) => ~h.dirty)
      /\ h.writeable => InJournal(s, p)
  BY PageOfCache
<1>2. t = SetPage(s, p, g) /\ DOMAIN s.cache \cup {p} = DOMAIN s.cache
  BY PageChanged
<1> HIDE DEF h
<1>3. Page(g) /\ g.dirty = h.dirty /\ g.writeable = h.writeable
  BY <1>1 DEF Page
<1> HIDE DEF g
<1>4. (Idle(s) => ~g.dirty) /\ (g.writeable => InJournal(s, p))
  BY <1>1, <1>3
<1>5. /\ Good(SetPage(s, p, g)) /\ OnlyCache(s, SetPage(s, p, g))
      /\ DOMAIN SetPage(s, p, g).cache = DOMAIN s.cache \cup {p}
      /\ SetPage(s, p, g).cache[p] = g
  BY <1>1, <1>3, <1>4, PageSet
<1> QED BY <1>2, <1>3, <1>5 DEF h

LEMMA Added ==
    ASSUME NEW s, Good(s), ~Idle(s), ~useWal, NEW p \in DOMAIN s.cache
    PROVE  LET t == AddPageToRollbackJournal(s, p)
           IN  /\ Good(t) /\ ~Idle(t) /\ DOMAIN t.cache = DOMAIN s.cache
               /\ t.cache[p].dirty = s.cache[p].dirty /\ InJournal(t, p)
<1> DEFINE r == Record(p, s.cache[p].val)
           m == [s EXCEPT !.journal = Append(s.journal, r), !.pInJournal = s.pInJournal \cup {p}]
           n == [m EXCEPT !.cache[p].needSync = TRUE]
           t == addToSavepointBitvecs(n, p)
<1>1. AddPageToRollbackJournal(s, p) = t
  <2>1. n = [s EXCEPT !.journal = Append(s.journal, r), !.pInJournal = s.pInJournal \cup {p},
                      !.cache[p].needSync = TRUE]
    BY DEF Good, Fields
  <2> HIDE DEF n
  <2> QED BY <2>1 DEF AddPageToRollbackJournal
<1>2. p \in 1 .. MaxPage /\ r.pg = p
  BY DEF Good, Pages, Record
<1>3. /\ Fields(m) /\ m.eState = s.eState /\ m.dbSize = s.dbSize
      /\ m.dbOrigSize = s.dbOrigSize /\ m.cache = s.cache
      /\ m.journal = Append(s.journal, r) /\ m.pInJournal = s.pInJournal \cup {p}
      /\ m.aSavepoint = s.aSavepoint /\ m.subjournal = s.subjournal
  BY DEF Good, Fields
<1> HIDE DEF m, r
<1>4. Good(m) /\ ~Idle(m)
  <2>1. /\ IsSeq(m.journal) /\ Len(m.journal) = Len(s.journal) + 1 /\ Len(s.journal) \in Nat
        /\ \A k \in 1 .. Len(s.journal) : m.journal[k] = s.journal[k]
        /\ m.journal[Len(s.journal) + 1] = r
    BY <1>3, AppendIs DEF Good, Journal
  <2>2. Pages(m) /\ Untouched(m) /\ SubJournal(m) /\ ~Idle(m)
    BY <1>3 DEF Good, Pages, Untouched, Idle, SubJournal
  <2>3. Journal(m)
    <3>1. \A k \in 1 .. Len(m.journal) : k \in 1 .. Len(s.journal) \/ k = Len(s.journal) + 1
      BY <2>1
    <3>2. \A k \in 1 .. Len(s.journal) : s.journal[k].pg \in 0 .. MaxPage
      BY DEF Good, Journal
    <3>3. p \in 0 .. MaxPage
      BY <1>2, SavepointAssumption
    <3> QED BY <2>1, <1>2, <3>1, <3>2, <3>3 DEF Journal
  <2>4. AllInJournal(m)
    BY <1>3 DEF Good, AllInJournal, InJournal
  <2>5. Savepoints(m)
    <3>1. Savepoints(s) /\ IsSeq(s.journal) /\ IsSeq(s.subjournal)
      BY DEF Good, Journal, SubJournal
    <3>2. SameSavepoints(s, m) /\ MoreRecords(s.journal, m.journal)
      BY <3>1, <1>2, <1>3, SameIsSame, OneMoreRecord
    <3>3. IsSeq(m.subjournal) /\ Len(s.subjournal) <= Len(m.subjournal)
      BY <3>1, <1>3, LenOf
    <3> QED BY <3>1, <3>2, <3>3, SavepointsKept
  <2> QED BY <1>3, <2>2, <2>3, <2>4, <2>5 DEF Good
<1>5. /\ Good(n) /\ OnlyCache(m, n) /\ DOMAIN n.cache = DOMAIN s.cache
      /\ n.cache[p].dirty = s.cache[p].dirty
  BY <1>3, <1>4, NeedsSync
<1> HIDE DEF n
<1>6. n.eState = m.eState /\ n.pInJournal = m.pInJournal
  BY <1>4, <1>5, OthersSame DEF Good
<1>7. Good(t) /\ OnlySavepoints(n, t)
  BY <1>5, Noted
<1> HIDE DEF t
<1>8. t.eState = n.eState /\ t.pInJournal = n.pInJournal /\ t.cache = n.cache
  BY <1>5, <1>7, OnlySavepointsIs DEF Good
<1> QED BY <1>1, <1>3, <1>4, <1>5, <1>6, <1>7, <1>8 DEF Idle, InJournal

LEMMA IsJournalled ==
    ASSUME NEW s, Good(s), ~Idle(s), NEW p \in DOMAIN s.cache
    PROVE  LET t == Journalled(s, p)
           IN  /\ Good(t) /\ ~Idle(t) /\ DOMAIN t.cache = DOMAIN s.cache
               /\ t.cache[p].dirty = s.cache[p].dirty /\ InJournal(t, p)
<1>1. p \in Nat /\ s.dbOrigSize \in Nat
  BY SavepointAssumption DEF Good, Fields, Pages
<1>2. CASE useWal \/ p \in s.pInJournal
  BY <1>2 DEF Journalled, InJournal
<1>3. CASE ~(useWal \/ p \in s.pInJournal) /\ p <= s.dbOrigSize
  BY <1>3, Added DEF Journalled
<1>4. CASE ~(useWal \/ p \in s.pInJournal) /\ ~(p <= s.dbOrigSize)
  <2>1. CASE s.eState = "DBMOD"
    BY <1>1, <1>4, <2>1 DEF Journalled, InJournal
  <2>2. CASE s.eState # "DBMOD"
    <3> DEFINE t == [s EXCEPT !.cache[p].needSync = TRUE]
    <3>1. Journalled(s, p) = t
      BY <1>4, <2>2 DEF Journalled
    <3>2. /\ Good(t) /\ OnlyCache(s, t) /\ DOMAIN t.cache = DOMAIN s.cache
          /\ t.cache[p].dirty = s.cache[p].dirty
      BY NeedsSync
    <3> HIDE DEF t
    <3>3. t.eState = s.eState /\ t.dbOrigSize = s.dbOrigSize
      BY <3>2, OthersSame DEF Good
    <3> QED BY <3>1, <3>2, <3>3, <1>1, <1>4 DEF Idle, InJournal
  <2> QED BY <2>1, <2>2
<1> QED BY <1>2, <1>3, <1>4

LEMMA MadeWriteable ==
    ASSUME NEW s, Good(s), ~Idle(s), NEW p \in DOMAIN s.cache, s.cache[p].dirty,
           InJournal(s, p)
    PROVE  LET t == Writeable(s, p)
           IN  /\ Good(t) /\ ~Idle(t) /\ DOMAIN t.cache = DOMAIN s.cache
               /\ InJournal(t, p)
<1> DEFINE h == s.cache[p]
           g == [h EXCEPT !.writeable = TRUE]
           t == Writeable(s, p)
<1>1. p \in 1 .. MaxPage /\ Page(h) /\ h.dirty
  BY PageOfCache
<1>2. t = SetPage(s, p, g) /\ DOMAIN s.cache \cup {p} = DOMAIN s.cache
  BY PageChanged DEF Writeable
<1> HIDE DEF h, t
<1>3. Page(g)
  BY <1>1 DEF Page
<1> HIDE DEF g
<1>4. /\ Good(t) /\ OnlyCache(s, t) /\ DOMAIN t.cache = DOMAIN s.cache
  <2>1. /\ Good(SetPage(s, p, g)) /\ OnlyCache(s, SetPage(s, p, g))
        /\ DOMAIN SetPage(s, p, g).cache = DOMAIN s.cache \cup {p}
    BY <1>1, <1>3, PageSet
  <2> QED BY <2>1, <1>2
<1>5. t.eState = s.eState /\ t.pInJournal = s.pInJournal /\ t.dbOrigSize = s.dbOrigSize
  BY <1>4, OthersSame DEF Good
<1>6. ~Idle(t) /\ InJournal(t, p)
  BY <1>5 DEF Idle, InJournal
<1> QED BY <1>4, <1>6 DEF t

LEMMA IsExtended ==
    ASSUME NEW s, Good(s), NEW p \in 1 .. MaxPage
    PROVE  LET t == Extended(s, p)
           IN  Good(t) /\ t.eState = s.eState /\ t.cache = s.cache
<1> DEFINE d == IF s.dbSize < p THEN p ELSE s.dbSize
           t == Extended(s, p)
<1>1. t = [s EXCEPT !.dbSize = d]
  BY DEF Extended, Good, Fields
<1>2. d \in 1 .. MaxPage
  BY SavepointAssumption DEF Good, Fields
<1> HIDE DEF t, d
<1>3. /\ Fields(t) /\ t.eState = s.eState /\ t.dbOrigSize = s.dbOrigSize
      /\ t.cache = s.cache /\ t.journal = s.journal /\ t.pInJournal = s.pInJournal
      /\ t.aSavepoint = s.aSavepoint /\ t.subjournal = s.subjournal
  BY <1>1, <1>2 DEF Good, Fields
<1>4. Pages(t) /\ (Idle(s) => \A q \in DOMAIN t.cache : ~t.cache[q].dirty)
  BY <1>3 DEF Good, Pages, Untouched
<1>5. \A q \in DOMAIN t.cache : t.cache[q].writeable => InJournal(s, q)
  BY <1>3 DEF Good, AllInJournal
<1>6. Good(t)
  BY <1>3, <1>4, <1>5, CacheGood
<1> QED BY <1>3, <1>6 DEF t

LEMMA InSubJournal ==
    ASSUME NEW s, Good(s), ~Idle(s), NEW p \in 1 .. MaxPage, InJournal(s, p)
    PROVE  LET t == subjournalPageIfRequired(s, p)
           IN  /\ Good(t) /\ t.eState = s.eState /\ t.cache = s.cache
<1>1. CASE Requiring(s, p) = {}
  BY <1>1 DEF subjournalPageIfRequired
<1>2. CASE Requiring(s, p) # {}
  <2> DEFINE first == Min(Requiring(s, p))
             a == [i \in DOMAIN s.aSavepoint |->
                      IF i > first THEN [s.aSavepoint[i] EXCEPT !.bTruncateOnRelease = FALSE]
                      ELSE s.aSavepoint[i]]
             r == Record(p, s.cache[p].val)
             j == Append(s.subjournal, r)
             m == [s EXCEPT !.aSavepoint = a, !.subjournal = j]
             t == addToSavepointBitvecs(m, p)
  <2>1. subjournalPageIfRequired(s, p) = t
    BY <1>2 DEF subjournalPageIfRequired, KeptByOuter
  <2>2. /\ Fields(m) /\ m.eState = s.eState /\ m.dbSize = s.dbSize
        /\ m.dbOrigSize = s.dbOrigSize /\ m.cache = s.cache /\ m.journal = s.journal
        /\ m.pInJournal = s.pInJournal /\ m.aSavepoint = a /\ m.subjournal = j
    <3> HIDE DEF a, j
    <3> QED BY DEF Good, Fields
  <2>3. r.pg = p
    BY DEF Record
  <2>4. /\ DOMAIN a = DOMAIN s.aSavepoint /\ a = [i \in DOMAIN s.aSavepoint |-> a[i]]
        /\ \A i \in DOMAIN s.aSavepoint : OffsetsSame(s.aSavepoint[i], a[i])
    BY DEF OffsetsSame
  <2> HIDE DEF first, a, m
  <2>5. SameSavepoints(s, m)
    <3>1. /\ Savepoints(s) /\ DOMAIN m.aSavepoint = DOMAIN s.aSavepoint
          /\ m.aSavepoint = [i \in DOMAIN s.aSavepoint |-> m.aSavepoint[i]]
          /\ \A i \in DOMAIN s.aSavepoint : OffsetsSame(s.aSavepoint[i], m.aSavepoint[i])
      BY <2>2, <2>4 DEF Good
    <3> QED BY <3>1, ChangedOneByOne
  <2>6. /\ IsSeq(j) /\ Len(j) = Len(s.subjournal) + 1 /\ Len(s.subjournal) \in Nat
        /\ \A k \in 1 .. Len(s.subjournal) : j[k] = s.subjournal[k]
        /\ j[Len(s.subjournal) + 1] = r
    <3> HIDE DEF r
    <3> QED BY AppendIs DEF Good, SubJournal
  <2> HIDE DEF r, j
  <2>7. Good(m)
    <3>1. Pages(m) /\ Untouched(m) /\ Journal(m)
      BY <2>2 DEF Good, Pages, Untouched, Idle, Journal
    <3>2. \A k \in 1 .. Len(j) : k \in 1 .. Len(s.subjournal) \/ k = Len(s.subjournal) + 1
      BY <2>6
    <3>3. SubJournal(m)
      BY <2>2, <2>3, <2>6, <3>2 DEF Good, SubJournal
    <3>4. AllInJournal(m)
      BY <2>2, <2>3, <2>6, <3>2 DEF Good, AllInJournal, InJournal
    <3>5. Savepoints(m)
      <4>1. Savepoints(s) /\ IsSeq(s.journal) /\ IsSeq(s.subjournal)
        BY DEF Good, Journal, SubJournal
      <4>2. MoreRecords(s.journal, m.journal)
        BY <4>1, <2>2, NoMoreRecords
      <4> QED BY <4>1, <4>2, <2>2, <2>5, <2>6, SavepointsKept
    <3> QED BY <2>2, <3>1, <3>3, <3>4, <3>5 DEF Good
  <2>8. Good(t) /\ OnlySavepoints(m, t)
    BY <2>7, Noted
  <2> HIDE DEF t
  <2>9. t.eState = m.eState /\ t.cache = m.cache
    BY <2>7, <2>8, OnlySavepointsIs DEF Good
  <2> QED BY <2>1, <2>2, <2>8, <2>9
<1> QED BY <1>1, <1>2

LEMMA PagerWritten ==
    ASSUME NEW s, Good(s), s.eState # "READER", NEW p \in DOMAIN s.cache
    PROVE  LET t == pager_write(s, p)
           IN  Good(t) /\ ~Idle(t) /\ DOMAIN t.cache = DOMAIN s.cache
<1> DEFINE a == pager_open_journal(s)
           b == MakeDirty(a, p)
           c == Journalled(b, p)
           d == Writeable(c, p)
           e == subjournalPageIfRequired(d, p)
           t == Extended(e, p)
<1>1. pager_write(s, p) = t
  BY DEF pager_write, Then
<1>2. Good(a) /\ ~Idle(a) /\ a.cache = s.cache
  BY JournalOpened
<1> HIDE DEF a
<1>3. /\ Good(b) /\ OnlyCache(a, b) /\ DOMAIN b.cache = DOMAIN s.cache
      /\ b.cache[p].dirty
  BY <1>2, MadeDirty
<1> HIDE DEF b
<1>4. ~Idle(b)
  BY <1>2, <1>3, OthersSame DEF Good, Idle
<1>5. /\ Good(c) /\ ~Idle(c) /\ DOMAIN c.cache = DOMAIN s.cache
      /\ c.cache[p].dirty = b.cache[p].dirty /\ InJournal(c, p)
  BY <1>3, <1>4, IsJournalled
<1> HIDE DEF c
<1>6. c.cache[p].dirty
  BY <1>3, <1>5
<1>7. Good(d) /\ ~Idle(d) /\ DOMAIN d.cache = DOMAIN s.cache /\ InJournal(d, p)
  BY <1>5, <1>6, MadeWriteable
<1> HIDE DEF d
<1>8. p \in 1 .. MaxPage
  BY DEF Good, Pages
<1>9. Good(e) /\ e.eState = d.eState /\ e.cache = d.cache
  BY <1>7, <1>8, InSubJournal
<1> HIDE DEF e
<1>10. Good(t) /\ t.eState = e.eState /\ t.cache = e.cache
  BY <1>8, <1>9, IsExtended
<1> QED BY <1>1, <1>7, <1>9, <1>10 DEF Idle

LEMMA Written ==
    ASSUME NEW s, Good(s), s.eState # "READER", NEW p \in DOMAIN s.cache, NEW val
    PROVE  LET t == Write(s, p, val)
           IN  Good(t) /\ t.eState # "READER" /\ DOMAIN t.cache = DOMAIN s.cache
<1> DEFINE w == IF AlreadyWriteable(s, p) THEN subjournalPageIfRequired(s, p)
                ELSE pager_write(s, p)
           t == [w EXCEPT !.cache[p].val = val]
<1>1. Write(s, p, val) = t
  BY DEF Write, Then
<1>2. Good(w) /\ w.eState # "READER" /\ DOMAIN w.cache = DOMAIN s.cache
  <2>1. CASE AlreadyWriteable(s, p)
    <3>1. /\ p \in 1 .. MaxPage /\ s.cache[p].dirty /\ ~Idle(s) /\ InJournal(s, p)
      BY <2>1, PageOfCache DEF AlreadyWriteable, Page
    <3>2. LET u == subjournalPageIfRequired(s, p)
          IN  Good(u) /\ u.eState = s.eState /\ u.cache = s.cache
      BY <3>1, InSubJournal
    <3> QED BY <2>1, <3>2
  <2>2. CASE ~AlreadyWriteable(s, p)
    BY <2>2, PagerWritten DEF Idle
  <2> QED BY <2>1, <2>2
<1> HIDE DEF w
<1>3. Good(t) /\ OnlyCache(w, t) /\ DOMAIN t.cache = DOMAIN w.cache
  BY <1>2, ValueChanged
<1> HIDE DEF t
<1>4. t.eState = w.eState
  BY <1>2, <1>3, OthersSame DEF Good
<1> QED BY <1>1, <1>2, <1>3, <1>4

LEMMA Allocated ==
    ASSUME NEW s, Good(s), s.eState # "READER", NEW p \in 1 .. MaxPage,
           NEW size, NEW free, NEW noContent \in BOOLEAN
    PROVE  Good(Allocate(s, p, size, free, noContent))
<1> DEFINE v == Write(s, 1, Root(size, free))
           u == IF noContent THEN GetNoContent(v, p) ELSE Get(v, p)
           t == Write(u, p, NewContent)
<1>1. Allocate(s, p, size, free, noContent) = t
  BY DEF Allocate, Then
<1>2. Good(v) /\ v.eState # "READER"
  BY Written, OneCached
<1> HIDE DEF v
<1>3. Good(u) /\ u.eState # "READER" /\ p \in DOMAIN u.cache
  <2>1. CASE noContent
    BY <2>1, <1>2, GotNoContent DEF SameFiles
  <2>2. CASE ~noContent
    <3>1. /\ Good(Get(v, p)) /\ OnlyCache(v, Get(v, p))
          /\ DOMAIN Get(v, p).cache = DOMAIN v.cache \cup {p}
      BY <1>2, Got
    <3>2. Get(v, p).eState = v.eState
      BY <3>1, <1>2, OthersSame DEF Good
    <3> QED BY <2>2, <1>2, <3>1, <3>2
  <2> QED BY <2>1, <2>2
<1> HIDE DEF u
<1>4. Good(t)
  BY <1>3, Written
<1> QED BY <1>1, <1>4

(* A page whose content is not needed, and the pages freed. *)
LEMMA Dropped ==
    ASSUME NEW s, Good(s), NEW p
    PROVE  Good(DontWrite(s, p))
<1>1. CASE ~CanDropChanges(s, p)
  BY <1>1 DEF DontWrite
<1>2. CASE CanDropChanges(s, p)
  <2> DEFINE h == s.cache[p]
             g == [h EXCEPT !.dontWrite = TRUE, !.writeable = FALSE]
  <2>1. p \in DOMAIN s.cache
    BY <1>2 DEF CanDropChanges, Cached
  <2>2. DontWrite(s, p) = [s EXCEPT !.cache[p] = g]
    BY <1>2, <2>1, ZenonT(40) DEF DontWrite, Good, Fields, Pages
  <2>3. DontWrite(s, p) = SetPage(s, p, g)
    BY <2>1, <2>2, PageChanged
  <2>4. p \in 1 .. MaxPage /\ Page(h) /\ (Idle(s) => ~h.dirty)
    BY <2>1, PageOfCache
  <2> HIDE DEF h
  <2>5. Page(g) /\ g.dirty = h.dirty /\ ~g.writeable
    BY <2>4 DEF Page
  <2> HIDE DEF g
  <2>6. (Idle(s) => ~g.dirty) /\ (g.writeable => InJournal(s, p))
    BY <2>4, <2>5
  <2>7. Good(SetPage(s, p, g))
    BY <2>4, <2>5, <2>6, PageSet
  <2> QED BY <2>3, <2>7
<1> QED BY <1>1, <1>2

LEMMA MoreContent ==
    ASSUME NEW s, Good(s), NEW p
    PROVE  Good(SetHasContent(s, p))
<1> DEFINE t == SetHasContent(s, p)
<1>1. /\ Fields(t) /\ t.eState = s.eState /\ t.dbOrigSize = s.dbOrigSize
      /\ t.journal = s.journal /\ t.pInJournal = s.pInJournal
      /\ t.aSavepoint = s.aSavepoint /\ t.subjournal = s.subjournal /\ t.cache = s.cache
  BY DEF SetHasContent, Good, Fields
<1> HIDE DEF t
<1>2. /\ Pages(t) /\ (Idle(s) => \A q \in DOMAIN t.cache : ~t.cache[q].dirty)
      /\ \A q \in DOMAIN t.cache : t.cache[q].writeable => InJournal(s, q)
  BY <1>1 DEF Good, Pages, Untouched, AllInJournal
<1>3. Good(t)
  BY <1>1, <1>2, CacheGood
<1> QED BY <1>3 DEF t

-----------------------------------------------------------------------------
(* Playback.                                                               *)

LEMMA FileStored ==
    ASSUME NEW file, GoodFile(file), NEW p \in 1 .. MaxPage, NEW val
    PROVE  GoodFile(Stored(file, p, val))
<1> DEFINE n == IF p > Len(file) THEN p ELSE Len(file)
           f == [q \in 1 .. n |-> IF q = p THEN val ELSE PageOf(file, q)]
<1>1. n \in Nat /\ n <= MaxPage /\ Stored(file, p, val) = f
  BY LenOf, SavepointAssumption DEF GoodFile, Stored
<1>2. DOMAIN f = 1 .. n /\ f = [q \in DOMAIN f |-> f[q]]
  OBVIOUS
<1> HIDE DEF f, n
<1>3. IsSeq(f) /\ Len(f) = n
  BY <1>1, <1>2, SeqFrom
<1> QED BY <1>1, <1>3 DEF GoodFile

(* A playback that goes well, of a pager in state e. *)
Playback(x, e) ==
    /\ x \in [ok : {TRUE}, done : {x.done}, file : {x.file}, pager : {x.pager}]
    /\ GoodFile(x.file) /\ Good(x.pager) /\ x.pager.eState = e

LEMMA FileSize ==
    ASSUME NEW s, Good(s), NEW n
    PROVE  LET t == [s EXCEPT !.dbFileSize = n]
           IN  Good(t) /\ t.eState = s.eState /\ t.cache = s.cache
<1> DEFINE t == [s EXCEPT !.dbFileSize = n]
<1>1. /\ Fields(t) /\ t.eState = s.eState /\ t.dbOrigSize = s.dbOrigSize
      /\ t.journal = s.journal /\ t.pInJournal = s.pInJournal
      /\ t.aSavepoint = s.aSavepoint /\ t.subjournal = s.subjournal /\ t.cache = s.cache
  BY DEF Good, Fields
<1> HIDE DEF t
<1>2. /\ Pages(t) /\ (Idle(s) => \A q \in DOMAIN t.cache : ~t.cache[q].dirty)
      /\ \A q \in DOMAIN t.cache : t.cache[q].writeable => InJournal(s, q)
  BY <1>1 DEF Good, Pages, Untouched, AllInJournal
<1>3. Good(t)
  BY <1>1, <1>2, CacheGood
<1> QED BY <1>1, <1>3 DEF t

LEMMA GotForPlayback ==
    ASSUME NEW s, Good(s), ~Idle(s), NEW p \in 1 .. MaxPage
    PROVE  LET t == GetForPlayback(s, p) IN Good(t) /\ t.eState = s.eState
<1> DEFINE u == GetNoContent(s, p)
           t == MakeDirty(u, p)
<1>1. Good(u) /\ u.eState = s.eState /\ p \in DOMAIN u.cache
  BY GotNoContent DEF SameFiles
<1> HIDE DEF u
<1>2. Good(t) /\ OnlyCache(u, t)
  BY <1>1, MadeDirty DEF Idle
<1> HIDE DEF t
<1>3. t.eState = u.eState
  BY <1>1, <1>2, OthersSame DEF Good
<1> QED BY <1>1, <1>2, <1>3 DEF GetForPlayback, u, t

LEMMA Recorded ==
    ASSUME NEW s, Good(s), NEW p, NEW val
    PROVE  LET t == IF Cached(s, p) THEN [s EXCEPT !.cache[p].val = val] ELSE s
           IN  Good(t) /\ t.eState = s.eState
<1> DEFINE t == [s EXCEPT !.cache[p].val = val]
<1>1. ASSUME Cached(s, p)
      PROVE  Good(t) /\ t.eState = s.eState
  <2>1. p \in DOMAIN s.cache
    BY <1>1 DEF Cached
  <2>2. Good(t) /\ OnlyCache(s, t)
    BY <2>1, ValueChanged
  <2> HIDE DEF t
  <2> QED BY <2>2, OthersSame DEF Good
<1> QED BY <1>1

(* A record that is played back. *)
LEMMA PlayedBack ==
    ASSUME NEW x, NEW e, Playback(x, e), NEW rec, rec.pg \in 1 .. MaxPage,
           NEW isMain \in BOOLEAN, NEW offset, isMain \/ e \notin {"READER", "LOCKED"}
    PROVE  Playback(PlaybackOnePage(x, rec, isMain, offset), e)
<1> DEFINE s == x.pager
           toFile == s.eState = "DBMOD" /\ IsSynced(s, isMain, offset, rec.pg)
           got == IF (useWal \/ ~Cached(s, rec.pg)) /\ ~isMain /\ ~toFile
                  THEN GetForPlayback(s, rec.pg) ELSE s
           val == IF Cached(got, rec.pg) THEN [got EXCEPT !.cache[rec.pg].val = rec.val] ELSE got
           n == IF toFile /\ rec.pg > val.dbFileSize THEN rec.pg ELSE val.dbFileSize
           t == [val EXCEPT !.dbFileSize = n]
           file == IF toFile THEN Stored(x.file, rec.pg, rec.val) ELSE x.file
           y == [ok |-> TRUE, done |-> x.done \cup {rec.pg}, file |-> file, pager |-> t]
<1>1. /\ x.ok /\ GoodFile(x.file) /\ Good(s) /\ s.eState = e /\ rec.pg # 0
  <2>1. rec.pg # 0
    BY SavepointAssumption
  <2>2. GoodFile(x.file) /\ Good(s) /\ s.eState = e
    BY DEF Playback
  <2>3. x.ok
    <3>1. x.ok = TRUE
      BY DEF Playback
    <3> QED BY <3>1
  <2> QED BY <2>1, <2>2, <2>3
<1>2. CASE rec.pg > s.dbSize \/ rec.pg \in x.done
  BY <1>1, <1>2 DEF PlaybackOnePage
<1>3. CASE ~(rec.pg > s.dbSize \/ rec.pg \in x.done)
  <2>1. Good(got) /\ got.eState = e
    <3>1. CASE (useWal \/ ~Cached(s, rec.pg)) /\ ~isMain /\ ~toFile
      <4>1. ~Idle(s)
        BY <1>1, <3>1 DEF Idle
      <4> QED BY <1>1, <3>1, <4>1, GotForPlayback
    <3>2. CASE ~((useWal \/ ~Cached(s, rec.pg)) /\ ~isMain /\ ~toFile)
      BY <1>1, <3>2
    <3> QED BY <3>1, <3>2
  <2>2. GoodFile(file)
    BY <1>1, FileStored
  <2>3. PlaybackOnePage(x, rec, isMain, offset) = y
    <3>1. t = Copied(got, rec, toFile)
      <4> HIDE DEF got, toFile
      <4>1. t = [val EXCEPT !.dbFileSize = IF toFile /\ rec.pg > @ THEN rec.pg ELSE @]
        <5> HIDE DEF val
        <5>1. Good(val)
          BY <2>1, Recorded DEF val
        <5> QED BY <5>1 DEF Good, Fields
      <4> QED BY <4>1 DEF Copied
    <3> HIDE DEF t, file, toFile, got
    <3>2. PlaybackOnePage(x, rec, isMain, offset)
            = [ok |-> TRUE, done |-> x.done \cup {rec.pg}, file |-> file,
               pager |-> Copied(got, rec, toFile)]
      BY <1>1, <1>3 DEF PlaybackOnePage, Then, file, toFile, got
    <3> QED BY <3>1, <3>2
  <2> HIDE DEF got, file
  <2>4. Good(val) /\ val.eState = e
    BY <2>1, Recorded
  <2> HIDE DEF val, n
  <2>5. Good(t) /\ t.eState = e
    BY <2>4, FileSize
  <2> HIDE DEF t
  <2>6. Playback(y, e)
    BY <2>2, <2>5 DEF Playback
  <2> QED BY <2>3, <2>6
<1> QED BY <1>2, <1>3

-----------------------------------------------------------------------------
(* Records one after the other.                                            *)

LEMMA LeastOf ==
    ASSUME NEW S, S \subseteq Nat, S # {}
    PROVE  \E p \in S : \A q \in S : p <= q
<1>1. \E p \in S : \A q \in S : <<q, p>> \notin OpToRel(<, Nat)
  BY NatLessThanWellFounded, WFMin
<1>2. \A p, q \in Nat : <<q, p>> \notin OpToRel(<, Nat) => ~(q < p)
  BY Zenon DEF OpToRel
<1>3. \E p \in S : \A q \in S : ~(q < p)
  BY <1>1, <1>2, Zenon
<1> QED BY <1>3

(* What Replay goes through, up to the n-th record. *)
Replays(a, n, x, records, isMain, from, end) ==
    a = [k \in 0 .. n |-> IF k <= from THEN x
                          ELSE ReplayOne(a[k - 1], records, isMain, end, k)]

LEMMA ReplayExists ==
    ASSUME NEW n \in Nat, NEW x, NEW records, NEW isMain, NEW from \in Nat, NEW end
    PROVE  \E a : Replays(a, n, x, records, isMain, from, end)
<1> DEFINE Goes(a, m) == Replays(a, m, x, records, isMain, from, end)
           T == {m \in 0 .. n : ~\E a : Goes(a, m)}
<1>1. SUFFICES ASSUME T # {} PROVE FALSE
  OBVIOUS
<1> HIDE DEF Goes
<1>2. T \subseteq Nat
  OBVIOUS
<1>3. PICK m \in T : \A y \in T : m <= y
  <2> HIDE DEF T
  <2> QED BY <1>1, <1>2, LeastOf
<1>4. m \in 0 .. n /\ m \in Nat
  OBVIOUS
<1>5. CASE m = 0
  <2> DEFINE a == [k \in 0 .. 0 |-> x]
  <2>1. Goes(a, 0)
    BY DEF Goes, Replays
  <2> HIDE DEF a
  <2> QED BY <1>5, <2>1
<1>6. CASE m # 0
  <2>1. m - 1 \in 0 .. n /\ m - 1 \notin T
    <3> HIDE DEF T
    <3> QED BY <1>2, <1>3, <1>4, <1>6
  <2>2. PICK g : Goes(g, m - 1)
    BY <2>1
  <2> DEFINE last == IF m <= from THEN x ELSE ReplayOne(g[m - 1], records, isMain, end, m)
             h == [k \in 0 .. m |-> IF k = m THEN last ELSE g[k]]
  <2>3. ASSUME NEW k \in 0 .. m
        PROVE  h[k] = IF k <= from THEN x
                      ELSE ReplayOne(h[k - 1], records, isMain, end, k)
    <3>1. CASE k = m
      BY <1>4, <1>6, <3>1
    <3>2. CASE k # m
      <4>1. k \in 0 .. m - 1 /\ h[k] = g[k] /\ (k # 0 => h[k - 1] = g[k - 1])
        BY <1>4, <3>2
      <4>2. g[k] = IF k <= from THEN x ELSE ReplayOne(g[k - 1], records, isMain, end, k)
        BY <2>2, <4>1 DEF Goes, Replays
      <4> QED BY <4>1, <4>2
    <3> QED BY <3>1, <3>2
  <2>4. h = [k \in 0 .. m |-> h[k]]
    OBVIOUS
  <2>5. Goes(h, m)
    <3> HIDE DEF h
    <3> QED BY <2>3, <2>4 DEF Goes, Replays
  <2> HIDE DEF h
  <2> QED BY <1>4, <2>5
<1> QED BY <1>5, <1>6

LEMMA AnyReplay ==
    ASSUME NEW n \in Nat, NEW x, NEW e, Playback(x, e), NEW records, NEW isMain \in BOOLEAN,
           NEW from \in Nat, NEW end \in Nat,
           \A k \in 1 .. n : records[k].pg \in 0 .. MaxPage,
           \A k \in 1 .. n : k > from /\ k <= end => records[k].pg # 0,
           isMain \/ n = 0 \/ e \notin {"READER", "LOCKED"},
           NEW a, Replays(a, n, x, records, isMain, from, end)
    PROVE  Playback(a[n], e)
<1> DEFINE T == {m \in 0 .. n : ~Playback(a[m], e)}
<1>1. SUFFICES ASSUME T # {} PROVE FALSE
  OBVIOUS
<1>2. T \subseteq Nat
  OBVIOUS
<1>3. PICK m \in T : \A y \in T : m <= y
  <2> HIDE DEF T
  <2> QED BY <1>1, <1>2, LeastOf
<1>4. m \in 0 .. n /\ m \in Nat /\ ~Playback(a[m], e)
  OBVIOUS
<1>5. a[m] = IF m <= from THEN x ELSE ReplayOne(a[m - 1], records, isMain, end, m)
  BY <1>4 DEF Replays
<1>6. m > from /\ m # 0
  BY <1>4, <1>5
<1>7. m - 1 \in 0 .. n /\ m - 1 \notin T
  <2> HIDE DEF T
  <2> QED BY <1>2, <1>3, <1>4, <1>6
<1>8. Playback(a[m - 1], e)
  BY <1>7
<1>9. CASE m > end /\ records[m].pg = 0
  BY <1>4, <1>5, <1>6, <1>8, <1>9 DEF ReplayOne, Then
<1>10. CASE ~(m > end /\ records[m].pg = 0)
  <2>1. records[m].pg \in 1 .. MaxPage
    <3>1. m \in 1 .. n /\ records[m].pg \in 0 .. MaxPage
      BY <1>4, <1>6
    <3>2. records[m].pg # 0
      BY <3>1, <1>4, <1>6, <1>10
    <3> QED BY <3>1, <3>2, SavepointAssumption
  <2>2. isMain \/ e \notin {"READER", "LOCKED"}
    BY <1>4, <1>6
  <2>3. Playback(PlaybackOnePage(a[m - 1], records[m], isMain, m), e)
    <3> DEFINE y == a[m - 1]
               rec == records[m]
    <3> HIDE DEF y, rec
    <3>1. Playback(y, e) /\ rec.pg \in 1 .. MaxPage
      BY <1>8, <2>1 DEF y, rec
    <3>2. Playback(PlaybackOnePage(y, rec, isMain, m), e)
      BY <3>1, <2>2, PlayedBack
    <3> QED BY <3>2 DEF y, rec
  <2> QED BY <1>4, <1>5, <1>6, <1>10, <2>3 DEF ReplayOne, Then
<1> QED BY <1>9, <1>10

LEMMA Replayed ==
    ASSUME NEW x, NEW e, Playback(x, e), NEW records, IsSeq(records), NEW isMain \in BOOLEAN,
           NEW from \in Nat, NEW end \in Nat,
           \A k \in 1 .. Len(records) : records[k].pg \in 0 .. MaxPage,
           \A k \in 1 .. Len(records) : k > from /\ k <= end => records[k].pg # 0,
           isMain \/ Len(records) = 0 \/ e \notin {"READER", "LOCKED"}
    PROVE  Playback(Replay(x, records, isMain, from, end), e)
<1> DEFINE n == Len(records)
           a == CHOOSE f : Replays(f, n, x, records, isMain, from, end)
<1>1. n \in Nat
  BY LenOf
<1>2. Replay(x, records, isMain, from, end) = a[n]
  BY DEF Replay, Replays
<1>3. Replays(a, n, x, records, isMain, from, end)
  <2> HIDE DEF n
  <2>1. \E f : Replays(f, n, x, records, isMain, from, end)
    BY <1>1, ReplayExists
  <2> QED BY <2>1
<1> HIDE DEF a
<1>4. Playback(a[n], e)
  <2> HIDE DEF n
  <2>1. /\ \A k \in 1 .. n : records[k].pg \in 0 .. MaxPage
        /\ \A k \in 1 .. n : k > from /\ k <= end => records[k].pg # 0
        /\ isMain \/ n = 0 \/ e \notin {"READER", "LOCKED"}
    BY DEF n
  <2> QED BY <1>1, <1>3, <2>1, AnyReplay
<1> QED BY <1>2, <1>4

-----------------------------------------------------------------------------
(* Roll-backs.                                                             *)

LEMMA LogState ==
    ASSUME NEW s, Good(s), NEW w
    PROVE  LET t == [s EXCEPT !.pWal = w]
           IN  Good(t) /\ SameFiles(s, t) /\ t.cache = s.cache
<1> DEFINE t == [s EXCEPT !.pWal = w]
<1>1. /\ Fields(t) /\ SameFiles(s, t) /\ t.pInJournal = s.pInJournal
      /\ t.aSavepoint = s.aSavepoint /\ t.cache = s.cache
  BY DEF Good, Fields, SameFiles
<1> HIDE DEF t
<1>2. /\ Pages(t) /\ (Idle(s) => \A q \in DOMAIN t.cache : ~t.cache[q].dirty)
      /\ \A q \in DOMAIN t.cache : t.cache[q].writeable => InJournal(s, q)
  BY <1>1 DEF Good, Pages, Untouched, AllInJournal
<1>3. Good(t)
  BY <1>1, <1>2, CacheGood DEF SameFiles
<1> QED BY <1>1, <1>3 DEF t

LEMMA LogUndone ==
    ASSUME NEW s, Good(s), NEW data
    PROVE  Good(WalSavepointUndo(s, data)) /\ WalSavepointUndo(s, data).eState = s.eState
<1> DEFINE mx == IF data.nCkpt # s.pWal.nCkpt THEN 0 ELSE data.mxFrame
           t == [s EXCEPT !.pWal.mxFrame = mx, !.pWal.aFrameCksum = data.sum,
                          !.pWal.iReCksum = IF @ > mx THEN 0 ELSE @]
<1>1. WalSavepointUndo(s, data) = IF mx >= s.pWal.mxFrame THEN s ELSE t
  BY DEF WalSavepointUndo
<1>2. PICK w : t = [s EXCEPT !.pWal = w]
  <2> DEFINE v == t.pWal
  <2>1. t = [s EXCEPT !.pWal = v]
    BY DEF Good, Fields
  <2> HIDE DEF v, t
  <2> QED BY <2>1
<1> HIDE DEF mx, t
<1>3. Good(t) /\ t.eState = s.eState
  BY <1>2, LogState DEF SameFiles
<1> QED BY <1>1, <1>3

LEMMA LogRolledBack ==
    ASSUME NEW s, Good(s)
    PROVE  Good(RollbackWal(s)) /\ RollbackWal(s).eState = s.eState
<1> DEFINE undone == {wal.frames[n].pg : n \in wal.mxFrame + 1 .. s.pWal.mxFrame}
           stale == (undone \cup {p \in DOMAIN s.cache : s.cache[p].dirty}) \cap DOMAIN s.cache
           u == [s EXCEPT !.pWal.mxFrame = wal.mxFrame, !.pWal.aFrameCksum = wal.sum,
                          !.pWal.iReCksum = 0]
           val == readDbPage(u, db, wal, 1)
           D == (DOMAIN s.cache \ stale) \cup {1}
           page(p) == IF p = 1 /\ 1 \in stale THEN [s.cache[p] EXCEPT !.val = val] ELSE s.cache[p]
           c == [p \in D |-> page(p)]
           t == [u EXCEPT !.cache = c]
<1>1. RollbackWal(s) = t
  BY DEF RollbackWal
<1>2. PICK w : u = [s EXCEPT !.pWal = w]
  <2> DEFINE v == u.pWal
  <2>1. u = [s EXCEPT !.pWal = v]
    BY DEF Good, Fields
  <2> HIDE DEF v, u
  <2> QED BY <2>1
<1> HIDE DEF u, val
<1>3. Good(u) /\ SameFiles(s, u) /\ u.cache = s.cache
  BY <1>2, LogState
<1>4. D \subseteq DOMAIN s.cache /\ 1 \in D
  BY DEF Good, Pages
<1> HIDE DEF stale, D
<1>5. ASSUME NEW p \in D
      PROVE  /\ Page(page(p)) /\ page(p).dirty = s.cache[p].dirty
             /\ page(p).writeable = s.cache[p].writeable
  <2> DEFINE h == s.cache[p]
  <2>1. Page(h)
    BY <1>4, <1>5 DEF Good, Pages
  <2> HIDE DEF h
  <2>2. LET g == [h EXCEPT !.val = val]
        IN  Page(g) /\ g.dirty = h.dirty /\ g.writeable = h.writeable
    BY <2>1, ValuePage
  <2> QED BY <2>1, <2>2 DEF h
<1>6. DOMAIN c = D /\ c = [p \in D |-> c[p]] /\ \A p \in D : c[p] = page(p)
  OBVIOUS
<1> HIDE DEF page, c
<1>7. /\ OnlyCache(u, t) /\ t.cache = c
  BY <1>3 DEF OnlyCache, Good, Fields
<1> HIDE DEF t
<1>8. Pages(t)
  BY <1>4, <1>5, <1>6, <1>7 DEF Good, Pages
<1>9. /\ Fields(t) /\ t.eState = u.eState /\ t.dbOrigSize = u.dbOrigSize
      /\ t.journal = u.journal /\ t.pInJournal = u.pInJournal
      /\ t.aSavepoint = u.aSavepoint /\ t.subjournal = u.subjournal
  BY <1>3, <1>7, OthersSame DEF Good
<1>10. Idle(u) => \A p \in DOMAIN t.cache : ~t.cache[p].dirty
  BY <1>3, <1>4, <1>5, <1>6, <1>7 DEF Good, Untouched
<1>11. \A p \in DOMAIN t.cache : t.cache[p].writeable => InJournal(u, p)
  BY <1>3, <1>4, <1>5, <1>6, <1>7 DEF Good, AllInJournal
<1>12. Good(t)
  BY <1>3, <1>8, <1>9, <1>10, <1>11, CacheGood
<1> QED BY <1>1, <1>3, <1>9, <1>12 DEF SameFiles

LEMMA PlayingIs ==
    ASSUME NEW s, Good(s), GoodFile(db), NEW size \in 1 .. MaxPage
    PROVE  Playback(Playing(s, size), s.eState)
<1> DEFINE t == [s EXCEPT !.dbSize = size]
<1>1. /\ Fields(t) /\ t.eState = s.eState /\ t.dbOrigSize = s.dbOrigSize
      /\ t.journal = s.journal /\ t.pInJournal = s.pInJournal
      /\ t.aSavepoint = s.aSavepoint /\ t.subjournal = s.subjournal /\ t.cache = s.cache
  BY DEF Good, Fields
<1> HIDE DEF t
<1>2. /\ Pages(t) /\ (Idle(s) => \A q \in DOMAIN t.cache : ~t.cache[q].dirty)
      /\ \A q \in DOMAIN t.cache : t.cache[q].writeable => InJournal(s, q)
  BY <1>1 DEF Good, Pages, Untouched, AllInJournal
<1>3. Good(t)
  BY <1>1, <1>2, CacheGood
<1>4. Playing(s, size) = [ok |-> TRUE, done |-> {}, file |-> db, pager |-> t]
  BY DEF Playing, t
<1> QED BY <1>1, <1>3, <1>4 DEF Playback

LEMMA SubPlayed ==
    ASSUME NEW x, NEW e, Playback(x, e), NEW from \in Nat
    PROVE  Playback(PlaySub(x, from), e)
<1> DEFINE j == x.pager.subjournal
           n == Len(j)
<1>1. Good(x.pager) /\ x.pager.eState = e
  BY DEF Playback
<1>2. /\ IsSeq(j) /\ n \in Nat /\ \A k \in 1 .. n : j[k].pg \in 1 .. MaxPage
  BY <1>1, LenOf DEF Good, SubJournal
<1>3. e \in {"READER", "LOCKED"} => n = 0
  BY <1>1, NoneSeq DEF Good, Untouched, Idle
<1>4. PlaySub(x, from) = Replay(x, j, FALSE, from, n)
  BY DEF PlaySub
<1> HIDE DEF j
<1>5. /\ \A k \in 1 .. Len(j) : j[k].pg \in 0 .. MaxPage
      /\ \A k \in 1 .. Len(j) : k > from /\ k <= n => j[k].pg # 0
  BY <1>2, SavepointAssumption
<1>6. FALSE \/ Len(j) = 0 \/ e \notin {"READER", "LOCKED"}
  BY <1>3
<1> HIDE DEF n
<1>7. Playback(Replay(x, j, FALSE, from, n), e)
  BY <1>2, <1>5, <1>6, Replayed
<1> QED BY <1>4, <1>7

LEMMA AllPlayedBack ==
    ASSUME NEW s, Good(s), GoodFile(db)
    PROVE  Playback(PlaybackAll(s), s.eState)
<1> DEFINE x == Playing(s, s.dbOrigSize)
<1>1. Playback(x, s.eState)
  <2>1. s.dbOrigSize \in 1 .. MaxPage
    BY DEF Good, Fields
  <2> QED BY <2>1, PlayingIs
<1>2. x.pager.journal = s.journal
  BY DEF Playing, Good, Fields
<1> HIDE DEF x
<1>3. CASE useWal
  <2> DEFINE y == [x EXCEPT !.pager = RollbackWal(x.pager)]
  <2>1. PlaybackAll(s) = y
    BY <1>3, <1>1 DEF PlaybackAll, x
  <2>2. Good(RollbackWal(x.pager)) /\ RollbackWal(x.pager).eState = s.eState
    BY <1>1, LogRolledBack DEF Playback
  <2>3. Playback(y, s.eState)
    <3> DEFINE r == RollbackWal(x.pager)
    <3> HIDE DEF r
    <3>1. /\ y = [x EXCEPT !.pager = r] /\ Good(r) /\ r.eState = s.eState
      BY <2>2 DEF r
    <3> HIDE DEF y
    <3> QED BY <1>1, <3>1 DEF Playback
  <2> QED BY <2>1, <2>3
<1>4. CASE ~useWal
  <2> DEFINE j == s.journal
  <2>1. PlaybackAll(s) = Replay(x, j, TRUE, 0, 0)
    BY <1>2, <1>4 DEF PlaybackAll, PlayMain, x
  <2>2. IsSeq(j) /\ Len(j) \in Nat /\ \A k \in 1 .. Len(j) : j[k].pg \in 0 .. MaxPage
    BY LenOf DEF Good, Journal
  <2> HIDE DEF j
  <2>3. \A k \in 1 .. Len(j) : k > 0 /\ k <= 0 => j[k].pg # 0
    BY <2>2
  <2>4. Playback(Replay(x, j, TRUE, 0, 0), s.eState)
    BY <1>1, <2>2, <2>3, Replayed
  <2> QED BY <2>1, <2>4
<1> QED BY <1>3, <1>4

LEMMA SavepointPlayedBack ==
    ASSUME NEW s, Good(s), GoodFile(db), NEW sp, SavepointRec(sp), OffsetsFit(s, sp)
    PROVE  Playback(PlaybackSavepoint(s, sp), s.eState)
<1> DEFINE x == Playing(s, sp.nOrig)
           end == IF sp.iHdrOffset > 0 THEN sp.iHdrOffset ELSE Len(s.journal)
           main == IF useWal THEN [x EXCEPT !.pager = WalSavepointUndo(@, sp.aWalData)]
                   ELSE PlayMain(x, sp.iOffset, end)
<1>1. /\ sp.nOrig \in 1 .. MaxPage /\ sp.iOffset \in Nat /\ sp.iHdrOffset \in Nat
      /\ sp.iSubRec \in Nat
  BY DEF SavepointRec
<1>2. Playback(x, s.eState)
  BY <1>1, PlayingIs
<1>3. x.pager.journal = s.journal
  BY DEF Playing, Good, Fields
<1>4. PlaybackSavepoint(s, sp) = PlaySub(main, sp.iSubRec)
  BY DEF PlaybackSavepoint, Then
<1> HIDE DEF x
<1>5. Playback(main, s.eState)
  <2>1. CASE useWal
    <3> DEFINE r == WalSavepointUndo(x.pager, sp.aWalData)
               y == [x EXCEPT !.pager = r]
    <3>1. Good(r) /\ r.eState = s.eState
      BY <1>2, LogUndone DEF Playback
    <3>2. main = y
      BY <2>1, <1>2 DEF Playback
    <3> HIDE DEF r
    <3>3. Playback(y, s.eState)
      BY <1>2, <3>1 DEF Playback
    <3> QED BY <3>2, <3>3
  <2>2. CASE ~useWal
    <3> DEFINE j == s.journal
    <3>1. main = Replay(x, j, TRUE, sp.iOffset, end)
      BY <1>3, <2>2 DEF PlayMain
    <3>2. IsSeq(j) /\ Len(j) \in Nat /\ \A k \in 1 .. Len(j) : j[k].pg \in 0 .. MaxPage
      BY LenOf DEF Good, Journal
    <3>3. end \in Nat
      BY <1>1, <3>2
    <3>4. \A k \in 1 .. Len(j) : k > sp.iOffset /\ k <= end => j[k].pg # 0
      BY <1>1, <3>2 DEF OffsetsFit
    <3> HIDE DEF j, end
    <3>5. Playback(Replay(x, j, TRUE, sp.iOffset, end), s.eState)
      BY <1>1, <1>2, <3>2, <3>3, <3>4, Replayed
    <3> QED BY <3>1, <3>5
  <2> QED BY <2>1, <2>2
<1> HIDE DEF main
<1>6. Playback(PlaySub(main, sp.iSubRec), s.eState)
  BY <1>1, <1>5, SubPlayed
<1> QED BY <1>4, <1>6

(* The savepoints after the i-th are gone. *)
LEMMA FewerSavepoints ==
    ASSUME NEW s, Good(s), NEW i \in 0 .. Len(s.aSavepoint)
    PROVE  LET t == [s EXCEPT !.aSavepoint = SubSeq(@, 1, i)]
           IN  /\ Good(t) /\ SameFiles(s, t) /\ Len(t.aSavepoint) = i
               /\ \A l \in 1 .. i : t.aSavepoint[l] = s.aSavepoint[l]
<1> DEFINE a == SubSeq(s.aSavepoint, 1, i)
           t == [s EXCEPT !.aSavepoint = a]
<1>1. /\ IsSeq(a) /\ Len(a) = i /\ \A l \in 1 .. i : a[l] = s.aSavepoint[l]
      /\ Len(s.aSavepoint) \in Nat
  BY SubSeqIs, LenOf DEF Good, Savepoints
<1> HIDE DEF a
<1>2. /\ Fields(t) /\ SameFiles(s, t) /\ t.pInJournal = s.pInJournal
      /\ t.aSavepoint = a /\ t.cache = s.cache
  BY DEF Good, Fields, SameFiles
<1> HIDE DEF t
<1>3. Pages(t) /\ Untouched(t) /\ Journal(t) /\ SubJournal(t) /\ AllInJournal(t)
  BY <1>2 DEF SameFiles, Good, Pages, Untouched, Idle, Journal, SubJournal, AllInJournal, InJournal
<1>4. Savepoints(t)
  <2>1. \A l \in 1 .. i : l \in 1 .. Len(s.aSavepoint)
    BY <1>1
  <2>2. i <= MaxSavepoints
    BY <1>1, SavepointAssumption DEF Good, Savepoints
  <2>3. \A l \in 1 .. i : SavepointRec(a[l]) /\ OffsetsFit(t, a[l])
    BY <1>1, <1>2, <2>1 DEF Good, Savepoints, OffsetsFit, SameFiles
  <2>4. \A l, m \in 1 .. i : l <= m => a[l].iSubRec <= a[m].iSubRec
    BY <1>1, <2>1 DEF Good, Savepoints
  <2> QED BY <1>1, <1>2, <2>2, <2>3, <2>4 DEF Savepoints
<1>5. Good(t)
  BY <1>2, <1>3, <1>4 DEF Good
<1>6. [s EXCEPT !.aSavepoint = SubSeq(@, 1, i)] = t
  BY DEF Good, Fields, t, a
<1> QED BY <1>1, <1>2, <1>5, <1>6

LEMMA IsRolledBack ==
    ASSUME NEW s, Good(s), GoodFile(db), NEW i \in 0 .. Len(s.aSavepoint)
    PROVE  Playback(RolledBack(s, i), s.eState)
<1> DEFINE t == [s EXCEPT !.aSavepoint = SubSeq(@, 1, i)]
           back == IF ~useWal /\ s.journal = <<>> THEN Playing(t, t.dbSize)
                   ELSE IF i = 0 THEN PlaybackAll(t)
                   ELSE PlaybackSavepoint(t, s.aSavepoint[i])
<1>1. RolledBack(s, i) = back
  <2>1. CASE ~useWal /\ s.journal = <<>>
    <3> HIDE DEF t
    <3> QED BY <2>1 DEF RolledBack, Then, t
  <2>2. CASE ~(~useWal /\ s.journal = <<>>) /\ i = 0
    <3> HIDE DEF t
    <3> QED BY <2>2 DEF RolledBack, Then, t
  <2>3. CASE ~(~useWal /\ s.journal = <<>>) /\ i # 0
    <3> HIDE DEF t
    <3> QED BY <2>3 DEF RolledBack, Then, t
  <2> QED BY <2>1, <2>2, <2>3
<1>2. /\ Good(t) /\ SameFiles(s, t) /\ Len(t.aSavepoint) = i
      /\ \A l \in 1 .. i : t.aSavepoint[l] = s.aSavepoint[l]
  BY FewerSavepoints
<1> HIDE DEF t
<1>3. t.eState = s.eState /\ t.dbSize \in 1 .. MaxPage
  BY <1>2 DEF SameFiles, Good, Fields
<1>4. Playback(Playing(t, t.dbSize), s.eState)
  BY <1>2, <1>3, PlayingIs
<1>5. Playback(PlaybackAll(t), s.eState)
  BY <1>2, <1>3, AllPlayedBack
<1>6. ASSUME i # 0
      PROVE  Playback(PlaybackSavepoint(t, s.aSavepoint[i]), s.eState)
  <2>0. Len(s.aSavepoint) \in Nat
    BY LenOf DEF Good, Savepoints
  <2>1. i \in 1 .. Len(t.aSavepoint)
    BY <2>0, <1>2, <1>6
  <2>2. SavepointRec(t.aSavepoint[i]) /\ OffsetsFit(t, t.aSavepoint[i])
    BY <1>2, <2>1 DEF Good, Savepoints
  <2>3. t.aSavepoint[i] = s.aSavepoint[i]
    BY <1>2, <2>1
  <2>4. Playback(PlaybackSavepoint(t, t.aSavepoint[i]), t.eState)
    BY <1>2, <2>2, SavepointPlayedBack
  <2> QED BY <1>3, <2>3, <2>4
<1> QED BY <1>1, <1>4, <1>5, <1>6

-----------------------------------------------------------------------------
(* The actions.                                                            *)

LEMMA Carried ==
    ASSUME setting' = setting, NEW s, Good(s), pager' = s
    PROVE  Good(pager)'
<1>1. useWal' = useWal
  BY DEF useWal
<1>2. Fields(pager)' /\ Pages(pager)' /\ Untouched(pager)' /\ SubJournal(pager)'
  BY DEF Good, Fields, Pages, Page, Untouched, Idle, SubJournal, IsSeq
<1>3. Journal(pager)' /\ AllInJournal(pager)'
  BY <1>1 DEF Good, Journal, IsSeq, AllInJournal, InJournal
<1>4. Savepoints(pager)'
  <2>1. /\ IsSeq(s.aSavepoint) /\ Len(s.aSavepoint) <= MaxSavepoints
        /\ \A i, j \in 1 .. Len(s.aSavepoint) :
              i <= j => s.aSavepoint[i].iSubRec <= s.aSavepoint[j].iSubRec
    BY DEF Good, Savepoints
  <2>2. ASSUME NEW i \in 1 .. Len(s.aSavepoint)
        PROVE  SavepointRec(s.aSavepoint[i]) /\ OffsetsFit(s, s.aSavepoint[i])
    BY DEF Good, Savepoints
  <2>3. ASSUME NEW i \in 1 .. Len(s.aSavepoint)
        PROVE  SavepointRec(pager.aSavepoint[i])'
    BY <2>2 DEF SavepointRec
  <2>4. ASSUME NEW i \in 1 .. Len(s.aSavepoint)
        PROVE  OffsetsFit(pager, pager.aSavepoint[i])'
    BY <2>2 DEF OffsetsFit
  <2>5. (IsSeq(pager.aSavepoint) /\ Len(pager.aSavepoint) <= MaxSavepoints)'
    BY <2>1 DEF IsSeq
  <2> QED BY <2>1, <2>3, <2>4, <2>5 DEF Savepoints
<1> QED BY <1>2, <1>3, <1>4 DEF Good

LEMMA FileCarried ==
    ASSUME NEW file, GoodFile(file), db' = file
    PROVE  GoodFile(db)'
  BY DEF GoodFile, IsSeq

LEMMA PagerStep ==
    ASSUME IInv, setting' = setting, db' = db, NEW s, Good(s), pager' = s
    PROVE  IInv'
<1>1. Good(pager)'
  BY Carried
<1>2. GoodFile(db)'
  BY FileCarried DEF IInv
<1> QED BY <1>1, <1>2 DEF IInv

LEMMA Worked ==
    ASSUME IInv, NEW s, Good(s), Work(s)
    PROVE  IInv'
  BY PagerStep DEF Work

LEMMA InitGood == Init => IInv
<1>1. SUFFICES ASSUME Init PROVE IInv
  OBVIOUS
<1>2. InitSize \in 1 .. MaxPage /\ 1 \in 1 .. MaxPage
  BY SavepointAssumption
<1>3. Page(Clean(InitPage(1))) /\ ~Clean(InitPage(1)).dirty /\ ~Clean(InitPage(1)).writeable
  BY CleanPage
<1>4. pager = NoTx
  BY <1>1 DEF Init
<1> DEFINE one == <<Clean(InitPage(1))>>
<1>5. DOMAIN one = {1} /\ one[1] = Clean(InitPage(1)) /\ one = [p \in DOMAIN one |-> one[p]]
  OBVIOUS
<1> HIDE DEF one
<1>6. /\ pager.eState = "READER" /\ pager.dbSize = InitSize /\ pager.dbOrigSize = InitSize
      /\ pager.cache = one /\ pager.journal = <<>> /\ pager.subjournal = <<>>
      /\ pager.aSavepoint = <<>>
  BY <1>4 DEF NoTx, one
<1>7. Fields(pager)
  BY <1>2, <1>4 DEF NoTx, Fields
<1>8. Pages(pager) /\ Untouched(pager)
  BY <1>2, <1>3, <1>5, <1>6 DEF Pages, Untouched
<1>9. Journal(pager) /\ SubJournal(pager) /\ AllInJournal(pager)
  BY <1>3, <1>5, <1>6, NoneSeq DEF Journal, SubJournal, AllInJournal
<1>10. Savepoints(pager)
  BY <1>6, NoneSeq, SavepointAssumption DEF Savepoints
<1>11. GoodFile(db)
  <2> DEFINE f == [p \in 1 .. InitSize |-> InitPage(p)]
  <2>1. db = f /\ DOMAIN f = 1 .. InitSize /\ f = [p \in DOMAIN f |-> f[p]]
    BY <1>1 DEF Init
  <2> HIDE DEF f
  <2>2. IsSeq(f) /\ Len(f) = InitSize
    BY <2>1, <1>2, SeqFrom
  <2> QED BY <1>2, <2>1, <2>2, SavepointAssumption DEF GoodFile
<1> QED BY <1>7, <1>8, <1>9, <1>10, <1>11 DEF Good, IInv

LEMMA BeginKeeps == IInv /\ Begin => IInv'
<1>1. SUFFICES ASSUME IInv, Begin PROVE IInv'
  OBVIOUS
<1> DEFINE s == pager
           t == [s EXCEPT !.eState = "LOCKED", !.dbOrigSize = s.dbSize, !.dbFileSize = s.dbSize]
<1>2. pager' = t /\ s.eState = "READER" /\ db' = db /\ setting' = setting /\ Good(s)
  BY <1>1 DEF Begin, InWrite, IInv
<1> HIDE DEF s
<1>3. /\ Fields(t) /\ t.eState = "LOCKED" /\ t.cache = s.cache /\ t.journal = s.journal
      /\ t.subjournal = s.subjournal /\ t.aSavepoint = s.aSavepoint
  BY <1>2 DEF Good, Fields
<1> HIDE DEF t
<1>4. Pages(t) /\ Untouched(t) /\ Journal(t) /\ SubJournal(t)
  BY <1>2, <1>3 DEF Good, Pages, Untouched, Idle, Journal, SubJournal
<1>5. /\ s.subjournal = <<>> /\ \A p \in DOMAIN s.cache : ~s.cache[p].writeable
  BY <1>2 DEF Good, Untouched, Idle, Pages, Page
<1>6. AllInJournal(t)
  BY <1>3, <1>5, NoneSeq DEF AllInJournal
<1>7. Savepoints(t)
  BY <1>2, <1>3 DEF Good, Savepoints, OffsetsFit
<1>8. Good(t)
  BY <1>3, <1>4, <1>6, <1>7 DEF Good
<1> QED BY <1>1, <1>2, <1>8, PagerStep

LEMMA WritePageKeeps == ASSUME NEW p \in 1 .. MaxPage PROVE IInv /\ WritePage(p) => IInv'
<1>1. SUFFICES ASSUME IInv, WritePage(p) PROVE IInv'
  OBVIOUS
<1> DEFINE u == Get(pager, p)
<1>2. Good(pager) /\ pager.eState # "READER" /\ Work(Write(u, p, NewContent))
  BY <1>1 DEF IInv, WritePage, Work, InWrite
<1>3. Good(u) /\ OnlyCache(pager, u) /\ p \in DOMAIN u.cache
  BY <1>2, Got
<1> HIDE DEF u
<1>4. u.eState # "READER"
  BY <1>2, <1>3, OthersSame DEF Good
<1>5. Good(Write(u, p, NewContent))
  BY <1>3, <1>4, Written
<1> QED BY <1>1, <1>2, <1>5, Worked

LEMMA AllocateLeafKeeps == ASSUME NEW p \in 1 .. MaxPage PROVE IInv /\ AllocateLeaf(p) => IInv'
<1>1. SUFFICES ASSUME IInv, AllocateLeaf(p) PROVE IInv'
  OBVIOUS
<1>2. Good(pager) /\ pager.eState # "READER" /\ NoContent(p) \in BOOLEAN
  BY <1>1 DEF IInv, AllocateLeaf, Work, InWrite, NoContent
<1>3. Good(Allocate(pager, p, Meta(pager).n, Meta(pager).free \ {p}, NoContent(p)))
  BY <1>2, Allocated
<1> QED BY <1>1, <1>3, Worked DEF AllocateLeaf

LEMMA AllocateAtEndKeeps == IInv /\ AllocateAtEnd => IInv'
<1>1. SUFFICES ASSUME IInv, AllocateAtEnd PROVE IInv'
  OBVIOUS
<1>2. Good(pager) /\ pager.eState # "READER" /\ pager.dbSize < MaxPage
  BY <1>1 DEF IInv, AllocateAtEnd, Work, InWrite
<1>3. pager.dbSize + 1 \in 1 .. MaxPage
  BY <1>2, SavepointAssumption DEF Good, Fields
<1>4. Good(Allocate(pager, pager.dbSize + 1, pager.dbSize + 1, {}, TRUE))
  BY <1>2, <1>3, Allocated
<1> QED BY <1>1, <1>4, Worked DEF AllocateAtEnd

LEMMA FreeKeeps == ASSUME NEW p \in 1 .. MaxPage PROVE IInv /\ Free(p) => IInv'
<1>1. SUFFICES ASSUME IInv, Free(p) PROVE IInv'
  OBVIOUS
<1> DEFINE root == Root(Meta(pager).n, Meta(pager).free \cup {p})
           w == Write(pager, 1, root)
           u == DontWrite(w, p)
           t == SetHasContent(u, p)
<1>2. Work(t)
  BY <1>1 DEF Free, Then
<1>3. Good(pager) /\ pager.eState # "READER"
  BY <1>1, <1>2 DEF IInv, Work, InWrite
<1>4. Good(w)
  BY <1>3, Written, OneCached
<1> HIDE DEF w
<1>5. Good(u)
  BY <1>4, Dropped
<1> HIDE DEF u
<1>6. Good(t)
  BY <1>5, MoreContent
<1> QED BY <1>1, <1>2, <1>6, Worked

LEMMA OpenSavepointKeeps == IInv /\ OpenSavepoint => IInv'
<1>1. SUFFICES ASSUME IInv, OpenSavepoint PROVE IInv'
  OBVIOUS
<1> DEFINE s == pager
           sp == [nOrig |-> s.dbSize,
                  iOffset |-> IF s.journal = <<>> THEN 1 ELSE Len(s.journal),
                  iHdrOffset |-> 0,
                  iSubRec |-> Len(s.subjournal),
                  pInSavepoint |-> {},
                  bTruncateOnRelease |-> TRUE,
                  aWalData |-> [mxFrame |-> s.pWal.mxFrame, sum |-> s.pWal.aFrameCksum,
                                nCkpt |-> s.pWal.nCkpt]]
           a == Append(s.aSavepoint, sp)
           t == [s EXCEPT !.aSavepoint = a]
<1>2. Good(s) /\ Len(s.aSavepoint) < MaxSavepoints /\ Work(t)
  <2>1. Work([s EXCEPT !.aSavepoint = Append(@, sp)])
    BY <1>1 DEF OpenSavepoint
  <2>2. Good(s) /\ Len(s.aSavepoint) < MaxSavepoints
    BY <1>1 DEF OpenSavepoint, IInv
  <2>3. [s EXCEPT !.aSavepoint = Append(@, sp)] = t
    <3> HIDE DEF sp
    <3> QED BY <2>2 DEF Good, Fields
  <2> HIDE DEF t
  <2> QED BY <2>1, <2>2, <2>3
<1>3. /\ IsSeq(s.journal) /\ Len(s.journal) \in Nat /\ Len(s.subjournal) \in Nat
      /\ s.journal # <<>> => Len(s.journal) # 0
  <2>1. IsSeq(s.journal) /\ Len(s.journal) \in Nat /\ Len(s.subjournal) \in Nat
    BY <1>2, LenOf DEF Good, Journal, SubJournal
  <2>2. s.journal \in Seq({s.journal[k] : k \in 1 .. Len(s.journal)})
    BY <2>1 DEF IsSeq
  <2>3. s.journal # <<>> => Len(s.journal) # 0
    <3> DEFINE j == s.journal
               S == {j[k] : k \in 1 .. Len(j)}
    <3>1. j \in Seq(S)
      BY <2>2
    <3> HIDE DEF j, S
    <3>2. j # <<>> => Len(j) # 0
      BY <3>1
    <3> QED BY <3>2 DEF j
  <2> QED BY <2>1, <2>3
<1>4. s.dbSize \in 1 .. MaxPage
  BY <1>2 DEF Good, Fields
<1>5. /\ SavepointRec(sp) /\ sp.iSubRec = Len(s.subjournal) /\ sp.iHdrOffset = 0
      /\ \A k \in 1 .. Len(s.journal) : ~(k > sp.iOffset)
  BY <1>3, <1>4 DEF SavepointRec
<1>6. /\ IsSeq(a) /\ Len(a) = Len(s.aSavepoint) + 1 /\ Len(s.aSavepoint) \in Nat
      /\ \A i \in 1 .. Len(s.aSavepoint) : a[i] = s.aSavepoint[i]
      /\ a[Len(s.aSavepoint) + 1] = sp
  <2> HIDE DEF sp
  <2>1. IsSeq(s.aSavepoint)
    BY <1>2 DEF Good, Savepoints
  <2> QED BY <2>1, AppendIs
<1> HIDE DEF a, sp, s
<1>7. /\ Fields(t) /\ SameFiles(s, t) /\ t.pInJournal = s.pInJournal
      /\ t.aSavepoint = a /\ t.cache = s.cache
  BY <1>2 DEF Good, Fields, SameFiles
<1> HIDE DEF t
<1>8. Pages(t) /\ Untouched(t) /\ Journal(t) /\ SubJournal(t) /\ AllInJournal(t)
  BY <1>2, <1>7 DEF SameFiles, Good, Pages, Untouched, Idle, Journal, SubJournal, AllInJournal,
                    InJournal
<1>9. Savepoints(t)
  <2> DEFINE n == Len(s.aSavepoint)
  <2>1. \A i \in 1 .. n + 1 : i \in 1 .. n \/ i = n + 1
    BY <1>6
  <2>2. /\ \A i \in 1 .. n : SavepointRec(a[i]) /\ OffsetsFit(s, a[i])
        /\ \A i, l \in 1 .. n : i <= l => a[i].iSubRec <= a[l].iSubRec
    BY <1>2, <1>6 DEF Good, Savepoints
  <2>3. OffsetsFit(s, sp)
    BY <1>3, <1>5 DEF OffsetsFit
  <2>4. \A i \in 1 .. n + 1 : SavepointRec(a[i]) /\ OffsetsFit(s, a[i])
    BY <1>5, <1>6, <2>1, <2>2, <2>3
  <2>5. \A i \in 1 .. n + 1 : OffsetsFit(t, a[i])
    BY <1>7, <2>4 DEF OffsetsFit, SameFiles
  <2>6. \A i \in 1 .. n : a[i].iSubRec <= sp.iSubRec
    BY <1>5, <2>2 DEF OffsetsFit
  <2>7. sp.iSubRec <= sp.iSubRec
    BY <1>3, <1>5
  <2>8. ASSUME NEW i \in 1 .. n + 1, NEW l \in 1 .. n + 1, i <= l
        PROVE  a[i].iSubRec <= a[l].iSubRec
    <3>1. CASE l \in 1 .. n
      <4>1. i \in 1 .. n
        BY <2>8, <3>1, <1>6
      <4> QED BY <2>2, <2>8, <3>1, <4>1
    <3>2. CASE l = n + 1
      BY <2>1, <2>6, <2>7, <3>2, <1>6
    <3> QED BY <2>1, <3>1, <3>2
  <2>9. n + 1 <= MaxSavepoints
    BY <1>2, <1>6, SavepointAssumption
  <2> HIDE DEF n
  <2> QED BY <1>6, <1>7, <2>4, <2>5, <2>8, <2>9 DEF Savepoints, n
<1>10. Good(t)
  BY <1>7, <1>8, <1>9 DEF Good
<1> QED BY <1>1, <1>2, <1>10, Worked

LEMMA EvictKeeps == ASSUME NEW p PROVE IInv /\ Evict(p) => IInv'
<1>1. SUFFICES ASSUME IInv, Evict(p) PROVE IInv'
  OBVIOUS
<1> DEFINE s == pager
           c == [q \in DOMAIN s.cache \ {p} |-> s.cache[q]]
           t == [s EXCEPT !.cache = c]
<1>2. /\ Good(s) /\ p # 1 /\ pager' = t /\ db' = db /\ setting' = setting
  <2>1. Good(s)
    BY <1>1 DEF IInv
  <2>2. t = [s EXCEPT !.cache = [q \in DOMAIN @ \ {p} |-> s.cache[q]]]
    BY <2>1 DEF Good, Fields
  <2> HIDE DEF t
  <2> QED BY <1>1, <2>1, <2>2 DEF Evict
<1>3. /\ DOMAIN c = DOMAIN s.cache \ {p} /\ \A q \in DOMAIN c : c[q] = s.cache[q]
      /\ c = [q \in DOMAIN c |-> c[q]]
  OBVIOUS
<1> HIDE DEF c, s
<1>4. OnlyCache(s, t) /\ t.cache = c
  BY <1>2 DEF OnlyCache, Good, Fields
<1> HIDE DEF t
<1>5. Pages(t) /\ \A q \in DOMAIN t.cache : q \in DOMAIN s.cache /\ t.cache[q] = s.cache[q]
  BY <1>2, <1>3, <1>4 DEF Good, Pages
<1>6. /\ Idle(s) => \A q \in DOMAIN t.cache : ~t.cache[q].dirty
      /\ \A q \in DOMAIN t.cache : t.cache[q].writeable => InJournal(s, q)
  BY <1>2, <1>5 DEF Good, Untouched, AllInJournal
<1>7. /\ Fields(t)
      /\ t.eState = s.eState /\ t.dbOrigSize = s.dbOrigSize
      /\ t.journal = s.journal /\ t.pInJournal = s.pInJournal
      /\ t.aSavepoint = s.aSavepoint /\ t.subjournal = s.subjournal
  BY <1>2, <1>4, OthersSame DEF Good
<1>8. Good(t)
  BY <1>2, <1>5, <1>6, <1>7, CacheGood
<1> QED BY <1>1, <1>2, <1>8, PagerStep

LEMMA PageCleaned ==
    ASSUME NEW s, Good(s), NEW p \in DOMAIN s.cache
    PROVE  LET t == [s EXCEPT !.cache[p] = MakeClean(@)]
           IN  Good(t) /\ OnlyCache(s, t) /\ DOMAIN t.cache = DOMAIN s.cache
<1> DEFINE h == s.cache[p]
           g == MakeClean(h)
           t == [s EXCEPT !.cache[p] = g]
<1>1. p \in 1 .. MaxPage /\ Page(h)
  BY PageOfCache
<1>2. t = SetPage(s, p, g) /\ DOMAIN s.cache \cup {p} = DOMAIN s.cache
  BY PageChanged
<1> HIDE DEF h
<1>3. Page(g) /\ ~g.dirty /\ ~g.writeable
  BY <1>1 DEF Page, MakeClean
<1> HIDE DEF g, t
<1>4. /\ Good(SetPage(s, p, g)) /\ OnlyCache(s, SetPage(s, p, g))
      /\ DOMAIN SetPage(s, p, g).cache = DOMAIN s.cache \cup {p}
  BY <1>1, <1>3, PageSet
<1>5. t = [s EXCEPT !.cache[p] = MakeClean(@)]
  BY DEF Good, Fields, Pages, t, g, h
<1> QED BY <1>2, <1>4, <1>5

LEMMA JournalSynced ==
    ASSUME NEW s, Good(s), ~Idle(s), ~useWal
    PROVE  LET t == Synced(s)
           IN  Good(t) /\ DOMAIN t.cache = DOMAIN s.cache
<1> DEFINE flags == [q \in DOMAIN s.cache |-> [s.cache[q] EXCEPT !.needSync = FALSE]]
           u == IF noSync THEN s ELSE writeJournalHdr(s)
           t == [u EXCEPT !.cache = flags, !.eState = "DBMOD"]
<1>1. Synced(s) = t
  BY DEF Synced
<1>2. Good(u) /\ u.eState = s.eState /\ u.cache = s.cache
  BY HeaderWritten
<1> HIDE DEF u
<1>3. /\ DOMAIN flags = DOMAIN s.cache /\ flags = [q \in DOMAIN flags |-> flags[q]]
      /\ \A q \in DOMAIN s.cache : flags[q] = [s.cache[q] EXCEPT !.needSync = FALSE]
  OBVIOUS
<1> HIDE DEF flags
<1>4. ASSUME NEW q \in DOMAIN s.cache
      PROVE  Page(flags[q]) /\ flags[q].writeable = s.cache[q].writeable
  <2> DEFINE h == s.cache[q]
             g == flags[q]
  <2>1. Page(h) /\ g = [h EXCEPT !.needSync = FALSE]
    BY <1>3, <1>4 DEF Good, Pages
  <2> HIDE DEF h, g
  <2>2. Page(g) /\ g.writeable = h.writeable
    BY <2>1 DEF Page
  <2> QED BY <2>2 DEF h, g
<1>5. /\ Fields(t) /\ t.eState = "DBMOD" /\ t.dbOrigSize = u.dbOrigSize /\ t.cache = flags
      /\ t.journal = u.journal /\ t.pInJournal = u.pInJournal
      /\ t.aSavepoint = u.aSavepoint /\ t.subjournal = u.subjournal
  BY <1>2 DEF Good, Fields
<1> HIDE DEF t
<1>6. Pages(t)
  BY <1>3, <1>4, <1>5 DEF Good, Pages
<1>7. Untouched(t) /\ Journal(t) /\ SubJournal(t)
  BY <1>2, <1>5 DEF Good, Untouched, Idle, Journal, SubJournal
<1>8. AllInJournal(t)
  BY <1>2, <1>3, <1>4, <1>5 DEF Good, AllInJournal, InJournal
<1>9. Savepoints(t)
  BY <1>2, <1>5 DEF Good, Savepoints, OffsetsFit
<1>10. Good(t)
  BY <1>5, <1>6, <1>7, <1>8, <1>9 DEF Good
<1> QED BY <1>1, <1>3, <1>5, <1>10

LEMMA SpillToFileKeeps ==
    ASSUME IInv, ~useWal, setting' = setting, NEW p \in 1 .. MaxPage, Cached(pager, p),
           pager.cache[p].dirty, SpillToFile(p)
    PROVE  IInv'
<1>1. /\ Good(pager) /\ GoodFile(db) /\ ~Idle(pager) /\ p \in DOMAIN pager.cache
  BY DEF IInv, Good, Untouched, Cached
<1>2. PICK s \in {IF SpillNeedsSync(pager, p) THEN Synced(pager) ELSE pager} :
         /\ pager' = [s EXCEPT !.cache[p] = MakeClean(@),
                               !.dbFileSize = IF Len(ToFile(s, p)) > @ THEN Len(ToFile(s, p))
                                              ELSE @]
         /\ db' = ToFile(s, p)
  BY DEF SpillToFile
<1>3. Good(s) /\ p \in DOMAIN s.cache
  <2>1. s = IF SpillNeedsSync(pager, p) THEN Synced(pager) ELSE pager
    BY <1>2
  <2> QED BY <1>1, <2>1, JournalSynced
<1> DEFINE u == [s EXCEPT !.cache[p] = MakeClean(@)]
           n == IF Len(ToFile(s, p)) > u.dbFileSize THEN Len(ToFile(s, p)) ELSE u.dbFileSize
           t == [u EXCEPT !.dbFileSize = n]
<1>4. pager' = t
  <2>1. u.dbFileSize = s.dbFileSize
    BY <1>3 DEF Good, Fields
  <2> QED BY <1>2, <1>3, <2>1 DEF Good, Fields
<1>5. Good(u)
  BY <1>3, PageCleaned
<1> HIDE DEF u, n
<1>6. Good(t)
  BY <1>5, FileSize
<1> HIDE DEF t
<1>7. Good(pager)'
  BY <1>4, <1>6, Carried
<1>8. GoodFile(ToFile(s, p))
  BY <1>1, FileStored DEF ToFile
<1>9. GoodFile(db)'
  BY <1>2, <1>8, FileCarried
<1> QED BY <1>7, <1>9 DEF IInv

LEMMA SpillToLogKeeps ==
    ASSUME IInv, useWal, setting' = setting, NEW p \in 1 .. MaxPage, Cached(pager, p),
           pager.cache[p].dirty, SpillToLog(p)
    PROVE  IInv'
<1>1. Good(pager) /\ ~Idle(pager) /\ p \in DOMAIN pager.cache /\ InJournal(pager, p)
  BY DEF IInv, Good, Untouched, Cached, InJournal
<1>2. PICK w : LET s == BeforeSpill(pager, p)
               IN  pager' = [s EXCEPT !.cache[p] = MakeClean(@), !.pWal = w] /\ db' = db
  BY DEF SpillToLog
<1> DEFINE s == BeforeSpill(pager, p)
<1>3. Good(s) /\ p \in DOMAIN s.cache
  <2>1. s = subjournalPageIfRequired(pager, p)
    BY DEF BeforeSpill
  <2> QED BY <1>1, <2>1, InSubJournal
<1>4. pager' = [s EXCEPT !.cache[p] = MakeClean(@), !.pWal = w] /\ db' = db
  BY <1>2
<1> HIDE DEF s
<1> DEFINE u == [s EXCEPT !.cache[p] = MakeClean(@)]
           t == [u EXCEPT !.pWal = w]
<1>5. pager' = t
  BY <1>3, <1>4 DEF Good, Fields
<1>6. Good(u)
  BY <1>3, PageCleaned
<1> HIDE DEF u
<1>7. Good(t)
  BY <1>6, LogState
<1> HIDE DEF t
<1> QED BY <1>4, <1>5, <1>7, PagerStep

LEMMA SpillKeeps == ASSUME NEW p \in 1 .. MaxPage PROVE IInv /\ Spill(p) => IInv'
<1>1. SUFFICES ASSUME IInv, Spill(p) PROVE IInv'
  OBVIOUS
<1>2. setting' = setting /\ Cached(pager, p) /\ pager.cache[p].dirty
  BY <1>1 DEF Spill
<1>3. CASE useWal
  <2>1. SpillToLog(p)
    BY <1>1, <1>3 DEF Spill
  <2> QED BY <1>1, <1>2, <1>3, <2>1, SpillToLogKeeps
<1>4. CASE ~useWal
  <2>1. SpillToFile(p)
    BY <1>1, <1>4 DEF Spill
  <2> QED BY <1>1, <1>2, <1>4, <2>1, SpillToFileKeeps
<1> QED BY <1>3, <1>4

LEMMA RollbackToKeeps == ASSUME NEW i PROVE IInv /\ RollbackTo(i) => IInv'
<1>1. SUFFICES ASSUME IInv, RollbackTo(i) PROVE IInv'
  OBVIOUS
<1> DEFINE x == RolledBack(pager, i)
<1>2. /\ pager' = x.pager /\ db' = x.file /\ setting' = setting
      /\ i \in 0 .. Len(pager.aSavepoint)
  BY <1>1 DEF RollbackTo
<1>3. Playback(x, pager.eState)
  BY <1>1, <1>2, IsRolledBack DEF IInv
<1> HIDE DEF x
<1>4. Good(x.pager) /\ GoodFile(x.file)
  BY <1>3 DEF Playback
<1>5. Good(pager)' /\ GoodFile(db)'
  BY <1>2, <1>4, Carried, FileCarried
<1> QED BY <1>5 DEF IInv

LEMMA ReleaseSavepointKeeps ==
    ASSUME NEW i \in DOMAIN pager.aSavepoint PROVE IInv /\ ReleaseSavepoint(i) => IInv'
<1>1. SUFFICES ASSUME IInv, ReleaseSavepoint(i) PROVE IInv'
  OBVIOUS
<1> DEFINE s == pager
           sp == s.aSavepoint[i]
           u == [s EXCEPT !.aSavepoint = SubSeq(@, 1, i - 1)]
           j == IF sp.bTruncateOnRelease THEN SubSeq(s.subjournal, 1, sp.iSubRec) ELSE s.subjournal
           t == [u EXCEPT !.subjournal = j]
<1>2. Good(s) /\ GoodFile(db)
  BY <1>1 DEF IInv
<1>3. pager' = t /\ db' = db /\ setting' = setting
  <2>1. t = [s EXCEPT !.aSavepoint = SubSeq(@, 1, i - 1),
                      !.subjournal = IF sp.bTruncateOnRelease THEN SubSeq(@, 1, sp.iSubRec) ELSE @]
    <3> HIDE DEF sp
    <3> QED BY <1>2 DEF Good, Fields
  <2> HIDE DEF t
  <2> QED BY <1>1, <2>1 DEF ReleaseSavepoint
<1>4. Len(s.aSavepoint) \in Nat /\ i \in 1 .. Len(s.aSavepoint)
  BY <1>2, LenOf DEF Good, Savepoints
<1>5. /\ Good(u) /\ SameFiles(s, u) /\ Len(u.aSavepoint) = i - 1
      /\ \A l \in 1 .. i - 1 : u.aSavepoint[l] = s.aSavepoint[l]
  <2>1. i - 1 \in 0 .. Len(s.aSavepoint)
    BY <1>4
  <2> HIDE DEF s
  <2> QED BY <1>2, <2>1, FewerSavepoints
<1>6. /\ SavepointRec(sp) /\ sp.iSubRec \in 0 .. Len(s.subjournal) /\ IsSeq(s.subjournal)
      /\ Len(s.subjournal) \in Nat
  <2>1. SavepointRec(sp) /\ sp.iSubRec <= Len(s.subjournal) /\ IsSeq(s.subjournal)
    BY <1>2, <1>4 DEF Good, Savepoints, OffsetsFit, SubJournal
  <2>2. Len(s.subjournal) \in Nat /\ sp.iSubRec \in Nat
    BY <2>1, LenOf DEF SavepointRec
  <2> QED BY <2>1, <2>2
<1>7. \A l \in 1 .. i - 1 : u.aSavepoint[l].iSubRec <= sp.iSubRec
  <2>1. \A l \in 1 .. i - 1 : l \in 1 .. Len(s.aSavepoint) /\ l <= i
    BY <1>4
  <2> QED BY <1>2, <1>4, <1>5, <2>1 DEF Good, Savepoints
<1>8. /\ IsSeq(j) /\ Len(j) \in Nat /\ Len(j) <= Len(s.subjournal)
      /\ \A k \in 1 .. Len(j) : j[k] = s.subjournal[k] /\ k \in 1 .. Len(s.subjournal)
      /\ \A l \in 1 .. i - 1 : u.aSavepoint[l].iSubRec <= Len(j)
  <2>1. CASE sp.bTruncateOnRelease
    <3>1. /\ IsSeq(j) /\ Len(j) = sp.iSubRec
          /\ \A k \in 1 .. sp.iSubRec : j[k] = s.subjournal[k]
      <4> HIDE DEF s, sp
      <4> QED BY <1>6, <2>1, SubSeqIs
    <3> HIDE DEF j, s, sp, u
    <3> QED BY <1>6, <1>7, <3>1
  <2>2. CASE ~sp.bTruncateOnRelease
    <3>1. j = s.subjournal
      BY <2>2
    <3>2. /\ Savepoints(u) /\ Len(u.aSavepoint) = i - 1 /\ u.subjournal = s.subjournal
      BY <1>5 DEF Good, SameFiles
    <3>3. \A l \in 1 .. i - 1 : u.aSavepoint[l].iSubRec <= Len(j)
      BY <3>1, <3>2 DEF Savepoints, OffsetsFit
    <3> HIDE DEF j, s, sp, u
    <3> QED BY <1>6, <3>1, <3>3
  <2> QED BY <2>1, <2>2
<1> HIDE DEF j, s, sp, u
<1>9. /\ Fields(t) /\ t.subjournal = j /\ t.eState = u.eState /\ t.dbOrigSize = u.dbOrigSize
      /\ t.cache = u.cache /\ t.journal = u.journal /\ t.pInJournal = u.pInJournal
      /\ t.aSavepoint = u.aSavepoint
  BY <1>5 DEF Good, Fields
<1> HIDE DEF t
<1>10. s.subjournal = u.subjournal
  BY <1>5 DEF SameFiles
<1>11. Pages(t) /\ Journal(t) /\ SubJournal(t) /\ AllInJournal(t)
  BY <1>5, <1>8, <1>9, <1>10
     DEF Good, Pages, Journal, SubJournal, AllInJournal, InJournal
<1>12. Untouched(t)
  <2>1. ASSUME u.subjournal = <<>> PROVE j = <<>>
    <3>1. Len(j) = 0
      BY <2>1, <1>8, <1>10, NoneSeq
    <3> QED BY <3>1, <1>8 DEF IsSeq
  <2> QED BY <1>5, <1>9, <2>1 DEF Good, Untouched, Idle
<1>13. Savepoints(t)
  <2>1. \A l \in 1 .. i - 1 : SavepointRec(u.aSavepoint[l]) /\ OffsetsFit(u, u.aSavepoint[l])
    BY <1>5 DEF Good, Savepoints
  <2>2. \A l \in 1 .. i - 1 : OffsetsFit(t, u.aSavepoint[l])
    BY <1>8, <1>9, <2>1 DEF OffsetsFit
  <2> QED BY <1>5, <1>9, <2>1, <2>2 DEF Good, Savepoints
<1>14. Good(t)
  BY <1>9, <1>11, <1>12, <1>13 DEF Good
<1> QED BY <1>1, <1>3, <1>14, PagerStep

(* The end of a transaction leaves an idle pager. *)
LEMMA EndedGood ==
    ASSUME NEW s, Good(s)
    PROVE  Good(Ended(s))
<1> DEFINE D == {q \in DOMAIN s.cache : q <= s.dbSize}
           c == [p \in D |-> IF s.cache[p].dirty THEN MakeClean(s.cache[p]) ELSE s.cache[p]]
           t == Ended(s)
<1>1. 1 \in D /\ D \subseteq DOMAIN s.cache
  BY SavepointAssumption DEF Good, Pages, Fields
<1>2. ASSUME NEW p \in D
      PROVE  Page(c[p]) /\ ~c[p].dirty /\ ~c[p].writeable
  <2> DEFINE h == s.cache[p]
             g == c[p]
  <2>1. Page(h) /\ g = IF h.dirty THEN MakeClean(h) ELSE h
    BY <1>1, <1>2 DEF Good, Pages
  <2> HIDE DEF h, g
  <2>2. Page(g) /\ ~g.dirty /\ ~g.writeable
    BY <2>1 DEF Page, MakeClean
  <2> QED BY <2>2 DEF g
<1>3. DOMAIN c = D /\ c = [p \in DOMAIN c |-> c[p]]
  OBVIOUS
<1>4. /\ Fields(t) /\ t.eState = "READER" /\ t.cache = c /\ t.journal = <<>>
      /\ t.subjournal = <<>> /\ t.aSavepoint = <<>>
  <2>1. t = [s EXCEPT !.eState = "READER", !.journal = <<>>, !.journalHdr = 0, !.pInJournal = {},
              !.pHasContent = {}, !.hasContentSize = 0, !.aSavepoint = <<>>, !.subjournal = <<>>,
              !.cache = c]
    BY DEF Ended
  <2> HIDE DEF c, t
  <2> QED BY <2>1 DEF Good, Fields
<1> HIDE DEF c, D, t
<1>5. Pages(t) /\ Untouched(t)
  BY <1>1, <1>2, <1>3, <1>4 DEF Good, Pages, Untouched
<1>6. Journal(t) /\ SubJournal(t) /\ AllInJournal(t)
  BY <1>2, <1>3, <1>4, NoneSeq DEF Journal, SubJournal, AllInJournal
<1>7. Savepoints(t)
  BY <1>4, NoneSeq, SavepointAssumption DEF Savepoints
<1>8. Good(t)
  BY <1>4, <1>5, <1>6, <1>7 DEF Good
<1> QED BY <1>8 DEF t

LEMMA CommitKeeps == IInv /\ Commit => IInv'
<1>1. SUFFICES ASSUME IInv, Commit PROVE IInv'
  OBVIOUS
<1>2. Good(pager) /\ GoodFile(db) /\ setting' = setting
  BY <1>1 DEF IInv, Commit
<1>3. Good(Ended(pager))
  BY <1>2, EndedGood
<1>4. CASE pager.eState = "LOCKED"
  <2>1. pager' = Ended(pager) /\ db' = db
    BY <1>1, <1>4 DEF Commit
  <2> QED BY <1>1, <1>2, <1>3, <2>1, PagerStep
<1>5. CASE pager.eState # "LOCKED" /\ useWal
  <2>1. CommitToLog
    BY <1>1, <1>5 DEF Commit
  <2>2. PICK w : pager' = Ended([pager EXCEPT !.pWal = w]) /\ db' = db
    BY <2>1 DEF CommitToLog
  <2> DEFINE t == [pager EXCEPT !.pWal = w]
  <2>3. Good(t)
    BY <1>2, LogState
  <2> HIDE DEF t
  <2>4. Good(Ended(t))
    BY <2>3, EndedGood
  <2>5. pager' = Ended(t)
    BY <2>2 DEF t
  <2> QED BY <1>1, <1>2, <2>2, <2>4, <2>5, PagerStep
<1>6. CASE pager.eState # "LOCKED" /\ ~useWal
  <2>1. CommitToFile
    BY <1>1, <1>6 DEF Commit
  <2>2. PICK f : db' = f /\ DOMAIN f = 1 .. pager.dbSize /\ f = [p \in DOMAIN f |-> f[p]]
    <3> DEFINE out(p) == Cached(pager, p) /\ pager.cache[p].dirty /\ ~pager.cache[p].dontWrite
               f == [p \in 1 .. pager.dbSize |->
                        IF out(p) THEN pager.cache[p].val ELSE PageOf(db, p)]
    <3>1. db' = f /\ DOMAIN f = 1 .. pager.dbSize
      BY <2>1 DEF CommitToFile
    <3>2. f = [p \in DOMAIN f |-> f[p]]
      OBVIOUS
    <3> HIDE DEF f
    <3> QED BY <3>1, <3>2
  <2>3. pager.dbSize \in Nat /\ pager.dbSize <= MaxPage
    BY <1>2, SavepointAssumption DEF Good, Fields
  <2>4. GoodFile(f)
    BY <2>2, <2>3, SeqFrom DEF GoodFile
  <2>5. GoodFile(db)'
    BY <2>2, <2>4, FileCarried
  <2>6. pager' = Ended(pager)
    BY <2>1 DEF CommitToFile
  <2>7. Good(pager)'
    BY <1>2, <1>3, <2>6, Carried
  <2> QED BY <2>5, <2>7 DEF IInv
<1> QED BY <1>4, <1>5, <1>6

LEMMA FileCut ==
    ASSUME NEW file, GoodFile(file), NEW s, Good(s)
    PROVE  GoodFile(CutBack(file, s))
<1> DEFINE n == s.dbOrigSize
           f == SubSeq(file, 1, n)
<1>1. n \in Nat /\ n <= MaxPage
  BY SavepointAssumption DEF Good, Fields
<1>2. CutBack(file, s) = IF s.eState = "DBMOD" THEN f ELSE file
  BY DEF CutBack
<1> HIDE DEF n
<1>3. f = [k \in 1 .. n |-> file[k]]
  <2> DEFINE S == {file[k] : k \in 1 .. Len(file)}
  <2>1. file \in Seq(S)
    BY DEF GoodFile, IsSeq
  <2> HIDE DEF S
  <2> QED BY <1>1, <2>1
<1> HIDE DEF f
<1>4. DOMAIN f = 1 .. n /\ f = [k \in DOMAIN f |-> f[k]]
  BY <1>3
<1>5. GoodFile(f)
  BY <1>1, <1>4, SeqFrom DEF GoodFile
<1> QED BY <1>2, <1>5

LEMMA RollbackKeeps == IInv /\ Rollback => IInv'
<1>1. SUFFICES ASSUME IInv, Rollback PROVE IInv'
  OBVIOUS
<1>2. Good(pager) /\ GoodFile(db) /\ setting' = setting
  BY <1>1 DEF IInv, Rollback
<1> DEFINE x == IF pager.eState = "LOCKED" THEN Playing(pager, pager.dbSize)
                ELSE RolledBack(pager, 0)
<1>3. pager' = Ended(x.pager) /\ db' = CutBack(x.file, pager)
  BY <1>1 DEF Rollback
<1>4. Playback(x, pager.eState)
  <2>1. pager.dbSize \in 1 .. MaxPage /\ 0 \in 0 .. Len(pager.aSavepoint)
    BY <1>2, LenOf DEF Good, Fields, Savepoints
  <2> QED BY <1>2, <2>1, PlayingIs, IsRolledBack
<1> HIDE DEF x
<1>5. Good(x.pager) /\ GoodFile(x.file)
  BY <1>4 DEF Playback
<1>6. Good(Ended(x.pager)) /\ GoodFile(CutBack(x.file, pager))
  BY <1>2, <1>5, EndedGood, FileCut
<1>7. Good(pager)' /\ GoodFile(db)'
  BY <1>2, <1>3, <1>6, Carried, FileCarried
<1> QED BY <1>7 DEF IInv

(* Every step keeps the pager's state as it should be. *)
LEMMA StepKeeps == IInv /\ [Next]_vars => IInv'
<1>1. SUFFICES ASSUME IInv, [Next]_vars PROVE IInv'
  OBVIOUS
<1>2. CASE Begin
  BY <1>1, <1>2, BeginKeeps
<1>3. CASE AllocateAtEnd
  BY <1>1, <1>3, AllocateAtEndKeeps
<1>4. CASE OpenSavepoint
  BY <1>1, <1>4, OpenSavepointKeeps
<1>5. CASE Commit
  BY <1>1, <1>5, CommitKeeps
<1>6. CASE Rollback
  BY <1>1, <1>6, RollbackKeeps
<1>7. ASSUME NEW p \in 1 .. MaxPage,
             WritePage(p) \/ AllocateLeaf(p) \/ Free(p) \/ Evict(p) \/ Spill(p)
      PROVE  IInv'
  BY <1>1, <1>7, WritePageKeeps, AllocateLeafKeeps, FreeKeeps, EvictKeeps, SpillKeeps
<1>8. ASSUME NEW i \in 0 .. Len(pager.aSavepoint), RollbackTo(i)
      PROVE  IInv'
  BY <1>1, <1>8, RollbackToKeeps
<1>9. ASSUME NEW i \in DOMAIN pager.aSavepoint, ReleaseSavepoint(i)
      PROVE  IInv'
  BY <1>1, <1>9, ReleaseSavepointKeeps
<1>10. CASE UNCHANGED vars
  <2>1. pager' = pager /\ db' = db /\ setting' = setting
    BY <1>10 DEF vars
  <2> QED BY <1>1, <2>1, PagerStep DEF IInv
<1> QED BY <1>1, <1>2, <1>3, <1>4, <1>5, <1>6, <1>7, <1>8, <1>9, <1>10 DEF Next

-----------------------------------------------------------------------------
(* What follows from it.                                                   *)

LEMMA IInvTypes == IInv => TypeOK
<1>1. SUFFICES ASSUME IInv PROVE TypeOK
  OBVIOUS
<1>2. Good(pager) /\ GoodFile(db)
  BY <1>1 DEF IInv
<1>3. DOMAIN db \subseteq 1 .. MaxPage
  BY <1>2, LenOf, SavepointAssumption DEF GoodFile
<1>4. /\ pager.eState \in {"READER", "LOCKED", "CACHEMOD", "DBMOD"}
      /\ DOMAIN pager.cache \subseteq 1 .. MaxPage
      /\ Len(pager.aSavepoint) <= MaxSavepoints
  BY <1>2 DEF Good, Fields, Pages, Savepoints
<1>5. ASSUME ~useWal, NEW r \in ToSet(pager.subjournal)
      PROVE  r.pg \in pager.pInJournal \/ r.pg > pager.dbOrigSize
  <2>1. PICK k \in 1 .. Len(pager.subjournal) : r = pager.subjournal[k]
    <3>1. DOMAIN pager.subjournal = 1 .. Len(pager.subjournal)
      BY <1>2, LenOf DEF Good, SubJournal
    <3> QED BY <1>5, <3>1 DEF ToSet
  <2> QED BY <1>2, <1>5, <2>1 DEF Good, AllInJournal, InJournal
<1> QED BY <1>3, <1>4, <1>5 DEF TypeOK

LEMMA IInvPlaybacks == IInv => PlaybacksEnd
<1>1. SUFFICES ASSUME IInv PROVE PlaybacksEnd
  OBVIOUS
<1>2. Good(pager) /\ GoodFile(db)
  BY <1>1 DEF IInv
<1>3. ASSUME NEW i \in 0 .. Len(pager.aSavepoint)
      PROVE  RolledBack(pager, i).ok
  <2> DEFINE x == RolledBack(pager, i)
  <2>1. Playback(x, pager.eState)
    BY <1>2, IsRolledBack
  <2> HIDE DEF x
  <2>2. x.ok = TRUE
    BY <2>1 DEF Playback
  <2> QED BY <2>2 DEF x
<1> QED BY <1>3 DEF PlaybacksEnd

(* In every state, whatever was written, spilled, freed and rolled back:   *)
(* the pages and savepoints are of their types, what has been changed is   *)
(* in the journal or new, and no header is within the part of the journal  *)
(* that a savepoint would play back (PagerSavepoint, subjournalPage).      *)
THEOREM StatesGood == Spec => []IInv
<1>1. Init => IInv
  BY InitGood
<1>2. IInv /\ [Next]_vars => IInv'
  BY StepKeeps
<1> QED BY <1>1, <1>2, PTL DEF Spec

(* The variables have their types, and a page in the sub-journal is in the *)
(* main journal or new (asserted in subjournalPage).                       *)
THEOREM Typing == Spec => []TypeOK
<1>1. Spec => []IInv
  BY StatesGood
<1>2. IInv => TypeOK
  BY IInvTypes
<1> QED BY <1>1, <1>2, PTL

(* Playing any open savepoint back, at any moment, comes to its end: where *)
(* it expects a record it finds one (pagerPlaybackSavepoint asserts that   *)
(* rc is not SQLITE_DONE).                                                 *)
THEOREM PlaybacksDoEnd == Spec => []PlaybacksEnd
<1>1. Spec => []IInv
  BY StatesGood
<1>2. IInv => PlaybacksEnd
  BY IInvPlaybacks
<1> QED BY <1>1, <1>2, PTL
=============================================================================
