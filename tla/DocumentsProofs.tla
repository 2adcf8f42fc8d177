--------------------------- MODULE DocumentsProofs ---------------------------
(***************************************************************************)
(* What ingestion keeps of a source over time.                             *)
(*                                                                         *)
(* The version history has no gaps, for any number of concurrent syncs,    *)
(* items, contents and edits; with one connector of a source, an item has  *)
(* one current version, and its versions follow what the source showed     *)
(* (Documents).                                                            *)
(*                                                                         *)
(* An OFFSET walk of an internal connector skips nothing when its listing  *)
(* cannot shift towards the pages already read (InternalSync).             *)
(***************************************************************************)
EXTENDS Documents, InternalSync, Foundations, SequenceTheorems

\* Rows are never removed, so the row that a sync has read is still there
\* when it writes the version after it.
BaseInv ==
    \A s \in Syncs : pc[s] = "write" =>
        base[s] = Nothing \/ base[s] \in VersionsOf(next[s])

IndInv ==
    /\ \A d \in docs : d.item \in Items /\ d.version \in Nat \ {0}
    /\ pc \in [Syncs -> Stages]
    /\ next \in [Syncs -> Items]
    /\ DOMAIN base = Syncs
    /\ BaseInv
    /\ VersionsHaveNoGaps

\* The invariant holds of an empty table.
LEMMA IndInvInit == Init => IndInv
    BY DocumentsConstants
    DEF Init, IndInv, BaseInv, VersionsHaveNoGaps, Stages, Items

\* The next version follows the row that was read.
LEMMA InsertKeepsHistory ==
    ASSUME IndInv, NEW s \in Syncs, InsertDocument(s)
    PROVE  IndInv'
<1> DEFINE row == [item    |-> next[s],
                   content |-> batch[s][next[s]],
                   version |-> NextVersion(s)]
<1>1. docs' = docs \cup {row} /\ base' = base
    BY DEF InsertDocument
<1>2. next[s] \in Items /\ (base[s] = Nothing \/ base[s] \in VersionsOf(next[s]))
    BY DEF InsertDocument, IndInv, BaseInv
<1>3. row.item \in Items /\ row.version \in Nat \ {0}
    BY <1>2 DEF NextVersion, Nothing, VersionsOf, IndInv
<1>4. \A v \in 1..row.version : \E e \in docs' : e.item = row.item /\ e.version = v
  <2> SUFFICES ASSUME NEW v \in 1..row.version
               PROVE  \E e \in docs' : e.item = row.item /\ e.version = v
      OBVIOUS
  <2>1. CASE v = row.version
      BY <2>1, <1>1
  <2>2. CASE v # row.version
    <3>1. base[s] \in VersionsOf(next[s]) /\ v \in 1..base[s].version
        BY <2>2, <1>2, <1>3 DEF NextVersion, Nothing, VersionsOf, IndInv
    <3> QED
        BY <3>1, <1>1 DEF IndInv, VersionsHaveNoGaps, VersionsOf
  <2> QED
      BY <2>1, <2>2
<1>5. VersionsHaveNoGaps'
    BY <1>1, <1>4 DEF IndInv, VersionsHaveNoGaps, VersionsOf
<1>6. next' \in [Syncs -> Items] /\ pc' \in [Syncs -> Stages]
    BY DocumentsConstants DEF InsertDocument, Advance, IndInv, Items, Stages
<1>7. BaseInv'
    BY <1>1 DEF InsertDocument, Advance, IndInv, BaseInv, VersionsOf
<1> QED
    BY <1>1, <1>3, <1>5, <1>6, <1>7 DEF IndInv

\* A row that has been read belongs to the item being processed.
LEMMA GetLatestKeepsHistory ==
    ASSUME IndInv, NEW s \in Syncs, GetLatestDocument(s)
    PROVE  IndInv'
<1> USE DocumentsConstants
<1>1. docs' = docs /\ next' \in [Syncs -> Items] /\ pc' \in [Syncs -> Stages]
    BY DEF GetLatestDocument, Advance, IndInv, Items, Stages
<1>2. PICK d \in LatestOrNothing(s) :
          /\ base' = [base EXCEPT ![s] = d]
          /\ pc'[s] = "write" => next'[s] = next[s]
    BY DEF GetLatestDocument, Advance, IndInv, Stages
<1>3. d = Nothing \/ d \in VersionsOf(next[s])
    BY DEF LatestOrNothing, Latest
<1>4. \A r \in Syncs \ {s} : pc'[r] = pc[r] /\ next'[r] = next[r]
    BY DEF GetLatestDocument, Advance, IndInv
<1> QED
    BY <1>1, <1>2, <1>3, <1>4 DEF IndInv, BaseInv, VersionsHaveNoGaps, VersionsOf

\* Every step of every sync, and every edit, keeps the invariant.
LEMMA IndInvStep == IndInv /\ [Next]_vars => IndInv'
<1> SUFFICES ASSUME IndInv, [Next]_vars
             PROVE  IndInv'
    OBVIOUS
<1> USE DocumentsConstants DEF IndInv, BaseInv, VersionsHaveNoGaps, VersionsOf,
        Stages, Items, sync
<1>1. ASSUME NEW i \in Items, NEW c \in Contents, EditItem(i, c)
      PROVE  IndInv'
    BY <1>1 DEF EditItem
<1>2. ASSUME NEW s \in Syncs, FetchPage(s)
      PROVE  IndInv'
    BY <1>2 DEF FetchPage
<1>3. ASSUME NEW s \in Syncs, DuplicateRejected(s)
      PROVE  IndInv'
    BY <1>3 DEF DuplicateRejected
<1>4. ASSUME NEW s \in Syncs, SyncFails(s)
      PROVE  IndInv'
    BY <1>4 DEF SyncFails
<1>5. ASSUME UNCHANGED vars
      PROVE  IndInv'
    BY <1>5 DEF vars
<1> QED
    BY <1>1, <1>2, <1>3, <1>4, <1>5, InsertKeepsHistory, GetLatestKeepsHistory
    DEF Next

\* However syncs interleave, every version but the first has a predecessor.
THEOREM HistoryHasNoGaps == Spec => []VersionsHaveNoGaps
<1>1. IndInv => VersionsHaveNoGaps
    BY DEF IndInv
<1> QED
    BY <1>1, IndInvInit, IndInvStep, PTL DEF Spec

-----------------------------------------------------------------------------
(* One connector per source: what a sync has read is the latest version    *)
(* until it writes, because nobody else writes.                            *)

LatestInv ==
    \A s \in Syncs : pc[s] = "write" => base[s] \in LatestOrNothing(s)

OneWriterInv == IndInv /\ LatestInv /\ OneCurrentVersion

\* The inserted version is above all others.
LEMMA NewestVersion ==
    ASSUME OneWriterInv, NEW s \in Syncs, InsertDocument(s)
    PROVE  \A d \in VersionsOf(next[s]) : d.version \in Nat /\ d.version < NextVersion(s)
<1>1. base[s] \in LatestOrNothing(s) /\ next[s] \in Items
    BY DEF OneWriterInv, LatestInv, IndInv, InsertDocument
<1>2. CASE VersionsOf(next[s]) = {}
    BY <1>2
<1>3. CASE VersionsOf(next[s]) # {}
  <2>1. base[s] \in VersionsOf(next[s])
        /\ \A d \in VersionsOf(next[s]) : d.version <= base[s].version
      BY <1>1, <1>3 DEF LatestOrNothing, Latest
  <2>2. \A d \in VersionsOf(next[s]) : d.version \in Nat
      BY DEF OneWriterInv, IndInv, VersionsOf
  <2> QED
      BY <2>1, <2>2 DEF NextVersion
<1> QED
    BY <1>2, <1>3

\* So it is the one latest version, and nobody is about to write another.
LEMMA InsertIsAbove ==
    ASSUME OneWriterInv, NEW s \in Syncs, InsertDocument(s),
           \A r, t \in Syncs : r = t
    PROVE  LatestInv' /\ OneCurrentVersion'
<1>2. \A d \in VersionsOf(next[s]) : d.version \in Nat /\ d.version < NextVersion(s)
    BY NewestVersion
<1>3. OneCurrentVersion'
    BY <1>2 DEF InsertDocument, OneWriterInv, OneCurrentVersion, VersionsOf
<1>4. \A r \in Syncs : pc'[r] # "write"
    BY DEF InsertDocument, Advance, OneWriterInv, IndInv
<1> QED
    BY <1>3, <1>4 DEF LatestInv

\* With a single sync the latest version read is the latest version written.
LEMMA OneWriterStep ==
    (\A r, t \in Syncs : r = t) /\ OneWriterInv /\ [Next]_vars => OneWriterInv'
<1> SUFFICES ASSUME \A r, t \in Syncs : r = t, OneWriterInv, [Next]_vars
             PROVE  LatestInv' /\ OneCurrentVersion'
    BY IndInvStep DEF OneWriterInv
<1>1. ASSUME docs' = docs, \A s \in Syncs : pc'[s] # "write"
      PROVE  LatestInv' /\ OneCurrentVersion'
    BY <1>1 DEF OneWriterInv, LatestInv, OneCurrentVersion
<1>2. ASSUME UNCHANGED <<docs, sync>>
      PROVE  LatestInv' /\ OneCurrentVersion'
    BY <1>2 DEF sync, OneWriterInv, LatestInv, LatestOrNothing, Latest,
                VersionsOf, OneCurrentVersion
<1>3. ASSUME NEW s \in Syncs, FetchPage(s)
      PROVE  LatestInv' /\ OneCurrentVersion'
    BY <1>1, <1>3 DEF FetchPage, OneWriterInv, IndInv
<1>4. ASSUME NEW s \in Syncs, GetLatestDocument(s)
      PROVE  LatestInv' /\ OneCurrentVersion'
  <2>1. docs' = docs /\ OneCurrentVersion'
      BY <1>4 DEF GetLatestDocument, OneWriterInv, OneCurrentVersion
  <2>2. PICK d \in LatestOrNothing(s) :
            /\ base' = [base EXCEPT ![s] = d]
            /\ pc'[s] = "write" => next'[s] = next[s]
      BY <1>4 DEF GetLatestDocument, Advance, OneWriterInv, IndInv
  <2>3. pc'[s] = "write" => base'[s] \in LatestOrNothing(s)'
      BY <2>1, <2>2 DEF LatestOrNothing, Latest, VersionsOf, OneWriterInv, IndInv
  <2> QED
      BY <2>1, <2>3 DEF LatestInv
<1>5. ASSUME NEW s \in Syncs, DuplicateRejected(s) \/ SyncFails(s)
      PROVE  LatestInv' /\ OneCurrentVersion'
    BY <1>1, <1>5 DEF DuplicateRejected, SyncFails, OneWriterInv, IndInv
<1>6. ASSUME NEW i \in Items, NEW c \in Contents, EditItem(i, c)
      PROVE  LatestInv' /\ OneCurrentVersion'
    BY <1>2, <1>6 DEF EditItem
<1>7. ASSUME UNCHANGED vars
      PROVE  LatestInv' /\ OneCurrentVersion'
    BY <1>2, <1>7 DEF vars, sync
<1> QED
    BY <1>3, <1>4, <1>5, <1>6, <1>7, InsertIsAbove DEF Next

\* A source with one connector has one current version of every item.
THEOREM OneConnectorOneCurrentVersion ==
    (\A r, t \in Syncs : r = t) /\ Spec => []OneCurrentVersion
<1> SUFFICES ASSUME \A r, t \in Syncs : r = t
             PROVE  Spec => []OneCurrentVersion
    OBVIOUS
<1>1. Init => OneWriterInv
    BY IndInvInit DEF Init, OneWriterInv, LatestInv, OneCurrentVersion
<1>2. OneWriterInv => OneCurrentVersion
    BY DEF OneWriterInv
<1>3. OneWriterInv /\ [Next]_vars => OneWriterInv'
    BY OneWriterStep
<1> QED
    BY <1>1, <1>2, <1>3, PTL DEF Spec

-----------------------------------------------------------------------------
(* Versions follow the source: with one connector every page that is       *)
(* fetched is at least as new as all that was ingested before it, so the   *)
(* next version is the newest content of its item that has ever been       *)
(* stored.  An item is followed by the place its contents have in what     *)
(* the source has shown; the items of Reverting may show one twice.        *)

ShownAt(i, c, k) == k \in 1..Len(shown[i]) /\ shown[i][k] = c

SteadyItems == Items \ Reverting

\* A steady item shows every content once.
ShownOnce ==
    \A i \in SteadyItems : \A c, k, m : ShownAt(i, c, k) /\ ShownAt(i, c, m) => k = m

\* What is stored, and what a page holds, has been shown.
KnownContents ==
    /\ \A d \in docs : \E k : ShownAt(d.item, d.content, k)
    /\ \A s \in Syncs, i \in Items : \E k : ShownAt(i, batch[s][i], k)

\* No page is older than what has been stored.
PagesAreNewer ==
    \A s \in Syncs, i \in SteadyItems : \A d \in VersionsOf(i) : \A k, m :
        ShownAt(i, d.content, m) /\ ShownAt(i, batch[s][i], k) => m <= k

InOrder ==
    \A i \in SteadyItems : \A d, e \in VersionsOf(i) : \A k, m :
        ShownAt(i, d.content, k) /\ ShownAt(i, e.content, m) /\ k < m => d.version < e.version

SourceTypes ==
    /\ shown \in [Items -> Seq(Contents)]
    /\ \A i \in Items : Len(shown[i]) \in Nat \ {0}
    /\ batch \in [Syncs -> [Items -> Contents]]

ChronologyInv ==
    OneWriterInv /\ SourceTypes /\ ShownOnce /\ KnownContents /\ PagesAreNewer /\ InOrder

\* The source starts with one content of each item, and nothing is stored.
LEMMA ChronologyInit == Init => SourceTypes /\ ShownOnce /\ KnownContents /\ PagesAreNewer /\ InOrder
<1> SUFFICES ASSUME Init
             PROVE  SourceTypes /\ ShownOnce /\ KnownContents /\ PagesAreNewer /\ InOrder
    OBVIOUS
<1>1. docs = {}
    BY DEF Init
<1>2. \A i \in Items : \E c \in Contents : shown[i] = <<c>>
    BY DEF Init
<1>3. \A i \in Items : /\ shown[i] \in Seq(Contents) /\ Len(shown[i]) = 1
                       /\ shown[i][1] \in Contents
  <2> SUFFICES ASSUME NEW i \in Items
               PROVE  /\ shown[i] \in Seq(Contents) /\ Len(shown[i]) = 1
                      /\ shown[i][1] \in Contents
      OBVIOUS
  <2>1. PICK c \in Contents : shown[i] = <<c>>
      BY <1>2
  <2> QED
      BY <2>1
<1>4. DOMAIN shown = Items /\ shown = [i \in Items |-> shown[i]]
    BY DEF Init
<1>5. batch = [s \in Syncs |-> [i \in Items |-> shown[i][1]]]
    BY <1>3 DEF Init, SourceContent
<1>6. SourceTypes
    BY <1>3, <1>4, <1>5 DEF SourceTypes
<1>7. \A i \in Items : 1..Len(shown[i]) = {1}
  <2>1. 1..1 = {1}
      OBVIOUS
  <2> QED
      BY <1>3, <2>1
<1> QED
    BY <1>1, <1>5, <1>6, <1>7
    DEF ShownOnce, KnownContents, PagesAreNewer, InOrder, VersionsOf, ShownAt, SteadyItems

\* An edit adds one content at the end, a new one if the item is steady.
LEMMA EditAdds ==
    ASSUME SourceTypes, NEW i \in Items, NEW c \in Contents, EditItem(i, c)
    PROVE  /\ SourceTypes'
           /\ \A j \in Items : \A x, k : ShownAt(j, x, k) => ShownAt(j, x, k)'
           /\ \A j \in Items : \A x, k : ShownAt(j, x, k)' =>
                ShownAt(j, x, k) \/ (j = i /\ x = c /\ k = Len(shown[i]) + 1)
           /\ i \notin Reverting => \A k : ~ShownAt(i, c, k)
<1> DEFINE old == shown[i]
           new == Append(old, c)
<1>1. old \in Seq(Contents) /\ Len(old) \in Nat \ {0}
    BY DEF SourceTypes
<1>2. shown' = [shown EXCEPT ![i] = new] /\ batch' = batch
    BY DEF EditItem, sync
<1>3. new \in Seq(Contents) /\ Len(new) = Len(old) + 1 /\ new[Len(old) + 1] = c
    BY <1>1
<1>4. \A k \in 1..Len(old) : new[k] = old[k]
    BY <1>1
<1> HIDE DEF new
<1>5. shown'[i] = new /\ \A j \in Items \ {i} : shown'[j] = shown[j]
    BY <1>2 DEF SourceTypes
<1>6. SourceTypes'
    BY <1>1, <1>2, <1>3, <1>5 DEF SourceTypes
<1>7. \A k : k \in 1..Len(new) <=> k \in 1..Len(old) \/ k = Len(old) + 1
    BY <1>1, <1>3
<1>8. ASSUME i \notin Reverting
      PROVE  \A k : ~ShownAt(i, c, k)
  <2>1. c \notin RangeOf(old)
      BY <1>8 DEF EditItem
  <2>2. DOMAIN old = 1..Len(old)
      BY <1>1
  <2> QED
      BY <2>1, <2>2 DEF ShownAt, RangeOf
<1>9. \A x, k : ShownAt(i, x, k)' <=> ShownAt(i, x, k) \/ (x = c /\ k = Len(old) + 1)
  <2> SUFFICES ASSUME NEW x, NEW k
               PROVE  ShownAt(i, x, k)' <=> ShownAt(i, x, k) \/ (x = c /\ k = Len(old) + 1)
      OBVIOUS
  <2>1. ShownAt(i, x, k)' <=> k \in 1..Len(new) /\ new[k] = x
      BY <1>5 DEF ShownAt
  <2>2. ShownAt(i, x, k) <=> k \in 1..Len(old) /\ old[k] = x
      BY DEF ShownAt
  <2> QED
      BY <1>3, <1>4, <1>7, <2>1, <2>2
<1>10. \A j \in Items \ {i} : \A x, k : ShownAt(j, x, k)' <=> ShownAt(j, x, k)
    BY <1>5 DEF ShownAt
<1> QED
    BY <1>6, <1>8, <1>9, <1>10

\* An edit disturbs no order: its content stands after all others.
LEMMA EditKeepsOrder ==
    ASSUME ChronologyInv, NEW i \in Items, NEW c \in Contents, EditItem(i, c)
    PROVE  SourceTypes' /\ ShownOnce' /\ KnownContents' /\ PagesAreNewer' /\ InOrder'
<1> DEFINE last == Len(shown[i]) + 1
<1>1. docs' = docs /\ batch' = batch
    BY DEF EditItem, sync
<1>2. SourceTypes /\ SourceTypes'
    BY EditAdds DEF ChronologyInv
<1>3. \A j \in Items : \A x, k : ShownAt(j, x, k) => ShownAt(j, x, k)'
    BY <1>2, EditAdds
<1>4. \A j \in Items : \A x, k : ShownAt(j, x, k)' =>
            ShownAt(j, x, k) \/ (j = i /\ x = c /\ k = last)
    BY <1>2, EditAdds
<1>5. i \notin Reverting => \A k : ~ShownAt(i, c, k)
    BY <1>2, EditAdds
<1> HIDE DEF last
<1>6. ShownOnce'
    BY <1>4, <1>5 DEF ChronologyInv, ShownOnce, SteadyItems
<1>7. KnownContents'
    BY <1>1, <1>3 DEF ChronologyInv, OneWriterInv, IndInv, KnownContents
\* A content that was known is where it was.
<1>8. \A j \in SteadyItems : \A x, k : (\E m : ShownAt(j, x, m)) /\ ShownAt(j, x, k)' => ShownAt(j, x, k)
    BY <1>4, <1>5 DEF SteadyItems
<1>9. \A j \in SteadyItems : \A d \in VersionsOf(j) : \A k :
            ShownAt(j, d.content, k)' => ShownAt(j, d.content, k)
    BY <1>8 DEF ChronologyInv, KnownContents, VersionsOf
<1>10. \A s \in Syncs, j \in SteadyItems : \A k :
            ShownAt(j, batch[s][j], k)' => ShownAt(j, batch[s][j], k)
  <2> SUFFICES ASSUME NEW s \in Syncs, NEW j \in SteadyItems, NEW k,
                      ShownAt(j, batch[s][j], k)'
               PROVE  ShownAt(j, batch[s][j], k)
      OBVIOUS
  <2>1. \E m : ShownAt(j, batch[s][j], m)
      BY DEF ChronologyInv, KnownContents, SteadyItems
  <2>2. \A x : x = batch[s][j] => ShownAt(j, x, k)'
      BY <1>1 DEF ShownAt
  <2> QED
      BY <1>8, <2>1, <2>2
<1>11. \A j : VersionsOf(j)' = VersionsOf(j)
    BY <1>1 DEF VersionsOf
<1>12. PagesAreNewer'
  <2> SUFFICES ASSUME NEW s \in Syncs, NEW j \in SteadyItems, NEW d \in VersionsOf(j), NEW k, NEW m,
                      ShownAt(j, d.content, m)', ShownAt(j, batch[s][j], k)'
               PROVE  m <= k
      BY <1>11 DEF PagesAreNewer
  <2> QED
      BY <1>9, <1>10 DEF ChronologyInv, PagesAreNewer
<1>13. InOrder'
    BY <1>9, <1>11 DEF ChronologyInv, InOrder
<1> QED
    BY <1>2, <1>6, <1>7, <1>12, <1>13

\* A page holds the newest content of every item.
LEMMA FetchIsNewest ==
    ASSUME ChronologyInv, NEW s \in Syncs, FetchPage(s), \A r, t \in Syncs : r = t
    PROVE  SourceTypes' /\ ShownOnce' /\ KnownContents' /\ PagesAreNewer' /\ InOrder'
<1>1. shown' = shown /\ docs' = docs
    BY DEF FetchPage
<1>2. \A r \in Syncs, i \in Items : batch'[r][i] = shown[i][Len(shown[i])]
    BY DEF FetchPage, SourceContent, ChronologyInv, SourceTypes
<1>3. \A i \in Items : Len(shown[i]) \in 1..Len(shown[i]) /\ shown[i][Len(shown[i])] \in Contents
  <2> SUFFICES ASSUME NEW i \in Items
               PROVE  Len(shown[i]) \in 1..Len(shown[i]) /\ shown[i][Len(shown[i])] \in Contents
      OBVIOUS
  <2>1. shown[i] \in Seq(Contents) /\ Len(shown[i]) \in Nat \ {0}
      BY DEF ChronologyInv, SourceTypes
  <2> QED
      BY <2>1
<1>4. batch' = [batch EXCEPT ![s] = [i \in Items |-> shown[i][Len(shown[i])]]]
    BY DEF FetchPage, SourceContent
<1>5. SourceTypes'
    BY <1>1, <1>3, <1>4 DEF ChronologyInv, SourceTypes
<1>6. \A i \in Items : \A x, k : ShownAt(i, x, k)' <=> ShownAt(i, x, k)
    BY <1>1 DEF ShownAt
<1>7. \A i : VersionsOf(i)' = VersionsOf(i)
    BY <1>1 DEF VersionsOf
<1>8. \A r \in Syncs, i \in Items : ShownAt(i, batch'[r][i], Len(shown[i]))
    BY <1>2, <1>3 DEF ShownAt
<1>9. ShownOnce' /\ InOrder'
    BY <1>6, <1>7 DEF ChronologyInv, ShownOnce, InOrder, SteadyItems
<1>10. KnownContents'
    BY <1>1, <1>6, <1>8 DEF ChronologyInv, OneWriterInv, IndInv, KnownContents
<1>11. PagesAreNewer'
  <2> SUFFICES ASSUME NEW r \in Syncs, NEW j \in SteadyItems, NEW d \in VersionsOf(j), NEW k, NEW m,
                      ShownAt(j, d.content, m), ShownAt(j, batch'[r][j], k)
               PROVE  m <= k
      BY <1>1, <1>7 DEF PagesAreNewer, ShownAt
  <2>0. j \in Items
      BY DEF SteadyItems
  <2>2. k = Len(shown[j])
      BY <1>8, <2>0 DEF ChronologyInv, ShownOnce
  <2>3. Len(shown[j]) \in Nat
      BY <2>0 DEF ChronologyInv, SourceTypes
  <2> QED
      BY <2>2, <2>3 DEF ShownAt
<1> QED
    BY <1>5, <1>9, <1>10, <1>11

\* The version that is inserted is the newest content, with the highest number.
LEMMA InsertIsNewest ==
    ASSUME ChronologyInv, NEW s \in Syncs, InsertDocument(s), \A r, t \in Syncs : r = t
    PROVE  SourceTypes' /\ ShownOnce' /\ KnownContents' /\ PagesAreNewer' /\ InOrder'
<1> DEFINE it == next[s]
           c == batch[s][next[s]]
           row == [item |-> next[s], content |-> batch[s][next[s]], version |-> NextVersion(s)]
<1>1. shown' = shown /\ batch' = batch /\ docs' = docs \cup {row}
    BY DEF InsertDocument
<1>2. it \in Items
    BY DEF ChronologyInv, OneWriterInv, IndInv
<1>3. row.item = it /\ row.content = c /\ row.version = NextVersion(s)
    OBVIOUS
<1>4. \A d \in VersionsOf(it) : d.version < row.version
    BY NewestVersion DEF ChronologyInv
<1> HIDE DEF row, it, c
<1>5. \A i \in Items : \A x, k : ShownAt(i, x, k)' <=> ShownAt(i, x, k)
    BY <1>1 DEF ShownAt
<1>6. \A i : VersionsOf(i)' = IF i = it THEN VersionsOf(i) \cup {row} ELSE VersionsOf(i)
    BY <1>1, <1>3 DEF VersionsOf
<1>7. SourceTypes' /\ ShownOnce'
    BY <1>1, <1>5 DEF ChronologyInv, SourceTypes, ShownOnce, SteadyItems
<1>8. \E k : ShownAt(it, c, k)
    BY <1>2 DEF ChronologyInv, KnownContents, it, c
<1>9. KnownContents'
    BY <1>1, <1>2, <1>3, <1>5, <1>8 DEF ChronologyInv, OneWriterInv, IndInv, KnownContents
<1>10. \A r \in Syncs : batch[r][it] = c
    BY DEF it, c
<1>11. \A k, m : it \in SteadyItems /\ ShownAt(it, c, k) /\ ShownAt(it, c, m) => k = m
    BY DEF ChronologyInv, ShownOnce
<1>12. \A k : it \in SteadyItems /\ ShownAt(it, c, k) => k \in Nat
  <2>1. \A i \in Items : Len(shown[i]) \in Nat
      BY DEF ChronologyInv, SourceTypes
  <2> QED
      BY <1>2, <2>1 DEF ShownAt
<1>13. PagesAreNewer'
  <2> SUFFICES ASSUME NEW r \in Syncs, NEW j \in SteadyItems, NEW d \in VersionsOf(j)', NEW k, NEW m,
                      ShownAt(j, d.content, m), ShownAt(j, batch[r][j], k)
               PROVE  m <= k
      BY <1>1, <1>5 DEF PagesAreNewer, SteadyItems
  <2>1. CASE d \in VersionsOf(j)
      BY <2>1 DEF ChronologyInv, PagesAreNewer
  <2>2. CASE j = it /\ d = row
    <3>1. ShownAt(it, c, m) /\ ShownAt(it, c, k)
        BY <1>3, <1>10, <2>2
    <3>2. m = k /\ k \in Nat
        BY <1>11, <1>12, <2>2, <3>1
    <3> QED
        BY <3>2
  <2> QED
      BY <1>6, <2>1, <2>2
<1>14. \A d \in VersionsOf(it) : \A k, m :
            it \in SteadyItems /\ ShownAt(it, d.content, m) /\ ShownAt(it, c, k) => m <= k
    BY <1>10 DEF ChronologyInv, PagesAreNewer
<1>15. InOrder'
  <2> SUFFICES ASSUME NEW j \in SteadyItems, NEW d \in VersionsOf(j)', NEW e \in VersionsOf(j)',
                      NEW k, NEW m,
                      ShownAt(j, d.content, k), ShownAt(j, e.content, m), k < m
               PROVE  d.version < e.version
      BY <1>5 DEF InOrder, SteadyItems
  <2>0. k \in Nat /\ m \in Nat
    <3>1. Len(shown[j]) \in Nat
        BY DEF ChronologyInv, SourceTypes, SteadyItems
    <3> QED
        BY <3>1 DEF ShownAt
  <2>1. CASE d \in VersionsOf(j) /\ e \in VersionsOf(j)
      BY <2>1 DEF ChronologyInv, InOrder
  <2>2. CASE j = it /\ d \in VersionsOf(j) /\ e = row
      BY <1>4, <2>2
  <2>3. CASE j = it /\ e \in VersionsOf(j) /\ d = row
    <3>1. m <= k
        BY <1>3, <1>14, <2>3
    <3> QED
        BY <2>0, <3>1
  <2>4. CASE j = it /\ d = row /\ e = row
    <3>1. k = m
        BY <1>3, <1>11, <2>4
    <3> QED
        BY <2>0, <3>1
  <2> QED
      BY <1>6, <2>1, <2>2, <2>3, <2>4
<1> QED
    BY <1>7, <1>9, <1>13, <1>15

\* With a single sync, every step keeps the versions in the source's order.
LEMMA ChronologyStep ==
    (\A r, t \in Syncs : r = t) /\ ChronologyInv /\ [Next]_vars => ChronologyInv'
<1> SUFFICES ASSUME \A r, t \in Syncs : r = t, ChronologyInv, [Next]_vars
             PROVE  SourceTypes' /\ ShownOnce' /\ KnownContents' /\ PagesAreNewer' /\ InOrder'
    BY OneWriterStep DEF ChronologyInv
<1>1. ASSUME UNCHANGED <<shown, docs, batch>>
      PROVE  SourceTypes' /\ ShownOnce' /\ KnownContents' /\ PagesAreNewer' /\ InOrder'
    BY <1>1 DEF ChronologyInv, SourceTypes, ShownOnce, KnownContents, PagesAreNewer, InOrder,
                ShownAt, VersionsOf
<1>2. ASSUME NEW s \in Syncs, GetLatestDocument(s) \/ DuplicateRejected(s) \/ SyncFails(s)
      PROVE  UNCHANGED <<shown, docs, batch>>
    BY <1>2 DEF GetLatestDocument, DuplicateRejected, SyncFails
<1>3. UNCHANGED vars => UNCHANGED <<shown, docs, batch>>
    BY DEF vars
<1> QED
    BY <1>1, <1>2, <1>3, EditKeepsOrder, FetchIsNewest, InsertIsNewest DEF Next

\* The place of a content is the first place where it was shown.
LEMMA OrderIsChronology == ChronologyInv => Chronology
<1> SUFFICES ASSUME ChronologyInv, NEW d \in docs, NEW e \in docs, d.item = e.item,
                    d.item \notin Reverting,
                    FirstShown(d.item, d.content) < FirstShown(d.item, e.content)
             PROVE  d.version < e.version
    BY DEF Chronology
<1> DEFINE i == d.item
<1>1. i \in SteadyItems /\ d \in VersionsOf(i) /\ e \in VersionsOf(i)
    BY DEF ChronologyInv, OneWriterInv, IndInv, SteadyItems, VersionsOf
<1>2. DOMAIN shown[i] = 1..Len(shown[i]) /\ Len(shown[i]) \in Nat
  <2>1. shown[i] \in Seq(Contents)
      BY <1>1 DEF ChronologyInv, SourceTypes, SteadyItems
  <2> QED
      BY <2>1
<1>3. \A c : (\E k : ShownAt(i, c, k)) => ShownAt(i, c, FirstShown(i, c))
  <2> SUFFICES ASSUME NEW c, NEW k, ShownAt(i, c, k)
               PROVE  ShownAt(i, c, FirstShown(i, c))
      OBVIOUS
  <2>1. k \in DOMAIN shown[i] /\ shown[i][k] = c /\ k \in Nat
      BY <1>2 DEF ShownAt
  <2>2. \A m \in DOMAIN shown[i] : shown[i][m] = c => k <= m
    <3> SUFFICES ASSUME NEW m \in DOMAIN shown[i], shown[i][m] = c
                 PROVE  k <= m
        OBVIOUS
    <3>1. ShownAt(i, c, m)
        BY <1>2 DEF ShownAt
    <3>2. m = k
        BY <1>1, <3>1 DEF ChronologyInv, ShownOnce
    <3> QED
        BY <2>1, <3>2
  <2>3. FirstShown(i, c) \in DOMAIN shown[i] /\ shown[i][FirstShown(i, c)] = c
      BY <2>1, <2>2 DEF FirstShown
  <2> QED
      BY <1>2, <2>3 DEF ShownAt
<1>4. ShownAt(i, d.content, FirstShown(i, d.content)) /\ ShownAt(i, e.content, FirstShown(i, e.content))
    BY <1>3 DEF ChronologyInv, KnownContents
<1> QED
    BY <1>1, <1>4 DEF ChronologyInv, InOrder

\* With one connector of a source, the versions of an item that never returns to an
\* earlier content are in the order in which the source showed their contents,
\* although _process_one_item works on an old page.
THEOREM OneConnectorKeepsChronology ==
    (\A r, t \in Syncs : r = t) /\ Spec => []Chronology
<1> SUFFICES ASSUME \A r, t \in Syncs : r = t
             PROVE  Spec => []Chronology
    OBVIOUS
<1>1. Init => OneWriterInv
    BY IndInvInit DEF Init, OneWriterInv, LatestInv, OneCurrentVersion
<1>2. Init => ChronologyInv
    BY <1>1, ChronologyInit DEF ChronologyInv
<1>3. ChronologyInv /\ [Next]_vars => ChronologyInv'
    BY ChronologyStep
<1> QED
    BY <1>2, <1>3, OrderIsChronology, PTL DEF Spec

-----------------------------------------------------------------------------
(* Types, for any number of syncs.                                         *)

NonEmpty == \A i \in Items : Len(shown[i]) \in Nat \ {0}

\* What the source shows is a content, and an edit adds one.
LEMMA ShownTypes ==
    ASSUME shown \in [Items -> Seq(Contents)], NonEmpty, NEW i \in Items
    PROVE  /\ SourceContent(i) \in Contents
           /\ \A c \in Contents : /\ Append(shown[i], c) \in Seq(Contents)
                                  /\ Len(Append(shown[i], c)) \in Nat \ {0}
<1>1. shown[i] \in Seq(Contents) /\ Len(shown[i]) \in Nat \ {0}
    BY DEF NonEmpty
<1> QED
    BY <1>1 DEF SourceContent

\* The version that follows a row, or nothing, is a version.
LEMMA NextVersionType ==
    ASSUME TypeOK, NEW s \in Syncs
    PROVE  NextVersion(s) \in Nat \ {0}
<1>1. base[s] \in Document \/ base[s] = Nothing
    BY DEF TypeOK
<1>2. base[s].version \in Nat
    BY <1>1 DEF Document, Nothing
<1> QED
    BY <1>2 DEF NextVersion

\* What is read is a row or nothing.
LEMMA LatestTypes ==
    ASSUME TypeOK, NEW s \in Syncs
    PROVE  LatestOrNothing(s) \subseteq Document \cup {Nothing}
BY DEF TypeOK, LatestOrNothing, Latest, VersionsOf

\* The next item of a page is an item.
LEMMA AdvanceTypes ==
    ASSUME TypeOK, NEW s \in Syncs, Advance(s)
    PROVE  pc' \in [Syncs -> Stages] /\ next' \in [Syncs -> Items]
<1>1. pc \in [Syncs -> Stages] /\ next \in [Syncs -> Items]
    BY DEF TypeOK
<1>2. CASE next[s] < NumItems
  <2>1. next[s] + 1 \in Items
      BY <1>1, <1>2, DocumentsConstants DEF Items
  <2>2. next' = [next EXCEPT ![s] = next[s] + 1] /\ pc' = [pc EXCEPT ![s] = "read"]
      BY <1>2 DEF Advance
  <2> QED
      BY <1>1, <2>1, <2>2 DEF Stages
<1>3. CASE ~(next[s] < NumItems)
  <2>1. pc' = [pc EXCEPT ![s] = "idle"] /\ next' = next
      BY <1>3 DEF Advance
  <2> QED
      BY <1>1, <2>1 DEF Stages
<1> QED
    BY <1>2, <1>3

\* Every step keeps the types.
LEMMA TypesStep == TypeOK /\ NonEmpty /\ [Next]_vars => TypeOK' /\ NonEmpty'
<1> SUFFICES ASSUME TypeOK, NonEmpty, [Next]_vars
             PROVE  TypeOK' /\ NonEmpty'
    OBVIOUS
<1>0. 1 \in Items
    BY DocumentsConstants DEF Items
<1>1. ASSUME NEW i \in Items, NEW c \in Contents, EditItem(i, c)
      PROVE  TypeOK' /\ NonEmpty'
  <2> DEFINE new == Append(shown[i], c)
  <2>1. new \in Seq(Contents) /\ Len(new) \in Nat \ {0}
      BY ShownTypes DEF TypeOK
  <2>2. shown' = [shown EXCEPT ![i] = new] /\ UNCHANGED <<docs, pc, batch, next, base>>
      BY <1>1 DEF EditItem, sync
  <2> HIDE DEF new
  <2>3. shown' \in [Items -> Seq(Contents)] /\ NonEmpty'
      BY <2>1, <2>2 DEF TypeOK, NonEmpty
  <2> QED
      BY <2>2, <2>3 DEF TypeOK
<1>2. ASSUME NEW s \in Syncs, FetchPage(s)
      PROVE  TypeOK' /\ NonEmpty'
  <2>1. [i \in Items |-> SourceContent(i)] \in [Items -> Contents]
      BY ShownTypes DEF TypeOK
  <2>2. batch' \in [Syncs -> [Items -> Contents]]
      BY <1>2, <2>1 DEF FetchPage, TypeOK
  <2>3. pc' \in [Syncs -> Stages] /\ next' \in [Syncs -> Items]
      BY <1>0, <1>2 DEF FetchPage, TypeOK, Stages
  <2>4. shown' = shown /\ docs' = docs /\ base' = base
      BY <1>2 DEF FetchPage
  <2> QED
      BY <2>2, <2>3, <2>4 DEF TypeOK, NonEmpty
<1>3. ASSUME NEW s \in Syncs, GetLatestDocument(s)
      PROVE  TypeOK' /\ NonEmpty'
  <2>1. base' \in [Syncs -> Document \cup {Nothing}]
      BY <1>3, LatestTypes DEF GetLatestDocument, TypeOK
  <2>2. pc' \in [Syncs -> Stages] /\ next' \in [Syncs -> Items]
      BY <1>3, AdvanceTypes DEF GetLatestDocument, TypeOK, Stages
  <2>3. shown' = shown /\ docs' = docs /\ batch' = batch
      BY <1>3 DEF GetLatestDocument
  <2> QED
      BY <2>1, <2>2, <2>3 DEF TypeOK, NonEmpty
<1>4. ASSUME NEW s \in Syncs, InsertDocument(s)
      PROVE  TypeOK' /\ NonEmpty'
  <2>1. next[s] \in Items /\ batch[s][next[s]] \in Contents /\ NextVersion(s) \in Nat \ {0}
      BY NextVersionType DEF TypeOK
  <2>2. docs' \subseteq Document
      BY <1>4, <2>1 DEF InsertDocument, TypeOK, Document
  <2>3. pc' \in [Syncs -> Stages] /\ next' \in [Syncs -> Items]
      BY <1>4, AdvanceTypes DEF InsertDocument
  <2>4. shown' = shown /\ batch' = batch /\ base' = base
      BY <1>4 DEF InsertDocument
  <2> QED
      BY <2>2, <2>3, <2>4 DEF TypeOK, NonEmpty
<1>5. ASSUME NEW s \in Syncs, DuplicateRejected(s) \/ SyncFails(s)
      PROVE  TypeOK' /\ NonEmpty'
    BY <1>5 DEF DuplicateRejected, SyncFails, TypeOK, NonEmpty, Stages
<1>6. ASSUME UNCHANGED vars
      PROVE  TypeOK' /\ NonEmpty'
    BY <1>6 DEF vars, TypeOK, NonEmpty
<1> QED
    BY <1>1, <1>2, <1>3, <1>4, <1>5, <1>6 DEF Next

\* The table and the pages keep their types.
THEOREM DocumentTypesHold == Spec => []TypeOK
<1>1. ASSUME Init
      PROVE  TypeOK /\ NonEmpty
  <2>1. SourceTypes
      BY <1>1, ChronologyInit
  <2>2. 1 \in Items
      BY DocumentsConstants DEF Items
  <2> QED
      BY <1>1, <2>1, <2>2 DEF Init, SourceTypes, TypeOK, NonEmpty, Stages
<1>2. Init => TypeOK /\ NonEmpty
    BY <1>1
<1> QED
    BY <1>2, TypesStep, PTL DEF Spec

-----------------------------------------------------------------------------
(* The walks of the internal connectors (InternalSync).                    *)

\* How many of the selected records have a smaller sort key.
KeyOrder(key) == {e \in Records \X Records : key[e[1]] < key[e[2]]}
Preceding(i, sel, key) == RankIn(i, sel, KeyOrder(key))

\* What this sync still has to bring in: nobody has changed it meanwhile.
Pending(i) == i \in stale /\ i \in fresh /\ i \notin touched

\* The listings that do not shift towards the pages already read: that of the postmortems,
\* by creation, and that of the incidents while nobody works on them.
Steady == connector = "runbooks" \/ quiet

\* Where the sync stands, what is pending is on the page in its hands or still to come;
\* and where a sync resumes, all of it is still to come.
Reached(i) ==
    LET rank == Preceding(i, fresh \cap listed, place)
    IN /\ rank >= saved
       /\ phase = "fetch" => rank >= offset
       /\ phase = "items" => \/ \E k \in DOMAIN page : page[k] = i
                             \/ more /\ rank >= offset
       /\ phase # "complete"
ReachInv == Steady => \A i \in Records : Pending(i) => Reached(i)

\* While a walk is under way, or can be resumed, people who leave it in peace change nothing.
PeaceInv == quiet /\ (phase # "idle" \/ saved # 0) => touched = {}

PageInv == phase # "items" => page = <<>>

HeldInv == SyncTypeOK /\ PageInv /\ PeaceInv /\ ReachInv /\ QuietIncidentsAreKept

\* Places are numbers, at most as many as there are records.
LEMMA PlaceFacts ==
    ASSUME SyncTypeOK
    PROVE  /\ IsFiniteSet(Existing) /\ Cardinality(Existing) \in Nat
           /\ \A i \in Records : place[i] \in Nat /\ place[i] <= Cardinality(Existing)
<1>1. IsFiniteSet(Existing)
  <2>1. Existing \subseteq Records
    BY DEF Existing
  <2> QED
    BY <2>1, InternalSyncConstants, FS_Subset
<1>2. Cardinality(Existing) \in Nat
  BY <1>1, FS_CardinalityType
<1>3. place \in [Records -> 0..Cardinality(Existing)]
  BY DEF SyncTypeOK
<1> DEFINE n == Cardinality(Existing)
<1> HIDE DEF n
<1>4. \A i \in Records : place[i] \in Nat /\ place[i] <= n
  BY <1>2, <1>3 DEF n
<1> QED
  BY <1>1, <1>2, <1>4 DEF n

\* A record that is moved to the end, or created there, leaves the others in their order.
LEMMA MovedToEnd ==
    ASSUME SyncTypeOK, NEW i \in Records, place' = MoveToEnd(i)
    PROVE  /\ Existing' = Existing \cup {i}
           /\ place' \in [Records -> 0..Cardinality(Existing')]
           /\ \A j, k \in Existing' : place'[j] = place'[k] => j = k
           /\ place[i] = 0 => \A j \in Records : j # i => place'[j] = place[j]
<1> DEFINE m == Cardinality(Existing \cup {i})
           n == Cardinality(Existing)
<1>1. /\ IsFiniteSet(Existing) /\ n \in Nat
      /\ \A j \in Records : place[j] \in Nat /\ place[j] <= n
  BY PlaceFacts
<1>2. /\ m \in Nat /\ m # 0
      /\ i \in Existing => m = n
      /\ i \notin Existing => m = n + 1
  <2>1. i \in Existing => Existing \cup {i} = Existing
    OBVIOUS
  <2>2. m = IF i \in Existing THEN n ELSE n + 1
    BY <1>1, FS_AddElement
  <2>3. i \in Existing => n # 0
    BY <1>1, FS_EmptySet
  <2> QED
    BY <1>1, <2>2, <2>3
<1>3. \A j \in Records : place'[j] =
        IF j = i THEN m
        ELSE IF place[i] # 0 /\ place[j] > place[i] THEN place[j] - 1 ELSE place[j]
  BY DEF MoveToEnd
<1>4. place[i] # 0 <=> i \in Existing
  BY DEF Existing
<1> HIDE DEF m, n
<1>5. ASSUME NEW j \in Records
      PROVE  place'[j] \in 0..m /\ (place'[j] # 0 <=> place[j] # 0 \/ j = i)
  <2>1. CASE j = i
    BY <1>2, <1>3, <2>1
  <2>2. CASE j # i
    <3> DEFINE old == place[j]
               new == place'[j]
               from == place[i]
    <3>1. old \in Nat /\ old <= n /\ from \in Nat /\ n \in Nat /\ m \in Nat /\ n <= m
      BY <1>1, <1>2, <1>4
    <3>2. new = IF from # 0 /\ old > from THEN old - 1 ELSE old
      BY <1>3, <2>2
    <3> HIDE DEF old, new, from
    <3>3. new \in 0..m /\ (new # 0 <=> old # 0)
      BY <3>1, <3>2
    <3> QED
      BY <2>2, <3>3 DEF old, new
  <2> QED
    BY <2>1, <2>2
<1>6. Existing' = Existing \cup {i}
  BY <1>5 DEF Existing
<1>7. place' \in [Records -> 0..m]
  <2>1. place' = [j \in Records |-> place'[j]]
    BY DEF MoveToEnd
  <2> QED
    BY <1>5, <2>1
<1>8. ASSUME NEW j \in Existing', NEW k \in Existing', place'[j] = place'[k], j # k
      PROVE  FALSE
  <2>1. j \in Existing \cup {i} /\ k \in Existing \cup {i} /\ j \in Records /\ k \in Records
    BY <1>6 DEF Existing
  <2>2. \A x, y \in Existing : place[x] = place[y] => x = y
    BY DEF SyncTypeOK
  <2>3. ASSUME NEW x \in Existing, x # i
        PROVE  place'[x] < m
    <3>1. x \in Records /\ place[x] \in Nat /\ place[x] <= n /\ place[i] \in Nat /\ place[i] <= n
      BY <1>1 DEF Existing
    <3>2. CASE i \in Existing
      <4>1. place[x] # place[i] /\ place[i] # 0 /\ m = n
        BY <1>2, <1>4, <2>2, <2>3, <3>2
      <4> QED
        BY <1>1, <1>3, <2>3, <3>1, <4>1
    <3>3. CASE i \notin Existing
      <4>1. place'[x] = place[x] /\ m = n + 1
        BY <1>2, <1>3, <1>4, <2>3, <3>1, <3>3
      <4> QED
        BY <1>1, <3>1, <4>1
    <3> QED
      BY <3>2, <3>3
  <2>4. place'[i] = m
    BY <1>3
  <2>5. j # i /\ k # i
    BY <1>2, <1>8, <2>1, <2>3, <2>4
  <2>6. j \in Existing /\ k \in Existing
    BY <2>1, <2>5
  <2>7. /\ place[j] \in Nat /\ place[k] \in Nat /\ place[i] \in Nat /\ place[j] # place[k]
        /\ place[i] # 0 => place[j] # place[i] /\ place[k] # place[i]
    BY <1>1, <1>4, <1>8, <2>1, <2>2, <2>5, <2>6
  <2>8. /\ place'[j] = IF place[i] # 0 /\ place[j] > place[i] THEN place[j] - 1 ELSE place[j]
        /\ place'[k] = IF place[i] # 0 /\ place[k] > place[i] THEN place[k] - 1 ELSE place[k]
    BY <1>3, <2>1, <2>5
  <2> DEFINE a == place[j]
             b == place[k]
             c == place[i]
  <2>9. (IF c # 0 /\ a > c THEN a - 1 ELSE a) = (IF c # 0 /\ b > c THEN b - 1 ELSE b)
    BY <1>8, <2>8
  <2>10. /\ a \in Nat /\ b \in Nat /\ c \in Nat /\ a # b
         /\ c # 0 => a # c /\ b # c
    BY <2>7
  <2> HIDE DEF a, b, c
  <2> QED
    BY <2>9, <2>10
<1>9. place[i] = 0 => \A j \in Records : j # i => place'[j] = place[j]
  BY <1>3
<1>10. m = Cardinality(Existing')
  BY <1>6 DEF m
<1> QED
  BY <1>6, <1>7, <1>8, <1>9, <1>10

\* The selection is finite, and its sort keys order it.
LEMMA SelectionFacts ==
    ASSUME SyncTypeOK
    PROVE  /\ IsFiniteSet(Selected) /\ Cardinality(Selected) \in Nat
           /\ Orders(KeyOrder(place), Selected)
           /\ Selected \subseteq Records
           /\ \A i \in Records : Rank(i) = Preceding(i, Selected, place)
<1>1. Selected \subseteq Existing /\ Existing \subseteq Records
  BY DEF SyncTypeOK, Selected, Existing
<1>2. IsFiniteSet(Selected) /\ Cardinality(Selected) \in Nat
  BY <1>1, PlaceFacts, FS_Subset, FS_CardinalityType
<1>3. \A i, j \in Selected : <<i, j>> \in KeyOrder(place) <=> place[i] < place[j]
  BY <1>1 DEF KeyOrder
<1>4. \A i \in Selected : place[i] \in Nat
  BY <1>1, PlaceFacts
<1>5. \A i, j \in Selected : place[i] = place[j] => i = j
  BY <1>1 DEF SyncTypeOK
<1>6. \A i, j \in Selected : i = j \/ place[i] < place[j] \/ place[j] < place[i]
  BY <1>4, <1>5
<1>7. Orders(KeyOrder(place), Selected)
  BY <1>3, <1>4, <1>6 DEF Orders
<1>8. ASSUME NEW i \in Records
      PROVE  Rank(i) = Preceding(i, Selected, place)
  <2>1. {j \in Selected : place[j] < place[i]} = {j \in Selected : <<j, i>> \in KeyOrder(place)}
    BY <1>1 DEF KeyOrder
  <2> QED
    BY <2>1 DEF Rank, Preceding, RankIn
<1> QED
  BY <1>1, <1>2, <1>7, <1>8

\* Whatever else comes to be selected, nothing comes nearer to the beginning.
LEMMA RanksGrow ==
    ASSUME NEW sel, NEW wider, sel \subseteq wider, IsFiniteSet(wider), NEW key, NEW new, NEW i,
           \A k \in sel : <<k, i>> \in KeyOrder(key) => <<k, i>> \in KeyOrder(new)
    PROVE  /\ Preceding(i, sel, key) \in Nat /\ Preceding(i, wider, new) \in Nat
           /\ Preceding(i, wider, new) >= Preceding(i, sel, key)
<1> DEFINE before == {k \in sel : <<k, i>> \in KeyOrder(key)}
           after == {k \in wider : <<k, i>> \in KeyOrder(new)}
<1>1. before \subseteq after /\ after \subseteq wider
  OBVIOUS
<1>2. Preceding(i, sel, key) = Cardinality(before) /\ Preceding(i, wider, new) = Cardinality(after)
  BY DEF Preceding, RankIn
<1> HIDE DEF before, after
<1>3. IsFiniteSet(after) /\ IsFiniteSet(before)
  BY <1>1, FS_Subset
<1>4. Cardinality(before) \in Nat /\ Cardinality(after) \in Nat /\ Cardinality(before) <= Cardinality(after)
  BY <1>1, <1>3, FS_Subset, FS_CardinalityType
<1> QED
  BY <1>2, <1>4

\* At the beginning there is nothing to bring in.
LEMMA HeldInitially == SyncInit => HeldInv
<1> SUFFICES ASSUME SyncInit PROVE HeldInv
  OBVIOUS
<1>1. Existing = {}
  BY DEF SyncInit, Existing
<1>2. Cardinality(Existing) = 0
  BY <1>1, FS_EmptySet
<1>3. SyncTypeOK
  <2>1. place \in [Records -> 0..0]
    BY DEF SyncInit
  <2>2. <<>> \in Seq(listed \cup {Outdated})
    BY EmptySeq
  <2> QED
    BY <1>1, <1>2, <2>1, <2>2 DEF SyncInit, SyncTypeOK
<1>4. PageInv /\ PeaceInv /\ ReachInv /\ QuietIncidentsAreKept
  BY DEF SyncInit, PageInv, PeaceInv, ReachInv, Pending, QuietIncidentsAreKept, NothingLost
<1> QED
  BY <1>3, <1>4 DEF HeldInv

\* What a change of a record does to the page.
LEMMA PageChanges ==
    ASSUME SyncTypeOK, NEW i \in Records, Change(i), listed \subseteq listed'
    PROVE  /\ page' \in Seq(listed' \cup {Outdated})
           /\ page = <<>> => page' = <<>>
           /\ \A j \in Records : j # i /\ (\E k \in DOMAIN page : page[k] = j) =>
                \E k \in DOMAIN page' : page'[k] = j
<1>1. page \in Seq(listed \cup {Outdated}) /\ DOMAIN page = 1..Len(page) /\ Len(page) \in Nat
  BY DEF SyncTypeOK
<1>2. page' = [k \in DOMAIN page |-> IF page[k] = i THEN Outdated ELSE page[k]]
  BY DEF Change
<1>3. \A k \in 1..Len(page) : page'[k] \in listed' \cup {Outdated}
  BY <1>1, <1>2
<1>4. page' \in [1..Len(page) -> listed' \cup {Outdated}]
  BY <1>1, <1>2, <1>3
<1>5. page' \in Seq(listed' \cup {Outdated})
  BY <1>1, <1>4, SeqDef
<1>6. page = <<>> => page' = <<>>
  <2> SUFFICES ASSUME page = <<>> PROVE page' = <<>>
    OBVIOUS
  <2>1. Len(page) = 0
    OBVIOUS
  <2>2. DOMAIN page' = 1..0
    BY <1>1, <1>2, <2>1
  <2>3. Len(page') = 0
    BY <1>5, <2>2
  <2> QED
    BY <1>5, <2>3, EmptySeq
<1>7. ASSUME NEW j \in Records, j # i, NEW k \in DOMAIN page, page[k] = j
      PROVE  k \in DOMAIN page' /\ page'[k] = j
  BY <1>2, <1>7
<1> QED
  BY <1>5, <1>6, <1>7

\* While people work nothing is pending of an incident, and no walk is on its way, when
\* they leave the syncs in peace.
LEMMA WorkInPeace ==
    ASSUME HeldInv, MayWork, connector = "incidents", SyncTypeOK', NEW i \in Records,
           UNCHANGED <<setting, phase, offset, more, saved>>, fresh' = fresh \cup {i},
           stale' = stale \cup {i}, PageInv'
    PROVE  HeldInv'
<1>1. PeaceInv' /\ ReachInv'
  <2> SUFFICES ASSUME quiet \/ connector = "runbooks"
               PROVE  /\ quiet /\ (phase # "idle" \/ saved # 0) => touched' = {}
                      /\ \A j \in Records : Reached(j)'
    BY DEF PeaceInv, ReachInv, Steady, connector, quiet
  <2>1. phase = "idle" /\ saved = 0
    BY DEF MayWork
  <2>2. ASSUME NEW j \in Records
        PROVE  Reached(j)'
    <3>1. IsFiniteSet(Selected)'
      BY SelectionFacts, PTL
    <3>2. Preceding(j, fresh' \cap listed', place') \in Nat
      BY <3>1, RanksGrow DEF Selected
    <3>3. Preceding(j, fresh' \cap listed', place') >= 0
      BY <3>2
    <3> QED
      BY <2>1, <3>3 DEF Reached
  <2> QED
    BY <2>1, <2>2
<1>2. QuietIncidentsAreKept'
  BY DEF HeldInv, QuietIncidentsAreKept, NothingLost, connector, quiet
<1> QED
  BY <1>1, <1>2 DEF HeldInv

LEMMA IncidentsHeld ==
    ASSUME HeldInv, NEW i \in Records, CreateIncident(i) \/ UpdateIncident(i)
    PROVE  HeldInv'
<1>1. /\ connector = "incidents" /\ MayWork /\ place' = MoveToEnd(i)
      /\ fresh' = fresh \cup {i} /\ listed' = listed \cup {i} /\ Change(i)
  BY DEF CreateIncident, UpdateIncident
<1>2. /\ stale' = stale \cup {i} /\ touched' = touched \cup {i}
      /\ UNCHANGED <<setting, phase, offset, more, saved>>
  BY <1>1 DEF Change, walk
<1>3. SyncTypeOK /\ PageInv
  BY DEF HeldInv
<1>4. /\ Existing' = Existing \cup {i}
      /\ place' \in [Records -> 0..Cardinality(Existing')]
      /\ \A j, k \in Existing' : place'[j] = place'[k] => j = k
  BY <1>1, <1>3, MovedToEnd
<1>5. page' \in Seq(listed' \cup {Outdated}) /\ (page = <<>> => page' = <<>>)
  BY <1>1, <1>3, PageChanges
<1>6. SyncTypeOK'
  BY <1>1, <1>2, <1>3, <1>4, <1>5 DEF SyncTypeOK
<1>7. PageInv'
  BY <1>2, <1>3, <1>5 DEF PageInv
<1> QED
  BY <1>1, <1>2, <1>6, <1>7, WorkInPeace

\* A draft is not selected, and comes after the others.
LEMMA CreatePostmortemHeld ==
    ASSUME HeldInv, NEW i \in Records, CreatePostmortem(i)
    PROVE  HeldInv'
<1>1. /\ connector = "runbooks" /\ MayWork /\ i \notin Existing /\ place' = MoveToEnd(i)
      /\ fresh' = fresh \cup {i}
      /\ UNCHANGED <<setting, listed, stale, touched, phase, offset, more, saved, page>>
  BY DEF CreatePostmortem, walk
<1>2. SyncTypeOK /\ PageInv /\ PeaceInv /\ ReachInv
  BY DEF HeldInv
<1>3. /\ Existing' = Existing \cup {i}
      /\ place' \in [Records -> 0..Cardinality(Existing')]
      /\ \A j, k \in Existing' : place'[j] = place'[k] => j = k
      /\ \A j \in Records : j # i => place'[j] = place[j]
  BY <1>1, <1>2, MovedToEnd DEF Existing
<1>4. SyncTypeOK'
  BY <1>1, <1>2, <1>3 DEF SyncTypeOK
<1>5. i \notin listed /\ stale \subseteq listed /\ listed \subseteq Records
  BY <1>1, <1>2 DEF SyncTypeOK, Existing
<1>6. fresh' \cap listed' = fresh \cap listed
  BY <1>1, <1>5
<1>7. ASSUME Steady, NEW j \in Records, Pending(j)'
      PROVE  Reached(j)'
  <2>1. Pending(j) /\ j # i
    BY <1>1, <1>5, <1>7 DEF Pending
  <2>2. Reached(j)
    BY <1>2, <1>7, <2>1 DEF ReachInv
  <2>3. {k \in fresh \cap listed : <<k, j>> \in KeyOrder(place')}
          = {k \in fresh \cap listed : <<k, j>> \in KeyOrder(place)}
    BY <1>3, <1>5, <2>1 DEF KeyOrder
  <2>4. Preceding(j, fresh' \cap listed', place') = Preceding(j, fresh \cap listed, place)
    BY <1>6, <2>3 DEF Preceding, RankIn
  <2> QED
    BY <1>1, <2>2, <2>4 DEF Reached
<1>8. Steady' = Steady
  BY <1>1 DEF Steady, connector, quiet
<1>9. ReachInv' /\ PageInv' /\ PeaceInv'
  BY <1>1, <1>2, <1>7, <1>8 DEF ReachInv, PageInv, PeaceInv, quiet
<1>10. QuietIncidentsAreKept'
  BY <1>1 DEF QuietIncidentsAreKept, connector
<1> QED
  BY <1>4, <1>9, <1>10 DEF HeldInv

\* An approval pushes the postmortems after it to later pages.
LEMMA ApprovePostmortemHeld ==
    ASSUME HeldInv, NEW i \in Records, ApprovePostmortem(i)
    PROVE  HeldInv'
<1>1. /\ connector = "runbooks" /\ MayWork /\ i \in Existing \ listed
      /\ listed' = listed \cup {i} /\ Change(i)
      /\ stale' = stale \cup {i} /\ touched' = touched \cup {i}
      /\ UNCHANGED <<setting, place, fresh, phase, offset, more, saved>>
  BY DEF ApprovePostmortem, Change, walk
<1>2. SyncTypeOK /\ PageInv /\ PeaceInv /\ ReachInv
  BY DEF HeldInv
<1>3. /\ page' \in Seq(listed' \cup {Outdated}) /\ (page = <<>> => page' = <<>>)
      /\ \A j \in Records : j # i /\ (\E k \in DOMAIN page : page[k] = j) =>
           \E k \in DOMAIN page' : page'[k] = j
  BY <1>1, <1>2, PageChanges
<1>4. Existing' = Existing
  BY <1>1 DEF Existing
<1>5. SyncTypeOK'
  BY <1>1, <1>2, <1>3, <1>4 DEF SyncTypeOK
<1>6. IsFiniteSet(fresh' \cap listed') /\ fresh \cap listed \subseteq fresh' \cap listed'
  <2>1. IsFiniteSet(Selected)'
    BY <1>5, SelectionFacts, PTL
  <2> QED
    BY <1>1, <2>1 DEF Selected
<1>7. ASSUME Steady, NEW j \in Records, Pending(j)'
      PROVE  Reached(j)'
  <2>1. Pending(j) /\ j # i
    BY <1>1, <1>7 DEF Pending
  <2>2. Reached(j)
    BY <1>2, <1>7, <2>1 DEF ReachInv
  <2> DEFINE old == Preceding(j, fresh \cap listed, place)
             new == Preceding(j, fresh' \cap listed', place)
  <2>3. old \in Nat /\ new \in Nat /\ new >= old
    BY <1>6, RanksGrow
  <2>4. saved \in Nat /\ offset \in Nat
    BY <1>2 DEF SyncTypeOK
  <2>5. /\ old >= saved
        /\ phase = "fetch" => old >= offset
        /\ phase = "items" => (\E k \in DOMAIN page : page[k] = j) \/ (more /\ old >= offset)
        /\ phase # "complete"
    BY <2>2 DEF Reached
  <2> HIDE DEF old, new
  <2>6. /\ new >= saved
        /\ phase = "fetch" => new >= offset
        /\ phase = "items" => (\E k \in DOMAIN page' : page'[k] = j) \/ (more /\ new >= offset)
        /\ phase # "complete"
    BY <1>3, <2>1, <2>3, <2>4, <2>5
  <2> QED
    BY <1>1, <2>6 DEF Reached, new
<1>8. Steady' = Steady
  BY <1>1 DEF Steady, connector, quiet
<1>9. ReachInv' /\ PageInv' /\ PeaceInv'
  BY <1>1, <1>2, <1>3, <1>7, <1>8 DEF ReachInv, PageInv, PeaceInv, quiet, MayWork
<1>10. QuietIncidentsAreKept'
  BY <1>1 DEF QuietIncidentsAreKept, connector
<1> QED
  BY <1>5, <1>9, <1>10 DEF HeldInv

\* A step of the sync leaves the records alone.
LEMMA SyncMoves ==
    ASSUME HeldInv, UNCHANGED <<setting, place, listed>>, SyncTypeOK', PageInv', PeaceInv',
           QuietIncidentsAreKept',
           \A i \in Records : Steady /\ Pending(i)' => Reached(i)'
    PROVE  HeldInv'
<1>1. Steady' = Steady
  BY DEF Steady, connector, quiet
<1>2. ReachInv'
  BY <1>1 DEF ReachInv
<1> QED
  BY <1>2 DEF HeldInv

\* A sync resumes where all that is pending is still to come.
LEMMA StartSyncHeld ==
    ASSUME HeldInv, StartSync
    PROVE  HeldInv'
<1>1. /\ phase = "idle" /\ phase' = "fetch" /\ offset' = saved
      /\ touched' = IF saved = 0 THEN {} ELSE touched
      /\ UNCHANGED <<setting, place, listed, fresh, stale, page, more, saved>>
  BY DEF StartSync
<1>2. SyncTypeOK /\ PageInv /\ PeaceInv /\ ReachInv /\ QuietIncidentsAreKept
  BY DEF HeldInv
<1>3. SyncTypeOK'
  BY <1>1, <1>2 DEF SyncTypeOK, Existing
<1>4. PageInv' /\ PeaceInv' /\ QuietIncidentsAreKept'
  BY <1>1, <1>2 DEF PageInv, PeaceInv, QuietIncidentsAreKept, NothingLost, connector, quiet
<1>5. ASSUME NEW i \in Records, Steady, Pending(i)'
      PROVE  Reached(i)'
  <2> DEFINE rank == Preceding(i, fresh \cap listed, place)
  <2>1. IsFiniteSet(fresh \cap listed)
    BY <1>2, SelectionFacts DEF Selected
  <2>2. rank \in Nat
    BY <2>1, RanksGrow
  <2>3. rank >= saved
    <3>1. CASE saved = 0
      <4> HIDE DEF rank
      <4> QED
        BY <2>2, <3>1
    <3>2. CASE saved # 0
      BY <1>1, <1>2, <1>5, <3>2 DEF Pending, ReachInv, Reached
    <3> QED
      BY <3>1, <3>2
  <2> QED
    BY <1>1, <2>3 DEF Reached
<1> QED
  BY <1>1, <1>3, <1>4, <1>5, SyncMoves

\* The record at a rank of the listing.
LEMMA NthFacts ==
    ASSUME SyncTypeOK, NEW k \in Nat, k < Cardinality(Selected)
    PROVE  Nth(k) \in Selected /\ Rank(Nth(k)) = k
<1>1. \E i \in Selected : Rank(i) = k
  <2>1. \E i \in Selected : RankIn(i, Selected, KeyOrder(place)) = k
    BY SelectionFacts, RanksAreFilled
  <2> QED
    BY <2>1, SelectionFacts DEF Preceding
<1> QED
  BY <1>1 DEF Nth

\* A page holds the records of the next ranks; a full one announces another.
LEMMA PageFacts ==
    ASSUME SyncTypeOK
    PROVE  /\ PageAt(offset) \in Seq(listed \cup {Outdated})
           /\ \A i \in Selected : Rank(i) >= offset =>
                \/ \E k \in DOMAIN PageAt(offset) : PageAt(offset)[k] = i
                \/ HasMore(PageAt(offset)) /\ Rank(i) >= offset + Len(PageAt(offset))
<1> DEFINE total == Cardinality(Selected)
           last == LastOf(offset)
           items == PageAt(offset)
<1>1. /\ offset \in Nat /\ PageSize \in Nat \ {0} /\ total \in Nat
      /\ Selected \subseteq Records /\ Selected \subseteq listed
  BY SelectionFacts, InternalSyncConstants DEF SyncTypeOK, Selected
<1>2. last = IF offset + PageSize < total THEN offset + PageSize ELSE total
  BY DEF LastOf
<1>3. items = [n \in 1..(last - offset) |-> Nth(offset + n - 1)]
  BY DEF PageAt
<1>4. \A i \in Selected : Rank(i) \in Nat /\ Rank(i) < total
  BY SelectionFacts, RanksFollow DEF Preceding
<1>5. \A i, j \in Selected : i # j => Rank(i) # Rank(j)
  BY SelectionFacts, RanksDiffer DEF Preceding
<1> DEFINE size == IF last >= offset THEN last - offset ELSE 0
<1> HIDE DEF total, last, items
<1>6. last \in Nat /\ last <= total /\ last <= offset + PageSize /\ size \in Nat
      /\ 1..(last - offset) = 1..size
  BY <1>1, <1>2
<1>7. \A n \in 1..size : offset + n - 1 \in Nat /\ offset + n - 1 < total
  BY <1>1, <1>6
<1>8. \A n \in 1..size : Nth(offset + n - 1) \in Selected /\ Rank(Nth(offset + n - 1)) = offset + n - 1
  BY <1>7, NthFacts DEF total
<1>9. items = [n \in 1..size |-> Nth(offset + n - 1)]
  BY <1>3, <1>6
<1> HIDE DEF size
<1>10. items \in [1..size -> listed \cup {Outdated}]
  BY <1>1, <1>8, <1>9
<1>11. items \in Seq(listed \cup {Outdated}) /\ Len(items) = size
  <2>1. items \in Seq(listed \cup {Outdated})
    BY <1>6, <1>10, SeqDef
  <2>2. DOMAIN items = 1..size
    BY <1>10
  <2> QED
    BY <1>6, <2>1, <2>2
<1>12. ASSUME NEW i \in Selected, Rank(i) >= offset
       PROVE  \/ \E k \in DOMAIN items : items[k] = i
              \/ HasMore(items) /\ Rank(i) >= offset + Len(items)
  <2> DEFINE r == Rank(i)
  <2>1. r \in Nat /\ r < total /\ r >= offset
    BY <1>4, <1>12
  <2> HIDE DEF r
  <2>2. CASE r < last
    <3>1. /\ r - offset + 1 \in 1..size /\ offset + (r - offset + 1) - 1 = r
      BY <1>1, <1>6, <2>1, <2>2 DEF size
    <3>2. items[r - offset + 1] = Nth(r)
      BY <1>9, <3>1
    <3>3. Nth(r) \in Selected /\ Rank(Nth(r)) = r
      BY <1>8, <3>1
    <3>4. Nth(r) = i
      BY <1>5, <3>3 DEF r
    <3>5. r - offset + 1 \in DOMAIN items
      BY <1>9, <3>1
    <3> QED
      BY <3>2, <3>4, <3>5
  <2>3. CASE r >= last
    <3>1. last = offset + PageSize /\ size = PageSize
      BY <1>1, <1>2, <1>6, <2>1, <2>3 DEF size
    <3>2. HasMore(items)
      BY <1>11, <3>1 DEF HasMore
    <3>3. r >= offset + Len(items)
      BY <1>11, <2>3, <3>1
    <3> QED
      BY <3>2, <3>3 DEF r
  <2> QED
    BY <1>6, <2>1, <2>2, <2>3
<1> QED
  BY <1>11, <1>12 DEF items

LEMMA FetchRecordsHeld ==
    ASSUME HeldInv, FetchRecords
    PROVE  HeldInv'
<1> DEFINE items == PageAt(offset)
<1>1. /\ phase = "fetch"
      /\ \/ phase' = "idle" /\ UNCHANGED <<offset, page, more>>
         \/ /\ page' = items /\ more' = HasMore(items) /\ offset' = offset + Len(items)
            /\ phase' = "items"
      /\ UNCHANGED <<setting, place, listed, fresh, stale, touched, saved>>
  BY DEF FetchRecords, source
<1>2. SyncTypeOK /\ PageInv /\ PeaceInv /\ ReachInv /\ QuietIncidentsAreKept
  BY DEF HeldInv
<1>3. items \in Seq(listed \cup {Outdated}) /\ Len(items) \in Nat
  BY <1>2, PageFacts
<1>4. PeaceInv' /\ QuietIncidentsAreKept' /\ PageInv'
  BY <1>1, <1>2 DEF PageInv, PeaceInv, QuietIncidentsAreKept, NothingLost, connector, quiet
<1>5. SyncTypeOK'
  <2>1. offset \in Nat /\ offset' \in Nat /\ more' \in BOOLEAN /\ page' \in Seq(listed \cup {Outdated})
    <3>1. /\ offset \in Nat /\ more \in BOOLEAN /\ page \in Seq(listed \cup {Outdated})
          /\ HasMore(items) \in BOOLEAN
      BY <1>2 DEF SyncTypeOK, HasMore
    <3> HIDE DEF items
    <3>2. offset + Len(items) \in Nat
      BY <1>3, <3>1
    <3> QED
      BY <1>1, <1>3, <3>1, <3>2
  <2> HIDE DEF items
  <2> QED
    BY <1>1, <1>2, <2>1 DEF SyncTypeOK, Existing
<1>6. ASSUME NEW i \in Records, Steady, Pending(i)'
      PROVE  Reached(i)'
  <2>1. Pending(i)
    BY <1>1, <1>6 DEF Pending
  <2> DEFINE rank == Preceding(i, fresh \cap listed, place)
  <2>2. rank >= saved /\ rank >= offset
    BY <1>1, <1>2, <1>6, <2>1 DEF ReachInv, Reached
  <2>3. i \in Selected /\ Rank(i) = rank
    BY <1>2, <2>1, SelectionFacts DEF Pending, SyncTypeOK, Selected
  <2>4. \/ \E k \in DOMAIN items : items[k] = i
        \/ HasMore(items) /\ rank >= offset + Len(items)
    BY <1>2, <2>2, <2>3, PageFacts
  <2> HIDE DEF rank, items
  <2> QED
    BY <1>1, <2>2, <2>4 DEF Reached, rank
<1> HIDE DEF items
<1> QED
  BY <1>1, <1>4, <1>5, <1>6, SyncMoves

\* An item is ingested; the others of the page are still in the sync's hands.
LEMMA IngestItemHeld ==
    ASSUME HeldInv, IngestItem
    PROVE  HeldInv'
<1>1. /\ phase = "items" /\ page # <<>> /\ page' = Tail(page) /\ stale' = stale \ {Head(page)}
      /\ UNCHANGED <<setting, place, listed, fresh, touched, phase, offset, more, saved>>
  BY DEF IngestItem
<1>2. SyncTypeOK /\ PageInv /\ PeaceInv /\ ReachInv /\ QuietIncidentsAreKept
  BY DEF HeldInv
<1>3. page \in Seq(listed \cup {Outdated})
  BY <1>2 DEF SyncTypeOK
<1>4. /\ page' \in Seq(listed \cup {Outdated}) /\ Len(page) \in Nat /\ Len(page) # 0
      /\ Head(page) = page[1] /\ DOMAIN page' = 1..(Len(page) - 1)
      /\ \A k \in 1..(Len(page) - 1) : page'[k] = page[k + 1]
  BY <1>1, <1>3
<1>5. SyncTypeOK'
  BY <1>1, <1>2, <1>4 DEF SyncTypeOK, Existing
<1>6. PageInv' /\ PeaceInv' /\ QuietIncidentsAreKept'
  BY <1>1, <1>2 DEF PageInv, PeaceInv, QuietIncidentsAreKept, NothingLost, connector, quiet
<1>7. ASSUME NEW i \in Records, Steady, Pending(i)'
      PROVE  Reached(i)'
  <2>1. Pending(i) /\ i # Head(page)
    BY <1>1, <1>7 DEF Pending
  <2>2. Reached(i)
    BY <1>2, <1>7, <2>1 DEF ReachInv
  <2>3. ASSUME NEW k \in DOMAIN page, page[k] = i
        PROVE  \E n \in DOMAIN page' : page'[n] = i
    <3>1. k \in 1..Len(page) /\ k # 1
      BY <1>3, <1>4, <2>1, <2>3
    <3>2. k - 1 \in 1..(Len(page) - 1) /\ (k - 1) + 1 = k
      BY <1>4, <3>1
    <3>3. page'[k - 1] = i
      BY <1>4, <2>3, <3>2
    <3> QED
      BY <1>4, <3>2, <3>3
  <2> QED
    BY <1>1, <2>2, <2>3 DEF Reached
<1> QED
  BY <1>1, <1>5, <1>6, <1>7, SyncMoves

\* The page is durable: a checkpoint behind which nothing is pending, or the end.
LEMMA EndPageHeld ==
    ASSUME HeldInv, EndPage
    PROVE  HeldInv'
<1>1. /\ phase = "items" /\ page = <<>>
      /\ \/ more /\ phase' = "fetch" /\ saved' = offset
         \/ ~more /\ phase' = "complete" /\ saved' = saved
      /\ UNCHANGED <<setting, place, listed, fresh, stale, touched, offset, page, more>>
  BY DEF EndPage, source
<1>2. SyncTypeOK /\ PageInv /\ PeaceInv /\ ReachInv /\ QuietIncidentsAreKept
  BY DEF HeldInv
<1>3. SyncTypeOK'
  BY <1>1, <1>2 DEF SyncTypeOK, Existing
<1>4. PageInv' /\ PeaceInv' /\ QuietIncidentsAreKept'
  BY <1>1, <1>2 DEF PageInv, PeaceInv, QuietIncidentsAreKept, NothingLost, connector, quiet
<1>5. ASSUME NEW i \in Records, Steady, Pending(i)'
      PROVE  Reached(i)'
  <2>1. Pending(i)
    BY <1>1, <1>5 DEF Pending
  <2>2. Reached(i)
    BY <1>2, <1>5, <2>1 DEF ReachInv
  <2>3. DOMAIN page = {}
    <3>1. page \in Seq(listed \cup {Outdated}) /\ Len(page) = 0
      BY <1>1, <1>2 DEF SyncTypeOK
    <3> QED
      BY <3>1
  <2>4. more /\ Preceding(i, fresh \cap listed, place) >= offset
    BY <1>1, <2>2, <2>3 DEF Reached
  <2> QED
    BY <1>1, <2>4 DEF Reached
<1> QED
  BY <1>1, <1>3, <1>4, <1>5, SyncMoves

\* The walk is over, and nothing is pending: what was in the window is in the index.
LEMMA CompleteSyncHeld ==
    ASSUME HeldInv, CompleteSync
    PROVE  HeldInv'
<1>1. /\ phase = "complete" /\ phase' = "idle" /\ fresh' = {} /\ saved' = 0
      /\ UNCHANGED <<setting, place, listed, stale, touched, offset, page, more>>
  BY DEF CompleteSync
<1>2. SyncTypeOK /\ PageInv /\ PeaceInv /\ ReachInv /\ QuietIncidentsAreKept
  BY DEF HeldInv
<1>3. SyncTypeOK'
  BY <1>1, <1>2 DEF SyncTypeOK, Existing
<1>4. PageInv' /\ PeaceInv'
  BY <1>1, <1>2 DEF PageInv, PeaceInv
<1>5. QuietIncidentsAreKept'
  <2> SUFFICES ASSUME connector = "incidents", quiet
               PROVE  stale = {}
    BY <1>1 DEF QuietIncidentsAreKept, NothingLost, connector, quiet
  <2>1. stale \subseteq fresh /\ touched = {} /\ stale \subseteq Records
    BY <1>1, <1>2 DEF QuietIncidentsAreKept, NothingLost, PeaceInv, SyncTypeOK, Existing
  <2>2. \A i \in Records : ~Pending(i)
    BY <1>1, <1>2 DEF ReachInv, Reached, Steady
  <2> QED
    BY <2>1, <2>2 DEF Pending
<1>6. \A i \in Records : ~Pending(i)'
  BY <1>1 DEF Pending
<1> QED
  BY <1>1, <1>3, <1>4, <1>5, <1>6, SyncMoves

\* Whatever interrupts a sync, the checkpoint stays.
LEMMA FailSyncHeld ==
    ASSUME HeldInv, FailSync
    PROVE  HeldInv'
<1>1. /\ phase' = "idle" /\ phase # "idle" /\ page' = <<>>
      /\ UNCHANGED <<setting, place, listed, fresh, stale, touched, offset, more, saved>>
  BY DEF FailSync, source
<1>2. SyncTypeOK /\ PageInv /\ PeaceInv /\ ReachInv /\ QuietIncidentsAreKept
  BY DEF HeldInv
<1>3. SyncTypeOK'
  BY <1>1, <1>2, EmptySeq DEF SyncTypeOK, Existing
<1>4. PageInv' /\ PeaceInv' /\ QuietIncidentsAreKept'
  BY <1>1, <1>2 DEF PageInv, PeaceInv, QuietIncidentsAreKept, NothingLost, connector, quiet
<1>5. ASSUME NEW i \in Records, Steady, Pending(i)'
      PROVE  Reached(i)'
  <2>1. Pending(i)
    BY <1>1, <1>5 DEF Pending
  <2> QED
    BY <1>1, <1>2, <1>5, <2>1 DEF ReachInv, Reached
<1> QED
  BY <1>1, <1>3, <1>4, <1>5, SyncMoves

LEMMA HeldStep == HeldInv /\ [SyncNext]_syncVars => HeldInv'
<1> SUFFICES ASSUME HeldInv, [SyncNext]_syncVars
             PROVE  HeldInv'
  OBVIOUS
<1>1. ASSUME NEW i \in Records,
             \/ CreateIncident(i) \/ UpdateIncident(i)
             \/ CreatePostmortem(i) \/ ApprovePostmortem(i)
      PROVE  HeldInv'
  BY <1>1, IncidentsHeld, CreatePostmortemHeld, ApprovePostmortemHeld
<1>2. CASE SyncStep
  BY <1>2, StartSyncHeld, FetchRecordsHeld, IngestItemHeld, EndPageHeld, CompleteSyncHeld DEF SyncStep
<1>3. CASE FailSync
  BY <1>3, FailSyncHeld
<1>4. CASE UNCHANGED syncVars
  <2>1. UNCHANGED <<setting, place, listed, fresh, stale, touched, phase, offset, more, saved, page>>
    BY <1>4 DEF syncVars, source, walk
  <2> QED
    BY <2>1 DEF HeldInv, SyncTypeOK, Existing, PageInv, PeaceInv, ReachInv, Steady, Pending, Reached,
       QuietIncidentsAreKept, NothingLost, connector, quiet
<1> QED
  BY <1>1, <1>2, <1>3, <1>4 DEF SyncNext

LEMMA HeldInvariant == SyncSpec => []HeldInv
  BY HeldInitially, HeldStep, PTL DEF SyncSpec

\* Records, their places and the page keep their types.
THEOREM SyncTypesHold == SyncSpec => []SyncTypeOK
<1>1. HeldInv => SyncTypeOK
  BY DEF HeldInv
<1> QED
  BY <1>1, HeldInvariant, PTL

\* A walk by OFFSET through a query that runs anew for every page skips nothing when the
\* listing cannot shift towards the pages already read: the postmortems, whoever approves
\* them meanwhile, and the incidents that people leave in peace during a sync; whatever
\* interrupts the walk, and wherever it resumes (fetch_batch of both connectors).
THEOREM ListingsAreAlwaysWalkedWhole == SyncSpec => []ListingsAreWalkedWhole
<1>1. HeldInv => ListingsAreWalkedWhole
  <2> SUFFICES ASSUME HeldInv, connector = "runbooks", phase = "complete"
               PROVE  stale \cap fresh \subseteq touched
    BY DEF ListingsAreWalkedWhole, RunbooksAreNotSkipped, NothingSkipped, HeldInv
  <2>1. \A i \in Records : ~Pending(i)
    BY DEF HeldInv, ReachInv, Reached, Steady
  <2>2. stale \subseteq Records
    BY DEF HeldInv, SyncTypeOK, Existing
  <2> QED
    BY <2>1, <2>2 DEF Pending
<1> QED
  BY <1>1, HeldInvariant, PTL
=============================================================================
