-------------------------- MODULE ContactSyncProofs --------------------------
(***************************************************************************)
(* Proofs about ContactSync, for all lists, rows and viewports, of a list  *)
(* that Zalo's client has in memory and of which it renders what is in     *)
(* view.  (A page that loads rows late is left to TLC: SyncLate.cfg shows  *)
(* that what is proved here is false of some of those.)                    *)
(***************************************************************************)
EXTENDS ContactSync, TLAPS

\* All rows are there when the container is; none is as low as the tolerance
\* of the comparison with the list's end; and the viewport is higher than the
\* least distance that the code scrolls.
Virtualised ==
  /\ \A s \in Sites, l \in Lists : Len(l) <= s.rows
  /\ \A l \in Lists : \A i \in 1..Len(l) : RowEdge[i] - RowEdge[i - 1] > 12
  /\ ClientHeight > 240

\* The passes suffice to scroll from end to end, and for the six at the end.
PassesSuffice ==
  \A l \in Lists :
    Greatest(ClientHeight, RowEdge[Len(l)]) - ClientHeight < (MaxPasses - 6) * ScrollDelta

-----------------------------------------------------------------------------
(***************************************************************************)
(* The inductive invariant.                                                *)
(***************************************************************************)

AtTheEnd == {"stabilize_bottom", "backfill_up", "backfill_collect_up",
             "backfill_collect_down"}

\* What the variables are, and that a job is running while its browser is.
PageInv ==
  /\ site \in Sites /\ list \in Lists
  /\ due = 0
  /\ top \in Nat
  /\ attached \in BOOLEAN
  /\ phase \in Crawling \cup {"idle", "opening", "opened", "ended"}
  /\ step \in {"snapshot", "act"}
  /\ contact \in [Keys -> {"absent", "active", "inactive"}]
  /\ phase # "idle" => job = "running"
  /\ phase \notin Crawling => step = "snapshot"
  /\ phase \notin Crawling \cup {"ended"} => top = 0 /\ aggregate = {}
  /\ phase \in Crawling => loaded = Len(list) /\ top <= LastTop
  /\ loaded \in Nat

SeenTo(edge) == \A i \in 1..Len(list) : RowEdge[i] <= edge => list[i] \in aggregate
SeenFrom(edge) == \A i \in 1..Len(list) : RowEdge[i - 1] < edge => list[i] \in aggregate

\* On its way down the crawl has seen every row above the viewport, and after a
\* snapshot those in it; it arrives at the end with all rows seen.
SeenInv ==
  /\ aggregate \subseteq Listed
  /\ phase = "forward" => SeenTo(top)
  /\ phase = "forward" /\ step = "act" /\ attached => SeenFrom(top + ClientHeight)
  /\ phase = "forward" /\ step = "act" /\ atBottom => Listed \subseteq aggregate
  /\ phase \in AtTheEnd => Listed \subseteq aggregate
  /\ phase = "ended" /\ outcome = "success" => Listed \subseteq aggregate

SyncInv == PageInv /\ SeenInv

-----------------------------------------------------------------------------
(***************************************************************************)
(* Pixels.                                                                 *)
(***************************************************************************)

\* One scroll does not pass what the last snapshot has shown.
LEMMA ScrollsOverlap ==
  ASSUME Virtualised
  PROVE  ScrollDelta \in Nat /\ 240 <= ScrollDelta /\ ScrollDelta < ClientHeight
<1>1. ClientHeight \in Nat /\ ClientHeight > 240
  BY LayoutAssumption DEF Virtualised
<1>2. (ClientHeight * 85) \div 100 \in Nat /\ (ClientHeight * 85) \div 100 < ClientHeight
  BY <1>1
<1> QED BY <1>1, <1>2 DEF ScrollDelta, Greatest, Least

LEMMA UpwardIsNat == UpwardDelta \in Nat
<1>1. ClientHeight \in Nat
  BY LayoutAssumption
<1>2. (ClientHeight * 3) \div 2 \in Nat
  BY <1>1
<1> QED BY <1>2 DEF UpwardDelta, Greatest

LEMMA Edges ==
  ASSUME NEW l \in Lists
  PROVE  /\ Len(l) \in Nat
         /\ \A i \in 0..Len(l) : RowEdge[i] \in Nat
         /\ \A i, j \in 0..Len(l) : i <= j => RowEdge[i] <= RowEdge[j]
<1>1. Len(l) \in Nat /\ 0..Len(l) \subseteq DOMAIN RowEdge
  BY ListsAssumption
<1>2. \A i \in 0..Len(l) : RowEdge[i] \in Nat
  BY <1>1, LayoutAssumption
<1>3. \A i, j \in 0..Len(l) : i < j => RowEdge[i] < RowEdge[j]
  BY <1>1, LayoutAssumption
<1> QED
  <2> SUFFICES ASSUME NEW i \in 0..Len(l), NEW j \in 0..Len(l), i <= j
               PROVE  RowEdge[i] <= RowEdge[j]
    BY <1>1, <1>2
  <2>1. CASE i = j
    BY <2>1, <1>2
  <2>2. CASE i < j
    BY <2>2, <1>2, <1>3
  <2> QED BY <2>1, <2>2

\* How far the container can be scrolled.
LEMMA EndOfList ==
  ASSUME list \in Lists, loaded = Len(list)
  PROVE  /\ LastTop \in Nat /\ Height(loaded) \in Nat /\ ClientHeight \in Nat \ {0}
         /\ LastTop + ClientHeight = Height(loaded)
         /\ RowEdge[Len(list)] \in Nat /\ RowEdge[Len(list)] <= Height(loaded)
BY Edges, LayoutAssumption DEF LastTop, Height, Greatest

\* A scroll keeps to the list, and asks for nothing as nothing is missing.
LEMMA ScrollStays ==
  ASSUME PageInv, phase \in Crawling, NEW position \in Int, ScrollTo(position)
  PROVE  /\ top' \in Nat /\ top' <= LastTop /\ LastTop' = LastTop
         /\ due' = 0
         /\ UNCHANGED <<site, list, loaded, attached>>
         /\ top' <= position \/ top' <= top
         /\ attached /\ 0 <= position => top' = Least(position, LastTop)
         /\ ~attached => top' = top
<1>1. list \in Lists /\ loaded = Len(list) /\ top \in Nat /\ top <= LastTop /\ due = 0
  BY DEF PageInv
<1>2. LastTop \in Nat
  BY <1>1, EndOfList
<1>3. top' = IF attached THEN Greatest(0, Least(position, LastTop)) ELSE top
  BY DEF ScrollTo
<1>4. UNCHANGED <<site, list, loaded, attached>>
  BY DEF ScrollTo
<1>5. due' = 0
  BY <1>1 DEF ScrollTo, Asked
<1>6. top' \in Nat /\ top' <= LastTop
  BY <1>1, <1>2, <1>3 DEF Greatest, Least
<1>7. top' <= position \/ top' <= top
  BY <1>1, <1>2, <1>3 DEF Greatest, Least
<1>8. LastTop' = LastTop
  BY <1>4 DEF LastTop, Height
<1>9. attached /\ 0 <= position => top' = Least(position, LastTop)
  BY <1>2, <1>3 DEF Greatest, Least
<1> QED BY <1>3, <1>4, <1>5, <1>6, <1>7, <1>8, <1>9

-----------------------------------------------------------------------------
(***************************************************************************)
(* Every step keeps the invariant.                                         *)
(***************************************************************************)

LEMMA SyncInvInit ==
  ASSUME Init
  PROVE  SyncInv
BY ListsAssumption DEF Init, SyncInv, PageInv, SeenInv, Crawling, AtTheEnd

\* Leaving forgets whatever could be wrong.
LEMMA SyncInvLeaves ==
  ASSUME SyncInv, Leaves,
         contact' \in [Keys -> {"absent", "active", "inactive"}]
  PROVE  SyncInv'
BY DEF Leaves, SyncInv, PageInv, SeenInv, Crawling, AtTheEnd

LEMMA SyncInvOutside ==
  ASSUME SyncInv, ListChanges \/ RowsArrive \/ ContainerIsReplaced \/ StartSync
  PROVE  SyncInv'
<1> USE DEF SyncInv, PageInv, SeenInv, SeenTo, SeenFrom, Listed, LastTop, Height, Crawling,
        AtTheEnd, crawl, store
<1>1. CASE ListChanges
  BY <1>1 DEF ListChanges
<1>2. CASE RowsArrive
  BY <1>2 DEF RowsArrive
<1>3. CASE ContainerIsReplaced
  BY <1>3 DEF ContainerIsReplaced
<1>4. CASE StartSync
  BY <1>4 DEF StartSync, page
<1> QED BY <1>1, <1>2, <1>3, <1>4

LEMMA SyncInvOpen ==
  ASSUME Virtualised, SyncInv, Open
  PROVE  SyncInv'
<1> USE DEF SyncInv, PageInv, SeenInv, Crawling, AtTheEnd, crawl, store, page
<1>1. CASE Navigate
  BY <1>1 DEF Navigate, Listed, SeenTo, SeenFrom
<1>2. CASE ViewOpens
  BY <1>2 DEF ViewOpens, Listed
<1>3. CASE ViewNotFound \/ ContainerNotFound
  BY <1>3 DEF ViewNotFound, ContainerNotFound, Ends, Listed
<1>4. CASE ContainerFound
  <2>1. list \in Lists /\ list' = list /\ Len(list) \in Nat /\ top = 0 /\ top' = 0
    BY <1>4, Edges DEF ContainerFound
  <2>2. loaded' = Len(list) /\ due' = 0
    <3>1. site \in Sites /\ Len(list) <= site.rows /\ site.rows \in Nat
      BY BoundsAssumption DEF Virtualised
    <3>2. loaded' = Least(Len(list), site.rows) /\ due' = Asked(0, loaded', 0)
      BY <1>4 DEF ContainerFound
    <3>3. loaded' = Len(list)
      BY <3>1, <3>2, <2>1 DEF Least
    <3> QED BY <3>2, <3>3, <2>1 DEF Asked
  <2>3. LastTop' \in Nat
    BY <2>1, <2>2, Edges, LayoutAssumption DEF LastTop, Height, Greatest
  <2>4. SeenTo(top)'
    <3>1. \A i \in 1..Len(list) : RowEdge[i] > RowEdge[0] /\ RowEdge[0] = 0 /\ RowEdge[i] \in Nat
      BY <2>1, ListsAssumption, LayoutAssumption
    <3> QED BY <3>1, <2>1 DEF SeenTo
  <2> QED BY <1>4, <2>1, <2>2, <2>3, <2>4 DEF ContainerFound, Listed
<1> QED BY <1>1, <1>2, <1>3, <1>4 DEF Open

\* What a snapshot adds on the way down.
LEMMA SnapshotSees ==
  ASSUME SyncInv, Snapshot, phase = "forward", attached
  PROVE  SeenFrom(top + ClientHeight)'
<1>1. /\ list \in Lists /\ loaded = Len(list) /\ top \in Nat
      /\ list' = list /\ top' = top
      /\ aggregate' = aggregate \cup {list[i] : i \in Visible}
  BY DEF Snapshot, Merged, SyncInv, PageInv, Crawling
<1> SUFFICES ASSUME NEW i \in 1..Len(list), RowEdge[i - 1] < top + ClientHeight
             PROVE  list[i] \in aggregate'
  BY <1>1 DEF SeenFrom
<1>2. RowEdge[i] \in Nat
  BY <1>1, Edges
<1>3. CASE RowEdge[i] <= top
  BY <1>3, <1>1 DEF SyncInv, SeenInv, SeenTo
<1>4. CASE top < RowEdge[i]
  BY <1>4, <1>1 DEF Visible
<1> QED BY <1>1, <1>2, <1>3, <1>4

\* The end of the list is in view: so is, or was, every row.
LEMMA EndShowsAll ==
  ASSUME Virtualised, list \in Lists, loaded = Len(list), top \in Nat, AtEnd, NEW seen,
         \A i \in 1..Len(list) : RowEdge[i - 1] < top + ClientHeight => list[i] \in seen
  PROVE  Listed \subseteq seen
<1>1. top + ClientHeight >= Height(loaded) - 12
  BY DEF AtEnd
<1> SUFFICES ASSUME NEW i \in 1..Len(list)
             PROVE  list[i] \in seen
  BY ListsAssumption DEF Listed
<1>2. /\ RowEdge[i] \in Nat /\ RowEdge[i - 1] \in Nat
      /\ RowEdge[i] - RowEdge[i - 1] > 12
      /\ RowEdge[i] <= RowEdge[Len(list)]
  <2>1. i \in 0..Len(list) /\ i - 1 \in 0..Len(list) /\ Len(list) \in 0..Len(list) /\ i <= Len(list)
    BY Edges
  <2> QED BY <2>1, Edges DEF Virtualised
<1>3. RowEdge[Len(list)] <= Height(loaded) /\ Height(loaded) \in Nat /\ ClientHeight \in Nat
      /\ RowEdge[Len(list)] \in Nat
  BY EndOfList
<1>4. RowEdge[i - 1] < top + ClientHeight
  BY <1>1, <1>2, <1>3
<1> QED BY <1>4

LEMMA SyncInvSnapshot ==
  ASSUME Virtualised, SyncInv, Snapshot
  PROVE  SyncInv'
<1>1. /\ phase \in Crawling /\ phase' = phase /\ step' = "act"
      /\ UNCHANGED <<site, list, loaded, top, attached, job, contact, outcome>>
      /\ aggregate \subseteq aggregate'
      /\ atBottom' = (attached /\ AtEnd)
      /\ due' = 0
  BY DEF Snapshot, store, SyncInv, PageInv, Merged
<1>2. PageInv'
  BY <1>1 DEF SyncInv, PageInv, LastTop, Height, Crawling
<1>3. aggregate' \subseteq Listed'
  <2>1. Visible \subseteq DOMAIN list
    <3>1. loaded = Len(list) /\ list \in Lists
      BY <1>1 DEF SyncInv, PageInv
    <3> QED BY <3>1, ListsAssumption DEF Visible
  <2>2. aggregate' = aggregate \cup (IF attached THEN {list[i] : i \in Visible} ELSE {})
    BY DEF Snapshot, Merged
  <2> QED BY <2>1, <2>2, <1>1 DEF Listed, SyncInv, SeenInv
<1>4. phase' = "forward" /\ attached' => SeenFrom(top + ClientHeight)'
  BY <1>1, SnapshotSees
<1>5. phase' = "forward" /\ atBottom' => (Listed \subseteq aggregate)'
  <2> HAVE phase' = "forward" /\ atBottom'
  <2>1. AtEnd /\ list \in Lists /\ loaded = Len(list) /\ top \in Nat
    BY <1>1 DEF SyncInv, PageInv
  <2>2. \A i \in 1..Len(list) : RowEdge[i - 1] < top + ClientHeight => list[i] \in aggregate'
    BY <1>1, <1>4 DEF SeenFrom
  <2>3. Listed \subseteq aggregate'
    BY <2>1, <2>2, EndShowsAll
  <2> QED BY <2>3, <1>1 DEF Listed
<1>6. phase' = "forward" => SeenTo(top)'
  BY <1>1 DEF SyncInv, SeenInv, SeenTo
<1>7. phase' \in AtTheEnd => (Listed \subseteq aggregate)'
  BY <1>1 DEF SyncInv, SeenInv, Listed
<1> QED BY <1>1, <1>2, <1>3, <1>4, <1>5, <1>6, <1>7 DEF SyncInv, SeenInv, Crawling, AtTheEnd

\* What the crawl does about a snapshot: further down while the end is not in
\* view; on the spot, as everything is seen, when it is.
LEMMA SyncInvForward ==
  ASSUME Virtualised, SyncInv, Forward
  PROVE  SyncInv'
<1>1. /\ phase = "forward" /\ step = "act" /\ step' = "snapshot"
      /\ UNCHANGED <<tab, job, aggregate, contact, outcome>>
  BY DEF Forward, Acts, Kept, store
<1>2. CASE atBottom
  BY <1>1, <1>2 DEF Forward, page, SyncInv, PageInv, SeenInv, Crawling, AtTheEnd, LastTop,
     Height, Listed
<1>3. CASE ~atBottom
  <2>1. ScrollTo(top + ScrollDelta) /\ phase' = phase
    BY <1>3 DEF Forward
  <2>2. /\ top \in Nat /\ top + ScrollDelta \in Int /\ ScrollDelta < ClientHeight
        /\ ScrollDelta \in Nat /\ ClientHeight \in Nat /\ list \in Lists
    BY ScrollsOverlap, LayoutAssumption DEF SyncInv, PageInv
  <2>3. /\ top' \in Nat /\ top' <= LastTop /\ LastTop' = LastTop /\ due' = 0
        /\ UNCHANGED <<site, list, loaded, attached>>
        /\ top' <= top + ScrollDelta
        /\ ~attached => top' = top
    BY <1>1, <2>1, <2>2, ScrollStays DEF SyncInv, Crawling
  <2>4. PageInv'
    BY <1>1, <2>1, <2>3 DEF SyncInv, PageInv, Crawling
  <2>5. SeenTo(top)'
    <3>1. CASE attached
      <4> SUFFICES ASSUME NEW i \in 1..Len(list), RowEdge[i] <= top'
                   PROVE  list[i] \in aggregate
        BY <1>1, <2>3 DEF SeenTo
      <4>1. RowEdge[i - 1] \in Nat /\ RowEdge[i] \in Nat /\ RowEdge[i - 1] <= RowEdge[i]
        <5>1. i \in 0..Len(list) /\ i - 1 \in 0..Len(list) /\ i - 1 <= i
          BY <2>2, Edges
        <5> QED BY <5>1, <2>2, Edges
      <4>2. RowEdge[i - 1] < top + ClientHeight
        BY <2>2, <2>3, <4>1
      <4> QED BY <4>2, <3>1, <1>1 DEF SyncInv, SeenInv, SeenFrom
    <3>2. CASE ~attached
      BY <3>2, <2>3, <1>1 DEF SyncInv, SeenInv, SeenTo
    <3> QED BY <3>1, <3>2
  <2>6. aggregate' \subseteq Listed'
    BY <1>1, <2>3 DEF SyncInv, SeenInv, Listed
  <2> QED BY <1>1, <2>1, <2>4, <2>5, <2>6 DEF SyncInv, SeenInv, Crawling, AtTheEnd
<1> QED BY <1>2, <1>3

\* At the end nothing has to be seen any more, wherever the crawl scrolls.
LEMMA SyncInvAtTheEnd ==
  ASSUME SyncInv, phase \in AtTheEnd, phase' \in AtTheEnd, step' = "snapshot",
         Kept, outcome' = outcome,
         UNCHANGED page \/ \E position \in Int : ScrollTo(position)
  PROVE  SyncInv'
<1>1. phase \in Crawling /\ phase' \in Crawling /\ phase' # "forward"
  BY DEF Crawling, AtTheEnd
<1>2. /\ top' \in Nat /\ top' <= LastTop /\ LastTop' = LastTop /\ due' = 0
      /\ UNCHANGED <<site, list, loaded, attached>>
  <2>1. CASE UNCHANGED page
    BY <2>1, <1>1 DEF page, SyncInv, PageInv, LastTop, Height
  <2>2. CASE \E position \in Int : ScrollTo(position)
    BY <2>2, <1>1, ScrollStays DEF SyncInv
  <2> QED BY <2>1, <2>2
<1>3. PageInv'
  BY <1>1, <1>2 DEF SyncInv, PageInv, Kept, store, Crawling
<1>4. SeenInv'
  BY <1>1, <1>2 DEF SyncInv, SeenInv, Kept, Listed, Crawling, AtTheEnd
<1> QED BY <1>3, <1>4 DEF SyncInv

\* A crawl ends: as a success only at the end of the list.
LEMMA SyncInvEnds ==
  ASSUME SyncInv, phase \in Crawling, phase' = "ended", step' = "snapshot",
         outcome' = "success" => phase \in AtTheEnd,
         UNCHANGED <<page, job, aggregate, contact>>
  PROVE  SyncInv'
BY DEF SyncInv, PageInv, SeenInv, page, Crawling, AtTheEnd, Listed

LEMMA SyncInvCrawl ==
  ASSUME Virtualised, SyncInv, Crawl
  PROVE  SyncInv'
<1>1. phase \in Crawling => LastTop \in Int /\ top - UpwardDelta \in Int
  BY EndOfList, UpwardIsNat DEF SyncInv, PageInv
<1> USE DEF AtTheEnd, Crawling
<1>2. CASE Snapshot
  BY <1>2, SyncInvSnapshot
<1>3. CASE Forward
  BY <1>3, SyncInvForward
<1>4. CASE StabilizeBottom
  BY <1>1, <1>4, SyncInvAtTheEnd DEF StabilizeBottom, Acts
<1>5. CASE BackfillUp
  BY <1>1, <1>5, SyncInvAtTheEnd DEF BackfillUp, Acts
<1>6. CASE BackfillCollectUp
  BY <1>1, <1>6, SyncInvAtTheEnd DEF BackfillCollectUp, Acts
<1>7. CASE BackfillCollectDown
  <2>1. CASE found \/ backfill
    BY <1>1, <1>7, <2>1, SyncInvAtTheEnd DEF BackfillCollectDown, Acts
  <2>2. CASE ~(found \/ backfill)
    BY <1>7, <2>2, SyncInvEnds DEF BackfillCollectDown, Acts, Ends, Kept, store
  <2> QED BY <2>1, <2>2
<1>8. CASE CrawlIsCut
  BY <1>8, SyncInvEnds DEF CrawlIsCut, Ends, crawl, store
<1> QED BY <1>2, <1>3, <1>4, <1>5, <1>6, <1>7, <1>8 DEF Crawl

LEMMA SyncInvNext ==
  ASSUME Virtualised, SyncInv, [Next]_vars
  PROVE  SyncInv'
<1>1. CASE UNCHANGED vars
  BY <1>1 DEF vars, page, crawl, store, SyncInv, PageInv, SeenInv, SeenTo, SeenFrom, Listed,
     LastTop, Height
<1>2. CASE CrawlBreaks \/ PersistFails
  BY <1>2, SyncInvLeaves DEF CrawlBreaks, PersistFails, store, SyncInv, PageInv
<1>3. CASE Persist
  <2>1. contact' \in [Keys -> {"absent", "active", "inactive"}]
    BY <1>3 DEF Persist, Unseen, Seen, SyncInv, PageInv
  <2> QED BY <1>3, <2>1, SyncInvLeaves DEF Persist
<1> QED BY <1>1, <1>2, <1>3, SyncInvOutside, SyncInvOpen, SyncInvCrawl DEF Next

-----------------------------------------------------------------------------

LEMMA SyncInvAlways == ASSUME Virtualised PROVE Spec => []SyncInv
BY SyncInvInit, SyncInvNext, PTL DEF Spec

\* A sync that says "completely" has seen every contact of the list
\* (_sync_contacts_sync), however pages, failures and replacements interleave.
THEOREM CompleteSyncs == ASSUME Virtualised PROVE Spec => []SuccessIsComplete
<1>1. SyncInv => SuccessIsComplete
  BY DEF SyncInv, SeenInv, SuccessIsComplete
<1> QED BY <1>1, SyncInvAlways, PTL

\* persist_synced_contacts deactivates nobody whom Zalo lists.
THEOREM ListedStayActive == ASSUME Virtualised PROVE Spec => ListedContactsStayActive
<1>1. SyncInv /\ [Next]_vars
        => [\A k \in Listed : contact[k] = "active" => contact'[k] = "active"]_vars
  <2> SUFFICES ASSUME SyncInv, Next, NEW k \in Listed, contact[k] = "active"
               PROVE  contact'[k] = "active"
    OBVIOUS
  <2>1. CASE Persist
    <3>1. k \in Keys
      BY ListsAssumption DEF Listed, SyncInv, PageInv
    <3>2. contact' = Unseen(Seen)
      BY <2>1 DEF Persist
    <3>3. CASE outcome = "success"
      BY <2>1, <3>1, <3>2, <3>3 DEF Persist, Unseen, Seen, SyncInv, SeenInv
    <3>4. CASE outcome # "success"
      BY <3>1, <3>2, <3>4 DEF Unseen, Seen
    <3> QED BY <3>3, <3>4
  <2>2. CASE ~Persist
    BY <2>2 DEF Next, ListChanges, RowsArrive, ContainerIsReplaced, StartSync, Open, Navigate,
       ViewOpens, ViewNotFound, ContainerNotFound, ContainerFound, Crawl, Snapshot, Forward,
       StabilizeBottom, BackfillUp, BackfillCollectUp, BackfillCollectDown, CrawlIsCut,
       CrawlBreaks, PersistFails, Kept, store
  <2> QED BY <2>1, <2>2
<1> QED BY <1>1, SyncInvAlways, PTL DEF Spec, ListedContactsStayActive

\* After a complete sync the active rows of the contacts table are the list.
THEOREM CompleteSyncsMirror == ASSUME Virtualised PROVE Spec => SuccessMirrorsList
<1>1. SyncInv /\ [Next]_vars
        => [phase = "ended" /\ outcome = "success" /\ job' = "succeeded"
              => Active(contact') = Listed]_vars
  <2> SUFFICES ASSUME SyncInv, Next, phase = "ended", outcome = "success", job' = "succeeded"
               PROVE  Active(contact') = Listed
    OBVIOUS
  <2>1. job = "running" /\ aggregate = Listed /\ Listed \subseteq Keys
    BY ListsAssumption DEF SyncInv, PageInv, SeenInv, Listed
  <2>2. Persist
    BY <2>1 DEF Next, ListChanges, RowsArrive, ContainerIsReplaced, StartSync, Open, Navigate,
       ViewOpens, ViewNotFound, ContainerNotFound, ContainerFound, Crawl, Snapshot, Forward,
       StabilizeBottom, BackfillUp, BackfillCollectUp, BackfillCollectDown, CrawlIsCut,
       CrawlBreaks, PersistFails, Acts, Crawling
  <2>3. contact' = Unseen(Seen)
    BY <2>2 DEF Persist
  <2>4. \A k \in Keys : contact'[k] = "active" <=> k \in aggregate
    BY <2>3 DEF Unseen, Seen
  <2> QED BY <2>1, <2>4 DEF Active
<1> QED BY <1>1, SyncInvAlways, PTL DEF Spec, SuccessMirrorsList

-----------------------------------------------------------------------------
(***************************************************************************)
(* The limit of passes.  Every pass on the way down but the last moves the *)
(* viewport by a whole scroll.                                             *)
(***************************************************************************)

\* Passes that are over.
Made == IF step = "act" THEN passes - 1 ELSE passes

\* All but so many of them were whole scrolls.
WholeScrollsBut(others) == (Made - others) * ScrollDelta <= LastTop

\* How many passes the crawl of a page that works makes on its way down, and how
\* many from there to its result.
PaceInv ==
  /\ passes \in Nat /\ (step = "act" => passes > 0)
  /\ phase \in {"idle", "opening", "opened"} => passes = 0 /\ stable = 0 /\ ~backfill
  /\ phase \in Crawling => attached
  /\ phase \in Crawling \cup {"opened"} => ContactViewMatches
  /\ phase = "forward" => \/ Made * ScrollDelta <= top
                          \/ top = LastTop /\ WholeScrollsBut(1)
  /\ phase = "forward" /\ step = "act" /\ ~atBottom => top # LastTop
  /\ phase \in Crawling => ~backfill
  /\ phase \in AtTheEnd /\ step = "act" => ~found
  /\ phase = "stabilize_bottom" => stable \in {0, 1} /\ WholeScrollsBut(2 + stable)
  /\ phase = "backfill_up" => WholeScrollsBut(4)
  /\ phase = "backfill_collect_up" => WholeScrollsBut(5)
  /\ phase = "backfill_collect_down" => WholeScrollsBut(6)
  /\ phase = "ended" => outcome = "success" \/ ~ContactViewMatches

\* One pass more, of one more that need not be a whole scroll.
LEMMA OnePassMore ==
  ASSUME NEW n \in Int, NEW others \in Nat, NEW d \in Nat
  PROVE  /\ ((n + 1) - (others + 1)) * d = (n - others) * d
         /\ (n + 1) * d = n * d + d
OBVIOUS

LEMMA PaceInvInit ==
  ASSUME Init
  PROVE  PaceInv
BY DEF Init, PaceInv, Crawling, AtTheEnd

LEMMA PaceInvOpen ==
  ASSUME Virtualised, SyncInv, ~site.breaks, PaceInv, StartSync \/ Open
  PROVE  PaceInv'
<1> USE DEF PaceInv, Crawling, AtTheEnd, ContactViewMatches, ListIsThere, page, crawl
<1>1. CASE StartSync
  BY <1>1 DEF StartSync, SyncInv, PageInv
<1>2. CASE Navigate
  BY <1>2 DEF Navigate, SyncInv, PageInv
<1>3. CASE ViewOpens
  BY <1>3 DEF ViewOpens, SyncInv, PageInv
<1>4. CASE ViewNotFound
  BY <1>4 DEF ViewNotFound, Ends, SyncInv, PageInv
<1>5. CASE ContainerNotFound
  BY <1>5 DEF ContainerNotFound
<1>6. CASE ContainerFound
  <2>1. phase = "opened" /\ phase' = "forward" /\ step = "snapshot" /\ step' = "snapshot"
        /\ top = 0 /\ top' = 0 /\ passes' = 0 /\ attached' /\ ~backfill'
        /\ UNCHANGED <<tab, list>>
    BY <1>6 DEF ContainerFound, SyncInv, PageInv
  <2>2. Made' * ScrollDelta <= top'
    BY <2>1, ScrollsOverlap DEF Made
  <2> QED BY <2>1, <2>2
<1> QED BY <1>1, <1>2, <1>3, <1>4, <1>5, <1>6 DEF Open

LEMMA PaceInvSnapshot ==
  ASSUME Virtualised, SyncInv, ~site.breaks, PaceInv, Snapshot
  PROVE  PaceInv'
<1>1. /\ phase \in Crawling /\ step = "snapshot" /\ step' = "act" /\ passes' = passes + 1
      /\ UNCHANGED <<list, loaded, top, attached, tab, phase, stable, backfill, outcome>>
      /\ attached /\ passes \in Nat
  BY DEF Snapshot, PaceInv
<1>2. Made' = Made /\ LastTop' = LastTop
  BY <1>1 DEF Made, LastTop, Height
<1>3. phase \in AtTheEnd => ~found'
  <2> HAVE phase \in AtTheEnd
  <2>1. Listed \subseteq aggregate /\ loaded = Len(list) /\ list \in Lists
    BY <1>1 DEF SyncInv, PageInv, SeenInv
  <2>2. {list[i] : i \in Visible} \subseteq aggregate
    BY <2>1, ListsAssumption DEF Visible, Listed
  <2> QED BY <1>1, <2>2 DEF Snapshot
<1>4. ~atBottom' => top # LastTop
  <2> HAVE ~atBottom'
  <2>1. ~AtEnd /\ list \in Lists /\ loaded = Len(list) /\ top \in Nat
    BY <1>1 DEF Snapshot, SyncInv, PageInv
  <2> QED BY <2>1, EndOfList DEF AtEnd
<1> QED BY <1>1, <1>2, <1>3, <1>4 DEF PaceInv, WholeScrollsBut, ContactViewMatches, ListIsThere,
        Crawling, AtTheEnd

LEMMA PaceInvForward ==
  ASSUME Virtualised, SyncInv, ~site.breaks, PaceInv, Forward
  PROVE  PaceInv'
<1>1. /\ phase = "forward" /\ step = "act" /\ step' = "snapshot" /\ attached
      /\ UNCHANGED <<tab, passes, backfill, outcome>>
      /\ passes \in Nat /\ passes > 0 /\ ~backfill
  BY DEF Forward, Acts, Kept, PaceInv, Crawling
<1>2. ScrollDelta \in Nat /\ top \in Nat /\ top <= LastTop /\ LastTop \in Nat
  BY <1>1, ScrollsOverlap, EndOfList DEF SyncInv, PageInv, Crawling
<1>3. Made \in Int /\ Made = passes - 1 /\ Made' = Made + 1
  BY <1>1 DEF Made
<1>4. Made * ScrollDelta \in Int /\ (Made - 1) * ScrollDelta = Made * ScrollDelta - ScrollDelta
  BY <1>2, <1>3
<1>5. (Made' - 2) * ScrollDelta = Made * ScrollDelta - ScrollDelta
  BY <1>2, <1>3
<1>6. Made * ScrollDelta <= top \/ (top = LastTop /\ Made * ScrollDelta - ScrollDelta <= LastTop)
  BY <1>1, <1>4 DEF PaceInv, WholeScrollsBut
<1>7. CASE atBottom
  <2>1. phase' = "stabilize_bottom" /\ stable' \in {0, 1} /\ UNCHANGED page
    BY <1>7 DEF Forward
  <2>2. LastTop' = LastTop
    BY <2>1 DEF page, LastTop, Height
  <2>3. (Made' - (2 + stable')) * ScrollDelta <= LastTop
    <3>1. CASE stable' = 0
      BY <3>1, <1>2, <1>3, <1>4, <1>5, <1>6
    <3>2. CASE stable' = 1
      <4>1. (Made' - 3) * ScrollDelta = Made * ScrollDelta - ScrollDelta - ScrollDelta
        BY <1>2, <1>3
      <4> QED BY <3>2, <4>1, <1>2, <1>3, <1>4, <1>6
    <3> QED BY <2>1, <3>1, <3>2
  <2> QED BY <1>1, <2>1, <2>2, <2>3 DEF PaceInv, WholeScrollsBut, page, Crawling, AtTheEnd,
             ContactViewMatches, ListIsThere
<1>8. CASE ~atBottom
  <2>1. ScrollTo(top + ScrollDelta) /\ phase' = phase /\ stable' = stable
    BY <1>8 DEF Forward
  <2>2. Made * ScrollDelta <= top
    BY <1>1, <1>6, <1>8 DEF PaceInv
  <2>3. /\ LastTop' = LastTop /\ UNCHANGED <<site, list, loaded, attached>>
        /\ top' = Least(top + ScrollDelta, LastTop)
    <3>1. top + ScrollDelta \in Int /\ 0 <= top + ScrollDelta /\ PageInv /\ phase \in Crawling
      BY <1>1, <1>2 DEF SyncInv, Crawling
    <3> QED BY <1>1, <2>1, <3>1, ScrollStays
  <2>4. Made' * ScrollDelta <= top + ScrollDelta
        /\ (Made' - 1) * ScrollDelta = Made * ScrollDelta
    <3>1. Made' * ScrollDelta = Made * ScrollDelta + ScrollDelta
      BY <1>2, <1>3, OnePassMore
    <3>2. Made' - 1 = Made
      BY <1>3
    <3> QED BY <1>2, <1>4, <2>2, <3>1, <3>2
  <2>5. Made' * ScrollDelta <= top'
        \/ (top' = LastTop' /\ (Made' - 1) * ScrollDelta <= LastTop')
    BY <1>2, <1>4, <2>2, <2>3, <2>4 DEF Least
  <2> QED BY <1>1, <2>1, <2>3, <2>5 DEF PaceInv, WholeScrollsBut, Crawling, AtTheEnd,
             ContactViewMatches, ListIsThere
<1> QED BY <1>7, <1>8

\* What the phases at the end have in common.
LEMMA PaceInvAtTheEnd ==
  ASSUME Virtualised, SyncInv, ~site.breaks, PaceInv,
         phase \in AtTheEnd, step = "act", step' = "snapshot", Kept, ~backfill', outcome' = outcome,
         UNCHANGED page \/ \E position \in Int : ScrollTo(position),
         NEW others \in Nat, WholeScrollsBut(others),
         \/ phase' = "stabilize_bottom" /\ stable' = 1 /\ others = 2
         \/ phase' = "backfill_up" /\ others = 3
         \/ phase' = "backfill_collect_up" /\ others = 4
         \/ phase' = "backfill_collect_down" /\ others = 5
  PROVE  PaceInv'
<1>1. /\ LastTop' = LastTop
      /\ UNCHANGED <<site, list, loaded, attached>>
  <2>1. CASE UNCHANGED page
    BY <2>1 DEF page, LastTop, Height
  <2>2. CASE \E position \in Int : ScrollTo(position)
    BY <2>2, ScrollStays DEF SyncInv, Crawling, AtTheEnd
  <2> QED BY <2>1, <2>2
<1>2. passes \in Nat /\ passes > 0 /\ UNCHANGED <<passes, tab>> /\ attached /\ ContactViewMatches
  BY DEF PaceInv, Kept, Crawling, AtTheEnd
<1>3. Made \in Int /\ Made' = Made + 1
  BY <1>2 DEF Made
<1>4. ScrollDelta \in Nat
  BY ScrollsOverlap
<1>5. (Made' - (others + 1)) * ScrollDelta <= LastTop'
  BY <1>1, <1>3, <1>4, OnePassMore DEF WholeScrollsBut
<1> QED BY <1>1, <1>2, <1>5 DEF PaceInv, WholeScrollsBut, Crawling, AtTheEnd, ContactViewMatches,
        ListIsThere

LEMMA PaceInvBackfill ==
  ASSUME Virtualised, SyncInv, ~site.breaks, PaceInv,
         StabilizeBottom \/ BackfillUp \/ BackfillCollectUp \/ BackfillCollectDown
  PROVE  PaceInv'
<1>1. phase \in AtTheEnd /\ step = "act" /\ step' = "snapshot" /\ Kept /\ ~found /\ ~backfill
  BY DEF StabilizeBottom, BackfillUp, BackfillCollectUp, BackfillCollectDown, Acts, PaceInv,
     AtTheEnd, Crawling
<1>2. LastTop \in Int /\ top - UpwardDelta \in Int
  BY <1>1, EndOfList, UpwardIsNat DEF SyncInv, PageInv, AtTheEnd, Crawling
<1>3. CASE StabilizeBottom
  <2>1. stable \in {0, 1} /\ WholeScrollsBut(2 + stable) /\ stable' = stable + 1
        /\ ~backfill' /\ outcome' = outcome
    BY <1>1, <1>3 DEF StabilizeBottom, Acts, PaceInv
  <2>2. CASE stable = 0
    <3>1. WholeScrollsBut(2) /\ phase' = "stabilize_bottom" /\ stable' = 1 /\ ScrollTo(LastTop)
      BY <1>3, <2>1, <2>2 DEF StabilizeBottom, Acts
    <3> QED BY <1>1, <1>2, <2>1, <3>1, PaceInvAtTheEnd
  <2>3. CASE stable = 1
    <3>1. WholeScrollsBut(3) /\ phase' = "backfill_up" /\ UNCHANGED page
      BY <1>3, <2>1, <2>3 DEF StabilizeBottom
    <3> QED BY <1>1, <2>1, <3>1, PaceInvAtTheEnd
  <2> QED BY <2>1, <2>2, <2>3
<1>4. CASE BackfillUp
  <2>1. WholeScrollsBut(4) /\ ~backfill' /\ outcome' = outcome /\ phase' = "backfill_collect_up"
        /\ ScrollTo(top - UpwardDelta)
    BY <1>1, <1>4 DEF BackfillUp, Acts, PaceInv
  <2> QED BY <1>1, <1>2, <2>1, PaceInvAtTheEnd
<1>5. CASE BackfillCollectUp
  <2>1. WholeScrollsBut(5) /\ ~backfill' /\ outcome' = outcome
        /\ phase' = "backfill_collect_down" /\ ScrollTo(LastTop)
    BY <1>1, <1>5 DEF BackfillCollectUp, Acts, PaceInv
  <2> QED BY <1>1, <1>2, <2>1, PaceInvAtTheEnd
<1>6. CASE BackfillCollectDown
  <2>1. aggregate # {}
    <3>1. Listed \subseteq aggregate /\ list \in Lists /\ Len(list) > 0
      BY <1>1, ListsAssumption DEF SyncInv, PageInv, SeenInv, PaceInv, ContactViewMatches,
         ListIsThere, AtTheEnd, Crawling
    <3>2. 1 \in DOMAIN list
      BY <3>1, ListsAssumption
    <3> QED BY <3>1, <3>2 DEF Listed
  <2>2. phase' = "ended" /\ outcome' = "success" /\ UNCHANGED <<page, stable, backfill>>
    BY <1>1, <1>6, <2>1 DEF BackfillCollectDown, Ends
  <2>3. passes' = passes
    BY <1>1 DEF Kept
  <2> QED BY <1>1, <2>2, <2>3 DEF PaceInv, Crawling, AtTheEnd
<1> QED BY <1>3, <1>4, <1>5, <1>6

\* The limit is never reached.
LEMMA PassesAreLeft ==
  ASSUME Virtualised, PassesSuffice, SyncInv, PaceInv, phase \in Crawling, step = "snapshot"
  PROVE  passes # MaxPasses
<1> DEFINE d == ScrollDelta
<1>1. d \in Nat /\ d > 0 /\ passes \in Nat /\ MaxPasses \in Nat /\ Made = passes
  BY ScrollsOverlap, BoundsAssumption DEF PaceInv, Made
<1>2. LastTop \in Nat /\ top <= LastTop /\ top \in Nat /\ LastTop < (MaxPasses - 6) * d
  BY EndOfList DEF SyncInv, PageInv, PassesSuffice, LastTop, Height
<1>3. /\ passes * d \in Int
      /\ (passes - 1) * d = passes * d - d
      /\ (passes - 2) * d = passes * d - 2 * d
      /\ (passes - 3) * d = passes * d - 3 * d
      /\ (passes - 4) * d = passes * d - 4 * d
      /\ (passes - 5) * d = passes * d - 5 * d
      /\ (passes - 6) * d = passes * d - 6 * d
  BY <1>1
<1>4. (passes - 6) * d <= LastTop
  <2>1. CASE phase = "forward"
    BY <2>1, <1>1, <1>2, <1>3 DEF PaceInv, WholeScrollsBut
  <2>2. CASE phase = "stabilize_bottom"
    <3>1. CASE stable = 0
      BY <2>2, <3>1, <1>1, <1>2, <1>3 DEF PaceInv, WholeScrollsBut
    <3>2. CASE stable = 1
      BY <2>2, <3>2, <1>1, <1>2, <1>3 DEF PaceInv, WholeScrollsBut
    <3> QED BY <2>2, <3>1, <3>2 DEF PaceInv
  <2>3. CASE phase = "backfill_up"
    BY <2>3, <1>1, <1>2, <1>3 DEF PaceInv, WholeScrollsBut
  <2>4. CASE phase = "backfill_collect_up"
    BY <2>4, <1>1, <1>2, <1>3 DEF PaceInv, WholeScrollsBut
  <2>5. CASE phase = "backfill_collect_down"
    BY <2>5, <1>1, <1>2, <1>3 DEF PaceInv, WholeScrollsBut
  <2> QED BY <2>1, <2>2, <2>3, <2>4, <2>5 DEF Crawling
<1> SUFFICES ASSUME passes = MaxPasses PROVE FALSE
  OBVIOUS
<1>5. PICK whole \in Int : whole = (MaxPasses - 6) * d
  BY <1>1
<1> HIDE DEF d
<1>6. whole <= LastTop /\ LastTop < whole
  BY <1>2, <1>4, <1>5
<1> QED BY <1>2, <1>5, <1>6

LEMMA PaceInvNext ==
  ASSUME Virtualised, PassesSuffice, SyncInv, [Next]_vars, ~site.breaks => PaceInv
  PROVE  (~site.breaks => PaceInv)'
<1>1. site' = site
  BY DEF Next, vars, page, ListChanges, RowsArrive, ContainerIsReplaced, StartSync, Open, Navigate,
     ViewOpens, ViewNotFound, ContainerNotFound, ContainerFound, Crawl, Snapshot, Forward,
     StabilizeBottom, BackfillUp, BackfillCollectUp, BackfillCollectDown, CrawlIsCut,
     CrawlBreaks, Persist, PersistFails, ScrollTo, Leaves
<1> SUFFICES ASSUME ~site.breaks, PaceInv
             PROVE  PaceInv'
  BY <1>1
<1>2. CASE UNCHANGED vars
  BY <1>2 DEF vars, page, crawl, PaceInv, WholeScrollsBut, Made, LastTop, Height,
     ContactViewMatches, ListIsThere
<1>3. CASE ListChanges
  BY <1>3 DEF ListChanges, crawl, PaceInv, Crawling, AtTheEnd
<1>4. CASE RowsArrive
  BY <1>4 DEF RowsArrive, SyncInv, PageInv
<1>5. CASE ContainerIsReplaced \/ CrawlBreaks \/ PersistFails
  BY <1>5 DEF ContainerIsReplaced, CrawlBreaks, PersistFails
<1>6. CASE CrawlIsCut
  BY <1>6, PassesAreLeft DEF CrawlIsCut
<1>7. CASE Persist
  BY <1>7 DEF Persist, Leaves, PaceInv, Crawling, AtTheEnd
<1> QED BY <1>2, <1>3, <1>4, <1>5, <1>6, <1>7, PaceInvOpen, PaceInvSnapshot, PaceInvForward,
        PaceInvBackfill DEF Next, Crawl

\* A page that works is synced completely: neither what the code does to verify a
\* crawl nor max_passes ends it before.
THEOREM StillListsEnd ==
  ASSUME Virtualised, PassesSuffice PROVE Spec => []StillListsSucceed
<1>1. Init => (~site.breaks => PaceInv)
  BY PaceInvInit
<1>2. SyncInv /\ (~site.breaks => PaceInv) => StillListsSucceed
  BY DEF PaceInv, StillListsSucceed, ContactViewMatches
<1> QED BY <1>1, <1>2, PaceInvNext, SyncInvAlways, PTL DEF Spec

=============================================================================
