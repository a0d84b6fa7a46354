---------------------------- MODULE ListingProofs ----------------------------
(***************************************************************************)
(* What a walk through the job list promises, for every set of ids, every  *)
(* page size and every interleaving with inserts and status changes.       *)
(***************************************************************************)
EXTENDS Listing, FiniteSetTheorems, TLAPS

(* What a client knows of its walk when it asks for the page at `cursor`.  *)
Ahead(filter, cursor, seen, owed) ==
    /\ filter \in Filters \cup {NoFilter}
    /\ cursor \in Cursor \cup {NoCursor}
    /\ seen \in SUBSET Ids /\ owed \in SUBSET Ids
    /\ \A i \in owed \ seen : Behind(i, cursor)
    /\ \A i \in seen : rows[i].state = "committed" /\ ~Behind(i, cursor)
    /\ cursor # NoCursor => \A i \in owed :
          rows[i].state = "committed" /\ (filter = NoFilter \/ rows[i].status = filter)

(* The newest rows that match are a page; when no other page follows they  *)
(* are all that match, else the next cursor lies at the end of the page.   *)
LEMMA PageReturned ==
    ASSUME NEW filter, NEW cursor \in Cursor \cup {NoCursor}, NEW n, NEW seen, NEW owed,
           ListTypeOK, ListJobs(filter, cursor, n, seen, owed)
    PROVE  LET matching == Matching(filter, cursor)
           IN  /\ walk'.page \in SUBSET matching
               /\ walk'.seen = seen /\ walk'.filter = filter
               /\ walk'.owed = IF cursor = NoCursor THEN matching ELSE owed
               /\ \A i \in walk'.page, j \in matching \ walk'.page : Older(j, i)
               /\ \/ /\ walk'.pc = "paging"
                     /\ \E i \in walk'.page :
                          /\ walk'.cursor = [created |-> rows[i].created, id |-> i]
                          /\ \A j \in walk'.page : i = j \/ Older(i, j)
                  \/ walk'.pc = "done" /\ walk'.cursor = NoCursor /\ walk'.page = matching
               /\ walk' = [pc |-> walk'.pc, filter |-> filter, cursor |-> walk'.cursor,
                           page |-> walk'.page, seen |-> seen, owed |-> walk'.owed]
  <1> DEFINE matching == Matching(filter, cursor)
  <1>1. matching \in SUBSET Ids /\ IsFiniteSet(matching) /\ Cardinality(matching) \in Nat
    BY ListingAssumption, FS_Subset, FS_CardinalityType DEF Matching
  <1>2. PICK page \in SUBSET matching :
          /\ IsPage(page, matching, n)
          /\ \/ /\ HasMore(matching, n)
                /\ \E i \in Ids :
                      /\ IsLast(i, page, matching)
                      /\ walk' = [pc |-> "paging", filter |-> filter,
                            cursor |-> [created |-> rows[i].created, id |-> i], page |-> page,
                            seen |-> seen, owed |-> IF cursor = NoCursor THEN matching ELSE owed]
             \/ /\ ~HasMore(matching, n)
                /\ walk' = [pc |-> "done", filter |-> filter, cursor |-> NoCursor, page |-> page,
                            seen |-> seen, owed |-> IF cursor = NoCursor THEN matching ELSE owed]
    BY DEF ListJobs
  <1>3. ~HasMore(matching, n) => page = matching
    BY <1>1, <1>2, FS_Subset DEF HasMore, IsPage
  <1> QED BY <1>2, <1>3 DEF IsPage, IsLast

(* A page keeps every part of the invariant.                               *)
LEMMA ListJobsKeepsInv ==
    ASSUME NEW filter, NEW cursor, NEW n, NEW seen, NEW owed,
           ListTypeOK, Ahead(filter, cursor, seen, owed),
           ListJobs(filter, cursor, n, seen, owed), UNCHANGED <<now, rows>>
    PROVE  ListInv'
  <1> DEFINE matching == Matching(filter, cursor)
  <1>0. cursor \in Cursor \cup {NoCursor} /\ matching \in SUBSET Ids
    BY DEF Ahead, Matching
  <1> HIDE DEF matching
  <1>1. /\ walk'.page \in SUBSET matching
        /\ walk'.seen = seen /\ walk'.filter = filter
        /\ walk'.owed = IF cursor = NoCursor THEN matching ELSE owed
        /\ \A i \in walk'.page, j \in matching \ walk'.page : Older(j, i)
        /\ \/ /\ walk'.pc = "paging"
              /\ \E i \in walk'.page :
                    /\ walk'.cursor = [created |-> rows[i].created, id |-> i]
                    /\ \A j \in walk'.page : i = j \/ Older(i, j)
           \/ walk'.pc = "done" /\ walk'.cursor = NoCursor /\ walk'.page = matching
        /\ walk' = [pc |-> walk'.pc, filter |-> filter, cursor |-> walk'.cursor,
                    page |-> walk'.page, seen |-> seen, owed |-> walk'.owed]
    BY <1>0, PageReturned DEF matching
  <1>2. \A i \in Ids : /\ rows[i].created \in Nat /\ rows[i].created \in 0..MaxTime
                       /\ i \in Nat
    BY ListingAssumption DEF ListTypeOK, ListedRow
  <1>3. \A i \in matching : /\ rows[i].state = "committed" /\ Behind(i, cursor)
                            /\ filter = NoFilter \/ rows[i].status = filter
    BY DEF matching, Matching
  <1>4. \A i \in Ids : i \in matching <=> /\ rows[i].state = "committed" /\ Behind(i, cursor)
                                          /\ filter = NoFilter \/ rows[i].status = filter
    BY DEF matching, Matching
  <1>5. cursor # NoCursor => cursor.created \in Nat /\ cursor.id \in Nat
    <2>1. \A c \in Cursor : c.created \in 0..MaxTime /\ c.id \in Ids
      BY DEF Cursor
    <2>2. 0..MaxTime \subseteq Nat /\ Ids \subseteq Nat
      BY ListingAssumption
    <2> QED BY <1>0, <2>1, <2>2
  <1>6. ListTypeOK'
    <2>1. walk'.cursor \in Cursor \cup {NoCursor}
      BY <1>0, <1>1, <1>2 DEF Cursor
    <2>2. walk'.pc = "paging" <=> walk'.cursor # NoCursor
      <3>1. walk'.pc = "paging" => walk'.cursor \in Cursor
        BY <1>0, <1>1, <1>2 DEF Cursor
      <3> QED BY <1>1, <3>1, CursorAssumption
    <2>3. walk' \in Walk
      BY <1>0, <1>1, <2>1 DEF Walk, Ahead
    <2> QED BY <2>2, <2>3 DEF ListTypeOK
  <1>7. PagesDescend'
    <2> SUFFICES ASSUME NEW i \in walk'.page, NEW j \in seen
                 PROVE  i # j /\ Older(i, j)
      BY <1>1 DEF PagesDescend, Older
    <2>1. i \in Ids /\ j \in Ids /\ Behind(i, cursor) /\ ~Behind(j, cursor)
      BY <1>0, <1>1, <1>3 DEF Ahead
    <2> QED BY <1>2, <1>5, <2>1 DEF Behind, Older
  <1>8. WalkIsComplete'
    <2>1. walk'.pc = "done" => walk'.owed \subseteq seen \cup matching
      BY <1>1, <1>4 DEF Ahead
    <2> QED BY <1>1, <2>1 DEF WalkIsComplete
  <1>9. OwedAhead'
    <2> SUFFICES ASSUME walk'.pc = "paging"
                 PROVE  /\ \A i \in walk'.owed \ (seen \cup walk'.page) : Behind(i, walk.cursor)'
                        /\ \A i \in seen \cup walk'.page : ~Behind(i, walk.cursor)'
      BY <1>1 DEF OwedAhead, Behind
    <2>1. PICK l \in walk'.page :
            /\ walk'.cursor = [created |-> rows[l].created, id |-> l]
            /\ \A j \in walk'.page : l = j \/ Older(l, j)
      BY <1>1
    <2>2. walk'.cursor # NoCursor /\ l \in Ids
      BY <1>0, <1>1, <2>1, <1>2, CursorAssumption DEF Cursor
    <2>3. \A i \in Ids : Behind(i, walk.cursor)' <=> Older(i, l)
      BY <1>2, <2>1, <2>2 DEF Behind, Older
    <2>4. \A i \in Ids, j \in Ids : Older(i, j) => i # j /\ ~Older(j, i)
      BY <1>2 DEF Older
    <2>5. \A i \in walk'.owed \ (seen \cup walk'.page) : i \in matching
      BY <1>1, <1>4 DEF Ahead
    <2>6. \A i \in seen \cup walk'.page : i \in Ids /\ (i = l \/ Older(l, i))
      BY <1>0, <1>1, <1>7, <2>1 DEF PagesDescend, Older, Ahead
    <2> QED BY <1>0, <1>1, <2>1, <2>2, <2>3, <2>4, <2>5, <2>6
  <1>10. WalkRowsMatch'
    BY <1>0, <1>1, <1>3 DEF WalkRowsMatch, Ahead
  <1> QED BY <1>6, <1>7, <1>8, <1>9, <1>10 DEF ListInv

(* The table changes under the walk without disturbing it: a row that is   *)
(* committed keeps its place, and one that leaves the filter is not owed.  *)
LEMMA TableChangesKeepInv ==
    ASSUME ListInv, NEW i \in Ids,
           \/ Stamp(i) \/ CommitRow(i) \/ RollBackRow(i) \/ Tick
           \/ \E s \in Statuses : ChangeStatus(i, s)
    PROVE  ListInv'
  <1> USE DEF ListInv
  <1>1. /\ rows' \in [Ids -> ListedRow] /\ now' \in 0..MaxTime
        /\ \A j \in Ids : rows[j].state = "committed" =>
              rows'[j].state = "committed" /\ rows'[j].created = rows[j].created
    <2>1. CASE Stamp(i)
      BY <2>1 DEF Stamp, ListTypeOK, ListedRow
    <2>2. CASE CommitRow(i)
      BY <2>2 DEF CommitRow, ListTypeOK, ListedRow
    <2>3. CASE RollBackRow(i)
      BY <2>3 DEF RollBackRow, ListTypeOK, ListedRow
    <2>4. CASE Tick
      BY <2>4, ListingAssumption DEF Tick, ListTypeOK
    <2>5. CASE \E s \in Statuses : ChangeStatus(i, s)
      BY <2>5 DEF ChangeStatus, ListTypeOK, ListedRow
    <2> QED BY <2>1, <2>2, <2>3, <2>4, <2>5
  <1>2. /\ walk' \in Walk
        /\ walk'.pc = walk.pc /\ walk'.cursor = walk.cursor /\ walk'.filter = walk.filter
        /\ walk'.page = walk.page /\ walk'.seen = walk.seen /\ walk'.owed \subseteq walk.owed
    <2>1. CASE UNCHANGED walk
      BY <2>1 DEF ListTypeOK
    <2>2. CASE \E s \in Statuses : ChangeStatus(i, s)
      BY <2>2 DEF ChangeStatus, ListTypeOK, Walk
    <2> QED BY <2>1, <2>2 DEF Stamp, CommitRow, RollBackRow, Tick
  <1>3. \A j \in walk'.owed : walk.filter = NoFilter \/ rows'[j].status = walk.filter
    <2>1. CASE \E s \in Statuses : ChangeStatus(i, s)
      BY <2>1 DEF ChangeStatus, ListTypeOK, Walk, WalkRowsMatch
    <2>2. CASE \A j \in Ids : rows[j].state = "committed" => rows'[j].status = rows[j].status
      BY <1>2, <2>2 DEF WalkRowsMatch, ListTypeOK, Walk
    <2> QED BY <2>1, <2>2 DEF Stamp, CommitRow, RollBackRow, Tick, ListTypeOK
  <1>4. walk.page \cup walk.seen \cup walk.owed \subseteq Ids
    BY DEF ListTypeOK, Walk
  <1>5. \A j \in walk.page \cup walk.seen \cup walk.owed :
            rows'[j].state = "committed" /\ rows'[j].created = rows[j].created
    BY <1>1, <1>4 DEF WalkRowsMatch
  <1>6. ListTypeOK'
    BY <1>1, <1>2 DEF ListTypeOK
  <1>7. PagesDescend'
    BY <1>2, <1>5 DEF PagesDescend, Older
  <1>8. WalkIsComplete'
    BY <1>2 DEF WalkIsComplete
  <1>9. OwedAhead'
    BY <1>2, <1>5 DEF OwedAhead, Behind
  <1>10. WalkRowsMatch'
    BY <1>2, <1>3, <1>5 DEF WalkRowsMatch
  <1> QED BY <1>6, <1>7, <1>8, <1>9, <1>10

(* The invariant of the walk is inductive.                                 *)
LEMMA ListStepKeepsInv == ListInv /\ [ListNext]_listVars => ListInv'
  <1> SUFFICES ASSUME ListInv, [ListNext]_listVars PROVE ListInv'
    OBVIOUS
  <1>1. ASSUME NEW i \in Ids,
               \/ Stamp(i) \/ CommitRow(i) \/ RollBackRow(i)
               \/ \E s \in Statuses : ChangeStatus(i, s)
        PROVE  ListInv'
    BY <1>1, TableChangesKeepInv
  <1>2. CASE Tick
    <2>1. CASE Ids = {}
      BY <1>2, <2>1, ListingAssumption DEF Tick, ListInv, ListTypeOK, PagesDescend,
         WalkIsComplete, OwedAhead, WalkRowsMatch, Behind, Older
    <2>2. CASE Ids # {}
      BY <1>2, <2>2, TableChangesKeepInv
    <2> QED BY <2>1, <2>2
  <1>3. ASSUME NEW f \in Filters \cup {NoFilter}, NEW l, StartWalk(f, l)
        PROVE  ListInv'
    <2>1. Ahead(f, NoCursor, {}, {})
      BY DEF Ahead
    <2> QED BY <1>3, <2>1, ListJobsKeepsInv DEF StartWalk, ListInv
  <1>4. ASSUME NEW l, NextPage(l)
        PROVE  ListInv'
    <2>1. walk.pc = "paging" /\ walk.cursor # NoCursor
      BY <1>4 DEF NextPage, ListInv, ListTypeOK
    <2>2. Ahead(walk.filter, walk.cursor, walk.seen \cup walk.page, walk.owed)
      BY <2>1 DEF Ahead, ListInv, ListTypeOK, Walk, OwedAhead, WalkRowsMatch
    <2> QED BY <1>4, <2>2, ListJobsKeepsInv DEF NextPage, ListInv
  <1>5. CASE UNCHANGED listVars
    BY <1>5 DEF listVars, ListInv, ListTypeOK, PagesDescend, WalkIsComplete, OwedAhead,
       WalkRowsMatch, Behind, Older
  <1> QED BY <1>1, <1>2, <1>3, <1>4, <1>5 DEF ListNext, FollowCursor

-----------------------------------------------------------------------------
(* The invariant of the walk, for every set of ids and every page size.    *)
THEOREM ListInvariance == ListSpec => []ListInv
  <1>1. ListInit => ListInv
    BY ListingAssumption DEF ListInit, ListInv, ListTypeOK, ListedRow, Walk, Statuses,
       PagesDescend, WalkIsComplete, OwedAhead, WalkRowsMatch
  <1> QED BY <1>1, ListStepKeepsInv, PTL DEF ListSpec

(* Pages never repeat a row and never go back to a newer one, whatever     *)
(* list_jobs' table does between them.                                     *)
THEOREM PagesAlwaysDescend == ListSpec => []PagesDescend
  <1>1. ListInv => PagesDescend
    BY DEF ListInv
  <1> QED BY <1>1, ListInvariance, PTL

(* A finished walk has returned every row that was there all along.        *)
THEOREM WalksAreComplete == ListSpec => []WalkIsComplete
  <1>1. ListInv => WalkIsComplete
    BY DEF ListInv
  <1> QED BY <1>1, ListInvariance, PTL
=============================================================================
