------------------------------- MODULE Listing -------------------------------
(***************************************************************************)
(* GET /v1/jobs: a client walks the job table page by page while handlers  *)
(* insert rows and workers change their status.  Each page is one SELECT,  *)
(* hence one snapshot of the committed rows.                               *)
(*                                                                         *)
(* created_at is taken in Python when the INSERT is flushed and becomes    *)
(* visible with the commit, so rows do not become visible in the order of  *)
(* created_at, and several rows may share one.  Ids are random: they are   *)
(* ordered, but not by time.                                               *)
(***************************************************************************)
EXTENDS Naturals, FiniteSets

CONSTANTS
    Ids,              \* the supply of uuid4 values, as numbers
    Filters,          \* the ?status= values clients pass
    NoFilter,         \* the client passes no ?status=
    NoLimit,          \* the client passes no ?limit=
    NoCursor,         \* the client passes no ?cursor=, or a reply has no next_cursor
    Limits,           \* the ?limit= values FastAPI lets through
    DefaultPageSize, MaxPageSize,
    MaxTime           \* bound of the clock

ASSUME ListingAssumption ==
    /\ Ids \subseteq Nat /\ IsFiniteSet(Ids)
    /\ Limits \subseteq Nat \ {0} /\ NoLimit \notin Limits
    /\ DefaultPageSize \in Nat \ {0} /\ MaxPageSize \in Nat \ {0}
    /\ MaxTime \in Nat

VARIABLES
    now,     \* the clock of the API hosts
    rows,    \* the table jobs, uncommitted inserts included
    walk     \* the client's walk

listVars == <<now, rows, walk>>

Statuses == {"queued", "running", "succeeded", "failed", "cancelled"}
StatusChanges ==
    { <<"queued", "running">>, <<"queued", "cancelled">>, <<"queued", "failed">>,
      <<"running", "succeeded">>, <<"running", "failed">>,
      \* by a handler or task that writes through a row it read earlier
      <<"cancelled", "failed">>, <<"failed", "succeeded">>, <<"succeeded", "failed">> }
ASSUME FilterAssumption == Filters \subseteq Statuses /\ NoFilter \notin Statuses

ListedRow ==
    [ state   : {"free", "uncommitted", "committed"},
      created : 0..MaxTime,
      status  : Statuses ]

(* The cursor is opaque to the client; decode_cursor returns the very sort *)
(* key encode_cursor was given, because isoformat and hex lose nothing.    *)
(* A malformed one is refused with 400 and changes nothing.                *)
Cursor == [created : 0..MaxTime, id : Ids]
ASSUME CursorAssumption == NoCursor \notin Cursor

Walk ==
    [ pc     : {"idle", "paging", "done"},
      filter : Filters \cup {NoFilter},
      cursor : Cursor \cup {NoCursor},
      page   : SUBSET Ids,      \* the rows of the last reply
      seen   : SUBSET Ids,      \* the rows of the replies before it
      owed   : SUBSET Ids ]     \* matched when the walk began, and ever since

ListInit ==
    /\ now = 0
    /\ rows = [i \in Ids |-> [state |-> "free", created |-> 0, status |-> "queued"]]
    /\ walk = [pc |-> "idle", filter |-> NoFilter, cursor |-> NoCursor,
               page |-> {}, seen |-> {}, owed |-> {}]

Older(i, j) ==
    \/ rows[i].created < rows[j].created
    \/ rows[i].created = rows[j].created /\ i < j

(***************************************************************************)
(* The table changes under the walk.                                       *)
(***************************************************************************)
Stamp(i) ==
    /\ rows[i].state = "free"
    /\ rows' = [rows EXCEPT ![i].state = "uncommitted", ![i].created = now]
    /\ UNCHANGED <<now, walk>>

CommitRow(i) ==
    /\ rows[i].state = "uncommitted"
    /\ rows' = [rows EXCEPT ![i].state = "committed"]
    /\ UNCHANGED <<now, walk>>

(* The key is taken: the INSERT is rolled back.                            *)
RollBackRow(i) ==
    /\ rows[i].state = "uncommitted"
    /\ rows' = [rows EXCEPT ![i].state = "free"]
    /\ UNCHANGED <<now, walk>>

(* A row that leaves the status the client filters by is owed no longer.   *)
ChangeStatus(i, s) ==
    /\ rows[i].state = "committed"
    /\ <<rows[i].status, s>> \in StatusChanges
    /\ rows' = [rows EXCEPT ![i].status = s]
    /\ walk' = [walk EXCEPT !.owed = IF walk.filter = NoFilter THEN @ ELSE @ \ {i}]
    /\ UNCHANGED now

Tick ==
    /\ now < MaxTime
    /\ now' = now + 1
    /\ UNCHANGED <<rows, walk>>

(***************************************************************************)
(* list_jobs.                                                              *)
(***************************************************************************)
PageSize(limit) ==
    LET asked == IF limit = NoLimit THEN DefaultPageSize ELSE limit
    IN  IF asked < MaxPageSize THEN asked ELSE MaxPageSize

(* Slip: the condition compares the time alone.                            *)
BehindByTime(i, cursor) == cursor = NoCursor \/ rows[i].created <= cursor.created

(* The keyset condition on the full sort key.                              *)
Behind(i, cursor) ==
    \/ cursor = NoCursor
    \/ rows[i].created < cursor.created
    \/ rows[i].created = cursor.created /\ i < cursor.id

Matching(filter, cursor) ==
    { i \in Ids : /\ rows[i].state = "committed"
                  /\ filter = NoFilter \/ rows[i].status = filter
                  /\ Behind(i, cursor) }

(* ORDER BY created_at DESC, id DESC LIMIT n + 1, without the extra row.   *)
IsPage(page, matching, n) ==
    /\ Cardinality(page) = IF Cardinality(matching) > n THEN n ELSE Cardinality(matching)
    /\ \A i \in page, j \in matching \ page : Older(j, i)

(* Slip: the cursor names the extra row.                                   *)
IsLastExtra(i, page, matching) ==
    i \in matching \ page /\ \A j \in matching \ page : i = j \/ Older(j, i)

IsLast(i, page, matching) == i \in page /\ \A j \in page : i = j \/ Older(i, j)

(* Slip: a page that is full is taken for the last one.                    *)
HasMoreByFull(matching, n) == Cardinality(matching) > n + 1

(* The extra row tells whether another page exists.                        *)
HasMore(matching, n) == Cardinality(matching) > n

ListJobs(filter, cursor, n, seen, owed) ==
    LET matching == Matching(filter, cursor)
        reply(pc, next, page) ==
            walk' = [pc |-> pc, filter |-> filter, cursor |-> next, page |-> page,
                     seen |-> seen,
                     owed |-> IF cursor = NoCursor THEN matching ELSE owed]
    IN  \E page \in SUBSET matching :
            /\ IsPage(page, matching, n)
            /\ \/ /\ HasMore(matching, n)
                  /\ \E i \in Ids :
                        /\ IsLast(i, page, matching)
                        /\ reply("paging", [created |-> rows[i].created, id |-> i], page)
               \/ ~HasMore(matching, n) /\ reply("done", NoCursor, page)

StartWalk(filter, limit) ==
    /\ walk.pc # "paging"
    /\ ListJobs(filter, NoCursor, PageSize(limit), {}, {})
    /\ UNCHANGED <<now, rows>>

NextPage(limit) ==
    /\ walk.pc = "paging"
    /\ ListJobs(walk.filter, walk.cursor, PageSize(limit),
                walk.seen \cup walk.page, walk.owed)
    /\ UNCHANGED <<now, rows>>

FollowCursor == \E l \in Limits \cup {NoLimit} : NextPage(l)

ListNext ==
    \/ \E i \in Ids : \/ Stamp(i) \/ CommitRow(i) \/ RollBackRow(i)
                      \/ \E s \in Statuses : ChangeStatus(i, s)
    \/ Tick
    \/ \E f \in Filters \cup {NoFilter}, l \in Limits \cup {NoLimit} : StartWalk(f, l)
    \/ FollowCursor

(* Fair to a client that keeps following the cursor, to nobody else.       *)
ListSpec == ListInit /\ [][ListNext]_listVars /\ WF_listVars(FollowCursor)

-----------------------------------------------------------------------------
ListTypeOK ==
    /\ now \in 0..MaxTime
    /\ rows \in [Ids -> ListedRow]
    /\ walk \in Walk
    /\ (walk.pc = "paging") <=> (walk.cursor # NoCursor)

(* No row is returned twice and pages go strictly from newer to older,     *)
(* whatever is inserted or changed between them (the keyset of list_jobs). *)
PagesDescend == \A i \in walk.page, j \in walk.seen : i # j /\ Older(i, j)

(* A finished walk has returned every row that was visible when it began   *)
(* and kept matching the filter: a row can be missed only if it became     *)
(* visible, with an older created_at, behind the walk's back.              *)
WalkIsComplete == walk.pc = "done" => walk.owed \subseteq walk.seen \cup walk.page

(* A client that follows the cursors comes to the last page, although rows *)
(* keep arriving.                                                          *)
WalkEnds == walk.pc = "paging" ~> walk.pc = "done"

(* What the proofs need: what is owed and not yet returned is still ahead, *)
(* and all that was returned is not older than the cursor.                 *)
OwedAhead ==
    walk.pc = "paging" =>
        /\ \A i \in walk.owed \ (walk.seen \cup walk.page) : Behind(i, walk.cursor)
        /\ \A i \in walk.seen \cup walk.page : ~Behind(i, walk.cursor)
WalkRowsMatch ==
    /\ \A i \in walk.page \cup walk.seen \cup walk.owed : rows[i].state = "committed"
    /\ \A i \in walk.owed : walk.filter = NoFilter \/ rows[i].status = walk.filter

ListInv == ListTypeOK /\ PagesDescend /\ WalkIsComplete /\ OwedAhead /\ WalkRowsMatch
=============================================================================
