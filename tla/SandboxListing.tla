--------------------------- MODULE SandboxListing ---------------------------
(***************************************************************************)
(* A client walks the pages of boxapi's ListSandboxesV2 while other        *)
(* clients create, pause, resume and kill sandboxes through it, and while  *)
(* the processes restart.  boxapi asks boxlet for all the rows, newest     *)
(* first, filters them by state and cuts out a page; the token of the next *)
(* page is an offset into the list of that moment.  The rows live in the   *)
(* file of SharedDatabase.                                                 *)
(***************************************************************************)
EXTENDS SharedDatabase, Sequences, SequencesExt

CONSTANTS
    Boxlet, Boxapi,     \* the members of Procs that serve a page
    Ids,                \* sandbox ids, as numbers in the ids' text order
    DefaultLimit,       \* 100: the page size when the query names none
    MaxLimit,           \* 1000: the largest page
    Queries,            \* the limits a client may ask for, and Absent
    MaxClock,           \* bound: the clock, in seconds
    MaxChanges          \* bound: changes of the sandboxes table

Absent == -1                        \* the query names no limit

VARIABLES
    rows,       \* the sandboxes table: [id, at, updated, state],
                \* the state running or paused, as the filter tells apart
    clock,      \* unix time, the resolution of the table's times
    changes,    \* changes so far
    walk        \* the client's walk over the pages

\* seen: the ids in the order they came; stayed: the sandboxes the walk was
\* to list all along; left, came: how many items went away from, and how many
\* came in at, places the walk had behind it.
NoWalk == [status |-> "idle", filter |-> {}, limit |-> 0, offset |-> 0,
           seen |-> <<>>, stayed |-> {}, left |-> 0, came |-> 0]

listVars == <<rows, clock, changes, walk>>
vars == <<startVars, listVars>>

\* A file of an earlier release holds that release's sandboxes.
Init ==
    /\ DatabaseInit
    /\ \E ids \in IF wal THEN SUBSET Ids ELSE {{}} :
           rows = {[id |-> id, at |-> 0, updated |-> 0, state |-> "running"] :
                       id \in ids}
    /\ clock = 1
    /\ changes = 0
    /\ walk = NoWalk

Serves(p) == pc[p] = "serve"

\* An empty filter lists everything.
Matches(filter, r) == filter = {} \/ r.state \in filter

\* Slip: the list is ordered by the last change.
NewerByUpdate(r, s) ==
    \/ r.updated > s.updated
    \/ r.updated = s.updated /\ r.id > s.id

\* ORDER BY created_at DESC, sandbox_id DESC.
Newer(r, s) ==
    \/ r.at > s.at
    \/ r.at = s.at /\ r.id > s.id

\* boxlet sends all its rows, in the order of the table's query.
ListSandboxes(set) == SetToSortSeq(set, Newer)

\* boxapi filters what it got.
List(filter, set) ==
    SelectSeq(ListSandboxes(set), LAMBDA r : Matches(filter, r))

IdsOf(items) == {items[i].id : i \in DOMAIN items}

PageSize(query) ==
    CASE query = Absent          -> DefaultLimit
      [] query \in 1..MaxLimit   -> query
      [] OTHER                   -> MaxLimit

-----------------------------------------------------------------------------
(* The walk.                                                                *)

StartWalk(filter, query) ==
    /\ walk.status = "idle"
    /\ Serves(Boxapi)
    /\ walk' = [NoWalk EXCEPT !.status = "on", !.filter = filter,
                              !.limit = PageSize(query),
                              !.stayed = {r.id : r \in {x \in rows : Matches(filter, x)}}]
    /\ UNCHANGED <<startVars, rows, clock, changes>>

\* One page.  The end of the list gives no token, and the walk is over.
GetPage ==
    LET items == List(walk.filter, rows)
        end == walk.offset + walk.limit
        last == end >= Len(items)
        page == SubSeq(items, walk.offset + 1, IF last THEN Len(items) ELSE end)
    IN /\ walk.status = "on"
       /\ Serves(Boxapi) /\ Serves(Boxlet)
       /\ walk' = [walk EXCEPT
              !.seen = @ \o [i \in DOMAIN page |-> page[i].id],
              !.offset = IF last THEN @ ELSE end,
              !.status = IF last THEN "done" ELSE "on"]
       /\ UNCHANGED <<startVars, rows, clock, changes>>

-----------------------------------------------------------------------------
(* The changes clients make through boxapi, which has boxlet make them.  A   *)
(* call that fails, or only reads, is a stutter; the two writes of a          *)
(* transition are one step, for the filter tells its end from its beginning. *)

\* The table becomes new.  A row that leaves from, or comes in at, a place
\* before the offset is counted, whatever its place has to do with the pages.
Change(new) ==
    LET old == List(walk.filter, rows)
        now == List(walk.filter, new)
        behind(items) == {i \in DOMAIN items : i <= walk.offset}
        gone == {i \in behind(old) : old[i].id \notin IdsOf(now)}
        fresh == {i \in behind(now) : now[i].id \notin IdsOf(old)}
    IN /\ Serves(Boxapi) /\ Serves(Boxlet)
       /\ changes < MaxChanges
       /\ changes' = changes + 1
       /\ rows' = new
       /\ walk' = IF walk.status # "on" THEN walk
                  ELSE [walk EXCEPT !.stayed = @ \intersect IdsOf(now),
                                    !.left = @ + Cardinality(gone),
                                    !.came = @ + Cardinality(fresh)]
       /\ UNCHANGED <<startVars, clock>>

\* boxapi makes up the id and looks whether the table has it.
CreateSandbox(id) ==
    /\ id \notin {r.id : r \in rows}
    /\ Change(rows \union
              {[id |-> id, at |-> clock, updated |-> clock, state |-> "running"]})

\* A change of state keeps created_at, the list's order.
Moved(r, state) ==
    (rows \ {r}) \union {[r EXCEPT !.state = state, !.updated = clock]}

PauseSandbox(r) ==
    /\ r.state = "running"
    /\ Change(Moved(r, "paused"))

\* Resume asks boxlet whatever the state.
ResumeSandbox(r) == Change(Moved(r, "running"))

\* Connect resumes what it found paused.
ConnectSandbox(r) ==
    /\ r.state = "paused"
    /\ ResumeSandbox(r)

KillSandbox(r) == Change(rows \ {r})

\* A second that no row bears the time of makes no difference.
Tick ==
    /\ clock < MaxClock
    /\ \E r \in rows : r.updated = clock
    /\ clock' = clock + 1
    /\ UNCHANGED <<startVars, rows, changes, walk>>

Next ==
    \/ DatabaseNext /\ UNCHANGED listVars
    \/ \E filter \in {{}, {"running"}}, q \in Queries : StartWalk(filter, q)
    \/ GetPage
    \/ \E id \in Ids : CreateSandbox(id)
    \/ \E r \in rows : \/ PauseSandbox(r) \/ ResumeSandbox(r)
                      \/ ConnectSandbox(r) \/ KillSandbox(r)
    \/ Tick

\* A process that can step steps: nothing keeps it but the write lock, which
\* another process gives up after a few steps of its own.
Spec == /\ Init /\ [][Next]_vars
        /\ \A p \in Procs : WF_vars(Opens(p) /\ UNCHANGED listVars)

-----------------------------------------------------------------------------
(* Properties.                                                              *)

\* ListSandboxesV2: the offset token is not a cursor, so a walk may miss or
\* repeat sandboxes, but only as many as left, or came into, the part of the
\* list it had behind it; with neither, it lists each sandbox exactly once.
WalkFaithful ==
    LET seen == {walk.seen[i] : i \in DOMAIN walk.seen}
    IN walk.status = "done" =>
           /\ Cardinality(walk.stayed \ seen) <= walk.left
           /\ Len(walk.seen) - Cardinality(seen) <= walk.came

=============================================================================
