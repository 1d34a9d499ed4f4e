------------------------------- MODULE Paging -------------------------------
(* Lists read a page at a time while rows keep coming: the feeds of           *)
(* transactions, events and fights, which page by the millisecond of a row's  *)
(* time, and the audit log of the admin panel, which pages by the row's       *)
(* random id under a filter.                                                  *)
EXTENDS Integers, FiniteSets, SequencesExt

CONSTANTS Lists,        \* "feed", "audit"
          Limit,        \* rows of a page
          Times,        \* microseconds within a run, Ms of them a millisecond
          Ms,
          Actions,      \* what an audit entry may be of
          MaxRows       \* bound: rows of a run

VARIABLES list,     \* which list is read
          rows,     \* the rows, each with its order in the list and its action
          shown,    \* the rows listed, in order
          cursor,   \* where the next page starts
          filter,   \* the actions the first page was asked for
          first     \* the rows there were when it was

vars == <<list, rows, shown, cursor, filter, first>>

NotAsked == -1
AtTheEnd == -2

\* A feed's rows are ordered by their time, of which two may share one; the
\* order of an audit entry is that of its id, which no other has.
Init ==
  /\ list \in Lists
  /\ rows = {} /\ first = {}
  /\ shown = << >>
  /\ cursor = NotAsked
  /\ filter = Actions

Millisecond(t) == (t \div Ms) * Ms

\* A row commits when it can: neither its transaction's time nor its id follows
\* the order in which rows appear.
Insert(n, at, act) ==
  /\ Cardinality(rows) < MaxRows /\ n = Cardinality(rows) + 1
  /\ list = "audit" => \A r \in rows : at # r.at
  /\ rows' = rows \cup {[id |-> n, at |-> at, action |-> act]}
  /\ UNCHANGED <<list, shown, cursor, filter, first>>

\* The first Limit rows of s, and one more to know whether there is a next
\* page; rows of one time come in either order.
Pages(s) ==
  LET size == IF Cardinality(s) > Limit THEN Limit ELSE Cardinality(s)
  IN {p \in [1..size -> s] :
        /\ \A i, j \in 1..size : i < j => p[i] # p[j] /\ p[i].at >= p[j].at
        /\ \A r \in s \ {p[i] : i \in 1..size} : size > 0 => p[size].at >= r.at}
More(s) == Cardinality(s) > Limit
CursorOf(r) == IF list = "feed" THEN Millisecond(r.at) ELSE r.at
NextCursor(s, p) == IF More(s) THEN CursorOf(p[Limit]) ELSE AtTheEnd

\* What the two selects of the toolbar may ask for.
Filters == (SUBSET Actions) \ {{}}

FetchFirst(f) ==
  LET s == {r \in rows : r.action \in f}
  IN /\ list = "feed" => f = Actions
     /\ \E p \in Pages(s) : shown' = p /\ cursor' = NextCursor(s, p)
     /\ filter' = f /\ first' = rows
     /\ UNCHANGED <<list, rows>>

\* The rows the next page is cut from: loadMoreAudit sends the cursor alone, so
\* the filter of the first page is gone.
Older == {r \in rows : r.at < cursor}

\* The button is there as long as a cursor is.
CanLoadMore == cursor >= 0

LoadMore ==
  /\ CanLoadMore
  /\ \E p \in Pages(Older) : shown' = shown \o p /\ cursor' = NextCursor(Older, p)
  /\ UNCHANGED <<list, rows, filter, first>>

Next ==
  \/ \E n \in 1..MaxRows, t \in Times, a \in Actions : Insert(n, t, a)
  \/ \E f \in Filters : FetchFirst(f)
  \/ LoadMore
-----------------------------------------------------------------------------
(* Properties.                                                                *)

\* No row is listed twice, whatever comes in between two pages.
NeverTwice == \A i, j \in DOMAIN shown : i # j => shown[i] # shown[j]

\* Read to its end, a list shows every row it was asked for that was there at
\* the start, but rows of a feed that share a millisecond with the end of a page.
CutAt(r) == list = "feed" /\ \E i \in DOMAIN shown : i % Limit = 0 /\ Millisecond(shown[i].at) = Millisecond(r.at)
ReadToTheEnd ==
  cursor = AtTheEnd =>
    \A r \in first : r.action \in filter => (\E i \in DOMAIN shown : shown[i] = r) \/ CutAt(r)

PagesHold == NeverTwice /\ ReadToTheEnd
=============================================================================
