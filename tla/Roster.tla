------------------------------- MODULE Roster -------------------------------
(* The players' tab of the admin panel: a search that waits for the typing to   *)
(* end, a sort, pages, and a modal that bans or unbans, over one list the store *)
(* keeps; and the listing behind it.                                            *)
EXTENDS Naturals, Sequences, TLC

CONSTANTS Player, Tripped,   \* the characters, and those a circuit breaker holds
          Text, Matches,     \* what may be typed, "" for nothing, and whom it finds
          Sort, Ranked,      \* the orders and the sequence each puts the characters in
          LastSeen,          \* their place by last activity
          PageSize, Nothing, Copies, MaxInputs

VARIABLES banned,     \* the server
          list,       \* the list, with the query it answers
          fetching,   \* the store's loading flag
          gets,       \* the reads in flight, each with its query and answer
          text, order,   \* the toolbar
          timer,      \* the search that waits for half a second
          modal, reason, acting,
          sent,       \* the ban or unban in flight
          inputs, input,   \* bound on the admin's inputs, and the last of them
          calm        \* no read failed or overlapped another one, no sort came before a typed search

vars == <<banned, list, fetching, gets, text, order, timer, modal, reason, acting, sent, inputs, input, calm>>

NoGet == [at |-> "idle", query |-> Nothing, answer |-> Nothing]
NoPost == [at |-> "idle", player |-> Nothing, ban |-> FALSE, get |-> 0]
FirstQuery == [page |-> 1, search |-> "", sort |-> "sc"]
Unloaded == [query |-> Nothing, rows |-> << >>, total |-> 0, page |-> 1]

Init ==
  /\ banned = {} /\ list = Unloaded /\ fetching = TRUE
  /\ gets = [c \in Copies |-> IF c = 1 THEN [at |-> "asked", query |-> FirstQuery, answer |-> Nothing] ELSE NoGet]
  /\ text = "" /\ order = "sc" /\ timer = Nothing
  /\ modal = Nothing /\ reason = FALSE /\ acting = FALSE /\ sent = NoPost
  /\ inputs = 0 /\ input = "none" /\ calm = TRUE

\* ---- the listing ----

resolveStatus(p) == IF p \in banned THEN "banned" ELSE IF p \in Tripped THEN "circuit_broken" ELSE "active"

listAdminPlayers(q) ==
  LET found == SelectSeq(Ranked[q.sort], LAMBDA p : p \in Matches[q.search])
      from == (q.page - 1) * PageSize
  IN SubSeq(found, from + 1, IF from + PageSize > Len(found) THEN Len(found) ELSE from + PageSize)

countWithNameSearch(q) == Len(SelectSeq(Ranked["sc"], LAMBDA p : p \in Matches[q.search]))

\* By last activity, only the page is in that order: the pages are by age.
getPlayers(q) ==
  LET cut == listAdminPlayers(q)
      page == IF q.sort = "last_activity" THEN SortSeq(cut, LAMBDA a, b : LastSeen[a] > LastSeen[b]) ELSE cut
  IN [query |-> q, rows |-> [i \in DOMAIN page |-> [id |-> page[i], status |-> resolveStatus(page[i])]],
      total |-> countWithNameSearch(q), page |-> q.page]

\* ---- the store ----

Settled == sent = NoPost /\ timer = Nothing /\ \A c \in Copies : gets[c] = NoGet

FetchPlayersIf(q, orderly) ==
  /\ \E c \in Copies :
       /\ gets[c] = NoGet
       /\ gets' = [gets EXCEPT ![c] = [at |-> "asked", query |-> q, answer |-> Nothing]]
  /\ fetching' = TRUE
  /\ calm' = (calm /\ orderly /\ \A c \in Copies : gets[c] = NoGet)
FetchPlayers(q) == FetchPlayersIf(q, TRUE)

Serve(c) ==
  /\ gets[c].at = "asked"
  /\ gets' = [gets EXCEPT ![c].at = "read", ![c].answer = getPlayers(gets[c].query)]
  /\ UNCHANGED <<banned, list, fetching, text, order, timer, modal, reason, acting, sent, inputs, input, calm>>

\* The read after a ban ends the handler: whatever modal is open is closed.
Ends(c) ==
  /\ gets' = [gets EXCEPT ![c] = NoGet] /\ fetching' = FALSE
  /\ IF sent.get = c THEN /\ sent' = NoPost /\ modal' = Nothing /\ acting' = FALSE
                         /\ reason' = (reason /\ ~sent.ban)
     ELSE UNCHANGED <<sent, modal, acting, reason>>
  /\ UNCHANGED <<banned, text, order, timer, inputs, input>>

Land(c) == gets[c].at = "read" /\ list' = gets[c].answer /\ UNCHANGED calm /\ Ends(c)
Fail(c) == gets[c].at # "idle" /\ calm' = FALSE /\ UNCHANGED list /\ Ends(c)

\* ---- the toolbar ----

Inputs(what) == modal = Nothing /\ inputs < MaxInputs /\ inputs' = inputs + 1 /\ input' = what

\* The timer keeps the sort of the moment; typing on puts it off.
HandleSearch(v) ==
  /\ Inputs("search") /\ v # text
  /\ text' = v /\ timer' = [page |-> 1, search |-> v, sort |-> order]
  /\ UNCHANGED <<banned, list, fetching, gets, order, modal, reason, acting, sent, calm>>

Debounced ==
  /\ timer # Nothing /\ timer' = Nothing
  /\ FetchPlayers(timer)
  /\ UNCHANGED <<banned, list, text, order, modal, reason, acting, sent, inputs, input>>

\* A change of the sort asks for the page at hand, and not for the search.
HandleSort(s) ==
  /\ Inputs(IF text = "" THEN "sort" ELSE "sort under a search") /\ s # order
  /\ order' = s
  /\ FetchPlayersIf([page |-> list.page, search |-> "", sort |-> s], timer = Nothing)
  /\ UNCHANGED <<banned, list, text, timer, modal, reason, acting, sent>>

LastPage(a) == (a.total + PageSize - 1) \div PageSize

HandlePage(next) ==
  /\ Inputs(IF list.query # Nothing /\ list.query.search = text THEN "page" ELSE "blind page")
  /\ next \in {list.page - 1, list.page + 1}
  /\ IF next < list.page THEN list.page > 1 ELSE list.page < LastPage(list)
  /\ FetchPlayers([page |-> next, search |-> text, sort |-> order])
  /\ UNCHANGED <<banned, list, text, order, timer, modal, reason, acting, sent>>

\* ---- the modal ----

OpenModal(i) ==
  /\ Inputs("modal") /\ i \in DOMAIN list.rows
  /\ modal' = [player |-> list.rows[i].id, ban |-> list.rows[i].status # "banned"]
  /\ reason' = FALSE
  /\ UNCHANGED <<banned, list, fetching, gets, text, order, timer, acting, sent, calm>>

TypeReason ==
  /\ modal # Nothing /\ modal.ban /\ ~reason /\ reason' = TRUE
  /\ UNCHANGED <<banned, list, fetching, gets, text, order, timer, modal, acting, sent, inputs, input, calm>>

Cancel ==
  /\ modal # Nothing /\ modal' = Nothing
  /\ UNCHANGED <<banned, list, fetching, gets, text, order, timer, reason, acting, sent, inputs, input, calm>>

Confirm ==
  /\ modal # Nothing /\ ~acting /\ (modal.ban => reason)
  /\ acting' = TRUE
  /\ sent' = [at |-> "sent", player |-> modal.player, ban |-> modal.ban, get |-> 0]
  /\ UNCHANGED <<banned, list, fetching, gets, text, order, timer, modal, reason, inputs, input, calm>>

Ban ==
  /\ sent.at = "sent"
  /\ banned' = IF sent.ban THEN banned \cup {sent.player} ELSE banned \ {sent.player}
  /\ sent' = [sent EXCEPT !.at = "done"]
  /\ UNCHANGED <<list, fetching, gets, text, order, timer, modal, reason, acting, inputs, input, calm>>

\* Done, the list is read again, by its page alone.
Refetch ==
  /\ sent.at = "done"
  /\ FetchPlayers([page |-> list.page, search |-> "", sort |-> "sc"])
  /\ sent' = [sent EXCEPT !.at = "reading", !.get = CHOOSE c \in Copies : gets[c] # gets'[c]]
  /\ input' = "ban"
  /\ UNCHANGED <<banned, list, text, order, timer, modal, reason, acting, inputs>>

\* Nothing catches a failure: the modal stays and says nothing.
PostFails ==
  /\ sent.at \in {"sent", "done"}
  /\ sent' = NoPost /\ acting' = FALSE /\ calm' = FALSE
  /\ UNCHANGED <<banned, list, fetching, gets, text, order, timer, modal, reason, inputs, input>>

Next ==
  \/ Debounced \/ TypeReason \/ Cancel \/ Confirm \/ Ban \/ Refetch \/ PostFails
  \/ \E v \in Text : HandleSearch(v)
  \/ \E s \in Sort : HandleSort(s)
  \/ \E n \in 1 .. Len(Ranked["sc"]) : HandlePage(n) \/ OpenModal(n)
  \/ \E c \in Copies : Serve(c) \/ Land(c) \/ Fail(c)

Spec == Init /\ [][Next]_vars

\* When all has landed one after the other, the rows say who is banned, the page is
\* one of the list's (unless it was turned on a list read without the search), and the list is the toolbar's, unless the last thing done was a
\* ban, or the choice of a sort under a search: those read without it
\* (PlayersTab.tsx:44-59, stores/admin.ts:120-127).
ListFaithful ==
  (calm /\ Settled) =>
    /\ \A i \in DOMAIN list.rows : list.rows[i].status = resolveStatus(list.rows[i].id)
    /\ list.page <= 1 \/ list.page <= LastPage(list) \/ input = "blind page"
    /\ input \in {"none", "search", "page", "blind page", "sort"} =>
         list.query.search = text /\ list.query.sort = order

\* A ban is in flight exactly as long as the modal's button is held back, and the
\* list says it loads only while it does.
FlagsFall == (acting <=> sent # NoPost) /\ (fetching => \E c \in Copies : gets[c] # NoGet)

RosterHolds == ListFaithful /\ FlagsFall
=============================================================================
