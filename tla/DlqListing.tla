----------------------------- MODULE DlqListing -----------------------------
(***************************************************************************)
(* GET /dlq, composed with the delivery pipeline.  The handler reads in     *)
(* several statements (a count, a page, and for each event of the page its  *)
(* number of attempts and its last one), each at READ COMMITTED, so that    *)
(* recordings and replays may commit between any two of them.  A client     *)
(* scans the pages one after the other.                                     *)
(*                                                                          *)
(* Sources: app/api/v1/dlq.py, app/core/database.py.                        *)
(***************************************************************************)
EXTENDS Delivery

CONSTANTS
  PageSize,     \* page_size
  MinBacklog    \* bound: a scan begins with at least so many dead-lettered events

ASSUME PageAssumption  == PageSize \in Nat \ {0} /\ MinBacklog \in Nat
ASSUME EventAssumption == IsFiniteSet(Event)

VARIABLES
  created,   \* created_at of the events: when the inserting transaction began,
             \* which says nothing of the order of the commits, and may be the
             \* same for several
  reading,   \* what the request does next
  page,      \* the page it was asked for
  total,     \* what its count returned
  rest,      \* the events of the page that have no item yet
  event,     \* the one the loop is at, if there is one
  tally,     \* its total_attempts
  items,     \* the items of the answer
  \* History.
  latest,    \* the row committed last for each event, if there is one
  scanned,   \* events the pages of the scan have held
  stayed,    \* events that were dead-lettered all the time since it began
  moved      \* events that entered or left the queue since then

request  == <<reading, page, total, rest, event, tally, items>>
scanning == <<scanned, stayed, moved>>
listing  == <<created, request, latest, scanning>>
listVars == <<vars, listing>>

Item == [ev : Event, total : Nat, last : Attempt]

ListingTypeOK ==
  /\ created \in [Event -> Nat]
  /\ reading \in {"idle", "count", "page", "tally", "last", "sent"}
  /\ page    \in Nat
  /\ total   \in Nat
  /\ rest    \in SUBSET Event
  /\ event   \in SUBSET rest
  /\ tally   \in Nat
  /\ items   \in SUBSET Item
  /\ latest  \in [Event -> SUBSET Attempt]
  /\ scanned \in SUBSET Event
  /\ stayed  \in SUBSET Event
  /\ moved   \in SUBSET Event
  /\ reading \in {"tally", "last"} => rest # {}
  /\ reading = "last" <=> event # {}

ListingInit ==
  /\ created \in [Event -> 1 .. Cardinality(Event)]
  /\ reading = "idle"
  /\ page    = 0
  /\ total   = 0
  /\ rest    = {}
  /\ event   = {}
  /\ tally   = 0
  /\ items   = {}
  /\ latest  = [e \in Event |-> {}]
  /\ scanned = {}
  /\ stayed  = {}
  /\ moved   = {}

-----------------------------------------------------------------------------
(* What the statements return.                                              *)

Dead == {e \in Event : status[e] = "DEAD_LETTER"}

Newer(f, e) == created[f] > created[e]

\* ORDER BY created_at DESC LIMIT n: n of the dead-lettered events, none of the
\* others newer than one of them. The order of events that were created at the
\* same time is left to the database, for each statement anew.
Newest(n) ==
  {first \in SUBSET Dead :
     /\ IF n < Cardinality(Dead) THEN Cardinality(first) = n ELSE first = Dead
     /\ \A e \in first : \A f \in Dead \ first : ~Newer(f, e)}

\* Faulty variant: the page number is used as a zero-based index.
OffsetFromZero == page * PageSize

Offset == (page - 1) * PageSize

\* OFFSET .. LIMIT .., of one order that the database chose.
PagesOfDead ==
  UNION {{upTo \ skipped : upTo \in {u \in Newest(Offset + PageSize) : skipped \subseteq u}} :
         skipped \in Newest(Offset)}

\* The event may be the next one of the loop: none of what is left is newer.
IsFirst(e) == \A f \in rest : ~Newer(f, e)

Rows(e) == {a \in Attempt : a.ev = e /\ attempts[a] > 0}

\* A row counts once for each time it was written.
NumberOfRows(e) == Cardinality(UNION {{a} \X (1 .. attempts[a]) : a \in Rows(e)})

\* Faulty variant: the rows in ascending order.
FirstRows(e) == {a \in Rows(e) : \A b \in Rows(e) : b.number >= a.number}

\* ORDER BY attempt_number DESC LIMIT 1: any of the rows with that number.
LastRows(e) == {a \in Rows(e) : \A b \in Rows(e) : b.number <= a.number}

-----------------------------------------------------------------------------
(* The request.                                                             *)

\* list_dlq: the count, for the first page of a scan.
ScanBegins ==
  /\ reading = "idle"
  /\ Cardinality(Dead) >= MinBacklog
  /\ reading' = "page"
  /\ page'    = 1
  /\ total'   = Cardinality(Dead)
  /\ stayed'  = Dead
  /\ UNCHANGED <<vars, created, rest, event, tally, items, latest, scanned, moved>>

\* list_dlq: the count, for the next page.
ListCount ==
  /\ reading = "count"
  /\ reading' = "page"
  /\ total'   = Cardinality(Dead)
  /\ UNCHANGED <<vars, created, page, rest, event, tally, items, latest, scanning>>

\* Faulty variant: the handler takes it that the page is never empty.
ListPageNotEmpty ==
  /\ reading = "page"
  /\ rest'    \in PagesOfDead
  /\ scanned' = scanned \cup rest'
  /\ reading' = "tally"
  /\ UNCHANGED <<vars, created, page, total, event, tally, items, latest, stayed, moved>>

\* list_dlq: the events of the page.
ListPage ==
  /\ reading = "page"
  /\ rest'    \in PagesOfDead
  /\ scanned' = scanned \cup rest'
  /\ reading' = IF rest' = {} THEN "sent" ELSE "tally"
  /\ UNCHANGED <<vars, created, page, total, event, tally, items, latest, stayed, moved>>

\* list_dlq: the number of attempts of one event.
ListTally(e) ==
  /\ reading = "tally"
  /\ IsFirst(e)
  /\ event'   = {e}
  /\ tally'   = NumberOfRows(e)
  /\ reading' = "last"
  /\ UNCHANGED <<vars, created, page, total, rest, items, latest, scanning>>

\* list_dlq: the last attempt of the event, and its item.
ListLast(e, a) ==
  /\ reading = "last"
  /\ e \in event
  /\ items'   = items \cup {[ev |-> e, total |-> tally, last |-> a]}
  /\ rest'    = rest \ {e}
  /\ event'   = {}
  /\ tally'   = 0
  /\ reading' = IF rest' = {} THEN "sent" ELSE "tally"
  /\ UNCHANGED <<vars, created, page, total, latest, scanning>>

MorePages == page * PageSize < total

\* The client has the answer and asks for the next page: the total says that
\* there is one.
NextPage ==
  /\ reading = "sent"
  /\ MorePages
  /\ reading' = "count"
  /\ page'    = page + 1
  /\ items'   = {}
  /\ UNCHANGED <<vars, created, total, rest, event, tally, latest, scanning>>

\* The client has the last page and forgets the scan.
ScanEnds ==
  /\ reading = "sent"
  /\ ~MorePages
  /\ reading' = "idle"
  /\ page'    = 0
  /\ total'   = 0
  /\ items'   = {}
  /\ scanned' = {}
  /\ stayed'  = {}
  /\ moved'   = {}
  /\ UNCHANGED <<vars, created, rest, event, tally, latest>>

ListStep ==
  \/ ScanBegins
  \/ ListCount
  \/ ListPage
  \/ \E e \in rest : ListTally(e) \/ \E a \in LastRows(e) : ListLast(e, a)
  \/ NextPage
  \/ ScanEnds

-----------------------------------------------------------------------------
\* The history follows the commits of the pipeline.
Observe ==
  /\ latest' = [e \in Event |->
       LET new == {a \in Attempt : a.ev = e /\ attempts'[a] > attempts[a]}
       IN  IF new = {} THEN latest[e] ELSE new]
  /\ IF reading = "idle"
     THEN UNCHANGED <<stayed, moved>>
     ELSE /\ stayed' = {e \in stayed : status'[e] = "DEAD_LETTER"}
          /\ moved'  = moved \cup {e \in Event : (e \in Dead) # (status'[e] = "DEAD_LETTER")}

PipelineStep == Next /\ Observe /\ UNCHANGED <<created, request, scanned>>

ListingNext == PipelineStep \/ ListStep

ListingSpec == Init /\ ListingInit /\ [][ListingNext]_listVars

-----------------------------------------------------------------------------
(* Properties.                                                              *)

\* Although its status and its rows are read by different statements, between
\* which the event may be replayed and delivered, every event of the page has
\* an attempt to show, and the one shown was made with the last retry.
ListedHasFinalAttempt ==
  /\ \A i \in items : i.last.number = MaxRetries + 1
  /\ \A e \in rest : LastRows(e) # {}

\* A replayed or redelivered event, or one with rows of several endpoints, may
\* have several rows with the highest number.
OneChain(e) == /\ replays[e] = 0 /\ crashes = 0
               /\ \A a, b \in Rows(e) : a.ep = b.ep

\* An event for which one chain of retries ran is listed as it is: the attempt
\* with the highest attempt_number is the "most recent" one, and there are as
\* many as the budget allows if the rate limiter took none of it.
ItemTellsTheChain ==
  [][\A i \in items' \ items : OneChain(i.ev) =>
       /\ {i.last} = latest[i.ev]
       /\ (\A t \in deferred : t.ev # i.ev) => i.total = MaxRetries + 1]_listVars

\* Events that were in the queue at some time of the scan.
Listable == stayed \cup moved

Twins(f, e) == f # e /\ created[f] = created[e]

\* Pages are offsets into a set that changes, in an order that is not total. An
\* event that is dead-lettered all through a scan is missed only if a newer one
\* entered the queue meanwhile (the client stops by a count that is older than
\* the page) or left it, or if another one of the queue was created at the same
\* time, which one statement may put before it and the next one after it.
ScanMissesOnlyShifted ==
  reading = "sent" /\ ~MorePages =>
    \A e \in stayed \ scanned :
      (\E f \in moved : Newer(f, e)) \/ (\E f \in Listable : Twins(f, e))

-----------------------------------------------------------------------------
(* Statements of the repository's documents that the code contradicts.      *)

\* dlq.py: last_http_status is that of "the most recent delivery attempt". So an
\* event that stays in the queue while it is listed shows the row it got last.
ItemShowsMostRecent ==
  [][\A i \in items' \ items : i.ev \in stayed => {i.last} = latest[i.ev]]_listVars
=============================================================================
