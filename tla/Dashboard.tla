------------------------------ MODULE Dashboard ------------------------------
(***************************************************************************)
(* The admin dashboard on one of its lists: a table with filters and a     *)
(* page number, fetched again at every change of them, and the page of one *)
(* row.  Other admins and the accounts change the list meanwhile.          *)
(*                                                                         *)
(* Applications are decided in the table, which fetches again with the     *)
(* filters and the page the button was drawn for, and on their own pages,  *)
(* as reports are: those write the new status into the page.  The page of  *)
(* an account does not.  Sessions have no pages of their own.  A status is *)
(* open or decided (an account's: active or barred).  The count next to a  *)
(* table is left out: any page may be opened here.                         *)
(***************************************************************************)
EXTENDS Integers, Sequences, FiniteSets, SequencesExt

CONSTANTS
  Rows,         \* bound: the rows that may come to exist, as 1..Rows
  Limit,        \* rows in a page
  Pages,        \* bound: the pages that an admin opens
  Fetches,      \* bound: fetches and decisions in flight
  MaxSlips,     \* bound: kinds of slip in one behaviour, each happens once
  AllowSlip

(* overtaken: an answer comes after that to a later fetch, or to a fetch   *)
(*   for another filter or page than the one that is shown.                *)
(* elsewhere: another admin decides a row.                                 *)
(* arrives: a row is added to the list.                                    *)
(* failed: a fetch fails, or the answer to a decision is lost.             *)
(* left: the admin leaves a screen while a decision made there is pending. *)
(* acted: an account is barred on its page.                                *)
DashboardSlip == {"overtaken", "elsewhere", "arrives", "failed", "left", "acted"}

List == {"applications", "reports", "accounts", "sessions"}

(* The filters of each table: by status, and by what does not change, as   *)
(* a role, the text of a search, a seeker or a listener ("named").         *)
ApplicationFilter == SUBSET {"open"}
ReportFilter == SUBSET {"open"}
AccountFilter == SUBSET {"open", "named"}
SessionFilter == SUBSET {"open", "named"}
FilterOf == [applications |-> ApplicationFilter, reports |-> ReportFilter,
             accounts |-> AccountFilter, sessions |-> SessionFilter]

PageNo == 1..Pages
Row == 1..Rows
Nowhere == [id |-> 0, status |-> "none"]   \* no row's page is open: the table is

ASSUME DashboardConstants ==
  /\ {Rows, Fetches, MaxSlips} \subseteq Nat /\ {Limit, Pages} \subseteq Nat \ {0}
  /\ AllowSlip \subseteq DashboardSlip

VARIABLES
  list,          \* the list of the dashboard that is open
  rows,          \* the rows, newest first: each with its status
  statusFilter,
  page,
  data,          \* the rows of the table, whose order is that of the list
  loading,       \* the table is covered: only the filter takes clicks
  fetching,      \* the table's fetches in flight, oldest first
  deciding,      \* decisions in flight
  detail,        \* the row whose page is open, with the status it shows
  slips          \* history: the slips so far

table == <<statusFilter, page, data, loading, fetching>>
dashVars == <<list, rows, table, deciding, detail, slips>>

Entry == [id: Row, status: {"open", "decided"}]
Filter == SUBSET {"open", "named"}

DashTypeOK ==
  /\ list \in List /\ rows \in Seq(Entry) /\ Len(rows) <= Rows
  /\ statusFilter \in FilterOf[list] /\ page \in PageNo
  /\ data \subseteq Entry /\ loading \in BOOLEAN
  /\ fetching \in Seq([filter: Filter, page: PageNo, data: SUBSET Entry, read: BOOLEAN])
  /\ deciding \subseteq [id: Row, filter: Filter, page: PageNo, at: {"table", "row", "gone"},
                         bars: BOOLEAN, served: BOOLEAN]
  /\ detail = Nowhere \/ detail \in [id: Row, status: {"loading", "open", "decided"}]
  /\ slips \subseteq AllowSlip

Open(f, r) == "open" \in f => r.status = "open"
Named(f, r) == "named" \in f => r.id % 2 = 1

(* skip and take of a query: of the rows at the places `found`, the p-th   *)
(* Limit of them.                                                          *)
sanitizePagination(found, p) ==
  {rows[i] : i \in {k \in found :
     Cardinality({j \in found : j <= k}) \in ((p - 1) * Limit + 1)..(p * Limit)}}

getVolunteerApplications(f, p) == sanitizePagination({i \in DOMAIN rows : Open(f, rows[i])}, p)
findAllReports(f, p) == sanitizePagination({i \in DOMAIN rows : Open(f, rows[i])}, p)
findAllAccounts(f, p) ==
  sanitizePagination({i \in DOMAIN rows : Open(f, rows[i]) /\ Named(f, rows[i])}, p)
findAllSessions(f, p) ==
  sanitizePagination({i \in DOMAIN rows : Open(f, rows[i]) /\ Named(f, rows[i])}, p)

PageOf(f, p) ==
  CASE list = "applications" -> getVolunteerApplications(f, p)
    [] list = "reports" -> findAllReports(f, p)
    [] list = "accounts" -> findAllAccounts(f, p)
    [] list = "sessions" -> findAllSessions(f, p)

StatusOf(id) == (CHOOSE r \in ToSet(rows) : r.id = id).status

Fetch(f, p) == [filter |-> f, page |-> p, data |-> {}, read |-> FALSE]

(* The state of a page that mounts. *)
TableInit(filter, no, shown, covered, calls) ==
  filter = {} /\ no = 1 /\ shown = {} /\ covered = TRUE /\ calls = <<Fetch({}, 1)>>

DashInit ==
  /\ list \in List
  /\ \E n \in 0..Rows : \E s \in [1..n -> {"open", "decided"}] :
       rows = [i \in 1..n |-> [id |-> n + 1 - i, status |-> s[i]]]
  /\ TableInit(statusFilter, page, data, loading, fetching)
  /\ deciding = {} /\ detail = Nowhere /\ slips = {}

Slip(case, m) ==
  IF case THEN /\ m \in AllowSlip \ slips
               /\ Cardinality(slips) < MaxSlips
               /\ slips' = slips \cup {m}
  ELSE UNCHANGED slips

-----------------------------------------------------------------------------
(* useEffect on fetchData, which changes with the filters and the page. *)
ShowPage(f, p) ==
  /\ detail = Nowhere
  /\ <<f, p>> # <<statusFilter, page>> /\ Len(fetching) < Fetches
  /\ statusFilter' = f /\ page' = p
  /\ fetching' = Append(fetching, Fetch(f, p)) /\ loading' = TRUE
  /\ UNCHANGED <<list, rows, data, deciding, detail, slips>>

SetFilter(f) == f \in FilterOf[list] /\ ShowPage(f, 1)
SetPage(p) == ~loading /\ ShowPage(statusFilter, p)

(* The text of a search is deleted: its page stays. *)
ClearSearch == list = "accounts" /\ "named" \in statusFilter /\ ShowPage(statusFilter \ {"named"}, page)

ReadPage(i) ==
  /\ i \in DOMAIN fetching /\ ~fetching[i].read
  /\ fetching' = [fetching EXCEPT ![i].data = PageOf(fetching[i].filter, fetching[i].page),
                                  ![i].read = TRUE]
  /\ UNCHANGED <<list, rows, statusFilter, page, data, loading, deciding, detail, slips>>

(* setData, whichever fetch it answers. *)
TakePage(i) ==
  /\ i \in DOMAIN fetching /\ fetching[i].read
  /\ data' = fetching[i].data /\ loading' = FALSE
  /\ fetching' = RemoveAt(fetching, i)
  /\ Slip(i # 1 \/ <<fetching[i].filter, fetching[i].page>> # <<statusFilter, page>>, "overtaken")
  /\ UNCHANGED <<list, rows, statusFilter, page, deciding, detail>>

FetchFails(i) ==
  /\ i \in DOMAIN fetching
  /\ Slip(TRUE, "failed")
  /\ fetching' = RemoveAt(fetching, i) /\ loading' = FALSE
  /\ UNCHANGED <<list, rows, statusFilter, page, data, deciding, detail>>

-----------------------------------------------------------------------------
(* The screen that is left takes no answer any more. *)
LeavePage ==
  /\ Slip(\E d \in deciding : d.at # "gone", "left")
  /\ deciding' = {[d EXCEPT !.at = "gone"] : d \in deciding}

(* The buttons of the rows; a session has none. *)
OpenRow(r) ==
  /\ list # "sessions" /\ detail = Nowhere /\ ~loading /\ r \in data
  /\ detail' = [id |-> r.id, status |-> "loading"]
  /\ statusFilter' = {} /\ page' = 1 /\ data' = {} /\ loading' = FALSE /\ fetching' = << >>
  /\ LeavePage
  /\ UNCHANGED <<list, rows>>

getVolunteerApplication(id) == StatusOf(id)
findReport(id) == StatusOf(id)
findAccount(id) == StatusOf(id)

LoadRow(of, status) ==
  /\ list = of /\ detail.status = "loading"
  /\ detail' = [detail EXCEPT !.status = status]
  /\ UNCHANGED <<list, rows, table, deciding, slips>>

LoadApplication == LoadRow("applications", getVolunteerApplication(detail.id))
LoadReport == LoadRow("reports", findReport(detail.id))
LoadAccount == LoadRow("accounts", findAccount(detail.id))

(* The list mounts anew. *)
BackToTable ==
  /\ detail # Nowhere
  /\ detail' = Nowhere
  /\ TableInit(statusFilter', page', data', loading', fetching')
  /\ LeavePage
  /\ UNCHANGED <<list, rows>>

-----------------------------------------------------------------------------
(* A decision is sent.  The pages' buttons are off while one is pending.   *)
Send(r, at, bars) ==
  /\ Cardinality(deciding) + Len(fetching) < Fetches
  /\ \A d \in deciding : d.id # r.id
  /\ deciding' = deciding \cup {[id |-> r.id, filter |-> statusFilter, page |-> page,
                                 at |-> at, bars |-> bars, served |-> FALSE]}
  /\ UNCHANGED <<list, rows, table, detail, slips>>

DecideInTable(r) ==
  /\ list = "applications" /\ detail = Nowhere /\ ~loading /\ r \in data
  /\ r.status = "open"
  /\ Send(r, "table", TRUE)

DecideApplication == list = "applications" /\ detail.status = "open" /\ Send(detail, "row", TRUE)
DecideReport == list = "reports" /\ detail.status = "open" /\ Send(detail, "row", TRUE)

(* A warning bars nobody, and a barred account may be acted on again. *)
ActOnAccount(bars) ==
  list = "accounts" /\ detail.status \in {"open", "decided"} /\ Send(detail, "row", bars)

Decided(id) == [i \in DOMAIN rows |-> IF rows[i].id = id THEN [rows[i] EXCEPT !.status = "decided"]
                                                         ELSE rows[i]]

Served(d) ==
  /\ d \in deciding /\ ~d.served
  /\ deciding' = (deciding \ {d}) \cup {[d EXCEPT !.served = TRUE]}
  /\ UNCHANGED <<list, table, detail, slips>>

(* An application or a report is open still. *)
ServeReview(d) ==
  /\ list \in {"applications", "reports"} /\ StatusOf(d.id) = "open"
  /\ rows' = Decided(d.id)
  /\ Served(d)

takeAccountAction(d) ==
  /\ list = "accounts"
  /\ rows' = IF d.bars THEN Decided(d.id) ELSE rows
  /\ Served(d)

Mut_NotRefetched(d) == UNCHANGED table

(* Success in the table: fetchData of the render its button was drawn in. *)
Refetch(d) ==
  /\ fetching' = Append(fetching, Fetch(d.filter, d.page)) /\ loading' = TRUE
  /\ UNCHANGED <<statusFilter, page, data>>

Told(d, at) == d \in deciding /\ d.served /\ d.at = at /\ deciding' = deciding \ {d}

ToldInTable(d) ==
  /\ Told(d, "table")
  /\ Refetch(d)
  /\ UNCHANGED <<list, rows, detail, slips>>

ToldNobody(d) == Told(d, "gone") /\ UNCHANGED <<list, rows, table, detail, slips>>

ReviewTold(d) ==
  /\ list \in {"applications", "reports"} /\ Told(d, "row")
  /\ detail' = [detail EXCEPT !.status = "decided"]
  /\ UNCHANGED <<list, rows, table, slips>>

(* The page of the account keeps the status that it was loaded with. *)
AccountActionTold(d) ==
  /\ list = "accounts" /\ Told(d, "row")
  /\ Slip(d.bars /\ detail.status = "open", "acted")
  /\ UNCHANGED <<list, rows, table, detail>>

(* An error, or no answer: a message, and the screen stays as it is. *)
DecisionFailed(d) ==
  /\ d \in deciding
  /\ Slip(d.served \/ StatusOf(d.id) = "open", "failed")
  /\ deciding' = deciding \ {d}
  /\ UNCHANGED <<list, rows, table, detail>>

DecidedElsewhere(id) ==
  /\ \E r \in ToSet(rows) : r.id = id /\ r.status = "open"
  /\ Slip(TRUE, "elsewhere")
  /\ rows' = Decided(id)
  /\ UNCHANGED <<list, table, deciding, detail>>

Arrives ==
  /\ Len(rows) < Rows
  /\ Slip(TRUE, "arrives")
  /\ rows' = <<[id |-> Len(rows) + 1, status |-> "open"]>> \o rows
  /\ UNCHANGED <<list, table, deciding, detail>>

DashNext ==
  \/ \E f \in Filter : SetFilter(f)
  \/ \E p \in PageNo : SetPage(p)
  \/ ClearSearch
  \/ \E i \in 1..(Fetches + 1) : ReadPage(i) \/ TakePage(i) \/ FetchFails(i)
  \/ \E r \in data : OpenRow(r) \/ DecideInTable(r)
  \/ LoadApplication \/ LoadReport \/ LoadAccount \/ BackToTable
  \/ DecideApplication \/ DecideReport
  \/ \E bars \in BOOLEAN : ActOnAccount(bars)
  \/ \E d \in deciding : ServeReview(d) \/ takeAccountAction(d)
  \/ \E d \in deciding : ToldInTable(d) \/ ToldNobody(d) \/ ReviewTold(d) \/ AccountActionTold(d)
  \/ \E d \in deciding : DecisionFailed(d)
  \/ \E id \in Row : DecidedElsewhere(id)
  \/ Arrives

DashSpec == DashInit /\ [][DashNext]_dashVars

-----------------------------------------------------------------------------
(* When nothing is in flight the table shows the page and the filters that *)
(* are set, and the page of a row its status, as the backend has them,     *)
(* unless an answer overtook another, a call failed, the admin left before *)
(* it came, somebody else changed the list since or an account was barred  *)
(* on its page (volunteer-applications/page.tsx:26-73, reports/page.tsx,   *)
(* accounts/page.tsx, sessions/page.tsx and the show/[id]/page.tsx).       *)
DashboardIsRight ==
  fetching = << >> /\ deciding = {} /\ slips = {} =>
    IF detail = Nowhere THEN data = PageOf(statusFilter, page)
    ELSE detail.status \in {"loading", StatusOf(detail.id)}
=============================================================================
