------------------------------ MODULE Reports ------------------------------
(***************************************************************************)
(* The reports and the list of sales, read while checkouts commit and days *)
(* pass.  A report is several statements outside any transaction: each     *)
(* sees what is committed when it runs.  The dashboard asks the database   *)
(* for its day, every statement anew; the summaries take their days from   *)
(* the server's clock or from the client.  A page of the list is a request *)
(* of its own, cut from the whole list by Paginate.  This module composes  *)
(* the readers with the checkouts of ReceiptNumber, which they do not      *)
(* disturb; a checkout is named by its place in the order of created_at.   *)
(***************************************************************************)
EXTENDS ReceiptNumber, SequencesExt

CONSTANTS
  Readers,
  Lines,        \* the list of rows of transaction_details of each checkout
  TotalAmount,  \* total_amount of each checkout
  Category,     \* the category of each product, or NoCategory
  NoCategory,
  PaidWith,     \* the payment types of each checkout
  FirstWeekday, \* the weekday of day 0, Sunday being 0
  MonthStarts,  \* the days that begin a month
  Limit,        \* how many recent sales the dashboard shows
  PerPage,      \* per_page of the readers of the list
  MaxPerPage,   \* the cap of per_page
  MaxInt        \* the largest int

ASSUME ReportsAssumption ==
  /\ Checkouts \subseteq Nat
  /\ Limit \in Nat /\ MaxInt \in Nat
  /\ MaxPerPage \in Nat /\ PerPage \in 1..MaxPerPage
  /\ FirstWeekday \in 0..6
  /\ \E d \in MonthStarts : d <= 0

\* The ids of transactions are SERIAL, of 32 bits, and Go's int has 64: the list
\* and a page more fit an int.
ASSUME ListAssumption ==
  /\ IsFiniteSet(Checkouts)
  /\ Cardinality(Checkouts) + MaxPerPage <= MaxInt

ASSUME LinesAssumption ==
  \A c \in Checkouts : /\ Len(Lines[c]) \in Nat /\ DOMAIN Lines[c] = 1..Len(Lines[c])
                       /\ \A i \in 1..Len(Lines[c]) : Lines[c][i].subtotal \in Int

\* total_amount is what the lines add up to, as Sales has it (DocumentsAddUp).
ASSUME TotalsAssumption ==
  \A c \in Checkouts :
     TotalAmount[c] = SumFunction([i \in DOMAIN Lines[c] |-> Lines[c][i].subtotal])

VARIABLES
  doing,        \* the statement each reader runs next, or how it ended
  kind,         \* what it reads: "dashboard", "summary" or "list"
  from, to,     \* the days of a summary
  counted,      \* the sales in its revenue and their count
  top,          \* the sales its top products are taken from
  recent,       \* the recent sales
  page,         \* the page of the list it asks for next
  met,          \* history: the sales it met on its pages
  before,       \* history: the sales committed when it started on the list
  spanned,      \* history: the dashboards within which a day of the database ended
  lost          \* history: summaries whose second statement failed

reader == <<doing, kind, from, to, counted, top, recent, page, met, before,
            spanned, lost>>

Committed == {x.checkout : x \in receipts}

\* The sales of the days a..b.
Of(a, b) == {x.checkout : x \in {y \in receipts : a <= y.day /\ y.day <= b}}

\* ORDER BY created_at DESC: the latest checkout to begin comes first.
NewestFirst(S) ==
  CHOOSE s \in [1..Cardinality(S) -> S] : \A i, j \in DOMAIN s : i < j => s[i] > s[j]

FindAllForOrg == NewestFirst(Committed)

\* Go's int wraps.
Wrapped(n) == ((n + MaxInt + 1) % (2 * (MaxInt + 1))) - (MaxInt + 1)

\* Mutant: the first page is page 0.
PaginateFromZero(items, p, perPage) ==
  LET start == Wrapped(p * perPage)
      end == IF start + perPage > Len(items) THEN Len(items) ELSE start + perPage
  IN IF start >= Len(items) \/ start < 0 THEN <<>> ELSE SubSeq(items, start + 1, end)

\* The page p of a list; a start that has wrapped below 0 is a panic of the
\* handler, which answers nothing.
Paginate(items, p, perPage) ==
  LET start == Wrapped((p - 1) * perPage)
      end == IF start + perPage > Len(items) THEN Len(items) ELSE start + perPage
  IN IF start >= Len(items) THEN <<>> ELSE SubSeq(items, start + 1, end)

\* ParsePagination caps per_page.
Capped(perPage) == IF perPage > MaxPerPage THEN MaxPerPage ELSE perPage

\* The Monday of the week of day d, and the first of its month.
WeekStart(d) ==
  LET weekday == (FirstWeekday + d) % 7
  IN d - (IF weekday = 0 THEN 7 ELSE weekday) + 1
MonthStart(d) == Max({s \in MonthStarts : s <= d})
-----------------------------------------------------------------------------
\* What the rows of the sales S come to: revenue, by product, by category, and
\* the rows of the export, one for each sale.
Revenue(S) == SumFunction([c \in S |-> TotalAmount[c]])

Details(S) == UNION {{<<c, i>> : i \in DOMAIN Lines[c]} : c \in S}
ProductOf(row) == Lines[row[1]][row[2]].product
SumOf(rows) == SumFunction([row \in rows |-> Lines[row[1]][row[2]].subtotal])

SalesByProduct(S) ==
  [p \in {ProductOf(row) : row \in Details(S)} |->
     SumOf({row \in Details(S) : ProductOf(row) = p})]

\* Mutant: products are joined to their categories with an inner join.
SalesByCategoryJoined(S) ==
  [k \in {Category[ProductOf(row)] : row \in Details(S)} \ {NoCategory} |->
     SumOf({row \in Details(S) : Category[ProductOf(row)] = k})]

SalesByCategory(S) ==
  [k \in {Category[ProductOf(row)] : row \in Details(S)} |->
     SumOf({row \in Details(S) : Category[ProductOf(row)] = k})]

ExportCSV(S) == {[sale |-> c, total |-> TotalAmount[c], payment |-> PaidWith[c]] : c \in S}
-----------------------------------------------------------------------------
ReportsInit ==
  /\ Init
  /\ doing = [r \in Readers |-> "idle"]
  /\ kind = [r \in Readers |-> "none"]
  /\ from = [r \in Readers |-> 0]
  /\ to = [r \in Readers |-> 0]
  /\ counted = [r \in Readers |-> {}]
  /\ top = [r \in Readers |-> {}]
  /\ recent = [r \in Readers |-> <<>>]
  /\ page = [r \in Readers |-> 1]
  /\ met = [r \in Readers |-> {}]
  /\ before = [r \in Readers |-> {}]
  /\ spanned = {}
  /\ lost = {}

\* Reader r comes with a report that begins with the sales S.
Ask(r, what, a, b, S, next) ==
  /\ doing[r] = "idle"
  /\ doing' = [doing EXCEPT ![r] = next]
  /\ kind' = [kind EXCEPT ![r] = what]
  /\ from' = [from EXCEPT ![r] = a]
  /\ to' = [to EXCEPT ![r] = b]
  /\ counted' = [counted EXCEPT ![r] = S]
  /\ before' = [before EXCEPT ![r] = IF what = "list" THEN Committed ELSE {}]
  /\ UNCHANGED <<vars, top, recent, page, met, spanned, lost>>

\* The first statement of GetSalesSummaryForOrg.
Summary(r, a, b) == Ask(r, "summary", a, b, Of(a, b), "top")

HandleTodayReport(r) == Summary(r, appDay, appDay)
HandleWeeklyReport(r) == Summary(r, WeekStart(appDay), appDay)
HandleMonthlyReport(r) == Summary(r, MonthStart(appDay), appDay)
HandleReport(r) == \E a, b \in Days : Summary(r, a, b)

HandleDashboard(r) == Ask(r, "dashboard", 0, 0, Of(dbDay, dbDay), "top")

HandleTransactions(r) == Ask(r, "list", 0, 0, {}, "pages")

\* Mutant: the top products are those of the server's day.
TopProductsOfServerDay(r) ==
  /\ doing[r] = "top"
  /\ top' = [top EXCEPT ![r] = IF kind[r] = "dashboard" THEN Of(appDay, appDay)
                                                        ELSE Of(from[r], to[r])]
  /\ doing' = [doing EXCEPT ![r] = IF kind[r] = "dashboard" THEN "recent" ELSE "ok"]
  /\ UNCHANGED <<vars, kind, from, to, counted, recent, page, met, before, spanned, lost>>

TopProducts(r) ==
  /\ doing[r] = "top"
  /\ top' = [top EXCEPT ![r] = IF kind[r] = "dashboard" THEN Of(dbDay, dbDay)
                                                        ELSE Of(from[r], to[r])]
  /\ doing' = [doing EXCEPT ![r] = IF kind[r] = "dashboard" THEN "recent" ELSE "ok"]
  /\ UNCHANGED <<vars, kind, from, to, counted, recent, page, met, before, spanned, lost>>

RecentSales(r) ==
  LET sales == NewestFirst(Of(dbDay, dbDay))
  IN /\ doing[r] = "recent"
     /\ recent' = [recent EXCEPT ![r] =
                   SubSeq(sales, 1, IF Len(sales) < Limit THEN Len(sales) ELSE Limit)]
     /\ doing' = [doing EXCEPT ![r] = "ok"]
     /\ UNCHANGED <<vars, kind, from, to, counted, top, page, met, before, spanned, lost>>

\* A client that walks through the list stops at the first empty page.
NextPage(r) ==
  LET sales == Paginate(FindAllForOrg, page[r], Capped(PerPage))
  IN /\ doing[r] = "pages"
     /\ met' = [met EXCEPT ![r] = @ \cup ToSet(sales)]
     /\ page' = [page EXCEPT ![r] = @ + 1]
     /\ doing' = [doing EXCEPT ![r] = IF sales = <<>> THEN "ok" ELSE "pages"]
     /\ UNCHANGED <<vars, kind, from, to, counted, top, recent, before, spanned, lost>>

\* A statement fails: an error, but for the second of a summary, whose error the
\* test of an empty name hides: the summary is answered without a top product.
FailRead(r) ==
  /\ doing[r] \in {"top", "recent", "pages"}
  /\ IF doing[r] = "top" /\ kind[r] = "summary"
     THEN doing' = [doing EXCEPT ![r] = "ok"] /\ lost' = lost \cup {r}
     ELSE doing' = [doing EXCEPT ![r] = "error"] /\ UNCHANGED lost
  /\ UNCHANGED <<vars, kind, from, to, counted, top, recent, page, met, before, spanned>>

\* The checkouts and the clocks go on beside the readers.
BeginInOrder(c) ==
  /\ \A b \in Checkouts : b < c => pc[b] # "idle"
  /\ Begin(c)

Sell ==
  /\ \/ \E c \in Checkouts : BeginInOrder(c) \/ Statement(c) \/ Abort(c)
     \/ AppMidnight \/ DbMidnight
  /\ spanned' = IF dbDay' = dbDay THEN spanned
     ELSE spanned \cup {r \in Readers : kind[r] = "dashboard" /\ doing[r] \in {"top", "recent"}}
  /\ UNCHANGED <<doing, kind, from, to, counted, top, recent, page, met, before, lost>>

AllFinished ==
  /\ Finished
  /\ \A r \in Readers : doing[r] \in {"ok", "error"}
  /\ UNCHANGED reader
-----------------------------------------------------------------------------
Read(r) == TopProducts(r) \/ RecentSales(r) \/ NextPage(r)

ReportsNext ==
  \/ \E r \in Readers :
       \/ HandleTodayReport(r) \/ HandleWeeklyReport(r) \/ HandleMonthlyReport(r)
       \/ HandleReport(r) \/ HandleDashboard(r) \/ HandleTransactions(r)
       \/ Read(r) \/ FailRead(r)
  \/ Sell
  \/ AllFinished

ReportsSpec ==
  /\ ReportsInit /\ [][ReportsNext]_<<vars, reader>>
  /\ \A c \in Checkouts : WF_vars(Statement(c))
-----------------------------------------------------------------------------
(* Properties *)

\* The statements of one report agree although each sees a later moment: the top
\* products include every sale that was counted, and the recent sales are as
\* many as the counted ones allow, unless midnight passed within a dashboard.
\* The summary of a day with a sale has its top product, unless that statement
\* failed, which the answer does not show.
ReportsAgree ==
  \A r \in Readers : doing[r] = "ok" =>
    /\ kind[r] = "summary" /\ r \notin lost => counted[r] \subseteq top[r]
    /\ kind[r] = "dashboard" /\ r \notin spanned =>
         /\ counted[r] \subseteq top[r]
         /\ Len(recent[r]) >= Limit \/ counted[r] \subseteq ToSet(recent[r])

\* Whoever walks through the list meets every sale that was there when he
\* started: sales that are committed meanwhile only move others to later pages.
PagesMissNothing ==
  \A r \in Readers : doing[r] = "ok" /\ kind[r] = "list" => before[r] \subseteq met[r]

\* The reports of the same days reconcile: what was sold by product, by category
\* and in the export adds up to the revenue, whatever has no category or was
\* paid in parts; and the week of every day, of Sundays too, begins on a Monday.
ReportsReconcile ==
  /\ \A d \in 0..6 : /\ WeekStart(d) \in d - 6..d
                    /\ (FirstWeekday + WeekStart(d)) % 7 = 1
  /\ \A a, b \in Days :
    LET S == Of(a, b)
    IN /\ SumFunction(SalesByProduct(S)) = Revenue(S)
       /\ SumFunction(SalesByCategory(S)) = Revenue(S)
       /\ SumFunction([row \in ExportCSV(S) |-> row.total]) = Revenue(S)

\* Up to the page where (page - 1) * per_page leaves the range of an int, the
\* pages are a partition of the list, in its order.
PagesPartition ==
  LET list == FindAllForOrg
  IN \A perPage \in 1..(MaxPerPage + 1), p \in 1..(MaxInt + 1) :
       LET size == Capped(perPage)
           reference == {i \in 1..Len(list) : (i - 1) \div size = p - 1}
       IN (p - 1) * size <= MaxInt =>
            Paginate(list, p, size) =
              [k \in 1..Cardinality(reference) |-> list[(p - 1) * size + k]]
=============================================================================
