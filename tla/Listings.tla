------------------------------ MODULE Listings ------------------------------
(***************************************************************************)
(* The paged lists of the administrator and of the merchant                *)
(* (routes/admin.ts, routes/transactions.ts, routes/tenant.ts).  A page is *)
(* cut out of the table as it is at that moment, newest first, by skip and *)
(* take; between two pages rows are added, changed and removed from the    *)
(* filtered list.  The client, external, asks for page after page until    *)
(* one comes back short.                                                   *)
(***************************************************************************)
EXTENDS Integers, Sequences

CONSTANTS
    DefaultLimit, MaxLimit,   \* 20 and 100 in the code
    Limits,                   \* the limit a client asks for
    FirstRows,                \* rows when the client starts
    MaxTableRows              \* bound: rows added while it reads

ASSUME ListingAssumption ==
    /\ DefaultLimit \in Nat \ {0} /\ MaxLimit \in Nat \ {0}
    /\ Limits \subseteq Nat
    /\ FirstRows \in Nat /\ MaxTableRows \in Nat

VARIABLES
    list,            \* which list is read
    table,           \* the rows it shows, in its order
    reader           \* the client: page asked for, limit, what it has seen

listingVars == <<list, table, reader>>

\* The lists, with the column they are ordered by, their optional filter and
\* whether the limit asked for is clamped.
adminPayouts == [orderBy |-> "createdAt", filter |-> {"status"}, clamped |-> TRUE]
adminOnboarding == [orderBy |-> "updatedAt", filter |-> {"status"}, clamped |-> TRUE]
adminDisputes == [orderBy |-> "createdAt", filter |-> {"status"}, clamped |-> TRUE]
adminReports == [orderBy |-> "createdAt", filter |-> {"status"}, clamped |-> TRUE]
adminStatements == [orderBy |-> "createdAt", filter |-> {"status"}, clamped |-> TRUE]
adminRiskDecisions == [orderBy |-> "createdAt", filter |-> {"riskVerdict"}, clamped |-> TRUE]
adminWebhooks == [orderBy |-> "createdAt", clamped |-> FALSE,
                  filter |-> {"provider", "tenantId", "signatureVerified", "processed",
                              "createdAt"}]
adminTenants == [orderBy |-> "createdAt", filter |-> {"status"}, clamped |-> FALSE]
transactions == [orderBy |-> "createdAt", clamped |-> FALSE,
                 filter |-> {"status", "provider", "createdAt", "reference"}]
paymentLinks == [orderBy |-> "createdAt", filter |-> {"status"}, clamped |-> FALSE]
subscriptions == [orderBy |-> "createdAt", filter |-> {"status", "customerId"},
                  clamped |-> FALSE]
agreements == [orderBy |-> "createdAt", filter |-> {"status", "customerId"},
               clamped |-> FALSE]

Lists == {adminPayouts, adminOnboarding, adminDisputes, adminReports, adminStatements,
          adminRiskDecisions, adminWebhooks, adminTenants, transactions, paymentLinks,
          subscriptions, agreements}

\* A column of a row that never changes keeps the row in its list.
Mutable == {"status", "riskVerdict", "processed"}

\* A page counted from zero.
paginationFromZero(page, limit) == [skip |-> page * limit, take |-> limit]

\* parseAdminPagination: bounded, from page 1, zero meaning the default.
parseAdminPagination(page, limit) ==
    LET limitNum == IF limit = 0 THEN DefaultLimit
                    ELSE IF limit > MaxLimit THEN MaxLimit ELSE limit
    IN  [skip |-> (page - 1) * limitNum, take |-> limitNum]

\* The other lists take the numbers of the query as they come.
rawPagination(page, limit) == [skip |-> (page - 1) * limit, take |-> limit]

Pagination(page, limit) ==
    IF list.clamped THEN parseAdminPagination(page, limit) ELSE rawPagination(page, limit)

\* findMany with skip and take.
PageOf(rows, page, limit) ==
    LET cut == Pagination(page, limit)
    IN  SubSeq(rows, cut.skip + 1,
               IF cut.skip + cut.take < Len(rows) THEN cut.skip + cut.take ELSE Len(rows))

Ids(rows) == {rows[n] : n \in DOMAIN rows}

-----------------------------------------------------------------------------
ReadPage ==
    LET page == PageOf(table, reader.page, reader.limit)
        full == Len(page) = Pagination(reader.page, reader.limit).take
    IN  /\ ~ reader.done
        /\ reader' = [reader EXCEPT !.page = @ + 1,
                                    !.done = ~ full,
                                    !.seen = @ \cup Ids(page)]
        /\ UNCHANGED <<list, table>>

InsertRow ==
    /\ reader.added < MaxTableRows
    /\ table' = <<FirstRows + reader.added + 1>> \o table
    /\ reader' = [reader EXCEPT !.added = @ + 1]
    /\ UNCHANGED list

\* The table without its row n.
Without(n) == SubSeq(table, 1, n - 1) \o SubSeq(table, n + 1, Len(table))

\* An update moves the row to the head of a list in the order of updatedAt.
UpdateRow(n) ==
    /\ ~ reader.done
    /\ table' = IF list.orderBy = "updatedAt" THEN <<table[n]>> \o Without(n) ELSE table
    /\ reader' = [reader EXCEPT !.changed = @ \cup {table[n]}]
    /\ UNCHANGED list

\* An update after which the row no longer passes the filter.
LeaveFilter(n) ==
    /\ ~ reader.done
    /\ list.filter \cap Mutable # {}
    /\ table' = Without(n)
    /\ reader' = [reader EXCEPT !.changed = @ \cup {table[n]}, !.left = TRUE]
    /\ UNCHANGED list

\* Where the limit is not clamped, a limit of zero reads nothing: no client asks
\* for it.
ListingInit ==
    /\ list \in Lists
    /\ table = [n \in 1..FirstRows |-> FirstRows + 1 - n]
    /\ \E limit \in Limits \ (IF list.clamped THEN {} ELSE {0}) :
          reader = [page |-> 1, limit |-> limit, seen |-> {}, done |-> FALSE,
                    changed |-> {}, left |-> FALSE, added |-> 0]

ListingNext ==
    \/ ReadPage
    \/ InsertRow
    \/ \E n \in DOMAIN table : UpdateRow(n) \/ LeaveFilter(n)

ListingSpec == ListingInit /\ [][ListingNext]_listingVars

-----------------------------------------------------------------------------
\* Properties.

(***************************************************************************)
(* A client that reads a list to its end has seen every row that was there *)
(* when it started and was not changed since, although rows are added at   *)
(* the head under its feet.  It fails once a row leaves the filter while   *)
(* the client reads (a reviewer working through a queue): the rows behind  *)
(* it move up over the boundary of a page.                                 *)
(***************************************************************************)
UntouchedIsListed ==
    reader.done /\ ~ reader.left => (1..FirstRows) \ reader.changed \subseteq reader.seen
=============================================================================
