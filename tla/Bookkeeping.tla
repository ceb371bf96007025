---------------------------- MODULE Bookkeeping -----------------------------
(***************************************************************************)
(* What is computed from the ledger after the fact: settlement statements  *)
(* (lib/statements.ts) and the reconciliation of a provider's report       *)
(* (lib/reconciliation.ts, lib/reconciliation-db.ts).  An entry carries    *)
(* the time its transaction started and becomes visible when it commits.   *)
(***************************************************************************)
EXTENDS Integers, Sequences, Functions

CONSTANTS
    Sources,         \* sourceId of an entry, reference of a report's line
    Postings,        \* [debit, credit, category] the ledger may receive
    Reports,         \* the lines a provider's report may have
    EntryAmounts,    \* the cents of a posting
    Runners,         \* requests to run or to resolve the report
    MaxEntries,      \* bound: entries, two per posting
    LastDay          \* bound: the clock

ASSUME BooksAssumption == EntryAmounts \subseteq Nat /\ LastDay \in Nat

VARIABLES
    today,
    entries,         \* ledger_entries in the order of their commits
    report,          \* the report: status, lines, their statuses, and how
                     \* many entries the run that wrote them had read
    runner           \* the progress of each request

booksVars == <<today, entries, report, runner>>

\* The sum of the cents of the entries with the given numbers.
Cents(log, numbers) == SumFunctionOnSet([n \in DOMAIN log |-> log[n].cents], numbers)

-----------------------------------------------------------------------------
\* buildStatement, with an end that is included.
statementToEnd(log, start, end) ==
    LET available(direction, before) ==
            Cents(log, {n \in DOMAIN log : /\ log[n].account = "AVAILABLE"
                                           /\ log[n].direction = direction
                                           /\ log[n].at < before})
        volume(category) == {n \in DOMAIN log : /\ log[n].direction = "DEBIT"
                                                /\ log[n].category = category
                                                /\ log[n].at \in start..end}
    IN  [opening |-> available("CREDIT", start) - available("DEBIT", start),
         closing |-> available("CREDIT", end) - available("DEBIT", end),
         items |-> [category \in {p.category : p \in Postings} |-> Cents(log, volume(category))]]

(***************************************************************************)
(* buildStatement: the AVAILABLE balance before the start and before the   *)
(* end, and per category the volume of the debit legs in between.          *)
(***************************************************************************)
buildStatement(log, start, end) ==
    LET available(direction, before) ==
            Cents(log, {n \in DOMAIN log : /\ log[n].account = "AVAILABLE"
                                           /\ log[n].direction = direction
                                           /\ log[n].at < before})
        volume(category) == {n \in DOMAIN log : /\ log[n].direction = "DEBIT"
                                                /\ log[n].category = category
                                                /\ log[n].at \in start..(end - 1)}
    IN  [opening |-> available("CREDIT", start) - available("DEBIT", start),
         closing |-> available("CREDIT", end) - available("DEBIT", end),
         items |-> [category \in {p.category : p \in Postings} |-> Cents(log, volume(category))]]

-----------------------------------------------------------------------------
\* Both sides as totals per reference, absent references left out.
ExternalTotals(lines) ==
    [r \in {lines[n].reference : n \in DOMAIN lines} |->
        Cents(lines, {n \in DOMAIN lines : lines[n].reference = r})]

\* buildInternalLines: the debit legs of a source.
buildInternalLines(log) ==
    LET debits == {n \in DOMAIN log : log[n].direction = "DEBIT"}
    IN  [r \in {log[n].source : n \in debits} |->
            Cents(log, {n \in debits : log[n].source = r})]

\* A comparison of what both sides have that forgets what one side lacks.
reconcileCommon(external, internal) ==
    LET both == DOMAIN external \cap DOMAIN internal
    IN  [exact |-> {r \in both : external[r] = internal[r]},
         amountDiff |-> {r \in both : external[r] # internal[r]},
         missingInternal |-> {},
         missingExternal |-> {}]

reconcile(external, internal) ==
    LET both == DOMAIN external \cap DOMAIN internal
    IN  [exact |-> {r \in both : external[r] = internal[r]},
         amountDiff |-> {r \in both : external[r] # internal[r]},
         missingInternal |-> DOMAIN external \ both,
         missingExternal |-> DOMAIN internal \ both]

isClean(result) ==
    result.amountDiff = {} /\ result.missingInternal = {} /\ result.missingExternal = {}

LineStatus(result, reference) ==
    CASE reference \in result.exact -> "EXACT"
      [] reference \in result.amountDiff -> "AMOUNT_DIFF"
      [] OTHER -> "UNMATCHED"

canTransitionReport(from, to) ==
    <<from, to>> \in {<<"PENDING", "MATCHED">>, <<"PENDING", "UNMATCHED">>,
                      <<"PENDING", "RESOLVED">>, <<"MATCHED", "UNMATCHED">>,
                      <<"MATCHED", "RESOLVED">>, <<"UNMATCHED", "MATCHED">>,
                      <<"UNMATCHED", "RESOLVED">>}

NoReport == [status |-> "NONE", lines |-> << >>, outcome |-> << >>, read |-> 0]

NoRunner == [pc |-> "idle", saw |-> "none", read |-> 0]

-----------------------------------------------------------------------------
\* postEntry commits the two legs of a posting stamped today or, late, before.
PostEntry(p, source, cents, at) ==
    LET leg(account, direction) ==
            [at |-> at, account |-> account, direction |-> direction,
             cents |-> cents, category |-> p.category, source |-> source]
    IN  /\ Len(entries) + 2 <= MaxEntries
        /\ entries' = entries \o <<leg(p.debit, "DEBIT"), leg(p.credit, "CREDIT")>>
        /\ UNCHANGED <<today, report, runner>>

NextDay ==
    /\ today < LastDay
    /\ today' = today + 1
    /\ UNCHANGED <<entries, report, runner>>

createReconciliationReport(lines) ==
    /\ report.status = "NONE"
    /\ report' = [status |-> "PENDING", lines |-> lines,
                  outcome |-> [n \in DOMAIN lines |-> "UNMATCHED"], read |-> 0]
    /\ UNCHANGED <<today, entries, runner>>

\* runReconciliation reads the report, then the ledger ...
RunReadsReport(u) ==
    /\ runner[u].pc = "idle"
    /\ report.status # "NONE"
    /\ runner' = [runner EXCEPT ![u] = [pc |-> "ledger", saw |-> report.status, read |-> 0]]
    /\ UNCHANGED <<today, entries, report>>

RunReadsLedger(u) ==
    /\ runner[u].pc = "ledger"
    /\ runner' = [runner EXCEPT ![u] = [@ EXCEPT !.pc = "write", !.read = Len(entries)]]
    /\ UNCHANGED <<today, entries, report>>

\* ... and writes the lines and the status of the report in one transaction.
RunWrites(u) ==
    LET log    == SubSeq(entries, 1, runner[u].read)
        result == reconcile(ExternalTotals(report.lines), buildInternalLines(log))
        next   == IF isClean(result) THEN "MATCHED" ELSE "UNMATCHED"
    IN  /\ runner[u].pc = "write"
        /\ report' = IF runner[u].saw = next \/ canTransitionReport(runner[u].saw, next)
                     THEN [report EXCEPT !.status = next,
                                         !.outcome = [n \in DOMAIN report.lines |->
                                             LineStatus(result, report.lines[n].reference)],
                                         !.read = runner[u].read]
                     ELSE report
        /\ runner' = [runner EXCEPT ![u] = NoRunner]
        /\ UNCHANGED <<today, entries>>

\* resolveReconciliation
ResolveReads(u) ==
    /\ runner[u].pc = "idle"
    /\ report.status # "NONE"
    /\ canTransitionReport(report.status, "RESOLVED")
    /\ runner' = [runner EXCEPT ![u] = [NoRunner EXCEPT !.pc = "resolve"]]
    /\ UNCHANGED <<today, entries, report>>

ResolveWrites(u) ==
    /\ runner[u].pc = "resolve"
    /\ report' = [report EXCEPT !.status = "RESOLVED"]
    /\ runner' = [runner EXCEPT ![u] = NoRunner]
    /\ UNCHANGED <<today, entries>>

BooksInit ==
    /\ today = 0
    /\ entries = << >>
    /\ report = NoReport
    /\ runner = [u \in Runners |-> NoRunner]

BooksNext ==
    \/ NextDay
    \/ \E p \in Postings, source \in Sources, cents \in EntryAmounts, at \in {today - 1, today} :
          at >= 0 /\ PostEntry(p, source, cents, at)
    \/ \E lines \in Reports : createReconciliationReport(lines)
    \/ \E u \in Runners :
          \/ RunReadsReport(u)
          \/ RunReadsLedger(u)
          \/ RunWrites(u)
          \/ ResolveReads(u)
          \/ ResolveWrites(u)

BooksSpec == BooksInit /\ [][BooksNext]_booksVars

-----------------------------------------------------------------------------
\* Properties.

(***************************************************************************)
(* Statements of adjoining periods, drawn up from the same ledger, chain:  *)
(* one closes where the next opens, and their volumes add up to those of a *)
(* statement over both.  No entry falls between them or into both.         *)
(***************************************************************************)
StatementsChain ==
    \A start, middle, end \in 0..(LastDay + 1) : start < middle /\ middle < end =>
        LET first  == buildStatement(entries, start, middle)
            second == buildStatement(entries, middle, end)
            whole  == buildStatement(entries, start, end)
        IN  /\ first.closing = second.opening
            /\ whole.closing - whole.opening
                  = (first.closing - first.opening) + (second.closing - second.opening)
            /\ \A c \in DOMAIN whole.items : whole.items[c] = first.items[c] + second.items[c]

(***************************************************************************)
(* A report that says MATCHED agrees with the ledger that the run which    *)
(* wrote it had read: nothing the provider did not report, nothing it      *)
(* reported twice, every line EXACT.  Runs that overlap do not mix their   *)
(* lines.                                                                  *)
(***************************************************************************)
MatchedIsEqual ==
    report.status = "MATCHED" =>
        LET debits == {n \in 1..report.read : entries[n].direction = "DEBIT"}
        IN  /\ \A s \in Sources :
                  Cents(entries, {n \in debits : entries[n].source = s})
                     = Cents(report.lines,
                             {n \in DOMAIN report.lines : report.lines[n].reference = s})
            /\ \A n \in DOMAIN report.outcome : report.outcome[n] = "EXACT"
=============================================================================
