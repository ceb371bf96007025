-------------------------------- MODULE Desk --------------------------------
(***************************************************************************)
(* The two review desks: a merchant's onboarding application               *)
(* (lib/onboarding.ts, lib/onboarding-db.ts) and a settlement statement    *)
(* (lib/statements.ts, lib/statements-db.ts).  Every decision reads the    *)
(* row, asserts the transition and updates the row by its id, without a    *)
(* transaction and without repeating the condition: a clerk is a request   *)
(* between the two.  The tenant's routes and the administrator's           *)
(* (routes/admin.ts) call the same functions.                              *)
(***************************************************************************)
EXTENDS Naturals

CONSTANT Clerks      \* requests of the merchant, the tenant or a reviewer

VARIABLES
    application,     \* merchant_onboarding: status and the fields it holds
    statement,       \* settlement_statements.status
    clerk            \* the decision each request is about to write

deskVars == <<application, statement, clerk>>

NoClerk == [at |-> "nothing", saw |-> "none", to |-> "none"]

\* Any status leads to any other.
canTransitionFreely(at, from, to) == from # to

canTransition(at, from, to) ==
    <<from, to>> \in
        IF at = "application"
        THEN {<<"DRAFT", "SUBMITTED">>, <<"SUBMITTED", "APPROVED">>,
              <<"SUBMITTED", "REJECTED">>, <<"SUBMITTED", "NEEDS_INFO">>,
              <<"REJECTED", "SUBMITTED">>, <<"NEEDS_INFO", "SUBMITTED">>}
        ELSE {<<"DRAFT", "FINALIZED">>, <<"DRAFT", "VOID">>, <<"FINALIZED", "VOID">>}

\* validateOnboarding: the required fields are not blank.
validateOnboarding == application.fields # "blank"

Status(at) == IF at = "application" THEN application.status ELSE statement

Decide(c, at, to) ==
    /\ clerk[c] = NoClerk
    /\ canTransition(at, Status(at), to)
    /\ clerk' = [clerk EXCEPT ![c] = [at |-> at, saw |-> Status(at), to |-> to]]
    /\ UNCHANGED <<application, statement>>

-----------------------------------------------------------------------------
\* PUT /onboarding: the fields are written whatever the status.
upsertOnboarding(fields) ==
    /\ application' = [status |-> IF application.status = "NONE" THEN "DRAFT"
                                  ELSE application.status,
                       fields |-> fields]
    /\ UNCHANGED <<statement, clerk>>

submitOnboarding(c) ==
    /\ validateOnboarding
    /\ Decide(c, "application", "SUBMITTED")

approveOnboarding(c) == Decide(c, "application", "APPROVED")

rejectOnboarding(c) == Decide(c, "application", "REJECTED")

requestInfoOnboarding(c) == Decide(c, "application", "NEEDS_INFO")

createSettlementStatement ==
    /\ statement = "NONE"
    /\ statement' = "DRAFT"
    /\ UNCHANGED <<application, clerk>>

finalizeSettlementStatement(c) == Decide(c, "statement", "FINALIZED")

voidSettlementStatement(c) == Decide(c, "statement", "VOID")

\* The update by id at the end of every decision.
WriteDecision(c) ==
    /\ clerk[c] # NoClerk
    /\ IF clerk[c].at = "application"
       THEN application' = [application EXCEPT !.status = clerk[c].to] /\ UNCHANGED statement
       ELSE statement' = clerk[c].to /\ UNCHANGED application
    /\ clerk' = [clerk EXCEPT ![c] = NoClerk]

DeskInit ==
    /\ application = [status |-> "NONE", fields |-> "blank"]
    /\ statement = "NONE"
    /\ clerk = [c \in Clerks |-> NoClerk]

DeskNext ==
    \/ \E fields \in {"blank", "first", "second"} : upsertOnboarding(fields)
    \/ createSettlementStatement
    \/ \E c \in Clerks :
          \/ submitOnboarding(c)
          \/ approveOnboarding(c)
          \/ rejectOnboarding(c)
          \/ requestInfoOnboarding(c)
          \/ finalizeSettlementStatement(c)
          \/ voidSettlementStatement(c)
          \/ WriteDecision(c)

DeskSpec == DeskInit /\ [][DeskNext]_deskVars

-----------------------------------------------------------------------------
\* Properties.

(***************************************************************************)
(* An approved application and a void statement are final.  The code keeps *)
(* this against every sequence of requests; it is broken only by a request *)
(* that overlaps the one that made the status final, having read the row   *)
(* before it.                                                              *)
(***************************************************************************)
FinalUnlessOverlapped ==
    [][\A at \in {"application", "statement"} :
          Status(at) \in {"APPROVED", "VOID"} /\ Status(at)' # Status(at)
             => \E c \in Clerks : clerk[c].at = at /\ clerk[c].saw # Status(at)]_deskVars
=============================================================================
