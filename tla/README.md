# CorpoPay API: a TLA+ verification project

CorpoPay is a payment API for merchants (tenants). It opens checkouts with a
provider (VPS/Payzone, NAPS, Stripe), learns of payments through webhooks and
polling, books captured money in a double-entry ledger, and moves it on: fees,
tax, reserves, marketplace shares, refunds, chargebacks, wallets, payouts. It
bills subscriptions and installments, scores risk, reviews merchants and serves
an administrator. The code is Express routes, Inngest jobs (durable steps,
retried one by one) and Prisma over PostgreSQL at READ COMMITTED. Every route and
every job is a process of its own; they meet only in the database, in the ledger
and at the provider. This project models that: the handlers as actions, the rows
they share as variables, and each place where another handler can run in between
as a step.

## 1. Inventory

| Component | State | Operations | Hard part | Correct when |
|---|---|---|---|---|
| Ledger (`lib/ledger*.ts`) | append-only postings, balances derived | `postEntry` under the tenant's advisory lock | which reads happen before the lock | every posting balanced, balances follow |
| Arithmetic (`fees`, `tax`, `settlement-policy`, `splits`, `reversals`) | none | `computeFee`, `split`, `fundReversal`... | rounding, remainders, order of shares | nothing created or lost, each share within a centime |
| Capture and refund settlement (`settlement-db`, `refund-db`) | postings of an intent | `settleCapture`, `settleRefund` | check before lock; capture and refund must mirror | booked once, COLLECTED clears, refund undoes capture |
| Payouts (`payout-db`, `routes/payouts.ts`, `admin.ts`) | payout rows, reserved credits, provider transfers | create, cancel, process, execute by hand, mark paid or failed | stale status, transfer before settlement | paid once, from reserved money, within the funds |
| Disputes (`reversals-db`) | disputes, receivables | create, resolve | balances and status read before the transaction | LOST covered once, WON and OPEN move nothing |
| Intent lifecycle (`intent-actions`, `refunds`, webhook jobs, poller) | status of the intent, link, refund row | webhook steps, polling, capture, void, refund | seven writers of one column, memoised reads, out-of-order and repeated steps | money follows the provider, holds survive |
| Checkout and risk (`paymentIntents`, `paymentLinks`, `risk*`) | intents, the link and its attempts | open by reference, pay a link, cancel it, resolve a review | nothing is locked between the checks and the insert | limits hold or are overshot by a known amount, repeats reuse the session |
| Sandbox (`simulation.ts`) | a throwaway charge | poll, capture, release | every poll may write | the hold waits for the operator |
| Splits (`splits-db`) | split rows, escrow | execute, release | release checks before it locks | escrow covers what is pending |
| Wallets (`wallet-db`, `finance-config`) | cached balance, audit rows, commission basis | top-up, draw-down, refund, adjust, configure | basis changes between load and use | snapshot equals the ledger, never overdrawn |
| Subscriptions (`billingRenewal`, `dunning`, sweep, activation) | subscription, billing date, runs | renew, retry, cancel, pause, resume | the queue forgets ids, sleeps of days | a stop is final, ladders end |
| Installments (`installmentCharge`, plans, agreements) | agreement, rows, runs | activate, charge, default, cancel | each run starts the next one | charged as planned, reaches an end |
| Versions and policies (`fees-db`, `policy-db`, presets) | versions, the active one, overrides | create, resolve, promise | version numbers without a lock; null and zero | the newest is active, no policy is incomplete |
| Webhook ingress, notifications | stored events, queue, URL and secret | verify, dedup, send; sign and retry | redelivery, forgotten keys, rotated secrets | handled once, lands, signed |
| FX (`fx*`, head of `createPayout`) | balances per currency | sweep | double rounding, open payouts | no money lost but rounding |
| Statements, reconciliation, onboarding | rows and their states | build, run, resolve, decide | boundaries of periods, overlapping decisions | periods chain, MATCHED is equal, final stays final |
| Auth, team, provider configuration, lists | cached tenant status, roles, configuration, pages | check, edit, save, test, read pages | stale caches and reads | bounded lag, counted owners, disabled stays disabled |

Components interact by calls (the webhook jobs and `captureIntent` call
`settleCapture`; the refund route calls `settleRefund`), through the ledger
(payouts, clawbacks and refunds spend what captures credit; splits divide what
draw-downs earn) and through events of the queue (checkout starts the poller, the
webhook route starts a job, a job starts an activation, a charge the next one).
`PROJECT.json` lists every component, modelled or not, and the main hazards line
by line.

## 2. Modules

| Module | Models | Composes |
|---|---|---|
| `Ledger`, `Pricing`, `FinanceConfig`, `Risk` | postings and balances; amount arithmetic; capabilities; scoring | - |
| `Settlement` | `settleCapture`, `settleRefund` | `Ledger`, `Pricing` |
| `Payouts` | the payout engine and the settlement summary | `Ledger` |
| `Disputes` | disputes and clawbacks | `Ledger`, `Pricing` |
| `IntentLifecycle` | one intent and everyone who writes its status | - |
| `Wallets`, `Purse` | stored value; its abstract specification | `Ledger`, `Pricing`, `FinanceConfig` |
| `Splits` | executions and escrow releases next to the wallets | `Wallets` |
| `Subscriptions`, `Installments` | recurring billing; BNPL | - |
| `Checkout`, `SandboxCharge` | creation of intents; the operator's smoke tests | `Risk` |
| `Versions`, `Policies`, `Fx`, `Bookkeeping`, `Desk` | fee and policy versions; presets and overrides; currencies; statements and reconciliation; review desks | `Pricing` (Fx) |
| `WebhookIngress`, `Notifications`, `ProviderConfigs`, `TenantGate`, `Team`, `Listings` | the edges of the API | - |
| `PricingCases` | the split arithmetic over bounded inputs | `Pricing` |
| `MC...` | instances for TLC | the modules named in them |
| `MoneyProofs` | lemmas about sums, balances, FIFO and split arithmetic | `Ledger`, `Pricing` |
| `IntentLifecycleProofs` | theorems about the lifecycle and the installments | `IntentLifecycle`, `Installments` |
| `AdministrationProofs` | theorems about the edges, the lists, the books, policies, currencies, splits, the checkout and the sandbox | the modules of `administration`, `Checkout`, `SandboxCharge` |
| `...Proofs` | theorems and their proofs | the module named |

**Ledger.** A journal is a sequence of postings in commit order. A posting stands
for the debit and the credit row that `postEntry` writes together. `balanceOf` is
the code's sum. One tenant, one currency. `Wallets`, `Splits` and `Fx` keep the
balances only, since their operations read nothing else of the ledger.

**Settlement.** `BeginSettle` is `settleCapture` up to the end of its reads: the
search for an earlier capture and the tenant's configuration (fee schedule,
policy, tax, split rule), chosen anew at every call since it may change.
`CommitSettle` posts all legs. The reads come before the first `postEntry` takes
the advisory lock, so other transactions may commit in between. `SettleRefund`
takes the lock first and is one step. A caller may die (`AbortSettle`). Nothing
keeps a flat fee below a small charge; `Shortfall` is what fee, tax and reserve then
take beyond the gross.

**Payouts.** A request of `/cancel`, `/process` or the administrator's `/execute` is a
small machine. `createPayout` holds the lock and is one step; `markPayoutPaid` is a
locked read (`LockPaid`) and a commit (`CommitPaid`), with the lock in between held
against every posting, not against `cancelPayout` and `markPayoutFailed`, which
never take it and check a status read earlier. `transfers` counts what the provider
really paid. `OtherPosting` stands for every other movement of the tenant.

**Disputes.** `resolveDispute` to LOST reads the balances and computes the
allocation (`ReadLost`), re-checks the status (`RecheckLost`) and commits
(`CommitLost`); to WON it reads and commits. `Fund` stands for the captures.

**IntentLifecycle.** `charge` is the provider's truth; every change of it sends the
events that report it. `job[e]` is the webhook job of event `e`: read the status,
update, settle, store and notify. On VPS the status is memoised by `find-intent`;
on Stripe it is read at the start of the update step. A step that is not
acknowledged runs again. The poller and the status route read, ask and write;
capture and void requests lock, call the provider, finish and settle; refund
requests check, create the row, call, unwind and finish. Any request may die
between two steps. `settled` and `unwound` say whether the postings of
`Settlement` exist. `CustomerPays` and `CardDeclined` are external.

**Wallets and Splits.** Every wallet operation takes the lock before it reads and is
one step; `held[w]` is the part of WALLET that the postings of wallet `w` made,
next to the cached `balance` and the sum of the audit rows. `executeSplit` is one
step, `releaseSplit` a read and a commit. `Purse` says what stored value promises:
one owner's purse changes at a time and none is overdrawn; `Wallets` maps `purse`
to `held`.

**Subscriptions.** Time is a day counter. The queue drops an event whose id it
accepted within 24 hours: certain on the same day, possible on the next. A run is
validated, then climbs the ladder of `runDunningLadder`: attempt, sleep, check. The
provider charges one idempotency id at most once; an answer may be lost, and then
the run dies (`retries: 0`). The sandbox workflow is a run of another kind.

**Installments.** The chain of charge runs, the two activations (webhook, sandbox
poll), plan edits and the merchant's cancel. `dropped` records that a run died or
a send was lost.

**Checkout and SandboxCharge.** A request is a process and each database or provider
call a step. The clock counts units of five minutes. `asked` and `seen` are
history. A direct request names a provider and is hosted, `checkoutMode` "element"
or `walletMode`. What a repeat is compared by is not that mode: `SameKind` asks of
the request whether it set `walletMode` and of the stored row whether the provider
answered with a client secret, which Stripe does in both in-page modes and no other
provider ever does (`GivesSecret`). `IntentLifecycle` takes over from the row.

**The edges.** `Versions` is the read of the highest number, the switch-off and the
insert under the unique index. `Desk`, `ProviderConfigs`, `Team` and `Notifications`
are read, decide, write machines without a lock, as the routes are. `TenantGate`
has the cached status of one process, with `Delay` the time between a read and
its use. `Listings` gives each paged list its order, filter and clamping, with
rows entering and leaving between two pages. `WebhookIngress` ends where a job of
`IntentLifecycle` starts; it knows how the job ends: with its row in
`webhook_events`, out of retries, or, the Stripe job, without a row, because it did
not find the intent or has no branch for the event type (`JobSkips`). `Bookkeeping`
computes statements and matches reports over entries that become visible at their
commit.

**Fx.** Per currency the module keeps the AVAILABLE balance, the credits no payout
has reserved and the debits of another category than PAYOUT, which is all that
`createPayout` reads. Captures credit (`Deposit`), refunds, clawbacks and wallet fees
debit (`TakeBack`) whatever the open payouts count on, the settlement currency
changes, and several payouts, each under its idempotency key, are open together in
the same or in different currencies. FIFO allocation reserves whole credits, so the
credits after the last one reserved are left (`Leftovers`); which ones they are is
in `Payouts`.

## 3. Runs

Passing runs, the instance and what they show:

| Run | Instance | Properties |
|---|---|---|
| `settlement` | 2 intents, 3 callers, 5 configurations (percentage, flat, flat above the charge, taxed, split) | `DuplicateOnlyFromOverlap`, `CollectedClears`, `RefundUnwindsCapture` |
| `payouts` | 2 payouts, 2 requests, 3 other postings, 2 transfers each | `SettledAtMostOnce`, `EntryReservedOnce`, `OpenPayoutIsFunded`, `TerminalIsFinal`, `PayoutWithinFunds` |
| `disputes` | 2 disputes, 2 resolvers, `DEBIT_RESERVE` | `LostIsCovered`, `ResolutionIsFinal` |
| `intent_vps` | direct VPS charge, 1 status caller, 2 refunds | `RefundRowMatchesProvider`, `PollerSelfHeals` |
| `intent_hold` | VPS pre-auth, 2 capture or void requests, 1 status caller, outages | `MoneyFollowsCapture`, `HoldNotTerminal` |
| `intent_stripe` | Stripe charge with a declined first card, two events per success, 1 refund, outages | `MoneyFollowsCapture` |
| `marketplace` | 2 wallets, 2 releases, 2 schedules, 2 configurations, 2 share lists | `SnapshotIsDerived`, `EscrowCoversPending`, `PurseSpec` |
| `billing` | 8 days, period of 6, trials of 0 and 2, 1 run, 2 requests (a pause and its resume), declines | `StopIsFinal`, `LadderEnds` |
| `installments` | 3 installments, sandbox and customer agreements | `ChargedAsPlanned`, `AgreementEnds` |
| `checkout` | 2 requests, Stripe and VPS, 3 modes, 1 attempt, 3 intents, 2 instants; 2 operators, both kinds of sandbox charge | `AttemptsBounded`, `RepeatsAreCached`, `VelocityOvershoot`, `HoldWaitsForOperator` |
| `administration` | one scene at a time, see below | 14 properties |

`administration` picks a scene in its initial state and the other machines stand
still, since they share nothing: versions (`NewestIsActive`), policies
(`PoliciesHold`), the desks (`FinalUnlessOverlapped`), provider configurations
(`DisabledUntilEnabled`), the gate (`LagIsBounded`), the team (`OwnerLostOnlyByRace`),
statements and reconciliation (`StatementsChain`, `MatchedIsEqual`), lists
(`UntouchedIsListed`), ingress (`HandledOnce`, `WebhookLands`), notifications
(`TakenIsSigned`), currencies (`SweepKeepsMoney`) and the split arithmetic
(`SplitIsExact`: every amount to 15, every list of up to 3 shares of 7 basis
points). Several of these say exactly how far an unlocked read can mislead: a
decision is final *unless* another clerk had read before it, a disabled
configuration stays so *unless* a save or a test had read before, an owner stays
*unless* two step down at once or a token outlives its role. `payouts` and `disputes`
do the same: an ended payout or a resolved dispute is final *unless* a request was
already past its check of the status.

Each property has a mutant in `PROJECT.json`: a plausible slip in the code (a
dropped guard, a forgotten leg, a stale check) under which the same run fails.

**One run is refuted.** `billing_double_charge` states what
`jobs/billingRenewal.inngest.ts:14-15` says, one workflow per subscription and
period (`ChargedOncePerPeriod`). The queue remembers an event id for a day, a ladder
lasts seven and leaves the subscription due: the next sweeps send the key again,
and a second workflow charges next to the sleeping one.

**Further disagreements.** The models reach more states that contradict a line of the
repository. They were seen with TLC, by an invariant or a constant changed for the
occasion, and are kept as prose.

Settlement, payouts, disputes:

* `settlement-db.ts:36`: `settleCapture` looks for an earlier capture before it holds
  the lock, so overlapping settles both book (`docs/money-flow.md:44`: "replayed
  webhooks or a concurrent settle never double-book"). What does hold is
  `DuplicateOnlyFromOverlap`.
* `refund-db.ts:22` leaves the tax leg of a refunded capture in TAX_PAYABLE
  (money-flow.md: "full unwind of the capture"); `refund-db.ts:71` compares one
  AVAILABLE credit with the balance, and a refund of a split capture can overdraw.
* `settlement-db.ts:155`: a flat fee above the gross leaves COLLECTED negative (the
  configuration `dear`); `CollectedClears` says by exactly how much.
* `payout-db.ts:145`: a cancel overwrites PAID (`payout-db.ts:164-165`: "money can never
  move without the status flipping"); `payout-db.ts:82` nets debits that an open
  payout already absorbed, so less can be scheduled than the summary calls
  eligible; `routes/payouts.ts:157` transfers twice when two requests overlap.
* `reversals-db.ts:132`: two resolves pass the re-check and claw back twice;
  `:102` writes WON over LOST; `:118` funds two clawbacks from one balance;
  `reversals.ts:77` refuses a balance that ALLOW_NEGATIVE made negative.

The life of an intent:

* `stripeWebhookProcessor.inngest.ts:268`: SUCCEEDED can stay without a settlement,
  since the status route and the poller write it and settle nothing, and a repeated
  update step finds its own write; `refunds.ts:106`: a refund between the status and
  the settlement reverses nothing and the capture is credited after it.
* `paymentPoller.inngest.ts:112`: with `Outages = TRUE`, `PollerSelfHeals` fails, since
  the rejected query escapes the `try` and the step's retries are finite.
* `stripeWebhookProcessor.inngest.ts:269`: a late event takes an intent out of
  REFUNDED; `:271`: a declined card followed by a hold leaves the intent FAILED.
* `paymentIntents.ts:252`: a hold made for a REVIEW verdict is not recorded as one, and
  the poller fails it; `:400` and the webhook step write AUTHORIZED over the
  PROCESSING gate of `intent-actions.ts:79`.
* `paymentIntents.ts:115-120` compares `walletMode` with the client secret, so a
  repeated `checkoutMode` "element" request of Stripe, or a `walletMode` request of VPS
  or NAPS, never finds its own session and opens another (`paymentIntents.ts:89-91`:
  "return it as-is instead of creating a duplicate"); and a `walletMode` request can be
  answered with the session of an element request.
* `webhookProcessor.inngest.ts:237` looks CANCELED up as CANCELLED: a void is not
  notified.

Billing and administration:

* `dunning.ts:111`: the id of a BillingEvent is cut to 25 characters, the length of the
  subscription's id, so every attempt overwrites one row (`dunning.ts:43-44` expects
  one per attempt).
* A run under way, an activation or a default writes its status without reading the
  row: `subscriptionActivated.inngest.ts:45` over CANCELLED,
  `billingRenewal.inngest.ts:133` PAST_DUE over CANCELLED,
  `installmentCharge.inngest.ts:86` DEFAULTED over CANCELLED. `StopIsFinal` starts where
  none of these is left.
* `webhookProcessor.inngest.ts:316` and `:399`: when the send after the write fails, the
  retried step finds its own write and returns; the subscription stays PENDING,
  the agreement ACTIVE without a next charge (`AgreementEnds` excludes it).
* `users.ts:81`: two owners who step down at once count each other, and the tenant has
  no owner left (the comment at `users.ts:79`: "Prevent owner from demoting themselves
  if they're the only owner"); so does the removal of the last owner on a
  token signed before the remover was demoted.
* `providerConfig.ts:213`: a configuration that was never tested is disabled and
  enabled again, and is CONNECTED (against the comment at `:211-212`).
* `onboarding.ts:118-123` promises a settlement policy at approval that nothing
  stores: the tenant is settled by the default until it posts one.

**Bounds.** Races in this code are between two handlers of one row, so two requests
of each kind reach every pairwise interleaving; a third caller of `Settlement` and a
third writer of `Versions` cover a replay after an overlap. `MaxPostings` (postings
before another one starts), `MaxTransfers`, `MaxMovements`, `MaxSplits`, `MaxIntents`
and the other `Max...` constants cap journals, rows and clocks. Eight days hold a
whole ladder (seven days of delays). One run at a time in `billing` and
`installments` leaves overlapping runs to `billing_double_charge`, which has two, and
to the proof of `StopIsFinal`, which has any number, and which also covers the
charges whose answer is lost (`LOST`, `LOST_CHARGED`): they end their run, and the
sweep renews it every day, more states than `billing` can hold. Amounts are a few centimes and
`BpsUnit` is 7 or 20, so every rounding direction, partial item and shortfall
occurs in a handful of states. `CHECK_DEADLOCK FALSE` throughout: requests end and
a tenant may stay idle for ever.

**Fairness.** The queue runs and retries the steps of the jobs it accepted.

* `IntentLifecycle`: the steps of a webhook job and of the poller are weakly fair; the
  update step is strongly fair in its acknowledged form, since a step is not left
  unacknowledged for ever; the poller's query is answered infinitely often when
  it is asked infinitely often. `PollerSelfHeals` does not rely on webhooks: an event
  may be dropped (`DropEvent`) or never delivered, and the timeout need not fire.
* `Subscriptions`: run steps, starts, the sweep, the activation and the calendar are
  weakly fair; outcomes of a charge are not.
* `Installments`: run steps, starts and the send of the webhook job are weakly fair;
  a charge whose answer is lost ends its run, and `AgreementEnds` excludes it.
* `IngressFairness`: the provider redelivers what was not answered with 200 and the
  queue is not out of reach for ever (strong), callbacks and jobs are served to
  their end (weak).

Nothing is assumed of the requests of merchants, customers or operators.

## 4. Proofs

Checked by TLAPS for every value of the constants, from the named assumptions of
the modules only; the theorem marked * has hypotheses of its own.

| Theorem | Says |
|---|---|
| `SettlementProofs!ReplayNeverDoubleBooks` | a double booking needs an overlap |
| `SettlementProofs!CollectedIsCleared` | COLLECTED is minus what captures were short of, so zero when none was |
| `SettlementProofs!RefundReturnsEverything` | a refund gives back what the captures before it credited |
| `PayoutsProofs!PayoutsTypeCorrect` | types of the payout engine |
| `PayoutsProofs!PayoutSettledOnce` | at most one settlement posting per payout |
| `PayoutsProofs!CreditReservedOnce` | no credit in two payouts |
| `PayoutsProofs!EndedPayoutStays` | only a request past its check overwrites an ended payout |
| `PayoutsProofs!OpenPayoutFunded` | the items of an open payout sum to its amount |
| `PayoutsProofs!PayoutStaysWithinFunds` | drafts and payments stay within the funds |
| `DisputesProofs!DisputesTypeCorrect` | types, resting on `FundReversalIsExact` |
| `DisputesProofs!ResolvedOnce` | lost for exactly the gross; only a call past the re-check moves a resolved dispute |
| `DisputesProofs!LostDisputeIsCovered` | a LOST dispute is clawed back or owed in full |
| `IntentLifecycleProofs!IntentTypeCorrect` | types of the lifecycle |
| `IntentLifecycleProofs!MoneyOnlyAfterCapture` | no credit before the capture, both providers |
| `IntentLifecycleProofs!RefundRowIsTrue` | the Refund row agrees with the provider |
| `IntentLifecycleProofs!PreauthStaysOpen` * | nothing but a capture or a void ends a VPS pre-authorization |
| `IntentLifecycleProofs!AgreementsAreChargedAsPlanned` | no installment twice, none outside the plan, COMPLETED means all |
| `SplitsProofs!SnapshotIsAuthoritative` | cached balance, audit rows and ledger agree |
| `SplitsProofs!WalletsImplementPurse` | the wallets refine `Purse` |
| `SplitsProofs!EscrowIsCovered` | RESERVE is the sum of the shares still PENDING |
| `SubscriptionsProofs!LadderStaysOnItsRungs` | types of billing; a sleeping ladder has an attempt left |
| `SubscriptionsProofs!DrainedStopIsFinal` | after a drained stop only the merchant revives |
| `AdministrationProofs!SplitsAreExact` | the split sums up, is fair and ignores the order of its rows |
| `AdministrationProofs!PoliciesAlwaysHold` | every policy in use is complete and survives a repost |
| `AdministrationProofs!StatementsAlwaysChain` | adjoining statements chain and add up |
| `AdministrationProofs!MatchedReportIsEqual` | a MATCHED report equals the ledger its run read |
| `AdministrationProofs!NewestVersionActive` | exactly the newest version is active |
| `AdministrationProofs!DisabledTenantShutOut` | a disabled tenant gets in for less than `TTL + Delay` |
| `AdministrationProofs!DecisionsAreFinal` | final decisions yield only to an overlapping one |
| `AdministrationProofs!DisabledStaysDisabled` | a disabled configuration is enabled explicitly or by an overlap |
| `AdministrationProofs!OwnersOutliveRequests` | the last owner is lost only to an overlap or to a stale token |
| `AdministrationProofs!EventHandledOnce` | at most one job applies an event to the end |
| `AdministrationProofs!WebhooksAreSigned` | every webhook a merchant takes is signed |
| `AdministrationProofs!LinkAttemptsBounded` | a link has no more intents than attempts, nor attempts than allowed |
| `AdministrationProofs!RepeatsFindTheirSession` | a repeated request finds its live session of the same kind |
| `AdministrationProofs!VelocityOvershootBounded` | the velocity gate is overshot by fewer than the requests |
| `AdministrationProofs!HoldIsLeftToOperator` | a sandbox hold is charged only when asked for |
| `AdministrationProofs!UntouchedRowsAreListed` | a client reading a list sees every row nobody touched |
| `AdministrationProofs!SweepsKeepTheMoney` | a new payout fits beside all open ones; sweeps lose only the rounding |

The arguments:

* *Sums.* Every balance is `SumFunctionOnSet` over a finite set of rows, a fold that
  is a function on the subsets of that set. `MoneyProofs` takes a smallest subset that
  contradicts a claim (`SubsetInduction`, an induction whose parameter is a set and
  not an operator) and derives what the money theorems cite: a sum is a number, the
  order of its terms does not matter, it is additive over disjoint sets, monotone,
  and may be grouped or renamed; a journal that grows adds the balance of what is
  appended; credits taken first in first out up to an amount they cover yield
  exactly that amount (`FifoTakesAll`).
* *Settlement.* `SettleInv` keeps, for each caller in flight, the length of the journal
  it read: a second capture can only come from a caller that read before the first.
  `BooksInv` follows the money. `CollectedClears` says nothing of the legs that a
  caller has planned and not committed, and `RefundUnwindsCapture` needs each intent
  to clear by itself, not only the total; so the invariant says that every plan
  leaves COLLECTED at minus its shortfall, that the postings of every intent do, and
  that a leg debiting AVAILABLE comes with a SPLIT leg (a refund then need not return
  everything). A
  refund debits each credited account by the sum of its credits, and CASH balances
  because a posting moves an amount from one account to another.
* *Payouts.* A settlement is posted only by the request that holds the lock, and
  while it does the payout has no settlement yet. A cancel can take PAID away, so
  "settled at most once" does not follow from the status alone: the invariant also
  says that a payout with a settlement has a terminal status for good, since no
  action leaves the terminal states for an open one. Reservation rests on the
  choice of `UnpaidCredits`, which excludes every credit that has an item. `ItemsInv`
  adds that a payout has all of its items or none, until the one delete takes them,
  and that they point at credits of AVAILABLE: then the items of the open payouts and
  the settlements of the paid ones together fit into the credits, which bounds the
  next draft. `PayerFunded` carries the balance that `markPayoutPaid` read to its
  commit, which is sound because it holds the lock against every posting.
  `TerminalIsFinal` rests on every action that starts to write a payout having found
  it open, and on items being made only with a payout that is new.
* *Disputes.* `FundReversalIsExact` shows that the three parts of an allocation are
  amounts that sum to the gross; every posting of a dispute is made by the step
  that leaves OPEN. `CoverInv` keeps the sum true of an allocation that is carried
  from the read to the commit; later postings only add to what was clawed back. For
  `ResolutionIsFinal` the invariant adds that an open dispute has cost nothing yet, so
  its first loss costs the allocation and nothing else.
* *Lifecycle.* `MoneyInv` adds to `MoneyFollowsCapture` that a SUCCEEDED event is in
  flight, an answer SUCCEEDED is about to be written, or a capture request is past
  the provider only when the provider has captured, and that the provider never
  takes a capture back other than by a refund. `RefundInv` adds that at most one
  request owns the active row, that the row is PENDING while it does, and that the
  request knows what the provider did; without uniqueness a second request's
  failure could overwrite a refund that went through.
* *The hold.* `PreauthStaysOpen` assumes `Provider = "VPS"` and `Preauth`, and no more
  is true: the poller gives up a payment that a review put on hold, and Stripe's event
  of a declined first card can arrive when the second card is held. For a VPS pre-auth
  `HoldInv` says that while the charge is held no job has a terminal status to write,
  no query was answered with one, no request is past the provider, and the poller
  sleeps.
* *Installments.* A customer's agreement is charged by a chain of one link: the event of
  an installment, or the one run that charges it. `ChainInv` says that the numbers
  charged are 2 up to the link (without it until its charge, with it after) and that
  `paidCount` is one less. That is why the count of `onInstallmentSuccess`, which
  looks at no charge, still ends at the right one, and why a number is never charged
  under a second id: a run whose answer is lost dies and takes the link with it. The
  sandbox's agreements have two writers and no such promise.
* *Wallets and escrow.* `WalletInvariant` adds to `SnapshotIsDerived` that no purse is
  negative and that a wallet not created yet holds nothing. Every operation is shown
  to post to WALLET what it records (`MovementKeeps`), which gives the agreement and
  the step of `Purse` at once; splits and releases touch neither WALLET nor the rows.
  `EscrowInvariant` adds to `EscrowCoversPending` that a release in flight has read a
  row that was held, and that a held row is PENDING until it is released; the wallets
  never touch RESERVE.
* *Split arithmetic.* The floors fall short of the pool by less than one centime per
  share, so the centimes left are fewer than the shares; ranking the remainders is
  a bijection, so each is given once and to at most one share; the rank of a
  share depends on its row and not on its place, hence the order plays no part.
* *Subscriptions.* `LadderInvariant` adds to the types that a ladder that is about to
  sleep, or asleep, is before its last attempt, so its delay exists. From a drained
  stop every step of a run is a refusal that ends it, or a sleep; the sweep and
  late events only start runs that will validate.
* *Policies.* Every preset fills in the fields that choose a mode and has the
  companion of its mode; a policy with that property, resolved over any other
  preset, keeps every field that has a meaning.
* *Books.* A period is the disjoint union of its parts. A report is written from one
  read of the ledger and entries are only appended, so a later one changes nothing of
  what the run compared, source by source.
* *Versions.* `VersionsInvariant`: a transaction that can still pass the unique index,
  because its number is the next one, switched off exactly the version that is
  active now; any other is refused and its switch-off rolled back.
* *Gate.* `GateInvariant` dates every ACTIVE that is in flight or cached: it was true at
  most `Delay` before it is used, and `Delay + TTL` before its entry expires.
* *Desk, configuration, team.* What a request is about to write agrees with the status
  or the owners it read; the properties then say when that may be out of date. Who
  removes the last owner is not that owner, so its token is older than its role; who
  steps down had counted somebody else.
* *Ingress and notifications.* An event in the queue is not stored and its key is
  remembered; a callback past the look-up of an event stored since finds its key
  still remembered. A URL never exists without a secret: a request that found none
  writes one of its own.
* *Checkout.* `CheckoutInvariant` says that a request waiting for its provider owns a
  row of its own, and that what a client has seen is a row that was answered. A
  request that passed the look-up saw a newest row of the other kind or none at all,
  and a row keeps its kind once it was answered. A
  link's attempt is taken before its intent is made and by one conditional update,
  so `AttemptsBounded` is inductive on top of it. `VelocityInvariant` adds to the rows
  of the current window the requests that have passed the gate and not inserted
  yet: a request passes when the rows alone are below the threshold, and at most
  all the others are waiting then. Time only takes rows out of the window.
* *Sandbox.* A settlement under way was asked for: the request is counted before the
  provider is called, and a poll of a pre-authorization never starts one.
* *Lists.* An untouched row has been seen or is ahead of the pages read: rows added or
  moved to the head only push it back, and only a row that leaves the filter pulls it
  over a page that was read.
* *Currencies.* `PayoutsCovered` is the invariant: per currency, the credits that are
  free or reserved by open payouts are at most AVAILABLE and the debits together. A
  sweep and a refund move the two sides alike, and a payment takes at most what it
  had reserved. Since a new payout is for the free credits less the debits, it and
  all open ones of its currency fit into AVAILABLE, also after a sweep converted
  what one of them counted on. AVAILABLE can still fall below the open payouts
  later, by a refund, a clawback or a sweep; `markPayoutPaid` then refuses. One
  conversion rounds the rate and the amount, each by at most a half (`RoundingOf`),
  and these bounds add up over the balances swept, by the sums of `MoneyProofs`.

Only model-checked: liveness (`PollerSelfHeals`, `LadderEnds`, `AgreementEnds`,
`WebhookLands`), which the prover does not do. Every other property of the passing
runs is a theorem.

## 5. Not modelled, and limits

* One tenant per instance, and one currency outside `Fx`.
* A capture by the provider is for the full amount; so is a refund.
* Fractions of `computeShares` are exact here and doubles in the code: who gets
  the last centime of an exact tie may differ, the properties stated do not.
* When Stripe sends `checkout.session.completed` for a manual-capture session, and what
  becomes of a refund it calls pending (`stripe.adapter.ts:319`), are facts of Stripe
  that the repository does not settle.
* Creating and deactivating split parties and rules: no operation reads `isActive`.
  The second risk decision recorded by `riskEvaluate` after the payment: the gate
  does not read it. The run id kept for a cancellation event that nobody handles.
* The public relay page, exports, dashboard, search, `openapi.ts` and the seeds: reads,
  static documents and demonstration data without state of their own.
* HTTP, signatures, password hashing and encryption are abstracted to their outcome.
* Dates of installments: their events carry no time.

## 6. What is left

1. Settlement, payouts and disputes on one journal, so that refunds after payouts
   and clawbacks after refunds meet; an abstract account (credited, spent, owed)
   that it implements.
2. The checkout and the lifecycle in one module, so that a review verdict is
   followed to its capture.
