# A TLA+ model of PaymentFunds

PaymentFunds lets people raise requests to pay or to collect money, lets other
people approve them, pays them through Stripe from a background worker and
books them in a double-entry ledger. This directory models that core and what
surrounds it (payees, submission, ledger rows, amounts, startup), checks it
with TLC on small instances and proves the most important of its properties
with TLAPS for every instance. Paths below are relative to the
repository, mostly to `src/PaymentFunds/`.

- [The system](#the-system)
- [Modules](#modules)
- [Runs](#runs)
- [What the code does otherwise than the documentation says](#findings)
- [Proofs](#proofs)
- [What is left out](#what-is-left-out)
- [Plan](#plan)

## The system

One ASP.NET Core process, of which several replicas may run, over one
PostgreSQL database. Its parts never call one another: a controller or the
worker reads rows, decides, and saves; the database is the queue between them.

| Part | State | Operations | Makes it correct |
|---|---|---|---|
| Decisions (`PaymentRequestsController` `Approve`, `Reject`) | the request row (`Status`, `ApprovedBy`, `RejectedBy`), the approval posting | load, check status, requester and funds; save row and posting together | only pending requests are decided, once; not by their requester; an approval is covered by funds and posts its obligation |
| Submission (`PaymentRequestsController.Create`) | new request rows, unique `IdempotencyKey` | check payee, look the key up, insert, fall back to the winner of the key | one form, one request; a disbursement names a verified payee |
| Worker (`PaymentProcessingWorker`) | request rows, reversal postings; in memory a batch of ids and the request being paid | poll, claim, reload, check payee, call Stripe, save reference or failure | nobody is paid twice, nothing unapproved is paid, everything approved is tried, a failure releases its obligation |
| Webhook (`StripeWebhookController`) | `ProcessedStripeEvents`, request rows, settlement and reversal postings | deduplicate, match by `ProviderReference`, settle or fail, record | each event takes effect once, each outcome is recorded |
| Stripe client (`StripePaymentProcessor`) | none here; PaymentIntents at Stripe | create an intent under the request's idempotency key | a retry does not charge again |
| Ledger (`LedgerService`, `LedgerController.Fund`) | `LedgerEntries`, `LedgerAccounts` | stage a balanced posting, sum a balance, fund | debits equal credits; balances agree with the requests |
| Payees (`PayeesController`) | payee rows, unique `Email` | create, verify, suspend | verified by somebody else than the creator; a suspension stops payments |
| Seeding and startup (`LedgerSeeder`, `IdentitySeeder`, `Program`) | accounts, users, roles | create what is missing | accounts exist before the first posting |
| Identity, dashboard, views | Identity's own tables; none | sign in, read, format | outside the model |

**How they interact.** `Approve` leaves a row in `Approved`; the worker polls
such rows, moves one to `Processing` with a conditional `UPDATE` and commits
that before it calls Stripe; Stripe creates an intent and later posts events to
the webhook, which finds the row by the reference the worker saved and moves it
to `Completed` or `Failed`. Every one of these saves stages its ledger entries
in the same `SaveChangesAsync`.

**What is hard about it.** Every handler is a sequence of database statements
with other handlers' statements in between. There is no enclosing transaction
(READ COMMITTED, one transaction per `SaveChangesAsync`), and no entity has a
concurrency token, so a save overwrites what others saved since the load. The
process may stop between the claim and the save. Stripe may have acted when the
call throws; it delivers events more than once, in any order, and possibly
before the call that caused them has returned. None of the worker's behaviour
is exercised by the test suite (README, "Current limitations"). `PROJECT.json`
lists these hazards at their lines.

## Modules

| Module | Stands for |
|---|---|
| `FundsStore` | The tables, what one save does to them, ledger balances |
| `Decisions` | `Approve`, `Reject`, `Fund`, `Suspend` |
| `StripeProvider` | Stripe: intents and events (outside the repository) |
| `PaymentWorker` | The background service and its Stripe call |
| `StripeWebhook` | The webhook handler |
| `PaymentFlow` | The five above composed, fairness, and the properties |
| `RequestLifecycle` | Abstract specification: the request's state machine and its obligation |
| `PayeeRegister` | `PayeesController`: payee rows and the handlers at work on them |
| `Submission` | `PaymentRequestsController.Create` |
| `Intake` | The two above composed, and the properties |
| `LedgerTotals` | Abstract specification: what the ledger promises readers of its balances |
| `LedgerBook` | `LedgerService` over entries as rows |
| `Charges` | The amount of a request on its way to Stripe and into the ledger |
| `Startup` | Migration, seeding and serving of several processes |
| `MCPaymentFlow`, `MCIntake`, `MCLedgerBook`, `MCCharges` | Instances for TLC |
| `PaymentFlow_proofs`, `Discharge_proofs`, `Serial_proofs` | Theorems about the core, each module on top of the one before |
| `Intake_proofs`, `Startup_proofs`, `LedgerBook_proofs`, `Charges_proofs` | Theorems about the other models |
| `Sums_proofs` | Lemmas about sums over finite sets, for the proofs about balances |

The modules form four models besides the core, each about hazards that the
others do not have, with the state those need and no more.

### The core: `PaymentFlow`

**State.** Each column or table of interest is a variable of `FundsStore`
(`status`, `approvedBy`, `rejectedBy`, `providerRef`, `payeeStatus`,
`processedEvents`). `LedgerEntries` is append-only and is kept as what the
program reads of it: `debits` and `credits` per account, the two sums of
`BalanceMinorAsync`, and `posted`, the number of postings of each kind that
carry a request's id. `decision`, `worker` and `delivery` hold, for each
handler being served, how far it is and what it has read; they are the local
variables that survive an `await`.

**Actions.** One action is one SQL statement or one `SaveChangesAsync`, so
every interleaving the database allows is explored. `Approve` is
`LoadForApproval`, then for a disbursement four sums (`ReadCashDebits` ...
`ReadPayableCredits`, the last of which decides the guard), then
`SaveApproval`. `Reject` is two actions. The worker is `Poll`, `Claim` or
`PassOver` for each id, `Load`, `CallAccepted` or `CallRejected`,
`SaveReference` or `SaveFailure`, and at any point `Interrupt`. A delivery is
`Receive`, `Match`, then `Record` or `RecordDuplicate`, or `Drop` at any point.
`Fund` and `Suspend` write without depending on anything they read and are one
action each.

`SaveStatus` models Entity Framework's change detection: a status assigned the
value it was loaded with is not written; any other assignment overwrites the
row whatever it now holds.

**Stripe** (`StripeProvider`) is assumed to do what the code relies on: calls
with one idempotency key make at most one intent; an intent has at most one
terminal event (nothing retries an attempt); a payment not accepted does not
succeed. An accepted payment may fail later. Events are never lost for good
and may be delivered any number of times in any order. Events of other types
change nothing but `ProcessedStripeEvents`, as `created` does here.

`PayeeRegister` is not part of this composition: the core needs of a payee only
that it may be suspended at any time, which is final here. So
`SuspensionStopsPayment` speaks of a suspension that no verification under way
undoes; `SettledSuspensionStands` in `Intake` says which those are, and
`intake_lost` shows the others.

**Abstractions.** One currency (accounts are per currency, and a posting has
one). Amounts are in minor units. The poll's order by `ApprovedAt` is left open:
any batch of the right size may be taken, in any order, which includes the
real one. Audit timestamps are left out. A request enters as
`PendingApproval`: the enum's `Created` is never saved. Refusals that change
nothing (404, 400, 403, a bad signature, an already recorded event) are the
absence of a step. A session that never moves again is a request the client
or the server gave up.

### Before a decision: `Intake`

`payee` and `request` are tables as partial functions from ids to rows (`None`
where there is no row); `clerk` and `submission` are POSTs being served, with
what they have read. `PayeesController.Create` is `LookForEmail`, then
`InsertPayee` or, when the unique index fails it, `RefusePayee`. `Verify` and
`Suspend` load and save in two steps; their saves write what changed in the
loaded row, so `SaveVerified` overwrites any status and `SaveSuspended` writes
nothing when the payee was loaded as suspended. `PaymentRequestsController.Create`
is `Submit` (the payee check), `FindExisting` or `FindNone`, then
`InsertRequest`, `LoseKey` with `FindWinner`, or `FailInsert`. Nothing makes two
submissions of one form say the same, so each may carry any row with the form's
key. A request has only the columns `Create` sets and the properties read.

### The ledger's rows: `LedgerBook` and `LedgerTotals`

`unit` is a caller's `DbContext`: `AddPosting` checks a posting as
`AddPostingAsync` does (two lines at least, positive amounts, equal sides, an
account per code in the posting's currency) and stages its entries; `Save`
appends them to `entries` in one transaction; `Discard` is a caller that threw.
No handler saves two postings at once, so `Stage` needs an empty unit.
`LedgerTotals` says what the sums over the table may do: add the same to both
sides of one currency's accounts, and never go back. `LedgerBook` implements it
through the two sums of `BalanceMinorAsync`, and `PaymentFlow` with its
`debits` and `credits` (`ImplementsTotals` in both): the sums of the core
and the rows of `LedgerBook` keep the same promise.

### Amounts: `Charges`

The form and the column admit decimals of any number of digits. Amounts are
counted in parts, of which `Half` make half a minor unit, so the proofs hold
however fine the amounts are. `ToMinorUnits` rounds half up (away from zero, for
positive amounts), `StripeUnits` cuts off. The form's `[Range(0.01, ...)]`
compares as a double: `Least` is the least amount that is 0.01 there, up to half
a unit below the real one, so an amount may round to one minor unit for the
ledger and be cut off to none for Stripe. A decimal beyond a long throws, and
`AddPostingAsync` throws for an amount that is not positive (`Posts`): in the
guard and the postings nothing is then saved, in the worker the request stays
claimed (`Strand`). `NoDisbursementStranded` says that for a disbursement this
never comes to pass. A handler is one action, and interleaving is left to
`PaymentFlow`: `ReservedIsCovered` is about rounding, and says nothing of
overlapping approvals (`flow_funds` does). A poll and its claim are not told
apart from the call, and a payment accepted by Stripe whose answer was lost is
left to the core, where it changes no amount.

### Startup: `Startup`

`process` is how far each replica is between its launch and serving. `Migrate`
applies the schema if the replica is configured to; `FindRole` to `Grant` are
the loops of `IdentitySeeder`, statement by statement; `ReadAccounts` and
`SaveAccounts` are `LedgerSeeder`. `Die` is an uncaught exception: a table that
is not there yet, a unique index, a missing role. `Stop` is a stop from outside
at any point. Either is followed by `Launch`. Where Identity's own look-up and
the unique index both guard a name, the step has both outcomes (`RefuseUser` is
a failed result, `Die` an exception). `Configured` are the users with a password
in the configuration, `Acceptable` those whose password meets Identity's policy:
for any other `CreateAsync` fails, which `RefuseUser` logs and passes over.
`cutShort` is a history variable: the users whose creator was stopped between
`CreateUser` and `Grant`. A process with `--migrate-only` ends where
the others begin to serve; it is one of them here.

`k8s/app-deployment.yaml` keeps to one replica and replaces it by `Recreate`, so
that processes do not start together: it names this race, and the worker's, as
what a rolling update would bring. The model has several, since nothing in the
program depends on there being one.

## Runs

The runs of the core check for deadlock (an idle worker polls), and so do those
of `Intake` (an idle clerk can always enter or suspend a payee). In `Startup`, `LedgerBook`
and `Charges` the end is a state with nothing left to do: everybody serves, the
postings are used up, every request has ended. Those do not.

| Run | Instance | Shows |
|---|---|---|
| `flow_concurrent` | 1 disbursement, 2 approvers (one raised it), 2 sessions, 2 workers, 2 handlers, 1 fault | `TypeOK`, `PaidOnlyIfApproved`, `SettledOnce`, `NeverOverdischarged` with everything concurrent |
| `flow_serial` | 1 disbursement, 1 collection, 1 session, 2 workers, batches of 2 | `OwedWhileOpen`, `RecordsAgree`, `NoDoubleProcessing`, `ImplementsTotals` |
| `flow_live` | 1 disbursement, 1 session, 2 workers, 2 handlers, 1 fault, fair | `ImplementsLifecycle`, `SuspensionStopsPayment`, `EventsRecorded`, `ReferencedSettles` |
| `flow_pickup` | 1 disbursement, 1 collection, 2 workers, batches of 1, 1 fault, fair workers, no webhook | `ApprovedIsPickedUp` |
| `flow_race` | 2 sessions | violates `ImplementsLifecycle` |
| `flow_funds` | 2 disbursements, funds for one, 1 session | violates `FundsCovered` |
| `flow_lost` | 1 disbursement, no fault, fair | violates `ProcessingEnds` |
| `intake_tables` | 2 clerks, 2 submissions, 2 approvers, 1 form, 1 email, room for 2 payees and 2 requests | `TypeOK`, `OneRequestPerForm`, `LoserHasWinner`, `OnePayeePerEmail`, `VettedPayee`, `SettledSuspensionStands` |
| `intake_lost` | 2 clerks | violates `SuspensionStands` |
| `startup_race` | 3 replicas, 1 of them migrates, 2 seed identities, 2 passwords configured and 1 of them accepted, 2 accounts, 2 stops, fair | `TypeOK`, `ServedLedgerIsWhole`, `RoleBeforeGrant`, `OnlyCutShortLackRole`, `EveryReplicaServes` |
| `ledger_book` | postings of up to 3 lines, 2 codes and 2 currencies (one account missing), 2 callers, 2 postings | `TypeOK`, `TransactionsBalance`, `ImplementsTotals` |
| `charges_books` | 2 disbursements, 1 collection, 11 amounts, a long of 12, Stripe's limit at 10 | `TypeOK`, `ReservedToTheUnit`, `ReservedIsCovered`, `NoDisbursementStranded`, `DriftBounded` |

`PaidOnlyIfApproved`, `SettledOnce` and `NeverOverdischarged` hold although
decisions race: a request may then be approved twice and run through the worker
twice, but it is settled in the ledger once at most, and never more is released
than approvals posted. `OwedWhileOpen`,
`RecordsAgree`, `NoDoubleProcessing` and `ImplementsLifecycle` need decisions
to be taken one at a time, since a race breaks each of them: a request approved
again while a worker pays it can be claimed again. They say that the rest of
the program (claim, call, fault, reversal, settlement, duplicated and early
events) adds no way of breaking the life cycle or the books.

**Bounds.** `MaxCash` stops `Fund` once the debits of CASH reach it and exists
to keep the ledger finite; with one unit per request it allows funds for one or
two. `MaxFaults` counts exceptions and stops of workers: one suffices to strand
a request at each step and to hand the rest of a batch to another worker.
`BatchSize` is 10 in the code; 1 and 2 are the sizes at which a batch is
smaller than, or as large as, the set of approved requests. Two sessions, two
workers and two handlers are what each race needs. Sessions, workers and
handlers are interchangeable, and runs without liveness use that as symmetry.

In `intake_tables` there is a row more than there are names, so that a second
row could go in if the unique index did not keep it out; two clerks and two
submissions are what each race takes. In `startup_race` `MaxStops` is two stops,
anywhere, the second of which may hit the start after the first; one configured
password is accepted and one is not; the third replica neither migrates nor seeds identities, and so meets
tables that are not there. Deaths are not bounded. In `ledger_book`, `MaxLines`
of three is the least at which one debit equals two credits, and
`MaxTransactions` of two the least at which two callers' entries could mix;
an amount of zero, a posting of one line, unequal sides and a missing account
are among the postings tried and refused. In `charges_books` `FormAmounts`
holds amounts below the form's minimum, one that only as a double is the
minimum, whole minor units, amounts just
below, at and above one half, and the first beyond `MaxLong` by each
conversion; `StripeLimit` is Stripe's maximum, which is below a long. `MaxCash`
there ends funding, not collecting. Balances stay far from the largest long.

**Fairness.** `WorkerFairness`: `ExecuteAsync` loops while the process lives,
and Kubernetes (or who operates it) starts it again, so an enabled worker step is taken;
weak fairness per worker. `DeliveryFairness`: Stripe concludes an intent and
redelivers an event until it gets a 200 (`Receive`, weak), a handler once
started runs to its end unless it throws (`DeliveryStep`, weak per handler),
and not every attempt at an event throws (`Match` and `Record`, strong per
event, because `Drop` disables them again and again). Nothing is assumed of
people: nobody has to approve, reject, fund or suspend. Nothing assumes that
faults occur. In `Startup`, weak fairness of each replica's next step: a process
runs, and Kubernetes launches it again when it has ended; stops come to an end
(`MaxStops`). `EveryReplicaServes` then says that
nothing a start leaves behind keeps a later one from serving.

`ReferencedSettles` states its exception openly: the outcome must not have been
looked up before the reference was saved (`OutcomeMissed`). Without the
exception it is the property `flow_lost` violates.

<a name="findings"></a>
## What the code does otherwise than the documentation says

- **A decision can overwrite another** (`flow_race`). `Approve` and `Reject`
  check the status they loaded and save by id. Both load `PendingApproval`,
  both save; the request goes from `Rejected` to `Approved` and is paid, or
  from `Approved` (even `Processing`) to `Rejected` with its payable left open.
- **The funds guard reads torn sums** (`flow_funds`). Cash is read, a
  settlement commits (lowering both cash and payable), payable is read: the
  guard counts the paid money as available. It takes one approver. That the
  guard is not repeated at the save adds a second way when approvals run
  concurrently.
- **An early event is lost** (`flow_lost`). The webhook records an event
  also when no request matches it. If Stripe's event is handled before
  the worker has saved the reference it got from the same call, the
  redelivery is ignored as a duplicate and the request stays in `Processing`.
  The documented limitation mentions only a crash.
- **A suspension can be lost** (`intake_lost`). `Verify` loads an unverified
  payee, `Suspend` commits, `Verify` saves `Verified`. Whoever suspended the
  payee has been told it worked.

Three more divergences are visible in the modules without a run of their own.
An approver can reject a request they raised: `LoadForRejection` has no such
condition, as `Reject` has none (README.md:65 says that an approver cannot act on
their own request). A process stopped between `CreateUser` and `Grant` leaves a
demo user that no later start gives the role, since `FindUser` passes over a
user who exists (README.md:338 calls seeding idempotent and restarting safe);
`OnlyCutShortLackRole` says that this is the only way a user comes to lack it. A
collection of 0.015 is charged as 1 cent and booked as 2; `DriftBounded` says how
far this can go, for each request, and the drifts of several requests add up.

## Proofs

Everything below is proved for every value of the constants that meets the
assumptions the modules name (`StoreAssumption`, `DecisionsAssumption`,
`WorkerAssumption`, `RegisterAssumption`, `SubmissionAssumption`,
`StartupAssumption`, `BookAssumption`, `ChargesAssumption`): any number of requests,
users, handlers, workers, replicas, any amounts. A theorem about a sum over
rows says that the rows are finitely many, where nothing else does: a table is,
and a sum over an infinite set means nothing.

`PaymentFlow_proofs`:

- `TypeCorrect`: `Spec => []TypeOK`. One lemma per component, one step per
  action.
- `PaidIsApproved`: `Spec => []PaidOnlyIfApproved`. The property is not
  inductive: an intent appears in a call made by a worker that checks nothing.
  `AuthorityInv` follows the authority back: a session about to approve
  acts for somebody other than the requester; a request that has been approved
  has an independent approver and, for a disbursement, a posting; so has
  whatever a worker holds, because it held it by claiming an approved row
  (`HeldByClaim`) and authority is never withdrawn (`AuthorityKept`), whatever
  the status column is overwritten with.
- `SettlesOnce`: `Spec => []SettledOnce`. `SettlementInv` ties together the
  intent, the reference (always of the request's own accepted intent), the
  handler's match (the event's own request or none) and the recorded
  events. A settlement is added only by the step that records the
  request's success event, which was not recorded before; the counts
  cannot move otherwise (`SettledKept`, `RecordSettles`).
- `KeepsTotals`: `Spec => ImplementsTotals`. Every action that posts does it by
  `PostEntries`, one debit and one credit of one positive amount (`StepIsEntry`),
  and `EntryPosts` maps that to `LedgerTotals!Post`.

`Discharge_proofs`: `NeverReleasesMore` (`NeverOverdischarged`), with no
condition on how decisions race. An approval is one right to release the
obligation it posted. The right is with the row while the row can be claimed,
then with the worker that claimed it, then with the one event that ends the
payment; a reversal or settlement uses it up, and a status overwritten or a
worker stopped can only lose it. `Weight` counts what was released and every
right still held; `DischargeInv` says that it never exceeds the approvals
posted. `EndsOnce` is what makes the event one right: a payment ends in one
way, and the handler records the event only once.

`Serial_proofs`: what a race of decisions breaks (`flow_race`) holds where none
happens. `DecisionsApart` says that of one request one session decides at a
time; decisions about different requests may overlap, and so may everything
else. The theorems are of the form `Spec /\ []DecisionsApart => ...`:

- `SerialInv` is the invariant: between its approval and its end a request
  passes from one actor to the next, and each finds the status the one before
  left. What a session decides is pending; what a worker holds is in
  `Processing`, without a reference, and nobody else holds it; what has a
  reference stays in `Processing` until its end is recorded; a handler
  that may yet record an end has loaded `Processing`.
- `OneWorkerPays` (`NoDoubleProcessing`) and `OwesWhatIsOpen` (`OwedWhileOpen`)
  are parts of it.
- `FollowsLifecycle` (`ImplementsLifecycle`): under `SerialInv` each step moves at
  most one request, along one arrow of `RequestLifecycle`, the obligation with it
  (`Moves`, `StepMoves`); each such move is a step of the abstract machine.
- `SuspensionHolds` (`SuspensionStopsPayment`): once a payee is suspended and the
  request not claimed, no worker is at its call for it (`Blocked`), and no step
  leads back.
- `BooksMatchRequests` (`RecordsAgree`), for finitely many requests: each move
  comes with its entries (`StepEntries`) and changes one term of the sums over
  requests that the balances must equal (`TotalMoves`, `BalanceMoves`).

The theorems say nothing of an execution in which two sessions decide about one
request together, which a web server does not prevent. Runs with a single session
(`flow_serial`, `flow_live`) are instances in which the hypothesis holds;
`OneSessionIsSerial`, a corollary, says just that and is no result of its own.

`Intake_proofs`: `TypeCorrect`, `FormsAreIdempotent`, `EmailsAreUnique`,
`LosersAreAnswered`, `PayeesAreVetted` and the action property
`SuspensionIsFinal`. `VettedPayee` is about requests, and is carried there from
the register: a verified payee has been vetted (`VerifiedAreVetted`), and so
has whoever a clerk is about to mark verified, or a submission is about to name,
whatever became of the payee since it was read (`ClerksKnow`,
`SubmissionsVetted`); what vetting looked at never changes in a row.
`IntakeInv` is the conjunction.

`Startup_proofs`: `TypeCorrect`, `RolesComeFirst`, `LedgerIsWhole` and
`SeedingGrants`. `ItemsAreMade` says that each process leaves its loops only with
the roles there, whoever created them; `AccountsAreWhole` that no account is there
twice, that what a process is about to insert contains whatever is missing, and
that a process that serves has found or inserted all of them: the unique index
fails a save that would repeat one, and the save is whole. For `SeedingGrants`
(`OnlyCutShortLackRole`), `UsersAreMade` says the same of the users with an accepted
password, for the processes that seed identities, and `GrantsAreComing` that a user
without its role is in the hands of the process that created it, which can
neither die there (the role exists) nor pass over it, or was in the hands of one
that was stopped right there; a user who has the role never was.

`LedgerBook_proofs`: `TypeCorrect`, `PostingsBalance` (`TransactionsBalance`) and
`KeepsTotals` (`ImplementsTotals`, for finitely many accounts). `BookInv` says of
each unit of work that it is empty or one whole posting (`PostingRows`: one
transaction, one currency, equal and positive sides), of the table that every
transaction in it balances and was given out. A save concatenates, and a sum
over a concatenation is the sum of the two (`ConcatSum`). For the refinement a
save is `LedgerTotals!Post` of the accounts of its currency: what those receive on
a side is what the rows carry on it (`BroughtTotal`), and no other account
receives anything.

`Charges_proofs`: `RoundsToNearest`, `TypeCorrect`, `DriftIsBounded`,
`NoneIsStranded` (`NoDisbursementStranded`) and, for finitely many disbursements,
`ReservesToTheUnit` (`ReservedToTheUnit`) and `ReservesWhatIsCovered`
(`ReservedIsCovered`). `AmountInv` keeps what passed the form, what Stripe was asked
for and what the guard let through; `ReservedInv` that the payable is the sum of
what open disbursements round to, and within the cash. That it also covers what
Stripe is asked for takes a comparison of two sums term by term
(`TruncatedIsLess`). The conversions rest on lemmas about division by the unit
(`Division`, `Between`, `Rounding`), since the provers do not divide by a
constant of unknown value.

`Sums_proofs` is what the balances rest on. The modules sum with `MapThenSumSet`,
a fold that takes operators as parameters, which a lemma cannot be stated
about in general. `SumIsFold` unfolds it once, for the terms of a function, to
the recursive function it chooses (`Adds`); that this function exists and is
unique on a finite set, and that a sum can be taken apart at any element,
is then by induction over the subsets of the set (`SubsetInduction`, from the
well-foundedness of strict inclusion, with a set of subsets in the place of a
predicate). The other lemmas follow: what changing, adding, shifting or
grouping terms does to a sum.

The inductive invariants were checked by TLC before they were proved. With this
every invariant the passing runs check is proved, and so are the refinements and
the other action properties. Model-checked only are the liveness properties
(`EventsRecorded`, `ReferencedSettles`, `ApprovedIsPickedUp`,
`EveryReplicaServes`): fairness and `ENABLED` are out of the prover's reach. What
the theorems of `Serial_proofs` presuppose, one decision about a request at a time,
the code does not see to; `flow_race` shows what follows.

## What is left out

Not modelled, and not going to be:

- **Sign-in and sign-out** hand over to ASP.NET Core Identity, which keeps the
  state; who may do what enters as the constants `Users` and `Approvers`.
- **Dashboard, views, formatting** read and print. The ledger page reads each
  balance on its own, so its totals may be of different moments; the same torn
  read is modelled where it decides something (`flow_funds`).
- **Migrations** are generated; the schema they lead to is that of
  `ApplicationDbContext`, whose unique indexes are all modelled.
- **Deployment** files set what the constants of `Startup` stand for.
- **Client libraries** are vendored, and the site's own script
  (`wwwroot/js/site.js`) is empty but for a comment.

Left out of what is modelled: audit timestamps and reasons; the sum of an
account passing the largest long (`LedgerService.cs:83`), which would take
funding of that size.

## Plan

The models are complete in what they set out to cover, and what the prover can
decide of their properties is proved. What could be added:

1. The positive counterpart of `flow_funds`: `FundsCovered` holds as long as no
   settlement or other approval is saved while a session is between its first
   sum and its save.
2. For each liveness property the action that helps and what it decreases,
   as action properties with proofs; what is left to fairness is then small.
