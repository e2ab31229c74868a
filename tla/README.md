# Verification of AG Pay managed checkout

AG Pay lets an AI agent propose a purchase, lets the owner (or one of the owner's payment rules) approve it,
and then pays for it: a background worker drives a hosted browser through the merchant's page with the
owner's card, and records what became of the payment. This directory holds TLA+ specifications of that
machinery, the TLC runs that check them on small instances, and proofs, checked by TLAPS, of what matters
most. Paths below are relative to `src/apps/api/src/ag_platform_api/` unless they start with `src/`.

## 1. Inventory

| Component | State | Operations | What is hard | What makes it correct |
|---|---|---|---|---|
| Durable checkout execution (`services/checkout/repository.py`, `services/checkout_queue.py`, `models.py`) | rows of `checkout_executions` (status, attempt count, lease, `submitted_at`, error), `cart_items`, `purchases`, `checkout_events`, `checkout_status_transitions` | queue, claim, prepare, renew lease, mark submitted, retry or fail, finish, succeed, reconcile | several workers and the owner write the same row; no write names the attempt that makes it | the payment is submitted at most once; a payment that was made is never denied; a terminal row stays; success, purchase and cart agree |
| Checkout worker (`services/checkout/worker.py`, `checkout_worker.py`) | stage of the claim, heartbeat, submission flag, browser session | `process_once`, `_process_claim`, five provider paths, `_handle_checkout_error`, `_heartbeat` | crash at any step, lease lost while working, commit whose answer is lost | each execution ends; transient errors are retried exactly as often as configured |
| Card lock (`repository.card_lock`) | a PostgreSQL advisory lock per card, held by a connection | acquire, release, loss of the connection | the lock dies with its connection while its holder goes on | one worker at a time past the second validation of a card |
| Browser run (`services/checkout/browserbase.py`, `form_mapping.py`, `origins.py`) | the page, its controls, the form map, the card values in memory | open, verify item and total, map the form, load the card, check again, submit, type, click, read the outcome | the merchant's page changes between any two calls; every stage fails; evidence arrives late or never | card data goes to payment origins only; what is typed into was checked after the card was loaded; the form map is frozen before the card is loaded |
| Local CVC relay (`services/checkout/cvc_broker.py`, `direct_card.py`) | security codes in worker memory, with expiry and receipt | put, take, discard, close | put happens before the approval commits; responses are lost; the worker restarts | a code is used at most once, for its execution only, and an approval that fails leaves nothing to use |
| Proposal and approval (`api/routes/agent_api.py`, `api/routes/cart.py`, `services/payment_policies.py`) | cart item, selected method, payment rule | propose (with automatic approval), approve, cancel, legacy completion | two approvals race; methods are withdrawn meanwhile | one decision per proposal; no automatic decision the rule does not allow |
| Agent event feed (`api/routes/agent_api.py`, `models.CheckoutEvent`) | autoincrement cursor, the agent's position | insert at a terminal commit, page after a cursor | cursors are given before the commit and become visible in another order | the agent learns every terminal outcome |
| Row locks (`SELECT ... FOR UPDATE` everywhere above) | row locks per transaction | lock order of each transaction | two transactions lock the same rows in different orders; PostgreSQL aborts one | reconciliations and approvals alone never deadlock; every call ends |
| Hosted reconciliation (`services/checkout/reconciliation.py`) | candidate snapshot, proof | snapshot, verify over HTTP, apply | the snapshot is torn; the row changes between snapshot and apply | a payment is booked once, only if it was made, and a request is refused only if it is booked |
| Stripe Link (`services/checkout/stripe_link.py`) | spend requests outside, `provider_request_id` inside | list, create, ask for approval, record, poll, retrieve the card, report | a killed client, a create that arrives late, concurrent attempts | one spend request pays for a checkout; Link is told the truth |
| Stripe Issuing, payments demo (`services/checkout/stripe_issuing.py`, `stripe_payments_demo.py`) | authorizations and payment intents outside | list before the submission, search after it | nothing in an authorization names the execution; two clocks | an outcome is reported on evidence of this payment only |
| Agents and pairing (`api/routes/agents.py`, handshake in `agent_api.py`, `core/security.py`) | pairing code, token hash, status | pair, handshake, rotate, revoke, heartbeat | two handshakes race, rotation against use | a pairing code is redeemed once; a revoked agent acts no more |
| Payment methods (`api/routes/payment_methods.py`) | method status, assignments | add, disable, assign, unassign | assignment races a disable | a disabled method is assigned to nobody |
| Subscriptions and purchases (`api/routes/purchases.py`) | purchase, subscription | list, update | little | - |
| Event broker (`services/broker.py`) | Redis channel | publish | best effort by design | nothing depends on it |
| Web application (`src/apps/web`) | views, the outcome notifier's memory of what it has shown | poll, notify, proxy | stale polls | each outcome is shown once |
| Configuration, schemas, serializers, migrations | - | - | - | not modelled: data layout and validation |

How they interact: the API and the workers share nothing but PostgreSQL, a Redis channel nobody depends on
and, for stored cards, a Unix socket from the API to the CVC relay inside the worker. Approval writes the
execution row in the transaction that approves the cart item. Workers find rows with
`SELECT ... FOR UPDATE SKIP LOCKED`. Inside the card lock a worker is alone with its providers: a browser, Stripe, Link. The agent reads the event feed, the owner reads cart items and timelines.

## 2. Modules

| Module | What it is |
|---|---|
| `CheckoutRepository` | the rows and the transactions on them; one action per repository method |
| `CheckoutWorker` | extends it with worker processes, the card lock, the browser run, the merchant, the clock and the owner; the composed specification and its properties |
| `CheckoutLifecycle` | the abstract specification: what the owner and the agent are promised about a purchase |
| `BrowserRun` | one attempt on the merchant's page, call by call, with a page that moves; extends `CheckoutWorker` |
| `LinkSpendRequest` | the spend request at Link that stands for a checkout; extends `CheckoutWorker` |
| `IssuingAuthorization` | which authorization of a virtual card is this checkout's; extends `CheckoutWorker` |
| `CheckoutAttempt` | the attempt of each of the seven rails, composed of these three; implements `CheckoutWorker` |
| `HostedReconciliation` | reconciliation, approvals and workers' transactions, lock by lock; extends `CheckoutRepository` |
| `CheckoutRepository_proofs` | lemmas about the repository's transactions, shared by the next three |
| `CheckoutWorker_proofs` | the inductive invariant, the safety theorems, the proof that `CheckoutWorker` implements `CheckoutLifecycle` |
| `CheckoutAttempt_proofs` | the invariant of an attempt, its theorems, the proof that `CheckoutAttempt` implements `CheckoutWorker` |
| `HostedReconciliation_proofs` | the invariant of the reconciliation and its theorems |
| `CvcRelay` | the security code of a stored direct card between approval, relay and worker |
| `OneTimeCode` | the abstract specification of that path |
| `CvcRelay_proofs` | its invariant, and the proof that it implements `OneTimeCode` |
| `CheckoutEventFeed`, `CheckoutEventFeed_proofs` | cursors, commits and the agent's position |
| `ProposalApproval`, `ProposalApproval_proofs` | proposals, rules, the owner's decision, methods and assignments |
| `AgentPairing`, `AgentPairing_proofs` | pairing codes, keys and the owner's unlocked writes |
| `MC...` | symmetry and constant values for TLC, one per specification |

`CheckoutWorker` composes the repository with the worker, and `CheckoutAttempt` composes the worker with what it
does inside the card lock. So there are three layers, each shown to implement the one above:
`CheckoutAttempt` => `CheckoutWorker` => `CheckoutLifecycle`; what is proved of a layer holds of those below it
(the first step has a premise about Issuing, section 4).
`HostedReconciliation` takes the same repository apart along another line: where `CheckoutWorker` has a transaction
in one step, it locks one row per step. The other specifications each take the part of the
execution row they need: `CvcRelay` its phase and its attempts, `CheckoutEventFeed` its terminal status,
`ProposalApproval` whether there is one. They meet in the row and not in a common module; a product of all of
them is beyond TLC and tells nothing that the parts do not.

### CheckoutRepository

Every repository method opens one transaction, locks the execution row before it reads it and commits on
exit; each is therefore one action. The row keeps the fields that decide anything: `status`
(`"absent"` before it is inserted), `attempts`, `lease` (none, live or expired: only the comparison with the
clock is kept), `submitted` (`submitted_at is not None`) and `error`. Of the 32 error codes those that the
code tests are kept; `"checkout_failed"` stands for every transient code and `"rejected"` for every other.
`usable[c]` joins everything about a card and its agent that `_load_and_validate_locked` tests and the owner
can change: the method is active, unexpired and assigned, the agent active. `cart` is the cart item's status;
`events` and `timeline` are the event feed and the status transitions of each execution, appended to in the
transaction that changes the row. Executions are numbered in the order of `(created_at, id)`, which is the
order in which they are queued, so the model inserts them in that order and `claim_next` looks at them in it.

### CheckoutWorker

`pc[w]` is the worker's place in `_process_claim`; `job` the execution it claimed; `note` the error or the
payment outcome it carries; `lock` the advisory lock per card; `clicks` counts presses of the pay button;
`charge` is what the merchant and the issuer made of them. `Claim`, `Prepare`, `AcquireCardLock`,
`PrepareAgain`, `Submit`, `FillAndClick`, `Observe`, `Settle`, `HandleError`, `Release` follow the code in its
order. What an attempt does between the second validation and `mark_submitted`, and how it comes to an outcome
afterwards, is left open here: one stage, `"browse"`, that may fail in any way (`FailBeforeSubmission`), and one,
`"await"`, that sees any outcome there is evidence of (`Observe`). `CheckoutAttempt` says what the code does in them. A commit whose acknowledgement is lost (`Submit`, `Settle`) leaves the
row changed and the worker with an error. Errors are handled in two places (`worker.py:136-151`): one raised inside
`card_lock` with the lock held (stage `"error"`), one raised outside of it, or by the handler inside, without the lock
(stage `"again"`). If the inner handler fails before its commit (`HandlingFails`) or its acknowledgement is lost
(`HandleError`), `RaiseAgain` gives the lock back and the outer handler takes what was raised for an error that may pass: one claim can queue
its row twice, and an error that was fatal can become transient. `Crash` is a process that dies, is cancelled, or loses the
database in the outer handler; the restarted process is idle. `Heartbeat` is one renewal, `LeaseExpires` the
absence of one, `LockDrops` the death of the lock's connection, `ChangeUsable` the owner's or operator's
withdrawal of the card, `Reconcile` the owner's reconciliation with the landing server's proof.

Assumed of the world outside: approval and decline are read only when the merchant really charged or
declined (`Observe`; `KeepsWorker` reduces that to assumptions about each provider), and the landing server proves
real payments only (`Reconcile`).

Each method of the repository is one action here: its locks, its look at the card's other checkouts and its commit are
merged. The code looks at the siblings (`repository.py:785-802`) without a lock on those that are resolved, and writes
later; what keeps the two together is the agent's row, which it has locked before. So the merging is exact where one agent uses a card
(`KeepsRepository`, below). Where agents share a card a sibling can become unresolved in between, which the model of this
module does not have; it has the later and larger window, between `mark_submitted` and the click (`quarantine`, section 5).

An outcome of unknown or action required can be read in any case.

### BrowserRun

`step[w]` is the next call of `BrowserbaseCheckout.run`; the actions follow the code from `StartSession` to
`ClickPay`. `page[w]` is what the merchant shows: the origin of the frame with the card controls, and whether the
item and total are those approved, with the time they changed ("early": before the last check, "late": after).
`handles[w]` are the controls that were resolved, `form[w]` the form map in use, `frozen[e]`
`checkout_executions.resolved_form_config`, `typed` (history) the origins of documents that card data was typed
into. `CheckField` looks at the origin of a control's frame and `TypeField` is the awaited call that types, for one
field after the other and any number of them; the page may move between the two. What it cannot do is to
put the control that was resolved into another document: a handle of a document that is gone fails. That the data goes to a payment origin therefore
rests on the look at its frame after it was taken (`Resolve`), and not on a guard of `TypeField`, which has none. `Reprice` and `Rerender` are the merchant's page moving between any two calls. Selectors, texts, money
formats and DOM checks are what they find: the right thing or not.

Only the rail of stored cards passes `on_form_mapped`, so only its map is frozen (`worker.py:257-270`). The rail of
Link with a configured merchant maps its form anew on each attempt, although `src/README.md:46` says in general
that validated selectors are frozen.

### LinkSpendRequest

`link` is Link's store, with the execution a request is for, whether it shows exactly what was approved, whether
its card was handed out and what Link was told. `ask[w]` is the next call of `ensure_spend_request` and
`_execute_link_context`, `mine[w]` the request the worker goes on with. `CutOff` and `LateCreate` are a `link-cli`
that is killed at its timeout, or with its worker, after its create was sent. `astray` (history) names the
executions with a create that was made without the card's lock, or that outlived its caller: these can
have a second spend request, which nothing withdraws, but never pay with it (`OneRequestPays`). An attempt
whose request is not the recorded one ends as outcome unknown (`Record`; `repository.py:302-306`).

### IssuingAuthorization

`auths` are the authorizations of the card at the approved amount, `time` Stripe's clock, `lead` how far the
worker's is off. `TakeSnapshot` lists what is there before the submission, `Exact` what is new since, `Verdict` the
answer if there is exactly one. Both requests ask for records from the worker's own second on, of two different
moments: an authorization made in the second of the submission, but before it, is told from this payment only
by the listing. Assumed, as `src/README.md:301-303` demands of the operator: the card is not used elsewhere for the
same amount between the listing and the end of the attempt. Two checkouts of the same amount on one Issuing card can
be taken for each other's, because an earlier one of unknown outcome may be authorized late (`OneIssued` below).

### CheckoutAttempt

`rail[e]` says how a checkout is paid: stored card, hosted sandbox with a stored card, Issuing, Link, Link in the
hosted sandbox, payments demo, and its hosted form. `Begin` chooses the rail, `Outside` is everything of
`CheckoutWorker` outside the attempt, and the rest follows `_execute_*_context`: what runs first, what is caught,
which error becomes an unknown outcome, when Link is told (`Abandon`, `ReportFor`), and on what evidence an outcome
rests: the merchant's markers, the hosted page, an authorization, a payment intent. Not a guess but a property,
`KeepsWorker`, is that all of it is `CheckoutWorker`.

### HostedReconciliation

A call is a request to reconcile, a worker's `mark_submitted` or `succeed` with its error handling, or an
approval. `stage` is how far it is, `Plan` the rows its transaction locks, in order, `locked` how many it has;
`WaitsFor` and `Cycle` are PostgreSQL's wait graph, and `Abort` its detector. `ReadExecution` and `ReadRest` are the
unlocked snapshot, which several commits can come between; `Verify` asks the landing server; `Apply` reads again
under locks. `CloseAbandoned` is another worker's `claim_next`, which skips locked rows and whose event waits for an agent that is locked for update (`OwnsAgent`).
A worker's transaction looks at its rows (`Check`: its own, and the card's other checkouts without a lock on those that are
resolved) and writes and commits later (`Commit`). An error of it, a commit whose acknowledgement is lost, or an abort by the detector, is handled inside the card lock
(stage `"handle"`), and one of that handling once more outside (`"again"`), which is the last.

Left out of the plans: the sibling rows that are locked after the method, which nobody locks without it; and
share locks, but for the key-share lock on the agent that inserts take, modelled as exclusive. An approval looks for unresolved siblings with the method locked, but
`claim_next` can make a sibling unresolved without that lock; the worker looks again before it pays. The feature flag, amounts, titles and receipts
do not change between the two readings.
Stale attempts at an execution are `CheckoutWorker`'s subject; here one attempt is at an execution
at a time, besides those whose error is being handled outside of the card lock (`Validate`).

Two things the model shows of the code that are no errors: a deadlock that aborts `succeed` turns a checkout that was
paid into one of unknown outcome (it can be reconciled if it is a hosted one), and a snapshot torn by that success
is answered with "invalid" (409) although the checkout has just succeeded.

### CvcRelay

`Flush`, `SendPut`, `Commit`, `Discard` are the approve endpoint in its order (`api/routes/cart.py`): the
execution row is flushed, the code is put into the worker's memory, and only then is the row committed.
`PutFails` is a connection refused or an answer that does not come; the request may arrive all the same
(`PutArrives`). A commit may raise with the row committed or not. `held[p]` is the broker's `_entries` in
process `p`; an expired entry stays there until the next `put` or `take` prunes it. `StartCheck` and
`StartListen` are the two halves of the broker's start, between which another process may take the socket.
The worker's side (`Claim`, `TakeCode`, `Submit`, `Settle`, the failures between them) is `CheckoutWorker` cut
down to what touches a code: a lease may run out at any time, the card lock and the lifecycle of the other
columns are left out. `used` and `spoiled` are history: codes handed to a browser run, codes that expired or
died with their process.

### CheckoutEventFeed

A transaction that ends an execution locks its row, for a success the agent's row `FOR UPDATE`
(`LockAgent`, `repository.py:755-757`), inserts the event and draws its cursor (`Insert`), passes the check of
the event's foreign key on the agent, which waits for another's `FOR UPDATE` (`CheckKey`), and commits. `Poll`
is one request of the agent for the events after its position. "failed" stands for `action_required` too.

### ProposalApproval

A request is a row of variables: how far it is (`stage`), the item and the method it is about, the rule it was
authenticated with, and the methods it has locked. There is one action per statement after which another
request can get in between: `ProposeStart`, `Evaluate`, `ChooseMethod`, `ProposeCommit` for a proposal,
`ApproveStart`, `LockMethod`, `CheckAssignment`, `ApproveCommit` for a decision, `CompleteStart` and
`CompleteCommit` for a report, `AssignStart` and `AssignCommit` for an assignment. Requests of a single locking
statement (`Cancel`, `Disable`, `Unassign`, `UpdateRule`) are one action whose guard is that nobody holds the
row. Amounts, currencies and thresholds are the set `OverLimit`; whether a method is one a managed checkout
accepts is the set `Supported`. `WorkerBuys` is the success of `CheckoutRepository` seen from here.

### AgentPairing

`Handshake` locks the row before it reads it and is one action. `rotate_pairing_token` and `revoke_agent` read
the row (`Read`, which keeps it in `view`) and write it later (`Rotate`, `Revoke`); `Flush` is what the ORM
writes: the columns whose new value differs from the one that was read. Codes and keys are numbered as they
are made.

## 3. Runs

| Run | What it shows |
|---|---|
| `worker_safety` | the safety properties, that a card's lock is held by a worker that goes on, the inductive invariant and the refinement, on two workers, two checkouts on one card and under one provider reference, two attempts each |
| `worker_liveness` | two workers, three attempts at one checkout, with advisory locks that vanish: the checkout reaches a terminal status, and each write to its status brings it nearer, errors that are handled twice included |
| `quarantine` | a violation: a click lands on a card that is quarantined (section 5) |
| `attempt` | one checkout on each of the seven rails, two workers, two attempts, a page that moves, two spend requests, two clocks: where card data goes, what is checked when, which spend request pays, what Link is told, and that every rail does what `CheckoutWorker` says |
| `reconcile` | two reconciliations of one checkout that is unknown or was abandoned, a worker's transaction about another one under the same payment, and an approval of a third on the same card: a payment is booked once, the rows agree and move by the repository's transactions whatever was checked before the commit, refusals are right, every cycle of waits has a worker in it, every call ends |
| `relay` | three worker processes that race for the socket, stop and die, and one approval: a code is spent at most once and only for a committed approval, one that was confirmed is there until it is used, expires or goes down with its process, the relay implements `OneTimeCode`, and every committed approval ends |
| `relay_socket` | a violation (section 5) |
| `feed` | three sessions end and reconcile two executions of one agent: the agent's position passes no success, the events of an execution are in order, and an agent that keeps asking learns every success |
| `feed_skips` | a violation (section 5) |
| `approval_safety` | three requests at once about three items, while rules, methods and assignments change: decisions stand, managed items are approved soundly, rules are obeyed, agents report nothing managed |
| `pairing_safety` | three of the owner's requests and any number of handshakes: codes are redeemed once, pending agents have no key, a revoked agent comes back only to be paired with a new code |
| `pairing_revoke` | a violation (section 5) |

Each property is stated in words above its definition, at the end of its module.

Bounds. Two executions on one card are what the card lock, the quarantine and the unique reference need. Two
workers are what a stale attempt needs next to the one that replaced it. Two attempts reach the retry and the
exhaustion, three a retry of a retry. In `CheckoutAttempt` one checkout is enough for what is about one checkout's
attempts, and the card lock and several checkouts are in `worker_safety`; two spend requests let a second be made,
two form maps let a second attempt map differently, `Leads` puts the worker's clock a second behind or ahead of
Stripe's, `MaxTime` lets one second pass, `MaxUses` is one other use of the card. `MovingOn`, `OpenPages`,
`WithdrawnOn` and `DroppedOn` bound on which rails a page moves, how many runs may be open when a page moves, and on
which rails the owner withdraws the card and the lock's connection dies: the rails outside them run the same code in
those places as one inside. The rails of Link are outside of the first and the third and Issuing is outside of all,
because their own state is the largest; what this leaves out, two Issuing attempts past a lost lock among it, is in
the theorems. In `HostedReconciliation` two requests race for one
checkout, which another worker may close first, two checkouts share a payment, and all calls share a card and an agent,
so that every pair of plans meets and one checkout can become unresolved between the worker's look at the card and its
commit for the other. A request and a worker about the same checkout, and several workers' transactions, are beyond
the instance; the theorems cover them for all of the run's properties but `EveryCallEnds`. In `CvcRelay` three processes let two race while a third holds the socket, and two
attempts let the second find the code gone; that codes of several approvals do not mix is proved (`RelayInductive`). In `CheckoutEventFeed` two executions end, and are reconciled, in any order of cursors and commits, with
a third session that waits for their rows; `MaxCursor` is enough for both to end and be reconciled. In
`ProposalApproval` three requests let a proposal or a decision meet another decision and an assignment; the
three items are the kinds the code tells apart. In `AgentPairing` three requests let two stale ones meet a
third; `MaxTokens` bounds how many codes and keys are made. Nothing else is bounded. Processes, sessions,
requests and approvals are symmetric; the liveness runs do without symmetry.

Fairness (`Fairness`). A worker that can step does: every wait in it has a timeout or an error, `run_forever`
never stops by itself, and a supervisor restarts the process. The lease of a row nobody works on runs out,
because only a heartbeat of a running claim renews it. Nothing is assumed of the merchant, of the owner, of
heartbeats, or of crashes ever stopping: the attempt count bounds their effect. In `CvcRelay` a worker process
is started again and again (`StartCheck`), and over and over stays up long enough for a start and for a step
(strong fairness of `StartListen` and `WorkerStep`: without it a process that dies before each step would be
fair); a process that closes ends, and a request of the API ends, because every wait in it has a timeout. In
`CheckoutEventFeed` the agent keeps asking. In `HostedReconciliation` some call goes on as long as one can:
statements and HTTP calls have timeouts and the deadlock detector runs; nothing says which call.

Deadlock is checked in the runs of `CheckoutWorker`. The other systems may stop: when every code is spent, every
item decided, every call answered or every token made, nothing is left to do.

## 4. Proofs

For every number of workers, executions, cards and attempts (assumptions: `MaxAttempts` is a positive natural,
executions are naturals, `CardOf` and `ReferenceOf` are functions, `None` is neither a worker nor an
execution):

- `TypeCorrect`: `TypeOK` is an invariant.
- `Inductive`: `IInv` is. `AtMostOneClick` alone is not inductive: it must know that a worker about to click
  is the only one past `mark_submitted` for its execution and that nothing was clicked yet
  (`SubmissionOwned`), that a click implies a submitted row and a charge a click, and that a submitted row is
  never waiting for a worker and is called failed only on a decline (`RowsConsistent`), that what a worker
  settles with is what happened (`EvidenceSound`), and that a claim names an inserted row (`ClaimsExist`).
- `ClickedOnce`, `ChargeKept`, `PurchasesAreBacked`, `TerminalRowsFinal`: safety properties from it.
- `ReferencesBookedOnce`, `FeedFollowsRow`, `TimelineFollowsRow`, `TransientsRetried`: what is written beside the row.
  Each is inductive on its own types, because every transaction that changes a row is one of a few kinds of
  writes (`Writes` in `CheckoutRepository_proofs`), which all append to feed and timeline what they write to the row.
- `PromiseKept`: `Spec => Promise!Spec`; every step maps to a step of `CheckoutLifecycle` or a stutter.
- `RepositoryWindsDown`, `StatusWritesEnd`: every write to a row's status brings the row nearer to its end, so that there
  are at most `3 * MaxAttempts + 1` of them (ten with three attempts). The measure (`WritesLeft`) counts three for each attempt that is left, its
  start and an error that is queued inside and again outside of the card lock, and one or two for each worker with a claim on
  the row, by whether its error reached the outer handler; a worker whose lease was lost can still queue a row that is
  queued already. A row that has used its attempts is not queued again: its end and a reconciliation are left.
  Finitely many workers have a claim (`FiniteClaims`). The writes made and those left never add up to
  more than at the start (`StatusWritesBounded`).
- `CardLocksServe`: who holds a card lock is past the wait for it, so that workers do not wait in a circle.
- `UnknownPaymentsReconcilable`: a payment that was made and is unknown has the rows `reconcile_hosted_succeeded` asks
  for, by whichever way it became unknown. It needs that an unknown status carries its code
  (`CodeFits`), that the cart item follows the status and that purchases are of succeeded executions only.
- `CardUsedByOne`: one worker at a time is past the second validation of a card, if the lock's connection outlives
  its holder (`LockMayDrop = FALSE`). None of the theorems above needs that, or the lock.

`CheckoutAttempt`, for every number of workers, checkouts, requests, form maps, clock leads, and every value of the
bounds: `AttemptTypeCorrect`, `CardStaysAtPaymentOrigin`, `ChecksFollowLoad`, `MapStaysFrozen`, `PaidByOneRequest`,
`AskedOnce`, `LinkIsToldTheTruth`, `AttemptsKeepWorker`. First, each action of an attempt is an action of
`CheckoutWorker` or leaves its variables alone (the `...Refines` lemmas); one, `FindAuthorization`, needs that its
verdict fits the payment. Then the invariant in four parts: `Shape`, where a worker can be in its run and
its calls of Link; `Runs`, what the browser run has checked so far; `Links`, what Link's store and
the rows agree on, and what a worker knows of its request that no other can take from it; `Books`, that every
authorization that is not this checkout's was listed or is older than what is asked for. `AttemptsKeepWorker` has
the premise `OneIssued`, one checkout on the Issuing rail at most: without it the property is false, since
two checkouts of one card and amount can be taken for each other's (see `IssuingAuthorization` above).
`AttemptsKeepPromise` joins both refinements: under that premise the seven rails implement `CheckoutLifecycle`.
`AttemptsClickOnce` does without it: an authorization that is taken for another's spoils the outcome that is reported and not
the submission, and what the clicks rest on (`Clicking`) says nothing of evidence.

`HostedReconciliation`, for every number of requests, workers' transactions, approvals, cards and agents:
`ReconcilingInductive`, `ReconcilingTypeCorrect`, `SuccessIsWhole`, `PaymentBookedOnce`, `RefusalsAreRight`,
`CyclesNeedWorkers`, `StandstillsAreCycles`, `RowsMoveByTransactions`. The argument: the rows of each checkout agree (`RowsAgree`); a request that goes on has read
an unknown outcome, so that the status can only be unknown or succeeded since (`RequestsFit`), in either case its
reading under locks is not torn, and only a purchase under the same payment makes it invalid; a transaction of a
worker on a submitted row has seen the payment, and one that is about to commit is at a row that still runs, since it holds it (`ValidationsFit`, `Exclusive`). For the cycles: but for a worker's
validation every plan locks the agent last, so nobody in a cycle without one waits for an agent. What is left are
reconciliations, which hold a method, and approvals, which hold a cart item: the approval waits for the method, the
reconciliation for that cart item, but it is one of a submitted checkout, whose item is approved, and an approval that goes
on found its item proposed (`RowsAgree`, `ApprovalsFit`).

`StandstillsAreCycles`: locks belong to calls in progress, of which there are
finitely many (`StartedFinite`), so that when all of them wait, the least set closed under "the one it waits for" is a cycle
(`WaitersCycle`).

`RowsMoveByTransactions`: what is committed under locks taken one by one, on checks made and on a proof given before, is a
transaction that `CheckoutWorker` takes in one step, which justifies that module's coarser steps. What a worker found of its own row, item and card holds
because it has them locked. What it found of the card's other checkouts holds where they are all one agent's
(`ServesOneAgent`), because a checkout becomes unresolved only by transactions that take the agent's row (`UnresolvedBy`,
`CheckedKept`), which the worker has locked; where agents share a card nothing of the kind is claimed, and the code does not
keep it. Not part of it is an approval's look at the card's other checkouts: it is made before its last lock, and `claim_next` may
close one since (`Insert`).

For every number of approvals, processes and attempts of `CvcRelay`: `RelayInductive`, `CodeIsSpentOnce`,
`CodeIsServed`, `RelayIsOneTime`, `EndingsLast`. The argument: a code is in one place, with its owner, on the wire, in the memory of one
process, or used; putting, taking and dying move it and nothing copies it; a row exists only if its code has left
its owner; a browser run that is loaded has used the code it took. A row that has ended is neither claimed nor committed
again, since its approval is past its commit (`RowsFollow`).

For every number of sessions, executions and cursors of `CheckoutEventFeed`: `FeedInductive`,
`SuccessesReachAgent`, `EventsInOrder`. The argument: a success holds the agent's row
from before it draws its cursor, so no event of a later cursor can pass the check of its foreign key, and
nothing visible has a later cursor (`SuccessAhead`); one execution's row has one holder at a time.

For every number of requests, items, methods and rules of `ProposalApproval`: `ApprovalInductive`,
`DecisionsStand`, `ApprovedSoundly`, `RulesObeyed`, `AgentReportsNoManaged`. The argument: what a request has
read of the rows it locked still holds when it commits (`RequestsFit`, `RulesFit`), because every action that
would change it waits for that lock (`OneHolder`).

For every number of requests and tokens of `AgentPairing`: `PairingInductive`, `RedeemedOnce`,
`PendingIsKeyless`, `RevivedByNewCode`. The argument: a stale write puts into the row a code just made, or None, or leaves what the
handshake left; a rotation writes "pending" only if it read an active agent, hence one with a key, and then it
removes the key too. For the same reason the rotation that brings a revoked agent back has read an active one,
and so writes all three columns.

Assumed throughout: the constants' named assumptions, which every run evaluates. Every safety and action property of
the passing runs is proved. Proved and in no run, because the proof says it for every instance and a run checks what is harder
to see: types (`TypeCorrect`, `AttemptTypeCorrect`, `ReconcilingTypeCorrect`), what one transaction writes beside its row
(`ReferencesBookedOnce`, `FeedFollowsRow`, `TimelineFollowsRow`), and steps to larger results (`StandstillsAreCycles`, `EndingsLast`). Model-checked only: liveness (`EveryCheckoutEnds`, `EveryApprovalEnds`,
`SuccessesLearned`, `EveryCallEnds`), because fairness and ENABLED are out of the prover's reach. What these rest on besides
fairness is proved for two of them: for `EveryCheckoutEnds` that a row's status is written finitely often and no worker
waits for one that waits itself (`RepositoryWindsDown`, `CardLocksServe`), for `EveryCallEnds` that
a standstill has a cycle to abort (`StandstillsAreCycles`).

## 5. Findings

- `quarantine`: the quarantine of a card (`src/README.md:304-306`) is not kept up to the click. It is last
  looked at in `mark_submitted`; after that a crashed sibling can be closed as outcome unknown.
- `relay_socket`: two processes that start together both find the socket dead, and the second unlinks the live
  socket of the first.
- `feed_skips`: an event whose transaction commits after that of a later cursor can be passed over. Two checkouts
  of one agent that end other than as successes at the same time are enough; successes are safe.
- `pairing_revoke`: a rotation that read the agent before its revocation brings it back to pending.

Behaviours of the models worth knowing, for which no run is kept:

- `Evaluate` in `ProposalApproval`: a rule can approve a managed proposal. `src/README.md:277-280` says that one always
  waits for its owner; a later paragraph (312-316) and a test
  (`src/apps/api/tests/test_checkout_orchestration.py:1017`) say what the code does.
- `LateCreate`, `Create` after `LockDrops`: a checkout can be left with a second spend request at Link that the owner
  sees and nobody withdraws. Its card is never used.
- `HandleError` of a worker whose lease was lost, or a second time after a lost acknowledgement: it can queue a row that is
  queued already, which adds another "queued" to the timeline and costs no attempt (`WritesLeft`).
- `RaiseAgain`: an error no attempt can mend becomes one that may pass when its handling fails, and the checkout is tried again.
- `Expire` with no later put or take: an expired code stays in the memory of an
  idle worker until another request comes in. It cannot be used.
- `AssignStart`, `Disable`, `AssignCommit`: a method can end disabled and still assigned. It is never used to approve
  (`ManagedApprovedSoundly`).
- `Read`, `Handshake`, `Rotate`: a rotation that read a pending agent before its handshake does not invalidate the
  new key, because the ORM leaves out the assignments that change nothing of what it read. In the same way a
  revocation leaves the new key in the row; the status still keeps the agent out.

## 6. Not modelled

- Purchases and subscriptions (`api/routes/purchases.py`): reads, and single-statement updates of a
  subscription by its owner. Nothing interacts with them.
- Accounts and sessions (`api/routes/auth.py`): registration and signed tokens, without state that two actors change.
- Event broker (`services/broker.py`): written after commits, best effort, read by nobody.
- Web application: views over the API. The outcome notifier keeps in memory what one browser tab has shown, and no
  text promises that everything is shown.
- Configuration, schemas, serializers: validation and layout of data. Migrations, scripts, demonstrations and
  deployment: run by hand, alone.
- Pure functions: encryption and hashing, parsing of URLs, selectors and money, card brands, matching of texts on a
  page. Where their result decides something it is a nondeterministic one: a check succeeds or fails, a request is exact
  or not, a total is the approved one or not. Amounts and thresholds are sets of items over a threshold.
- Creation and deletion of payment methods and rule sets, and the agent's heartbeat: they race with nothing.
- Locks beyond those of `HostedReconciliation`: the locks of `ProposalApproval` are in that module without a wait
  graph of its own, since each of its requests waits with at most the item and the methods locked, in one order.

Two hazards are without a property, each with the reason in `PROJECT.json`: an agent's rule set is read once per request, and a
report of a purchase checks its method without a lock. In both the code does what it says and no text promises more.
