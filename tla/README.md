# Shopping Copilot: formal models

TLA+ models of the parts of Shopping Copilot whose correctness depends on the
order in which things happen, the TLC configurations that check them on small
instances, and proofs checked by TLAPS of the properties that hold for every
instance. Paths below are relative to the repository's root.

Contents: [the system](#the-system), [its components](#inventory),
[the modules](#modules), [the runs](#runs), [the proofs](#proofs),
[disagreements met](#disagreements), [limits](#what-is-not-modelled),
[plan](#plan).

## The system

A Shopper browses a fictional Arabic/English storefront inside a page that also
holds the Copilot Panel. One request of the Shopper passes through six programs:

```
 Shopper -- Panel (panel/src) -- HTTP and SSE --> Agent (agent/)
              |  postMessage                        |  HTTP
            Bridge (bridge/src, in the page)        |
              |  DOM, navigation, forms             v
            Storefront (store/src) <---- confirmations, catalogue queries
 Agent --> inference providers, through a spending ledger (agent/inference)
 Agent <-- invitations and limits (agent/admission)
 wake / stop of the host: agent/lifecycle (Lambda, DynamoDB, EC2)
```

1. The Panel sends the message with a Snapshot the Bridge made of the page. The
   Agent asks a model for an intent (a call that may take seconds, during which
   every other command is served), plans, and publishes one Action on the
   Session's event stream.
2. The Panel passes the Action to the Bridge, which checks it against a ledger
   kept in `sessionStorage`, executes it on the page, and posts a result with a
   new Snapshot. If the Action navigates, the document that executed it is gone
   by then, and the next one posts the result.
3. The Agent verifies the result and publishes the next Action, a question, or
   nothing. Clearing the cart and submitting an order (the *guarded* mutations)
   need a confirmation the Shopper gives and the Storefront registers.
4. The Storefront applies the edit if the revision it carries is the cart's.

Around this turn: a Session exists only for a browser with an invitation;
every model call is paid from an allowance; and the host that runs all of it is
an EC2 instance woken by an invitation and stopped when idle.

## Inventory

For each component: its state, its operations, who it talks to, what is hard,
and what makes it correct.

**Guarded cart** (`store/src/guarded-cart.ts`, routes in `store/src/app.ts`).
State: lines, revision, confirmations, one undo record, operation ids, orders,
the catalogue revision and product terms last seen. Operations: add, quantity,
remove, undo, register and present a confirmation, clear, checkout; each first
takes in what the catalogue changed. Called by forms of several open pages and
by the Agent (confirmations). Hard: pages and confirmations older than the cart,
coalesced undo, catalogue imports between a page and its post. Correct when a
revision names one content, undo restores one line, and nothing is cleared or
bought but what was confirmed. Module `GuardedCart`.

**Catalogue of the Storefront** (`store/src/catalogue-*.ts`). State: the SQLite
catalogue and its revision. An import replaces it; a search reads it page by page
with a signed cursor. Hard: imports between two pages of a search, filters
evaluated once in SQL and once in code. Correct when the pages are the list, once,
from one catalogue. Modules `CatalogueSearch`; the import also in `GuardedCart`.

**Bridge** (`bridge/src`). State: the ledger (active task, retired tasks, highest
sequence per task, a list of completed ids) and the pending navigation, both in
`sessionStorage`; what the current document executes. Operations: receive an
Action, execute it, settle, post a result, cancel, start in a new document.
Hard: duplicates, late Actions of a superseded task, a text whose form is submitted
after an await, a document that disappears while its Action is awaited. Correct when
nothing takes effect twice or out of order and each effect is answered once. Module
`ActionLedger`.

**Panel** (`panel/src`). State of a tab: its Session and task, what it offers,
which task it gave up, posts in flight; in storage shared by the tabs: the Session
and the event cursor. Operations: load, restore, create, take over, reconcile,
subscribe and reconnect, submit, answer, retry, stop, pass a result on. Hard:
reconnects, lost POSTs, two tabs. Correct when no Action is executed twice, a task
given up stays silent, and the Panel offers what the Session waits for. Module
`CopilotTurn`.

**Shopper link** (`agent/shopper_*.py`, `store/src/shopper-*.ts`,
`panel/src/shopper-link.ts`). State: browser records and their challenges,
Shoppers and their tickets, the binding of a record and of its Sessions. Hard:
answers lost after a ticket is spent, several tabs, ownership verified across
awaits. Correct when a Session has one Shopper, is served for nobody else, and a
broken link can be made again. Module `ShopperLink`.

**Shopping Task** (`agent/task_*.py`, `confirmation.py`, `session_state.py`,
`cart.py`, `app.py`). State of a Session: lease, active task with its pending
Action, plan, question and confirmation, last Snapshot, whether a reconciliation
is required, accepted results, published events. Operations: message, retry,
answer, result, state, reconcile, takeover, stop, and the two halves of a model
call. Hard: model calls that finish after something else happened; confirmations
that expire or are answered twice; refreshes at any point. Correct when guarded
clicks are confirmed, nothing is repeated that may have happened, and no stale
interpretation acts. Modules `SessionTask`, `FindTask`, `OrdersTask`.

**Planner** (`agent/planner.py`, `navigation.py`, `product_*.py`). A function
from an intent and a Snapshot to Actions: in `SessionTask` the types and numbers
of the Actions it yields; in `FindTask` and `OrdersTask` the plan itself.

**Session registry and event stream** (`agent/session_registry.py`,
`sessions.py`, `session_stream.py`). State: Sessions with a 30 minute TTL, a
capacity of 800, the lease of a tab, the event log and stream cursors. Modules
`SessionTask` (lease) and `CopilotTurn` (lease, log, replay, loss of a Session).

**Intent interpretation** (`agent/llm/intent_*.py`). State: the request a question
is asked about. Operations: check a draft, have it repaired once, complete it from
the request it clarifies. Correct when what the Shopper said and did not take
back, and only that, is carried out. Module `IntentMemory`.

**Catalogue retrieval and advice** (`agent/catalogue*.py`, `discovery.py`,
`advice.py`). State: the evidence and the budget of a turn, a conditional cache.
Operations: up to three decisions of a model, reads, one advice, a final refresh;
the ranking of a snapshot. Hard: the catalogue changes between what was read, what
was written about it and what is shown. Modules `CatalogueTurn`,
`CatalogueEvaluation`.

**Inference allowance** (`agent/inference`). State: the ledger's policy and
attempts tables (SQLite), the permits and the bounded queue of one process.
Operations: complete (admit, authorize, reserve, authorize again, call, settle,
deliver), switch, crash. Hard: ledger transactions run in threads a cancellation
does not stop; calls whose cost nobody learns. Correct when all that is ever
charged stays within the allowance and nothing leaks. Module `InferenceGate`.

**Invited access** (`agent/admission`). State: invitations with their windows and
quotas, grants; on SQLite or DynamoDB; the counters of running requests.
Operations: issue, redeem, allowed, allocate a Session, revoke; pass the limits.
Hard: on DynamoDB an operation is several reads and one conditional transaction
whose answer may be lost; a request may end in many ways. Correct when it behaves
like the one-transaction store and no slot leaks. Modules `InvitationStore`,
`DynamoInvitations`, `RequestLimits`.

**Host lifecycle on DynamoDB** (`agent/lifecycle/dynamodb.py`, `executor.py`,
`controller.py`, schedule in `deploy/observation.py`). State: one row with the
host's state, generation, times, leases and command; the EC2 instance. Operations:
wake, begin/renew/end work, claim, check, call and settle a command, observe and
reconcile, revoke. Hard: separate Lambda invocations that crash anywhere, EC2
calls that take effect late, clock readings older than the write. Correct when
the host is never stopped under accepted work, no intent is called twice, the row
can always be loaded, and nothing hangs. Module `DynamoLifecycle`.

**Local lifecycle and Lambda entry** (`store.py`, `deploy/lifecycle.py`,
`lambda_*.py`). The same promise kept by one SQLite row, a loop and a thread; the
commands are given inside the transactions that record them. Module
`LocalLifecycle`. What both stores promise: `HostPower`.

**Lifecycle work leases** (`work.py`, `async_work.py`). State of a process: the
tokens of its requests, the token of its pending Task, its authority. Hard: one
lock, an await at every call, cancellations. Correct when pending work stays
under a lease and finished work under none. Module `WorkLeases`.

**Startup and readiness** (`startup.py`, `readiness.py`, `host_health.py`). State:
rate rows shared by Lambda environments; one flight of host checks. Hard: lost
replies, rows that disappear, replies older than the question. Modules
`WakeService`, `HostReady`.

**Evaluation** (`eval`, `scripts`). `eval/holdout_eval.py` spends a fixed allowance
on records that may be used once, and survives kills: module `HoldoutEvaluation`.
The other drivers run once and print.

**Model providers** (`agent/llm`, and `eval/qualification_budget.py`). State of a
client: a pause the provider asked for, one lock (OpenRouter), SDK operations in
threads (Bedrock), the record of each call, an allowance of its own
(qualification). Operation: complete, with retries. Hard: the permission to call is
withdrawn between attempts, calls are cancelled at any await, and a call cut short
may still be charged. Correct when every request posted was permitted, each call
leaves one true record and the credit holds. Module `ModelProviders`.

**Deployment: the host** (`deploy/host_bootstrap.py`, `host_agent.py`,
`host_checks.py`, `agent/async_boundary.py`). State of a host: what was constructed, the verification
of the provider under way, the jobs, the operations in bounded threads, how far
each of two ways to close it has come. Operations: ask for work, for access or for
a check; close. Hard: shutdown is cancelled at any await while threads, which
nothing can cancel, still use the SDK client; a host constructed only in part.
Correct when the client outlives its users and is closed in the end, and nobody
works on a provider that was not verified for them. Module `HostAssembly`.

**Deployment: releases, services, packages** (`deploy/artifact.py`, `runtime.py`,
`configuration.py`, `lambda_package.py`, `eval/services.py`,
`eval/capacity/services.py`). State: the checkout and the release directories with
their `release.json`; the child processes of an owner and the ports they hold; wheels,
the archive and the digests that are kept. Operations: build, install, verify; start,
await, restart, stop; build and verify a package. Hard: files change and other
processes publish while a release is copied; two owners want the same ports between a
probe and a bind, and any of several starts may fail; paths that one file system takes
for one and another for two. Correct when what verifies was built, nothing runs after
its owner, and a package extracts to all it needs. Modules `ReleaseArtifact`,
`ServiceProcesses`, `LambdaPackage`. The rest of `deploy` are scripts that an owner
runs once.

Without state or concurrency of their own: **storefront pages** (`store/src/views.ts`, `store/public`; what a filter form does
is in `FindTask`) and **speech**.

`PROJECT.json` lists the hazards of this code line by line with the properties
that catch them.

## Modules

Every module is one component; its variables, actions and properties are named
after the code and `PROJECT.json` maps each definition to its lines. Definitions
introduced by a comment `Mutant:` (or named like a definition with a suffix, for
example `SpendNothing` for `Spend`) are plausible bugs: replacing the definition
by its mutant makes the property it belongs to fail. They are not part of any
specification.

### GuardedCart

The cart of one Shopper behind its routes, the catalogue, and the open pages.
A request runs synchronously inside one catalogue snapshot, so one request is one
action: `Add`, `SetQuantity`, `Remove`, `Undo`, `Register` of a confirmation,
`ClearCart` and `SubmitCheckout` that spend one, `RefuseMutation`, `Refuse`,
`Import` of a catalogue, `Show` of a page, and `Tick` of the clock. Every
route first *refreshes* (takes in a changed catalogue, dropping the undo record
and the confirmations); this is part of each action, not an action.
`view` is what a page shows; a post carries the revision of the page it comes
from. `approved`, `spent`, `log` and `clears` are history.

* `RevisionNamesContents`: a page with the cart's revision shows the cart.
* `UndoTouchesOneLine`, `UndoBelongsToItsFirstEdit`: coalescing.
* `MutatesWhatWasConfirmed`: clearing and ordering.

Not modelled: `seed` and `reset`, reachable only through the `/__test` routes of
evaluation builds (`store/src/shopper-http.ts:42-48`).

### DynamoLifecycle

The DynamoDB row, executors (claim, check, EC2 call, settlement), observers
(observation and reconciliation), workers with leases, wakes of invitations, and
the EC2 instance as the environment. An operation on the row is a read and one
conditional write; since the condition is the row's revision, it is one action at
the moment of the write, with `now` any clock reading since the row's last write
(`Reading`). An executor or observer may stop at any point; a committed write may
lose its reply (`WorkerGone`, `Abandon`); an EC2 call may take effect after its
caller is gone (`late`, `ApplyLate`).

* `RowLoads`: no row is written that `_load` refuses.
* `NoStopUnderLiveWork`, `RecoverableMeansDown`, `CallsAreSerial`.
* `ImplementsHostPower`: the row keeps the promise of `HostPower` (below).
* That starts and stops end is `EverythingEnds` of `MCProgress`.

### ActionLedger

The Bridge of one tab: `sessionStorage` (`ledger`, `pending`), what the current
document executes (`running`), and the executed Actions and posted results as
history. The Panel is the environment: it may deliver any Action at any time, as
often as it likes. A reload loses `running` and keeps `sessionStorage`.

An Action has its effect up to the first await, in the step that accepts it
(`Execute`), but for one kind: a text that is to be submitted is typed, the page
settles, and then its form is submitted (`Submit`), without another look at the
ledger (`bridge/src/actions.ts:319-331`). A Stop or a newer task's Action may
arrive between the two, and the form is submitted all the same. The properties
say what is left of the promise:

* `EffectsInOrder`: no Action begins twice or out of its task's order, and a text is
  submitted at most once, by the document that typed it.
* `SupersededStaysSilent`, `CancelledStaysSilent`: a superseded or stopped task begins
  nothing more, and at most submits, in the same document, what it had typed before.
* `NavigationAnswered`, and `AnsweredOnce`, which do not hold: see
  [disagreements](#disagreements).

### SessionTask

One Session. Every HTTP handler is one action; an interpretation is two (begin,
then finish or fail), because the handler releases the Session while the model
works, and with catalogue retrieval a third in between (`checked`). Results,
Snapshots and answers are whatever a browser may send. The planner appears as the
numbered types of Actions it may yield.

Abstractions: a live model provider (the scripted one of evaluation has other
entry points, `submit_message` and `plan_answer`); one Storefront origin; the
proposal of a confirmation is carried by the confirmation; an Action's id is its
position in the published log; conversation, advice and product context are left
out; a Session does not expire. `verify_owner` may fail at any time, also because the
Storefront merely fails to confirm the Shopper: the call then ends without a word
(`CallDropped`, `agent/app.py:404`).

* `ActionsNumbered`: what the Bridge's ledger demands.
* `OnlyConfirmed`, `HandsBack`: guarded mutations.
* `LatestWordOnly`, `ActsOnWhatItSaw`: stale interpretations.
* `InterpretationsEnd`: none is left hanging, except by a call that was dropped and
  not made again.

`MCAgent` checks `ActionsAreCurrent` (the conjunction of `ActionsNumbered`,
`LatestWordOnly` and `InterpretationsEnd`), `OnlyConfirmed`, `HandedBack` (which is
`HandsBack` in its configurations) and `ActsOnWhatItSaw`.

### InferenceGate

`GuardedClient.complete` step by step for several requests, and the ledger whose
transactions run in threads. `Cancel` is possible at each await and leaves the
thread running; `Crash` loses everything but the ledger's file; storage may
refuse a transaction; the provider returns a receipt or none; two requests may
share an attempt identity (a retried message does).

* `SpendingHolds`: `WithinAllowance`, `DeliveredIsAccounted`, `NothingLeaks`.
  That requests end is `EverythingEnds` of `MCProgress`.

Not modelled: contention of the `asyncio.Lock` around the counters (no await is
made under it).

### ModelProviders

`complete()` of the adapters to Groq, Gemini, NVIDIA, OpenRouter and Bedrock, and of
the qualification client, which has an allowance of its own; `kind` says which one
the client is. Several calls share the client: a lock, a `retry_at`, the SDK's
threads, the records. What `authorize()` answers may change at any time, and each
call may be cancelled at any of its awaits; a request that is cut short may be
charged later. A payload is a choice between accepted and refused, a body one
between parsed and not, its price one of a small set.

* `PostsAreAllowed`: no request is posted without permission, in a pause the
  provider asked for before the call began, or more often than the caller said.
* `RecordsTell`: each call leaves one record that says how it ended and what it cost.
* `WorkersAreOwned`: an SDK thread never outlives the call that holds a place for it.
* `CreditHolds`: the key's credit, and the qualification allowance.

`ProvidersHold` is their conjunction. Observed: Groq and NVIDIA keep no record of a
call that was cancelled; a Groq call that has begun does not look at a pause that
another call is told meanwhile; OpenRouter asks its lock's next holder to read the
credit anew, so a call that was cut short and is charged late can overdraw the key.

### InvitationStore and DynamoInvitations

`InvitationStore` is what invited access promises: the SQLite store, where an
operation is one transaction. `DynamoInvitations` is the DynamoDB store, where an
operation reads a code, a grant and an invitation one after another, then sends
one transaction whose conditions were made of what it read, and reads once more
before it answers. Each of these is a step; a read or a transaction may fail; a
transaction may take effect after its caller has been told nothing (the call's
slot stands for it meanwhile). `Store == INSTANCE InvitationStore` has the tables
of both in common, and `Implements == Store!Spec` says that every step on
DynamoDB is a transaction of the SQLite store or none. The clock readings of a
transaction of `InvitationStore` may be old, but no older than the grant they
are used about: that is what DynamoDB guarantees, and SQLite trivially.

* `Implements`, and with it `LiveGrantStays` and `OneRedemptionEach` of
  `InvitationStore` (proved).
* `AnswersHold`: what was read before the transaction is still so at the answer.
* `SessionsAreCounted`: crashes may waste a Session of the quota, never exceed it.

Left out: validation of strings and rows, and skew between the clocks of two
processes (one clock, read at each step).

### HostPower, LocalLifecycle

`HostPower` is what a lifecycle promises, whichever store keeps it: the host is
off, starting, on, stopping or failed; a start makes a new generation; work is
admitted to a host that is on, and *protected* work keeps it on. `DynamoLifecycle`
implements it (`phase` is its state without `ready`, `draining` and `unhealthy`
told apart, protected is the work whose lease runs at the row's time), and so
does `LocalLifecycle`.

`LocalLifecycle` is the rehearsal on one machine: the SQLite row, the loop of
`deploy/lifecycle.py` that looks at the host and then reconciles it in one
transaction, and the host with its one thread. The commands `start` and `stop` are
given inside the transaction; a commit may be lost after the command was given.
Times are ages, cut off where the code stops telling them apart, so that a
behaviour may be as long as it likes. `BootedOnce`: a generation is booted once
however often its start is repeated; `OverMeansDown`: a row that may be started
over is of a host that is down.

Observed: a command is recorded before its thread runs, and a halt that raises
leaves the host "unknown" and the row failed for good. Not modelled: the refusal
of a clock that runs backwards, and the `generation` argument of `begin_work`.

### WorkLeases

One Agent process and its jobs (begin, finish, refresh) under one lock. Each call
of the lifecycle is an await, between which handlers run, requests are cancelled,
leases expire and the host may stop. `PendingWorkIsProtected`: the last lease under
a pending Task is never given up by a process that has its authority;
`TokensHaveRequests`: no token of a finished request stays in the books;
`LeasesEnd`: when requests and work have ended, no lease of the process is kept
alive.

Observed: a pending token that died is kept until its next renewal is refused; the
fallback `begin_work` in `_refresh` is never reached, because the callers hand a
token first; an abandoned begin whose release is refused gives the authority up;
64 jobs bound what 16 requests, 16 finishes, 20 streams and the refresh can ask.

### WakeService, HostReady, RequestLimits

The Agent's doors. `WakeService`: Lambda environments that read a rate row, write
it on condition, wake the host and notify the controller, with clocks that lag,
lost replies and rows that DynamoDB's expiry removed. `RateHolds`: no lane admits
more than its limit in a minute; `AnsweredIsDispatched`: whoever is told that the
host starts can rely on the controller having been told.

`HostReady`: a probe asks with its nonce; the host process runs its checks between
two reads of the row, one flight at a time, and answers late or not at all; replies
may be old ones. `ReadySince`: a verdict "ready" is true of a time after the
question, for that generation; `OneFlight`.

`RequestLimits`: the ASGI limits and the windows per browser, for requests, streams
and stops that end in any of their ways. `SlotsAreHeld`: the slots counted are the
slots held, and no limit is passed. `DoorsHold` of `MCAgent` is the conjunction of
this with `RateHolds` and `AnsweredIsDispatched`.

### HostAssembly

One host: its callers, the verification each of them began, the jobs of
`AsyncLifecycleWork`, the operations in the three `BoundedIO`s, and the three
tasks that close it: the lifespan, `host_cleanup()`, and the drain that whichever
comes first creates and both await behind a shield. A way to close stands at a
stage (`checks`, `provider`, `jobs`, `tokens`, `work io`, `admission`, ...);
`Enters` does what the code does before the stage's await, `Awaits` is that await,
`Proceed` follows it, and `CancelCloser` takes the way where a `CancelledError`
raised there would: into the next `finally`, or, the drain, to its beginning. A
thread's operation ends when it likes (`Ends`), whether or not somebody waits for
it. `OneVerification`: one verification at a time, and work only for a caller whose
own succeeded; `SDKIsLast`; `NothingIsLeft`: whoever closes the host and is not
cancelled himself leaves nothing of it running, whatever becomes of the others that
close it. `HostHolds` of `MCHost` is the conjunction of these with
`ReadySince` and `OneFlight` and the properties of the next three modules. A cancelled shutdown may leave threads of the checks
running; they do not use the SDK client. Left out is the job with which
`AsyncLifecycleWork` cleans up after a caller that was cancelled while it began
(`_abandoned_begin`).

### ReleaseArtifact, ServiceProcesses, LambdaPackage

`ReleaseArtifact`: processes build from the checkout and install from a release, one
file at a time into a staged copy, and publish it by a rename that fails when the
output has appeared; the owner edits, damages and removes meanwhile. `AppearsWhole`,
`AcceptedWasBuilt`: `verify()` never accepts a mixture of two releases.

`ServiceProcesses`: the three context managers around child processes: a release looks
at each port just before it starts the service, an evaluation and a capacity run look
at all of them and then build; a child whose port is taken exits. Every start may fail,
every child crash, disobey `terminate` or outlive its last wait. `NothingLeft`,
`NeverTwice`. Observed, and exempt in `NothingLeft`: an evaluation starts its services
in one comprehension before its `try` (`eval/services.py:152-163`), so when a later
`Popen` raises the earlier services run on; and a killed process that outlives its
wait ends the `finally` there and then, which in a release and a capacity run leaves
the rest untold to stop.

`LambdaPackage`: `build()` over the locked wheels, whose names, digests, `RECORD` and
requirements are whatever a directory holds, and the archive under its final name.
`ExtractsWhole`: a trusted archive has no two paths, nor directories, that a
case-insensitive file system takes for one, nor a file where another needs a
directory. `HasWhatItNeeds`: it holds the sources, and the lock is exactly what they
need. Observed: a failed write leaves a file under the final name, and every later
build of that name refuses.

### ShopperLink

One browser with its two credentials, the Panels of its tabs, the Agent's records
and Sessions, the Storefront's Shoppers. A redemption has three steps, an
ownership check four, a model call is checked again before it publishes. Entries
that the code drops after a time may go at any time; either service may restart.
`SessionsOfOneShopper`, `LossIsRecovered` (a link that meets one lost call or expired
token, while both services keep what they know, still succeeds at its second
attempt), `ServedForItsOwner`, `PublishedForItsOwner`.

### CopilotTurn

The Panels of a browser's tabs, the posts they have in flight, the event streams,
the Sessions (what they decide is left open, `SessionTask` has it) and the ledger of
each Bridge. A tab may be reloaded at any point, a stream may break between any two
events, a request or its reply may be lost, a Session forgotten, a tab may take
over. `ExecutedOnce`, `GivenUpIsSilent`, `PanelAgrees`; `TakeoverResumes`,
`StopIsFinal` and `FreshFromTheStart` do not hold, see
[disagreements](#disagreements).

Abstractions: a Bridge executes an Action when it receives it (`ActionLedger` has the
await before a submit); a `cancel_task` reaches the Bridge, while the code's
(`panel/src/main.ts:269`) is lost on a frame between two documents; the authentication
handoff is a question like others. Observed: a Retry whose POST fails leaves only
Stop; an Action in flight to a tab that has lost the lease is still executed.

### CatalogueTurn, CatalogueEvaluation

`CatalogueTurn`: the loop of a turn. A model decides to clarify, to investigate, to
act, or to recommend with or without prose; products are read through the
conditional cache; the chosen ones are read again at the end, and prose whose
evidence changed is advised anew or dropped; a failed turn is retried with the
budget it has. The owner imports at any time. `ProseIsFresh`, `CardsHold`,
`CallsAreBounded`. `CatalogueEvaluation` is the ranking of a snapshot:
`ExactIsVerified`, `AlternativesAreClosest`, `StyledOrCheapest`, against reference
definitions that do not mention the code's steps. Observed: styling with the
newest sort lists alternatives oldest first.

### IntentMemory

A request over its questions. The model's drafts are arbitrary records of fields
set, fields named as missing and fields revised; a draft that is not well formed, or
cannot be carried out after it was completed from the request it clarifies, is
repaired once. `ToldIsKept`, `RequirementsAreNotDropped`, `OpenedExists`; `told`
and `followed` are history.

Observed: a clarification that names no field is not merged with its request; a
lowest price above the highest is refused only after the model was asked; advice
that needs a clarification goes on; the priority of questions differs between
`plan_intent` and the pipeline. Drafts of schema 9 are modelled; a Retry of a paused
task, which keeps the memory, is left out.

### FindTask, OrdersTask

The two tasks whose plans depend most on the page, each with the page, the Bridge's
execution of one Action, the acceptance of its result and a Shopper who uses the
same page. `FindTask`: open the filtered URL, and when the list is not what was
asked, set the visible filters one by one and submit. `ShownIsAsked`,
`UndisturbedFinds`. `OrdersTask`: open the order history, hand the page over for a
login, continue, spotlight the newest order. Between an Action's effect and its
Snapshot the page settles (`settling`, then `Report`), and the Shopper may move on
meanwhile. `DoneHasSeenOrders`: "Opened order history" is said on the order history,
or after its newest order was highlighted there.

Observed in `FindTask`: the fallback does not look at the page's category, and
neither it nor the failure branch looks at `step_count`, so eight filters make ten
steps where `handoff.md:1185` says up to eight. In `OrdersTask` an answer to "try
again" is taken to be understood as the same request.

### CatalogueSearch

`searchProducts`: SQL filters, ranking, pages that shrink until the response fits,
a cursor bound to query and revision; imports in between. `ListIsWhole`,
`CountIsVerified`. Observed: a sort other than relevance ignores the words.

### HoldoutEvaluation

The paid and the local run on held-out records, the recovery of a local run that
never started, the report; files and locks as they are on disk, processes killed at
any point and commands started again by hand. `NothingReplayed`,
`SpendingIsCovered`. Assumed: a charge is at most its reservation. Observed:
`run.json` is read, changed and written under two different locks; a report may read
a half-written `offline.json`; another `--output` predicts again; a crash in the
recovery leaves its directory for good.

## Runs

Each configuration gives the constants of an `MC` module (`LeasedWork` those of
`WorkLeases` itself) and replaces nothing.
"States" are distinct states. Deadlock is not checked: every module has bounds on
clocks and counters at which it may stop.

`MCBrowser`, `MCProgress`, `MCAgent`, `MCHost` and `MCUnderstanding` hold several
modules that share no state. A behaviour of theirs is a behaviour of one of them, chosen by
`which` at the start, while the others rest; so the states of such a run are the
sum, not the product, of its parts, and a property `which = "x" => ...` is that of
module x under its own bounds. `MCUnderstanding` extends `MCHost`
and `MCHoldout`, whose `HostSpec` and `HoldoutSpec` are specifications by themselves, the
ones `HostStands` and `RecordsAreSpentOnce` are about. `MCGuardedCart` explores one module under two
bounds in the same way.

| run | modules | properties | states |
| --- | --- | --- | --- |
| `Cart` | `GuardedCart` | `RevisionNamesContents`, `UndoBelongsToItsFirstEdit`, `UndoTouchesOneLine`, `MutatesWhatWasConfirmed` | 375 k |
| `Browser` | `ActionLedger`, `ShopperLink` | `EffectsInOrder`, `SupersededStaysSilent`, `CancelledStaysSilent`; `LinksHold`, `OwnersAreServed` | 768 k |
| `Lifecycle` | `DynamoLifecycle` | `RowLoads`, `RecoverableMeansDown`, `CallsAreSerial`, `NoStopUnderLiveWork`, `ImplementsHostPower` | 1.2 M |
| `Progress` | `InferenceGate`, `LocalLifecycle`, `DynamoLifecycle`, `FindTask`, `ModelProviders` | `EverythingEnds`, `SpendingHolds`, `BootedOnce`, `ImplementsHostPower`, `FindHolds`, `ProvidersHold` | 355 k |
| `LeasedWork` | `WorkLeases` | `LeasesHold`, `LeasesEnd` | 279 k |
| `Agent` | `SessionTask`, `OrdersTask`, `WakeService`, `RequestLimits` | `ActionsAreCurrent`, `OnlyConfirmed`, `HandedBack`, `ActsOnWhatItSaw`; `OrdersWereSeen` (`DoneHasSeenOrders`); `DoorsHold` | 1.4 M |
| `InvitedAccess` | `DynamoInvitations` | `Implements`, `SessionsAreCounted`, `AnswersHold` | 717 k |
| `Understanding` | `CatalogueTurn`, `IntentMemory`, `CatalogueSearch`, `CatalogueEvaluation`; by `MCHoldout`: `HoldoutEvaluation`; by `MCHost`: `HostReady`, `HostAssembly`, `ReleaseArtifact`, `ServiceProcesses`, `LambdaPackage` | `CardsHold`, `RequestIsKept`, `ListIsWhole`, `SuggestionsHold`; `NothingReplayed`; `HostHolds` | 1.3 M |
| `CopilotTabs` | `CopilotTurn` | `ExecutedOnce`, `GivenUpIsSilent`, `PanelAgrees` | 2.1 M |
| `LedgerNavigation`, `TaskMixed`, `TakenOver` | `ActionLedger`, `SessionTask`, `CopilotTurn` | `NavigationAnswered`, `HandsBack`, `TakeoverResumes`, each violated | |

Why these bounds suffice for the cases that matter:

* *GuardedCart.* Two lines distinguish "this line" from "another"; two pages give
  a stale one; three edits coalesce twice, the fourth intervenes. 99 units of a
  line become 2, the 10 s and 60 s windows become 1 or 2 ticks, so that expiry
  lies before, at and after every event.
* *DynamoLifecycle.* Two executors race for a claim; two generations let a call of
  the first meet the second. The clock covers a start, its deadline, its grace,
  an idle drain and a stop. One lease at a time suffices for
  `NoStopUnderLiveWork`, which is about one worker; several workers and the limit
  on leases are covered by the proof.
* *ActionLedger.* Three tasks give a superseded, an active and a new one; three
  deliveries are the least with which a superseded task could act again, and with
  which a text can be typed, its task superseded and its form submitted; a
  list of two completed ids is already shorter than the Actions delivered.
* *ShopperLink.* Two tabs race for a link; each side's identity may be replaced
  once; a second Session shows what becomes of the first. Two faults: one that
  breaks the link and one that meets the repair.
* *SessionTask.* Two calls in flight can finish in either order; a confirmation
  lives for one tick, so it can be answered before and after. The step limit
  of 8 becomes 3 or 4 where that keeps the space small; `TaskMixed` uses 8.
* *InferenceGate.* Two units are reserved of three: a second call fits only when
  the first turned out to cost nothing, the case where forgetting or refunding
  matters. One permit loses no interleaving of the ledger: a cancelled request
  gives its permit back while its thread runs on.
* *DynamoInvitations.* Two operations race on one row, one browser or two; of the
  two kinds of invitation one ends at the tick. The proof covers every number.
* *LocalLifecycle.* Two generations, one lost commit, one restart; ages instead of
  times, so that no behaviour is cut short.
* *WorkLeases.* Two requests and the refresh compete for the lock, the second
  may take over what the first left pending; one failed call or lost reply.
* *WakeService*: two environments and three requests against a limit of two, two
  minutes. *HostReady*: two probes, one check that comes and goes, two
  generations. *RequestLimits*: two requests of two browsers meet every limit.
* *HostAssembly.* Two callers, one verification or operation each; one operation fills
  a pool; one cancellation meets every await of a shutdown, or one fault (authority
  or bindings lost) every await of a caller, not both in one behaviour: the constraint
  `Bounded`, which limits what TLC explores and not what the proofs cover.
* *ReleaseArtifact.* Two workers, two places and two files of two contents give a
  mixture; two touches, one on each side of a copy. *ServiceProcesses*: two owners, a
  release against one of another kind (`Bounded` again), two services, one fault. *LambdaPackage*: three
  distributions, two roots, wheels that collide in each way, two builds. The proofs
  cover every number.
* *ModelProviders.* Two calls, two attempts each; two units are set aside for a call
  of a credit of three, so that a second one fits only if the first cost less.
* *CopilotTurn.* Two tabs, one task of three events, one user command, one reload
  and one fault, in every order. `TakenOver` needs a fourth event.
* *CatalogueTurn.* Two products, read in two batches, one import between any two
  steps, one message and one retry. *IntentMemory*: two categories of which one
  is sold, two questions, prices that may cross. *FindTask*: one filter of each
  kind of control, one interference. *OrdersTask*: three. *CatalogueSearch*: up to
  four products, pages of two, one import. *CatalogueEvaluation*: every documented
  set of facts of four products and every request. *HoldoutEvaluation*: two
  processes, two records, room for one reservation and part of another.

Liveness is stated twice, under fairness that the code justifies:

* `WorkLeases!Fairness`: the event loop runs what may run, the maintenance loop
  comes round, the lock is handed on to whoever waits (`SF` for the two jobs of a
  request, because the lock of `asyncio` is fair), and a lease nobody renews runs
  out. Nothing is assumed of the lifecycle's answers.
* `MCProgress!Fair`, one formula for an action of each of its modules (a behaviour
  belongs to one of them). *InferenceGate*: the wait for a permit is timed,
  authorization and provider calls answer or time out, threads run; that a waiting
  request gets the permit is not assumed. *DynamoLifecycle*: the clock advances; the
  tick is scheduled every minute with at most one at a time
  (`deploy/observation.py:98-113`), so observations begin and end, and some
  observation meets no other write between its token and its verdict (`SF`): wakes
  are limited to ten a minute and an observation takes seconds. Nothing is assumed
  of executors, EC2 or the instance; they may be silent for ever. *LocalLifecycle*:
  the loop ticks and the host's thread runs. *FindTask*: the Bridge executes what it
  has and its result is accepted.


## Proofs

TLAPS checks, for every value of the constants satisfying the named `ASSUME`s (in
each module: bounds are natural numbers, finite sets are finite, `None` is not a
proper value; the theorems about modules that `MCProgress` instantiate state the same as their premise: `LocalConstants`, `FindConstants`,
`ProvidersConstants`, `LimitsConstants`, `WakeConstants`; those of `WorkLeases` on leases
assume that the requests do not outnumber the jobs; `HostAssumption` and
`NilAssumption` of `MCHost`, that a caller is none of the three closers of a host, that
the roots of a package are among the distributions of its lock, that there is a
generation, and that `Nil` is no probe, generation, verdict or state of a
verification; `HoldoutAssumption`
of `MCHoldout`, that there are finitely many records and `Nobody` and the mark of a stale
lock are no processes; those of `ShopperLink` that a
record has room for two challenges and a Shopper for two tickets, of four in the code,
`LinkAssumption`):

| module | theorems |
| --- | --- |
| `GuardedCartProofs` | `TypeCorrect`, `UndoIsLocal`, `RevisionIdentifiesContents`, `ConfirmedMutationsOnly`, `UndoIsFirst` |
| `DynamoLifecycleProofs` | `TypeCorrect`, `RowAlwaysLoads`, `NoStopUnderWork`, `RecoverableIsDown`, `SerialCalls`, `KeepsHostPower` |
| `ActionLedgerProofs` | `TypeCorrect`, `EffectsAreOrdered`, `SupersededIsSilent`, `CancelledIsSilent`; of what `MCBrowser` runs beside it, `ShopperLink`: `LinksStand`, `OwnersStand` |
| `SessionTaskProofs` | `TypeCorrect`, `ConfirmedClicksOnly`, `CurrentActionsOnly`, `ActsOnPagesSeen`; of the two doors `MCAgent` runs beside it, `RequestLimits` and `WakeService`: `DoorsStand`; of its order history, `OrdersTask`: `OrdersAreOpened` |
| `DynamoInvitationsProofs` | `TypeCorrect`, `ImplementsStore`, `RedeemedOnce`, `GoodGrantsStay`, `AnswersAreGood`, `SessionsCounted` |
| `InferenceGateProofs` | `TypeCorrect`, `SpendingIsBounded`, `PlacesAreReturned`, `AnswersAreAccounted`, `CallsAreReserved`, `ReservationsStand`; of what `MCProgress` runs beside it, `LocalLifecycle`: `LocalTypeCorrect`, `BootsOnce`, `KeepsHostPower`; `FindTask`: `RequestsAreFound`; `ModelProviders`: `AdaptersHold`; of `HoldoutEvaluation`, by `MCHoldout`: `RecordsAreSpentOnce` |
| `WorkLeasesProofs` | `TypeCorrect`, `PendingIsProtected`, `LeasesAreHeld`; of `HostAssembly`: `HostIsClosed`; of `ServiceProcesses`: `ServicesEnd`; of `ReleaseArtifact`: `AcceptedIsBuilt`; of `LambdaPackage`: `PackageIsWhole`; of `HostReady`: `ReadyIsRight`; of `MCHost`: `HostStands` |
| `CopilotTurnProofs` | `TypeCorrect`, `ExecutesOnce`, `GivenUpStaysSilent`, `PanelFollows` |

Each rests on an inductive invariant, with one lemma per action:

* *GuardedCart:* `TypeOK` and `Inv == CatalogueInv /\ PageInv /\ TokenInv`.
  `RevisionNamesContents` alone is not inductive: a page with an older revision
  must be known to stay behind, and a catalogue may have changed that the cart
  has not taken in. `PageInv` therefore says of every page, and `TokenInv` of
  every registered confirmation, `SeenAt`: its revision is at most the cart's,
  and if it is the cart's then so are the lines and the terms it was made from.
  `UndoIsLocal` needs no more than `TypeOK`; `UndoIsFirst` needs `LoggedUndo`: the
  edit an undo record belongs to is among the operations, so no later edit is
  logged under its id.
* *DynamoLifecycle:* `Inv` joins `TypeOK` and `RowLoads` with `HeldInv` (a
  worker's running lease is in the row), `ReceiptInv` and `LateInv` (a receipt,
  or a call whose executor is gone, is the row's claimed command's), `CallInv`
  (what has not been called yet), `WatchInv` (a current observation of a stopped
  host still holds unless a command is at work) and `DownInv` (a recoverable
  row's host is down). The verdict that a host may
  be woken again depends on an observation made some time before, which is why
  the observers' knowledge is in the invariant. `KeepsHostPower` is the refinement
  of `HostPower`: a write that decides on an old reading drops only leases that have
  run out at the row's time as well, so it maps to one step of `HostPower` or to a
  stutter; that a row on its way down holds no lease is `RowLoads`.
* *ActionLedger:* `Numbered`, `EffectsInOrder`, `Known`, `Contiguous`, `RunningBegun`
  and `SupersededStaysSilent`. That ids trimmed from the list do no harm is `Numbered`:
  the highest sequence number of a task bounds all its effects. What a late submit
  belongs to is `RunningBegun`: whatever the document executes was begun in it, and by
  `SupersededStaysSilent` itself that was before any other task began.
* *ShopperLink:* `LinkTypes` adds to the types what a tab's link and a request hold by
  the time they need it. `SessionsOfOneShopper` is inductive with it: a record changes
  its Shopper only together with its list. `LossIsRecovered` is about many steps of
  many tabs, and needs `Fit`, which holds while no identifier was dropped and at most
  one fault occurred (`LinkCalm`): the Agent has one record and the Storefront one
  Shopper, the browser's (`Identities`), only the tab that holds the lock is under way
  (`TabsFit`) and what it counts on, its challenge, ticket and redemption, is its own
  (`HolderFit`, `RedeemingFit`). Only a fault makes it try again or lose what it counts
  on, and a second attempt loses nothing (`Retry`); what an abandoned attempt leaves
  behind is at most one challenge and one ticket, so the second finds room
  (`LeftOver`). `OwnersStand` adds `Vouched`: what is past the Storefront's check was
  known to it.
* *SessionTask:* an Action's id is its position in the log (`LogInv`); a task's step
  is the number of its Actions, and its pending Action is its latest in the log and
  comes of the latest call (`TaskInv`, `PendingInv`); what is left of a plan is the
  click behind the entry that is pending, with the next number (`LeftInv`); an
  offer is what its question asks and no click has used it (`OfferInv`); a call
  that has been checked and is still awaited saw the present Snapshot
  (`CallsInv`). The same invariant holds with and without retrieval, although the
  two check the page at different points. `ActsOnPagesSeen` adds that no call was
  begun after more Actions than there are (`AfterInv`), so that a new Action can
  only come of the latest call.
* *DynamoInvitations:* `LeftInv` says that what a subject has left was over when
  it left; so a transaction conditioned on a later clock reading cannot bind it
  again, and `Fresh` follows: a grant that is still what an operation read has
  not been written since, so its clock readings are good enough for the
  one-transaction store. The refinement is the identity on the tables, each
  commit mapping to one transaction and every other step to a stutter.
  `SessionsCounted` rests on `CountInv`: every Session charged is one a caller was
  told to create, one a caller is still to be told of, or wasted.
* *InferenceGate:* a request past its reservation owns its attempt's row, alone, and
  that row is unsettled until the request's thread has accounted for it; a thread
  works for a request that waits for it or was cancelled; a call is made once, of an
  attempt whose row is stored. The counters of `NothingLeaks` are cardinalities of the
  requests at each place, so each move of a request changes them by one.
  `SpendingIsBounded` adds `SpentInv`: what was charged for an attempt, ever, is
  covered by its row, unless a call cost more than was reserved for it; the sums of
  charges and of rows are then compared attempt by attempt. That a sum over a finite
  set is what it is over one member less, and that sums keep an order, is proved by
  the least counterexample among the sizes of its subsets (`NatLessThanWellFounded`),
  since the induction theorems of the library cannot be instantiated.
* *WorkLeases:* `TokenInv` (whose each token is), `JobInv` (what the job under the
  lock knows is still so, whichever handlers ran during its await), `LeaseInv`,
  `ReleaseInv` and `DropInv` (what is being given back, or was lost with the
  authority, is no pending Task's last lease), `BusyInv` and `RequestInv` (every
  token in the books has a request that will finish it or a job that does).
  `LeasesAreHeld` needs that the queue of jobs has room for a finish of each
  request, which is why it assumes so.
* *LocalLifecycle:* `DownInv` (a host that is not up protects nothing), `QueueInv` (a
  generation is halted once and after its boot; one that may still be started has
  not been told to stop, even where the commit of the order to stop was lost),
  `StoppedInv` (what stands stopped, is *seen* stopped by the tick under way, or may
  be started over has stopped for good) and `BootInv`. The tick's observation is in
  the invariant because the tick acts on it after others have moved. `KeepsHostPower`
  maps each transaction to one step of `HostPower` or a stutter.
* *FindTask:* `ShownInv`, that what is shown is what was asked, is inductive with the
  types: the result is compared with the request at the moment it is accepted. That a
  request left alone is carried out needs `UndisturbedInv`: the page has no filter
  set but those asked for (`FormInv`), and the Action in flight is still about the
  form as it stands, before, while and after the Bridge performs it (`ActionInv`).
* *ModelProviders:* `RunsInv` places each call (its thread, the lock, who is still
  paying), `PostsInv` numbers what it posted and says that it rested and was allowed
  then, `RecordsInv` ties its place to the one record it leaves (a record is written
  on every way out), and `ChargesInv` its place to what it was charged. Between the
  check of a key's credit and the answer a paid call holds the lock, so only one call
  is charged at a time and what the others cost is already in the total the check
  read (`KeyInv`); the budget counts for each call what was reserved until it is
  known what was charged (`BudgetInv`: a sum over all calls, so overlapping
  calls cannot spend the same credit). `CreditHolds` follows, unless a call
  was abandoned while it could still be charged or one cost more than its bound.
* *OrdersTask:* a task under way navigates with the order history as its target, or
  spotlights on a rendering of it (`PlannedInv`). Renderings are numbered, so a Spotlight
  that found its element found it on the page it was planned on, whatever the Shopper
  opened since, and what is reported of the latest rendering is true (`ReportInv`). The
  page may have changed again by the time the Spotlight is reported; but it was the
  pending Action that settled (`SettlingInv`), so its success means it was shown.
* *HoldoutEvaluation:* who runs a command has its lock and remembers what is on disk
  (`OwnedInv`), so what is not written down was not attempted (`AttemptsInv`) and an
  attempt under way is written as in flight and, until it is made, cost nothing
  (`UnderWayInv`); a recovery is one process's and of records nobody attempted
  (`RecoveryInv`). `CoveredInv` compares what each record cost with what the ledger
  counts for it, and the sum of that with the allowance.
* *RequestLimits:* `SlotsAreHeld` with the types of the requests is inductive; the
  argument is about cardinalities of sets that lose or gain one member.
* *WakeService:* what a lane has admitted in the minute of its row is counted there
  and nothing was admitted in a later minute (`RateOf`); a lane that lost its row has
  its marker, and is closed. A call that is about to write has a row that had room when
  it was read and was not younger than its own clock (`Roomy`): if that row still
  stands, so does what it says. Minutes are quotients, so the order of clocks carries
  over to them (`MinutesOrdered`).
* *HostAssembly:* `StageInv` says that whoever was not cancelled has closed every
  stage it has passed, and `EnteredInv` where it can stand. What is closed stays so
  (`EnterCloses`): a shut `BoundedIO` takes no more operations, whoever submits them,
  and a provider that refuses is never verified again. `DrainInv` follows a drain
  that was cancelled until it begins again, which it does before it comes to the SDK
  client; so one that has come there has closed everything, and `SDKIsLast` and
  `NothingIsLeft` follow. A host constructed in part is covered by `IdleInv`: what was
  not constructed does nothing. `HostIsClosed` states all of `AssemblyHolds`, which
  `HostHolds` contains.
* *ServiceProcesses:* nothing lives that a closing owner has not still to stop
  (`Stopped`), which every way into closing establishes (`CloseSettles`), and nothing
  is started that was started before (`Started`). *ReleaseArtifact*: every
  `release.json` in a place or a staged copy was written by a build (`Written`).
  *LambdaPackage*: what was followed from the roots is what every closed set of
  distributions holds (`FollowInv`), so when all of the lock was reached the lock is
  the least such set; each path is there once (`FilesInv`).
* *HostReady:* `ReadySince` speaks of a verdict, which is made of a reply, which was made
  of a task, which was made of what was true when it looked. So `RepliesInv` says that a
  reply that says ready, shown to the probe it is for while that is open, is right;
  `TasksInv` that a task that has found nothing wrong has found only what its probe has
  seen; and `WitnessInv` that an open probe sees what is true now. An older reply has
  another nonce, and a task is of a probe that asks about the generation the process read
  (`ProbesInv`), also when the row has moved on: then its second reading says so. Only
  the flight's task runs, which is `OneFlight`. `HostStands` puts the five
  invariants together: a behaviour of `MCHost` is one of its modules', so `HostHolds`
  holds of it.
* *CopilotTurn:* `Inv` says that each tab's ledger, panel and messages are about
  events of Sessions that exist (`SessionsInv`, `KnownInv`, `TabInv`, `CreatedInv`).
  `OnceInv` then shows why no Action is executed twice, even by two tabs whose
  ledgers know nothing of each other: an event is on the way to one tab only, and
  only to one whose cursor has not passed it (`WiresInv`, `FreshInv`, `ApartInv`),
  so what keeps execution single across tabs is what the tabs were told, not the
  ledgers. `SilentInv` follows a task that was given up into the Bridge's list of
  retired tasks (`RetiredInv`), whatever was still on its way (`LateInv`).
  `PanelAgrees` speaks only of tabs where all has arrived, and says of how it got
  there nothing that could be carried from step to step; `AgreeInv` does. `Agrees`:
  what a Panel shows is what the events up to its cursor say (`After`, `Offers`), and
  of the later ones those already handed to its stream are on the wire, except
  Actions that are not for this tab; `Waited`: a Panel that submits or answers has the
  request under way, or the `task_started` that ends its wait comes; `PostsInv`: a
  request a Panel still listens for was asked of the Session it follows. When
  nothing is on the way the cursor is at the end of the log, and what the log says at
  its end is what the Session asks (`SessionOK`).

Only model-checked:

* every module that the table does not name;
* `HandsBack`, which is no theorem of `SessionTask`: `TaskMixed` violates it where a
  cart task turns into a guarded one, and the other configurations satisfy it;
* the liveness properties (`EverythingEnds`, `LeasesEnd`): the prover handles
  neither fairness nor `ENABLED`.

No module uses a `RECURSIVE` operator.

## Disagreements

Met while modelling; three are runs that TLC ends with the counterexample, and
each quotes the line it contradicts in `PROJECT.json`.

* `LedgerNavigation`: a stopped task's navigation that is refused removes the
  pending-navigation key whoever's it is (`bridge/src/runtime.ts:278`), so its
  successor's result is never posted and the new task waits for ever. Removing
  the key only when it holds the refused Action makes the property hold.
* `TaskMixed`: `cart_operation` outlives the interpretation that set it
  (`agent/task_results.py:70`), so a guarded click's result can be read as a cart
  step's, and the Shopper is offered Retry where the README promises to hand
  control back.
* `TakenOver`: a takeover hands a running task to a tab whose Bridge ledger is
  empty and accepts only sequence number 1, so the task's later Actions are refused
  there and the task does not resume.

The following are definitions of the modules that TLC violates too (`NoLateEffects`,
`StopIsFinal`, `AnsweredOnce`, `FreshFromTheStart`), or exceptions that a checked
property has to make; no run checks them:

* A text's form is submitted after the page has settled, without another look at the
  ledger (`bridge/src/actions.ts:319-331`): a Stop or a newer task's Action that arrives
  meanwhile does not hold it back (`NoLateEffects`; `handoff.md:1185`: "Stop and
  task/action IDs prevent late, stale, or duplicate effects"). The properties that are
  checked allow this one effect and no other.
* A Storefront that merely fails to confirm the Shopper (`agent/storefront_service.py:119`,
  any status but 200) ends an interpretation with `SessionNotFound`, which
  `agent/app.py:404` swallows: the task stays "interpreting" with no call, no
  reconciliation and no timeout until its page is loaded again. It is the exception
  `InterpretationsEnd` makes (`dropped`).
* A Spotlight is reported with the page as it is after settling
  (`bridge/src/actions.ts:351-375`): a Shopper who moves on meanwhile, within the
  Storefront's client-side routes, is told of an opened order history on another page
  when the task had been continued after a login, as its `target_url` is cleared and no
  longer looked at (`agent/task_results.py:330`). `DoneHasSeenOrders` only promises
  that the order was highlighted before.

* A document that is busy when it starts answers a navigation accepted while it
  settles as if its predecessor had executed it (`bridge/src/runtime.ts:150`), and
  again if it is refused later (`AnsweredOnce`).
* A Stop pressed before the Panel has seen `task_started` cancels nothing in the
  Bridge (`panel/src/panel.ts:857`): Actions that are streamed before the server has
  the Stop are executed after it (`StopIsFinal`).
* A fresh Session is followed from the event cursor another tab wrote
  (`panel/src/panel.ts:311`), so its first events may be skipped
  (`FreshFromTheStart`).
* `awaiting_newest_order_spotlight` outlives a Spotlight that failed
  (`agent/task_results.py:420`): after "Try again" the task may be reported done
  without the order being highlighted (`NewestIsShown` of `OrdersTask`; the test
  `agent/tests/test_real_task.py:1086` takes the highlighting path only).
* `FindTask` with eight filters takes ten steps (`handoff.md:1185`: up to eight).

## What is not modelled

* Text: what models make of words, parsing and repairing their answers, wording,
  prices and vocabulary. In the models an intent is any intent.
* Pages: rendering, the contents of Snapshots, Spotlight overlays, CSS. Their
  content is the environment's choice wherever a decision depends on it.
* Adapters without state: embeddings, speech, probes, signatures, and of the model
  providers the shapes of their requests.
* The capacity and the idle expiry of the Session registry are a Session that is
  forgotten at any time (`CopilotTurn`).
* The scripted provider and the `/__test` routes, which only evaluation builds reach.
* Scripts: cloud deployment, the other evaluation drivers, notebooks. They run once,
  sequentially, and print. Of releases and packages: sizes and their limits, symbolic
  links, Windows process trees.

## Plan

Done: the cart, both lifecycles and their common promise, the Bridge alone and under
the Panels of two tabs with the event stream, the Session, the inference ledger,
both invitation stores, Shopper linking, work leases, the wake and request limits,
readiness, the host's assembly and its closing, releases, services and packages, the model providers, the turn on the catalogue, questions of a request, search, filters and
orders, the held-out evaluation; the proofs above.

Next: the cart composed with `CopilotTurn`; the registry's capacity.
