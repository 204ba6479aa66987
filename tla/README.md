# A TLA+ model of datafoundry_serviceusage

datafoundry_serviceusage sells plans (project quotas, volumes, backing service
instances) by the month. A user's request makes an order; a background
goroutine, the maintainer, renews every consuming order each month through an
external recharge service; cancelling, switching plans, or a balance that stays
insufficient ends the order. Orders and what was charged for them are kept in
two MySQL tables. The service runs one goroutine per request beside the
maintainer, and no lock spans two calls of any of them, so most of what can go
wrong lies between two calls.

## Inventory

| part | code | state it keeps | operations | what makes it correct |
|---|---|---|---|---|
| order and history tables | `usage/usage.go`, `_db/initdb_v001.sql` | `DF_PURCHASE_ORDER`, `DF_CONSUMING_HISTORY` | `CreateOrder`, `IncreaseOrderRenewalFails`, `RenewOrder`, `EndOrder`, queries | the history is the ledger of the order row; an order is charged one cycle at a time; an ended order stays ended |
| billing handlers | `api/usage.go`, `api/maintain.go` | copies of rows in goroutines | `CreateOrder`, `ModifyOrder`, `createOrder`, `endOrder`, `TryToRenewConsumingOrders` | nothing is recorded that was not paid; nothing is paid twice; one order, one resource; a switch ends what it replaces |
| resource platform calls | `api/remote.go` | none here; volumes, instances and quotas there | create, destroy, change quota | a resource lives as long as its order |
| recharge calls | `api/remote.go` `makePayment` | none here; balances there | deduct | one deduction for each consume |
| renewal timing and warnings | `api/maintain.go`, `usage/usage.go` | warning hours in `DF_ITEM_STAT` | due query, batch of 32, warning, end after 7 days | every due order is tried; at most one warning a day |
| calendar and credit | `usage/usage.go` `extendTime`, `api/maintain.go` `calRemainingMoney` | none | pure | successive deadlines fall on the start day or the month's last; the credit of a switch is what was paid for the days left |
| request timeout | `api/timeout.go` | `timedOut`, `wroteHeader` under a mutex; two goroutines a request | `Write`, `WriteHeader`, timer | one answer for each request; no goroutine stays |
| service start and upgrade | `main.go`, `api/params.go`, `usage/upgrade*.go`, `statistics/` | `DF_ITEM_STAT` (version, phase), `dbPhase`, the published database handle | connect, create tables, set-if, upgrade, ping | nobody serves on old tables; one handle open; every instance serves in the end |
| destroying a backing service instance | `api/remote.go` `destroyBSI`, `openshift/openshift.go` `doWatch` | watch goroutines and their channels; bindings on the platform | get, unbind, watch, delete twice, retry | no delete over bindings that were not asked to go; the call and its watches end |
| paging | `usage/usage.go`, `api/params.go` | none | offset, limit | the page lies inside the list; a walk misses nothing |
| the OpenShift token | `openshift/openshift.go` | bearer token, an atomic value | request, replace every 3 hours | - |
| parameters, notifications, errors, plans and users | the rest of `api/` | none | I/O | - |

How they interact: a request handler and the maintainer both go through
`createOrder` and `endOrder`, which call the platform, the recharge service and
the tables one after another. Shared state is only in the tables and in the
external services; a goroutine carries copies of rows (`*PurchaseOrder`) from
one call to the next. The maintainer reads a batch of orders once and works
through it with the copies of that query.

A process starts by connecting to the database, creating or upgrading its
tables under two rows of `DF_ITEM_STAT`, and starting the maintainer; only then
does it listen. Each request then has two goroutines, the server's and the
handler's, which goes on after a timeout. Several instances may run on one
database while one release replaces another.

What is hard: `RenewOrder` and `EndOrder` decide on a snapshot and write later;
payment comes before its record and cannot be rolled back; resources are found
by name; each of four or five calls of a handler may fail or lose its answer;
the process may die between any two. `PROJECT.json` lists each such place
(`hazards`) with the properties that watch it.

## Modules

`OrderLife` - what package usage promises of one order with every operation
atomic: it is placed, charged 1, 2, 3, ... without gaps, and ended once.

`OrderStore` - the two tables under concurrent callers. A row of the order table
is `orders[i]` (`last` is LAST_CONSUME_ID, `deadline` is DEADLINE_TIME counted in
cycles from START_TIME, `payed` is EVER_PAYED, `retries` is RENEW_RETRIES), the
history is a set of rows. Each transaction of the code is two actions: `XBegin`
is everything up to its last plain select, a snapshot under MySQL's REPEATABLE
READ; `XCommit` is the update, which locks the row, the insert and the commit.
Other transactions commit in between, so what `tx[c]` remembers may be stale.
An UPDATE acts on the latest committed row, so `StillConsuming` is evaluated at
commit where `Endable` was evaluated at begin. An insert that meets the
primary key makes the code roll back (`RenewCollides`, `EndCollides` followed by
`Abort`). `copies` is every row image the store ever handed out: callers may
use any of them at any time, so the model covers every caller there could be.

`Billing` - the handlers. `proc[p]` is what one goroutine is doing: `pc` names the
call it is at, `order` and `old` are its copies, `kind`, `due` and `short` are
locals of `createOrder`. One action per call, with every outcome the code
distinguishes; the calls into package usage are the actions of `OrderStore`
(`Store == INSTANCE OrderStore WITH Clients <- Procs`). `ReceiveCreate` and the
actions after it are `api.CreateOrder` and `createOrder`; `ReceiveCancel` is
`ModifyOrder`; `PickDue` is one order of the maintainer's batch; `Short` is
`onInsufficientBalance`. `Price` is how a switch credits the old order: after the
old deadline it counts as a new order, before it as a switch, which may cost
nothing (`due` false); such orders are remembered in the ghost `free`, which is what
exempts a recorded switch from a deduction. `instance[s]` is whose resource a slot of the platform
carries, `deducted[i][k]` counts the deductions the recharge service made for
consume k of order i; both are the outside world. The code names a payment by
Order_id and number, which successive quota orders of an account share; `deducted`
keeps the rows apart, so nothing here rests on the recharge service telling repeated
payments by their names. `Faults` says what may fail:
`db` (any call to the database, also a commit whose answer is lost), `payment`
(an error with or without the deduction), `resource` (likewise), `crash`. Refused
balances and a commit that is refused by a key need no fault: they always may
happen.

`Renewal` - the maintainer with a clock, over `consuming` orders rather than
tables. Time is relative to now, in ticks: `left[i]` is DEADLINE_TIME minus now,
`warned[i]` is now minus the warning time kept in `DF_ITEM_STAT`, and `Tick` moves
them all, between any two steps. Both stop where nothing in the code tells the
times apart any more (a day after a warning, `EndOrderMargin` after a deadline);
`Floor` keeps the order of the deadlines there, and `Extended` lets one renewal
stand for the several a long overdue order takes. `Query` is
`QueryConsumingOrdersToRenew` with its margin, its `Limit` (32 in the code) and
its sort; `Try`, `RenewOrder`, `Warn`, `Destroy` and `EndOrder` are what the loop
does with the first order of `batch`, each with an action for its failure
(`TryFails` is the plan, the resource or the payment service, `WarnFails` an
unreadable or unstored warning time). `Place` and `Cancel` are the requests.
`mails` and `blind` are ghosts: the warnings sent on a day, and whose warning time
was lost on it. What a renewal or an end does to the tables is left to
`OrderStore`; there a renewal of an order that a request has ended is rolled
back, which is why `RenewOrder` then changes nothing here.

`TimeoutWriter` - `TimeoutHandle`. `server[r]` is the goroutine of net/http in its
`select`, `handler[r]` the one that runs the handler; the timer may fire at any
time (`Timeout`). The mutex makes `WriteHeader`, `Write` and the whole of the
timeout one step each. The handler's work is one `JsonResult` at its end, as every
handler of `api/` ends: a status and a body. `response[r]` is what the client
was sent. `Lose` is the death of the process.

`Startup` - instances from `main` to the ticker of `updateDB`. `pc[i]` names the
call an instance has come to; `init`, `phase`, `bump` and `release` are the calls
of `updateOrSetStat` in `TryToUpgradeDatabase` and `_upgradeDatabase`, each of
them `StatBegin` (the snapshot and the comparison) and `StatCommit` (the write
by key and the commit). `StatCollides` is an insert that meets another's row,
`CommitLost` a commit whose error the code drops. `stat` is the two rows, with
`Absent` for none. A start that fails ends in `Die`: `log.Fatal`, and the
container is started again (`Boot`). `schema` is a ghost, what the tables really
are. `dbInstance` and `open` are the published handle and the handles open.
`reopen` is between `Close` and `connectDB` in `updateDB`. `Latest` is the version
of the last upgrader: 1 in the code, whose list has one upgrader that is always
skipped. The run has 2, the first release for which the protocol does its work.

`Service` - `Startup` and `TimeoutWriter` together: a request reaches an instance
that listens (`Arrive`), and a crash takes along its requests (`Crash`). A panic in
a handler is such a crash: the handler's goroutine is not the one net/http
recovers.

`DestroyBSI` - one call of `destroyBSI`. `Get`, `Unbind`, `Open`, `Delete` are its
requests, each with a failing form; `TakePeek`, `TakeStatus` and `Expire` are the
three cases of its `select`, and `Leave` is the deferred `close(cancel)`, which
comes after them: the goroutine of `doWatch` may fill the channel in between.
`Check`, `Read` or `Break`, and `Send` are that goroutine (`reader[w]`), one for each
watch the call opens; `statuses[w]` is its bounded channel. `peek` is the goroutine
that gets the instance once after five seconds. `Bind` and `Unbound` are the
platform's users and controllers, each change a line of the watch. An instance
counts as unbound when it has no bindings, which is how the platform reports it.

`Paging` - `optionalOffsetAndSize` and `validateOffsetAndLimit` as operators, with
the width of int64 a parameter (`Wrap`), and a theorem about them.

`Cycle` - the order of one account on the calendar, in half days. `dues` holds
START_TIME and then each deadline that `extendTime` computed; the n-th consume
covers `dues[n]` to `dues[n+1]`, as its CONSUME_TIME is the old deadline. `Renew` may
come on any day of the margin or after the deadline. `Credit` is `remaingMoney` of a
switch, with the floors of `calRemainingMoney`. `early` is the moment after a
creation whose START_TIME was rounded up to the next second. `Panics` is a switch in
that moment: the only consume lies in the future, `createOrder` looks for the one
before it, finds none and dereferences the nil pointer (`maintain.go:238`). The
handler's goroutine is not recovered, so the process dies. The window is less than a
second. A dry run reaches it, as it skips the 15 second rule of `usage.CreateOrder`;
another switch does when that rule, which looks at any one row of the order id, finds
an older one. In `Billing` and `Service` such a panic is one of the crashes. `Pass`
stops when the order is due to be ended, though one whose plan or payment service
keeps failing may be renewed even later.

`Report` - `Cycle` and `Paging` together: a client walks through the pages of
`QueryAccountConsumingReports`, which counts (`Count`) and then queries (`Rows`), while
the order is renewed. `Shown` is a page of the rows ordered by CONSUME_TIME, the
latest first. The client asks for the next page until the total it was told is
reached.

`MCOrderStore`, `MCBilling`, `MCRenewal`, `MCService`, `MCDestroyBSI`, `MCReport` - the finite sets and symmetry of the runs.

`OrderStoreProofs`, `BillingProofs`, `BillingWorkProofs`, `ServiceProofs`, `RenewalProofs`,
`DestroyBSIProofs`, `ReportProofs` - the theorems about the module each is named for
(`ServiceProofs` also about `Startup` and `TimeoutWriter`, `ReportProofs` about
`Cycle`). `BillingWorkProofs` extends `BillingProofs`.

Slots stand for (region, account, plan type, resource name). A slot in
`NamedSlots` has a resource name (volume, backing service instance): its order
ids are random, so it has no old order to switch from. The others are quotas,
whose order id is made of account and plan type.

## Runs

| run | what it shows |
|---|---|
| `order_store` | Two clients, two orders, a quota and a volume, crashes anywhere: `RowAgrees` (EVER_PAYED is LAST_CONSUME_ID > 0 as the column comment says, status and deadline follow), `LedgerShape` (one charging row for each consume, an end row exactly when ended), `EndedIsFinal` (no stale renewal revives an ended order), and `ImplementsLife`. `StoreInv` is the inductive invariant of the proofs |
| `billing_faults` | Two requests and the maintainer, two orders, every fault: `ConsumesAreDeducted` (only a switch that came out at nothing is recorded unpaid), `FirstChargeOnce` (a first consume is deducted at most once even when the answer of a payment is lost, since nobody takes up an interrupted creation), `RenewalsFollow`, `SwitchEndsOld`, and `ImplementsStore`: the handlers only use the store as its specification allows |
| `billing_faultless` | Three orders, no faults but empty balances: `NoOrphanInstance`, `DeductedOnce`. Both are false with faults, by design of the code (see its todo comments), so they are only claimed without |
| `charging_times` | violated: the renewal pays, a cancel ends the order, `RenewOrder` then meets the end row's key. The deduction is in no ledger and no one will retry |
| `one_consuming_order` | violated: two creations for one quota read no old order and both become consuming |
| `one_order_one_instance` | violated: a cancel destroys the volume, a renewal commits, `EndOrder`'s insert meets the renewal's key and is rolled back |
| `renewal` | Two orders, a batch of one, every failure and a tick anywhere: `OneWarningADay` although the stored time loses its minutes, `EndsLate`, and `DueIsTriedAtLast`: once failures stop, a batch smaller than the number of due orders starves nobody |
| `renewal_starves` | violated: the orders whose plan lookup keeps failing fill each batch, so the due orders behind them are never tried (one such order and a batch of one here, 32 in the code) |
| `renews_in_margin` | violated: the due query formats local time, DEADLINE_TIME is stored in UTC; the Dockerfile's zone makes the margin eight hours longer |
| `service` | Two instances on a new database or one of the release before, an outage, a crash, and a request: `ServesUpgraded` whatever commit is lost and whoever dies, `NoHandleLeft` over failed connections, `ServesAtLast` (all serve, or a cut upgrade locks them out); `OneAnswer` of the timeout and the handler, `SilentAfterReturn` (nothing is written once net/http has the connection back), `HandlersEnd` (no goroutine stays blocked after a timeout) |
| `destroy_bsi` | A deployment config that may be bound again, every request and the watch failing: `DeletesUnbound` (of what the last get listed: a binding made after it may be deleted over), `ReportsTruth` (success means gone or going; one refused delete is survived), `CallEnds` (if users bind it again only finitely often), `WatchesEnd` (a canceled watch ends if its channel has room; one that meets a full channel does not, and keeps its connection) |
| `report` | Four cycles from October 31, December 1, 29, 30 and 31 around the Februaries of 2016, 2017 and 2100: `DeadlinesFollowStart` against the closed form, `LastLastRuns` (the code panics over a missing `lastlastConsume` in the moment before a rounded-up start and at no other; wherever else it takes it, it is there and its cycle runs), `CreditIsFair` (where it comes to a credit), `WalkShowsAll` (a walk misses at most as many of the oldest rows as were added between a count and its query), `PagesInside` for every int of a small width |

The violated properties are what a comment, the schema or the readme says;
`findings` in `PROJECT.json` quotes each. Those of `Billing` need no fault, only
interleaving; `renewal_starves` needs a service that keeps failing.

Every passing property has a mutant of the code it would catch (a dropped key,
an off-by-one in the retries, a forgotten rollback, an ignored EndOrder error,
and so on); the mutated operators stand just before the ones they mutate.

### Bounds

- `MaxConsume` = 2 charges per order: a first charge and a renewal. A stale copy
  can then be one or two charges behind, and the key of an end row collides with
  a renewal both ways. One more charge repeats the same situations.
- Two or three ids: a switch needs two orders of one slot, two racing switches
  from one old order need three. `IdsLeft` lets a request in while an id remains.
- `MaxNumRenewalRetries` = 1 (100 in the code): the limit is reached and the
  stale count is seen; 0 in `billing_faultless`, whose properties ignore it.
- `MaxDeductions` = 2: a second deduction of a consume happens, a third adds
  nothing; it bounds a counter that exists only in the model.
- Two requests beside the maintainer: three goroutines on one order.

- `Renewal` runs with an hour of 2 ticks, a day of 2 hours, `RenewMargin` 1,
  `EndOrderMargin` 4, `Month` 2 and `Zone` 1. A warning time then loses up to a tick,
  a day passes between a deadline and the end of its order, a new order is not yet
  due, and a late round can find an order that is already late. `Limit` is 1 of 2 orders: the
  smallest batch that leaves a due order out.

- `service`: `Latest` = 2 (see `Startup`), two instances, one outage and one crash.
  Two instances meet on every row; the crash may fall before, in and after an
  upgrade, and the outage breaks any call, any commit or the handle of a serving
  instance. One request: requests share nothing but their process. The run stops
  when its crash, outage and request are used up, so deadlock is not checked.
- `destroy_bsi`: one deployment config, bound again at most once, and a channel of
  one (5 in the code): a full channel, an empty one, and a call that waits three
  times occur. `MaxBinds` = 1 is also an assumption of `CallEnds`, see below. The call
  ends, so deadlock is not checked.
- `report`: four consumes; from December that is January to April. Every
  int from -5 to 4 as page and size, so that their product wraps. The
  run stops after the fourth cycle.

A database that an instance of the first release left after its tables and before
its version row is not among the initial states of `Startup`. The next release would
take its old tables for new ones, as the comment at `usage/upgrade.go:54` does.

### Fairness

`OrderStore` and `Billing` assume none and claim no liveness: a handler may stop
anywhere, as a process that dies does. `Renewal` assumes weak fairness of
`Maintain` and of `Tick`. The maintainer is one goroutine with nothing to wait for
but its timer (`time.After` at the end of each round) and its own calls, which
return: the HTTP client gives up after 10 seconds and the loop of `destroyBSI` has
timeouts. That time passes needs no reason. Nothing is assumed of
requests, nor that any call succeeds. `DueIsTriedAtLast` has the end of failures as
its premise (`FaultsStop`), `DueIsTried` has not and is violated.

`Service` assumes that a process that exited is started again (its container is),
that each instance goes on with its start and its ticker, that the database
comes back, and that both goroutines of a request take their next step: the
server's has its timer, and the handler's calls have timeouts. Crashes and
outages are finite. `DestroyBSI` assumes that the call goes on (each request has
the client's 30 seconds, the wait its timer of 15 minutes) and that a watch
goroutine that reads gets a line or an error some day, which is up to the platform:
`WatchClient` has no timeout. And it assumes that users bind the instance again only
finitely often (`MaxBinds`, for which the code has no limit): `goto RETRY` after a wait
(`remote.go:995`) is not counted, only the retry of a refused delete is. Whoever binds
the instance again after each unbinding keeps the call going for ever. What
`CallEnds` shows is that nothing but a new binding does: no failure, no refusal and
no line that a watch left behind.

## Proofs

Every invariant and every action property of the passing runs is also a theorem,
for all values of the constants that satisfy the named assumptions; so are the two
refinements. The runs check an instance, and the inductive invariants were
checked by TLC on instances of that kind before they were proved.

| theorem | property of a run | hypothesis besides the named assumptions |
|---|---|---|
| `StoreTypeOK`, `RowsAgree`, `LedgerAgrees`, `StoreInvariant`, `EndedStaysEnded`, `Refinement` | `OrderStore!TypeOK`, `RowAgrees`, `LedgerShape`, `StoreInv`, `EndedIsFinal`, `ImplementsLife` | - |
| `BillingTypeOK`, `RecordedIsDeducted`, `RenewalsComeLater`, `SwitchReplaces`, `BillingDrivesStore` | `Billing!TypeOK`, `ConsumesAreDeducted`, `RenewalsFollow`, `SwitchEndsOld`, `ImplementsStore` | - (every fault) |
| `CreationPaysOnce` | `FirstChargeOnce` | - (every fault) |
| `PaidOnce` | `DeductedOnce` | only `resource` may fail |
| `InstancesHaveOrders` | `NoOrphanInstance` | only `payment` may fail |
| `ServiceTypeOK`, `OneHandleOpen`, `AnswersOnce`, `NothingAfterReturn` | `Service!TypeOK`, `NoHandleLeft`, `OneAnswer`, `SilentAfterReturn` | - |
| `ListensUpgraded` | `ServesUpgraded` | `Latest <= 2` |
| `RenewalTypeOK`, `WarnsOnceADay`, `EndsOnlyLate` | `Renewal!TypeOK`, `OneWarningADay`, `EndsLate` | - |
| `DestroyTypeOK`, `AsksBeforeDelete`, `ResultIsTrue` | `DestroyBSI!TypeOK`, `DeletesUnbound`, `ReportsTruth` | - |
| `ReportTypeOK`, `DeadlinesKeepDay`, `PagesShowAll`, `PagesStayInside` | `Report!TypeOK`, `DeadlinesFollowStart`, `WalkShowsAll`, `PagesInside` | - |
| `PanicsBeforeStart`, `SwitchCredit` | `LastLastRuns`, `CreditIsFair` | `RenewMargin <= 28` (7 in the code) |

`PagesAreInside` (in `Paging`), `OneAtWork` (in `BillingWorkProofs`) and `OrdersLive` (in
`BillingProofs`) state no property of a run. The first two carry other theorems,
the third puts two of them together.

### The store

The assumptions are the four named ones of `OrderStore`: named slots are slots and
`NoSlot` is none, "end" is not a kind of charging row, and the two limits are
naturals.

`LedgerShape` alone is not inductive: a renewal writes what its snapshot said, so
what snapshots may say has to be part of the invariant. `CopiesBehind` and
`TxBehind` say that no copy and no snapshot is ever ahead of the row, and that
the charge it names is in the ledger. The heart of the argument is lemma
`FreeKeyIsCurrent`: the ledger holds a row for every charge up to the row's
LAST_CONSUME_ID, and one more when the order ended; so if a snapshot's next
consume number is still free in the history, the snapshot is current and the
order has not ended. That is why the primary key alone makes the unlocked check
of `RenewOrder` safe, and why `EndOrder`'s stale deadline is the right one when
its insert goes through. The refinement uses the same lemma: a commit that goes
through acts on a row in the state its caller saw.

### The handlers

`BillingInv` has `StoreInv` of `OrderStore`, taken from `OrderStoreProofs` by
instantiation, and says what a goroutine holds at each call: images the store
has handed out, an order or none, and in `tx` exactly the transaction of its call.
`HasPaid`, `IsFree` and `OldHasEnded` are the promises that carry over a goroutine's
steps: past the payment, the consume it will record is deducted if anything was due;
where nothing is due, the price came out as nothing; and past the end, the old order
is ended. They stay true whatever others do, since deductions only
grow and an ended order stays ended. So
`ConsumesAreDeducted`, `RenewalsFollow` and `SwitchEndsOld` hold under every fault and
every crash, and each step of a handler is a step of `OrderStore`. With what
`OrderStoreProofs` shows of the store, `OrdersLive` follows: under the handlers too the
ledger is that of the row, an ended order stays ended, and every order lives the
life of `OrderLife`.

Who works on an order is a second invariant, `WorkInv` (`OneAtWork`): one goroutine at
most creates an order, and the maintainer's copy of the order it renews is never
out of date, since nobody else charges an order whose creation is over. On it
stand

- `FirstInv`: an order being created has not been deducted for before its payment,
  and a pending row has deductions only for its first consume. A handler that
  stops after a deduction leaves its order for good, so `FirstChargeOnce` needs no
  hypothesis;
- `OnceInv`: a deducted consume of a consuming order is recorded, or the maintainer
  is recording it. A database failure or a crash between payment and record, or a
  payment whose answer is lost, breaks this, and the next round pays again.
  That is why `PaidOnce` allows failures of the platform only;
- `OwnInv`: whoever a named resource belongs to is consuming, or pending with a
  goroutine between its allocation and the end of its creation. A rollback that
  fails or a crash leaves a resource behind: `InstancesHaveOrders` allows failures of
  the recharge service only.

`DeductedOnce` and `NoOrphanInstance` run without faults and are proved with one kind each.
Neither allows a crash, so both also suppose that no other request panics (`Cycle`).

### Start and requests

`StartInv` says what an instance has open at each call, and `AnswerInv` how far the two
goroutines of a request are when a given part has been sent; neither depends on the
other, and a crash takes along the requests of its process in one step. A timed
out request has returned, and from then on the writer is closed: that gives both
`OneAnswer` and `SilentAfterReturn`.

`UpgradeInv` is about the rows of `DF_ITEM_STAT` and the tables they speak of. With a
last upgrader 1 or 2 there is one upgrade at most, and it goes to the last version, so
the tables never go back: a version row that says `Latest` is true, an absent one means
that there are no tables yet or those of the last release, and whoever bumps the
version or releases the phase does it over upgraded tables. It does not matter then
that an instance may run an upgrader a second time. With two upgrades (`Latest` = 3)
TLC finds `ServesUpgraded` violated: an instance whose commit of a first version row
was lost runs an upgrader again over tables that another has brought further. The code
has one upgrader (`Latest` = 1), so `Latest <= 2` covers this release and the next.

### The maintainer's rounds

`BatchDue` says that every order in a batch was due when it was read, and that only its own
renewal could have moved its deadline on: the batch may be old, but it is worked off
by the one who renews. Without it the type invariant's bound on `left` (a month past
the margin) is not inductive. `WarningFresh` compares the age of the stored warning time,
which has lost its minutes, with the time of the day: `warned` never says more than
`clock` for an order warned today, so the next warning waits for the next day.
`EndsLate` needs that the deadline in the copy is still late at the end
(`EndingLate`). The proof takes the set of orders to be finite (`IdsAssumption`), as
`Floor` counts orders.

### Destroying an instance

`WatchesInOrder` and `WatchesPaid` bound the watches: each watch but the first is
paid for by a binding that somebody made during the call or by the one refused
delete. The type invariant, with its function over `MaxBinds + 2` watches, needs
that. `Asked` and `Reported` follow the call's own steps.

### Calendar, credit and pages

`Cycle` keeps each time as a date together with its place on the clock, so that the
calendar is a step from one deadline to the next and needs no recursion. Lemma
`ExtendedByAMonth` is the heart: if a deadline is on the start day or on the last day of a
shorter month, so is the one `extendTime` gives, 28 to 31 days later, whatever years
are leap. With a margin of at most 28 days a renewal then always falls in the
last paid cycle, and never in the moment of the start (`LastBegan`). So an order with two
consumes has a running one before the last, and an order with one is before it
only in the moment `early`: there the code panics, and nowhere else
(`PanicsBeforeStart`).
`SwitchCredit` reduces the credit to the worth of one or two cycles (`CreditIs`) and
shows that this falls with time, is the price at a cycle's begin and nothing at its
end; the integer divisions of `calRemainingMoney` are those of the code's floors.

`PagesAreInside`: for any width of the integers and any bounds of the sizes, offset and
limit are inside a list that is not empty. It is why a product that wrapped
around shows a wrong page and nothing worse. For a walk, `WalkInv` adds that the
next page begins where the last one ended (`PageThere`) and that all rows before it
were shown (`ShownTo`); a renewal only pushes rows on to pages that are still to
come. `WalkAssumption` says that no order has as many cycles as an int64 can count.

### What stays with TLC

- Liveness: `DueIsTriedAtLast`, `HandlersEnd`, `ServesAtLast`, `CallEnds`, `WatchesEnd`. The
  prover has no rule for fairness.
- The five violated properties: a counterexample is what TLC is for.
- That the bounds of a run are enough for its mutants and its counterexamples.

## What is left out, and what is assumed

- Clock time outside `Renewal`. In `Billing` the maintainer may pick any consuming paid order, and a
  switch may find its old order at any point of its cycle. The 15 second rule of
  `usage.CreateOrder` may refuse a quota order whenever the slot has a row.
- In `Billing` the batch is one order at a time, read when it is picked. A longer
  batch only makes copies older, which a slow goroutine has as well.
- In `Renewal` the deadline in a copy is the row's: only the maintainer renews a
  consuming order, and it visits an order once in a round. Whether a payment or a
  plan is refused is not remembered from one round to the next. Reading the clock
  and the decision that follows are one step.
- `OneWarningADay` is about days that begin at a full hour of UTC, and not about
  24 hours: a warning at 10:59 is stored as 10:00, and the next may follow after
  23 hours and some minutes. A lost warning time is possible because
  `GetOrderLastWarningMessageTime` swallows its error and the maintainer ignores
  the error of the store; then every round may warn.
- `Billing` and `Renewal` have one maintainer: one instance that stays. `Startup` has
  several instances, as there are while one is replaced; two maintainers on one
  order are the racing clients of `OrderStore`.
- The end of one order by two callers: the second update in `EndOrder` matches no
  row though the comment at `usage/usage.go:605` says n should be 1, and the call
  succeeds (`EndNothing` in `OrderStore`). The ledger keeps one end row
  (`LedgerShape`), but two switches then use one credit.
- `MYSQL_CONFIG_DONT_UPGRADE_TABLES=yes`, which skips tables and upgrades, and an
  upgrade that alters half of its tables: `Alter` is one step.
- The response headers of a request: `Header()` takes no lock. The timeout page
  may carry the handler's Content-Type, and the race on the map is undefined.
- Summer time, and zones of START_TIME and DEADLINE_TIME that differ: `Cycle` is in one
  zone. The refusal of a switch whose credit exceeds the new price changes nothing
  and is left out.
- The token of the OpenShift client: one goroutine stores it, the others load it; a
  request without one fails as any other.
- Amounts of money. A plan costs something; what a switch has to pay may be nothing.
- Requests that are refused before they change anything, dry runs (they change
  nothing, but may panic, see `Cycle`), and all of parsing, authentication, plans,
  e-mail and logging.
- `RemoveOrder`: nothing calls it.
- Quotas: any change succeeds in naming the slot's new owner; zeroing clears it.
- Reading a row takes one step, also `RetrieveOrderByID` in `api.CreateOrder`, which
  returns an arbitrary one of several rows.

## Plan

Done: all modules, their runs, and the theorems of the table above. Left: which single
further fault breaks `PaidOnce` and `InstancesHaveOrders`, as counterexamples beside the
theorems.
