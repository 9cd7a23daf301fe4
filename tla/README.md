# snipper: a verification project

snipper (the Go module calls itself *gater*) is an event-ticketing API: a chi
server over PostgreSQL (pgx, READ COMMITTED, row locks by `FOR UPDATE`) and an
asynq worker over Redis. Its core is one shared quantity, the places of a ticket
tier, that buyers, refunds, scanners, organizers, a waitlist and periodic jobs
change at the same time. This directory holds TLA+ models of that core, the TLC
runs that check them and the TLAPS proofs of every safety property they check.
Paths below are relative to `src/`, the root of the code.

## 1. The system

| component | state | operations | code |
|---|---|---|---|
| Sales | `ticket_tiers`, `purchases`, `tickets`, `events.status` | buy, refund, check in, cancel an event's purchases | `internal/store/purchases.go`, `tickets.go`, `cmd/server/purchases.go`, `check-in.go` |
| Tier edits | `ticket_tiers` | update (create and delete are below) | `cmd/server/tiers.go`, `internal/store/tiers.go` |
| Event administration | `events` | create, publish, update, cancel, delete; create and delete tiers | `cmd/server/events.go`, `tiers.go`, `internal/store/events.go` |
| Waitlist | `waitlist_entries`, notify tasks in Redis | join, leave, promote, lapse, clear | `cmd/server/waitlist.go`, `internal/store/waitlist.go`, `internal/worker/waitlist.go` |
| Periodic jobs | none of their own | end expired events, lapse offers, every 5 minutes | `internal/worker/periodic.go`, `cmd/server/main.go` |
| Notifications | tasks in Redis | mail buyers of an update or a cancellation | `internal/worker/event.go` |
| Accounts | `users`, `sessions`, `verifications`, `oauth_accounts` | register, log in and out, verify, reset, Google | `cmd/server/auth.go`, `internal/store/users.go`, `sessions.go`, `verifications.go`, `oauth.go` |
| Listings | the client's cursor or page | page through published events, through one's purchases | `cmd/server/events.go`, `purchases.go`, `internal/cursor/cursor.go` |
| Helpers | none | QR codes, passwords, tokens, JSON, validation, config, mailer | `internal/...` |

**How they interact.** HTTP handlers are goroutines that share nothing but the
database; each query takes a connection of the pool and 5 s at most. Handlers and
the sweep enqueue tasks in Redis that asynq workers of the same process run, at
least once. Middleware (`requireEventOrganizer`) reads the event before a handler
starts, and the handler decides on that copy.

**What is hard.** Several statements of one handler see several snapshots; reads
that no lock protects are acted on later; two row locks protect one fact about an
event; the steps after a commit (the bulk cancellation, the waitlist, the mail, the
enqueueing) may fail one by one; a task is retried after half of it has committed;
the event's status is written by buyers, refunds, the organizer and a sweep. The
account handlers use no transaction at all, and each statement may fail alone.

**What makes each component correct.**

- *Sales*: places and tickets balance; no tier oversells; a refund restores its
  places once and leaves no valid ticket; a ticket admits once; statuses follow
  the stock; no transaction waits in a circle; nothing reopens a dead event.
- *Tier edits*: an edit loses no sale and no refund.
- *Event administration*: the status follows its life cycle, an event on sale
  has tiers and keeps its purchases, a change of its terms is stamped, and the
  buyers it hits are told.
- *Waitlist*: first come, first served; one promotion per entry; a place that comes
  back is offered; an offer lapses and is passed on; nobody both holds tickets and
  waits.
- *Accounts*: tokens are mailed with a pause in between, and a user who needs one
  gets one; a reset ends the sessions of the old password; no request undoes what
  another wrote to the user; what is linked to Google is verified.
- *Listings*: a client that pages to the end misses nothing that was there all the
  time and, by cursor, sees nothing twice.

## 2. Modules

```
CancellationPolicy ── Purchasing ── TierEdits ── MCTierEdits
                        │   │  │        └───────────── TierEdits_proofs
          INSTANCE Box ─┘   │  └─── MCPurchasing              │
                            └────── Purchasing_proofs ── PurchasingResults
BoxOffice ── Waitlist ── MCWaitlist
                │ └─── Waitlist_proofs ───┐
WaitingLine ────┘ INSTANCE Line           │
EventAdmin ── MCEventAdmin                │
     └──────── EventAdmin_proofs ─────────┼── InductionLemmas
Accounts ── MCAccounts                    │
     └──────── Accounts_proofs ───────────┘
Listings ── MCListings
     └──────── Listings_proofs
```

**`CancellationPolicy`**: the tests of `PurchasesStore.Cancel` (lines 434-454) on
the event's start, the cancellation window and the 72 h grace after a material
change, as predicates on a clock. The strict and non-strict comparisons are the
code's.

**`Purchasing`**: the transactions of the sale, one SQL statement per step. A
connection of the pool (`Conns`) runs one handler call; `pc` is the statement it
waits to run. What a transaction has locked is a function of `pc` and `work`
(`HoldsTier`, `HoldsPurchase`, ...), and what it writes becomes visible in its
commit step. A connection may abort before any statement, which stands for an
error, the 5 s timeout and a stop of the process.

| action | statement |
|---|---|
| `BuyLockTier`, `BuyLoadRules`, `BuyCheckStock`, `BuyFlipEvent`, `BuyCommit` | `PurchasesStore.Create` |
| `CancelLockPurchase`, `CancelLoadRules`, `CancelFlipTickets`, `CancelRestoreTier`, `CancelFlipEvent`, `CancelCommit`, `Enqueue` | `PurchasesStore.Cancel` and the rest of `cancelPurchase` |
| `CancelEvent`, `VoidBegin`, `VoidPurchase`, `VoidTickets`, `VoidCommit` | `cancelEvent` and `PurchasesStore.CancelByEvent`, row by row |
| `CheckInLock`, `CheckInCommit` | `TicketsStore.CheckIn` |
| `EndExpired` | `EventsStore.EndAllExpired` |

**`BoxOffice`**: what the sale promises, in four single steps (`Sell`, `Refund`,
`VoidAll`, `Admit`) over the stock, the purchases that stand or are closed, and
the tickets inside. `Purchasing` implements it under the mapping `Box`
(`remaining`, the confirmed, the cancelled, the admitted).

**`TierEdits`**: `Purchasing` with `updateTier` as three reads, a decision and two
writes that share no transaction. `overwrote` is a history variable: a write
replaced a row it had not read.

**`Waitlist`**: over the steps of `BoxOffice`, `joinWaitlist` as reads, an INSERT
and a commit (the unique index makes a second INSERT wait), `leaveWaitlist`,
`NotifyNextWaiting` as PostgreSQL runs it (rows of the snapshot, locked one by one
from the oldest, read again once locked), the mail, asynq's retry, the sweep, the
clock and `DeleteByEvent` as selection and deletion. An entry is named by its
`created_at`, taken at the INSERT and seen at the commit; `expires_at` is the
hours that are left. `owed` is the promotions that refunds have still to enqueue: a
step of its own, which may fail. The sweep owes none. Its UPDATE commits, but
`ExpireReservations` then collects eight columns with `pgx.RowToAddrOf`, which has
one destination; the handler returns with that error before it enqueues anything,
and its retry finds no offer left (`LapsePromotes`, section 4). Two history
variables: `lost`, that a promotion was lost for good and logged (Redis refused it,
or its last retry failed), and `arrived`, the order in which rows became visible.

**`WaitingLine`**: what a waitlist promises, without rows, tasks and locks: people
join, are promoted one at a time, lapse and leave. `Promote` takes somebody before
whom nobody waits who both asked and joined earlier. `Waitlist` implements it, for
each tier, under the mapping `Line` (a row is its `created_at`, its place the
row's status). `created_at` is taken before the row is visible, so of two joins that
overlap either may go first: that is the freedom the abstract line leaves.

**`EventAdmin`**: the organizer's requests as the read of `requireEventOrganizer`
followed by the statements of the handler, with buyers (a sale reads the event
and commits later), refunds and the sweep going on. "published" stands for
published and sold_out, which these handlers do not tell apart, and "gone" for a
deleted row, of the event or of a purchase that went with its tier. A material change
whose statement returns a stamp enqueues a task (`Notifies`, `EnqueueUpdated`), which
looks for the buyers when it runs and is retried or given up
(`HandleNotifyBuyersUpdated`). `ListedBuyers` is what the query for the buyers gives,
to that task and to `cancelEvent`: nobody, since the collection of its rows is an
error as soon as there is one (`CollectFails`, again `pgx.RowToAddrOf`). `overtaken`
is a history variable: the requests under way whose organizer's other request has
written the event or a tier after they read the event.

**`Accounts`**: the handlers of `cmd/server/auth.go` and `users.go`, one statement
per step, on the tables `users`, `verifications`, `sessions` and `oauth_accounts`.
`req[r]` is the statement a request runs next and what it has read. `Routes` names
the routes an instance's clients call. A `verifications` row stays in `tokens`
after its deletion, marked "replaced" when a request that had seen it cleared the
address, and "gone" otherwise. `Die` ends a request at any statement (an error
answered with 500, the timeout, a stop of the process); an error that the code
ignores is a disjunct of its step. A password is the number of the write that
stored its hash. `spared` and `unmarked` are history variables for two ignored
errors; a session's `late` says that the password had changed since its login read
it.

| action | code |
|---|---|
| `Register`, `StoreToken` | `registerUser` |
| `Ask`, `GetLatest`, `Decide`, `DeleteByIdentifier`, `StoreToken` | `resendVerificationEmail`, `forgotPassword` |
| `VerifyEmail`, `RefuseExpired`, `MarkVerified`, `DeleteToken` | `verifyEmail` |
| `BeginReset`, `RefuseExpired`, `ResetPassword`, `DeleteToken`, `DeleteAllSessions` | `resetPassword` |
| `Login`, `CreateSession`; `Authenticate`, `Logout`, `BecomeOrganizer` | `loginUser`; `requireAuth`, `logoutUser`, `becomeOrganizer` |
| `GoogleBegin`, `GoogleFind`, `GoogleCreate`, `GoogleVouch`, `GoogleLink`, `CreateSession` | `googleCallback` |

**`Listings`**: a page is one query on one snapshot; between pages the rows change.
The feed continues after a key, the history after a number of rows. At this commit
the store answers no page of the feed that has an event on it (`FeedFails`);
`ReadFeed` stands for the pages that would be answered if it collected its rows, the
code before and after that line being what `FeedIsExact` is about. `steady`,
`moved` and `opening` are history variables: what the client may expect to see.

The modules `..._proofs`, `PurchasingResults` and `InductionLemmas` hold theorems and
their proofs only (section 5).

## 3. Abstractions

- A purchase is an id whose tickets are minted with it; quantity, price and total
  come down to the number of its tickets. Names, QR codes and answers are left out.
- Uncommitted rows are invisible, so a transaction's writes happen in its commit
  step, while its locks are held from the statement that takes them.
- The tickets of one purchase are locked together; `EndAllExpired` acts on one
  event at a time. Each is one statement whose rows no other statement needs
  part of in another order.
- Reads that come before the first lock and are repeated under it are one with the
  handler's start; those that are not repeated are steps of their own.
- `CHECK (remaining >= 0)` of the table is not modelled as a guard of the sale:
  the code tests the stock under the same lock, and `TypeOK` shows that the
  column stays in `Nat`. `CHECK (remaining <= quantity)` is a guard of the refund
  in `TierEdits`, where it can fail.
- Time is a bounded clock in `Purchasing`, a countdown per offer in `Waitlist`,
  a stamp per material change in `EventAdmin`, and an age per token in `Accounts`,
  which stops at an hour: nothing depends on an older one.
- In `Accounts` mails are left out: whoever is sent a token may use it at any time
  or never. Random tokens do not collide, so the three attempts to store a session
  are one. A cursor carries its key without loss: `RFC3339Nano` holds every instant
  a `TIMESTAMPTZ` does.

## 4. Runs

Every run is exhaustive within its bounds. The systems may stop: no user has to
do anything, so `CHECK_DEADLOCK FALSE` is in every configuration, and progress is
a property of its own.

| run | what it shows | bounds |
|---|---|---|
| `sole_tier` | books balance, no oversale, refunds whole, statuses follow the stock, one admission, tickets only age, the inductive invariant of the proofs, refinement of `BoxOffice` | 2 connections, 1 tier of 2 places, a pair and two singles: more demand than places, a refund that frees more than one, the last place won by one buyer; clock 0..3 passes every bound of the policy |
| `two_tiers` | no circle of lock waits, the event's life cycle, every request ends | 2 connections, 2 tiers of one event, 2 places on the floor: its last place is sold, with the flip of the event, while the other is refunded; cancellation open by the grace window alone |
| `tier_edits` | remaining fits the quantity, books balance until an edit overwrites, late status writes are harmless, the inductive invariant of the proofs | 2 connections, 1 editor, quantities 1..3 |
| `waitlist` | refinement of `WaitingLine`, one worker per entry, whoever is passed over no longer waits | 2 users, 1 join and 2 tasks at a time, 2 sales of the place: two promotions overlap; 2 rows ever inserted |
| `waitlist_moves` | offers lapse; a promotion that a refund owes reaches the line, through failures and their retry | 2 users, 1 task, 1 retry, 2 rows |
| `event_admin` | the status moves along its arrows, always; and until a request acts on what another has changed since it read the event, an event on sale keeps its tiers and purchases, new tiers respect the capacity, and changes are stamped for good | 2 requests, 2 tiers of one place, a purchase of each, 2 stamps, 2 values of the terms |
| `account_tokens` | the cooldown holds between a token and what its request has seen; whoever waits is sent another | 2 requests, 1 address, 4 tokens; cooldown 1, hour 3, limit 3: with a failed deletion the limit is reached, and expires |
| `account_sessions` | a reset ends the old sessions, no update is lost, what is linked is verified | 2 requests, 1 address and Google account, 3 passwords, 3 tokens, 1 session at a time (another is opened once it has ended); no tick |
| `listings` | the feed is exact, the history misses nothing | 4 events on 2 starts (ties at a page's edge), 5 purchases, pages of 2: three pages and a short one |

Symmetry is used on connections, users, tasks, requests, editors and, in
`event_admin`, on the terms and on each tier with its purchase, in safety runs only. The clock, stamps, retries and quantities are bounded by `MaxNow`,
`MaxStamp`, `MaxRetry`, `MaxQuantity`; `Tasks`, `Requests` and `Conns` bound what is
under way at a time, and `MaxTokens`, `MaxPasswords` and `MaxSessions` what
`Accounts` writes. Two requests at a time are the least for every race the
properties are about; each of those races is between two.

**Fairness.** `Purchasing!FairSpec` is strong fairness of each connection's own
steps: goroutines are scheduled, and PostgreSQL grants a row lock in the order of
the requests, so a waiter is not overtaken for ever; aborts are allowed and not
needed. `Waitlist!FairSpec` is weak fairness of the clock, of the sweep (the
scheduler fires every 5 minutes, and its UPDATE commits whatever becomes of its
rows), of a pending enqueue to succeed *or fail*, and of a task to make a step *or
fail*. `Accounts!FairSpec` is weak fairness of the clock and of nothing else. Users
are never assumed to act, and no step is assumed to succeed.

### What the code does not keep

Modules end with statements of `PLAN.md` or of a comment, or of what a reader
expects, that some behaviour of the code breaks. Three runs, one per component,
find such a behaviour, and `PROJECT.json` quotes the lines:

| run | property | what happens |
|---|---|---|
| `edits_oversell` | `NoOversell` | `updateTier` writes back a row it has read before a sale |
| `offer_is_mailed` | `OfferIsMailed` | the mail fails and the retry promotes somebody else |
| `hourly_limit` | `HourlyLimit` | an allowed request deletes the tokens the next one would count |

TLC finds each of the others within a minute when it takes the place of the
properties of the configuration named:

| property | configuration | what happens | the statement |
|---|---|---|---|
| `PublishedHasStock` | `MCTwoTiers` | two last places of two tiers are sold at once: each sale sees the other's tier stocked | `PLAN.md:119`, `912` |
| `SoldOutHasNone` | `MCTwoTiers` | a refund overtakes the flip to sold_out | `PLAN.md:121`, `261` |
| `ConfirmedHasTickets` | `MCSoleTier` | a sale commits between the two statements of the bulk cancellation | `internal/store/purchases.go:527` |
| `CancelledEventIsVoid` | `MCSoleTier` | a sale commits after the bulk cancellation, or that fails and is logged | `internal/worker/event.go:135` |
| `SalesWhilePublished` | `MCSoleTier` | the event is read without a lock and cancelled before the sale commits | `PLAN.md:832` |
| `RestockPromotes` | `MCSoleTier` | `wasSoldOut` is read before the tier is locked | `PLAN.md:261`, `977` |
| `EventFollowsTier` | `MCEditsOversell` | an edit that sells a tier out leaves the event published | `PLAN.md:824` |
| `OfferEndsInPurchase` | `MCOfferIsMailed` | nothing ever writes `purchased` | `PLAN.md:288` |
| `NeverBoth` | `MCOfferIsMailed` | the user buys while their join is under way | `PLAN.md:265` |
| `NoQueueForStock` | `MCOfferIsMailed` | the place comes back while a join is under way | `cmd/server/waitlist.go:62` |
| `CancelledHasNoWaitlist` | `MCOfferIsMailed` | a join inserts after the list was cleared, or clearing fails | `cmd/server/events.go:410` |
| `NoPurchaseIsDeleted` | `MCEventAdmin` | a delete decided on a draft hits an event that is on sale | `PLAN.md:64`, `156` |
| `InventoryFits` | `MCEventAdmin` | a new capacity is compared with sales, not with the tiers | `PLAN.md:87` |
| `OverIsFrozen` | `MCEventAdmin` | an update lands after the event has ended | `PLAN.md:135` |
| `ConflictsAreAnswered` | `MCEventAdmin` | the error path of publish and cancel reads a nil event | `PLAN.md:126` |
| `VoidedBuyersAreTold` | `MCEventAdmin` | the list of the buyers is an error; and a sale commits between listing the buyers and cancelling their purchases | `PLAN.md:858` |
| `NoticesFindBuyers` | `MCEventAdmin` | the task of a change finds no buyers, however often it is tried | `PLAN.md:858` |
| `LapsePromotes` | `MCWaitlistMoves` | the sweep's UPDATE commits, the collection of its rows is an error, and nothing is enqueued | `PLAN.md:289` |
| `FeedAnswers` | `MCListings` | the store fails on any event the feed should show | `PLAN.md:61` |
| `TokenWorksOnce` | `MCSessions` | two resets read a token before either deletes it, or the deletion fails | none |
| `NoLateSession` | `MCSessions` | a login that has read the old hash stores its session after the reset | `cmd/server/auth.go:666` |

**Collecting rows.** `VoidedBuyersAreTold`, `NoticesFindBuyers`, `LapsePromotes` and
`FeedAnswers` have one cause. In pgx v5 `RowTo[T]` and `RowToAddrOf[T]` scan a whole
row into one destination; of a row with several columns that is an error
(`RowToStructByPos` and its kin are for those). `CollectRows` returns the error for
the first row it meets, and an empty result without one. The statement itself has
run: an UPDATE stays committed. The code does this in
`internal/store/waitlist.go:160`, `purchases.go:141` and `217`, `tiers.go:165`, and
`events.go:269` and `296`. The modules follow it wherever it changes what the system
does: the sweep of offers, the buyers' list of cancellations and notices, the feed.
`EndAllExpired` (line 296) loses only its answer: its task is retried, and the retry
finds nothing. The other two make handlers answer 500: `listTiers` and `getPurchase`
whenever there is a tier or a ticket to list, and `cancelPurchase` after its refund
has committed (`cmd/server/purchases.go:273`), so that the buyer who asks again
meets a conflict; answers are not modelled.

**Overtaken requests.** `PublishedHasTiers`, `PurchasesSurvive`, `TiersAreFrozen`,
`TiersRespectCapacity`, `ChangesAreStamped` and `StampsAdvance` speak of the steps
that are `Timely`: requests may overlap as they like, with each other and with
buyers and the sweep, and none of them may break these properties by acting on a row
that is still as it read it. A request that another has overtaken can: TLC finds a
violation of each of the six within seconds when `Timely` is TRUE. The organizer's
first request reads the event, the second one writes it, the first goes on.

## 5. Proofs

Every safety and action property that a passing run checks is also a theorem, proved
by TLAPS for every value of the constants: any set of connections, users, tiers,
requests and tasks, any capacity, any bound on clocks and retries. What the proofs
assume is stated with `ASSUME` in the modules, and TLC evaluates it in the runs:

| assumption | what it says, and why the code justifies it |
|---|---|
| `RowsAssumption` | foreign keys point to rows; a ticket belongs to one purchase; a purchase has a ticket and a tier a place (both columns are checked to be positive); tickets are finitely many |
| `GraceAssumption`, `EditAssumption`, `BoundsAssumption` | bounds and periods are natural numbers; a capacity is a limit or, for NULL, none |
| `WaitlistAssumption` | a purchase is of one tier; places, capacities and bounds are natural numbers; users and tiers are finitely many; an offer lasts an hour at least |
| `AdminAssumption` | tiers and purchases are finitely many; quantities are positive |
| `TimesAssumption`, `RoutesAssumption`, `GoogleAssumption` | the cooldown is shorter than the life of a reset token, and that than the hour the limit counts; an instance calls routes that exist; a Google account has one address |
| `ListingAssumption` | ids and starts are ordered; rows are finitely many; a page holds one row at least |
| `NothingAssumption` | `Nothing` is none of the values it stands beside |

None of the properties is inductive by itself: each rests on an inductive invariant,
which adds what is true between the statements of a handler. The invariants are
defined in the modules of the components, next to the properties, so that TLC can
check them; each proof module has one lemma per action, and a theorem that joins them.

**The sale** (`Purchasing_proofs`, `PurchasingResults`): `IInv`. That the books balance
after a commit needs that what the handler checked under its lock still holds. `CoreInv`
says so: a row has at most one owner (`LockInv`), what a sale or refund has checked
since it took its lock still holds (`BuyInv`, `CancelInv`), the bulk cancellation works
on a cancelled event, owns the rows it has flipped and misses no ticket of theirs
(`VoidInv`), and tickets follow their purchase (`TicketInv`). `Conservation` is
inductive on top of `CoreInv`, and so is `SoleTierInv`: an event with one tier is sold
out exactly when the tier is, because whoever sells it out or reopens it holds that
tier, hence a sale knows what it will leave and a refund what it found (`KnowsStatus`).
`NeverOversold` follows as live tickets are tickets of confirmed purchases, which
the books count. `NoDeadlock` goes down the order purchase, tickets, tier, event: nobody
who holds an event waits, so nobody in a circle waits for an event, then nobody in it
waits for a tier, and so on. `ImplementsTheBoxOffice` is the refinement, step by step.

**Tier edits** (`TierEdits_proofs`): `EditInv`. An edit takes no lock between reading a
tier and writing it, but its UPDATE waits for the tier's row: `CoreInv`, with
everything a handler has checked under its lock, survives the edits, and so do
`RefundedIsWhole`, `AdmittedOnce` and `NoWaitCycle` (`EditsSpareTheTickets`). What an
edit writes counts as many places sold as the row it read (`EditOK`), which is why
nothing ever has more left than it holds (`RowsFit`; a refund past the table's CHECK
still passes it, `RefundFits`) and why the books balance until a write replaces a row
it has not read (`EditsKeepTheBooks`). `NoOversell` is not kept: `edits_oversell`.

**Waitlist** (`Waitlist_proofs`): `QueueInv`. A task has seen a row only together with
all those that became visible before it and still wait (`SeenInOrder`), so the row it
locks first has nobody in front of it: `NobodyPassedOver` is kept, and with
`OffersAreDistinct` no two tasks promote one row. `QueueIsALine` is the refinement
of `WaitingLine` for every tier: each step changes the place of at most one row
(`PlaceIs`, `PlaceWillBe`, `MoveStep`), which is then a step of the line.

**Event administration** (`EventAdmin_proofs`): `AdminInv`. Always: a draft has no
purchases, no stamp is ahead of the clock, and none that a request carries is
(`CarriesPast`). For every request that is not overtaken: what it has read still
holds (`ReadStillHolds`), since buyers and the sweep cannot take an event back to
being a draft, and whoever else writes the event or a tier overtakes it. The
deletions of a timely request therefore hit drafts, which have no purchases, and its
update writes back the stamp that is there. `RoomHeld`, on top of it, is about a
sum: the room that `createTier` found is there until it inserts the tier, hence
`TiersFitTheCapacity`.

**Accounts** (`Accounts_proofs`): `IInv`. A reset that has stored its password either
ended the sessions of older ones or is about to (`ResetSignsOut`, with its exceptions);
a request about to link a Google account has it vouched for (`LinkOK`); a request that
was allowed to send a token has seen none but those older than the cooldown
(`CooldownOK`), which needs that the tokens are stored in the order of their age and
none is replaced while young (`TokensAge`).

**Listings** (`Listings_proofs`): `ListInv`. Rows have ranks in the order of the query
(`RankOrder`, `RankOnto`), so that a page is the rows of the first ranks
(`FirstCount`, `PageFacts`). Between two pages, what is on sale the whole time has
been shown or lies behind the cursor (`FeedInv`); a purchase only moves back in the
history, so that those still missing lie on a page still to be asked for (`HistoryInv`).

**`InductionLemmas`**: the library's induction theorems take a predicate as a parameter,
which the provers at hand (SMT, Zenon, LS4) cannot instantiate. A set has no such
parameter: the counterexamples to a claim are a set, and the theorem `WFMin` gives it a
least element. So stated, induction over the natural numbers and over finite sets is
usable, and it shows that the fold behind `Inventory` satisfies its recursion, that a
sum is monotone, and that it changes with one of its terms by as much.

**Only model-checked**: liveness under fairness (`HandlersReturn`, `OffersLapse`,
`PromotionsArrive`, `ResendReopens`), which the provers cannot treat; and, of course, the
behaviours that violate the properties of the three runs that expect it.

## 6. Not modelled

The loops that mail buyers, which change nothing; what handlers answer, and reads that
only answer (`getEvent`, `listTiers`, `getWaitlist`, analytics, draft visibility);
purchases that a stale delete of a tier takes along, outside of `EventAdmin`: no client of
`Listings` pages through them, and no lock of `Purchasing` meets their cascade;
password hashing, random tokens and QR codes, which are pure functions; the mailer beyond success and failure; the state cookie of the redirect to Google
and the exchange with it; the expiry of sessions after 30 days; routing,
configuration and the schema beyond the constraints that the actions carry.

## 7. Plan

Done: the models of all components that keep state, their runs, and the proofs:
(1) `Purchasing` with `SoleTierEventStatus`, (2) `Accounts`, (3) `Waitlist` with its
refinement, (4) `EventAdmin`, (5) `TierEdits`, (6) `Listings`.

What is left:

1. The positive side of the divergences of section 4: for each, the weakest history
   variable under which the statement holds (as `ConservationUnlessOverwritten` and
   `Timely` are for some of them), as an invariant and a theorem. First
   `CancelledEventIsVoid` (until a bulk cancellation fails or a sale was under way) and
   `TokenWorksOnce` (until two resets overlap or a deletion fails).
2. The safety half of the liveness properties: measures that a step of a handler
   lowers and no other step raises, which is most of `HandlersReturn`.
