# TF2-Scrims: specifications, model checking and proofs

TF2-Scrims is a Flask application with which teams of the RGL league schedule
Team Fortress 2 scrims and rent servers for them with credits bought by Steam
trades.  It runs as several gunicorn workers in several pods over one
PostgreSQL store (READ COMMITTED), with two CronJobs, `flask poll-payments` and
`flask reconcile-servers`, beside them.  Nothing is held in memory between two
requests: all concurrency is that of transactions on the store, and most of the
hard questions are about what happens between two statements or two commits of
one handler.

## 1. Inventory

| Component | Code | State | Operations | Models |
|---|---|---|---|---|
| Credit ledger | `app/credits.py`, `migrations/*.sql` | `credit_ledger`, append-only; the `users` row as lock | `reserve`, `spend_extension`, `release`, `grant` | `Entitlements`, `Credits` |
| Transactions | `app/db.py` | one pooled connection per request | `transaction`, `get_db`, `close_db` | inside `Credits` |
| Migrations | `app/db.py`, `app/__init__.py` | `schema_migrations`, an advisory lock | `migrate` | `Migrations` |
| Scrims | `app/scrims.py`, `app/routes/scrims.py` | `scrims` | propose, accept, decline, withdraw, cancel, list, claim, pull | `Scrims` |
| Servers | `app/servers_store.py`, `app/routes/servers.py`, `app/cli.py` | `servers` | attach, release, extend, reconcile | `ScrimServers` |
| Payments | `app/payments.py`, `app/steam_trade.py`, `app/routes/credits.py`, `app/cli.py` | `payments`, and Steam's trade offers | start, abandon, poll, complete | `Payments` |
| RGL link, teams, rosters | `app/rgl_store.py`, `app/rgl.py`, `app/routes/rgl.py` | `rgl_links`, `rgl_memberships`, `rgl_rosters` | link, refresh, unlink, ensure roster | `LeagueCache` |
| Season directory | `app/rgl_store.py` | `rgl_seasons`, `rgl_season_teams` | ensure season, hydrate a batch | `Directory` |
| Attendance | `app/attendance.py`, its part of `app/routes/scrims.py` | `scrim_attendance` | mark a player | `Attendance` |
| Access rules | `can_access`, `can_manage`, `is_member`, `get_scrim_for_viewer`, the guards of the routes | none of their own | who sees, who controls | `Pages` |
| Pages | `app/routes/*.py` and their templates | none | lists, links and buttons | `Pages`, in part |
| Trade links | `app/steam_trade.py`, `app/routes/account.py` | one column of the account | save, remove | not modelled |
| Accounts, sign-in | `app/accounts.py`, `app/steam.py`, `app/security.py` | `users`, a cookie | sign in | not modelled |
| Configuration, seed data | `app/config.py`, `scripts/`, build files | none | none | not modelled |

How they interact.  A handler that creates or claims a scrim may call
`attach_to_scrim`, which inserts a server and reserves a credit in one
transaction.  A handler that ends a scrim calls `release_if_unstarted`, which
cancels the server in one commit and gives the credit back in another.  The
extend route spends a credit, moves the window's end and, in the grace, sets
the server running, in three commits.  The reconciler reads every server that
is not over and writes new states from what it read.  The poller folds Steam's
offers into payments and grants credits.  All of them write the same ledger.
A page is rendered from the scrims, the servers, the balance and two caches of
RGL, memberships and rosters; its links and buttons are followed later, by
requests that check for themselves, in other words than the page did.

What is hard in it: checks in one statement and writes in another (`scrims.py`,
`release_if_unstarted`, `extend_window`, `check_can_pay`); background jobs that
act on rows they read a while ago; crashes between commits; offers seen again
and again, by one poller or by two; row locks taken in different orders; rows
replaced by a DELETE that does not see what others insert meanwhile; several
copies that migrate one store; forms sent off pages rendered long ago; rules
written once for a page and once more for its route, over teams that change.
`hazards` in `PROJECT.json` lists each at its line.

What makes each component correct:

- *ledger*: no account is overdrawn; a server and its reservation, a payment
  and its grant appear together, once; requests end;
- *scrims*: a status changes only as the header of `scrims.py` draws it; the
  first claim wins;
- *servers*: a credit buys its time, comes back at most once and only if the
  server never ran; one grace; every server ends;
- *payments*: credits come only of accepted trades, of the right account, once;
  no payment fails for Steam's bad minute; accepted trades are settled;
- *migrations*: each once, in order, and every copy starts on its schema;
- *links and rosters*: a linked user's memberships are those of one fetched
  profile; a stamped roster has everyone who was fetched with the stamp;
- *season directory*: what RGL has said of a team is not forgotten, and every
  participant is asked about at last, if RGL ever answers for those before it;
- *attendance*: marks come to rest after the scrim has begun, name who they are
  of, and are offered exactly when they would be taken;
- *pages and access*: a button that renders works, whoever may act finds the
  button, and links lead to pages that open, but for the two of section 3.

## 2. Modules

`Entitlements` is the abstract ledger: balances, servers and credited payments,
every operation one step.

`Credits` is the same ledger statement by statement.  A request (`job`) runs
one of four transactions: attach, extend, release, complete.  `pc` names its
next statement, or how it ended; the locks it holds follow from `pc`
(`HoldsUpdate`, `HoldsKeyShare`, `HoldsScrim`, `HoldsPayment`), and what blocks
whom is `WaitsFor`.  A statement of `_spend`, `_entry`, `create_server` or
`_complete` is an action; `Commit` publishes all a transaction wrote.  Only
committed rows are state, as READ COMMITTED shows them to the others.  A cycle
of waits ends by `DeadlockVictim`, a dead process by `Lose`.

| In `Credits` | In the code |
|---|---|
| `InsertServer`, `ServerForeignKey` | `create_server(commit=False)`: unique index, then foreign key |
| `FindServer` | the caller's read before `spend_extension` or `release` |
| `LockUser`, `Spend`, `Refuse` | the three statements of `_spend` |
| `CompareAndSet`, `Entry` | the UPDATE of `_complete`; `_entry` |
| `CommitAttach` .. `CommitComplete` | the commit at the end of each transaction |

`Scrims` is the scrim state machine as the routes run it.  `worker[w]` is the
request a worker serves: `Check` reads the row and evaluates the guards,
`SetStatus` writes later and unconditionally, `Claim` decides in its UPDATE.
The constant `Concurrent` says whether requests overlap, `Crashes` whether a
worker can die between two statements.

`ScrimServers` extends it with the servers, the ledger by account and scrim,
the extension route and the reconciler (`rec`, which keeps the clock and the
rows the run has read).  The calls that `Scrims` passes through, attach and
release, are modelled here.  A transaction of the ledger is one step: that it
may be is what `Credits` shows.  `graces` and `ran` are history.

`Attendance` puts `set_status` beside the handlers of `Scrims`.  `CheckMark`
reads the scrim and the membership, `Upsert` writes in a later statement; a form
is one that some page, however old, was rendered with (`forms`), because the
player's name travels in it.  Memberships and rosters change at any time
(`Refresh`, `SaveRoster`), each on its own: they are two caches.

`Pages` says for each user what the pages show and offer (`OnDetail`, `OnLists`,
`OnServer`, the lists, `AccessibleServers`) and what the routes accept
(`Accepted`, `Visible`, `CanAccess`, `CanManage`), each written as in its own
place in the code, over the steps of `ScrimServers` and users who change teams.
Here requests, runs and refreshes follow one another: what is compared is the
page and the route in the same state.

| In `Pages` | In the code |
|---|---|
| `Visible` | `get_scrim_for_viewer`, behind `rgl_link_required` |
| `IncomingPending` .. `OpenListings` | the queries of `scrims.py` |
| `ScrimsWithoutServers`, `AccessibleServers` | the two queries of the Servers page |
| `ListedServers` | what `servers_list.html` renders of the second: nothing to the unlinked |
| `ScrimLinks`, `ServerLinks` | every link to `scrims.detail` and `servers.server_detail` in the templates |
| `OnDetail`, `OnLists`, `OnServer` | the flags of `detail`, and the templates' conditions |
| `Accepted` | the guards of the POST routes and of the functions they call |

`Payments` has Steam, payers and pollers.  `poller[q].todo` is the list of
offers as they were when fetched; `Lookup`, `Oldest`, `ClaimOffer` and `Settle`
are the statements of `reconcile_offer`; `StartPoll`, `SecondPass` and
`EndPoll` are the two passes of `poll_once`.  `CheckCanPay` and `StartPayment`
are the two ends of `start_payment`, between which Steam is asked about holds.
`Garbled` says whether an answer of Steam's may lack an offer's state, which
`get_received_offers` takes for a dead one; it is FALSE in the runs.

`Migrations` is `migrate()` in several copies, of perhaps different releases
(`Ships`).  Versions are numbered in filename order.

`LeagueCache` has the requests that replace memberships and rosters, statement
by statement and row by row: `req[r].at` is the row of the next `INSERT`, a
team in the order of `FORMATS` or any of the players still to come.
`req[r].sees` is what a `DELETE` saw when it began; rows that others commit
later stay, and the `INSERT`s may meet them (`UniqueViolation`), or wait for
rows not yet committed, perhaps in a circle (`Deadlocked`).
What a request waits for is `WaitsFor`, derived from `pc` as in `Credits`.

`Directory` has `ensure_season` and `hydrate_season_teams`: a batch of pending
teams is one transaction, which asks RGL about a team at a time with the rows of
the earlier ones locked, beside the refreshes that want the same rows.  RGL
fails at any time, and for the teams in `mute` always.  The season's format may
be NULL (not `named`), for a `formatName` that `rgl.py` does not know; the first
team RGL knows then fails the batch at `rgl_teams.format` (`TeamUnnamed`).

The theorems are in `CreditsProof`, `MigrationsProof`, `AttendanceProof`,
`ServersProof`, `PagesProof`, which extends it, `PaymentsProof`,
`LeagueCacheProof` and `DirectoryProof`; the `MC` modules give constants their values.  A definition
whose comment begins with "Mutant:" is no part of a specification.  It is a
plausible bug in the definition after it, and the runs find it: each property of
a passing run is broken by one of them.

## 3. Runs

| Run | Bounds | Shows |
|---|---|---|
| `Credits` | 3 requests of any kind, 2 accounts, 2 scrims, 2 payments | all properties of the ledger, its inductive invariant, its refinement of `Entitlements`, and that requests end |
| `Attendance` | 2 workers, 3 teams, 1 scrim, 2 players of whom 1 has an account | marks settle and keep their names, the tracker offers what is taken, and the first claim wins, with crashes |
| `ServersDeployed` | 2 workers, 2 teams, 1 scrim, credit, extension and grace 1 each | one grace, no free time, every server ends, with crashes of workers and of the reconciler |
| `Pages` | 1 worker, 3 teams, 2 users who change teams, 1 scrim, credit 4, extension 2, grace 1 | buttons, lists and links agree with the routes, but for the links named below; the full list of promises about refunds, extensions, grace and status, and the refinement of `Entitlements`, over long sequences of calls |
| `PaymentsRaces` | 2 pollers, 1 request of 1 payer, 2 offers, 2 payments | credits are backed by accepted trades, once; no failure without a reason |
| `PaymentsOnePoller` | 1 poller, whose calls may fail, 1 payer, 2 offers, 1 payment | complete is final, accepted trades are settled |
| `Migrations` | 3 copies, of 1 and 3 migrations, one flaky | once, in order, nobody collides, the others start |
| `LeagueCache` | 2 requests, 1 user, 2 teams of different formats, 1 roster of 2 players | memberships and link are one profile, a stamp's players are there, lock waits end, with crashes |
| `Directory` | 2 requests, one mortal, 2 teams of which any may be mute, batches of 1 | settled teams stay settled; once the format is known, every participant below the first mute team is settled at last, over an API that fails |

In `Pages` no two requests overlap and nobody dies.  What it says of refunds,
extensions, grace and status is said of sequences: an overlap or a crash refutes
most of it (see below), and the hazards of `PROJECT.json` that need one name
other properties or none.  `GraceOnce`, `NoFreeTime` and `EveryServerEnds` of
`ServersDeployed`, and the theorem `PromiseIsUsed`, hold with both.

`PaymentsRaces` has one payer, so that credits of the *right* account are not
put to the test there; that conjunct of `CreditsAreBacked` is for the theorem
`CreditsHaveABacking`.  A second payer makes the run several times as long.

Why the bounds are enough.  The store orders conflicting statements pairwise:
row locks, unique indexes and compare-and-sets involve two transactions each,
and a third is there to come in between.  Two accounts are one that can spend
and one that cannot; two scrims let one account contend with itself on its
`users` row without contending for the unique index.  Scrims share nothing but
accounts, which the ledger covers, so one scrim suffices for the state machine
and for a server's life; three teams let two race for the third's listing.  The
time bound `Horizon` leaves room for a first credit, the extensions that the
opening balances can pay and the grace; after it the clock stands still, which
is why deadlock is not checked there, nor in `Attendance`, where time ends too.
One of its two players has an account and may mark both, if the scrim is of the
account's making; the other can only be marked.  Two users suffice for `Pages`:
each page is one user's, and a rule that concerns another user does so through a
team, which the two can share, swap or leave; the third team is one without a
user.  In `Pages` a unit of time is a
quarter of an hour, so that the constants are those of `config.py`.  Teams of
`LeagueCache` differ in format, so that a profile may name either, both or
none; two players can be inserted in two orders, which is what a deadlock of two
rosters takes.  The `Credits`,
`Payments`, `Migrations`, `LeagueCache` and `Directory` runs check deadlock.
In `Credits` and `Migrations` the type invariant is a conjunct of the `Inv` that
the run checks; elsewhere types are part of the invariants proved (section 4),
as far as the argument needs them.

Fairness.  `Credits`: a request whose next statement can run executes it, and
PostgreSQL's detector breaks cycles; a connection need never be lost.
`ScrimServers`: time passes, the CronJob is started again and again (weak
fairness of `Start`), and it is not killed every time before it has moved a
server (strong fairness of `Move`); nothing is assumed of players.
`Attendance`: time passes, and nothing else: `MarksSettle` needs no request to
be served.  `Payments`: polls go on, and are not cut off every time at the
same place, that is before the second pass, or before the same statement for the
same offer (strong fairness of `SecondPass`, and of `Lookup` and `Reconcile` for
each offer); nothing is assumed of Steam or the payers.
`Migrations`: a copy's steps are taken, and PostgreSQL grants a lock to its
waiters in turn (strong fairness of `TakeLock`); copies may be killed for ever.
`LeagueCache`: row locks are granted in turn too (strong fairness of
`Statement`).  `Directory`: besides that, members whose worker does not die
(outside `Mortal`) go on visiting the page (strong fairness of `Visit`), and of a
team that is not mute RGL does not fail to answer every time it is asked (strong
fairness of `Answer`, which is not enabled for a mute team).  Which teams are
mute is any set, chosen at the start; that the format is known at last is a
hypothesis of `DirectoryFills`, not of the specification.

### Violations

Where the code does not do what the repository says, a run shows it:

| Run | What TLC finds | Said by |
|---|---|---|
| `ServersRefundedTwice` | two requests that call a scrim off overlap: one credit comes back twice | 005 data-model, "each moving the balance exactly once" |
| `ServersLapsed` | the server of a listing nobody claimed starts and keeps the credit | 005 FR-056 |
| `PaymentsPoisoned` | a poll with an older view writes HELD over COMPLETE, and every later poll ends in the ledger's unique index | `cli.py`, "idempotent and safe to re-run" |

More of the same kind can be had by changing a configuration:

- `MCCredits` with two requests, `Opening <- MCOpeningTwo` and the invariant
  `NoWriterFails` shows two attaches paid by one account that deadlock:
  `servers`' foreign key shares the `users` row that `_spend` then locks FOR
  UPDATE (006 FR-008 wants no writer to fail because another writes);
- `MCAttendance` with the property `FollowsStateMachine` shows an accept and a
  withdraw that overlap: a cancelled scrim is confirmed (003 data-model:
  "Terminal states are immutable"); and it refutes `OfferedMarksAreTaken`: the
  page of a proposal has forms too, all of which `set_status` refuses (004
  data-model: "proposals never get trackers");
- `MCServersRefundedTwice.cfg` refutes `RefundedNeverRan` and `StoppedIsFinal`
  too (the reconciler starts a server from a row read before its cancellation),
  `NotCutShort` (it stops one that was extended meanwhile) and
  `ExtensionsBuyTime` (two extensions read one end);
- with `Crashes = TRUE` it refutes `CancelledWasRefunded` (death between
  `set_state(CANCELLED)` and `credits.release`) and `GraceBeforeStop` (death
  between `mark_grace_used` and `set_state(IN_GRACE)`);
- `MCServersLapsed.cfg`, without overlaps, refutes `CalledOffIsFree`: the attach
  route does not look at the scrim's status, and nothing gives back a credit
  spent on a dead scrim;
- `MCPaymentsOnePoller` refutes `OneAtATime` with two requests and two
  payments, and `NotOursToCredit` as it is: a trade passed over for want of a
  payment is claimed by the next payment its sender starts;
- `MCPaymentsOnePoller` with `Garbled = TRUE` refutes `FailsForAReason`: an
  answer of Steam's without `trade_offer_state` fails the payment that has
  claimed the offer (`steam_trade.py:207`);
- `MCPaymentsPoisoned` refutes `CompleteIsFinal` too;
- `MCLeagueCache` refutes `NoAuthorityUnlinked`: an unlink deletes the
  memberships it sees, a refresh commits its own, and the unlink deletes the
  link (003 rgl-routes: "link + memberships gone"); and `RosterIsOneFetch`: two
  first fetches that share no player are both kept.

Links that lead to a 404, and a server that is not listed, are the exceptions
that `DeadLinksAreKnown` names, and TLC finds each if its exception is dropped:

- a buyer keeps the page of their server when they have left both sides of its
  scrim, by joining another team or by unlinking; "this scrim" on it
  (`server_detail.html:38`) is a page they may no longer see;
- the page of an open listing names its server, with a link
  (`scrim_detail.html:102`), to everyone who may claim the listing, and
  `can_access` lets in only its own team and the buyer;
- a buyer who is on no team may open their server's page, and
  `servers_list.html:13` lists nothing to them.

Two more of the season directory, which `DirectoryFills` states as they are: a
team RGL never answers for keeps all teams of higher ids waiting, as each batch
breaks at it (`rgl_store.py:247-249`); and for a season whose format the site
does not know, `rgl_teams.format NOT NULL` fails every batch with a team that
RGL knows, so that the propose page fails on each visit.

Seen while modelling, and not stated by any document: the count of
attending players includes players who have left the team; when the leader RGL
names is not on the platform, a server has nobody to control it; a mark that was
past its checks when the scrim began is still written.

## 4. Proofs

TLC's instances are small; these hold for every value of the constants, from the
named assumptions of the modules: accounts own payments, a payment's worth is
positive, no account opens overdrawn (`CreditsAssumption`); releases only append
(`MigrationsAssumption`); `NoTeam` is no team, and teams, scrims and workers are
finitely many, so that the sums the code takes of the ledger exist
(`ScrimsAssumption`); credits, extensions and the grace last, and opening
balances are not negative (`ScrimServersAssumption`); users have an account each
and `Pages` does not overlap requests (`PagesAssumption`); Steam knows who sent
an offer (`PaymentsAssumption`); keys of users and of hosts are different things
(`LeagueAssumption`). Each module states an invariant that is inductive, `Inv`
or `IInv`, with a lemma for each action or group of alike ones.

`CreditsProof`.  `NeverNegative` is not inductive by itself: that the balance
found by the conditional INSERT still covers the credit at COMMIT
(`SpendIsCovered`) needs that nobody else's commit touches the account
(`UpdateExcludes`), which needs each operation at its own statements
(`OwnStatements`); likewise for the unique index (`ScrimExcludes`) and the
compare-and-set (`PaymentExcludes`).  It gives `TypeCorrect`, `Solvent`,
`HonestRefusal`, `Frozen`, and `Refinement`: `Spec => Promise!Spec`, a commit
being a step of `Entitlements` and everything else a stutter.

`MigrationsProof`.  Whoever is between lock and unlock has seen all that is
recorded, and has recorded all before its next file.  `ExactlyOnce`,
`FileOrder`, `NobodyLosesTheRace` and `ServesOnItsSchema` follow.

`AttendanceProof`, with overlaps and crashes.  A claim is the only handler that
touches an unclaimed listing: accept, decline and withdraw write late, but only
after they have read a pending row, only proposals are ever pending, and no row
changes its origin (`OpenIsUnclaimed`, `ReadBeforeWriting`).  Hence `FirstClaim`.
A form carries a name, for it was rendered for a player on the roster or for one
whose mark has a name.  Hence `MarksHaveNames`; `TrackerIsTrue` needs the types
only.

`ServersProof`, with overlaps and crashes.  Some promises about servers do not
survive these (section 3); three do.

- *One grace* (`OneGrace`).  Only the reconciler marks a grace as used and
  nothing takes the mark back, so what a run has read of it is never too low
  (`ReadUnused`); and it grants the grace only to the server it has just marked
  (`Marked`).
- *No free time* (`EveryWindowIsPaid`).  Rows are not deleted, and owners and
  starts not rewritten, so what a request found is there when it writes
  (`FactsHold`).  What is booked for a server then covers its window, that of
  the request about to write it, and every extension spent and not yet written
  (`Windows`).  Two extensions that read one end lose one; neither is free.
- *The ledger's promise* (`PromiseIsUsed`): each step is a step of
  `Entitlements`, or none of its business.  `Credits` implements the same
  module, so what the statements keep is what the handlers rely on.

The last two are about sums: a balance adds up the entries of all scrims, a
server's price those of all accounts.  `SumFunction` is recursive, and the
library's induction takes an operator as a parameter, which the provers cannot
instantiate; so `Induction` is proved for a *set* of numbers, from the
well-foundedness of `<`, and the two facts needed of a sum, that it is a number
and that one entry more changes it by that entry, follow from it.

`PagesProof`, without overlaps.  What a request has checked is still so when it
writes (`WorkIsRight`), what a run has read is still so when it acts
(`RunIsRight`), so a server is on only once its scrim has begun, and is
cancelled only when its scrim is over (`Sound`); that is all the pages and the
routes could disagree about.  `EveryButtonWorks`, `EveryScrimIsActionable`,
`UnservedScrimsCanBeServed`, `EveryStopHasItsGrace`,
`NoStopBeforeTheEnd` and `TheStateMachine` follow, whether or not workers die
between two statements, of runs that go through.  `NoOtherDeadLinks` needs who
bought a server: the account of one of the scrim's sides, which only ever change
from nobody to a claimer (`Sides`).  `CancelledIsRefunded` assumes
`~Crashes`, for a worker that dies between the two commits refutes it; its
invariant adds that of each server exactly one reservation is not given back,
until its refund (`Booked`).

`PagesAreServers` shows that each of a user's requests is a request of
`ScrimServers`, which hands down what is proved there, `UsesThePromise` among
it. The ledger then fits the servers. Nothing is given back of a server that is
not cancelled, and one that has run never is (`Returned`): `RefundsNeverRan`.
What a worker or a run is about to write over is not over yet: `OverIsFinal`. A
server that is still reserved has more reservations than refunds (`Counted`),
and the request that will give one back holds the others off: `RefundsOnce`, of
the property that two overlapping requests refute (section 3). These hold even
if requests die. A server's end and the extensions about to be written add up to
exactly what was bought (`Settled`): `ExtensionsAreGiven`, assuming `~Crashes`
again, for a worker that dies after it has spent leaves the window behind.

`PaymentsProof`, for any number of pollers, cut off anywhere.  An offer fetched
as accepted is so for good (`FetchedIsOldButTrue`), and one fetched as dead too,
unless an answer may lack its state; so what a poller
carries is old but, where it decides anything final, true; a poller that settles
has its offer's one payment (`ReadyToSettle`, `Claimed`).
`CompletedIsCredited` and `CreditsHaveABacking` follow, and, from `~Garbled`,
`NoFailureWithoutReason`.
`CompleteForGood` has one poller for its hypothesis, which `concurrencyPolicy:
Forbid` is to see to: `_set_state` is unconditional, so it takes that what the
poller settles is not complete (`Undecided`), which a second poller could change
between the lookup and the write (`PaymentsPoisoned`).

`LeagueCacheProof`, for any number of overlapping requests.  A refresh locks the
user's link before it looks at the memberships, so refreshes of one user are one
after the other (`OneRefresher`); an unlink keeps to no such order but only
removes, so nothing is there that a refresh's DELETE has not seen
(`NothingUnseen`).  `NoMixture` and `StampIsTrue` follow.

`DirectoryProof`: `SettledForGood`.  Two statements write an entry, and neither
makes a settled one pending, however old what its transaction was told.

Every safety invariant, action property and refinement that a passing run
checks is stated by a theorem.  Only model-checked is liveness
(`EveryRequestEnds` of the ledger and of the caches, `EveryServerEnds`,
`AcceptedIsSettled`, `OthersStart`, `DirectoryFills`, `MarksSettle`): it rests on
fairness and ENABLED, which are beyond the prover.

## 5. Abstractions

A team stands for its members: the guards ask only on which side of a scrim
the actor is, and one account pays for a team.  All teams play one format.  An
offer's items are reduced to whether they reach `PAYMENT_MIN_KEYS`; its dead and its
pending states are one each.  `update_settings`, names, maps, passwords and
labels are left out; `mark_failed_to_place` and the states `pending_payment`,
`starting`, `failed` and `unknown` are produced by no code yet.  The pool's size
and timeout are left out: a request that gets no connection does nothing.
Of RGL's answers, the profile's ban and verification flags, names and divisions
are left out, as is the order `division_browser` shows them in.  In
`LeagueCache` and `Directory` a transaction's last statement and its commit are
one step, and in `Directory` so are the two statements that write a team.  A
claim's time is taken by its UPDATE, not before it waits for a rival's row lock;
a unit of time is far longer than that wait.

## 6. What is left

Not modelled, and why:

- *Accounts and sign-in*: one idempotent upsert of the account's own row, a
  signed cookie, and an OpenID exchange whose verdict is Steam's; no step reads
  state that another request could have changed.
- *Trade links*: the parsing of a URL, and one update of the account's own row.
  Payers of `Payments` have one.
- *Configuration, seed data*: settings are the models' constants; the script for
  demonstrations writes rows directly.
- *The opponent picker, the credits page, forms that create scrims*: they show
  what the queries return, and the handlers check again; their handlers are in
  `Scrims` and `Payments`.
- *The pool*: a synchronous worker serves one request with one connection, and
  cannot exhaust its process' pool.

Worth adding, if the code grows there: the states that a server provider would
produce (`starting`, `failed`, `mark_failed_to_place`), once something calls
them; several teams of a user in different formats in `Pages`; the age of an
offer against the payments started after it (`NotOursToCredit`), once the code
takes it into account.
