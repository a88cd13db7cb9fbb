# Verification of mises-airdropsvc

TLA+ models of the airdrop service, checked with TLC and, where a property
should hold for every number of rows, requests and threads, proved with TLAPS.
Paths below are relative to the repository (`src/`).

## 1. The system

The service pays airdrops to users who connect a Twitter account, and to the
channels that brought them. Everything durable is in MongoDB; payments are
commands to a faucet of the mises chain, made through the mises SDK. The service
is called over gRPC and HTTP, by users and by a scheduler that calls its "plan"
endpoints periodically; every request runs in a goroutine of its own, nothing
stops two from running at once, and there is no lock anywhere.

| Component | State it keeps | Operations |
|---|---|---|
| **Twitter dispatcher** `app/services/airdrop/airdrop.go` | package variables `totalAirdropNum`, `airdropStop`, `airdropDo`; the goroutine `airdropTx` | `AirdropTwitter`; callbacks `OnTxGenerated`, `OnSucceed`, `OnFailed` |
| **airdrops collection** `app/models/airdrop.go`, `app/models/search/airdrop_search.go`, `lib/db/odm/db.go` | one row per airdrop: owner, coin, `tx_id`, `status` | find, list, create, update by `_id` |
| **Faucet client** `lib/airdrop/airdrop.go` | one client object with one listener; the SDK's queue in memory | `SetListener`, `RunAsync` |
| **User balances** (`UserExt` of sns-socialsvc, external) | `AirdropCoin`, `ChannelAirdropCoin` per user | find or create, store |
| **Channel dispatcher** `app/services/channel_user/channel_user.go` | package variables of its own, same names | `AirdropChannel`; the same callbacks, by track id |
| **Twitter plans** `app/services/user_twitter/plan.go` | states in user_twitter_auth | lookup, check, tweet, reply, like, follow |
| **Twitter login and information** `app/services/user_twitter/index.go` | none of its own | `TwitterCallback`, `GetAirdropInfo`, the coin formula |
| **user_twitter_auth** `app/models/user_twitter_auth.go` | a document per user: five state fields, tokens, counts | create, partial updates, delete, search |
| **Channels, channel users** `app/models/channellist.go`, `channeluser.go`, services | a channel per user; a channel user with a valid state and an airdrop state | create, update, count, page |
| **Pagination** `lib/pagination` | none | traditional and quick pages |
| Handlers, middleware, configuration, storage, logger, generated code | none that changes | translation and set-up |

How they interact. The lookup and check plans read user_twitter_auth, call
Twitter, insert a row into airdrops (`createAirdrop`) and set the amount of the
channel user. `AirdropTwitter` pays the default rows of airdrops,
`AirdropChannel` the valid channel users: both hand commands to the *same*
client and wait for the *same* listener slot. The SDK calls the listener back on
its own goroutines: the outcome updates the row, credits the user's balance and
submits one more row.

### What is hard

* The dispatcher's package variables are shared by the request, the feeder and
  the callback threads: a check of the budget, a load, a store and a boolean,
  none of them locked or atomic.
* An outcome names a misesid, not a row. Which row it settles is decided by a
  query, and a user may have several rows.
* Updates are by `_id` and unconditional. What was true when the row was read may
  not be when it is written.
* Any call can fail, and a write that reports an error may have been applied. The
  process can die between any two steps and keeps only the database.
* The context of the request reaches the callbacks, so a caller who hangs up makes
  later reads fail. The request itself waits on an unbuffered channel without a
  timeout.
* The plans are read, call Twitter, write back; the documents may have changed.
* The amount of a channel user is read when it is paid and once more when it is
  credited, and the plans write it.

`PROJECT.json` lists these as hazards, each at its line.

### What makes each component correct

* *Dispatcher*: no credit without a successful payment; no more rows settled than
  payments answered; a row is settled only if it was submitted; no goroutine
  submits a row twice in a session; the budget is respected up to what is
  inherent in its unlocked test; a transaction id is not overwritten; a stopped
  dispatcher stays stopped; the request returns.
* *Search*: the filter that is built selects what the search record asks for.
* *Channel dispatcher*: the same with the track id, where settling the wrong row
  is excluded, also when the outcomes of the other dispatcher are reported to it.
* *Plans*: nobody is marked as paid, and no channel user valid, without a row in
  airdrops; a user gets a second row only through a failure; every user is looked
  up and decided in the end; a pending tweet was not sent yet.
* *Login*: one document per user and per Twitter account.
* *Channels*: the duplicates a race can make are bounded; the channel answered is
  the caller's own, and its total promises no more than its pages show.
* *Pagination*: a walk shows every row, agrees with its totals, ends.
* *Coin formula*: amounts are bounded, and suspicion never raises one.

Several of these hold only while plans, or logins, do not overlap. Nothing in the
code prevents an overlap; section 3 says what is lost then.

## 2. Modules

| Module | What it models |
|---|---|
| `AirdropSearch` | The search record, the clauses made from it (`BuildSearchParams`) and how `odm.DB.Where` merges them; the five queries of the dispatcher. Operators only. |
| `AirdropCollection` | The airdrops collection and the balances: each operator is one database call. |
| `FaucetClient` | The client, its one listener, and the SDK's commands with their stages. |
| `AirdropDispatch` | The Twitter dispatcher, on top of the three before. |
| `FaucetLedger` | Abstract: what a dispatcher promises the owner of the faucet. |
| `AirdropLedger` | The refinement mapping from `AirdropDispatch` to `FaucetLedger`. |
| `ChannelDispatch` | The channel dispatcher. What is the same program is an `INSTANCE` of `AirdropDispatch` over channel users; the rest is its own. |
| `Dispatchers` | Both in one process on one client, and the mapping of the two to `FaucetLedger`. |
| `TwitterAuths` | The collection of logged-in users: each operator is one database call. |
| `TwitterPlans` | `TwitterCallback` and the six plans over `TwitterAuths`. |
| `TwitterCoin` | `GetTwitterAirdropCoin` and `IsValidTwitterUser`, and how the plans change the inputs to them. |
| `Channels` | `ChannelInfo`: the creation of a channel and the count of its users. |
| `Pagination` | The traditional and the quick paginator, with a client that walks, over rows it is given. |
| `ChannelPage` | What the owner of a channel sees: `Channels`, and `PageChannelUser` as an `INSTANCE` of `Pagination` over the users of all channels of one owner. |
| `MC...` | Values, constraints and symmetry for TLC, one per model; `MCAirdropAmounts` puts the dispatcher and the formula of the amounts it pays side by side. |
| `AirdropDispatchProofs`, `AirdropLedgerProofs`, `ChannelDispatchProofs`, `DispatchersProofs`, `TwitterPlansProofs`, `TwitterCoinProofs`, `ChannelPageProofs` | Theorems about the module of that name. |
| `UnitSums` | Lemmas about sums of amounts, which the models write as the number of pairs of a row and one of its units (`Units`). |

### AirdropDispatch and the code

A goroutine is either a request's feeder (`s \in Sessions`) or an SDK thread
(`t \in Threads`). `pc` is its next step, `local` its local variables; `session`
is the program counter of the request itself. The labels follow the code:

| Code | Actions |
|---|---|
| `AirdropTwitter` | `ResetBudget`, `ResetStop`, `ResetDo`, `StartFeeder`, `AwaitStop`; `Rendezvous` is the receive |
| `airdropToStop` | `StopClear`, `StopSend`, `Rendezvous` |
| `airdropTx` | `ListAirdrops`, `NextAirdrop`, `FeederEnds`, and `airdropRun` |
| `airdropRun` | `RunCheck`, `RunSubmit`, `RunLoad` and `RunStore` (the decrement), `pendingAfter` |
| `pendingAfter` | `PendingFind`, `PendingUpdate` |
| `OnTxGenerated` | `OnTxGenerated`, `TxFind`, `TxUpdate` |
| `OnSucceed` | `OnSucceed`, `SuccessFind`, `SuccessUpdate`, `ExtRead`, `ExtWrite`, `Again` |
| `OnFailed` | `OnFailed`, `FailedFind`, `FailedUpdate`, `Again` |
| `airdropTxOne` | `GetOne`, and `airdropRun` |
| `createAirdrop`, elsewhere | `Insert` |

Every access to a package variable and every database call is a step of its own;
what happens between two of them touches only local variables. Go's memory model
gives the unlocked accesses no meaning; the model takes each as atomic and in
program order, which is what a 64-bit build without reordering does. Stale and
lost values come from the interleaving of a load and a store.

A call made under a context succeeds only while that context is alive. Beyond
that, a call may fail by itself, and a write that fails may have been applied
(the answer is lost). `RunAsync` takes no context; the callbacks' After functions
run under `context.Background()`; `airdropTxOne` runs under the context of the
request the listener was registered with (`local[t].ctx`).

The conditions that the query before them already decides are not repeated:
`airdrop.Status != enum.AirdropPending` after a query for pending rows
(`airdrop.go:170`, the second half of `:241`), `:194` and `:223` after queries
for default rows. That `:194` is such a condition is the finding below.

The SDK, not in the repository, is modelled from its use: it reports the events of
one command one at a time and in order, generated before succeeded, and failed at
any point; different commands in any order and, with several threads, at the
same time. Its queue is in memory, so a crash loses the commands without an
outcome. `cmds[c].by` and `cmds[c].ep` are history: who submitted a command, and
during which session.

Left out: printing, `finish_at`, the values `UID` and `TxID` of a search, which
the dispatcher does not set, and the type clause (the dispatcher's rows are the
only type there is). `Owner` stands for both the uid and the misesid of a row.

### ChannelDispatch and Dispatchers

`airdropTx`, `airdropRun`, `airdropToStop`, the budget, the callbacks' entries and
the two-call credit of `channel_user.go` are those of `airdrop.go` with other
variables; `ChannelDispatch` takes those steps from `P == INSTANCE AirdropDispatch`
with the rows, states and balances of channel users substituted. Its own are:
`getChannelAirdropList` and `airdropTxOne` (valid *and* default rows),
`pendingAfterFind` (by `_id`, a weaker test), `successAfterFind`,
`failedAfterFind`, `txGeneratedAfterFind` (by the track id, with a test of the
state), and `UpdateTxID`, which does not write the state.

The documents are validated by the lookup and check plans. Of a plan `q` only two
steps concern a channel user: `FindChannelUserByUID` reads the document, and goes on
if it is not valid yet (`doChannelUser[q]`, as the variable of that name in
`plan.go:94` and `:527`); `PlanEnds` writes the state and the amount together
(`UpdateCreateAirdrop`), without testing the state again, or fails before it gets
there. The amount is any number up to `MaxAmount[r]`; that a tenth of
what `GetTwitterAirdropCoin` gives is bounded is `CoinAlwaysBounded`. So `amount[r]`
is a variable of the document, and `copied[p][r]` is the copy that goroutine `p` has
read: the feeder pays the amount of its list (`channel_user.go:114`), a callback
credits the amount it read when the payment succeeded (`:176`, `:189`).
`cmds[c].amount` is what was really paid. `rewritten` is history: the rows a plan wrote
although another plan had made them valid meanwhile.

`OnFailed` calls `err.Error()`
on an error that may be nil (`channel_user.go:166`); the panic, in a goroutine of
the SDK, ends the process and is a `Crash`.

In `Dispatchers` each dispatcher keeps its variables, and `listener`, `cmds`,
faults and crashes are shared. An event goes to the dispatcher whose request
registered last, whoever submitted the command. A Twitter command has no track
id, so the channel callbacks look for `NilObjectID`; a channel command has a
misesid, so the Twitter callbacks may find a Twitter row of the same user.

### TwitterAuths and TwitterPlans

`pc` is the next step of a plan's worker or of a login; `list[w]` holds the
*copies* a plan has read and not handled, `cur[w]` the copy at hand as it will be
written. One database call is one step; a call of Twitter, with the computation
after it, belongs to the step that takes the next copy, because it reads and
writes nothing shared.

| Code | Actions |
|---|---|
| `TwitterCallback` | `Callback`, `FindByTwitterUserId`, `FindByUid`, `FindAirdropByUid`, `CreateUser` |
| `runLookupTwitterUser` | `Call`, `Lookup`, `DeleteUser`, `SaveFindState`, `FindChannelUserByUID`, `CreateAirdrop`, `Save`, `SaveChannel` |
| `runCheckTwitterUser` | `Call`, `Check`, and the last four of the above |
| send, reply, like, follow | `Call`, `Act`, `ActSave` |

Twitter's answers are the classes the code tells apart: a profile that is valid,
invalid or doubtful, an error, an unauthorised error, a rate limit, "already
done". The order by followers may be any order; the filters on the app name and
the number of followers only make a list smaller (`ListsOfSome`). `airdrops[u]`
counts rows, `chanValid[u]` is the valid state of the channel user; `posted` is
history: for whom Twitter has a tweet. Tokens, user agents and amounts are left
out here; amounts are the subject of `TwitterCoin`.

### Channels, Pagination and ChannelPage

`Channels` has a step per database call of `ChannelInfo`. The mutex of
`BeforeCreate` is a local variable, so taking it excludes nobody and is not a
step. When the insert fails, its result is nil and is used
(`channellist.go:120`): the request ends without an answer, whether the row is
there or not. `Pagination` has a step per database call of `Paginate`; the walking
client is not part of the repository, follows the page numbers until a page is
not full, or the `next` ids until there is none, and asks again for a page that
failed. The `odm` session is shared by the two calls of a page: the first sort
stays, a later limit or skip replaces the earlier.

`ChannelPage` is where they meet. Another service inserts a channel user
(`RegisterChannelUser`) under a `channel_id`; `ChannelInfo` counts by `channel_id`,
`PageChannelUser` selects by `channel_misesid`. So with two channels of one owner,
which a race can create, the total is about a part of what the pages show. The
collection grows between any two calls.

## 3. What the runs check

### The Twitter dispatcher (`MCAirdropDispatch`, `MCAirdropAmounts`)

User u1 owns rows 1 and 3, u2 owns row 2, so a lookup by misesid can meet the
wrong row. Row 3 is worth 2, the others 1.

| Run | Instance | Question |
|---|---|---|
| `serial` | 3 rows, 1 session, 1 thread, list of 2, budget 2, no fault | Exact bookkeeping when nothing fails |
| `faults` | rows 1 and 3, list of 1, 1 fault and 1 crash, with fairness | Does the ledger survive failures, is the request answered, and does it stay stopped then? |
| `threads` | rows 1 and 3, 2 threads, list of 2, cut at 3 commands | Unlocked package variables; two payments of one user answered at the same time |
| `overlap` | 1 row, 2 sessions, 1 crash, cut at 2 commands | A second request during the first, or after a crash |
| `failed_pending` | rows 1 and 3, no fault | A finding; expected to be violated |

Properties (each is stated and explained in `AirdropDispatch.tla`):

* `CreditBacked`: a balance is at most what the user's successful commands can
  justify. It holds with overlapping sessions, a double submission, a crash and a
  write that is applied although it fails, because only a success event leads to
  a credit, and a lost update only loses.
* `SettledBacked`: at most one success row per success and one failed row per
  failure. Holds although updates are unconditional.
* `SettledWasSubmitted`: a row is pending or success only after a command for this
  very row, although outcomes are matched by misesid.
* `RunnerNeverRepeats`: no goroutine submits a row twice within one session. It
  rests on `pendingAfter` returning its errors.
* `BudgetUndershoot` (one request, one thread): the feeder and the thread together
  pass the budget by at most one. With more threads, or a second request, stale
  stores take the counter further down, -4 with three threads, and it is not
  claimed. It is about the counter: a store that is delayed raises it
  again, so the number of commands of a session is *not* bounded by the budget in
  the code, and the model does not claim that either.
* `SuccessIsCredited` (one thread, no failure): a balance is at least what the
  user's success rows are worth. With two threads the code can lose a credit
  (`airdrop.go:208`).
* `TxIDWriteOnce` (one thread): a transaction id is not overwritten.
* `ReturnedMeansStopped` (one request): after it returned, no callback submits again.
* `SessionReturns`: the request is answered or the process died.
* `ImplementsLedger`: the refinement of `FaucetLedger`. A successful payment is
  owed until its callback leaves `successAfter` (`OnSucceed` is `Pay`, leaving is
  `Settle`, a crash is `Forget`); it is settled at most once, and a balance moves
  only then, to at most what the settled payments are worth. Everything else
  stutters.

### The channel dispatcher (`MCChannelDispatch`)

Rows 1 and 3 came through the channel of u1.

| Run | Instance | Checks |
|---|---|---|
| `channel` | 1 row, 2 plans, 1 thread, 1 fault, 1 crash, with fairness; the row is registered and validated at any time, with amounts 0, 1 and 2 | `TypeOK`, `CreditExact`, `SessionReturns` |
| `channel_threads` | rows 1 and 3, both valid before the first session; 2 threads, list of 1, 1 fault, 1 crash, cut at 3 commands | the other four |

* `SettledByOwnPayment`, `TxIDOfOwnPayment`: unlike the misesid, the track id never
  lets the payment of one row settle, or name, another.
* `PaidExact`: per row, not per user as in `CreditBacked`: a balance
  is at most the sum of what the user's successful payments paid, although the amount
  is read once to pay it and once to credit it. It rests on a plan writing only a row
  that it found not valid and the dispatcher paying only valid ones, and is true as long
  as no two plans look up the same user at once (`PlansApart`, which one plan ensures).
* `CreditExact` (`channel`): two plans that overlap may both find a row not valid,
  and the second may write another amount after the first one's was paid and before it
  is credited. Then *more can be credited than was paid*: with two plans `PaidExact` is
  false. That is a behaviour of the code, which nothing in the repository speaks of, so
  it is the exception of the property: a balance is at most what the payments of each
  row paid, where a row that a plan rewrote while it was valid counts for the largest
  amount a plan writes. With one plan no row is rewritten, and the two are the same.
* `SettledIsFinal`: a settled row changes its state only when it was submitted
  twice. It rests on outcomes being dropped when they arrive before the row is
  pending, which also means that such a row stays pending for ever.
* `SessionReturns`: as above.

### Both dispatchers (`MCDispatchers`)

Run `both`: airdrop 1 and channel user 2 belong to one user; one request of each
kind, one thread, cut at 2 commands, a crash at any time, fairness.

* `ChannelSettledByOwnPayment`, `ChannelCreditExact` (`CreditExact` of the channel
  dispatcher): hold whichever dispatcher's outcomes the channel listener is told.
* `ImplementsSharedLedger`: the ledger as above, for the sum of the two balances. The Twitter balance
  alone is not: a channel payment whose outcome is reported to the Twitter
  listener settles a pending Twitter row of the same user.
* `TwitterReturns`, `ChannelReturns`: a request that is not answered has lost the
  listener to the other dispatcher. That it may wait for ever then is a behaviour
  of the code, and the properties say that it is the only reason.

### Login and plans (`MCTwitterPlans`)

| Run | Instance | Shows |
|---|---|---|
| `plans` | 2 users, 2 accounts, 1 worker, 1 login, list of 1, 1 fault, 1 crash; lookup and check, with fairness | All but `PendingIsUnsent` of the properties below |
| `plans_jobs` | 1 user, all six plans, 1 worker | `PendingIsUnsent` |
| `pending_sent` | 1 user, 2 workers | A finding; expected to be violated |

What two plans or two logins at once can do to `AirdropIsBacked` and
`ChannelUserIsBacked` is not a run but two theorems, for any number of them.

* `AirdropIsBacked`, `ChannelUserIsBacked`: the mark on a user and the valid state
  of a channel user are written after the row was inserted, from copies that may
  be stale, and are backed all the same.
* `OneAirdropEach`: a user has at most one row more than there were failures and
  crashes. With two lookup plans at once the code inserts two rows without any
  failure, and this is not claimed.
* `OneDocumentEach`: with logins one after the other, and up to the failures of
  the lookup by account, whose error is not looked at (`index.go:612`). With two
  logins at once a user can get two documents, or reset the find state of one.
* `LookedUpInTheEnd`, `CheckedInTheEnd`: a list of one is the sharpest case, since a
  document the plan passes over without writing it would hold up all behind it.
* `PendingIsUnsent`: a tweet whose state is pending was not posted.

The finding of `pending_sent`: a check plan that overlaps a send plan writes
`send_tweet_state` back from its stale copy, and the tweet just sent is pending
again (`user_twitter_auth.go:163`).

Seen while modelling, without a run: the plans store job state 5 and valid states
5, 6 and 7, which the comments on the structure do not list (`plan.go:407, 480,
482, 534`). No plan selects them again, nor find state 3: such a user is not
retried.

### The coin formula (`MCAirdropAmounts`)

Where the amounts of rows come from is checked together with how they are paid:
`serial` also takes a user with counts and check results on both sides of every
threshold, and lets the lookup plan count the users of the device, again and again,
the check plan examine the followers, and the followers grow. The formula and the dispatcher share no
variable, so the constraint `Apart` explores each while the other stands still.

`CoinIsBounded` (a valid user is worth something, so `createAirdrop` does not
refuse it with "coin is zero", and so is the channel's tenth) and
`SuspicionNeverPays` (neither more users of the device nor an examination of the
followers raises the amount, although the rules of the score overwrite one another;
counted again, the users of a device may have become fewer, and the amount may rise
then). The first of
these rules, a score of 1 for a user without tweets, is dead: the next statement
overwrites it with 10. Arithmetic stays far below 2^64 for any number of
followers Twitter can report.

### Channels and pages (`MCChannelPage`)

`channel_page`: 2 requests for 2 owners, then a client that walks through the
pages of one owner, with either paginator; up to 6 users, one failing call or
crash, fairness for the walk.

* `DuplicatesAreBounded`: an owner never has more channels than requests that
  overlapped. Two requests at once do create two: "if not exist to create"
  (`channel_list.go:52`) is a count and an insert that nothing holds together.
* `AnswerIsOwn`: the channel answered is the caller's, although only its `_id` is
  remembered between the calls, and the total is at most what the pages select.
* `WalkIsComplete`: every row that was there when the walk began is shown, although
  new rows push the others from page to page and pages are asked for again.
* `TotalsAgree`: the total is counted before the rows are listed, and still never
  promises a page that is not there.
* `WalkEnds`: inserts are finitely many here; a traditional walk could follow a
  collection that grows for ever.

### Bounds

`MaxFaults`, `MaxCrashes` and `MaxCommands` are the only bounds of the dispatchers
that are not in the code; `Budget` and `ListNum` are 20 and 5 there. Budget 2 with
three rows, or with two rows of which one can be submitted twice, makes the
budget run out in mid-session; `ListNum` 1 leaves rows for the callbacks to fetch,
and with 2 the feeder itself submits both. One fault is enough to break each of
the retry and error paths the mutants change; two rows of one user are the
smallest case in which an outcome can meet the wrong row. `CommandBound` cuts
`overlap`, `threads`, `channel_threads` and `both`. In `overlap`, with one row, two
commands let a row be submitted twice; without the cut a second feeder can submit
it without end. In `threads` and `channel_threads` three commands for two rows are
two payments under way and one row submitted twice. `faults` and `channel` are not cut. `MaxAmount` is 2 for the row that plans
rewrite, so that the second amount can be more, or less, than the first; two
plans are the fewest that overlap, and a third would only rewrite the row once more.

Constraints: `InsertedInOrder` fixes the order in which the ids of rows are given
out, as MongoDB does in one process; `InsertedFirst`, `ValidFirst` and
`RowsFirst` put the inserts and validations before the first session in the runs whose
question is elsewhere. `RewrittenOnce`, in `channel`, ends with the first time that a
plan writes over a valid row what the plans do to it: the theorems have no such bound.
Symmetry is over requests, over threads and over plans, which no definition tells
apart, and is used only where no liveness property is checked.

In the plans, `MaxDocs` stops new logins, and `MaxAirdrops` cuts states in which a
user has more than 3 rows, as many as one fault and one crash allow.
`MaxUsers` is the size of the collection a client walks, two full pages of the
largest size that makes several, so that a walk can have a third, empty one; `MaxFailures`
counts failed calls and crashes. `Apart` lets `ChannelInfo` and a walk follow each
other, not overlap: they only share the rows, and `AnswerIsOwn` compares with the
rows and not with a walk. Without bounds on failures the models only repeat what
one failure shows, since each call's failure leaves it in a state that the bounds
already allow; the invariants of the Twitter dispatcher and the backing of
airdrops are proved without them.

The runs of the dispatchers and of the pages do not check for deadlock: the model
has finitely many requests, and a service without requests does nothing. A request,
too, may really stay for ever (two requests, `airdrop.go:33`). The plans are called
again and again, and their runs do check it.

### Fairness

`FairSpec` has weak fairness for each goroutine (the Go scheduler runs
what can run), for the meeting of a sender and a receiver on a channel, and for
the events of the SDK: it reports an outcome for a command in the end, while a
thread is free. A thread that waits on a channel is not free. There is no
fairness for starting a request, inserting a row, hanging up or a crash. `faults`
uses one request, because with two the first may never be answered.

`ChannelDispatch` and `Dispatchers` assume the same for the goroutines of either
dispatcher. In `TwitterPlans` a plan that runs goes on (weak fairness), and the
scheduler calls each plan again and again (strong fairness for each plan, because
one worker runs all of them and is not always free): the plans are endpoints made
to be called periodically, and do nothing by themselves. There is none for logins,
failures or crashes. In `ChannelPage` a client that walks goes on; nobody has to
begin a walk, and no row has to arrive.

### The finding of `failed_pending`

`failedAfter` asks for `Statuses {default, pending}` and checks that it got one of
the two. But the zero value of `Status` is `AirdropDefault`, `BuildSearchParams`
adds a clause for every `Status > -1`, and `Where` lets the later clause for the
same key replace the earlier one. A failed payment of a pending row therefore
finds no row, or fails another, default row of the same user; the pending row
stays pending. `failed_pending` shows the behaviour, the theorem
`FailedAfterSeesDefaultOnly` that no row can be found otherwise.

## 4. What is proved

Assumptions, all in the modules that declare the constants: rows are positive
numbers with positive amounts, requests and threads (logins and workers) are
different, the background context is not the context of a request, requests of
`ChannelInfo` are finitely many, the bounds are natural numbers.
`LargestAssumption` says that some row of a user has the largest amount, and
`WorthAssumption` the same of airdrops and channel users together; they
follow from the bound on amounts that `CoinAlwaysBounded` proves, and are needed
only because the set of rows is not assumed to be finite. `KindsAssumption` says
that an airdrop is not a channel user and that a channel user is paid to its
owner, `ChannelAssumption` what the channel dispatcher assumes of its rows: that they
are positive numbers, and that for each there is a largest amount (`MaxAmount`) that
a plan writes, any natural number. None bounds the number of rows, requests, threads,
users, plans or logins.

Some properties hold only while certain goroutines do not overlap. Their theorems
say so in a hypothesis, and hold for any number of everything else: `OneEach` (one
request and one callback thread), `OneRequest`, `OneThread`, `OneLogin`, `OnePlan`
("any two are the same"), and `PlansApart` (no two plans at one channel user). The code ensures none of them; section 3 says what an
overlap costs.

### The Twitter dispatcher (`AirdropDispatchProofs`)

* `TypeCorrect`: `Spec => []TypeOK`. `TypeOK` is not inductive: an action that pays
  or updates the row at hand needs that row to exist. `TInv` adds `Held`: a
  goroutine past its lookup holds an existing row, the balance about to be written
  is a natural number, the feeder's list and the commands name existing rows. Rows
  are never deleted, so this survives the steps of others.
* `SettledRowsWereSubmitted`: `Spec => []SettledWasSubmitted`. `SInv` adds that a
  goroutine about to write pending or success holds a row with a command: the
  submitting goroutine because it has just queued one, a callback because it found
  the row pending.
* `RunnersNeverRepeat`: `Spec => []RunnerNeverRepeats`. `RInv` adds that commands
  carry no later session, that a feeder's list holds none of the rows it has
  submitted, and that a row a thread submitted in this session is no longer
  default unless the thread is at it, is about to clear `airdropDo`, or the
  dispatcher has been stopped. `ResetDo`, the one step that sets `airdropDo`, also
  begins a new session. Holds for overlapping sessions.
* `OneTxID`: `TxIDWriteOnce` when there is at most one callback thread. The
  thread that has read an empty `tx_id` is the only one that writes it.
* `BudgetBounded` (`OneEach`): `BudgetUndershoot`. `BInv`: a goroutine between the test
  and the store keeps the counter from being negative, two of them have a counter
  of at least one, and a value that is loaded is not staler than that. Before the
  first session has started its feeder nothing was submitted, so no callback runs
  during the reset (`NothingYet`).
* `AnsweredIsStopped` (`OneRequest`, any number of threads): `ReturnedMeansStopped`.
  A goroutine comes to the send of `airdropToStop` only through its first
  statement, and the statement that sets `airdropDo` runs before the first command
  exists (`AInv`).
* `StatusClauseWins`, `FailedAfterSeesDefaultOnly`: what the search selects.

`TInv` is `OwnInv`, which is about what only this dispatcher has, and what
`FaucetClient` shares with the other one; `OwnInv` is proved from any step in
which the commands pay existing rows, so that it holds in `Dispatchers` too.

The proofs share a list of what a step can do to the commands, the status of a
row and the program counter of a goroutine (`CommandSteps`, `StatusSteps`,
`Moves`), so that each invariant is argued once over that list and not over every
action.

### The accounts (`AirdropLedgerProofs`)

* `CreditsBacked`, `RowsBacked`: `Spec => []CreditBacked` and `[]SettledBacked`. They
  compare sums with the number of successful commands, and neither is inductive: a
  callback on its way to a credit must not share its command with anything already
  credited. `LInv` counts, for each user, the commands whose callback is *past*
  its credit (or past the success, or the failure, of the row): `CreditsPast` and
  `SettledPast` bound balances and rows by those only, `SumsPast` bounds the sum a
  callback is about to store by the same number before its own command is past,
  and `CallbacksOK` says that a command has one callback at a time, which runs
  because of its outcome and holds a row of the user it pays. A command is never
  un-passed, and a step that credits or settles passes one command; so each side
  grows by one at the same moment. A crash passes all.
* `SuccessesCredited` (`OneThread`): `SuccessIsCredited`, the other direction. `UInv`
  says, while nothing failed, that a balance covers the success rows but those of
  a callback between its update and its store, and that the sum this callback is
  about to store covers its row too. That needs the sum to be fresh, which one
  thread ensures and two do not.
* `LedgerRefined`: `Spec => ImplementsLedger`. With `LInv`, `OnSucceed` adds one
  command to the owed ones and to the paid ones, leaving `successAfter` removes
  one, and the balance it leaves is bounded by `CreditsPast`; a crash empties the
  owed ones; every other step leaves all three alone.

### The channel dispatcher (`ChannelDispatchProofs`)

Any number of rows, plans, requests and threads, without a hypothesis except in
`ChannelCreditsPaid`.

* `ChannelTypeCorrect`: `TInv` is `TypeOK` in the parts that the steps shared with
  `AirdropDispatch` change together, with what the goroutines hold, and that a row
  exists once it is valid.
* `ChannelRowsSettled`, `ChannelTxIDs`: `SettledByOwnPayment`, `TxIDOfOwnPayment`.
  `CallbackInv` says that a command has one callback at a time and that this
  callback holds the row the command pays, which the track id is for. Commands
  keep their row and their outcome, so what justified a state justifies it for ever.
* `ChannelCredits`, `ChannelPaidAsRecorded`: `CreditExact`, `PaidAsRecorded`. As in
  `LInv`, a balance is bounded by the commands whose callback is past its credit, and
  the sum about to be stored by those and its own; but the bound is a sum of amounts,
  unit by unit, and not a number of commands times the largest amount. `UnitSums` has
  what such sums do. That the amount credited is no more than the amount paid is
  `AmountInv`, which ties three copies of it to the document: while a row was not
  rewritten, a goroutine that holds it (on its list, or about to pay or credit it)
  has the row valid and copied its present amount, and so has every command. Only
  `PlanEnds` writes an amount, and for a valid row that makes it rewritten; then what
  is left is that no amount is above `MaxAmount` (`AmountsBounded`). A row that becomes
  rewritten is worth more from then on, which keeps every bound.
* `ChannelCreditsPaid` (`PlansApart`): `PaidExact`. A plan that goes on to write a row
  still has it not valid, because no other plan can have written it in between
  (`ApartInv`); so no row is ever rewritten, and `CreditExact` is `PaidExact`. The code
  does not ensure the hypothesis.
* `ChannelSettledFinal`: `SettledIsFinal`, an action property. `OnceInv` says of a row
  with a single command that one goroutine is at it while it is still default, and
  that a callback about to settle it has it pending; so no step takes it out of a
  settled state. Two commands for a row are what the property excepts.

### Both dispatchers (`DispatchersProofs`)

No hypothesis: any number of rows, requests and threads of either kind, and the
outcomes of both told to the listener that registered last.

* `BothInv` is the invariant of all that follows: `OwnInv` of `AirdropDispatchProofs`,
  `ChInv` for the channel dispatcher's variables, and `CommandsOK`: a command pays an
  airdrop *or* a channel user. So a callback of either dispatcher may run for a
  command that its own rows know nothing of. `ClientMoves` is what any step
  does to the commands, whoever takes it, and `ChEffect` lists what a step does to the
  channel's rows, goroutines and balances; a Twitter step does none of it. Each
  invariant is argued over these two lists.
* `ChannelRowsSettled`: `ChannelSettledByOwnPayment`. `ChCallbackInv`: a command
  has one channel callback at a time, and one that got past its lookup holds the row
  its command pays. A Twitter command pays no channel user, so its callback never
  gets there.
* `ChannelCreditsBacked`: `ChannelCreditExact`. `ChCreditInv` bounds a channel balance by
  what the commands that are past their credit are worth, and `ChAmountInv` ties the
  amounts together, as `ChannelCredits` does; a success that is told to the Twitter
  listener is past at once, which only makes the bound larger. A Twitter command pays
  no channel user, so its amount is not one of those that are copied or credited.
* `SharedLedgerRefined`: `BothSpec => ImplementsSharedLedger`. `BothMoves` lists the
  steps once more, by what they do to the threads of both: one dispatcher goes on
  and the other rests, an outcome is reported to a thread that runs no
  callback, or the process dies. `PayeeInv` says of every callback whom it pays, that
  the row at hand is one of that user, and that a thread runs a callback of one
  dispatcher at a time. So a step is for the accounts a `Payment`, a `Settlement`,
  a `Loss` or `Quiet` (`AccountMoves`), which are the actions of the ledger and a
  stutter. The bound on the balance is not inductive: a sum that was read
  may be stored long after. `BooksInv` divides the settled payments of a user into
  those that the Twitter callbacks may have credited and those that the channel
  callbacks may have; either balance, and every sum about to be stored in it, is
  covered by its own part, and a settlement adds one to one of the two. No part need be
  the payments of that dispatcher's rows: a Twitter callback may settle a
  channel user's payment, which is why the ledger bounds the sum and not each.

### Login and plans (`TwitterPlansProofs`)

* `AirdropsBacked`, `ChannelUsersBacked`, for any number of plans and logins at once.
  Plans write whole groups of fields back from copies, so `IInv` says of every copy
  in a list, and of every copy at hand, that a mark on it is backed. Rows of
  airdrops are never deleted, so a stale copy stays backed.
* `PlansTypeCorrect`: `TypeOK`, with `IInv` and what it leaves out (`MInv`).
* `DocumentsAreSingle` (`OneLogin`): `OneDocumentEach`. A login that has found no
  document of its user is still right when it creates one, because plans create
  none (`UserIsNew`), also across a crash; an account that two users hold costs one
  failure of the lookup by account for every user but one. The look-ups take
  the newest document, so that one finds any needs that a nonempty finite set of
  numbers has a greatest: `Greatest`, from the well-founded order of finite sets.
* `AirdropsAreSingle` (`OneLogin`, `OnePlan`): `OneAirdropEach`. Copies are not stale,
  and a document that a plan is about to pay for is not marked (`FreshInv`); a user
  with more rows than there were failures and crashes has a document that says so,
  or a plan that is about to write it (`RowsFew`).
* `PendingTweetsUnsent` (`OneLogin`, `OnePlan`): `PendingIsUnsent`. While nothing
  failed, whoever has posted is not pending in the collection, except the user
  whose post the plan is about to record (`SentInv`).

### Channels and pages (`ChannelPageProofs`)

No hypothesis: any number of requests, owners, clients, rows and page sizes, both
paginators, any failures.

* `PageTypeCorrect`: `TypeOK`, from the invariant of the requests (`CInv`) and that of
  the walks (`WalksOK`).
* `AnswersAreOwn`: `AnswerIsOwn`. `CInv` says at which steps a request has a channel,
  that it is one of the caller's, and that the total is at most what the owner's
  channels have between them, which never shrinks (`Growing`).
* `DuplicatesBounded`: `DuplicatesAreBounded`. The channels of a user and the requests
  about to insert one are counted together; a request joins the latter only while
  there is no channel, and an insert moves one from there.
* `WalksComplete`, `PageTotalsAgree`: `WalkIsComplete`, `TotalsAgree`. Of the collection
  the walks know only that it grows. A page is an interval of rows, counted from
  the newest (`FindInterval`). `WalkOK` says what was shown before the next call:
  before page `num`, the rows of the start after `rows - Offset`; before the id
  `next`, those after it. An insert moves the first border up and leaves the second,
  so neither loses a row. `PagesOfTotal` is the arithmetic of `TotalPages`.

### The coin (`TwitterCoinProofs`)

`CoinAlwaysBounded` and `SuspicionCosts`, for every number of followers and every
check result. The score is one of three, and the amount grows with it.

### Only model-checked

Everything that needs fairness (`SessionReturns`, `TwitterReturns`, `ChannelReturns`,
`LookedUpInTheEnd`, `CheckedInTheEnd`, `WalkEnds`), which is beyond the prover. Every
other property of a passing run is stated by a theorem. `PaidAsRecorded`, the other way
round, is proved and in no run: it is what `CreditExact` rests on.

## 5. Not modelled

* *Generated service code* (`proto`, `svc`, some 15,000 of the repository's 20,500
  lines of Go) and the two main functions: encoding and routing without a state of
  its own. For this reason the share of all lines that the models cover is small
  whatever is modelled.
* *Handlers, middleware, factories*: stateless translation. Their one effect, a
  goroutine and a context for each request, is in the models.
* *Environment, logging, storage, utilities, error codes*: set-up and formatting.
* *Configuration records*: a find-or-create whose only user has no caller.
* *Twitter's HTTP calls and OAuth signing, the mises SDK and chain, the user
  service*: external; their answers are inputs or environment actions.
* *Information requests* (`GetAirdropInfo`, `GetChannelUser`, the urls of a channel
  and the amount shown with them): they read and format, and change nothing.
* *Code without a caller*: `CreateAirdropMany`, `CountAirdrop`, `UpdateUserTwitterAuth`,
  `CreateUserTwitterAuthMany`, the ranking of channel users, `BeforeCreate` of
  channel users, the admin paginator, the quick paginator's ascending order (its
  two conditions on `_id` replace each other) and its count. The quick paginator
  itself has no caller either, and is modelled because it is a protocol.
* *Overflow* of `(pageNum - 1) * pageSize`: the database refuses the negative skip.
