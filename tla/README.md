# A formal model of integration-github

integration-github is an adapter between the Yggdrasil workflow engine and the
GitHub REST API.  It keeps no state of its own: a request comes in (over HTTP or
AMQP, through the adapter SDK), the adapter makes one call to GitHub or a short
sequence of calls, and a reply goes back.  What makes it hard is everything around
that sentence: five requests run at once, others use the same repositories, a call
may be applied although its answer is lost, the process may stop between any two
steps, and AMQP then delivers the request again.

This directory holds TLA+ modules for that behaviour, TLC configurations that check
them on small instances, and proofs, checked by TLAPS, of what must hold for every
instance.  Paths and lines below are those of the repository; the operation
`create_pull_request` is in `internal/adapter/pull_request.go`, written `PR` here.

## 1. Inventory

| part | source | state it keeps | operations | correct when |
|---|---|---|---|---|
| execute handler | `controllers/message/execute.go`, `rpc.go` | none | decode, normalise operation and capability, gate, route, reply | nothing unsupported reaches GitHub; both shapes of a dispatch mean the same; a failure is a reply, never an error that puts the delivery back |
| request resolution | `spec.go:643-732, 784-839` | none | settings from input, caller, instance | the documented defaults are used |
| `create_pull_request` | `pull_request.go` | local variables across seven kinds of calls | validate, read base, blobs, tree, commit, branch, pull request | commits are whole; nobody's work is overwritten; replies and errors tell the truth |
| `dispatch_workflow` | `spec.go:222-254, 615-682` | none | one POST | a run is started once per delivery |
| `create_repository`, `upsert_environment`, `grant_team_repository_access` | `spec.go:354-530` | none | one POST or PUT | one creator; a failure means nothing was done; a put can be repeated |
| `create_runner_token`, `list_runners` | `spec_extra.go` | none | POST; GET and a gate | a token that is answered can be used; the gate agrees with the runners there are |
| `catalog_discover` | `spec.go:532-613, 841-1027` | none | GET, projection, filters | every item found once, nothing left out unseen, every integration in a place of its own |
| GitHub client | `spec.go:1029-1069` | none | one request, one answer | an answer is taken for what it is; a call ends |
| describe contract and handler | `spec.go:46-191, 302-352`, `describe.go` | none | contract, provider and version check | what is described is what is served, and what was checked is what executes |
| process lifecycle | `main.go` | transport, adapter and health server | start, run, shut down | a pod serves, with its probes up, or ends; a failure is seen as one; a signal ends it |
| adapter SDK, broker (external) | dependency of `go.mod` | queue, slots | receive, reply, acknowledge | |
| GitHub (external) | | refs, commits, pull requests, settings | the REST API | |

Interaction.  The SDK calls a handler registered in `main.go:40-41` with a
delivery, at most `Concurrency` (5) at a time.  `ExecuteHandler` calls
`adapter.Execute` or `adapter.DispatchWorkflow`, which call `doGitHubRequest`
synchronously, once or several times.  There are no callbacks, no shared Go
variables that change, no locks.  All sharing is in GitHub: two handlers, two
processes or a person can change the same branch or setting between any two calls.

In the process there are two goroutines of its own, `main` and the health server's, and
each can end it (`logger.Fatal`).  Pods of several versions share the two queues.

Hard behaviour: interleaving of executions on one branch; the base branch moving
under an execution; sequences of calls that stop half-way; answers that are lost,
late, incomplete or never come; redelivery after a crash; retries of requests that were
carried out; listings that are stale or cut off; a describe answered by one pod and an
execute taken by another.  `PROJECT.json` lists each hazard at its line, with the
property that covers it, or why none does.

## 2. Modules

```
Resolve          settings from the maps of a request          (definitions)
  ProposalInput  the input of create_pull_request             (definitions)
    ChangeRequest   files, trees, overlays                     (definitions)
      Publication      what create_pull_request promises      (abstract specification)
      GitRepository    one GitHub repository and its other users
        PullRequest       the operation, call by call         -> implements Publication
          MCPullRequest      instances for TLC
          PullRequestProofs  theorems: what is committed
            OutcomeProofs      theorems: what callers are told, who publishes
              PublicationProofs  theorem: the refinement of Publication
    Routing         from a request body to calls              (definitions)
      Delivery         queue, SDK, handler, GitHub
        MCDelivery        instances for TLC
        DeliveryProofs    theorems
  RunnerPool     a pool of runners, brought up and waited for
    MCRunnerPool    instances for TLC
    RunnerPoolProofs  theorems
  Catalog        catalog_discover over changing repositories
    MCCatalog       instances for TLC
    CatalogProofs   theorems
Lifecycle        processes in pods
  LifecycleProofs  theorems
  Handshake        describe and execute between a core and pods of several versions
    MCHandshake      instances for TLC
    HandshakeProofs  theorems
```

**Resolve**.  `FirstString`, `ResolveRepository` and so on are the functions of the
same names.  A JSON object is a function from keys to values; `None` is the empty
string, and a value that trims to nothing.  `a ?? b` is the ubiquitous
`if a == "" { a = b }`.  A repository name is `[owner, name]`, with owner `None` for a
name without slash: that is all the code ever looks at.

**ChangeRequest** abstracts Git: a tree is a function from paths to contents, and
`Overlays(base, entries)` are the trees GitHub may build from a base tree and a list
of entries (several, when a path is listed twice).

**GitRepository** has `refs`, `commits`, `pulls` and the history variable `reflog`
(every commit a branch has pointed at).  Other actors push (which also creates
branches), delete branches, and close or merge pull requests.

**PullRequest** has one action per call: `GetRefSHA`, `GetCommitTreeSHA`,
`CreateBlob` (one iteration of the loop `PR:93-104`), `CreateTree`, `CreateCommit`,
`CreateRef`, `OpenPullRequest`.  Each contains the call, GitHub's effect, and what the
code does with the answer, because between request and answer an execution touches
nothing else.  `pc` says which call comes next; `req`, `baseSHA`, `baseTree`,
`entries`, `newTree`, `newCommit` are the Go variables `req`, `baseSHA`,
`baseTreeSHA`, `blobs`, `newTreeSHA`, `newCommitSHA`.  `CallRefused` is every early
`return ..., err`, and `CallLands` what GitHub applies after that.  `Faults` selects what
can go wrong:

| fault | meaning | code |
|---|---|---|
| `refused` | GitHub or the network turns a call down | `spec.go:1051-1068` |
| `lost` | the call is applied, the answer does not come or does not decode | `spec.go:1053`, `PR:231,249,268,298` |
| `blank` | the answer decodes, and the field that is read is `""` or 0 | `PR:216,234,252,271,301`; only `PR:196` checks |
| `late` | the connection breaks, the code returns its error, and GitHub applies the call afterwards or never | `spec.go:1051-1054` |
| `crash` | a process stops between two calls, or (with `late`) during one, with all or some of the executions there are | |

For a read, a lost answer is the same as a refused call, and a blob, tree or commit made
late is one nobody will ever name: `late` concerns the branch and the pull request.  GitHub's other reasons to
turn a call down (rate limits, rights, "no commits between") are `refused` as well.

**Publication** is `create_pull_request` for somebody who sees only branches, pull
requests and replies: ask, publish, open, answer.  A branch appears in one step, with
all the files of one request on top of a tree the base branch has held, and only if
there is none of that name; the pull request is a second step, taken only by the
execution that published; anything can give up, what was done stays, and one more
step may follow (`doubt`), but no second one.  `PromiseKept` in PullRequest is the refinement
mapping.

**Routing** is what the handler and the operations compute before a call: the
normalisation and the gate, both shapes of a dispatch, and, for each operation, the
call or the two calls it makes as records (how GitHub treats it, target, body,
expected statuses).  Of `create_pull_request` it keeps the two calls whose effect
others see; the rest is PullRequest.

**Delivery** follows deliveries through the queue, a handler slot, the calls, the
reply and the acknowledgement.  The handler is `Receive` (up to the gate),
`CallApplied` and `CallFailed` (one call), `Finish` and the shared `Return`; `Handling` are
the deliveries that have one of the `Concurrency` slots; `Send`, `Reply`, `Ack` and `Crash` are
the SDK and the broker.  Reply and acknowledgement
come in either order, as nothing in this repository fixes it.  Faults are those of
PullRequest without `blank`, and two more: with `hang` a call never ends and keeps its
slot until the process stops (`CallHangs`; `http.DefaultClient` has no timeout and the
handler does not use its context), at most `MaxHung` at a time; with `timeout` the caller
stops waiting (`GiveUp`), and whatever the adapter answers later is not looked at.
`Crash` takes any of the deliveries that processes hold: all of them, or those of one process
while others go on.  The broker delivers again what was not acknowledged.  It does so too when
only the connection is lost (`main.go:78-80` speaks of it) and the old handler goes on, as it
does not look at its context: that is why all the calls such a handler has left are in doubt,
and `late` counts how often each call is, since a redelivered one can be in doubt again.  This is
the AMQP transport; over HTTP a crash just leaves a caller
without a reply, which is the same model without redelivery.  `accepted`, `writers`
and `settled` are history variables.

**RunnerPool** composes the two runner operations with what they are for: a workflow
asks `CreateRunnerToken` for each machine, machines `Register` with their tokens (or let
them `Expire`), runners `Change`, and the workflow polls: `ListRunners` is the call, with
what GitHub answers at that moment (any page of `PageSize` runners, as no order is
promised), and `GateRunners` all the code does with it (`spec_extra.go:124-177`), later.
With `blank`, an answer that decodes and has no runners in it is an empty list to the code
(`Answer`), and an answer without a token is an error.  A label that is asked for need not be
one any runner has.
`HasAllLabels`, `RequiredLabels`, `MinCount` and `TooFew` are the functions and the
condition of the code.  The answer is kept with the snapshot it is about.

**Catalog** has the repositories of an owner, which people `Change`, and the last answer of
`Discover`.  Names are sequences of the words between hyphens: all the code does with a
name is to drop a leading "integration-", to cut at "-on-" and to replace hyphens by
spaces, so `Trimmed`, `Cuts` and `Position` are about positions in a sequence.
`CatalogItem`, `Limit`, `KindsAskedFor` and `MatchesQuery` are the functions of the code;
a query is one word.  The page is any set of repositories of the right size.

**Lifecycle** is `main`, step by step, in `Pods` with their environment (`settings`):
`Configure` up to the start of the health server's goroutine, `Run`, `RunStops`,
`RunFails`, `Shutdown`, and in the goroutine `ProbesListen` and `ProbesFail`.  `End` is what
`logger.Fatal` and the return of `main` have in common, `Fatal` the former; `failed` says that
something in the process has failed, whatever the process made of it, and `exit` how it ended.
`Listens` is the switch of `main.go:43`, `Describes` that of `spec.go:61`.  `settings` are the
environment of a pod and the version of its build.

**Handshake** adds steps of a core (external, as `describe.go:16-19` and `spec.go:46-51`
speak of it): `Describe` is `DescribeHandler` in one pod of the transport (`answerer`), with the
core's comparison of the answer, `Execute` is taken by one pod, and pods start, fail and stop
between the two.  `Version` is that of a pod's build; `Malformed` is a body that does not decode.

## 3. Runs

| run | question | bounds |
|---|---|---|
| `PullRequest_rivals` | Two executions want one branch; who wins, and what does the loser leave? | 2 executions, 2 requests on one branch, 1 push to main, refused, lost, late, crash of one or both |
| `PullRequest_shared` | Are commits, branches and replies right while others work on the same branches? | 2 executions, 5 valid and 10 invalid requests (stacked branches, a path twice, head = base, instance defaults), 1 push to main or to the feature branch, deletion, refused, lost, late |
| `PullRequest_answers` | Does every execution answer, and truthfully, whatever answers it gets? | 2 executions of one request, refused, lost, blank, late, deletion of the branch; fairness |
| `PullRequest_atomic` | Is the operation atomic, as described? *Violated.* | 2 executions, refused |
| `Delivery_faults` | Every operation in every shape: does the gate hold, is ok true, who creates, what do redelivery, late calls and rivals do? | 2 deliveries, all bodies, refused, lost, late, timeout, 1 crash |
| `Delivery_queue` | Does every delivery end, and does no failure hide a success? | 3 deliveries, 3 bodies, 2 slots, 1 hanging call, 1 crash; fairness |
| `Delivery_owner` | Is default_owner used? *Violated.* | |
| `RunnerPool_fleet` | Is the gate right about the runners there are, do all machines register, and does the wait end? | 3 machines, pages of 2, 6 forms of expect, 1 fault of any kind; fairness |
| `RunnerPool_page` | Does it end in a pool larger than a page? *Violated.* | |
| `Catalog_discover` | Is anything missed, misplaced or mixed up? | at most 4 of 12 repositories, 13 inputs, limits 3 and 4, answers cut off above 3 |
| `Handshake_pods` | Does a pod serve what it describes, end when told, and show failures; does the version that was checked execute? | 2 pods, 7 environments with 2 versions, 2 starts, 10 manifests; fairness |
| `Handshake_update` | Also in a rolling update? *Violated.* | |

What they show:

* `CommitsAreWhole`, `CommitsBranchOffTheBase`: a commit holds exactly the files of one
  request on the tree of its parent, and the parent was a head of the requested base,
  although the head may be five calls old.
* `AdapterNeverMovesABranch`: creating the branch with POST, not PATCH, is what keeps
  the adapter from overwriting anybody.
* `OneWinnerPerBranch`, `PullShowsOwnCommit`: as long as nobody deletes branches, of all
  executions for a branch one publishes; the others fail at createRef, so a pull
  request never shows a rival's commit.  With deletion both fail to hold, as they
  should: the second assumes that no other actor touches feature branches.
* `SuccessIsPublished`, `ErrorTellsWhatIsLeft`: a success is true when it is told, and the
  step in an error message ("create ref", "open PR", ...) bounds what was left behind.
* `PromiseKept`: the whole implements Publication.
* `OkIsTrue`, `FailureMeansNothingDone`, `OneCreator`: replies against the effects, through
  crashes and redelivery.
* `ReplayChangesNothing`: the actions the catalog flags `Idempotent` are the ones that
  can be redelivered, provided nobody else wrote the setting meanwhile.
* `LastAnswerStands`: without a crash, a request sent after all others were answered
  "ok" determines the setting.  A late call cannot break this because its delivery was
  answered with a failure.  A crash does break it: a redelivered older request
  overwrites a newer value.
* `NoRepeatWithoutCrash`, `EveryDeliveryEnds`, `UnsupportedStaysOut`, `ShapesAgree`: the
  handler's part of the protocol.  `EveryDeliveryEnds` allows one call to hang for good:
  the delivery it belongs to stays, all others are served, as long as a slot is left.  With
  three deliveries for two slots one has to wait, and gets its turn only if every other way
  through the handler (refused, failed, interrupted) gives its slot back.
* `GateIsExact`: the gate opens only if enough runners with all labels were online when
  GitHub listed them, and stays shut only if not, if the pool does not fit on a page, or if the
  answer lacked its list; `TruncationShows`: `total_count` tells a caller when that is so.
* `EveryMachineRegisters` (the check at `spec_extra.go:60` keeps empty tokens out) and
  `WaitEndsOnOnePage` are what a workflow gets from the two operations together.
* `NothingIsMissed`: an owner with no more repositories than the limit gets one item for each
  marked one and none for others, or an error; `IntegrationsArePlaced` and
  `ConventionKeepsApart` say that what is derived from a name is never empty and never
  the same for two integrations named by the convention.
* `DescribesItsTransport` (two switches agree), `FailuresShow` (what has failed has ended, with
  status 1, and status 0 means neither), `ProbesOutliveTheAdapter`, `EveryStartSettles`,
  `SignalEndsThePod`: the process as whoever operates it sees it.
* `VerifiedIsExecuted`, `SomePodMatched`: what the handshake is worth: all of it while the
  pods of a transport have one version, whichever of them answers and executes, and during a
  rolling update only that a pod of the expected version answered before.

Four runs end in a violation, on purpose: they check what the documentation or a
comment of the repository says.

* An execution can leave a branch without a pull request (`spec.go:347`: "Atomically").
* `default_owner` is never used by `resolveRepository` (`spec.go:94` against `706-714`).
* The gate of `list_runners` sees one page only, so that a workflow can wait for ever
  (comment at `spec_extra.go:82-83`).
* A version mismatch does not always "abort execution before a dispatch crosses the wire"
  (`spec.go:49-51`): execute does not check the version again.

Other disagreements are plain in the code, and no run is spent on them.  Four operations
of the README (`list_workflow_runs`, `describe_workflow_run`, `ensure_repository_environment`,
`ensure_repository_secret`) are not in `SupportedExecuteOperations`.  `create_repository`
takes only the name from `repository` and the owner from elsewhere (`spec.go:359-367`), so
"beta/app" can become "acme/app".  The GitHub App credentials the README recommends are
not read (`spec.go:693-700`).  `min_online_with_labels` without a count is not gated
(`spec_extra.go:142` against `80-82`).  The repositories "a" and "integration-a" get entries of
one name (`spec.go:970` against `156`).  The generic form of a dispatch reads a token from
`github_token` as well (`spec.go:620`), the typed form only from `token`: a caller who sends the
former is served with the instance's token in one shape only (`ShapesAgree` is about the others).  The example manifest asks for version 1.0.0; the
adapter is 1.2.0.

**Bounds.**  Every property of PullRequest relates one or two executions, so two are
enough to violate it; three commits besides the root give one to each and one to
another actor.  Three branches are a base, a contested branch and one stacked on it.
Two paths and three contents make a replaced, an added, an untouched and an empty
file.  `MaxPushes` = 1 moves a branch once between any two calls.  In Delivery two
deliveries are a request and its duplicate, rival or successor; `MaxCrashes` = 1 gives
one redelivery, at any point.  `Delivery_queue` has three, more than its two slots, of which one
hanging call leaves one to serve with.  It takes states for one that differ only in `writers` and
`settled` (`VIEW QueueView`): its properties do not read these two histories, and as all its bodies
make one call, no guard does; what a state can do next is the same, fairness included.
Three runners on pages of two are the smallest pool that does not fit, one of them lacks a
label, and one fault lets a poll or a token fail and the next succeed.  The catalog's twelve repositories are one for each branch of the
projection and each pair that could be mixed up; four at a time exceed the default limit
and the size that is cut off, and reach the maximum.  Two pods, of one version or of two, are the one that is checked
and the one that executes; the second start of a pod is one after a failure.  Constants of the
code that are data are small there: 50, 100 and 100 become 3, 4 and 2.  The proofs have none of these bounds.  Executions and
commits (root excepted) are interchangeable, as are deliveries, so the safety runs use
symmetry; the runs with liveness do not.

**Deadlock** is not checked: all executions, waits, starts and steps end, and then nothing
has to happen.
`EveryExecutionAnswers` and `EveryDeliveryEnds` are the statements that nothing stops
half-way.

**Fairness.**  `PullRequest!Fairness` is weak fairness of `Step(x)`: a goroutine whose
call has ended goes on.  It says nothing about requests arriving or other actors.
`Delivery!Fairness` is weak fairness of serving: as long as some delivery can be received,
make its call, finish, be answered or acknowledged, one of them goes on.  It does not
say which: the SDK may serve deliveries in any order, and as each takes finitely many
steps, all get their turn.  Every call that does not hang ends, one way or the other.
Which calls hang is free.  `RunnerPool!Fairness`: the workflow goes on
asking and polling until it has what it wants, and a machine uses its token; runners need
not do anything, and `WaitEndsOnOnePage` has their staying as its hypothesis.
`Lifecycle!PodFairness`: the two goroutines go on, and the SDK's `Run` returns after a
signal; nothing fails, starts or is signalled because it has to.

## 4. Proofs

`PullRequestProofs.tla`, for any executions, branches, paths, contents, requests, bounds
on pushes and faults that satisfy the assumptions of `ChangeRequest`, `GitRepository` and
`PullRequest` (`RequestAssumption`, `RepositoryAssumption`, `FaultAssumption`: `None` is no
value of any kind, no step and no reply, the request's branch, base and paths are ones the repository has,
main is never deleted):

| theorem | statement |
|---|---|
| `CommitInvariant` | `Spec => []CommitInv` |
| `TypeCorrect` | `Spec => []TypeOK` |
| `CommitsHaveABase` | `Spec => []CommitsBranchOffTheBase` |
| `CommitsHoldEveryFile` | `"blank" \notin Faults` implies `Spec => []CommitsAreWhole` |
| `BranchesAreNotMoved` | `Spec => AdapterNeverMovesABranch` |

`CommitsAreWhole` is not inductive: it speaks of a finished commit and of the request,
and everything in between is in local variables.  `CommitInv` adds, for each step `pc`
can be at, what the code has in its variables: the head read is in the history of the
base (`BaseWasRead`), the tree read is the tree of that head and the entries so far are
the first files of the request (`TreeIsBuilt`), a commit of an execution exists only
from the sixth step on and has that head as its parent (`CommitIsMade`), and a call is in
doubt only of an execution that has ended (`CallsInOrder`).  It also needs
that histories only grow and refer to stored commits (`HistoriesAreStored`), so that what
was read stays true whatever the other actors do.  TLC checks `CommitInv` in
`PullRequest_rivals`.  The proof has one lemma per action; `RepositoryGrows` and `Rests`
carry what an action of one execution or actor does not disturb for the others.

The hypothesis on "blank" is necessary: `getCommitTreeSHA` does not check its answer
(`PR:216`), and with an empty `base_tree` a commit can lose every file of the base.

`OutcomeProofs.tla`, from the same assumptions:

| theorem | statement |
|---|---|
| `OutcomeInvariant` | `Spec => []OutcomeInv` |
| `ErrorsTell` | `Spec => []ErrorTellsWhatIsLeft` |
| `SuccessesArePublished` | `"blank" \notin Faults` implies `Spec => []SuccessIsPublished` |
| `OneWins` | if no branch that is asked for is in `Deletable`, `Spec => []OneWinnerPerBranch` |
| `PullsShowOwnCommits` | if none is in `HumanBranches \cup Deletable`, `Spec => []PullShowsOwnCommit` |

What a reply says of the repository is not inductive, as the reply comes last.
`OutcomeInv` adds to `CommitInv` what an execution that is on its way has and has not done
(`UnderWay`: nothing is published before the pull request is the next call, and then its own
commit has been on its own branch), that a call in doubt is the one the error names
(`EndedInDoubt`, without which a late call could make an error a lie), and that a pull
request is opened only after the branch (`OpenedAfter`).  `WinnerInv` is about branches that
are never deleted: with no commit at the head there is none in the history, so that only
the first execution gets past createRef.  `TipInv` is about branches nobody else touches: the
head stays the commit of the one execution that published.  The hypotheses are those under
which the runs check the properties, and they are needed: after a deletion a second
execution can publish on the branch, and a push changes what a pull request shows.

`PublicationProofs.tla`:

| theorem | statement |
|---|---|
| `KeepsItsPromise` | `"blank" \notin Faults` implies `Spec => PromiseKept` |

The initial states map to initial states (`InitIsInit`), and each step to one step of
Publication or to none (`NextIsNext`): `AcceptIsAsk`, `CreateRefIsPublish`, `OpenIsOpen`,
`CallRefusedIsGiveUp`, `CallLandsIsFollow`, `CrashIsCrash`, `PushIsPush`, `DeleteIsDelete`,
and nothing to see of the calls before createRef unless they fail (`PrivateIsHidden`).  That the
branch appears whole is `CommitIsMade`; that it appears at most once, and the pull request
only from the execution that made it, is `OutcomeInv`.  `BranchesStay` and `BranchIsPut`
carry the mapping of heads and histories: stored commits never change.

`DeliveryProofs.tla`, for any deliveries, bodies, names, slots, faults and number of
crashes (`DeliveryAssumption`: `None` is no body, value, result, code or operation, and a
body has the fields of a request and decodes, does not, or has one of the wrong type):

| theorem | statement |
|---|---|
| `DeliveryInvariant` | `Spec => []DeliveryInv` |
| `TypeCorrect` | `Spec => []TypeOK` |
| `OkRepliesAreTrue` | `Spec => []OkIsTrue` |
| `UnsupportedHasNoEffect` | `Spec => []UnsupportedStaysOut` |
| `OneRoundPerProcess` | `Spec => []NoRepeatWithoutCrash` |
| `OneIsTold` | `Spec => []OneCreator` |
| `FailuresAreHonest` | without "lost" and "late" in `Faults`, `Spec => []FailureMeansNothingDone` |
| `OneDispatchInTwoShapes` | `Spec => []ShapesAgree` |
| `TheLastOneStands` | `Spec => []LastAnswerStands` |
| `ReplaysAreSilent` | `Spec => ReplayChangesNothing` |

`OkIsTrue` speaks of a reply; `Proven` says the same of every call a handler has behind it,
and needs that GitHub forgets nothing (`Grows`).  `NoRepeatWithoutCrash` bounds `accepted`, which
a late call can raise after the handler has gone: `Counted` adds to it the calls in doubt
and those left to make, and this sum is raised only by a crash.  `Admitted` is what the gate
(`execute.go:22-41`) keeps up behind it, and `CreatedOnce` is GitHub's refusal of names that
are taken.  The invariant rests on a lemma for each operation, that every call it makes
is `WellFormed`: it expects each status GitHub uses for success (a missing one would make a
success an error), and what it creates is something that can be created once.
`FailuresAreHonest` needs more, as long as no answer goes missing: what the handler has counted
is all that GitHub accepted (`Blameless`).  Its hypothesis is that of `Delivery_queue`, and
necessary: a lost answer is a failure after a success.

`OneDispatchInTwoShapes` is about all bodies there may be: `FirstOfOne` and `FirstOfTwo` say what
`firstString` finds, and `GenericMakesTheSameCalls` follows the fields through `spec.go:615-682`.

`TheLastOneStands` rests on `StandingInv`, which is about the requests for a setting that have
been answered when another one is sent.  They were answered "ok" (`Settled`), so that, as long as
there was no crash, they have nothing left to call and no call in doubt (`Clean`: a call is in
doubt only of a delivery that fails, `spec.go:1051-1054`).  What the later one sets is then in force
from its call on (`InForce`): a call of one of the others cannot come after it, as they are clean,
and nobody else writes there.  Both hypotheses of the property, no crash and "ok", are what `Clean`
needs.

`ReplaysAreSilent` rests on `WriterInv`: a delivery one of whose calls was accepted is among the
writers of the setting (`Wrote`), and a setting has the value its last writer sets
(`LastWriter`), which is the same at each delivery of one body.  `IdempotentPutsOrGets` ties the
flag of the contract (`spec.go:308-346`) to the kind of call the operation makes.

`RunnerPoolProofs.tla`, for any machines, labels, page size and faults:

| theorem | statement |
|---|---|
| `PoolInvariant` | `Spec => []PoolInv` |
| `TypeCorrect` | `Spec => []TypeOK` |
| `TheGateIsExact` | `Spec => []GateIsExact` |
| `TotalsTell` | `Spec => []TruncationShows` |

`PoolInv` keeps what is known when the page is read (`Listed`: all of the pool if it
fits) and when it is evaluated (`Evaluated`), and the theorems are arithmetic of
cardinalities on top of it.

`LifecycleProofs.tla` and `HandshakeProofs.tla`, for any pods, environments, cores, versions
and manifests:

| theorem | statement |
|---|---|
| `PodInvariant` | `PodSpec => []PodInv` |
| `TransportIsDescribed` | `PodSpec => []DescribesItsTransport` |
| `FailuresAreSeen` | `PodSpec => []FailuresShow` |
| `ProbesStayUp` | `PodSpec => ProbesOutliveTheAdapter` |
| `StepInvariant` | `Spec => []StepInv` |
| `TypeCorrect` | `Spec => []TypeOK` |
| `ExecutedWasChecked` | `Spec => []SomePodMatched` |
| `CheckedVersionExecutes` | `Spec => []VerifiedIsExecuted` |

`PodInv` ties the phase of `main` to the transport it has chosen, to what has failed and to the
exit code.  `StepInv` remembers of a step past describe which pod answered, and that this pod has
the expected version and is configured for this transport (`Checked`); as a pod keeps its
environment and build, it still holds at the execute.

`CatalogProofs.tla`, for any repositories, inputs and limits (`CatalogAssumption`: the default
limit is positive and at most the maximum, a name is not empty, and the empty string is not a
name, a kind or one of the words `spec.go:977-981` puts in a place):

| theorem | statement |
|---|---|
| `CatalogInvHolds` | `Spec => []CatalogInv` |
| `TypeCorrect` | `Spec => []TypeOK` |
| `FullAnswersMissNothing` | `Spec => []NothingIsMissed` |
| `AllArePlaced` | `Spec => []IntegrationsArePlaced` |
| `NamesKeepApart` | `Spec => []ConventionKeepsApart` |

`CatalogInv` says where an answer comes from: a page of the repositories there are, whose names are
unique (`NamesAreUnique`, without which an item could be about two of them), of the size the limit
asks for (`AnswerIsOfAPage`).  The rest is about the functions of the projection.  `EntryIsMarked`:
the code takes for an entry what is marked as one.  `ReadInFull`: the limit, with its default and
its maximum, is never below a number of repositories that is within it.  `PlacesAreThere`: a cut at
"-on-" leaves something on both sides.  `PlacesTellNames`: a name can be put together again from
its place, because "operations" and "installations" tell whether it was cut, and it is always cut
at the first "-on-"; so two names have two places.

Of these invariants `CommitInv` is a property of a run as well.

Model-checked only: liveness, as fairness and ENABLED are out of the prover's reach.  That is
`EveryExecutionAnswers`, `EveryDeliveryEnds`, `EveryMachineRegisters`, `WaitEndsOnOnePage`,
`EveryStartSettles` and `SignalEndsThePod`.  Every safety property and action property that a
passing run checks is also a theorem.

## 5. Plan

Done: all modules of section 2, the refinement of Publication, and the proofs of section 4.

Left: an abstract specification of what Delivery promises for one setting (asked, applied,
answered, possibly applied once more after a crash or a failure), with Delivery shown to
implement it, from `DeliveryInv`, `StandingInv` and `WriterInv`.

## 6. Not modelled

The wording of messages, JSON encoding beyond what decides a branch, HTTP headers, workflow
inputs and metadata (passed through), logging, the probes' constant answers, `firstBool` and
`api_base_url` (they fill fields of a call no property tells apart), the schemas and
resource types of the describe contract and the protocol types (data nothing here branches on), and packaging.
What the SDK does while it shuts down or reconnects to the broker is its own code.  Delivery has
the stop of a process and the loss of its connection, at any moment, with two simplifications: a
handler that goes on after its delivery was given to another makes no more calls than it would have
made, but has no slot any more, and its reply reaches nobody.  In PullRequest a redelivery is one more
execution of the same request.  `SignalEndsThePod` assumes that the SDK's `Run` returns after a
signal even if handlers hang.  A pod that runs is taken to serve its transport: a broker that
cannot be reached is a `Run` that fails, not one that goes on trying.
