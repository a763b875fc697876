# Verification of rustsdcmcp

`rustsdcmcp` is an MCP server in front of Juniper Security Director Cloud (SDC).
Most of its 74 tools read; the mutating ones go through a change set that one
principal prepares, another approves, and the owner applies. This directory
holds TLA+ models of the server, from its command line to the requests it sends,
TLC runs, and TLAPS proofs. Paths such as `change.rs` are under
`crates/rustsdcmcp-core/src/`; `server.rs`, `main.rs`, `signals.rs` and
`http_transport.rs` are under `crates/rustsdcmcp/src/`.

## 1. The system

| Component | State | Operations | Hard behaviour | What makes it correct |
|---|---|---|---|---|
| Change control, `change.rs` | none of its own: calls the coordinator | `prepare_*`, `waive_if_lab_mode`, `approve`, `apply*`, `discard`, `release_unwritten`, recovery in `load` | handlers of several principals between any two awaits; discard under a running handler; restart in any step | two-person rule, one writer per tenant, nothing released that may have been written |
| Transactions, `object_write.rs`, `firewall_write.rs`, `nat_write.rs`, `license_write.rs`, `device_sync.rs`, deploy in `change.rs` | the staged change, `refused_before_write` | `validate`, `commit`, `rollback` | the recheck races out-of-band writers; each kind maps client errors to outcomes by its own table | the record never claims more than SDC did |
| Coordinator, crate `mecmcp-changeset` (external) | change sets, operations, tenant lock, approvals, state file | `apply_change_set`, `diff`, `validate`, `commit`, `discard_operation`, recovery | crash between request and record | an unknown outcome blocks the tenant |
| HTTP client, `client.rs` | a semaphore of permits, per call the attempt | `send_parts`, `send_parts_once`, `send_write`, `poll_job`, `poll_device_sync` | timeouts, cancellation, retries, answers lost after the status line, jobs that outlive their deadline | a mutation is sent once, results are true of SDC, permits come back, calls return |
| SDC (external) | policies, objects, devices, jobs | takes, refuses, loses, runs | answers late or never | nothing is assumed of it |
| Drift checks in `nat_write.rs`, `license_write.rs`, `device_sync.rs` | none | `target_unchanged`, `targets_unchanged` | two lists read one after the other; only the first 100 entries; equal status pairs | a change after prepare is noticed |
| Process, `main.rs` | where startup stands, the shutdown token, the evidence service | startup in a fixed order, serving, drain, flush | a signal in any step; an error of serving; a client that never initializes | a stop ends it, evidence is flushed, rotation does not kill it |
| Authorization, `server.rs`, `http_transport.rs` | none: a call carries a copy of its token's grant | bearer boundary, preflight, `authorize_request` | a grant changes while a call runs; a caller without a token | no call exceeds what its token and the listener gave it |
| Token store, `main.rs`, `signals.rs` | the grants as last read, the path they were read from | `resolve_tokens`, load, reload on SIGHUP | a reload that fails; a canonical file that appears after the fallback | a revocation takes hold |
| Tool router, `server.rs` | none | authorize, check the page, one call, view, redact, audit | a view that fails after a change took effect | confined answers, truthful records, refusals that cost nothing |
| Projection and redaction, `projection.rs`, `redact.rs` | none | allow-lists, masks | unknown shapes, exempt names | nothing that was to be withheld gets out |
| Paging, `paging.rs` | none: the token holds an offset | `page_list` | the list changes between two pages; an entry over the budget | bounded misses and repeats, and an end |
| Envelopes, `prepared.rs` and the transactions' files | the plan in the state file | construct, validate, digest, stage | a damaged record; rules that differ from the client's | what is sent is what was approved |
| Catalog, `catalog.rs` | none | tables of families | a family that is readable only | |
| Configuration, `config.rs`; packaging | none | parsing | none | |

A tool call of `server.rs` is authorized, becomes one call of `SdcClient` or of
`ChangeManager`, and its result is redacted. `ChangeManager` drives the
coordinator, the coordinator calls the transaction back (`validate`, `commit`,
`rollback`), and the transaction calls the client. The client talks to SDC and
shares one semaphore among all calls of a tenant. Shutdown and the caller's
cancellation reach every await of the client.

## 2. Modules

| Module | What it is |
|---|---|
| `Outcomes` | the contract between client and transactions: which results a call may return, given what became of its request |
| `ChangeControl` | the write path: plan, approval, handler, record, request, restart |
| `ApprovedWrite` | the abstract promise of the write path |
| `ChangeControlRefinement` | the mapping from the one to the other |
| `ChangeControlProofs` | theorems about the two, and that the mapping is a refinement |
| `Requests` | the HTTP client: permits, attempts, retries, jobs, timeouts |
| `RequestsProofs` | theorems about it |
| `WriteCalls`, `WriteCallsProofs` | the write path on the client it really has: `Requests` and `ChangeControl` composed; that the two implement `ChangeControl`, and what follows |
| `DriftCheck`, `DriftCheckProofs` | what the reads behind a drift check see, and theorems about it |
| `Tools` | the surface: every tool with its method and view, every read method with what it checks |
| `Server`, `ServerProofs` | the process: startup, signals, token store, authorization, evidence; theorems about it |
| `ToolCalls`, `ToolCallsProofs` | one call inside its handler, for every tool; theorems about it |
| `Plans`, `PlansProofs` | what a plan contains, from the arguments of prepare to the request; theorems about it |
| `Paging`, `MCPaging`, `PagingProofs` | a walk over a list that changes; weights for TLC; theorems about it |
| `MCChangeControl` | sets of kinds and the symmetry for TLC |

`ChangeControl` takes the result of a call from the contract of `Outcomes`, in one
step; `Requests` works results out and is shown to return nothing else
(`ContractKept`). `WriteCalls` puts the two together, each handler on a call of its own, and
is shown to implement `ChangeControl` (`ImplementsWrite`), so nothing rests on the
contract being read alike on both sides. `Server` and `ToolCalls` both extend `Tools`:
the one decides whether a call runs, the other what it does once it may. What a
mutating tool does to a change set is `ChangeControl`'s subject, what the change
set says is `Plans`', and whether the target moved is `DriftCheck`'s.

### ChangeControl

One change set `c` has one operation. `pc[c]` is the await its handler stands
at, `op[c]` the coordinator's record, `wire[c]` what became of its request at
SDC. Every action is one stretch of the handler between two awaits, so
everything else can happen in between.

| Action | Code |
|---|---|
| `Prepare`, `Waive` | `prepare_*` and `waive_if_lab_mode`: two coordinator calls, with an approver possibly in between |
| `Approve`, `Expire`, `ApplyChangeSet` | `approve`; the approval's lifetime; `apply_change_set`, which consumes the approval and takes the tenant |
| `DiffOperation`, `BeginValidate`, `Validated`, `ValidationFails`, `CoordinatorRefuses` | the calls of `apply*` up to `commit`, and their error paths |
| `BeginCommit`, `RecheckPasses`, `RecheckFails` | `commit`: flag set, target read again, flag cleared before the request |
| `SendFails`, `Dispatch`, `Answer`, `JobAccepted`, `Poll` | the client call; `Settle` maps its result with the table of the kind (`ObjectRecord`, `LicenseRecord`, ...) |
| `Release` | `release_unwritten`: the handler discards what it knows was not sent |
| `Discard` | `discard_sdc_operation` by the owner |
| `SdcAnswers`, `SdcJobEnds`, `OutOfBandWrite` | SDC and its other users |
| `Restart` | process death and `StagedRecovery::Discard`; without a state file everything is forgotten |

Contents of policies, objects and lists are abstracted to a version number per
target, digests to equality. A definition whose comment begins with `slip` is a
form of the next definition with an easy mistake; no specification uses it, and
the mutant list of `PROJECT.json` says which property notices it.

### Requests

Each call is a task at one of its awaits: `queued` for a permit, `connecting`,
`sent`, `reading` the body, in `backoff`, or `sleeping` between polls.
`request_timeout` covers one attempt including its wait for the permit;
the poll deadline covers probes, their retries and the intervals; cancellation
covers every await. `kind` is `read` (a GET), `write` (`send_write`) or `job`
(`send_write`, then polling). Delays are not measured: a timer may go off at
any moment, so the exponential backoff and `Retry-After` do not matter here.

### WriteCalls

The variables are those of `Requests` and of `ChangeControl`; where both use a name it is the
client's, and the write path's `kind`, `pc` and `result` are `change`, `at` and `told`.
A change set is the call its handler makes (`ChangeSet \subseteq Call`), the other calls are
readers that compete for permits. `wire` is one variable: what became of the request at SDC.

| Action | Code |
|---|---|
| `Plan`, `Handle`, `OutOfBand` | the steps of `ChangeControl` that involve no call; the client stands still |
| `BeginWrite` | `commit` calls `send_write`, or the submission of a job (`CallKind`); a refusal on the spot is settled at once |
| `SendRequest`, `JobSubmitted` | the request leaves; the submission was accepted and `poll_job` or `poll_device_sync` begins |
| `Concluded` | in every step that ends a call: `commit` maps what the call returned with the table of its kind (`Settle`) |
| `TimesOut`, `RetryNow`, `PollNow`, `DeadlinePasses`, `Proceed` | the steps of the client; the handler takes notice only of an end |
| `SdcActs` | SDC answers or ends a job: one step for both modules |
| `Crash` | the process dies: every call ends untold, the pool is new, and recovery of `load` runs |

The reads a handler makes (validation, the recheck) are one step of `Handle` each: they are
calls of kind `read`, for which `Requests` has `EveryCallReturns`.

### DriftCheck

One change, from the first read of prepare to the request. `shape` says what the
target is: nothing (a create), one record, one or two lists, or several devices.
`next` is the cursor of the pass under way: prepare (`ReadBefore`), validation and
recheck (`ReadAgain`, `Drifted`, `Unchanged`). `Edit` is anyone else, between any two
reads. A part has what the comparison looks at (`shown`) and the `rest`; `View`
gives the compared part per shape. `moved`, `late` and `off` record the history of the
edits and no action reads them. `ChangeControl` uses one comparison of versions
(`Unchanged`) in place of all this.

### Server

`pc` is the step of `main`: arguments, setup, tenant verification, assembly of the
evidence service, change manager, token store, the SIGHUP handler, then the stdio
handshake or the listener, the drain, the flush and the return. Each startup step
may fail with `?`, and then the process exits. `Term` and `Hup` may come in any
step: without a handler they kill. `files` is what stands on disk at the three
kinds of path (canonical, legacy, anything else), `bound` the path the store was
loaded from, `snapshot` what it enforces. `Edit` is an operator's write.
A call goes through `Arrive` (boundary and preflight, against the
snapshot of that moment), `Authorize` (`authorize_request`, with the grant the call
carries) and `Run`. A write leaves an evidence record, which `Ship` or `Flush`
delivers, or a failed flush leaves for the next start and says so. `Hup` is one step:
the code reopens the audit log and reloads in one closure.

### ToolCalls

One call of any row of `Tools`. A JSON value is its shape (a collection of objects, one
with other nested lists, one with members that are no objects, no array, an object without the
collection, a scalar) and the kinds of fields it has beside the collection, on its members, and inside
them, `MaxFields` of them in all. `Views` is what the handler makes of it: as it is, projected, sliced, without
license keys, or a plan that is projected or withheld. `Finish` closes the audit
record before the size limit looks at the result, as the code does.

### Paging

A caller walks `list_sdc_config_versions` with the token of the last page. SDC does
not page this list, so each call fetches all of it and slices it. `Archive`
and `Purge` are SDC's, anywhere in the list and between any two pages. A page is the loop of `page_list`:
`Taken` is the first number of entries at which the list ends or the next entry no longer `Fits`. Entries have weights, so that
pages of several, of one, and of one that is over the budget occur, and the fields asked for may
differ from page to page.

### Plans

`Writes` has one row per mutating request of the client, with the method and path. An
identifier is absent, good or malformed, a body one of seven classes. `Read` checks
the arguments and reads the state before; `Plan` builds and validates the envelope;
`Damage` is a fault in the state file, one field at a time; `Stage` validates
again; `Commit` sends or is refused by the client.

## 3. Runs

| Run | Question | Bounds |
|---|---|---|
| `writes` | two object writes in lab mode, an approver who races the waiver, out-of-band writer, discards, a restart with recovery: approvals, tenant lock, releases; refinement of `ApprovedWrite` | 2 change sets, 3 principals (one not human), 1 out-of-band version, 1 restart |
| `tenant` | firewall write, deploy of that policy and license job together, without a state file: one writer, lost updates; refinement of `ApprovedWrite` | 2 change sets, 2 principals (one human), 1 out-of-band version, 1 restart |
| `kinds` | each of six kinds alone: truth of the record, complete list of gaps, liveness | 1 change set |
| `requests` | the client | 2 calls, 1 permit, 2 retries |
| `write_calls` | a handler on a real call, next to a reader on the same permit, with a restart; refinement of `ChangeControl`; liveness | 1 change set, 1 reader, 1 permit, 1 retry, 1 restart, 3 kinds |
| `drift` | the reads of a target, and edits in between | 3 parts, 2 values, 3 edits |
| `server` | the process, signals, tokens and calls | 1 token, 1 call, 2 edits, 3 tools (a read, the scoped read, a write), every command line |
| `calls` | one call of each of the 74 tools | values with at most one kind of field (`MaxFields`) |
| `paging` | a walk over a list that changes | 5 versions, lists of up to 4 at the start, 3 changes, budget 3, limit 8 |
| `plans` | every kind of write | 2 devices, lists of up to 3, limit of 2 |
| `license_discard`, `deploy_drift` | statements of comments and documents that the code does not keep (section 6) | 1 change set |

Why the bounds are enough: the tenant lock, the two-person rule and lost updates
relate pairs of change sets, so two reach every conflict, and an operation never
runs twice. A version only counts as equal or not to the one read, so one
out-of-band write before or after a read is every case. After a first
restart nothing of a handler survives, so a second adds nothing. `writes` recovers from a state
file and `tenant` forgets; in lab mode a plan can be approved either way, so `writes` has both. Two calls and one permit make one wait for the other. The code
retries 3 times; 2 already has a first, a repeated and a refused retry. The
kinds of `write_calls` are a plain write, a job without a recheck and a job with one; which
records they are is the question of `kinds`. One reader on the only permit is all the
contention a handler can meet, and it has its say through a whole call. That two change sets never have calls
open at the same time is beyond one change set; it is proved (`OpenCallHolds`). Three
parts make a first, a middle and a last one; three edits can touch a part, take it back and
touch another. Calls of `Server` do not interact except through the store and the signals, so
one of them and one token are enough; two edits revoke and restore, or break
and repair, or move a file in two steps. Views and masks work field by field, so
values with one field tell apart all they do; the theorems say so for values with any number of them. Four versions and a budget of three give pages of
each length at the start, in the middle and at the end; three changes remove and add
on both sides of an offset. A list of three over two devices has every repeat, and is over the limit of two. The
proofs remove all of these bounds for the properties section 5 names. `CHECK_DEADLOCK FALSE` is used
everywhere because the system may come to rest: every change set spent, every
call returned.

Fairness. `ChangeControl` assumes weak fairness of `HandlerStep` only: a running
handler gets another step because each wait in it is bounded (request timeout,
poll deadline); `Requests` justifies this, with `EveryCallReturns`. `Requests`
assumes weak fairness of the four timers only (request timeout, retry delay, poll interval,
poll deadline): `tokio::time` fires them. `WriteCalls`
assumes the four timers, and weak fairness of the handler's steps outside its call
(`Handle`, `BeginWrite`); it does not assume that a handler hears of its call, as `ChangeControl`
does: `EveryCommitSettles` shows that the timers are enough for that. `Server` assumes weak fairness of the steps of
`main` that do not wait for a peer: startup (the verification of the tenant is raced against
shutdown and has a timeout), the reaction to a cancelled token, the drain, which has a
deadline, and the flush, which runs in the same function. `Initialize`, calls, edits and signals have none.
`Paging` assumes that a caller in a walk asks again. Nothing is assumed of SDC, of
principals, of the network, or of who gets a permit.

## 4. Properties

- `TwoPersonRule`, `AtMostOneRequest`: a request needs a second human or the
  recorded waiver, and an approval is worth one request.
- `ExclusiveWriter`, `UnsettledWriteBlocks`, `NoLostUpdate`: while SDC may still
  act on a request the tenant is blocked, so no two requests are pending and no
  drift-checked write lands over another one of this server. The exceptions are
  exact: an operator's discard, or amnesia without a state file.
- `ReleaseIsTruthful`, `CommittedMeansLanded`, `NoOtherGap`: what the server says
  of a write. `KnownGaps` lists, per kind, the results after which a write
  recorded as failed may nevertheless take hold; `NoOtherGap` says the list is complete.
- `TransientIsOwned`, `TransientSettles`, `IndeterminateSticks`: no operation is
  stranded in a state no discard accepts, and unknown outcomes stay unknown.
- `KeepsPromise`: `ChangeControl` implements `ApprovedWrite`.
- `ContractKept`, `SentOnce`, `PermitsAccounted`, `EveryCallReturns`: the client.
- `Lockstep`: a handler is where its call is, through queue, polls, retries and restarts, and concludes when
  the call ends and not before.
- `ImplementsWrite`, `EveryCommitSettles`: the write path with the real client does what `ChangeControl`
  allows, and its operations settle by the timers of the client alone.
- `OnlyTheWindowIsOpen`, `LastingDriftStops`, `RefusedOnlyIfMoved`: what a drift check
  that is not a snapshot can promise. A write goes out over a difference only
  where a part was edited after its last read; a difference that was there
  when the recheck began, and stays, stops it; a refusal is about something that moved.
- `AuthorityWasGiven`: a call that runs is on the configured tenant; a write has a token
  that names its tool; a caller without a token is on stdio or a listener asked to be open.
- `RevocationTakesHold`: the store enforces what a restart would load. The three exceptions
  are exact: an edit not signalled yet, a reload that failed, and a canonical file that
  appeared after the store was bound to the legacy one.
- `ServingIsNotKilled`, `EvidenceFlushed`, `ShutdownEnds`: the signals of rotation and stop, and
  what must have happened when the process is gone.
- `Confined`, `RefusedLocally`, `OutcomeIsReported`: what a caller gets, what a refusal costs,
  and that a plan that cannot be shown does not turn a change that was made into an error.
- `ShiftIsBounded`, `WalkEnds`: a walk over a list at rest gives each version once and in order; a
  walk over one that changes misses no more than was purged and repeats no more than was archived;
  each page moves on, and only a list the client refuses as a whole, or an empty one, stops it.
- `SentIsApproved`, `NoPlaceholderIsSent`, `MalformedCostsNothing`, `ApprovedIsSendable`: from the
  arguments to the request. `KnownUnsendable` lists the plans that can be approved
  and then not be sent, and `ApprovedIsSendable` says the list is complete.

## 5. Proofs

All theorems hold for any sets of change sets, principals, calls, tokens, devices and versions, any number of
permits, retries, parts, edits and fields, and any weights and budgets, from the named assumptions on the constants. Of
`Call` it is assumed finite, for the counting of permits. Every invariant and every action property that a passing run
checks is a theorem; the types of each module are proved as well, and are part of most `IndInv`s.

`ChangeControl`: `IndInv` is the inductive invariant; `TypeOK` is inductive on
its own and used in every step. The properties alone are not inductive: that a
committing operation has a running handler, that `refused` implies nothing was
sent, and that only one operation blocks the tenant have to be carried along.
`PlanInv` (approval before apply), `StepInv` (handler, record and wire agree) and
`RecordInv` (what the record says of the wire) are proved action by action for the change set
that moves; `OneBlocking` comes from the guard `TenantFree`. From `IndInv`
follow `TwoPersonRule`, `UnsettledWriteBlocks`, `ExclusiveWriter`,
`ReleaseIsTruthful`, `AtMostOneRequest`, `CommittedMeansLanded`, `NoOtherGap`,
`TransientIsOwned` and, as an action property, `IndeterminateSticks`.
The refinement of `ApprovedWrite` maps each action to one abstract step or a
stutter under the same invariant.

`Requests`: `IndInv` joins types, permits and, per call, `Placed` (where it
stands), `OnTheWire` (sent from one place only), `AnswerIsTrue` (what an unread
answer says of SDC) and the honesty of its result. `PoolStep` does the counting, `ReturnStep` covers
all ways of ending, and each other action has a lemma.

`WriteCalls`: the invariant `InvAll` joins the two inductive invariants with `Lockstep`. `NextAllHolds` rests on two
facts. A joint step is one of the client, or `DropCalls` (`ClientSteps`), so the client's invariant
survives, restarts included (`ClientHoldsOverRestarts`). And a joint step is one step of `ChangeControl` or none
(`WriteStep`): in lockstep the handler stands where `SendFails`, `Answer` or `Poll` is possible when a call ends, and
the honesty of the result (`Honest` of `Requests`) is exactly the guard of that action. `Lockstep` itself is proved per
action: a step the handler takes no notice of (`OpenStep`, `StepFrame`), one it notices (`NoticedStep`), an end
(`EndedStep`), a step without a call (`QuietStep`). From `ImplementsWriteHolds`, the theorems of `ChangeControl`
are cited through `INSTANCE`: `WritePathIsSafe` has its nine safety properties and `WritePathKeepsItsWord`
the promise of `ApprovedWrite`, now from the request on the wire up and with no contract assumed.
`OpenCallHolds` combines lockstep with the tenant lock of `ChangeControl`: while a call is open its operation
holds the tenant, so no two are open.

`DriftCheck`: `IndInv` says of the parts behind the cursor that they are as the
plan has them or were edited since, of prepare's pass (`moved`) and of the
recheck's (`late`), and that no part behind the recheck's cursor is in `off`. The
three properties follow from it, for any number of parts and edits.

`NoLostUpdate` has an invariant of its own, `OrderInv`, on top of `IndInv`: while a change set
has a request SDC may act on, every version written since its prepare is another user's, or
of a change set one of the two gave up (`Fresh`), and what it landed over was `Fresh` then. The
step case rests on `LandsWhileExposed`: two such requests exist together only if one was given up.

`Server`: `IndInv` joins types, `Placed` (what the steps before `pc` have set: handlers, mode, bound
path), `Loaded` (the snapshot is the bound file as last read, unless it was edited or the reload
failed) and, per call, `Vetted` (admitted under the mode, authorized when it runs, evidence only of what
was done). The properties follow from it; `ServingIsNotKilled` because no serving process
lacks a handler.

`Plans`: `PlannedInv` says that the plan is what the arguments asked for, that it validates, and
that a record which passed `Stage` differs from it in nothing its digest covers. `SentIsApproved` and
`ApprovedIsSendable` follow; `KindOf` ties a request's kind to the identifiers its path needs.
That a sorted list of devices has the members of the given one is `SortedKeepsMembers`: the increasing
list exists because each number has its rank as its place (`SortedExists`), and an increasing list as long as
the set is onto it.

`ToolCalls`: `RowFacts` is what the proofs need of the table, `GoodRow` for every row, so that no proof looks at the 74
rows again. `IndInv` joins it with `Checks` (what the handler has passed when it stands at a step), `Parts`
(what the parts of the result may hold there: anything before the view, what `ViewSeen` and `PlansAreShown` allow
after it, and no masked name after `MaskMasks`) and `Records` (effect, audit record and answer). The three properties
follow from it, for values with any number of fields.

`Paging`: an offset means something only together with the list, so `IndInv` speaks of what stands before
and behind `Reach`, the place in the archive where the walk is. `Missed` is what stayed, is behind the walk and was not given;
each purge adds one at most, because one entry moves back over `Reach`. `Repeated` is what was
given and lies ahead again; each archived version adds one at most. A page starts at `Reach`: it adds to neither, and what it
gives twice leaves `Repeated`, which pays for the difference of length and members of `seen` (`Counted`). With no purge, `InStep`
is a map from the entries that stayed to their places in `seen`, in order; with no change at all the walk has given
exactly the list up to `Reach` (`Undisturbed`). When the walk is done `Reach` is the end of the list, and
`ShiftIsBounded` is left. `TakenFacts` shows that the loop of `page_list` has an end, with the least number at which it may
stop (`LeastExists`, from the well-foundedness of the naturals), and `PagesFillTheBudget` that a page keeps to
`list_page_budget_bytes` unless its only entry does not, and is as long as that allows.

The promise is not hollow: `PromiseIsToOne` proves of `ApprovedWrite` alone that one change set at a time holds the
tenant, that only an authorized one has ever written, and that a request SDC may act on belongs to the holder or to one
given up. `WritesAreExclusive` carries it over to `ChangeControl` through the refinement.

The liveness properties `TransientSettles`, `EveryCommitSettles`, `EveryCallReturns`, `ShutdownEnds` and `WalkEnds` are only model-checked:
liveness under fairness and `ENABLED` are out of the prover's reach. Each has its safety half as a theorem, that
nothing goes round in circles, so that what TLC adds is that the next step can be taken:
`HandlersMoveOn` (a handler goes through its awaits once) with `TransientIsOwned`; `RequestsAreBounded` (a request of
the client, its retries included, has at most `5 * (MaxRetries + 1)` steps; between two polls only the deadline
bounds the number of requests); `MainMovesOn` (main repeats no step and a stop is not taken back); and
`EveryPageMovesOn` (a page takes the offset on or is the last). `RecordsMoveOn` extends `IndeterminateSticks`: an operation's
record never goes back, and committed, indeterminate and discarded are final.

Induction over data is out of reach as well. No theorem needs it: `Bytes`, a fold over a list, is used through the
comparison with the budget only, for whatever number it is. No module declares a `RECURSIVE` operator.

## 6. Where documents and code differ

- `license_discard`: `license_write.rs` records every client error as failed, the
  poll deadline included; the install can be discarded and land. A comment there infers from the
  states in which a discard is accepted that nothing was written, and failed is one of these states. The
  rollback under that comment serves the release by the handler, where the inference is right
  (`ReleaseIsTruthful`); the owner's discard runs the one of `SdcTransaction` (`change.rs:193`) for
  every kind.
- `deploy_drift`: apply validates a deploy against its stored preview and reads
  nothing live.

Both are runs with `"expect": "violation"`, and quoted under `findings`. The following
were noticed while modelling. The models have the code's behaviour, and where it matters a
property names the exception (`KnownGaps`, `KnownUnsendable`, the exceptions of `Confined`):

- A deploy whose answer or status cannot be read is recorded as failed and may be discarded as
  reverted (`change.rs:182`), and may succeed.
- `DeviceSyncFailure::from_submit` (`device_sync.rs:374`) counts a timeout of the POST as before submission.
- The timeout of a request covers its body, so a refusal whose body stalls is returned as a
  timeout and recorded as indeterminate, although `object_write.rs:423` says a known failure never is.
- A comment of `SdcPreparedDeviceSync::new` (`device_sync.rs:75`) names `device_config_state`; the drift check
  compares two other fields.
- `object_write.rs:161` matches the client's body rule "so an unexecutable plan cannot be approved". It
  does so for an empty body. A body of 1 to 2 MiB, one of an object with a redaction marker, and NAT writes with
  missing identifiers or no body can be approved; the client refuses them after `refused_before_write` was cleared, so
  the operation stays failed until its owner discards it.
- The result limit of 8 MiB (`server.rs:31`) applies after the audit record: an apply whose result is larger is
  answered with an error and recorded as succeeded.
- `project_collection` takes an object without its collection for the empty tenant's `{}` and passes on
  whatever else it has; `Confined` has the exception.
- `page_list` bounds the page, not the read: `client.rs:422` says a long archive may fail, the tool's description
  that it comes back as a page.

## 7. Assumptions and limits

- The coordinator's source is not in the repository. Its tenant lock, discardable
  states, single use of approvals and recovery follow the calls, comments and tests in `change.rs`.
- A status other than success means SDC did not execute the request.
- A deploy pushes the policy as it is when SDC runs it.
- Only the owner applies and discards a change set; the model leaves other
  callers out, as their calls are refused without effect.
- A handler's future is not dropped between awaits: cancellation reaches
  it as an error of the client.
- The deploy's POST uses `post`, where an unreadable success is an ordinary error;
  it is recorded as failed, as `unknown` is in `DeployRecord`.
- In lab mode `ApplyChangeSet` waits for the prepare handler; an apply that
  overtook the waiver would need an approval first, and the late waiver would be refused.
- A create has no version before it (`before = None`), as in the code, and is not drift-checked.
- A token's scope is one of four classes (absent, wildcard, named tools on the configured tenant, the same on another);
  how `mecmcp-auth` stores and compares tokens is external, as are the bearer boundary's responses.
- A digest equals another exactly when what it covers is equal.
- The evidence service ships what it holds or leaves it; its segments and retries are external.
- Names that the shared deny-list matches are a class of fields; the matching, and the scan of free text, are external.

Not modelled, and why:

- The package validation and the SBOM check of `main.rs`, the audit key file and `config.rs`: one pass over text or files
  before anything runs, without state. Their failure is a failed step of `Server`.
- Rate limits, TLS, host policy and metrics: parameters of the external transport crate.
- Paths and query strings of reads, serialised field names, the text of errors and descriptions.
- The bulk of `#[cfg(test)]` code, packaging and scripts.
- The delays of backoff and polling: a timer may go off at any moment.

## 8. Plan

Done: the modules of section 2 and their proofs. What would add most next: a composition of `Server` with
`ChangeControl`, in which the calls left behind by a drain are the handlers that a restart finds. Today
`Restart` may come in any step of any handler, which includes those, and says nothing of the evidence they leave.
