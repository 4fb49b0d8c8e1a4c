# Boss Bot: formal models of the approval path

Boss Bot is a Telegram/WhatsApp assistant for one business. A language model
proposes actions; every action that writes something is turned into an
*ActionContract* that a person must approve with a button or a word ("כן",
"לא") before it is executed. This directory holds TLA+ models of the machinery
that makes this safe (from the proposal of an action to what follows its
approval, the work that outside providers do for hours, and the emergency stop
over all of it), the TLC runs that check them and the TLAPS proofs about them.
Everything is translated from the code under `src/`; file names below are
relative to it.

Runtime: one gunicorn worker with a pool of threads (`app.py`, `tma_api.py`)
and one scheduler thread, over Airtable (contracts, external jobs, sessions, emergency flags, business records) and
PostgreSQL (execution claims, coordination rows, poll leases). Several messages, buttons and
Mini App calls of the same person are handled at the same time by different
threads; a deployment restarts the process and loses its caches. Features are
behind flags that the code reads with a default of "off"
(`core/feature_flags.py`); `BOSS_CURRENT_STATE.md:54` lists which of them are on
in production (action gateway, contract persistence, atomic claims, the
deterministic resolver). The models take the flags that change control flow as
Boolean constants.

## 1. The system's parts

| part | state it keeps | operations | interacts with |
|---|---|---|---|
| Atomic execution claims: `core/atomic_claim_repository.py`, `core/action_gateway_atomic_executor.py` | table `action_execution_claims`: a row per contract, unique on the contract and on the natural key | claim (insert or recover), settle, list pending, claim proof | gateway dispatch, gated tools |
| Turn coordination TC8: `core/turn_state_repository.py` | table `durable_turn_state`: one row per identity | begin_or_get, claim, release, terminal | the handlers of `app.py` |
| Contract ledger and repository: `core/action_gateway.py` (`ExecutionLedger`), `core/action_contract_repository.py` | RAM cache of contracts; Airtable record of each | save, find, find_live, update_status, mark_context_interrupted, refresh | gateway, ingress gate |
| Action gateway: `core/action_gateway.py` (`ActionGateway`) | 64 approve locks, overrides, disambiguation lists | propose, approve, reject, words | ledger, claims, dispatcher |
| Channel handlers: `app.py` | none of its own beyond sessions | callbacks, words, ingress context gate | TC8, gateway |
| Proposals: `core/action_gateway.py` `propose_action` | index from fingerprint to contract, claim token of a fingerprint, override challenges | look up, compare-and-set, wait, save and publish, override word | ledger, claims |
| External execution: `core/external_execution_boundary.py` and repository, `core/external_poll_lease.py`, `core/moneyprinterturbo_adapter.py` | job records in Airtable, poll leases in PostgreSQL, provider processes and their directories | submit, poll_due, acquire and release a lease | provider, scheduler, gateway |
| Legacy event bus: `event_bus.py` | pending queue with TTL, executed cache | add, get, pop, cancel | `app.py`, gateway (Stage B sync) |
| Emergency stop: `core/emergency_stop.py`, `adapters/airtable_emergency_stop_store.py`, `cost_monitor.py` | one record per flag in Airtable; a cache of it with a freshness time in each process; what the day has cost | evaluate (with refresh), write with readback, clear with an expected operation id, the watchdog's stop | Mini App, every dispatch, the scheduler's guard |
| Commercial completion: `commercial_completion.py`, `commercial_completion_routing.py`, the continuation in `app.py` | the deal being completed, in the chat's session | begin, answer, cancel, nested creation, resume or abandon it | sessions, gateway, handlers |
| Emergency window and OTP: `core/emergency_window.py`, `core/otp.py` | a window record; codes in RAM | activate, record_action, expire; issue, verify | handlers, scheduler |
| Database pool: `core/database.py` | five connections | get, put, reconnect | claims, TC8 |
| Sessions and drafts: `session_store.py`, `core/business_draft.py`, `core/draft_flow.py` | RAM cache over a Sessions table; drafts | get-or-create, update, evict, draft steps | handlers |
| Guards: `guards/` | message ids seen in the last five minutes, failure counters | is_duplicate, release; breaker; rate limit | handlers, Airtable and Google shims |
| Mini App API: `tma_api.py` | per-record approve locks | approve, reject, reads | gateway, ledger |
| Lead pipeline, task writer, workers, financial control, router, evidence and wording, cost, memory, decision hub, adapters, offline tools | see `PROJECT.json` | | |

`PROJECT.json` lists all of them with their files and their status.

### Which behaviour is hard

- **Concurrency without a common lock.** Approvals run under a lock of their
  contract; rejections, words and the ingress gate do not. Each durable
  transition is a lookup, a PATCH that Airtable applies unconditionally, and a
  read-back, so any other handler may run in between. The same is true of the
  session, of external jobs and of the emergency flags: read, then write the
  whole record.
- **Two copies of the truth.** Decisions are taken from the RAM cache, which is
  filled by whoever looked a record up, possibly before somebody else changed it.
- **Lost replies.** A PATCH or SQL commit may succeed and its reply be lost; the
  code then reports failure.
- **Restarts.** The cache and every handler die; rows, claims and records stay.
- **Long work.** A provider's run outlives the call that started it and the
  instance that made the call; who polls it is decided by a lease that may run
  out while its holder is still at work.
- **Ordering of words.** A bare "yes" must apply to the contract the person
  has in mind: an unrelated message in between interrupts the context, and the
  contract must be shown again.

`PROJECT.json` lists each such hazard at its line, with the property that covers
it or the reason why none does.

### What makes the parts correct

- *Claims*: an action is dispatched by at most one attempt; a key is dispatched
  again only after a recorded failure; nothing is lost from the audit trail.
- *TC8*: a handler that took the row owns it until it closes it; ownership ends;
  a resolved contract is resolved by one of them.
- *Ledger and gateway*: a contract runs at most once; what the user reads about
  it is true; a bare confirm does not run an interrupted contract unasked.
- *Proposals*: one business action is asked for once, however many callers
  propose it at the same time; the claim on its fingerprint is never left
  behind; an override word repeats the completed contract that its challenge was
  issued for.
- *External execution*: the work of a contract is started once; two pollers
  never have one job; a result is true and final; every accepted job gets one.
- *Emergency stop*: a stop that was reported holds in its process at once and in
  the others within the life of their caches, also while the store fails; a
  clear overwrites only what its owner saw; the watchdog goes on until its stop
  is confirmed.
- *Nested completions*: a record that was created for a deal goes into that
  deal, and once.

## 2. Modules

| module | what it is |
|---|---|
| `AtomicClaims` | the claim table and the attempts that race for it |
| `ExecutionOwnership` | abstract: who owns the execution of a key, and who may take it over |
| `AtomicClaimsRefinement` | the refinement mapping from the first to the second |
| `AtomicClaimsProofs` | inductive invariant, safety theorems, the refinement |
| `TurnState` | the coordination row and the handlers that take it or go round it |
| `TurnStateProofs` | inductive invariants and safety theorems of `TurnState` |
| `ContractLedger` | cache, durable records, update_status and the words |
| `ContractLedgerProofs` | inductive invariant and safety theorems of `ContractLedger`, and that the approve lock alone makes a contract run once |
| `ContractLedgerContextProofs` | that a confirm word does not run an interrupted contract unasked |
| `Proposals` | the fingerprint index, its claim token and the calls of `propose_action` |
| `ProposalsProofs` | inductive invariant and safety theorems of `Proposals` |
| `ExternalExecution` | job records, leases, provider runs, submissions and pollers |
| `ExternalExecutionProofs` | inductive invariant and safety theorems of `ExternalExecution` |
| `EmergencyStop` | one flag: its records, the cache of each process, its writers |
| `EmergencyStopProofs` | inductive invariant and safety theorems of `EmergencyStop` |
| `NestedCompletion` | the session of a chat and the threads that continue an approval |
| `NestedCompletionProofs` | inductive invariant and safety theorems of `NestedCompletion` |
| `MCAtomicClaims`, `MCTurnState`, `MCContractLedger`, `MCProposals`, `MCExternalExecution`, `MCEmergencyStop`, `MCNestedCompletion` | model values, bounds and symmetry for TLC |

The modules follow the life of an action, and each takes over what the one
before it promises:

- `Proposals` decides whether there is a contract at all. It knows the later
  life of a contract only as the transitions that `ALLOWED_CONTRACT_TRANSITIONS`
  permits (`Move`, `Publish`). What it decides about an earlier failed contract
  is the constant `RecoveryProven` of `AtomicClaims`.
- `TurnState` brackets the gateway calls with the coordination row and keeps the
  ledger simple (one durable lifecycle per contract, no cache).
- `ContractLedger` has the cache and the full transition but no row, since the
  Mini App and the deterministic resolver reach the gateway without one. So each
  question is asked where its state is.
- `AtomicClaims` is the lowest layer: one table, SQL transactions as steps.
  `ContractLedger` abstracts it to "a claimed contract is not run again"
  (constant `Claims`).
- `ExternalExecution` is one of the tools that a dispatch calls; that two
  submissions of one contract do not overlap is what the approve lock of
  `ContractLedger` gives (guard of `Start`).
- `NestedCompletion` is what a handler does after the gateway answered. It takes
  the contract's life in one step each (`Press`, `Approve`, `Execute`, `Reject`),
  with exactly the freedom that `TurnState` and `ContractLedger` leave: buttons
  exclude each other, a word does not, one approver executes.
- `EmergencyStop` stands beside them: a dispatch asks it first.

### AtomicClaims

`claims` is the table, one row per contract (`Row`: status, key, the attempt
that inserted it, retry lineage). `att` is the state of each attempt, an
invocation of `execute_with_atomic_claim`.

| action | code |
|---|---|
| `Begin` | `_execute_contract` reaches the atomic executor; whether a recovery was proven comes from the proposal (`RecoveryProven`) |
| `Insert`, `Unavailable`, `DatabaseError` | the INSERT of `claim_contract_execution` and its failures |
| `Classify` | the SELECT that names the conflict, after the INSERT failed |
| `Supersede` | the recovery transaction: lock the old row, check it, park its key, insert the new row |
| `Refuse` | the executor refuses without a claim |
| `ProviderWrites`, `ExecutorReturns` | the dispatch: the provider applies the write; the executor returns or raises, before or after |
| `Settle` | `update_claim_status`, which may be lost, its result ignored |
| crash | an attempt may die at any step, its row stays |

### TurnState

`row` is the row of one identity, `life` the durable lifecycle of each contract,
`op` the handler of each event. `Begin`, `Reopen`, `Claim`, `Finish` are the
statements of the repository; `StoreError` fails any of the first three before or
after its commit. `Press`, `Say`, `Interrupt` are arrivals. `Route` decides what
the handler does from the contracts as they are then; `Read`, `Write`, `Verify`
are a durable transition, `Execute` the dispatch of an approved contract and the
record of its outcome, `Restart` the process dying. `Finish` closes the row by the
status that the process's cache has of the contract (`app.py:5030`, `app.py:6652`).
The cache is not a variable here: it may know any status that the record ever had,
so `Finish` may take the contract for resolved as soon as it was resolved once
(`resolved`), also when a late write undid that, and for unresolved at any time.

### ContractLedger

`ram` is the cache, `air` the durable records, `op` the handler of each event
and `ran` the history of provider runs.

| action | code |
|---|---|
| `Propose` | `ExecutionLedger.save`: persisted, then cached |
| `Arrive` | an event reaches its handler |
| `Find`, `Hydrate` | `find_by_id`; the durable record is cached after it was read |
| `Look`, `Recover` | `find_live_by_user`: from the cache, or, if nothing of this identity is cached, from the durable store |
| `Route` | `route_confirmation_word`, `route_cancellation_word`, `mark_context_interrupted` and its fallback |
| `NextItem` | their loops |
| `Enter` | `approve()` under its lock, or `reject()` without one, looks at the status again |
| `Capture`, `Get`, `Patch`, `Verify`, `Cache` | `update_status` and `transition` |
| `Refresh`, `Heal` | `_refresh_stale_contract_cache` and the one retry |
| `Dispatch` | `_execute_contract` |
| `Answer` | the reply, built from the cache as it is by then |
| `Restart` | the cache and all handlers are gone |

Faults are a constant set: `lookup` (a read fails), `reply` (a PATCH is lost, or
only its reply), `claim` (the claim store refuses), `restart`.

### Proposals

One business fingerprint. `store` and `ram` are the durable and the cached status
of each contract that carries it, `index` is `_by_fingerprint`, `token` the
holder of its claim, `call` where each caller stands, who calls again when a call
has returned. `override` is the contract of the open challenge. `astray` is a
history variable: once, a record that was read from the repository was cached, and
the index turned to it (`Reads`, in `Warm` and `Press`), too late: when another
contract was live, in doubt or done, or a transition was on its way to the cache
(see "Counterexamples" in section 5).

| action | code |
|---|---|
| `Ask` | `propose_action` begins; who calls decides what an earlier rejection means |
| `AskLive` | the agent's question for pending contracts, which a warm cache answers alone |
| `LookUp` | `find_by_fingerprint` on the cache, and the judgement of what was found: blocked, repeat challenge, or go on |
| `Query`, `Warm` | the same on the repository; the record is cached, and the index follows it, after other calls may have run |
| `Claim`, `Lose` | `claim_fingerprint_cas`: granted, or lost after a wait and tried again up to the limit |
| `Save` | the durable write, and the release of the claim when it fails |
| `Cache` | `_cache_contract` with the claim token: publish and release under one lock |
| `Move`, `Publish` | a transition of a contract: durable, then cached |
| `Press` | a button makes `find_by_id` cache a contract |
| `Override` | `route_override_word`: the challenge is used up, then the contract that the fingerprint leads to by now is run |
| `Restart` | cache, index, claims, overrides and calls are gone |

### ExternalExecution

`job` holds the records, `run` the provider's processes, `lease` the rows of the
lease table, `sub` and `pol` the calls of `submit()` and the scheduler threads.
History variables: `lost` (runs whose submission never reached the record),
`slow` (pollers whose lease ran out under them), `late` (jobs it happened to).

| action | code |
|---|---|
| `Start` | `submit()` reads the job; only a new or never submitted one goes on |
| `Gate` | the capacity policy, which reads the jobs of the day |
| `Create` | the record before the call |
| `Call` | `adapter.submit()`: accepted, done at once, turned down, or broken before or after the process started |
| `Record` | the result is written over the record |
| `Ends`, `Vanish` | the provider's process ends, passes its deadline, or dies with its instance |
| `List` | `poll_due()` reads the submitted jobs |
| `Acquire` | the lease: taken when free or expired |
| `Read` | the job is read again under the lease |
| `Poll` | `adapter.poll()`: from the exit status, the deadline, the directory and the validation and upload of the artifact |
| `Write` | the whole record as read, with the new status; neither lease nor status is looked at again |
| `Clean` | the job directory of a completed job |
| `Release` | DELETE with job and lease token |
| `Expire` | 120 seconds pass |
| `SubmissionDies`, `PollerDies` | the instance is gone |

### EmergencyStop

One flag. `rows` are its records in Airtable, `mgr` the `EmergencyStopManager` of
each process, `writer` the calls of its `write()`; `over` and `stopped` are what
`cost_monitor` knows of the day. History variables: `standing` (the stops written
since the last clear), `crossed` (clears that another write overtook between
their check and their PATCH), `behind` (processes that act on what was before the
last write).

| action | code |
|---|---|
| `Age` | the cache is older than `ttl_seconds` |
| `Refresh`, `Apply` | `_maybe_refresh_locked`: read, then replace the cache only by a good answer |
| `Stop`, `Clear` | the Mini App endpoints; a clear names the operation id its owner was shown |
| `Check` | the hourly watchdog behind the scheduler's guard |
| `Look`, `Write`, `Verify` | the store's lookup with comparison, PATCH or POST, and readback |
| `Mark` | under the lock the cache is made stale, and `write()` returns |
| `Undo` | the watchdog forgets a stop that was not confirmed |
| `Exceed`, `Midnight` | `record_call` and the new day |
| `Restart` | one process starts again |

### NestedCompletion

`slot` and `row` are the chat's `commercial_completion`, in memory and in the
Sessions table; a *deal* waits for a counterparty that is created first, under an
approval of its own, marked by a nonce. `thread` is what each server thread is
about to do; `origin`, `folded` and `fired` are history: from which deal a
creation was proposed, into which deal its record went how often, how often its
approval was continued.

| action | code |
|---|---|
| `Begin` | a fresh request for a deal (closes what is open), `/dealfromlead` (replaces it) |
| `Drop` | a cancel word or another command |
| `Answer`, `Put` | `restore`, the answer, and the session it leaves: read, then written |
| `Propose` | the nested frame is complete: nonce, proposal, and the session that waits for it |
| `Press` | an approving or rejecting button, or an approving word, that saw the contract pending |
| `Approve`, `Execute` | `approve_with_lifecycle_result` and its dispatch, with or without evidence of a record |
| `Reject`, `RejectQuietly` | a rejection with its cleanup; a typed or implied one without |
| `Look`, `Tidy` | `_apply_diamond_post_approval_continuation` and its rejection counterpart: does the session hold the frame with this nonce? |
| `Fold` | `resume_nested`: the record goes into the deal, the deal is proposed |
| `Restart` | the threads are gone, the session is read from the table |

## 3. The runs

### Runs that pass

| run | instance | shows |
|---|---|---|
| `claims` | 3 attempts, 3 contracts, 2 keys; all failures | one dispatch per contract, one owner per key, retry only after failure, one provider write per key, exact claim proof, conflicts stay visible, complete lineage, the row's lifecycle, and that the table implements `ExecutionOwnership` |
| `turn_state` | 3 events of every kind, 2 contracts; all failures | an owner keeps the row for its whole call; the row's protocol; until an unrelated message arrives no contract is approved by one guarded handler and resolved by another, and a terminal row means a resolved contract |
| `turn_live` | 2 events of every kind, 2 contracts, words beside the row; no faults | every claim of the row ends; every event is answered |
| `ledger` | 2 events of every kind, 2 contracts; persistence, claims; all faults | who is told "performed" is told the truth |
| `ledger_lock` | 3 buttons or words, 1 contract; persistence, no claims; failing lookups, lost replies | the approve lock alone makes a contract run at most once within one process |
| `ledger_calm` | 3 events of every kind, 1 contract; no faults | a bare confirm runs an interrupted contract only when the question is on its record, or a rejection is at work; the single retry of `update_status` fails only for a real change, never for a version that drifted |
| `proposals` | 2 callers of every kind, who call again and again, 3 contracts (one may exist from before, in any closed status); failing lookups and saves, restarts | the claim always has its holder; until a record read from the repository comes too late, the action is asked for once, and an override word runs the completed contract that its challenge was issued for |
| `external` | 2 jobs at a limit of one, 2 submissions, 2 pollers, 2 provider runs, polled or synchronous; 1 fault anywhere | work starts once; leases exclude; results are final and true; every accepted job gets one |
| `emergency` | 2 processes (one talks to the language model, one serves the Mini App), a stop, a clear, a watchdog stop, 2 records; 1 fault anywhere | a reported stop holds and spreads; a clear is informed; the watchdog goes on until confirmed |
| `nested` | 2 deals, 2 nested creations, 2 threads, lost session writes, 1 restart | a record goes into its own deal, and once |

### Runs that TLC refutes

Each states what a comment or document of the repository says, and shows what
the code does instead; `PROJECT.json` quotes the line.

| run | what happens |
|---|---|
| `turn_reconfirm` | after an interruption the first confirm shows the contract again and releases the row; the second cannot claim a released row of the same contract and is refused |
| `nested_twice` | a word read the contract as pending while a button executed it; both continue the approval. The second has no evidence of a record and takes the cleanup branch. `FoldedOnce` of the `nested` run shows what remains true: the record is not used twice |

### Bounds, and why they are enough

- *Events and attempts*: two or three. The races found need two handlers and a
  third that prepares the state (an interruption, a proposal, a second button).
  `turn_live` and the two-contract runs of the ledger with faults use two because
  of the size of the state space.
- *Contracts*: two where a choice between contracts matters (several live
  contracts, a row that names another contract), else one. Claims use three
  contracts on two keys: a recovery chain on one key and a bystander. Proposals
  use three: one from before and one for each caller.
- *Attempts of a proposal* (`MaxTries` = 2, five in the code): one lost race and
  one more try; the third and later tries start from the same state.
- *Faults* (`MaxFaults` = 1 in `external` and `emergency`): each property concerns
  what one failure does to a protocol that otherwise works; the fault may be any
  of a dozen and happen at any step. The safety properties are proved for any
  number. The other modules do not count their faults.
- *Jobs and runs*: with two jobs, two submissions and two runs, one job can be
  submitted twice or both once; a job that waits for capacity needs the second.
- *Records of a flag* (`Row`): two, the first duplicate; which of two a read or
  a write picks is open.
- *Threads*: two continue approvals while the other prepares the session; three
  threads without a restart add nothing that two with one do not reach (4.2 million
  states, no violation).
- *Versions*: counters are not bounded by a guard. Each event takes finitely many
  steps and never restarts, so every counter and each run is finite.
- *Restart*: in `ContractLedger` and `Proposals` only when something is cached: it
  ends every handler under way, so their number is bounded by what is cached
  again. `MaxRestarts` = 1 in `nested`.
- *Deadlock*: `CHECK_DEADLOCK FALSE` everywhere, because the workload is finite
  and a run ends when every event has been handled. That nobody waits for ever
  is a liveness property where the code can promise it (`EveryEventIsAnswered`,
  `JobsSettle`, `WatchdogStops`).
- *Symmetry*: over contracts, keys, events, attempts, callers, deals, creations
  and threads, which no definition tells apart; never where liveness is checked,
  nor in `EmergencyStop`, whose first record is chosen.

Every property of a passing run has a mutant in `PROJECT.json`: an operator next
to the one it replaces ("Faulty variant of ..."), a plausible slip in that
code, which violates the property in that same run.

### Fairness

- `turn_live`: `WF_vars(Step(o))` for each event, since a handler is a thread
  that the server runs to its end and each blocking call has a timeout. Arrivals,
  proposals and faults get none. Strong fairness is not needed for the approve
  lock: its holder always gets on, and no run has an unbounded number of rivals.
  With faults the property is false and not claimed: a claim of the row whose
  reply was lost, or whose process died, is never closed (see the hazards).
- `external`: weak fairness of each poller's step, since the scheduler polls
  again and again and each call has a timeout; of `Ends`, since a run ends or
  passes its deadline; of `Expire`, since time passes. Submissions and faults get
  none. A poller may die at any step and lists the jobs again.
- `emergency`: weak fairness of a refresh under way or due in a process that
  spends, since the job's guard evaluates the flags first; strong fairness of the
  watchdog's `Check`, since its job comes every hour but the cache is fresh only
  for seconds at a time; strong fairness of its write, which waits for a lock that
  other evaluations take and give back again and again.

## 4. What is proved

Proofs are checked by TLAPS for any sets of contracts, keys, events, attempts,
callers, jobs, processes, deals and threads (no finiteness is assumed) under the
named assumptions of the modules: that the "nobody" values are outside the sets,
that flags are Boolean, limits numbers, and the kinds the modelled ones. Limits
such as `MaxFaults` and `MaxTries` are arbitrary in the proofs.

**AtomicClaimsProofs.** The properties alone are not inductive: that nobody
else owns a key depends on which attempt inserted which row. `IInv` adds:

- `AttemptShape`: what an attempt holds in each phase;
- `RowOwned`, `OwnerHasRow`: a row names the attempt that inserted it, and an
  attempt that acquired still finds its row;
- `RowOutcome`: a settled row agrees with the attempt's outcome;
- `KeyUnique`: two rows share a key only if one of them is parked;
- `RecoveryStaysProven`, `ParkedNeverWrote`: the absence proof of a recovery
  stays true, so the parked row's attempt did not write.

`Inductive` proves `Spec => []IInv`; `TypeCorrect`, `DispatchOnce`, `OneOwner`,
`RetryAfterFailure`, `WriteOnce`, `ProofIsExact` follow from it, `Lifecycle` and
`Implements` use it in a step-by-step argument (each action of the table is a
step of `ExecutionOwnership` or a stutter). `ConflictVisible` needs that rows
stay and that a key which is held stays held, though its holder may change;
`LineageKept` adds that a recovery is never recovered (`RecoveriesAreFirst`), so
the row that took a key keeps it (`Lineage`).

**TurnStateProofs.** `IInv` is `TypeOK`, `Wired` and `OwnerKeepsRow`. `Wired`
ties what a handler holds to its phase: a handler on its way to the row is
guarded and names its contract, no handler has read a version newer than the
row's, and one that is about to reopen (claim) the row at its present version
has read that it names another (this) contract. Without it `Reopen` and `Claim`
could not be shown to keep the row's protocol. It gives `TypeCorrect`,
`OwnerKeeps` and `Lifecycle`. `GuardedOnce` and `TerminalMeansResolved` speak of
the time before an unrelated message arrives, whose unconditional PATCH can turn
an approved contract back to pending; for that time `RInv` adds `Calm` (no
contract is interrupted, so every handler plans approvals and rejections only,
and a contract that was ever resolved still is, so a close that decides from a
cached status is right whenever it says "terminal") and `Settled` (a contract that a guarded handler approved or rejected is past
pending, and no other guarded handler is about to write it).

**ContractLedgerProofs.** What a handler may hold is stated over three sets:
the contracts that are cached, that are stored and that the provider completed.
They only grow while the handler lives, so what was true when it read them stays
true (`Stays`), and one lemma per action suffices. `IInv` says that a handler at
work has its contract in the cache (`Wired`), that what it looked up is stored
(`Found`), that a "completed" in the cache, in the store, in a looked-up record
or on the way there is of a contract the provider completed (`Truthful`), and
that a retry holds the version it was refreshed with (`Healed`). This gives
`TypeCorrect`, `SuccessIsTrue` with every fault, and `ConflictIsReal` when
lookups answer and the process does not restart.

*The lock.* `RunOnce` is proved for any number of contracts and
handlers, any of the faults but a restart, persistence and claims on or off, and
every kind of event but the interrupting message. Mutual exclusion (`Locked`) is
the easy half. The other half is that the cached status never becomes "pending"
again after the run, although records that were looked up before it are cached
after it: a record that is still pending is the proposed one and so is its cached
entry (`Calm`); therefore a version check never fails against a pending record,
and whatever a handler has read back or refreshed from was decided already
(`Placed`, `Sober`). Both assumptions are needed: section 5 has the traces.

**ContractLedgerContextProofs.** `ContextIsKnown` is proved for any number of
contracts and handlers, every kind of event, with or without the durable store,
when no fault happens and the claims are on. The interruption is first written to
the record and then cached, and other writers cache what they verified earlier or
later, so nothing simple is true of the flag in the cache. The inductive invariant
follows it: an interruption on record is in the cache, or its writer is about to
put it there, or an approval overtakes it (`Noticed`); once a word has to respect
it, the flag in the cache is not lost except to an approval that nobody can stop
any more, because its PATCH was the last one (`Sealed`, `Closing`); a word that
looked the contract up without the flag therefore waits for the lock of that
approval (`Heeded`), finds the contract decided when it gets it, and the claim
refuses the second run. Two more parts hold this together: only the holder of the
lock approves (`Locked`), and whoever writes `supersede`, an outcome or the
question does so of a contract that was run or asked about (`Grounded`). The
invariant is `Rejecting \/ CInv`, since a rejection, which takes no lock, breaks
`Sealed`; a rejection that arrived stays one (`RejectingStays`). Section 5 has the
traces that make each assumption necessary.

**ProposalsProofs.** A closed status is final, so whatever the cache, a pending
publication or a record read long ago say about a closed contract stays true
(`Faithful`). Call a contract *engaged* when it is live, in doubt or done, or has a
transition on its way to the cache. Until a record came too late (`Led`), an engaged
contract is where the index leads; or its saver still holds the claim; or the index
is empty and nobody who saw no contract is on the way to the claim (`Traced`). There
is one at most (`Alone`), and nobody else saves or publishes while there is
(`Guarded`), since a call that goes on to the claim past a contract saw it closed
and published (`Heeded`), and a transition is due only of a contract that the cache
still takes for open (`Owed`). Without the transitions on their way the argument
breaks: a contract that is closed in the store and open in the cache would turn the
index back to itself after a newer one was saved. This gives `HolderSaves`,
`OneDecides` and `WordRepeatsItsOwn`: the completed contract of an open challenge
is engaged, so no other can be saved, published or come back before the word.

**ExternalExecutionProofs.** A submission under way is the only one of its job
and finds the record as it left it, because no poller looks at a job that was not
recorded as submitted (`Submitters`, `Pollers`). Each run that was started is on
record, in its submission's hands, or lost (`Accounted`), and a second start
would need a record that still says "never submitted". While a lease did not run
out, its poller writes over a job that is still submitted. This gives
`NoSecondStart`, `LeaseIsOwn`, `CompletedIsGood`, `ResultsStay`.

**EmergencyStopProofs.** A stop that stands left a record that is on
(`OnWhileStanding`), so no refresh that read after it can let anybody through, and
the one that read before it is waited for by the lock (`Mark`) before the stop is
reported. A clear that is about to write has compared the operation id, unless it
was overtaken (`ClearGood`). This gives `StopStays`, `StopSpreads`, `ClearKnows`.

**NestedCompletionProofs.** At most one thread may still put the record of a
creation into a deal: it executes it, or it carries its evidence; and as long as
there is one, nobody has (`OneOwner`, `Owned`). Every nonce in the session, in the
table or in a thread's hands belongs to the deal that is kept with it (`Marked`),
whatever the threads and a restart make of the session. This gives `RecordGoesHome`
and `RecordGoesOnce`.

**Only model-checked.** Liveness (`OwnershipIsTemporary`, `EveryEventIsAnswered`,
`JobsSettle`, `WatchdogStops`), as the prover has no support for fairness and
ENABLED; every invariant and action property of a passing run is also proved, some
under assumptions that this section names. Two further limits of the prover shape the
modules: it cannot instantiate the induction theorems that take an operator, and
loses its SMT backend when a RECURSIVE operator is in reach, so the modules with
theorems have neither.

## 5. Limits

### Counterexamples without a run of their own

What passes is as narrow as its instance says. Some neighbours of the passing
instances and properties do not hold. Each of these traces is one that a
step of the models shows, and each is a limit of the code, not of a promise that
a run could refute.

*Claims.* `list_pending_claims` uses a name that its module does not define
(`STATUS_PENDING`) and swallows the error: it always returns an empty list, so
the claim of a dead process is never listed. It has no caller outside its test.

*Coordination row.* With the deterministic resolver on, a cancel word resolves a
contract, without the row, that a button which owns the row approves
(`app.py:6631`). The status of the contract decides between them.

*Ledger.*

- `reject()` checks and writes without the lock that `approve()` holds
  (`core/action_gateway.py:3007`): a user reads "cancelled" and the action runs.
  The trace is shortest in the cache-only mode (`Persistent = FALSE`, which no
  listed run sets): reject reads pending, approve takes the lock, writes approved and
  dispatches, reject writes its status, and answers. With persistence the
  expected status narrows the race to the one that the header of
  `core/action_contract_repository.py` documents.
- After a restart one new proposal makes the cache warm, and the words no longer
  find the older pending contracts (`core/action_gateway.py:1311`).
- `RunsOnce` with `Persistent = FALSE`, `Claims = FALSE`, three events of every
  kind on one contract: a message that collected the pending contract writes
  `pending` back after the contract ran, and it can be approved again.
- `RunsOnce` with `Persistent = TRUE`, `Claims = FALSE`, `Faults` with `restart`,
  three buttons or words on one contract: a late hydration and a rejecter's
  refresh let a second approver pass `approved -> approved`. With
  `Claims = TRUE` neither contract is run again: that is what `AtomicClaims` is
  for.
- `ConfirmKnowsContext` outside its assumptions. The refresh after a conflict
  copies status and version but no flag (`core/action_gateway.py:2806`), so a
  cached entry that missed the interruption stays without it:
  - a rejection (with four events): its entry, verified before the
    interruption, is cached after it, a refresh makes it pending again, and the
    word sees no flag. Hence `Rejecting` in the property;
  - `lookup`, two events: the interrupting message writes the record, both its
    read-backs fail, and the cache never hears of it; `reply` the same with two
    lost replies;
  - `restart`: a record that was looked up before the interruption is cached
    after it;
  - `claim`: an approval that cached its older entry is refused the claim and
    never runs, so it stops nobody.

*Proposals.* A record that is read from the repository turns the index to itself,
however old it is (`core/action_gateway.py:1281`, `core/action_gateway.py:1268`).
`AskedOnce` and `RepeatsItsOwn` speak of the time before that happens too late
(`astray`), because afterwards neither holds:

- *A second request.* On a cold cache a caller reads an old, failed record of the
  fingerprint; before it caches it, another saves a new contract; the index turns
  back to the old one, a failed contract stops nobody, and the caller gets the
  claim and saves a second pending contract.
- *A word that runs another contract.* Contract `c1` was rejected, a later one, `c2`,
  was completed, and the process restarts. The next proposal finds `c2` in the
  repository and issues its challenge. Somebody presses an old button of `c1`:
  `find_by_id` caches it, and the index leads to `c1`. The override word then runs
  `c1`, the action that was rejected (`core/action_gateway.py:3843`).
- *A transition overtaken.* The cache was warmed with an open contract `c` while
  another caller, which had found nothing in the cache, is still waiting for the
  repository. `c` fails in the store; before the failure is published, that caller
  reads it, caches it, claims past it and saves `d`; then the failure of `c` is
  published and turns the index from `d` to `c`. `d` is pending and the next
  proposal is not stopped.

*External execution.*

- Capacity is counted before the record is created and the provider called
  (`core/external_execution_boundary.py:106`): two submissions of different
  contracts both pass a limit of one.
- The instance dies after the adapter started the provider's process and before
  the record was updated (`core/external_execution_boundary.py:127`). The record
  says "created" (in the models `lost` holds the run); polls look at submitted jobs
  only, so the run ends unseen, and its result is nobody's. `JobsSettle` is about
  jobs that were recorded as submitted.

*Emergency stop.* The store compares the operation id in one call and patches the
record in another (`adapters/airtable_emergency_stop_store.py:199`). An owner's
clear compares and finds what it was shown; a watchdog's stop of another process is
written and verified; the clear's PATCH lands on it, and the flag is off although
the owner never saw that stop. `ClearIsInformed` excludes such clears (`crossed`).

*Nested completion.*

- Any message that reaches the chat while the nested approval is pending restores
  the session, finds no field left to ask, and closes it (`app.py:6300`): the
  record is created later and the deal is gone.
- A completion that is begun while the deal is proposed is cleared together with
  it (`app.py:4125`).
- A rejection by word, or a failed execution, leaves the finished nested frame on
  its deal, which `app.py:5315` says must not happen (`RejectQuietly`, `Look`).

### What the models leave out

- *Texts*: parsing of words, wording of replies, rendering. The router's result
  is the kind of an event.
- *Time*: the TTL of a contract, the polling interval of 300 seconds, waits. A
  pending contract never expires in the models, which only adds behaviours; a
  lease and a cache may expire at any time.
- *Stripes*: the 64 approve locks are one lock per contract; two contracts that
  share a stripe only wait more.
- *Bookmark*: the contract last shown to a person may be any live one.
- *Outcomes*: `failed` stands for `outcome_unknown` too, where no property
  tells them apart; a run whose identity check fails counts as failed.
- *Cache-only mode*: `completed` stands for `executed`, the status the code
  writes there.
- *Two words at once*: the second word of a double tap counts as having seen
  the contract that the first one had shown again.
- *One identity, one chat, one flag, one fingerprint*: contracts of other people
  live in other rows and other keys; what they share is the process. The
  emergency flags are independent of each other, and the stop that the
  environment forces is a constant answer.
- *A PATCH that lands after its caller gave up*: a failed write has happened or
  not by the time the failure is seen.
- *Nested frames*: only a deal nests another completion, and its counterparty is
  the last thing it asks for; the module assumes that the action gateway and the
  deterministic approval flags are on, as they are in production.
- *Submissions of one job at a time*: `Start` waits for the end of an earlier
  submission of the same contract. The code has this from the approve lock, so
  within one process only; between two processes, as during a deployment, it
  rests on the execution claim of `AtomicClaims`.
- *Other exceptions of a proposal*: between the claim on a fingerprint and the
  save (`core/action_gateway.py:2379` to `2428`) only the persistence error gives
  the claim back, and only that error is in `Save`. Any other exception there
  would leave the claim behind; the lines assemble a record from values that were
  checked before.
- *The question after a resumed deal* (`app.py:4108` to `4113`): a nested completion that
  leaves its deal with a field to ask is dropped from `Fold`, since the counterparty
  is the last field of a deal.
- *Cost*: the counters of `cost_monitor` are "over the limit" or not; they are in
  the memory of one process. Its watchdog runs behind the guard of the
  scheduler, which does not let it run while the store cannot be read.

### Not modelled

See `components` in `PROJECT.json` for the files. The emergency window has no
caller outside the tests that would activate it; `approval_queue_recovery` words a
reply and changes nothing; adapters, wording, ranking and reporting have no
protocol. Most of the source is of this kind: parsing and answering in Hebrew
(lead pipeline, router, librarian, decision hub), projections for the Mini App,
and reports. The rest is planned.

## 6. Plan

Done, in this order: `AtomicClaims` with its abstract specification and
proofs; `TurnState`; `ContractLedger`; `Proposals`; `ExternalExecution`;
`EmergencyStop`; `NestedCompletion`, each with its proofs.

Next:

1. *`PendingActions`*: the legacy queue, its TTL, and the synchronisation of
   the ledger after a legacy callback (`app.py:5119`, `event_bus.py:64`).
2. *`Sessions`*: eviction and the draft state machine, the lead questionnaire and
   its buffer; *`Guards`*: duplicate suppression with a release after a failure.
3. *`ConnectionPool`*, *`Otp`*: small machines with limits of their own.
4. *Pure operators*: recurrence of tasks, cash flow and allocation, against
   reference definitions over bounded inputs, in modules without theorems.
