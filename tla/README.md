# A TLA+ development of the LiteLLM control plane

This directory holds TLA+ modules that model the control plane in `src/`, TLC
configurations that check them on small instances, and TLAPS proofs of what holds
on every instance. Line numbers below are those of the files under `src/src/` (code)
and `src/docs/` (documents).

## 1. The system

The control plane is one FastAPI process with one SQLite database. It keeps a registry of
providers, accounts, endpoints, nodes, consumers and keys; LiteLLM proxies ("nodes") serve
the traffic and send events back. A background loop (`api/main.py`, every 30 s) runs the
cooldown pass and the drift check. FastAPI runs every synchronous handler in a thread, so requests and the
loop run concurrently. They meet in five places: the database, the configuration files of
the nodes, `node_config_paths` and the cache of secrets in memory, and the keys the proxies honour.

| Component | State it keeps | Operations | What makes it correct |
|---|---|---|---|
| State machine of accounts and endpoints (`health/state_machine.py`) | `status`, `cooldown_until`, `failure_count`, `manual_override` | `handle_*_failure`, `handle_*_success`, `transition_*_state` | a stale decision leaves no contradictory row; overrides belong to operators; racing reports amount to some serial order |
| Event ingestion (`events/ingestion.py`) | none | `ingest_event_callback` | events reach the right entities; unknown and deleted ids do no harm |
| Probe engine (`health/probe.py`) | none | `probe_endpoint`, `reconcile_cooldowns` | every cooldown ends; accounts come back through a probe; transient statuses are not committed |
| Registry (`registry/store.py`, `api/routes.py`) | all tables | create, update, delete, status, enable | deleted rows stay deleted, references hold, concurrent PATCHes merge, records are true |
| Database (`config/db.py`, `config/schema.sql`) | connections | `get_db`, migrations | reads are unlocked, the first write takes the one write lock, an exception rolls back |
| Health manager (`health/manager.py`) | none | `get_health_summary` | the health of a node agrees with what the node routes |
| Generator (`config/generator.py`) | none | `generate_config`: registry and secrets to configuration | an endpoint that was excluded comes back only by a success, an operator or a probe of it; secrets are fresh |
| Rollout orchestrator (`rollout/orchestrator.py`) | files on nodes, `rollouts`, `node_config_paths` | `deploy_config`, `_rollback`, `detect_drift`, `reconcile_node` | file and record agree; rollbacks restore a success; drift is repaired |
| Virtual key manager (`registry/key_manager.py`) | `consumer_keys`, keys at the nodes | sync, recover, suspend, revoke | rows have consumers; active rows have real keys; keys come and go with consumers |
| Policy engine (`policy/engine.py`) | none | `get_candidate_endpoints` | offers what the generator routes |
| Doppler resolver (`secrets/doppler.py`) | cache of downloaded dictionaries | `resolve`, through `_get_secrets_with_cache` | a secret is at most a time to live stale; a rotation reaches the nodes |
| LiteLLM adapter (`adapters/litellm_adapter.py`) | none | HTTP calls | (an input of the modules above) |
| Audit and metrics (`audit/`, `metrics/`) | append-only tables | log, aggregate | (nothing decides on them) |
| API and loop (`api/`) | none | routes, authentication, reconcile loop | the loop survives failures |
| Bootstrap (`config/bootstrap.py`) | none | inventory file to registry | (the initial state) |

**What is hard here.** Nothing locks across a read and the write it leads to: `get_db` opens its
connection in autocommit mode, so a request's SELECTs see the latest commit, and only its first DML
statement takes the lock (waiting at most 10 s), which it keeps to the end. The lock is held
during HTTP calls to providers, proxies and Doppler. Side effects outside the database (files,
keys, memory) are not undone when a transaction is. Callbacks arrive late, after the row
was deleted or disabled. The process may die anywhere. `PROJECT.json` lists each hazard at
its line, with the properties that cover it or the reason why none does.

## 2. Modules and how they correspond to the code

### Health

* `HealthRow`: the health columns of one row and the pure effect of each function on them.
  `accounts` and `endpoints` have the same columns, and the source duplicates every function, so
  one operator stands for both: `SetStatus` is `update_*_status` (resets timer and counter on
  `active`), `SetCooldown` is `set_*_cooldown`, `Move` is `transition_*_state` with its early return,
  `Failure`/`Success` are `handle_*_failure`/`handle_*_success`, `Probe` is `probe_endpoint`.
* `HealthControl`: the state machine. `row` is what is committed, `todo[r]` what request `r` still has
  to do to each entity, `pass` the cooldown pass. A request is `Receive` or `RequestEndpoint`,
  then for each entity a `Peek` (the unlocked SELECT and the decision it leads to, kept in `todo`), and,
  at its first write, `Commit`: with the lock taken, the decided write is performed on the row *as it
  is now*, and the rest of the request runs with it. `Abort` is a rollback.
  The pass scans without a lock (`ScanEndpoints`, `ScanAccounts`), skips probes that write nothing
  (`SkipEndpoint`), and does everything from its first write on in one step (`ProbeEndpoints`,
  `ProbeAccounts`), on the ids it scanned before. Operators' single-statement requests
  (`SetAccountStatus`, `Create...`, `Delete`) are one step.
* `HealthSerial`: the abstract specification: each report one atomic step of its handlers.
  `HealthRefinement` states that `HealthControl` implements it for failures (`FailuresSerialize`).
* `HealthClaims`: two statements of the comments that the code does not keep.
* `HealthRouting`: what the columns are for, as operators over `HealthControl`'s committed rows. `Generates` is
  the exclusion filter of `generate_config`, `Eligible` its second copy in `get_candidate_endpoints`
  (kept in that function's own shape), `NodeHealth` the aggregation of `get_health_summary`. It adds no
  variable: the three functions only read.
* `HealthProofs`: types and `ActiveIsClean`; `HealthStepProofs`: what steps may do, and routing;
  `HealthSerialProofs`: the refinement of `HealthSerial`.
  `MCHealthControl`: instances for TLC.

### Rollouts

* `Rollout`: one node. `disk` is the file, changed at once, `Torn` between the truncation by
  `open(.., "w")` and the write; `logged` and `last` are the committed rows and the latest success;
  `flow[w]` is a deployment in progress with its uncommitted row and its backup; `known` is
  `node_config_paths`; `desired` is what the generator would return now. `Generate` (API) and `Detect`
  (loop) happen without the lock, `Begin` takes it, `Open`, `Fill` and `WriteFails` apply,
  `Verify`, `TimeOut` and `VerifyRaises` (no master key, or a `check_health` that raises) verify, `Reopen`, `Refill` and `RestoreFails` roll back,
  `Commit` and `Discard` are the end of `get_db`. The API turns a failed deployment into an
  exception, hence `Discard`; `reconcile_node` catches it, hence `Commit` for `Loop`.
* `RolloutAtomic`: the abstract promise: file and recorded success change together.
  `RolloutRefinement` maps the file to `Settled`, its content when the running deployment began.
* `RolloutClaims`, `RolloutProofs`, `RolloutAtomicProofs`, `MCRollout`.

### Keys

* `KeySync`: `db` is committed, `view` is what the lock holder sees, `live` are the keys the nodes
  honour (external). `flow[w]` is a request (create, update, resync, delete a consumer) or the
  key half of the drift check. Each call to a node (`GenerateKey`, `UpdateKey`, `RevokeNode`) ends as
  done, done with the answer lost, refused, or impossible because the node has no master key
  ("unset", an exception); the row it leads to is written in a step of its own (`Write`), which takes the
  lock if nobody took it before, and may meet a primary or a foreign key.
  A request that waits for the lock in vain fails (`TimeOut`), except in the recovery of a pending row, which
  takes that for a refusal of the node (`RecoverLater`). The drift check lists the keys (`DetectKeys`) and then,
  in a SELECT of its own, the consumers (`DetectConsumers`). `wants` is a history of what a request was asked for.
* `KeyTables`: the abstract promise about the committed tables `tables` and the requests in flight, `asked`.
  A request that commits has stored exactly the status it was asked for and, for every node, an outcome of a
  whole synchronization (`Save`; `Resync` for a PATCH without fields; `Delete`). One that fails has stored
  nothing (`Fail`). A round of the loop (`Repair`) changes no status, removes rows at one node, and synchronizes
  every consumer with all nodes or not at all, but for the one at which an exception stopped it:
  `reconcile_node` catches that exception, and the half-done work is committed. `Worked` says what a
  synchronization under the lock may make of a row; `Touched` is what a resynchronization, which reads before it
  has the lock, may. An active row that a node has updated cannot be told from one that it was not asked about:
  the limits that such an update sends are not modelled. `KeyRefinement` maps `db` and `flow` to it.
* `KeyClaims`, `KeyProofs`, `MCKeySync`.

### Secrets

* `Secrets`: from Doppler to the file of one node. `cache` is the entry of a service token: the
  dictionary and the age of the time it is stamped with. `flow[w]` is a run of `generate_config`, which
  resolves one endpoint after the other: `LookUp` reads the clock and the cache, `Answer` is the moment
  Doppler answers, `Store` puts the answer into the cache under the time read before the fetch, `Fail` is
  `resolve` raising (the generator skips the endpoint) or falling back to the environment. The workers share
  the cache without a lock. `Request`, `Round`, `Compare`, `Apply` and `Abandon` are `deploy_config` and the
  loop's `detect_drift`, with no more of a deployment than `RolloutAtomic` promises. `Rotate`,
  `Toggle` (outages) and `Tick` are the environment.
* `SecretProofs`, `MCSecrets`.

### Registry

* `Registry`: `row` are the committed tables, `todo[r]` the PATCH, routing request or deletion that request
  `r` has decided from an unlocked SELECT, `audit` what the latest record of `audit_logs` says of a row. `Create`
  is an `INSERT`, which comes before any read; `ReadForPatch`, `ReadForRouting`, `ReadForDelete` and
  `Count` are the SELECTs; `FinishPatch` is the `UPDATE` of the kinds that read the row again for the record,
  `FinishPatchBlindly` that of consumers and profiles, which do not; `FinishRouting` writes both columns;
  `FinishDelete` with `Restricted` and `Without` are the foreign keys of `schema.sql`; `Abort` is a rollback.
* `RegistryProofs`, `MCRegistry`.

### Abstractions

* Time is relative: `cooldown_until` is the number of ticks left. Time does not pass during a pass:
  the pass compares with one clock value read at its start.
* `failure_count` saturates at the threshold; the code only compares it with zero and the threshold.
* A batch of events is one transaction in the code and a series of requests here, which is *more*
  behaviour than the code has. An event may name an endpoint and an account that do not belong together, which
  `ingest_event_callback` accepts; the runs have one account, so this is covered by the proofs only.
* Incidents, metrics and the audit records of rollouts and health are append-only and are left out (those of
  registry rows are in `Registry`). So is the branch of
  `handle_*_success` for actor `probe`: no caller uses that name.
* In `Rollout` a statement under the write lock does not fail; the commit may. (The code has no other
  reason for a failing statement than a broken database.)
* One node with one path in `Rollout`; manual edits happen between deployments; the two reads
  of `detect_drift` (file, fresh configuration) are one.
* Keys are numbered per consumer and node; a number that only a forgotten key bears may be used
  again. Limits and model scopes of keys are left out.
* In `HealthRouting` the endpoints are those of one node, and a consumer is its status and the groups its profile
  allows: none without a profile, or with one that is gone.
* In `Secrets` all keys of the node are in one dictionary under one token (entries of two tokens have
  nothing in common), a rotation makes a new dictionary, and ages saturate at the time to live. Which endpoints
  pass the health filter does not change (it does in `HealthRouting`); the lookups of `api_base` use
  the same cache in the same way and are left out.
* In `Registry` two columns of a row are kept, so that two requests can meet in a row without meeting in a
  column. References that no request can change are a constant.
* Definitions marked "Wrong on purpose" are mutated forms of the definition after them. No
  specification uses them; they serve to show that each property can fail (`PROJECT.json`, "mutants").

## 3. Runs

| Run | Question | Properties | Bounds, and why they are enough |
|---|---|---|---|
| `health` | do stale decisions damage a row or put an excluded endpoint back into traffic, do deletions, account probes and the filters compose, and does every cooldown end? | `TypeOK`, `ActiveIsClean`, `TransientStatesHidden`, `EndpointsReturnByGrant`, `EngineMatchesGenerator`, `CooldownEnds`, `AccountActivationIsProbed`, `HealthKeepsOverrides`, `DeletedStaysDeleted` | one endpoint and its account, a request, the pass, operators' requests and registrations: every write depends on one row, and a lost update needs two writers; threshold 2 tells a failure below the threshold from the one that reaches it; all event classes; probes answer anything but 429 (no secret is handled as a 401); overrides of both kinds, and an endpoint that is registered degraded and forced |
| `health_serializable` | do racing failure reports amount to serial ones, and is the summary true whatever they leave? | `FailuresSerialize`, `HealthMatchesRouting` | two requests on two endpoints of an account, which operators set, register (endpoints degraded and forced) and delete, so that statuses of a node mix; no answered probe, success or endpoint request, because these do not serialize (`claim_success`) |
| `rollout` | what is recorded, is it what is on disk, and is drift repaired, whatever fails? | `TypeOK`, `UndecidedIsOnDisk`, `RollbacksRestoreSuccess`, `VerifiedIsOnDisk`, `DriftIsRepaired` | two configurations, one request and the loop; I/O errors, verifications that raise, crashes, edits, with and without a master key |
| `rollout_atomic` | are deployments atomic when nothing fails but verifications that find the node not ready? | `DeploysAreAtomic` | three configurations (old, mine, theirs), two requests and the loop |
| `key_races` | do races and work that stops half-way break the key tables, or mix the work of two transactions? | `TypeOK`, `RowsHaveConsumers`, `ActiveRowsHaveKeys`, `CommitsAreIsolated` | two consumers on two nodes, so that work can be half-done in either direction: the node `n1`, which the loop watches, does what it is asked or has no master key, `n2` refuses everything; two requests and the loop; one key per consumer and node, no restart (these are in `key_repair`, and all four properties are proved for more) |
| `key_repair` | does the loop bring and take keys, and are commits whole when answers are lost? | `ActiveConsumersGetKeys`, `DisabledConsumersLoseRows`, `CommitsAreIsolated` | one consumer on one node that may answer anything, so that rows are suspended and recovered; one request and the loop; three keys, so that a fresh key always exists; one restart (`MaxRestarts`) |
| `secrets` | how old may a deployed secret be, and does a rotation arrive? | `TypeOK`, `SecretsAreFresh`, `RotationReachesNode` | two endpoints, so that a generation may meet two dictionaries; one request and the loop, so that fetches overtake each other; two dictionaries, which come back when nothing remembers them; a time to live of one tick; outages and restarts |
| `registry` | do the registry's rows survive concurrent operators? | `TypeOK`, `ReferencesHold`, `AuditIsCurrent`, `PatchesMerge` | one row of each of the seven kinds, two requests at a time; PATCHes of either column on a kind that is re-read (node) and one that is not (consumer, with a profile that comes and goes); creations of all rows |
| `claim_*` | four disagreements, see section 6 | one each | the smallest instance that shows it |

**Fairness.** A fairness condition is only stated for what the code's loop keeps doing.
*Health*: `SF(Tick)`, because the loop sleeps between passes, so time goes on although each pass stops
the model's clock; `WF(ScanEndpoints)`, because `_reconcile_loop` catches every exception and never ends;
`SF(ScanAccounts)` and `SF(FinishPass)`, because not every pass is rolled back. Requests may starve.
*Rollout*: `WF(Proceed(w))`, because a thread that holds the lock goes on; `SF(Detect /\ Unlocked)`
and `SF(Begin(Loop))`, because the loop comes round every 30 s for ever and waits 10 s for the lock;
`SF` of `Open`, `Fill` and `Verify` of the loop: the disk and the node work now and then. Without this last
one no repair can be promised. *Keys*: the same for the loop's steps, and that a node now and then does
what it is asked (`SyncNode(Loop, n, "done")`, `RevokeNode` with a master key), also when another node stops
some rounds before they come to it.
*Secrets*: `WF(Resolve(w))`, because a fetch ends with an answer or after the client's timeout of 10 s;
`WF(Apply(w) \/ Abandon(w))`, because a deployment ends; `WF(Round)`, `WF(Compare)` and `WF(Tick)`, because
the loop comes round and time goes on; `SF(Apply(Loop))`, because deployments of the loop succeed now and then.
`RotationReachesNode` speaks of secrets that settle while Doppler answers; requests and outages before
that are arbitrary.
Every configuration leaves TLC's deadlock check on.

## 4. Proofs

All theorems hold for every value of the constants that satisfies the modules' ASSUMEs.

| Theorem | States | Argument |
|---|---|---|
| `HealthProofs!TypeCorrect`, `ActiveRowsAreClean` | `[]TypeOK`, `[]ActiveIsClean` | the invariant is stated per row: `SoundRows` are typed rows that, if active, have no timer and fewer failures than the threshold. Every operator of `HealthRow` maps sound rows to sound rows, so a decision taken on an old row and performed on a new one does too. `ActiveIsClean` alone is not inductive: it needs that tasks carry proper statuses and that `todo` holds no half-resolved task |
| `RolloutProofs!TypeCorrect`, `UndecidedAreOnDisk`, `RollbacksAreSuccesses` | `[]TypeOK`, `UndecidedIsOnDisk`, `[]RollbacksRestoreSuccess` | rows are logged long after they are decided, so the invariant speaks of the uncommitted ones: `SoundFlow` (configured, decided, what was restored has been logged) and `LastIsLogged`; `logged` only grows. The lock is not needed, except for `UndecidedIsOnDisk`: a file that was written stays what its deployment wrote (`WrittenIsOnDisk`) because no other writes it meanwhile |
| `RolloutProofs!SuccessesAreOnDisk` | `[]VerifiedIsOnDisk` | here the lock is needed: `Exclusive` (one deployment at a time) is inductive, and with it a step of one worker leaves every other what it has delivered (`OneDeploys`). A deployment that is being rolled back has failed (`Decided`), so what `Reopen` and `Refill` do to the file contradicts no success |
| `RolloutAtomicProofs!DeploymentsAreAtomic` | `OnlyVerificationsFail /\ Spec => DeploysAreAtomic` | adds mutual exclusion, and `Held`: what the lock holder has on disk at each stage. Between deployments the file is the latest success, so that the two things a rollback may restore are the same. Every step is then a `Publish` or a stutter. `OnlyVerificationsFail` names the assumption: no I/O errors, crashes or edits, no verification that raises, a file at first, and a master key |
| `HealthStepProofs!OverridesAreKept`, `DeletionsAreFinal`, `ActivationsAreProbed` | `HealthKeepsOverrides`, `DeletedStaysDeleted`, `AccountActivationIsProbed` | each operator of `HealthRow` keeps the override and neither makes nor removes a row (`Kept`); so does the performance of any task but an operator's `store`, on any row. That the pass probes what it scanned before needs `Scanned`: a pass that sleeps has nothing due |
| `HealthSerialProofs!FailuresAreSerial` | `OnlyFailures /\ Spec => FailuresSerialize` | `HealthSerial` forgets the timer, and every write commutes with forgetting it (`Timeless`): so two 429s that both pass the early return cannot be told from one. `Reporting` says that all tasks of a request are of one failure class, however far each got, so that its commit is one `Report`; a stale task is either void on the row as it is now or what the handler would decide on it. The pass without an answered probe only moves accounts to `degraded` (`Doubt`). `OnlyFailures` names the assumption: no successes, no endpoint requests, no answered probes, which do not serialize (`claim_success`) |
| `HealthStepProofs!TransientStaysHidden` | `PlainRegistrations /\ Spec => []TransientStatesHidden` | the invariant `Hidden` speaks of the writes already decided too: neither a row nor a task has a status that only the probe engine uses. `PlainRegistrations` is needed: `POST` accepts an endpoint that is `recovered` and an account in `probe`, which are routed |
| `HealthStepProofs!ReturnsAreGranted` | `EndpointsReturnByGrant` | a barred row stays barred unless its override or its status changes (`StaysBarred`), and a task that grants nothing enters `disabled`, `cooldown` or `degraded` only, on whatever row it finds: this needs `AllAimed`, that tasks decided long ago carry one of those statuses or `active`. The pass leaves what it did not select alone (`UnselectedStays`), by `Scanned` |
| `HealthStepProofs!FiltersAgree`, `SummaryMatchesRouting` | `[]EngineMatchesGenerator`, `[]HealthMatchesRouting` | the engine looks the account up and skips an endpoint without one, the generator joins: they agree because of `Linked`, an invariant that the foreign keys give: a row of an endpoint has the row of its account |
| `SecretProofs!TypeCorrect`, `FreshSecrets` | `[]TypeOK`, `[]SecretsAreFresh` | `Stamped`: what the cache holds was retired no longer ago than the entry's age; `FlowFine`: what a fetch returned was retired no longer ago than the time it read, and never before the generation began. The first holds because the clock is read before the fetch, so that overtaking fetches only make entries look older |
| `RegistryProofs!TypeCorrect`, `ReferencesAreKept`, `RecordsAreCurrent`, `NoPatchIsLost` | `[]TypeOK`, `[]ReferencesHold`, `[]AuditIsCurrent`, `PatchesMerge` | each is inductive with the types. `StepsAre` reduces every step to an insertion, the writing of a row, a deletion, or no change of the tables; the lemmas on `Merge` and `Without` say what these take from a stale read and leave to the row |
| `KeyProofs!TypeCorrect`, `KeyRowsHaveConsumers`, `ActiveKeysAreReal` | `[]TypeOK`, `[]RowsHaveConsumers`, `[]ActiveRowsHaveKeys` | both views of the tables have to be sound (`SoundTables`), since a view becomes the committed one; and a call in flight has to carry what its write stores (`SoundCalls`): only a real key replaces the placeholder |
| `KeyProofs!CommitsAreWhole` | `Spec => CommitsAreIsolated` | the invariant `Isolated` speaks of transactions that still run: who has the lock is alone (`Exclusive`), without it nothing is uncommitted (`Settled`), and and the view of each worker is as far from `db` as its work has got (`Kept`): the status is the one asked for, rows still ahead (`Ahead`) are untouched, each row behind is an outcome of its node (`SoFar`), and the call in flight was made for the row as it still is (`InFlight`); for the loop every consumer it has left behind is `Whole`. `Shape` says which calls an operation makes. Until its first write a worker sees what is committed. `OneWorks` carries the invariant over a step of one worker, and each commit is then a `Save`, a `Resync`, a `Delete`, a `Repair` or, of a loop that has done nothing, a stutter |

**Only model-checked:** the liveness properties `CooldownEnds`, `DriftIsRepaired`, `ActiveConsumersGetKeys`,
`DisabledConsumersLoseRows` and `RotationReachesNode` (the prover has no ENABLED). Every other property of a
passing run, the three refinements included, is a theorem.

## 5. Not modelled

Authentication and read-only routes, migrations, bootstrap parsing, the LiteLLM adapter's HTTP, metrics and
incidents: I/O and output that no decision reads. Of the resolver, the parsing of references and the choice of
the token are functions of strings; of the generator, model names and `api_base`.
`reconcile_all_keys` (`registry/key_manager.py`): nothing calls it. The limits, budgets and model scopes
that the key manager sends along are data that no decision of the control plane depends on.

## 6. Disagreements

With a run (a shortest behaviour is TLC's counterexample):

* `claim_success`: a success that read `degraded` before a 429 committed activates the row over its
  cooldown (`health/state_machine.py:208`; the comment at 173 forbids it).
* `claim_stale_scan`: an endpoint disabled after the pass scanned it is probed and re-activated
  (`health/probe.py:129`).
* `claim_rollback`: a deployment that the API runs and that fails verification leaves no record of the
  failure and of the rollback (`docs/rollout-model.md:25`).
* `claim_revoked`: a real key whose update was refused is not revoked when its consumer is deleted
  (`registry/key_manager.py:177`).

Seen in the code or the model, without a run of their own:

* stragglers (429, 5xx) take a `disabled` row to `cooldown` or `degraded` (`docs/modules/account-state-machine.md:31`),
  and three late 5xx take a row out of `cooldown` (`:53`);
* an endpoint whose probe fails below the threshold stays in `probe`, which the generator and the policy engine
  route (`config/generator.py:60`), although `docs/modules/probe-engine.md:28` says "Probe failure keeps the endpoint in
  degraded or disabled state"; and neither `probe` nor `degraded` endpoints are selected for probing again
  (`docs/architecture.md:50`), a degraded one only when its account is probed through it;
* a 401 met by a probe disables the endpoint, not its account (`docs/modules/account-state-machine.md:25`);
* an endpoint counts as active while its account is in cooldown or disabled (`docs/modules/health-manager.md:22`), and
  a failure of an account, which its handler writes to the endpoint too, does degrade its node (`:23`,
  `health/manager.py:26`). `HealthMatchesRouting` says what can be relied on;
* the failure of an endpoint that was deleted is handled as a failure of its account (`events/ingestion.py:178`);
* an account for which no probe succeeded becomes `degraded`, and the endpoints of a degraded account are routed
  (`health/probe.py:169`); so does a disabled account, or one in cooldown, by a late 5xx that names the account only;
* of two concurrent operator requests on an endpoint, the later writes back the override it read before
  (`api/routes.py:444`), and one that sets the override only writes back the status it read, over a failure or an
  expiry reported meanwhile;
* `node_config_paths` is lost at a restart, after which manual edits are not repaired until somebody
  deploys (`docs/faq.md:15`). `DriftIsRepaired` therefore assumes the path known;
* without a master key, or with a host that httpx refuses (`httpx.InvalidURL` is not caught by `check_health`,
  `adapters/litellm_adapter.py:24`; an IPv6 host is passed as is, `registry/key_manager.py:41`), the loop's row stays
  `applying` and the unverified file on disk, where no drift is seen any more (`docs/rollout-model.md:25` asks for a
  rollback; `UndecidedIsOnDisk` says what can be relied on);
* the first deployment of a node has nothing to go back to; a write that fails after the truncation is not
  restored from the backup (`rollout/orchestrator.py:67`); an older configuration generated before the lock
  overwrites a newer one until the loop repairs it;
* the loop revokes keys of a consumer that was re-enabled after its drift check, until its next round
  (`docs/rollout-model.md:31`); a key revoked in a transaction that was rolled back is dead while its row is
  active, and the drift check compares rows only; a delete that races with a resynchronization leaves a live
  key without a row; an update of a disabled consumer makes keys for it (until the loop takes them); a round of the loop that an
  exception stops is committed half-done (`rollout/orchestrator.py:297`), and a node without a master key keeps the loop
  from the nodes after it and makes every request about a consumer fail (`registry/key_manager.py:83`); an
  update of a policy profile does not change the scope of existing keys (`docs/policy-model.md:23`);
* secrets are written into the configuration files as they are (`config/generator.py:89`), where
  `docs/secrets-policy.md:54` says "secrets must not be written to persistent YAML files on disk". `RotationReachesNode`
  speaks of these files: nothing in the code makes a running proxy read them again;
* a Doppler outage that outlasts the time to live takes endpoints out of the files: the expired entry is not
  used (`secrets/doppler.py:107`), the generator skips the endpoint (`config/generator.py:74`) and the loop deploys
  the rest. `docs/adr/0003-doppler-secrets-structure.md:20` asks for "last-known-good cached secret tokens",
  and `docs/runbooks/doppler-token-expired.md:5` expects rollouts that fail;
* the environment is a fallback only with `ALLOW_ENV_SECRET_FALLBACK` (`secrets/doppler.py:164`), not always
  (`docs/secrets-policy.md:38`); one configuration may mix the dictionaries before and after a rotation;
* the control plane probes through a resolver of its own (`api/main.py:32`), whose cache may still hold a key
  that has been rotated out;
* `POST` registers endpoints as `recovered` and accounts as `probe`, which are routed (`config/generator.py:60`);
* the routing request writes back the column it was not asked for (`registry/store.py:340`);
* deleting a node takes its endpoints along, although `docs/api-contract.md:43` says that a deletion "Fails
  if the resource is in use"; no record is written for them, nor for consumers that lose their
  profile, and a record of a consumer or profile may show a row that never existed (`registry/store.py:470`),
  where `docs/definition-of-done.md:20` wants a record of every change;
* a profile is deleted although a consumer got it after the count (`registry/store.py:743`); the foreign key
  clears the column. A database whose `profile_id` came with a migration (`config/db.py:38`) has no such key, and
  the consumer keeps the name of a profile that is gone (the mutant `WithoutSetNull` of `ReferencesHold`).

## 7. Plan

Written, in this order: `HealthRow`, `HealthControl`, `HealthSerial`, `HealthProofs` (the core: everything
else reads these statuses); `Rollout`, `RolloutAtomic` and their proofs; `KeySync` and its proofs;
`Secrets`, `HealthRouting`, `Registry` and their proofs, with the step properties of the core; `KeyTables`, and the
refinement theorems of `HealthControl` and `KeySync`.

Left:

1. `Rollout` for several nodes, and composed with `HealthRouting` (a change of health becomes drift) and
   with the key half of `reconcile_node`, which shares its transaction.
2. A resolver of its own for the probe engine in `Secrets`.
3. Some of the disagreements without a run may be exchanged for the claims that have one.

## 8. Running

    tlc -workers 2 -config Health.cfg MCHealthControl.tla
    tlc -workers 2 -config Rollout.cfg MCRollout.tla
    tlapm RolloutAtomicProofs.tla

`PROJECT.json` lists the module and the configuration of every run, the source lines of every definition, the
mutants, the hazards and the theorems. With two workers `health`, `health_serializable`, `key_races` and `secrets` take
one to two minutes each, every other run less. The proofs of a module take at most a few minutes.
