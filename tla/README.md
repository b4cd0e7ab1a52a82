# TLA+ models and proofs

This directory holds the formal models of the two programs in the repository:

* the **Fund Transfer Service** (`src/fund_transfer`), a FastAPI service that keeps
  accounts and moves money between them on PostgreSQL through SQLAlchemy sessions;
* **Spec Kit** (`spec-kit-main/src/specify_cli`), the command-line tool the project is
  developed with: workflows, extensions, presets, integrations of coding agents and
  its own upgrade.

The handlers of the service are modelled at the granularity at which they
interleave, one action per database round trip; the commands of the tool at the
granularity at which they fail or are killed, one action per step that changes a
file. TLC checks every model on small instances; for every instance, TLAPS proves the
safety properties of the service, the rate provider, the workflow engine, extensions,
presets, integrations and self management, and both refinements.

Paths are relative to `src/fund_transfer` for the service and to
`spec-kit-main/src/specify_cli` for Spec Kit, unless they start with `specs/`,
`tests/`, `alembic/`, `docs/` or `workflows/README.md` (the last two below
`spec-kit-main`).

## 1. The system

### Components of the Fund Transfer Service

| Component | State | Operations | Module |
|---|---|---|---|
| Transfer service, `services/transfer_service.py` | a session per request | `execute_transfer`, `retry_on_deadlock` | `TransferService` |
| Transfer repository | tables `transfers`, `audit_log` | key lookup, two insertions, status changes, daily volume | `TransferRepository` and the two services |
| Cross-currency service | a session per request | `initiate` (and the read-only `get_status`) | `CrossCurrencyTransferService`, arithmetic in `FxPolicy` |
| Account service and repository | table `accounts` | `create_account`, `delete_account` (and the read-only `get_account`) | `AccountService` |
| Exchange-rate configuration | constants read at startup | `get_rate`, `validate_currency`, maxima | `ExchangeRateService` |
| Sessions and errors | transactions, row locks, identity maps | `get_session`, exception handlers | `Store` |
| Rate snapshots | table `fx_rate_snapshots` | `insert_snapshot`, `mark_stale`, `get_latest_snapshot` | `CrossCurrencyTransferService` |
| Notifications | table `notifications` | creation; `mark_read` is not modelled | `CrossCurrencyTransferService` |
| FX rate provider and background loop, `services/fx_rate_provider.py`, `main.py` | cached snapshot, failure count, stale flag, lock | `refresh`, `get_snapshot`, `_bg_refresh_loop` | `FxRateProvider` |

### Components of Spec Kit

| Component | State | Operations | Module |
|---|---|---|---|
| Workflow engine, `workflows/engine.py`, `workflows/steps/` | `state.json` and `inputs.json` of a run | `execute`, `resume`, the step types | `WorkflowEngine` |
| Expressions, `workflows/expressions.py` | none | `evaluate_condition` | `Expressions` |
| Extensions, `extensions.py`, `__init__.py` | registry, directories, config backups, hooks in `extensions.yml` | `add`, `remove`, `update`, `enable`, `disable`, `set-priority`, agent switch | `Extensions`; its promise: `ExtensionSet` |
| Command registrar, `agents.py` | command files of the agents | `register_commands*`, `unregister_commands` | `CommandRegistrar` |
| Presets, `presets.py` | registry, directories, composed commands, command files and skills | `add`, `remove`, `enable`, `disable`, `set-priority`, reconciliation | `Presets`, resolution in `PresetResolver` |
| Integrations, `integrations/` | command files, manifests, `integration.json`, `init-options.json`, context files | `install`, `uninstall`, `use`, `switch`, `upgrade`, `init`, `status` | `Integrations`, with `SharedInfra` and `ContextSection` |
| Self management, `_version.py` | the installations of uv and pipx | `self check`, `self upgrade` | `SelfUpgrade` |

**Not modelled**, with the reasons in `PROJECT.json`: read-only services and routes,
tokens, correlation ids, logging and migrations of the service; of Spec Kit the
catalogs (remote indexes with a cache, which change no project state), workflow
installation (one directory and one registry entry), authentication headers, the
forty declarative agent classes, hook conditions and configuration layers (reads),
templates, scripts and course material.

### How the components interact

Every handler runs in one event loop with a session of its own; the handlers
meet only in the database. A handler takes row locks with `SELECT ... FOR
UPDATE`, takes an entry of the unique index on `idempotency_key` when it flushes
its `transfers` row, and releases all of it when the transaction ends. Both
transfer services share the `accounts`, `transfers` and `audit_log` tables, the
idempotency keys and the locks, but none of the code that locks, checks and
computes. `delete_account` competes with transfers for the same rows.
Cross-currency transfers read `fx_rate_snapshots`, which something outside the
repository's code must fill (nothing calls `insert_snapshot` or `mark_stale`). The FX rate provider keeps its own copy of the feed's rates in memory;
the background loop and on-demand readers meet at its `asyncio.Lock`.

The commands of Spec Kit are separate processes that meet in files: registries and
state files in `.specify/`, and command files in the directories of the coding
agents. Extensions and presets write command files through the same registrar, and
presets compose commands of extensions and of the core; the integration decides in
which dialect shared templates are written, and which agent's files extensions and
presets write. No command takes a lock.

### What is hard

In the service:

* **Check, then act across statements.** The idempotency lookup precedes the
  transaction that inserts the row; the daily volume is read before the row that
  counts towards it is written; account numbers are tested, then inserted.
* **Absolute balances from objects in memory.** Every balance is computed from an
  ORM object and written as a value, so a stale object loses an update. A session
  does not refresh an object it already has, even when it locks its row.
* **Waiting.** Row locks are taken source first, destination second: opposite
  transfers deadlock. One service retries, the other does not.
* **Crashes.** A connection can break between any two statements, and between
  the commit and the response.
* **Whole completions.** A cross-currency transfer flushes the row, two status
  changes, two balances, up to five audit entries and two notifications, and must
  leave all of them or none.
* **Rates that move** between the client's preview, the handler's read and its
  commit, while the handler waits for locks.
* **Rounding** by three rules: `quantize` half to even (`execute_transfer`),
  `quantize` half up (`initiate`), and the column type `NUMERIC(19, 4)`.
* **One lock, late answers.** Refreshes queue on one lock, retry, are cancelled, and
  count failures across attempts.

In Spec Kit:

* **Half-done commands.** A command writes five or ten files in sequence; it fails,
  rolls back, is interrupted or is killed between any two of them.
* **Several accounts of the same thing.** Registry entries, manifests with hashes,
  `integration.json`, hooks and the files themselves must agree after any sequence of
  commands.
* **The user's own edits** of configs, command files, shared templates and context
  files lie between the commands and must survive them.
* **Resumption.** A workflow is a tree of nested calls, of which only a top-level index
  and the results are saved; two processes may resume the same run.
* **Stale plans.** An upgrade decides on a version it read, and replaces whatever is
  there when its installer runs.

`PROJECT.json` lists these hazards at their lines, each with the properties that
would notice it going wrong, or a note.

### What makes each component correct

* Transfers: a key is used once; balances agree with the posted transfers and the
  opening entries of the audit log; nothing is overdrawn; the transfer is
  computed on current rows; every response that shows a transfer shows the one
  and only transfer of its key; a refused request has done nothing.
* Cross-currency transfers: in addition, the rate used is the confirmed one, the
  daily limit holds, and a completion is whole.
* Accounts: a number is used once; closing changes no balance.
* All: locks end with the handler, and every request is answered.
* FX rate provider: the rates never go back, the stale mark tells the failures, and
  they become fresh again when the feed does.
* Workflows: no step is skipped or lost, whatever interrupts a run; an abort stops it;
  a completed run is whole; runs end.
* Extensions and presets: files, hooks and registry agree; failed updates change
  nothing; the user's config survives; the files are those of the current stack.
* Integrations: one account of what is installed, no orphaned files, edits kept.
* Self management: only the installation the command was started from changes, to
  the version reported, never to an older one unasked; commands end.

## 2. Modules

```
Money -> ExchangeRateService -> FxPolicy -> Store -+-> TransferRepository -+-> TransferService --------------+
                                   |               |                       +-> CrossCurrencyTransferService -+-> FundTransfer -> MCFundTransfer
                                   |               +-> AccountService ---------------------------------------+       |
                                   +-> Ledger  (abstract specification) <---------- INSTANCE ------------------------+
FundTransfer -> FundTransferProofs -> LedgerProofs

FxRateProvider -> MCFxRateProvider, FxRateProviderProofs

WorkflowEngine, Expressions -> MCWorkflow              WorkflowEngine -> WorkflowEngineProofs
CommandRegistrar -+-> Extensions -> MCExtensions, ExtensionsProofs       ExtensionSet (abstract) <- INSTANCE ... WITH - Extensions
                  +-> PresetResolver -> Presets -> MCPresets, PresetsProofs
SharedInfra, ContextSection -> Integrations -> MCIntegrations, IntegrationsProofs
SelfUpgrade -> MCSelfUpgrade, SelfUpgradeProofs
```

### Fund transfer service

* **Money** - the three roundings on integers. A value is a number of ticks;
  `Quantum` ticks are one stored unit (0.0001), so amounts finer than a column
  are representable. A rate is a number of units of `1/RateScale`.
* **ExchangeRateService**, **FxPolicy** - the static configuration; fees, net
  amount, USD equivalent and rate deviation of a cross-currency transfer. The
  scale of fees and rates is one constant; the code's scales (4 and 8 decimals)
  are instances of it.
* **Store** - the tables `accounts`, `transfers`, `audit`; the locks `lock` (a row,
  or the uncommitted insertion of one) and `keyHolder` (an uncommitted entry of
  the unique index); per request its body `req`, the await it is at `pc`, its loop
  counter `attempt`, the identity map `seen` of its session, and its `reply` and
  `result`. `Raise` is `get_session`'s rollback followed by the exception
  handlers; `LockActive` is `SELECT ... FOR UPDATE` with the status test after it;
  `Crash` is a lost connection. PostgreSQL and SQLAlchemy are external and
  modelled by what the services rely on.
* **TransferRepository** - the lookup of a key (`ReplayOr`) and the insertion under
  the unique index (`InsertUnique`), shared by both services.
* **TransferService** - `lookup -> lock_source -> lock_destination -> check ->
  insert -> commit -> reply`, and `DeadlockAbort` for `retry_on_deadlock`.
* **CrossCurrencyTransferService** - `capacity -> cross_lookup -> latest -> preview
  -> cross_lock_source -> cross_lock_destination -> cross_check -> cross_insert ->
  pending -> processing -> completed -> cross_reply`; the snapshot table;
  `recent`, the transfers inside the rolling 24 hours, which `Elapse` empties in
  any order.
* **AccountService** - `pick_number -> insert_account -> commit_account -> replied`
  and `load_account -> lock_account -> commit_close -> replied`.
* **Ledger** - the abstract specification: accounts are opened and closed,
  transfers are posted whole under fresh keys, covered and within their maximum,
  at the right rate, with their audit entries and notifications in the same step.
  It knows no requests, locks, sessions or crashes. `Close` has no zero-balance
  guard: the code does not keep that promise (run `closing`).
* **FundTransfer** - the composition, its fairness, and all properties.
* **FxRateProvider** - the cache (`snapshot`, `failures`, `stale`), the lock as the queue of
  its tasks, and per task the attempt it is at. A table of rates is its number.
  `Store` and `AttemptFails` are the two ends of an attempt, `Cancel` the cancellation of
  a request at any await.

Writes that the code flushes inside an open transaction become visible in one
commit action; until then only their locks and index entries show. Several
consecutive awaits that no other handler can tell apart are one action (the
status changes are kept as separate steps because the capacity check is about
them). The daily-volume and active-pair queries are folded into `CrossCheck` and
`ReadPreview`: the lock on the source keeps other transfers of the account out,
and the pairs do not change.

### Spec Kit

* **WorkflowEngine** - a process is a stack of `_execute_steps` calls (`Frame`), with its
  `RunState` in memory; `disk` is what the last `save` left. A definition is given by
  constants (`Top`, `Kind`, `Body`, `Cond`, ...) that satisfy what `validate_workflow` accepts.
  The n-th repetition of a step gets the generated id the engine gives it. `Resume`
  loads and checks, `ResumeSaves` saves later: another process can act in between.
  `Interrupt`, `Raise` and `Kill` (also in the middle of `save`) end a process. `done`,
  `aborted` and `fresh` are history for the properties.
* **Expressions** - `_evaluate_simple_expression` on sequences of words, with the quotes as
  words of their own: a text that begins and ends with a quote is a string, then it is
  split at the first `|`, `or`, `and`, `not` and comparison, in this order and wherever they are,
  also inside a string.
* **CommandRegistrar** - which files a registration writes and an unregistration deletes.
* **Extensions** - each command is a list of steps (`InstallSteps`, `RemoveSteps`, ...),
  and one action per step executes it. `Fail` ends a command at any step as the code
  does (`FailUpdate` goes on to `RollbackSteps`, `FailSwitch` with a warning, `FailOther` stops);
  `Interrupt` ends it for good. `Partly` and `Torn` say what the step that ended has
  already done: parts of a directory copied or deleted, some files written, a backup
  that is not whole. A config is
  the number of the user's last edit.
* **ExtensionSet** - the abstract specification: each command changes one extension in
  one step, and a failed update changes nothing. `Extensions` implements it under the
  mapping `Shown`, in which an unfinished command shows what was there before.
* **PresetResolver** - `resolve` (by the names of files), `collect_all_layers` (by the manifests)
  and `resolve_content` as operators. A
  content is the sequence of the layers in it, so that the order of composition shows;
  composition is a recursive function on the positions of the stack.
* **Presets** - the commands step by step, the reconciliation of command files and
  skills, project overrides and extensions that come and go. `stale`, `broken` and
  `unskilled` are history: names whose stack changed without reconciliation, names of a
  preset whose command failed, and names whose skill a removal deleted.
* **SharedInfra**, **ContextSection** - which shared files may be overwritten and how they
  are recorded; the section between two markers, in a file that is a sequence of pieces, the
  user's (`Text`) or the markers. In an `.mdc` file two fences (`Fence`) at the top enclose the
  frontmatter, which `EnsureFrontmatter` adds or completes; `RemoveSection` deletes such a file if it is
  `Framed`, that is begins and ends with a fence.
* **Integrations** - the commands as lists of steps, with rollback, kills, user edits, a
  lost manifest and a new release between commands. A file's content is the release and
  the dialect it was written in, or `User`.
* **SelfUpgrade** - commands of `specify self` as processes; the installers, releases and
  `PATH` are external. `Plan` reads the installed version after the target was fetched, and
  decides; the installer removes and writes in two steps, or does neither.

### Definitions named "Variant of ..."

Some operators stand directly before a definition and describe a plausible mistake in
it (a lock without `FOR UPDATE`, a lost rollback, a hash that is not compared). They are
used by no specification; `PROJECT.json` pairs each with the property that notices it.

## 3. Runs

| Run | Instance | What it shows |
|---|---|---|
| `services` | 3 requests, 2 accounts and a free number, 2 keys, 2 callers, 1 retry; transfers, openings, closings | types, at-most-once posting, current rows, reconciliation, and the ledger |
| `cross` | 2 requests out of 12 bodies of both services and a closing, 2 snapshots of 2 rate tables | confirmed rate, whole completions, agreeing responses, refused requests did nothing, no overdraft, daily limit |
| `progress` | 3 requests of both services that lock two accounts in opposite orders | every request is answered |
| `rate_provider` | the loop, 2 readers, 3 tables, 6 failures | rates never go back, the stale mark is honest, rates become fresh when the feed recovers |
| `workflow` | 2 processes, 3 starts; a loop with a switch, a gate, an unknown step, a fan-in; a fan-out of 2 | no step skipped, whole completions, aborts halt, latest results visible, whole fan-outs |
| `workflow_progress` | 1 process, 2 starts | executions end; conditions of two disjuncts of two atoms each (comparisons, `not`, `in`, lists, quotes) are the logic they spell |
| `extensions` | 2 extensions of 2 versions with a clashing alias, 2 agents, 3 commands | files, hooks and registry agree, config survives, rollback restores (also after a backup that failed half way), the extension set |
| `presets` | 3 presets of all four strategies, 3 commands (core, extension, own), 4 commands run, or fewer with failures and kills | files follow the stack, the two resolvers agree (one preset has a file its manifest misses, another one elsewhere than its name says), composition nests |
| `integrations` | 3 integrations (one with an option, one unsafe, two with `.mdc` context files), 2 releases, 3 commands, 1 edit | descriptions agree, no orphans, shared files follow the default, edits of files and context sections are kept |
| `self_upgrade` | 2 commands out of 11, 2 releases | only the own installation changes, never to an older release unasked; what is reported is installed; commands end |

Deadlock checking is on for the service: a state in which every request is answered
only stutters (`Quiescent`), any other state without a successor would be an error. The
runs of Spec Kit have `CHECK_DEADLOCK FALSE`: the bounds on commands end a behaviour,
and a machine on which nobody gives commands really stops.

Two more runs show where a document says more than the code does (findings of
`PROJECT.json`, with the quotations):

| Run | Violated | In short |
|---|---|---|
| `closing` | `ClosedAccountsAreEmpty` | the zero-balance test uses an object loaded before the lock |
| `upgrade_manifest` | `UninstallComplete` | removing stale files in an upgrade deletes the new manifest, so a later uninstallation leaves the files |

### Divergences without a run

Visible in the model or in a few lines of code; the passing runs are instances, or
state properties, that leave exactly these cases out.

* `execute_transfer` locks source before destination; specs/001 research.md:94 promises
  ascending order. Opposite transfers deadlock and are retried; the fourth time they are
  answered 500.
* A duplicate submission that loses the race to the unique index is answered 500
  (SC-006 of specs/002 promises the first response).
* An amount finer than four decimals is rounded up in both balances
  (research.md:140 of specs/001 says such amounts are refused).
* Only the source's currency is compared with the request (`initiate`); the destination
  may be credited in a foreign currency.
* `check_transfer_capacity` counts committed open rows, of which there are none.
* `operation_type` has 30 characters, `cross_currency_transfer_initiated` 33: with the
  shipped schema every cross-currency transfer fails. The runs use a width of 40.
* A reused key with another body is replayed instead of refused.
* Rejected transfers leave no audit entry: `get_session` rolls back whatever a refused
  handler flushed. SC-004 of specs/002 (spec.md:145) says "100% of transfer operations
  (initiated, confirmed, rejected) have a corresponding audit log entry", and SEC-003
  (spec.md:105) asks for the same. `RefusedDidNothing` takes no side: it is about entries that
  tell of a success.
* Concurrent refreshes of the FX rate provider each call the feed (PERF-004 of specs/002
  asks for one call), and no route uses the provider.
* A workflow run that is killed stays `running`, which `resume` refuses, although
  `workflows/README.md` says that interrupted workflows can be resumed.
* `extension disable` leaves the command files where they are (`__init__.py:2656-2665` changes the
  entry and the hooks); `docs/reference/extensions.md`:84 says "Disabled extensions are not loaded
  and their commands are not available", and the command itself "Commands will no longer be available."
  (`__init__.py:2668`). `CommandsFollowRegistry` allows both.
* The backup of an update may be torn: when `copytree` fails half way (`__init__.py:2306`), the
  rollback deletes the intact directory, installs the partial copy (2469-2472) and deletes the
  backup (2568). The comment at 2465-2467 says "This avoids deleting a valid installation when failure
  happened before changes were made." The same happens when the removal of the backup at the
  end of a successful update fails half way (2448-2449).
* `extension update` that fails while backing up deletes command files it has not saved
  yet; `extension add` over a directory that `remove --keep-config` left deletes the kept
  config.
* Removing a preset deletes a core skill it had overridden, when the project has no copy
  of the core templates (no command creates one); the docstring says it is restored.
  `preset enable`, `disable` and `set-priority` rewrite no files. A failed `preset add`
  does not write back the commands of the layers below.
* A preset that is added while the extension of its command is absent does not register that
  command (presets.py:618-632). It counts in the stack as soon as the extension is there,
  but `remove` reconciles only registered names (presets.py:1691-1697), so that
  files composed with it keep its text; presets.py:705-709 says that files "always reflect
  the current priority stack rather than depending on install/remove order". Removing a
  preset while the extension is disabled deletes the skill of its command, and enabling the
  extension does not bring it back.
* `resolve` looks only at `commands/<name>.md` (presets.py:2655-2679), `collect_all_layers` at the file the
  manifest names, which may be any relative path (presets.py:219-226, 2930-2952, 2991-3011). With such a
  file the command that is shown and the one that is written come from different layers.
* Conditions are split inside strings: `'a or b' == x` is split at its `or`, and a condition that
  begins and ends with a quote, such as `'a' == 'b'`, is one string, hence true
  (`workflows/expressions.py`:132). The comment at 130-131 says that quoted strings "containing | or
  operator keywords are not mis-parsed".
* A gate compares the answer with `reject` and `abort` in exact case (`gate/__init__.py:76`), although
  validation accepts an option `Reject` as its way to reject (line 199): choosing it completes the step.
* `init --here` forgets other installed integrations. A start marker without an end marker
  makes the next update of the context section drop the text after it. Shared files that
  `init` or a first installation finds keep the dialect they are in.
* An `.mdc` context file that begins with a line `---` and, without the section, ends with one is
  deleted (base.py:820-831), with whatever text the user wrote between other such lines; the
  comment there says "Delete the file if only YAML frontmatter remains (no body content)".
* `self upgrade` from an entry point that is gone upgrades the installation of the one
  registry that answered, although both may hold one. Two unpinned upgrades at once may
  replace the newer version by the older one.

### Bounds, and why they are enough

* Service: three requests - two can race for a lock, a key or a number while a third
  commits in between; the `cross` run has two because its third actor is the snapshot
  table. `MaxRetries = 1` (code: 3) and `MaxPicks = 2` (code: 10) reach both exits of each
  loop. Amounts lie below, at and above balances and limits; the passing runs use whole
  stored units, the proofs (except `BooksBalance`) also cover finer ones. `MaxSnapshots = 2`: preview and current
  snapshot differ, either may be stale, the deviation is on either side of the
  threshold. Requests are symmetric in the safety runs; `progress` uses no symmetry.
* Rate provider: `MaxFaults = 6` allows two whole refreshes to fail, `MaxFailures = 3` as in
  the code.
* Workflow: the definition nests a gate in a switch in a loop and has every kind of
  step; three starts allow a run, a resumption, and a second process at the same time.
  `MaxIter = 2` and `Items = 2` distinguish first, last and repeated.
* Extensions, integrations: three commands are an installation, a change, and a third
  that meets what the change left; presets get four, since a stack of three has to be
  built first. One user edit per extension or project. Of presets and integrations, a
  command that stops in the middle counts twice: the runs have every sequence of four
  (integrations: three) commands that end, and with every stop one command fewer. A stop is
  any failure or kill of a preset command, and a kill of an integration command, whose
  rollbacks are steps like others and do not count. The
  theorems have no such bound.
* Self upgrade: two versions and two commands; a release may appear at any moment, and
  the second installation starts newer than the first release.

### Fairness

* Service: `WF_vars(Step(r))` for every request, and nothing else. A statement whose lock is
  free returns, `asyncio` resumes its handler, and PostgreSQL's deadlock detector aborts a
  member of every cycle of waits. Nothing makes a request arrive, a connection break,
  a snapshot appear or a day pass.
* Rate provider: the event loop runs every task that can run, and the HTTP client's timeout
  ends every attempt; `_bg_refresh_loop` comes back after every interval. Nothing makes
  the feed publish or a reader ask.
* Workflow: a process that is scheduled, and whose shells, agents and operator answer,
  takes its next step (written out in `Spec`: the weak fairness of `Go`, which is enabled
  exactly while the process is not idle).
* Self upgrade: `WF_vars(Cli(p))` - the calls for the release, the registries and the
  verification have timeouts of their own. The installer gets no fairness: `Ends` says that
  a command ends or waits for an installer without a timeout.

## 4. Proofs

The theorems hold for every value of the constants that satisfies the named
assumptions: any number of requests, tasks, processes and commands, any accounts,
amounts, rates, workflow definitions, extensions, presets, integrations and agents.

| Module | Theorem | Statement |
|---|---|---|
| `FundTransferProofs` | `TypeCorrect` | `Spec => []TypeOK` |
| | `NeverOverdrawn` | `Spec => []NoOverdraft` |
| | `KeyUsedOnce` | `Spec => []AtMostOncePerKey` |
| | `NoLostUpdate` | `Spec => []ComputesOnCurrentRows` |
| | `ConfirmedRate` | `Spec => []RateWasConfirmed` |
| | `Refinement` | `Spec => ImplementsLedger` |
| `LedgerProofs` | `BooksBalance` | `Spec => []Reconciled`, for amounts of whole stored units |
| | `CompletionWhole` | `Spec => []CompletionIsWhole` |
| | `RefusedDoNothing` | `Spec => []RefusedDidNothing` |
| | `ResponsesConsistent` | `Spec => []ResponsesAgree` |
| | `LimitKept` | `Spec => []DailyLimitKept` |
| `FxRateProviderProofs` | `StaleIsTold` | `Spec => []StaleTellsFailures` |
| | `NeverOlder` | `Spec => NeverBackwards` |
| `WorkflowEngineProofs` | `NothingSkipped` | `Spec => []NoStepSkipped` |
| | `WholeWhenCompleted` | `Spec => []CompletedIsWhole` |
| | `AbortReturns` | `Spec => []AbortHalts` |
| | `LatestIsVisible` | `Spec => []LatestVisible` |
| | `FanOutsWhole` | `Spec => []FanOutWhole` |
| `ExtensionsProofs` | `FilesRegistered` | `Spec => []CommandsFollowRegistry` |
| | `HooksRegistered` | `Spec => []HooksFollowExtensions` |
| | `ConfigKept` | `Spec => []ConfigNeverDestroyed` |
| | `UpdateUndone` | `Spec => RollbackRestores` |
| | `ExtensionsRefine` | `Spec => ImplementsExtensionSet` |
| `PresetsProofs` | `StackDecidesFiles` | `Spec => []FilesFollowStack` |
| | `WalksAlwaysAgree` | `Spec => []ResolversAgree` |
| | `CompositionAlwaysNests` | `Spec => []CompositionNests` |
| `IntegrationsProofs` | `IntegrationsTyped` | `Spec => [](TypeOK /\ RunOK)` |
| | `DescriptionsAlwaysAgree` | `Spec => []DescriptionsAgree`, for integrations with files of their own (`OwnFiles`) |
| | `FilesHaveOwners` | `Spec => []NoOrphans`, with `OwnFiles` |
| | `CommandsKeepEdits` | `Spec => EditsKept`, with `OwnFiles` |
| | `SharedFilesFollowDefault` | `Spec => []SharedFollowsDefault` |
| | `ContextFilesKeepText` | `Spec => ContextTextKept` |
| `SelfUpgradeProofs` | `OwnInstallationOnly` | `Spec => OnlyOwnInstallation` |
| | `NoDowngrade` | `Spec => NoUnaskedDowngrade` |
| | `ReportIsLive` | `Spec => ReportedIsLive` |

Each module also states its inductive invariant as a theorem (`Invariance`, `Handlers` in
`LedgerProofs`, `PresetsInvariant`; in `IntegrationsProofs`, `DescriptionsFollowThePlan` and
`FilesFollowThePlan` beside `IntegrationsTyped`). No property follows from its own conjuncts: what a
step may do depends on what the same handler, process or command did several steps
before. The invariants therefore say what the place of each actor implies.

### Assumptions

TLC evaluates the `ASSUME`s in every run.

* Service: constants have their types; the requests are finitely many
  (`RequestsAssumption`); initial balances are non-negative whole stored units; the
  receiving fee is at most 100 percent; rates and fees are non-negative; `Nobody` and
  `NoRow` are not requests or rows. `BooksBalance` alone has a hypothesis,
  `WholeAmounts`: a finer amount is rounded in both balances (see the divergences), and
  the books then really do not balance. The services' runs are instances of it.
* Rate provider: at least one attempt, failure and table; the loop is not a reader. Self
  upgrade: types of the initial installations and of the commands.
* Workflow: what `validate_workflow` accepts (`WorkflowIsValid`), and no step lies inside
  itself (`StepsNest`), as in every YAML document.
* Extensions: an agent exists whose commands are not skills; `Provides` and `Primary`
  have their types; `NoFile` is not a content.
* Presets: finitely many presets, whose ids are ranked without ties; strategies are the
  four of the code; the extension and the core provide different commands; the layers are
  distinct (`ResolverAssumption`). One agent has command files and the other one, the active
  one, skills; `NoFile` and `EmptySkill` are not texts (`PresetsAssumption`).
* Integrations: command files and shared files lie in different directories; what stands
  for no file, the user's text and no manifest is none that Spec Kit writes
  (`IntegrationsAssumption`); the user's pieces of a context file are not the markers
  (`ContextSectionAssumption`). Three theorems have the hypothesis `OwnFiles`: integrations
  write different files. `tests/integrations/test_registry.py` demands it of every two that
  are safe to install together; it does not hold of all (`agy` and `codex` share
  `.agents/skills`, and `generic` takes any directory), and then the manifests of two
  integrations may name the same file. The run is an instance of it.

### The service

**Inductive invariant** (`IInv` of `FundTransferProofs`). That a commit does not overdraw
follows from a check made several statements earlier, on an object loaded before that.
For each request its program counter implies:

* `BodyOK` - it carries a body of its handler's kind, and snapshots and pairs that
  were looked up exist;
* `LocksOK` - it holds the rows it has locked, and between insertion and commit
  the key, which no posted transfer has;
* `SeenOK` - a transfer loads a row only together with its lock, so the objects of
  its session equal the committed rows, and the verdict reached on them still
  stands (`Cleared` for the cross-currency service);
* `RowsOK`, `AttemptsOK` - no row before the commit, bounded loops;

and `PostedOK`: a posted cross-currency transfer agrees with the snapshots it was
quoted from. Closings are the reason `SeenOK` is stated for transfers only: a
closing loads its row without the lock.

**Argument.** `OtherKept`: a step of one request preserves the facts of all others,
since it writes only rows it holds and publishes only a key it holds. `QuietStep`,
`CommitStep` and `RaiseIInv` reduce each action to what it changes for its own
request, with one lemma per action of the three services. The refinement
(`StepSimulation`) maps each of the four commit actions to `Post`, `Open`, `Close` and
`PostCross`, snapshot changes to `Publish` and `Withdraw`, and shows that every other
step leaves the ledger's variables unchanged.

`FundTransferProofs` begins with the arithmetic: conversions are natural numbers, rounding does not
carry a covered debit below zero, the sender's cost is the stored amount plus the fee.
It also has the sums over finite sets of transfers: that a sum grows by what is
added is shown for a smallest set for which it would fail.

`LedgerProofs` uses the refinement instead of the handlers: a step of the service is
one of the ledger's few steps, and each of them keeps `BooksOK` (every account that
exists was opened once and is explained by its entries and transfers; a number that is
not in use has none) and `TracesOK` (the audit entries and notifications of each posted
transfer are there, and nobody else's).

Its second part adds `HandlersOK`: locks and index entries belong to handlers at a place
where they hold them (`OwnersOK`), and a handler that has answered shows the one
transfer of its key, or has written nothing (`AnswersOK`). A refusal at any place
(`Raises`) and a lost connection release everything. `DayOK` says of a handler that has
checked the daily volume that the volume and its own amount are still within the limit:
the lock on the source keeps other transfers of the account away until the commit, and
time only takes transfers out of the window.

### The rate provider

`Queued`: a task that refreshes is in the queue of the lock once, and only the first one
has a request under way; `Ordered`: what it was answered is no older than what is held;
`Announced`: failures that the stale mark does not tell yet are those of the refresh under
way. A cancellation may take a task out of the middle of the queue (`Removed`).

### The workflow engine

The invariant describes the call stack of a process. `StackOK` and `Calls`: which frame may
lie on which - a body on the step that owns it, an iteration on its loop, an item on its
fan-out. `CallersOK`: a fan-out below in the stack has collected the outputs of the items
before the current one. `FreshOK`: the latest result of a step is what its plain id shows,
and a step with a call still open has none; here a step must not lie inside itself.
`PositionOK` and `DiskOK`: every top-level position before the current index, in memory and
on disk, was finished. Two processes meet only in `disk`, and
whatever one of them saves satisfies `DiskOK`.

### Extensions

A command is a path through its plan (`PlanOK`, `Path`): the step at its head determines,
with the command, which step comes next, and thus which ones are behind it. `Itinerary`
lists what may follow each step, `Opening` how commands begin, and for every place
`EntryOK`, `DirOK` and `ConfigOK`, `HooksOK` and `YmlOK`, `NamesOK`, `FilesOK` and `SavedOK` say
what the registry entry, the directory with its backups, the hooks, the names in use,
the command files and the saved files are. `Untouched` tells what each step leaves alone.
Extensions the command is not about keep their entries and files (`Aside`); for the files
this rests on `NamesOK`: names never clash between installed extensions, so deleting the
files of one never deletes those of another.

The history variables `damaged` (a command on the extension was interrupted, or failed where
the code has no rollback) and `failed` (an update was rolled back) bound what is claimed,
as the code does: hooks for extensions that are not damaged, command files
as long as none is. A backup whose `copytree` fails half way (`Torn`) damages the
extension although the command goes on to its rollback: the entry, the hooks, the list and
the saved files are restored all the same, the directory is not.

`UpdateUndone` follows from the place after the last restoring step. For the refinement,
`StepRefines` shows that the step with which a command becomes visible is one step of
`ExtensionSet`, and that every other one, the rollback included, changes nothing under `Shown`.

### Presets

`list_by_priority` is given by what it returns, a sorted list of the enabled presets, so
its existence and uniqueness come first: a smallest set of presets without a sorted list
would lose one by taking away the last of its order (`LastPreset`, `SortedExists`, `ListIs`).
`LayersAre` says what a stack holds and where, `LayersSame` that it depends only on the
entries of presets that provide the name. `WalksAgree`: the first hit of `resolve`, which
walks through all presets and looks for files of the command's name (`ByName`), is the top layer of
`collect_all_layers`, which sorts only those whose manifest gives a file that is there
(`Provides`), unless one of the two is `Misplaced`: a preset above both would be misplaced too, and
then it is itself what one of them finds. `CompositionIs`: going up from the nearest layer that replaces gives what the
layers mean from the top down, shown for the lowest position at which they would differ.

Beside types, the invariant has five parts. `RegistryOK`, `ComposedOK` and `SkillsOK` say what
an entry lists, that only commands that compose have a `.composed` file, and which skills
exist. `FollowOK`: the
names no running command is about (`Busy`) have the text of their stack. `RunOK` says what
the steps behind the running command have done. One lemma per action (`CopyKeeps`, ...,
`ReskillKeeps`) shows what becomes of the names of the command, `AsideFollows` and
`FollowsSame` leave the others alone, and `StopKeeps` covers failures and kills, which move
names to `broken`.

`FilesFollowStack` did not hold in general when the proof was first tried: two sequences of
commands (the preset items of the divergences in section 3) leave files that are not those of the stack. The
histories `stale` and `unskilled` name them, and the property claims the rest.

### Integrations

A command is known by the steps it has left. `PlanOK` gives their order (`Precedes`), and
`Target` is what `integration.json` will be once they have run; one lemma per command
(`InstallPlan`, `SwitchPlan`, ...) shows that its steps are such a plan, `RollbackPlan`
the same of the steps of a rollback. `TypeOK` and `RunOK` hold always, also after kills. As
long as no command was stopped in the middle (`stopped`), the rest relates everything to
the target: `ManifestsOK` (an integration has a manifest if it is in the target, unless the
user lost it or the command is about to write it), `OptionsOK` (`init-options.json`), `DialectOK`
(shared files speak the dialect of the default integration), `FilesOK` (every command file is
in the manifest of its integration, or about to be).

`CommandsKeepEdits` looks at each of the steps that write or delete files: what it
overwrites is recorded with the hash of what is there, unless the user asked for `--force`.
`lost` names what the properties except: the integrations that `init` forgot (`Dropped`) or an
upgrade left without a manifest (`Untold`), the files such an upgrade wrote (`Left`), and
shared files found rather than written (`SharedStale`). An upgrade that removes stale files
makes only the files it has just written an exception, not the integration: that
the stale ones are gone stays proved.

`ContextFilesKeepText`: the text of a user is that of the parts of a file (`PiecesConcat`); a file
whose markers stand as they were written has one section (`SectionFound`) and is what is
before it, the section and what is after (`SectionSplits`), so that writing and cutting
keep the text (`SectionKeepsText`). In an `.mdc` file `FrontmatterIs` lists the four results
of `_ensure_mdc_frontmatter` and `FrontmatterKeepsText` what each of them does to the text.

### Self management

`CommandOK`: what a command knows when it starts its installer - its method is that of its
own entry point, or of the only installation that answered for one that is gone; its
target is a release and, without `--tag`, newer than what it read.

### Only model-checked

* Liveness - `Answered`, `EventuallyFresh`, `Terminates`, `Ends` - is outside the prover's reach.
* `ConditionsAreLogic`: the evaluator of expressions is recursive, and what it computes for
  every expression needs induction over data.
* `UninstallComplete` and `ClosedAccountsAreEmpty` are not theorems: their runs refute them.

Every other property of the runs is proved. What recursive functions compute for every input
is within reach where an argument by a smallest counterexample does, as for the composition of
presets, the text of context files and the sums of the ledger; the evaluator's recursion is
over the structure of an expression, through operators.

## 5. Assumptions of the model

* `session.begin()` opens the transaction block as the code intends. (SQLAlchemy 2
  raises when an earlier statement has already begun a transaction
  automatically; the repository's tests replace the session by mocks.)
* PostgreSQL at READ COMMITTED, its default; `expire_on_commit=False` as in
  `core/database.py`; no `populate_existing`.
* A crash is the loss of one request's connection; a crash of the server is the
  loss of all of them, one after the other.
* Amounts are positive. `CreateTransferRequest` enforces it;
  `CrossCurrencyTransferRequest` does not, and the results about cross-currency
  transfers hold for positive amounts.
* `update_transfer_status` raises on a transition that is not allowed; `initiate`
  only asks for allowed ones, so the model has it as a guard.
* `created_at` is the start of a transaction: transfers leave the 24-hour window
  in an order unrelated to their commits.
* Read-only endpoints change nothing and are left out, as are tokens, logging,
  metrics and the text of messages. Of authorization only what decides the
  handlers' paths is modelled.

The refinement credits the ledger through the services' own conversion operators, so a
difference between the three rounding rules is not something it can find.

Of Spec Kit:

* A single write of a file is atomic, except where a module says otherwise (`state.json`
  and the registries may be left truncated by a kill).
* One `specify` command at a time changes extensions, presets and integrations of a
  project; workflows and self upgrades do run concurrently.
* Contents are told apart by who wrote them, in which release and dialect; rendering into
  an agent's format is a function of these.
* Expressions: the filters `join` and `map`, the `TypeError` of `in` on a number, comparisons of
  lists, dotted paths and the interpolation of strings are left out. `ConditionsAreLogic` claims
  nothing of a text, or a side of its `or`, that begins and ends with a quote, nor of strings that
  hold an operator.
* Workflows: ids are unique throughout a definition. `_validate_steps` checks the template of a fan-out
  against a fresh set of ids (engine.py:269-275), so an id may repeat there. A gate's option is
  one value; its case is left out.
* Presets: every file of a preset is listed in its manifest. The error of a wrapping
  layer without placeholder (presets.py:3237-3243) is left out.
* Context files: `ContextTextKept` is about files whose markers stand as Spec Kit wrote
  them; damaged markers are modelled and not claimed. Frontmatter has at least one line of its own,
  and the user's own `alwaysApply` lines may be changed.
* Self upgrade: an entry point found on `PATH` for the verification belongs to uv or to pipx, or
  nothing is found; `shutil.which` (_version.py:872-880) could find a third one.
* An installed distribution has a version that parses; `None` stands for one that is not
  found.

## 6. Plan

Done: the service with its abstract ledger; the FX rate provider; the workflow engine,
extensions, presets, integrations and self management of Spec Kit, with the abstract
extension set; the theorems of section 4, which leave liveness and `ConditionsAreLogic` to
TLC. Next:

1. **Notifications**: `mark_read` next to deliveries; the read paths `preview_conversion`,
   `get_rate_table` and `get_status` as far as their answers can disagree with the tables.
2. **Catalogs**: the cache of `catalogs.py` with its age limit and the stack of sources.
