# StepForItOps in TLA+

StepForItOps is a console beside n8n and Make: it mirrors the workflows of an
instance, versions them, promotes them from one environment to the next, watches
their failed executions, groups these into problems, alerts, helps repair, and
counts what the language models in them cost. This directory keeps, beside the
code, TLA+ models of the parts whose correctness depends on the order of things,
the TLC configurations that check them on small instances, and TLAPS proofs of
what matters most for every instance.

    tlc -config MCErrorGroups_serial.cfg MCErrorGroups     # any run of PROJECT.json
    tlapm ErrorGroups_proofs.tla                           # any *_proofs module

The code is one NestJS process (`apps/api`) on one PostgreSQL database. There
are no threads: everything hard comes from **awaits**. Two calls started by two
crons, events or clicks interleave at each of them, on shared rows and on shared
objects in memory, and a restart loses whatever is between two of them. So the
models all follow one convention: *a step is what the code does from one await
to the next*, a call in progress is a record of its local variables, and a
restart empties those records and the in-memory state, not the tables.

## 1. Inventory

Paths are under `apps/api/src/` unless they start with `packages/`. The parts
above the line are modelled, each but for what section 5 leaves out.

| Part | State it keeps | Operations | What is hard | What makes it correct |
|---|---|---|---|---|
| Error watch (`modules/monitoring/error-watch.service.ts`) | row `Monitor`: instance watched, push URL, cursor, count of failed pushes, enabled | tick, check from the console, edits | checks overlap; ids follow starts, not failures; outages; restarts between the event and the cursor; edits under a check | each error signalled, once; nothing passed over; one alert per outage of the probe |
| Error history (`error-history.service.ts`) | rows `ExecutionError`, their detail and its state | ingestion, detail (eager, drain, console, catch-up), prune, backfill | four sources fetch one detail; rows used after an await; the platform purges | a detail is settled, kept, and its row is in the group of its signature |
| Error groups (`error-group.service.ts`) | rows `ErrorGroup`, journal, `notifiedAt` | assign, recount, regression, announcement, resolve, reopen, ignore | aggregate then write; decisions on a group read earlier; groups deleted when empty | exact counts, one announcement per problem, regressions traced |
| Alert digests (`modules/notifier/notifier.service.ts`, `packages/core/src/domain/alert-digest.ts`) | buffer in memory, channels | alert, arm, count, minutely flush | sends are slow and overlap; channels edited meanwhile; restarts | no recurrence told twice, windows respected, nothing counted lost |
| Workflow mirror (`modules/workflows/workflow-sync.service.ts`) | rows `Workflow`, dates of Make in memory | hourly pass, button, search, click | list and copies read at different times; passes overlap; missing or archived workflows | the copies become those of the platform; only what is gone is flagged |
| Snapshots (`modules/versioning/versioning.service.ts`) | rows `WorkflowVersion` | a listener of `workflow.synced` | decided before the copy is written, taken after | every content a copy held has its version |
| Locks and chain guard (`infra/workflow-lock/`, `infra/settings/env-chain-guard.service.ts`) | rows `WorkflowLock`, `WorkflowLockOverride`, the chain of environments | assertWritable with the locks a request lifts, lock, unlock | checked before the awaits of the writes | no write to a locked copy without a journaled override |
| Promotion (`modules/env-switcher/`) | copies of a workflow per environment, semantic numbers, snapshots | promote along a route of legs | several writes to two instances; locks read once; numbers computed from what the copies carry now; stamps on the latest snapshot | no environment skipped; a number names one content; no twin; a caller finds its callee |
| Publication runs (`promotion-publish.service.ts`, `packages/core/src/domain/n8n/publication-chain.ts`) | row `PromotionPublishRun`: steps and their states; a guard in memory | start, resume, skip, abandon | a run saved over another's change; lost answers; restarts | callees before callers, no step twice, an abandoned run stays so |
| Chat proposals (`modules/workflow-chat/proposal.service.ts`) | rows `WorkflowChatProposal` and parts | apply, discard | status read before the awaits; parts written one by one; edits meanwhile | applied whole, in order, once, on the content it was made for |
| AI costs and budget (`modules/ai-cost/`) | rows `LlmUsage`, a cursor per instance, the budget and the day of the last alert | tick, forced sample, price the rows without a cost | passes overlap; an instance is down; prices change; a failure in the middle | nothing legible hidden by the cursor; costs frozen; one alert a day |
| --- | | | | |
| Module registry (`infra/modules-registry/`) | row `ModuleState`, cache in memory | isEnabled, setEnabled, reload | cache written after an await (`module-registry.service.ts:40-43`) | the cache is the table |
| Performance and drift (`modules/performance/`) | samples with a cursor, alerts of drift | crons | as AI costs | told once per entry into drift |
| Assistant (`modules/workflow-chat/`, `assistant-learning/`) | conversations, lessons | turns with a language model | none a model would tell | - |
| Probes (`monitoring/kuma-*`, `active-check`, `heartbeat`) | probes on an Uptime Kuma server | provision, import, push | best effort calls | probes match monitors |
| Exports (`versioning/export-*`) | files on a repository or a drive | export, clean up | I/O | - |
| Model audit, credential check, key expiry | last level told | crons | one alert per level | told once per level |
| Checks, optimizer, dependency map, documentation, tester, impact, field and code checkers | findings | analyses of one workflow | pure, or one call | - |
| Configuration transfer, release procedures, groups, settings, dashboard, log | tables | CRUD | order of an import | - |
| Domain (`packages/core`) | none | pure functions | boundaries | agree with their definition |
| Adapters (`packages/adapters`) | the call budget of Make | HTTP | outages, rate limits | - |
| Web console, demo, build | none | screens | - | - |

How they interact: services call each other and the adapters directly, and tell
the other modules by events (`infra/events`), which run their listeners in the
same process without anyone waiting for them.

    platform --poll--> ErrorWatch --monitor.errorsDetected--> ErrorHistory --assign--> ErrorGroups
                                                     --errorGroup.opened/recurred/regressed--> AlertDigests
    platform --pass--> WorkflowMirror --workflow.synced--> Snapshots
    platform --poll--> LlmCosts --aiCost.budgetExceeded--> notifier
    user --> Promotion --assertWritable--> WorkflowLocks
                       --copies--> Snapshots (stamped with the number)
                       --then--> PublicationRuns --assertWritable--> WorkflowLocks
    user --> ChatProposals --assertWritable--> WorkflowLocks

## 2. Modules

| Module | Models | Extended by |
|---|---|---|
| `ErrorGroups` | error history and error groups | `MCErrorGroups`, `ErrorGroups_proofs` |
| `ErrorWatch` | the error-watch monitor | `MCErrorWatch`, `ErrorWatch_proofs` |
| `ExactlyOnce` | abstract: items fail, each is signalled at most once unless doubtful, the due ones at least once unless released | instance `Promise` of `ErrorWatch` |
| `AlertDigests` | the notifier's alerts of problems and its buffer | `MCAlertDigests`, `AlertDigests_proofs` |
| `WorkflowMirror` | passes, clicks, snapshots | `MCWorkflowMirror`, `WorkflowMirror_proofs` |
| `WorkflowLocks` | the lock of a copy and the guard of every write | `PublicationRuns`, `ChatProposals`, `Promotion` |
| `Promotion` | a promotion, the numbers, the snapshots of the copies | `MCPromotion`, `Promotion_proofs` |
| `PublicationRuns` | the publication that follows a promotion | `MCPublicationRuns`, `PublicationRuns_proofs` |
| `ChatProposals` | a proposal of the assistant, applied or discarded | `MCChatProposals`, `ChatProposals_proofs` |
| `LlmCosts` | the sampler of AI costs, the budget alert, the correction of missing costs | `MCLlmCosts`, `LlmCosts_proofs` |

`PROJECT.json` maps every definition to the lines it stands for. Definitions
commented as *faulty variants* are not the code: they are plausible mistakes
(a dropped guard, a missing reset), each used by one mutant of `PROJECT.json` to
show that a property notices it. Variables described as counting or remembering
what happened (`told`, `wrote`, `pushed`, `clean`, `crossed`, `together`, ...) are
history variables: no step of the code reads them.

### ErrorGroups

`rows`, `groups`, `journal` are the tables; `opened`, `recurred`, `regressed`
count the events emitted. Each element of `Workers` is a call in progress:
`pc[w]` is the await it is suspended at, `job[w]` its local variables, among
which `row` is the object it was given (**not** the row of the table, which may
have changed since) and `seen` the group as it read it. `Ingest`/`Insert` are
`upsert`; `Pick`/`FetchDetail` any of the four sources of a detail; `Regroup` the
nightly catch-up; `Lookup`, `Create`, `Reread`, `SameGroup`, `Attach`,
`CountPrevious` ... `EmitOpened` the body of `assign`, `recount`,
`handleRegression` and `announce`, in their order, with each exception the code
lets through (a group or a row deleted since) ending the call. `PruneRows` ...
`PruneEnd` are the nightly prune, which runs beside the calls. One instance and
one workflow are modelled, so the signature of a row is its detail; `NoDetail`
is the provisional signature of a row whose detail is pending. Labels, samples,
categories and first/last dates are not modelled: no step decides on them.

Nothing in the code keeps two calls off one problem, and two calls there do break
some promises. The history variable `together` says where: `rows` and `groups` are
those two calls had in hand at once, `signatures` those two calls were working on
at once (carried by their rows, by the group a row leaves, or one through the
row of the other), or on which a call was `CutShort`, the group it was
recounting having been deleted. `Remember` keeps it at each step. The properties are
stated for the rows, groups and signatures that are not in it: so the runs and
the theorems have any number of calls overlapping, and say of a problem what holds
as long as *its own* calls came one after the other.

### ErrorWatch and ExactlyOnce

`status` is the platform: an execution takes its id when it starts and may fail
after one with a higher id did. `check[c]` is a check in progress with what it
read of the monitor when it began; `FindInstance`, `ReadPage`, `Decide`, `Push`
(or `PushFails`), `Store` are its awaits, `Unreachable` a failed listing, `Throw`
a failed call of the database, which ends the check. Without a push URL `SkipPush`
stores a counter of 0, and an alert that was pending has then lost its end
(`relay.dropped`). Users retarget, switch and relink the monitor
(`PATCH monitors/:id`) and remove instances; the state column stays as it was.
`isCheckDue` is abstracted: a tick may find the monitor due at any time. The poll
of Make, whose cursor is a date, is not modelled.

`owed` is a history variable: the failures the monitor owes a signal for, i.e. those
of monitored environments that happened while it watched that instance and had
done its baseline. Three more name what overlapping or interrupted checks spoil,
each set by the step that causes it: `doubtful`, the errors signalled while another
check in progress could still list them, or by a check that never stored its
cursor; `overlooked`, the errors passed over because they failed late, were beyond
the last page, were taken for old by a belated baseline, or lay below the cursor
of another instance's check; `astray`, a change of the relay told beside another
check or never stored. The refinement `Promise` maps `Items` to the executions,
`failed` to those in error, `due` to `owed`, `signals` to `emitted`, `doubtful` to
itself and `released` to the errors overlooked or that the monitor stopped watching:
the abstract promise lets only a doubtful item be signalled again, and only a
released one be forgotten.

### AlertDigests

`entries` is the buffer (`None`: not armed), `alert[a]` a handler of
`onGroupOpened`/`onGroupRegressed` between two awaits, `flush[f]` a flush and the
digests it still has to send. Time is kept as ages that stop growing at `Window`
(the code compares differences only, so larger ages behave alike). Whether an
event is fresh (`FRESHNESS_HOURS`) is a choice of the environment.

### WorkflowMirror

`upstream` is the platform: a workflow is listed, hidden (archived, n8n only) or
gone, with a content and a date of change. `mirror` is the table, `known` the
map `lastChangedAt`, `pending`/`versions` the snapshots being taken and taken.
`sync[j]` is a pass or a click: `List` reads the list; on n8n `Find`/`Upsert`
copy what it gave, `ReadLocals`/`Ask`/`Flag` reconcile the copies it lacks; on
Make `ReadLocals` reads the copies, `TakeScenario`/`GetScenario`/`Upsert` copy
those whose date moved and `FlagUnlisted` flags the rest. `overlapped` remembers
that a sync began while another was in progress. A content stands for its hash.

### WorkflowLocks

`locked` is the table `WorkflowLock`, `journal` the copies that have a row in
`WorkflowLockOverride`. `AssertWritable(ids, lifts)` is the guard the services
call: it reads the locks once, lets the request go when every lock met is among
those it lifts by name, and journals them. The services that write **extend**
this module, so that one set of locks, changed by users between any two awaits,
is what their calls are guarded by.

### Promotion

The copies of one workflow (`main`) stand on a line of environments; `sub` is a
sub-workflow it may call, `holder` a workflow of a target that may hold a URL the
promotion will set. `live` is n8n, `rows` and `versions` the console's copies of
`main` and their snapshots with their numbers, `taking` the snapshots the
listener of `workflow.synced` has still to take, in order. `call[c]` is a
promotion in progress: `Prepare` (the source is read again), `Judge` (the
refusals, the number, the route), `Legs` and `CheckLocks` (the locks of the whole
route, once), then for each leg `Leg`, `Push` (is there a copy on the target?),
`Move` (the holder of a clashing URL), `Put` (overwrite or create) and `Copy` (the
console's copy), and at last `Stamp`. `AnswerLost` is a write n8n made and whose
answer never came; users edit workflows and locks between any two awaits.

What is fixed: names carry no number; the callees are not published on the way
and nothing is published like the source (that is `PublicationRuns`); remote
tables are not compared; clashing URLs are moved; the level of a number is not
chosen by hand. Homonyms on a target are seen as one, and creating beside one is
recorded in `twins`. Tags, and the console's copies of `sub` and `holder`, are
left out. Whether findings and tests block is a free choice. `ParksAssumption`
states what the instances may hold at first: locks are those of existing
workflows, and what `main` calls is where it is promoted from (a dangling call at
the source is left out).

### PublicationRuns

`tree` is the call tree that was promoted, with what the target holds of it;
`live` what n8n serves there. `Traversal` is `publicationOrder` with the pairing
of copies, `PlannedState` the state each step starts in. `run` is the row,
`running` the guard in memory, `call[c]` a request: `Create` (start), `AssertStep`,
`Save` (resume, skip, abandon), `Enter` (the guard), `Load`, then per step
`CheckLock`, `ReadLive`, `Publish`, `Upsert`, `Store`, and `Leave`. `Refuse` is a
refusal of n8n (a draft callee), `Unreachable`, `AnswerLost` and `Throw` the
failures. One leg is modelled; the reads of a plan are one step.

### ChatProposals

`status` holds the row of the proposal (under its root) and those of its parts,
`content` what n8n serves of each workflow: what the proposal was built on, what
it writes, an edit, or nothing. `Apply` reads the rows, `CheckChain` and
`CheckLocks` guard everything the request touches, `Judge` reads again and judges
each workflow before any write, `Put`/`Close` write and close the parts then the
root, `Finish` closes a proposal without a root; `Discard`, `DiscardRoot`,
`DiscardParts` are the discard. Building a candidate and the gate that judges it
are a free choice (a judgement passes only if the base is what n8n serves).

### LlmCosts

`status`, `day` are the executions of each instance, `rows`, `cost` the table
`LlmUsage`, `cursor` the table of cursors, `settings` the budget and the day of
the last alert. `poll[p]` is a pass over the instances, of a `Tick` (the instances
due) or forced (`Sample`, which starts over from a baseline where there is no
row): `List` reads the cursor, the listing, the mirror and the catalogue;
`Ingest` opens an execution, the latest first, and inserts its rows; `Store` moves
the cursor; `Unreachable` is a failed call, after which the pass goes on with the
next instance; after the last, `Check`, `Mark` and `Emit` are the check of the
budget. `FixBegin`/`Fix` are `priceMissing`. An execution makes one call to one
model. Reads with no write of the same call in between are merged (the cursor, the
listing, the mirror and the catalogue; the settings and the sum). The mirror is
fixed (`Foreign`), the order of the instances is fixed but arbitrary, and the
cadence is abstracted to "a tick may find any instances due".

## 3. Runs

`CHECK_DEADLOCK FALSE` is used where the modelled system may come to rest
(everything historised, every alert told, nobody asks for anything more).

| Run | Question | Result |
|---|---|---|
| `groups_lanes` | two calls interleaved at every await, and a user | `GroupsTrue` (rows in the group of their signature, counts exact, no empty group), `AnnouncedOnce`, `ToldInOrder`, `AnnouncedFromSettled`, `RegressionsTraced` hold, the first three outside what two calls had in hand at once |
| `groups_serial` | one call at a time, users, a prune, a restart; fair | `DetailLasts` (details settle and stay) holds |
| `groups_row_misplaced` | is a row of two overlapping calls in its group? | `RowsSorted` **violated** |
| `watch_overlap` | two checks at once, failures out of order, failed calls, the push URL cleared or given | the refinement `AtMostOnce`, `PassedIsSignalled` (only named causes make the cursor pass an error unsaid) and `RelayToldOnce` hold |
| `watch_restarts` | a check cut short by a restart or a failed call, the monitor edited, an instance removed; fair | `NoneForgotten` holds: at least once |
| `watch_late` | two executions at once on the platform | `SeenIsSignalled` **violated** |
| `digests_overlap` | two alerts and two flushes at once, edits, a relapse, a restart; fair | `RemindersRight` (nothing told twice, to the channels of the alert), `ActiveIsCounted`, `DigestsSpaced`, `DigestsSettle` (what is counted is reported, what falls silent is forgotten) hold |
| `mirror_passes` | two syncs at once, edits, a click, an outage, a restart, n8n or Make; fair | `CopiesAreVersioned`, `MissingIsGone`, `FreshIsCurrentAlone`, `MirrorConverges` hold |
| `publications_clicks` | two requests at once on five call trees (chain, draft callee, cycle, missing and archived copies), users, failures, a restart; fair | `PublishedOnce`, `RowIsTrue` (steps in order, what is done is live), `CalleesPlayed`, `LiftsJournaled`, `StopIsAPauseUndisturbed`, `RunsStop`, `AbandonedPlaysNothing` hold |
| `proposals_retries` | two requests at once, retried; an edit, a lock, a lost answer, a restart | `WrittenWhole` (parts first, applied means whole), `WritesJustified` (no edit overwritten, nothing replayed), `NoBackDoor`, `Settled`, `DecidedOnce` hold |
| `promotions_route` | two promotions, overlapping or not, direct or step by step, with and without cascade and force, on three environments; an edit, a lock, a lost answer or a restart | `NumberNamesOneContent`, `LocksHold`, `NothingSkips`, `OneCopyEach`, `CalleesThere` hold |
| `costs_samples` | a tick and a forced pass, two corrections of prices, an instance that is down; a failed call, an edit, a midnight or a restart; fair | `PassedIsCounted`, `AlertedOnce`, `CostFrozen`, `FinishedIsSettled`, `OverspendTold` hold |

The type invariant `TypeOK` of each module is proved for every value of the
constants (section 4), so that no run spends its time on it. Some
properties are conjunctions of named parts (`ToldInOrder == SettledIsTold /\
RecurredAfterOpened`), each with its own comment in the module.

Several properties carry a condition ("as long as no two requests overlap",
"until a restart"): it is kept in the property, as a history variable, rather
than in the run, so that the run explores the disturbed behaviours too and the
property says exactly when the promise holds. What happens without the condition
is told below.

### What the violated runs show

- **A detailed row goes back to the provisional group** (`groups_row_misplaced`).
  `upsert` assigns the object it inserted. When the drain settles the detail in
  between, the row is moved back to "(no detail)", and nothing moves it again:
  its detail is not pending any more, and the regrouping only takes rows without
  a group.
- **Late failure** (`watch_late`). The cursor is the highest id seen. An execution
  that started earlier and fails after that is below it for ever.

### Races met without a run of their own

Each was met as a violation of a property before its condition was added.

- *Errors.* On one problem, two calls at once announce it twice (both read
  `notifiedAt` as null), leave the older of two totals, or replace a stored detail by
  an empty answer; and a call whose recount of the group it leaves fails, that
  group being deleted meanwhile, never counts nor announces the new one
  (`error-group.service.ts:89`);
  a group ignored meanwhile is reopened by a regression decided earlier
  (`error-group.service.ts:271`); a lost race on the unique key throws out of the
  ingestion loop, and the executions after it wait for another source
  (`error-history.service.ts:302`). Nothing keeps a tick from starting a check
  while one started earlier has emitted and not yet stored its cursor: its errors
  are signalled twice, and an outage of the probe may be told twice. More errors
  than `MAX_PAGES` pages are passed over; the cursor survives a change of instance;
  of two first checks, the slower silently takes for old what failed meanwhile.
  Without a push URL `conclude` stores a count of failures of 0 and tells no relief
  (`error-watch.service.ts:340`): an outage of the probe whose URL is cleared is
  never told over, and told again when the URL comes back before the probe, where
  the comment of `pushAndCount` (`:353-354`) says the counter passes there again
  "qu'après un succès".
- *Digests.* A group is only armed by its alert, and an announced group is not
  announced again: after a restart its recurrences are dropped until it is resolved
  and relapses, where `notifier.service.ts:72` says "coûte au pire un
  récapitulatif". A channel edited between an alert and its reminder changes the
  reminder's path.
- *Mirror.* A pass over Make compares the date *now* with a copy read at its
  start. When another pass updated both in between, it writes the old content back
  under the new date, and every later pass believes it, until the next edit or
  restart.
- *Publication runs.* After a restart, or a failure of the database, a run nobody
  advances says "running": resume and skip refuse it, only an abandon gets it out.
  `advance` saves the run it holds after each step, so that an abandon stored
  meanwhile is overwritten and the next steps are published.
- *Proposals.* Two overlapping requests both find the proposal pending: it is
  written twice, or written after it was discarded. An edit that lands between the
  judgement and the write is overwritten.
- *Promotion.* The next number is one above the highest the copies carry **now**.
  A forced promotion of an older content gives a copy its lower number back, and
  the highest number is then given again to another content, where
  `instance-promoter.service.ts:1427-1428` says "un numéro déjà servi à un autre
  env ne doit jamais être rejoué". The stamp goes to the latest snapshot
  (`:563`): when the listener is late, that is the previous content's. An edit
  of the source between two legs gives one number two contents. The locks of the
  route are those of the writes of the legs themselves: a holder moved for a
  sub-workflow that the cascade creates is not looked at (`:442-443`, `:730-732`),
  nor is a lock set after the check. Without cascade, the blockers of an
  intermediate leg are not judged (`:471-472`, `:1151`), so that a caller may reach
  a step where its callee is missing.
- *Costs.* Two overlapping "apply-missing", with the catalogue edited in between,
  rewrite a cost that had just been frozen. Two overlapping checks alert twice. An
  execution of yesterday that is ingested after midnight never weighs in an alert.
  Two comments promise more than the cursor gives:
  `llm-usage-sampler.service.ts:30` ("Une exécution en cours n'a pas fini de
  consommer : on attend qu'elle termine"), while an execution listed as running is
  passed by the cursor for good; and `:23` ("le reste attend le prochain tour"),
  while what lies beyond `MAX_PAGES` pages is passed as well. `PassedIsCounted`
  states what is left: these executions (`overlooked`), and no other, may be
  missing from the table.

The hazards of `PROJECT.json` say which property holds as long as these do not
happen.

### Bounds, and why they are enough

- `groups_*`: two executions that fail for the same reason, one later, so that
  every pair (new/same group, before/after a resolution) occurs; each answer of
  the platform (detail, empty, failure) for each; two dates. `groups_lanes` has two
  calls, one user action, which is enough to resolve a group before a later error,
  and up to 3 groups ever created; `groups_serial` has one call, two user
  actions, one prune, one restart and up to 6 groups. A third call would repeat a
  race of two, and the safety theorems hold for any number.
- `watch_overlap`: two checks; two executions, which may run at once, and pages of
  one, so that a check ends by reaching the cursor, by an exhausted list or by the
  page limit (one page in a baseline, two later); a threshold of 1 and two failed calls, so that an outage is
  told, lasts or ends, and can be told again; one edit, so that the URL is cleared
  during an outage. It has one instance: that the monitor is pointed elsewhere
  under a check, the fourth cause of `PassedIsSignalled`, is left to its theorem.
- `watch_restarts`: about liveness, so one check after the other; two instances
  and one edit, so that the monitor is pointed elsewhere, switched, or loses its
  instance; two executions of each, one failed call, one restart. The same
  holds with two executions at once (1.8 million states), and on one instance
  with three executions, two failed calls and two restarts (1.1 million).
- `digests_overlap`: a window of two ticks distinguishes "within" from "after"; two
  alerts and two flushes overlap; two recurrences count, are reported and
  count again; channels start with any subset of the kinds.
- `mirror_passes`: one workflow, two contents, two syncs, which is where the race of
  two syncs on a copy is. What two workflows of one pass do to each other (one
  scenario gone stops the pass for all) is not in that instance: changing the
  configuration to two workflows and one sync (1.25 million states), or to two
  workflows, two syncs and one edit alone (1.19 million), gives the same results;
  the theorems on safety hold for any number.
- `publications_clicks`, `proposals_retries`: three workflows give a shared callee,
  a cycle and a part next to a root; two requests race; at most two events out of
  an edit, a lock, a failure and a restart (`MaxEvents`), one of each (`MaxEach`),
  so that any two of them meet. The safety theorems hold without these bounds.
- `promotions_route`: three environments are the fewest with a step to skip; two
  promotions, one after the other or overlapping, and one event of any kind
  (`Budgets`); two contents besides the absence. `Situations` has a caller with its
  callee, a URL held in between by either, a locked holder, a locked copy, a missing
  callee, in both modes of the chain.
- `costs_samples`: two instances, one of which never answers, so that a pass always
  has to go past a failure; two executions each, as many as a pass lists (`Reach`):
  the listing falls short only under a larger `MaxId`, which was checked for the
  safety properties (`MaxId = 3`); a price that is missing or 2 and a budget of 1,
  so that one row overspends; one event (`MaxEvents`) among failure, restart, edit
  and midnight, two for the safety properties alone.

### Fairness

`ErrorGroups`: a call that started goes on (weak fairness of `Continue`: an
await of the database or of the HTTP client, which has a timeout, ends) and the
drain, every five minutes, eventually picks each pending row. `ErrorWatch`: the
minutely tick, and a started check goes on. `AlertDigests`: time, handlers and
the minutely flush. `WorkflowMirror`: the hourly pass, the steps of a started
sync, and the listeners. `PublicationRuns`: as long as a call is in progress some
call goes on; nobody is obliged to click, so liveness is about a run that
advances, not about one that waits for a user. `LlmCosts`: the ticks find each
instance due again and again (strong fairness, since a tick finds it due only
when its last poll is old enough), a pass that began goes on, and an instance
that is down answers with a failure, since the HTTP client has a timeout.
Users, failures, executions and restarts are never obliged to happen, and are
bounded: liveness is about what follows the last of them. `ChatProposals` and
`Promotion` promise no progress by themselves (a failed request waits for its
user) and are checked for safety.

## 4. Proofs

All by induction: an invariant implied by `Init`, kept by each step and implying
the property. They assume the named `ASSUME`s of each module (types of the
constants, `None` distinct from every value) and, where stated, a restriction on
the constants. No bound of section 3 is assumed.

| Theorem | Property | Restriction | The invariant, and why it is needed |
|---|---|---|---|
| `ErrorGroups_proofs!TypeCorrect` | `TypeOK` | none | `TypeInv` adds what a call must hold at each label (a row from `lookup` on, a group from `grouped` on), without which no write is typed |
| `ErrorGroups_proofs!AnnouncementsTrusted` | `AnnouncedFromSettled` | none: any number of calls, prunes, restarts | `AnnounceInv`: ids are never reused (`FreshIds`), so a call that held a group deleted meanwhile cannot mark another one; a call's group has the stored signature its row object has (`OnTarget`), a row object that is not pending speaks for a settled execution (`Trusted`), and the row of an execution no other call holds is still what the call holds of it (`Faithful`) |
| `ErrorGroups_proofs!AnnouncesOnce` | `AnnouncedOnce` | none | `OnceInv`: a group told is marked, and a call that may still announce it has seen the mark if there is one, unless two calls ever had it in hand |
| `ErrorGroups_proofs!RegressionsJournaled` | `RegressionsTraced` | none | `TraceInv`: what a call still has to write of a regression is what separates the group's count, the journal and the alerts |
| `ErrorGroups_proofs!GroupsAreTrue`, `!ToldInGoodOrder` | `GroupsTrue`, `ToldInOrder` | none | `SoundInv`: the tables are wrong between two steps of a call, so each part is stated per signature, for those two calls never had in hand at once, and up to what the one call on it has left to do: a row is in the group of its signature or is being moved there (`Placed`), a count is exact or about to be recounted (`Tallied`), a group has a row or is about to be filled or deleted (`Peopled`), a settled row was told or is about to be (`Heard`); `Mirrors` and `Bearings`: what that call holds of its row and of its groups is still so, whatever the calls on other signatures did; `Advertised`: a mark follows an announcement made or about to be |
| `ErrorGroups_proofs!DetailsAreKept` | `DetailKept`, the safety half of `DetailLasts` | none | `KeptInv`: a call that asks for a detail does it for a row that still waits for one, unless two calls ever had that row in hand |
| `ErrorWatch_proofs!TypeCorrect` | `TypeOK` | none | itself |
| `ErrorWatch_proofs!WatchSignalsOnce` | refinement `AtMostOnce` | none: any number of checks and restarts | `OnceInv`: an error that was signalled and is not doubtful is behind the stored cursor or about to be (`Recorded`), and any check in progress that holds an older cursor is the one that signalled it |
| `ErrorWatch_proofs!CursorPassesNothingUntold` | `PassedIsSignalled` | none: any number of instances, checks, parallel executions, pages | `PassedInv`: an owed error not yet signalled nor overlooked is beyond the stored cursor and, for each check, still to be listed or among its fresh ids (`Waiting`, `Undecided`), with what a check may still store (`Starts`, `Hopeful`) |
| `ErrorWatch_proofs!RelayIsToldOnce` | `RelayToldOnce` | none | `RelayInv`: until a change is told astray, the alerts pending are those of the stored counter (`Balance`), but for the one check that told a change, which is alone and about to store it; a check that has not pushed holds a counter that agrees with the row's |
| `AlertDigests_proofs!TypeCorrect` | `TypeOK` | none | itself, with what a handler and a flush hold |
| `AlertDigests_proofs!DigestsAreSpaced` | `DigestsSpaced` | none | `WindowInv`: an entry is at most as old as the last digest of its group |
| `AlertDigests_proofs!ActiveProblemsCounted` | `ActiveIsCounted` | none (says nothing after a restart) | `ActiveInv`: a told group without an entry was silent for a window; an entry that counts nothing is no older than the last sign of life |
| `AlertDigests_proofs!RemindersAreRight` | `RemindersRight` | none: any number of flushes and alerts | `ToldInv`: an account of each channel and group: what the channel heard, what the buffer holds and what the flushes hold never add up to more than was counted (`Account`, a sum over the flushes, of which each step changes one term); `PathInv`: until the first edit, a group is in the buffer, or in a digest, once its alert was tried on all its channels |
| `WorkflowMirror_proofs!TypeCorrect` | `TypeOK` | none | `TypeInv`: what a sync is about to write is a content the platform gave; a copy to be flagged exists, since copies are never removed |
| `WorkflowMirror_proofs!VersionsKeepUp` | `CopiesAreVersioned` | none (says nothing after a restart) | `VersionInv`: the contents read with the copies are versioned too, and so is a content about to be written as unchanged: the change is decided before the write, on a copy another sync may replace |
| `WorkflowMirror_proofs!FlaggedIsGone` | `MissingIsGone` | none | `GoneInv`: a sync only holds workflows that existed; as long as no two syncs overlapped on Make, a copy its list lacks is gone, since no other sync adds a copy between its list and its read of the copies |
| `WorkflowMirror_proofs!FreshIsRead` | `FreshIsCurrentAlone` | none | `FreshInv`: a date always travels with a content read no earlier, in the list, in the hands of the sync and in the tables (`Tells`), and what a sync read of the copies is still so when it stores the date, since no other sync runs |
| `PublicationRuns_proofs!TypeCorrect` | `TypeOK` | what `Traversal` returns (`TraversalAssumption`) | `TypeInv`: the calls hold runs of the plan's length, one of them at most is past the guard |
| `PublicationRuns_proofs!NeverPublishedTwice`, `!OverridesJournaled` | `PublishedOnce`, `LiftsJournaled` | as above | `OnceInv`: a call about to publish has read the copy as not live and passed its lock, and nobody else publishes for the run until it has |
| `PublicationRuns_proofs!RowTellsTheTruth` | `RowIsTrue` | as above | `PlanInv`: the same holds of the run each call holds, since a call may write back an older one |
| `PublicationRuns_proofs!CalleesArePlayed` | `CalleesPlayed` | `CalleesComeFirst`: the traversal puts callees first outside a cycle | `Planned` (the plan is the traversal's, whole, whatever fails) with `PlanInv`, which keeps the row in the order of the plan |
| `PublicationRuns_proofs!StopsArePauses`, `!AbandonedForGood` | `StopIsAPauseUndisturbed`, `AbandonedPlaysNothing` | as above | `CleanInv`: as long as no request was let in beside another, one call is in progress at most and it holds the row as it is |
| `ChatProposals_proofs!TypeCorrect` | `TypeOK` | none | itself |
| `ChatProposals_proofs!PartsBeforeRoot` | `WrittenWhole` | none: any number of overlapping requests | `RowsInv`, `OrderInv`: what a request has left to write plus what was written covers the parts; a row closed as applied was written |
| `ChatProposals_proofs!NothingLost`, `!DecisionsAreFinal` | `WritesJustified`, `DecidedOnce` | none | `DecisionInv`: a workflow judged and still unedited serves the base; alone, a request that may write belongs to a pending proposal and what it has left to write is not written |
| `ChatProposals_proofs!NoBackDoorIsOpen` | `NoBackDoor` | none | `GuardInv`: past each guard, what is left to write has passed it |
| `ChatProposals_proofs!RequestsSettle` | `Settled` | none | `ClosedInv`: what is written is applied or among what a request has sent and is about to close; the parts of a closed proposal are closed or about to be discarded |
| `Promotion_proofs!TypeCorrect` | `TypeOK` | `ParksAssumption`, here and below | `TypeInv`: a promotion past its refusals has a leg to go to, one that writes knows what, one that stamps has a copy to stamp |
| `Promotion_proofs!NoTwins` | `OneCopyEach` | none | `OneInv`: a promotion about to create looked and found nothing, and nobody else creates |
| `Promotion_proofs!CallersAreComplete` | `CalleesThere` | none | `LiveInv` (a workflow that is there stays there) and `CalleesInv`: the callee is there, or among what the leg has left to write before the caller |
| `Promotion_proofs!LocksAreLifted` | `LocksHold` | none | `LocksInv`: what the rest of the route may write over was among what the check looked at |
| `Promotion_proofs!ChainIsFollowed` | `NothingSkips` | a chain of any length | `ChainInv`: the legs left are consecutive, and the content was written on the environment before the next one |
| `Promotion_proofs!NumbersNameContents` | `NumberNamesOneContent` | a chain of any length | `NumbersInv`: every number given is at most the highest of the family, a numbered snapshot is the content its number was given to, and the number a promotion holds fits what was given before (`Named`): it is new, or was read on a snapshot of the same content |
| `LlmCosts_proofs!TypeCorrect` | `TypeOK` | none | `TypeInv`: a pass that waits for its next instance has one |
| `LlmCosts_proofs!CursorHidesNothing` | `PassedIsCounted` | none: any number of overlapping passes | `CursorInv`: for the instance a pass is at, everything up to its new cursor has its row, was overlooked, or is among what it has left to open or to overlook |
| `LlmCosts_proofs!PricesAreFrozen` | `CostFrozen` | none | `PriceInv`: what a correction holds has a row, and alone, that row has no cost yet |
| `LlmCosts_proofs!OneAlertADay` | `AlertedOnce` | none | `AlertInv`: a day about to be marked is later than any marked, a day about to be told is marked and untold |

Only model-checked: the liveness properties (`DetailSettles`, the other half of
`DetailLasts`, `NoneForgotten`, `DigestsSettle`, `MirrorConverges`, `RunsStop`,
`FinishedIsSettled`, `OverspendTold`), because liveness under fairness and
`ENABLED` are beyond TLAPS; and what the recursive `Traversal` returns, because
induction over data cannot be done with the installed provers. The proofs use two
things of it. `TraversalAssumption`, its type, is an assumption of the module that
TLC evaluates. `CalleesComeFirst`, its order, is a hypothesis of `CalleesArePlayed`
alone: the five call trees of `publications_clicks` meet it, and the run would show
`CalleesPlayed` violated if the traversal did not (it does when callers are put
first). The theorem says that nothing else is asked of it: clicks, failures,
restarts and skips cannot undo the order.

No theorem restricts how many calls, checks or requests are in progress, nor the
number of restarts. Where the promise of the code stops, the property says so by a
condition on a history variable (`together`, `doubtful`, `overlooked`, `astray`,
`overlapped`, `alone`, `clean`, `Undisturbed`): two overlapping calls of the error
history on one problem do announce it twice, misplace rows and erase a fetched
detail, two checks of the watch do signal an error twice (section 3). The invariants say
nothing of what these variables name. No module declares a
`RECURSIVE` operator, which would take its SMT backend away: recursion is a
recursive function, `MinId` and `NewCursor` are `CHOOSE`s whose existence is
proved by the least and greatest number lemmas.

## 5. What is not modelled

`PROJECT.json` lists every component with its reason. In short: pure I/O and
adapters (they appear as calls that answer or fail), texts and layout, reads,
analyses of one workflow's JSON, the assistant's conversation with a language
model, CRUD of settings. These are most of the repository's lines: the web
console, the pure checks and rewrites of JSON, the HTTP clients and the prompts
have no control that an interleaving could break.

In the modelled parts: the creation and deletion of monitors, instances and
workflows in the console; the fan-out of the mirror over instances; the backfill
of the history, a loop of `upsert`; the notifier's one-shot alerts; the rewriting
of resources, credentials and names by a promotion, its preview, the duplication
and the comparison of remote tables; a publication run over several targets; how
a proposal is built and judged; the purge of old costs, their summaries, the
reading of tokens; the poll of Make by the error watch. Failures of the database
between two awaits are modelled in `PublicationRuns` and `ErrorWatch` only. Two other
places lose work to one: `notifier.service.ts:115`, where a flush drops the digests it
still holds, and `budget-alert.service.ts:69`, where the alert of the day, already
marked, never leaves. The modules are taken as enabled, though `isEnabled` may put a
stale switch into its cache (`module-registry.service.ts:40-43`).

## 6. Plan

1. `ErrorPipeline`: `ErrorWatch`, `ErrorGroups` and `AlertDigests` composed by
   their events, with the ingestion loop a lost race ends early; abstract
   promise: every error signalled is historised or can still be imported.
2. `ModuleRegistry`: the cache and the table, with the start-up order; the cache
   agrees once nothing is in progress.
3. The sampler of durations and its alert of drift, next to `LlmCosts`, of which
   it shares the cursor; an abstract cursor both implement.
4. `DomainRules`: semantic numbers, the chain of environments, the call budget of
   Make, proposal states, against reference definitions.
5. The route of several targets in `PublicationRuns`; names that carry a number
   and publication on the way in `Promotion`.
6. The search that synchronises, export clean-up, temporary test workflows.

Every invariant and action property the passing runs check is now a theorem. Proofs
to add go with the modules above: the refinement of the abstract promise of
`ErrorPipeline`, and the cursor that the sampler of durations and `LlmCosts` share.
