------------------------------ MODULE LlmCosts ------------------------------
(***************************************************************************)
(* The sampler of AI costs and the alert of the daily budget               *)
(* (apps/api/src/modules/ai-cost: LlmUsageSamplerService,                  *)
(* BudgetAlertService, AiCostService.priceMissing).                        *)
(*                                                                         *)
(* A pass takes the instances one after the other: it lists the executions *)
(* above the cursor, opens those of the workflows that call a model,       *)
(* stores what they consumed at the price of the day, then moves the       *)
(* cursor.  It ends with the check of the budget.  A tick every minute and *)
(* a button start passes, and nothing keeps two of them apart.             *)
(*                                                                         *)
(* Abstracted: an execution makes one call to one model, so it has one row *)
(* of LlmUsage and its cost is the price of that model; the executions     *)
(* that call none, or whose workflow the mirror misses, are Foreign.  The  *)
(* pages of the listing, the mirror and the catalogue are read in one      *)
(* step, before the first row is written.  The module stays enabled, the   *)
(* purge of the rows of last year is left out.                             *)
(***************************************************************************)
EXTENDS Integers, FiniteSets, Functions

CONSTANTS
    Ticks,        \* passes of the cron that may be in progress at the same time
    Samples,      \* forced passes (the button) that may be in progress
    Fixers,       \* requests "apply-missing" that may be in progress
    Instances,
    Down,         \* instances that never answer
    Foreign,      \* executions of workflows the catalog knows no model in
    MaxId,        \* bound: executions of an instance
    Reach,        \* executions one pass lists at most (MAX_PAGES * PAGE_SIZE)
    MaxDays,      \* bound: days
    Tariffs,      \* prices of the model, 0 when the catalogue lacks it
    Budgets,      \* daily budgets, 0 for none
    MaxEvents     \* bound: failed calls elsewhere, restarts, edits, midnights

Polls == Ticks \union Samples

Ids == 1..MaxId

Days == 1..MaxDays

Executions == Instances \X Ids

ASSUME ConstantsAssumption ==
    /\ Instances # {} /\ IsFiniteSet(Instances)
    /\ Foreign \subseteq Executions
    /\ MaxId \in Nat /\ MaxDays \in Nat \ {0} /\ Reach \in Nat \ {0}
    /\ Tariffs \subseteq Nat /\ 0 \in Tariffs
    /\ Budgets \subseteq Nat /\ 0 \in Budgets
    /\ MaxEvents \in Nat

VARIABLES
    status,      \* state of each execution on its platform
    day,         \* day each execution started (UTC)
    today,       \* the date (UTC)
    catalog,     \* price of the model today
    rows,        \* executions with a row in LlmUsage
    cost,        \* costUsd of that row, 0 for null
    cursor,      \* LlmUsageCursor.lastSeenExecutionId, 0 for null
    settings,    \* AiCostSettings: the budget, the day of the last alert
    poll,        \* what each pass in progress holds
    fixer,       \* what each request "apply-missing" holds
    told,        \* 'budget exceeded' events emitted for each day
    overlooked,  \* executions a cursor passed without opening them
    lost,        \* days whose alert a restart took away
    crossed,     \* two requests "apply-missing", two checks were in progress
    events       \* what is left of MaxEvents

platform == <<status, day, today>>
usage    == <<rows, cost>>
done     == <<cursor, overlooked>>
alerts   == <<settings, told, lost>>
vars == <<platform, catalog, usage, done, alerts, poll, fixer, crossed, events>>

Statuses == {"none", "running", "finished"}

Poll == [at      : {"idle", "next", "ingest", "check", "mark", "emit"},
         left    : SUBSET Instances,
         target  : Instances,
         high    : 0..MaxId,
         todo    : SUBSET Ids,
         skipped : SUBSET Ids,
         tariff  : Tariffs,
         day     : Days]

Fixer == [todo : SUBSET Executions, tariff : Tariffs]

AnInstance == CHOOSE i \in Instances : TRUE

IdlePoll == [at |-> "idle", left |-> {}, target |-> AnInstance,
             high |-> 0, todo |-> {}, skipped |-> {}, tariff |-> 0, day |-> 1]

IdleFixer == [todo |-> {}, tariff |-> 0]

Init ==
    /\ status = [x \in Executions |-> "none"]
    /\ day = [x \in Executions |-> 1]
    /\ today = 1
    /\ catalog \in Tariffs
    /\ rows = {} /\ cost = [x \in Executions |-> 0]
    /\ cursor = [i \in Instances |-> 0]
    /\ overlooked = {} /\ lost = {}
    /\ settings \in [budget : Budgets, lastAlerted : {0}]
    /\ told = [d \in Days |-> 0]
    /\ poll = [p \in Polls |-> IdlePoll]
    /\ fixer = [f \in Fixers |-> IdleFixer]
    /\ crossed = [fixes |-> FALSE, checks |-> FALSE]
    /\ events = MaxEvents

---------------------------------------------------------------------------
(* The platforms and the clock *)

Outside == UNCHANGED <<catalog, usage, done, alerts, poll, fixer, crossed, events>>

\* An execution starts: it takes the next id of its instance.
Start(i, id) ==
    /\ i \notin Down
    /\ \A k \in Ids : status[<<i, k>>] = "none" <=> k >= id
    /\ status' = [status EXCEPT ![<<i, id>>] = "running"]
    /\ day' = [day EXCEPT ![<<i, id>>] = today]
    /\ UNCHANGED today /\ Outside

Finish(x) ==
    /\ status[x] = "running"
    /\ status' = [status EXCEPT ![x] = "finished"]
    /\ UNCHANGED <<day, today>> /\ Outside

Midnight ==
    /\ today < MaxDays /\ events > 0
    /\ today' = today + 1 /\ events' = events - 1
    /\ UNCHANGED <<status, day, catalog, usage, done, alerts, poll, fixer, crossed>>

Outer == \/ \E i \in Instances, id \in Ids : Start(i, id)
         \/ \E x \in Executions : Finish(x)
         \/ Midnight

---------------------------------------------------------------------------
(* A pass over the instances *)

Advance(p, job) == poll' = [poll EXCEPT ![p] = job]

Begin(p, due) ==
    /\ poll[p].at = "idle"
    /\ Advance(p, [IdlePoll EXCEPT !.at = "next", !.left = due])
    /\ UNCHANGED <<platform, catalog, usage, done, alerts, fixer, crossed, events>>

\* The minutely tick takes the instances that are due; without any it ends.
Tick(p, due) == p \in Ticks /\ due # {} /\ Begin(p, due)

Sample(p) == p \in Samples /\ Begin(p, Instances)

\* Faulty variant: the execution next to the cursor counts as seen.
BeyondNext(p, i) == IF cursor[i] = 0 THEN 0 ELSE cursor[i] + 1

\* Forced on an instance without a row, the pass starts over from a baseline.
FirstUnseen(p, i) ==
    IF p \in Samples /\ \A x \in rows : x[1] # i THEN 0 ELSE cursor[i]

Above(i, from) == {id \in Ids : id > from /\ status[<<i, id>>] # "none"}

Newer(i, id) == {k \in Ids : k > id /\ status[<<i, k>>] # "none"}

\* What the platform lists above an id: the latest Reach executions.
Listing(i, from) == {id \in Above(i, from) : Cardinality(Newer(i, id)) < Reach}

Legible(i, id) == status[<<i, id>>] = "finished" /\ <<i, id>> \notin Foreign

\* Those whose consumption can be read: finished, of a workflow with a model.
ToInspect(i, from) == {id \in Listing(i, from) : Legible(i, id)}

\* What the pass cannot open: running, of an unknown workflow, beyond the pages.
OutOfSight(i, from) ==
    {id \in Above(i, from) : ~ Legible(i, id) \/ Cardinality(Newer(i, id)) >= Reach}

\* The order of the table: fixed, nothing says which.
First(left) == CHOOSE i \in left : TRUE

Latest(ids, id) == id \in ids /\ \A k \in ids : k <= id

\* The cursor is read, then the listing, the mirror and the catalogue.
List(p) ==
    LET job == poll[p] IN
    /\ job.at = "next"
    /\ \E i \in {First(job.left)} \ Down, high \in 0..MaxId :
          LET from == FirstUnseen(p, i) IN
          /\ Latest(Listing(i, from) \union {from}, high)
          /\ Advance(p, [job EXCEPT !.at = "ingest", !.left = @ \ {i}, !.target = i,
                                    !.high = high, !.tariff = catalog,
                                    !.todo = ToInspect(i, from),
                                    !.skipped = OutOfSight(i, from)])
    /\ UNCHANGED <<platform, catalog, usage, done, alerts, fixer, crossed, events>>

\* Faulty variant: the first failure ends the pass.
EndPass(left) == [IdlePoll EXCEPT !.at = "check"]

\* The budget is checked after the last instance, whether it answered or not.
NextInstance(left) ==
    IF left = {} THEN [IdlePoll EXCEPT !.at = "check"]
    ELSE [IdlePoll EXCEPT !.at = "next", !.left = left]

MayFail(i) == IF i \in Down THEN UNCHANGED events ELSE events > 0 /\ events' = events - 1

\* A call fails: the cursor stays, the pass goes on with the next instance.
Unreachable(p) ==
    LET job == poll[p] IN
    /\ \/ /\ job.at = "next"
          /\ \E i \in {First(job.left)} :
                /\ MayFail(i)
                /\ Advance(p, NextInstance(job.left \ {i}))
       \/ /\ job.at = "ingest" /\ job.todo # {}
          /\ MayFail(job.target)
          /\ Advance(p, NextInstance(job.left))
    /\ UNCHANGED <<platform, catalog, usage, done, alerts, fixer, crossed>>

\* Faulty variant: a row already there is written again.
Upsert(x, tariff) ==
    /\ rows' = rows \union {x}
    /\ cost' = [cost EXCEPT ![x] = tariff]

\* The rows of an execution are inserted at the price read with the listing;
\* those already there are left as they are (skipDuplicates).
Insert(x, tariff) ==
    /\ rows' = rows \union {x}
    /\ cost' = IF x \in rows THEN cost ELSE [cost EXCEPT ![x] = tariff]

Ingest(p) ==
    LET job == poll[p] IN
    /\ job.at = "ingest"
    /\ \E id \in job.todo :
          /\ Latest(job.todo, id)
          /\ Insert(<<job.target, id>>, job.tariff)
          /\ Advance(p, [job EXCEPT !.todo = @ \ {id}])
    /\ UNCHANGED <<platform, catalog, done, alerts, fixer, crossed, events>>

Store(p) ==
    LET job == poll[p] IN
    /\ job.at = "ingest" /\ job.todo = {}
    /\ cursor' = [cursor EXCEPT ![job.target] = job.high]
    /\ overlooked' = overlooked \union ({job.target} \X job.skipped)
    /\ Advance(p, NextInstance(job.left))
    /\ UNCHANGED <<platform, catalog, usage, alerts, fixer, crossed, events>>

---------------------------------------------------------------------------
(* The check of the budget *)

\* Costs of the executions that started on a day or later; an unpriced row
\* weighs nothing.
SpentSince(from) ==
    SumFunctionOnSet(cost, {x \in rows : day[x] >= from})

Over(d, allowed) == allowed # 0 /\ SpentSince(d) > allowed

Marking == {p \in Polls : poll[p].at = "mark"}

\* Faulty variant: the alert leaves once, not once a day.
CheckOnce(p) ==
    LET due == settings.lastAlerted = 0 /\ Over(today, settings.budget) IN
    /\ poll[p].at = "check"
    /\ Advance(p, IF due THEN [poll[p] EXCEPT !.at = "mark", !.day = today] ELSE IdlePoll)
    /\ UNCHANGED <<platform, catalog, usage, done, alerts, fixer, crossed, events>>

\* The check stops without a budget, under it, or when the alert of the day
\* has left.
Check(p) ==
    LET job == poll[p]
        due == settings.lastAlerted # today /\ Over(today, settings.budget) IN
    /\ job.at = "check"
    /\ Advance(p, IF due THEN [job EXCEPT !.at = "mark", !.day = today] ELSE IdlePoll)
    /\ crossed' = [crossed EXCEPT !.checks = @ \/ (due /\ Marking # {})]
    /\ UNCHANGED <<platform, catalog, usage, done, alerts, fixer, events>>

\* Faulty variant: the day is not stored.
MarkNothing(p) ==
    /\ poll[p].at = "mark"
    /\ Advance(p, [poll[p] EXCEPT !.at = "emit"])
    /\ UNCHANGED <<platform, catalog, usage, done, alerts, fixer, crossed, events>>

\* The day is marked before the event leaves.
Mark(p) ==
    LET job == poll[p] IN
    /\ job.at = "mark"
    /\ settings' = [settings EXCEPT !.lastAlerted = job.day]
    /\ Advance(p, [job EXCEPT !.at = "emit"])
    /\ UNCHANGED <<platform, catalog, usage, done, told, lost, fixer, crossed, events>>

Emit(p) ==
    LET job == poll[p] IN
    /\ job.at = "emit"
    /\ told' = [told EXCEPT ![job.day] = @ + 1]
    /\ Advance(p, IdlePoll)
    /\ UNCHANGED <<platform, catalog, usage, done, settings, lost, fixer, crossed, events>>

Continue(p) == List(p) \/ Ingest(p) \/ Store(p)
               \/ Check(p) \/ Mark(p) \/ Emit(p)

\* An instance that is down answers every call of a pass with a failure.
Pass(p) == (\E due \in SUBSET Instances : Tick(p, due)) \/ Sample(p) \/ Continue(p) \/ Unreachable(p)

---------------------------------------------------------------------------
(* Users and restarts *)

Edit ==
    /\ events > 0
    /\ events' = events - 1
    /\ UNCHANGED <<platform, usage, done, told, lost, poll, fixer, crossed>>

SetBudget(b) ==
    /\ settings' = [settings EXCEPT !.budget = b]
    /\ UNCHANGED catalog /\ Edit

SetTariff(t) ==
    /\ catalog' = t
    /\ UNCHANGED settings /\ Edit

Unpriced == {x \in rows : cost[x] = 0}

Fixing == {f \in Fixers : fixer[f].todo # {}}

\* "Apply to the calls without a cost": the catalogue, then the rows are read.
FixBegin(f) ==
    /\ fixer[f].todo = {} /\ catalog # 0 /\ Unpriced # {}
    /\ fixer' = [fixer EXCEPT ![f] = [todo |-> Unpriced, tariff |-> catalog]]
    /\ crossed' = [crossed EXCEPT !.fixes = @ \/ Fixing # {}]
    /\ UNCHANGED <<platform, catalog, usage, done, alerts, poll, events>>

\* Each row read is updated by its id, whatever its cost has become.
Fix(f, x) ==
    LET left == fixer[f].todo \ {x} IN
    /\ x \in fixer[f].todo
    /\ cost' = [cost EXCEPT ![x] = fixer[f].tariff]
    /\ fixer' = [fixer EXCEPT ![f] = IF left = {} THEN IdleFixer
                                     ELSE [todo |-> left, tariff |-> fixer[f].tariff]]
    /\ UNCHANGED <<platform, catalog, rows, done, alerts, poll, crossed, events>>

Restart ==
    /\ events > 0
    /\ events' = events - 1
    /\ poll' = [p \in Polls |-> IdlePoll]
    /\ fixer' = [f \in Fixers |-> IdleFixer]
    /\ lost' = lost \union {poll[p].day : p \in {q \in Polls : poll[q].at = "emit"}}
    /\ UNCHANGED <<platform, catalog, usage, done, settings, told, crossed>>

User == \/ \E b \in Budgets : SetBudget(b)
        \/ \E t \in Tariffs : SetTariff(t)
        \/ \E f \in Fixers : FixBegin(f) \/ \E x \in Executions : Fix(f, x)

Next == Outer \/ (\E p \in Polls : Pass(p)) \/ User \/ Restart

Spec == Init /\ [][Next]_vars

\* The ticks find each instance due again and again, a pass that began goes
\* on, an instance that is down answers with a failure.  Nothing obliges an
\* execution to end, a user to act or another call to fail.
Fairness ==
    /\ \A p \in Ticks, i \in Instances :
          SF_vars(\E due \in SUBSET Instances : i \in due /\ Tick(p, due))
    /\ \A p \in Polls : WF_vars(Continue(p) \/ (Unreachable(p) /\ UNCHANGED events))

FairSpec == Spec /\ Fairness

---------------------------------------------------------------------------
(* Properties *)

\* Every variable keeps its type.
TypeOK ==
    /\ status \in [Executions -> Statuses]
    /\ day \in [Executions -> Days]
    /\ today \in Days
    /\ catalog \in Tariffs
    /\ rows \subseteq Executions /\ cost \in [Executions -> Tariffs]
    /\ cursor \in [Instances -> 0..MaxId]
    /\ overlooked \subseteq Executions /\ lost \subseteq Days
    /\ settings \in [budget : Budgets, lastAlerted : Days \union {0}]
    /\ told \in [Days -> Nat]
    /\ poll \in [Polls -> Poll]
    /\ fixer \in [Fixers -> Fixer]
    /\ crossed \in [fixes : BOOLEAN, checks : BOOLEAN]
    /\ events \in Nat

\* The cursor hides no consumption it could have read: an execution it passed
\* has its row, unless a pass saw it running, of an unknown workflow, or did
\* not reach it.  Failed calls, restarts and overlapping passes hide nothing.
PassedIsCounted ==
    \A x \in Executions : x[2] <= cursor[x[1]] => x \in rows \union overlooked

\* "Costs already computed stay frozen": the price of a row never changes once
\* it has one, as long as no two "apply-missing" were in progress at a time.
CostFrozen ==
    [][~ crossed.fixes => \A x \in rows : cost[x] # 0 => cost'[x] = cost[x]]_vars

\* One alert a day, across restarts too, unless two checks were in progress
\* at a time.
AlertedOnce == ~ crossed.checks => \A d \in Days : told[d] <= 1

\* An execution that finished ends up counted or passed over, whatever
\* instance is down meanwhile.
FinishedIsSettled ==
    []<>(\A x \in Executions : status[x] = "finished" => x \in rows \union overlooked)

\* A day whose cost stays over the budget is told, unless a restart takes the
\* alert away between the mark and the event.
OverspendTold ==
    <>[]Over(today, settings.budget) => []<>(told[today] > 0 \/ today \in lost)
=============================================================================
