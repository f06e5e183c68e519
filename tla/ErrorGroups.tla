---------------------------- MODULE ErrorGroups ----------------------------
(***************************************************************************)
(* How failed executions become "problems": ErrorGroupService              *)
(* (apps/api/src/modules/monitoring/error-group.service.ts) and the part   *)
(* of ErrorHistoryService that feeds it (error-history.service.ts).        *)
(*                                                                         *)
(* A row is a historised execution, a group the problem its signature puts *)
(* it in.  Every `await` of the code is a step of its own, so that several *)
(* asynchronous calls (ingestion, the detail drain and its four lanes, a   *)
(* detail opened in the console, the regrouping, the nightly prune)        *)
(* interleave as they do in the Node process, on one shared database.      *)
(*                                                                         *)
(* One instance and one workflow are modelled: the signature of a row is   *)
(* then its error detail, NoDetail standing for the provisional signature  *)
(* "(no detail)".  Labels, samples, categories and the first/last dates    *)
(* are left out: no step reads them.                                       *)
(***************************************************************************)
EXTENDS Integers, FiniteSets

CONSTANTS
    Executions,   \* failed executions the platform may report
    Workers,      \* concurrent asynchronous calls of the API process
    Details,      \* error details, NoDetail included
    NoDetail,     \* the detail is unknown: not fetched yet, or never to come
    DetailOf,     \* [Executions -> Details], what the platform would answer
    StartedAt,    \* [Executions -> Nat], start date of the execution
    None,         \* absent row, group or reference (SQL NULL)
    MaxGroups,    \* bound: groups ever created
    MaxClock,     \* bound: dates
    MaxActions,   \* bound: user actions on groups
    MaxPrunes,    \* bound: runs of the nightly prune
    MaxRestarts   \* bound: restarts of the API process

ASSUME WorkersAssumption == IsFiniteSet(Workers)

ASSUME ConstantsAssumption ==
    /\ IsFiniteSet(Executions)
    /\ NoDetail \in Details
    /\ DetailOf \in [Executions -> Details]
    /\ StartedAt \in [Executions -> Nat]
    /\ MaxGroups \in Nat
    /\ MaxClock \in Nat
    /\ MaxActions \in Nat
    /\ MaxPrunes \in Nat
    /\ MaxRestarts \in Nat

GroupIds == 1..MaxGroups

Row == [detailState : {"pending", "fetched", "unavailable"},
        detail      : Details,
        groupId     : GroupIds \union {None}]

Group == [signature   : Details,
          status      : {"open", "resolved", "ignored"},
          notified    : BOOLEAN,
          resolvedAt  : Nat,
          occurrences : Nat,
          regressions : Nat]

\* A reference that points nowhere is no group, and no record of a table.
ASSUME NoneAssumption ==
    /\ None \notin GroupIds
    /\ None \notin Executions
    /\ None \notin Row
    /\ None \notin Group

VARIABLES
    rows,         \* table ExecutionError, by execution (unique in an instance)
    pruned,       \* executions whose row the nightly prune deleted
    groups,       \* table ErrorGroup, by id
    journal,      \* 'regression' entries of the group's journal, by group id
    nextGroup,    \* ids 1..nextGroup-1 were given out, and never again
    clock,        \* the current date
    pc,           \* where each asynchronous call is suspended
    job,          \* what each call holds in its local variables
    prune,        \* the nightly prune: where it is, groups left to recount
    opened,       \* 'new problem' events emitted so far, by group id
    recurred,     \* 'recurrence' events emitted so far, by group id
    regressed,    \* 'regression' events emitted so far, by group id
    budget,       \* what is left of the bounds
    together      \* history: rows, groups and signatures that two calls handled
                  \* at once so far; no step of the program reads it

alerts == <<opened, recurred, regressed>>

core == <<rows, pruned, groups, journal, nextGroup, clock, pc, job, prune, alerts, budget>>

vars == <<core, together>>

Labels == {"idle", "insert", "call", "lookup", "create", "reread", "grouped",
           "countPrevious", "applyPrevious", "count", "apply", "alert",
           "journal", "emitOpened", "emitRegressed"}

\* Inside assign(), and past its choice of a group.
Assigning == Labels \ {"idle", "insert", "call"}

Grouping == Assigning \ {"lookup", "create", "reread"}

\* The columns of a group that assign() reads again after an await.
Snapshot(group) == [status     |-> group.status,
                    notified   |-> group.notified,
                    resolvedAt |-> group.resolvedAt]

Seen == [status : {"open", "resolved", "ignored"}, notified : BOOLEAN, resolvedAt : Nat]

\* A call at rest holds nothing.
NoJob == [exec |-> None, row |-> None, gid |-> None, seen |-> None, total |-> 0]

Job == [exec  : Executions \union {None},
        row   : Row \union {None},
        gid   : GroupIds \union {None},
        seen  : Seen \union {None},
        total : Nat]

NoPrune == [at |-> "idle", left |-> {}, gid |-> None, total |-> 0]

Live == {g \in GroupIds : groups[g] # None}

Members(g) == {e \in Executions : rows[e] # None /\ rows[e].groupId = g}

Init ==
    /\ rows = [e \in Executions |-> None]
    /\ pruned = {}
    /\ groups = [g \in GroupIds |-> None]
    /\ journal = [g \in GroupIds |-> 0]
    /\ nextGroup = 1
    /\ clock = 0
    /\ pc = [w \in Workers |-> "idle"]
    /\ job = [w \in Workers |-> NoJob]
    /\ prune = NoPrune
    /\ opened = [g \in GroupIds |-> 0]
    /\ recurred = [g \in GroupIds |-> 0]
    /\ regressed = [g \in GroupIds |-> 0]
    /\ budget = [actions |-> MaxActions, prunes |-> MaxPrunes, restarts |-> MaxRestarts]
    /\ together = [rows |-> {}, groups |-> {}, signatures |-> {}]

---------------------------------------------------------------------------
(* Control of an asynchronous call *)

Goto(w, label) == pc' = [pc EXCEPT ![w] = label]

\* The call returns, or an exception it lets through ends it.
Finish(w) ==
    /\ pc' = [pc EXCEPT ![w] = "idle"]
    /\ job' = [job EXCEPT ![w] = NoJob]

\* What no step of assign() touches.
Outside == UNCHANGED <<pruned, clock, prune, budget>>

---------------------------------------------------------------------------
(* ErrorHistoryService: upsert, fetchDetail, regroup *)

\* upsert: the execution is not historised yet.  What the prune deletes is a
\* year old, and no platform reports it any more.
Ingest(w, e) ==
    /\ pc[w] = "idle"
    /\ rows[e] = None /\ e \notin pruned
    /\ StartedAt[e] <= clock
    /\ Goto(w, "insert")
    /\ job' = [job EXCEPT ![w].exec = e]
    /\ UNCHANGED <<rows, groups, journal, nextGroup, alerts>> /\ Outside

NewRow == [detailState |-> "pending", detail |-> NoDetail, groupId |-> None]

\* upsert: the row is created, then assigned on the little that is known.
Insert(w) ==
    LET e == job[w].exec IN
    /\ pc[w] = "insert"
    /\ \/ /\ rows[e] = None /\ e \notin pruned
          /\ rows' = [rows EXCEPT ![e] = NewRow]
          /\ job' = [job EXCEPT ![w].row = NewRow]
          /\ Goto(w, "lookup")
       \/ \* another call historised it since: unique constraint, the call fails
          /\ rows[e] # None \/ e \in pruned
          /\ Finish(w)
          /\ UNCHANGED rows
    /\ UNCHANGED <<groups, journal, nextGroup, alerts>> /\ Outside

DetailWanted(row) == row.detailState = "pending"

\* The eager fetch, the drain, the console or the bulk catch-up picks a row
\* whose detail is pending.
Pick(w, e) ==
    /\ pc[w] = "idle"
    /\ rows[e] # None
    /\ DetailWanted(rows[e])
    /\ Goto(w, "call")
    /\ job' = [job EXCEPT ![w].exec = e]
    /\ UNCHANGED <<rows, groups, journal, nextGroup, alerts>> /\ Outside

\* The platform answered d: the detail replaces whatever the row had.
Answered(row, d) ==
    [row EXCEPT !.detailState = IF d = NoDetail THEN "unavailable" ELSE "fetched",
                !.detail = d]

\* Faulty variant: a failure tried again for ever.
FailedSilently(row) == row

\* The platform call failed: only the state of the row moves.
Failed(row) == [row EXCEPT !.detailState = "unavailable"]

\* fetchDetail: the platform answers with the detail, with nothing (the
\* execution was purged or holds no error) or fails; the row is updated and
\* assigned again.
FetchDetail(w) ==
    LET e == job[w].exec IN
    /\ pc[w] = "call"
    /\ \/ /\ rows[e] # None
          /\ \E row \in {Answered(rows[e], DetailOf[e]), Answered(rows[e], NoDetail),
                         Failed(rows[e])} :
                /\ rows' = [rows EXCEPT ![e] = row]
                /\ job' = [job EXCEPT ![w].row = row]
          /\ Goto(w, "lookup")
       \/ \* pruned since: both updates fail
          /\ rows[e] = None
          /\ Finish(w)
          /\ UNCHANGED rows
    /\ UNCHANGED <<groups, journal, nextGroup, alerts>> /\ Outside

\* regroup: a row without a group is assigned.
Regroup(w, e) ==
    /\ pc[w] = "idle"
    /\ rows[e] # None
    /\ rows[e].groupId = None
    /\ Goto(w, "lookup")
    /\ job' = [job EXCEPT ![w].exec = e, ![w].row = rows[e]]
    /\ UNCHANGED <<rows, groups, journal, nextGroup, alerts>> /\ Outside

---------------------------------------------------------------------------
(* ErrorGroupService.assign(row) *)

Signed(d) == {g \in Live : groups[g].signature = d}

\* The call now holds the group as it just read it.
Hold(w, g, group) ==
    job' = [job EXCEPT ![w].gid = g, ![w].seen = Snapshot(group), ![w].total = 0]

Forget(w) == job' = [job EXCEPT ![w].total = 0]

\* findUnique on the signature.
Lookup(w) ==
    /\ pc[w] = "lookup"
    /\ \/ /\ \E g \in Signed(job[w].row.detail) : Hold(w, g, groups[g])
          /\ Goto(w, "grouped")
       \/ /\ Signed(job[w].row.detail) = {}
          /\ Goto(w, "create")
          /\ UNCHANGED job
    /\ UNCHANGED <<rows, groups, journal, nextGroup, alerts>> /\ Outside

NewGroup(d) == [signature |-> d, status |-> "open", notified |-> FALSE,
                resolvedAt |-> 0, occurrences |-> 0, regressions |-> 0]

\* create, or the loser of the race reads the winner's group.
Create(w) ==
    LET d == job[w].row.detail IN
    /\ pc[w] = "create"
    /\ \/ /\ Signed(d) = {}
          /\ nextGroup \in GroupIds
          /\ groups' = [groups EXCEPT ![nextGroup] = NewGroup(d)]
          /\ nextGroup' = nextGroup + 1
          /\ Hold(w, nextGroup, NewGroup(d))
          /\ Goto(w, "grouped")
       \/ /\ Signed(d) # {}
          /\ Goto(w, "reread")
          /\ UNCHANGED <<groups, nextGroup, job>>
    /\ UNCHANGED <<rows, journal, alerts>> /\ Outside

\* findUniqueOrThrow: the winner's group may be gone already.
Reread(w) ==
    /\ pc[w] = "reread"
    /\ \/ /\ \E g \in Signed(job[w].row.detail) : Hold(w, g, groups[g])
          /\ Goto(w, "grouped")
       \/ /\ Signed(job[w].row.detail) = {}
          /\ Finish(w)
    /\ UNCHANGED <<rows, groups, journal, nextGroup, alerts>> /\ Outside

IsNewOccurrence(w) == job[w].row.groupId # job[w].gid

\* Same group as before: nothing to recount, the announcement may be due.
SameGroup(w) ==
    /\ pc[w] = "grouped"
    /\ ~ IsNewOccurrence(w)
    /\ Goto(w, "alert")
    /\ UNCHANGED <<rows, groups, journal, nextGroup, job, alerts>> /\ Outside

\* Faulty variant: the group the row leaves is not recounted.
OnlyNewGroup(previous) == "count"

AfterAttach(previous) == IF previous = None THEN "count" ELSE "countPrevious"

\* The row joins its group; fails when the row or the group is gone.
Attach(w) ==
    LET e == job[w].exec
        g == job[w].gid IN
    /\ pc[w] = "grouped"
    /\ IsNewOccurrence(w)
    /\ \/ /\ rows[e] # None /\ g \in Live
          /\ rows' = [rows EXCEPT ![e].groupId = g]
          /\ Goto(w, AfterAttach(job[w].row.groupId))
          /\ UNCHANGED job
       \/ /\ rows[e] = None \/ g \notin Live
          /\ Finish(w)
          /\ UNCHANGED rows
    /\ UNCHANGED <<groups, journal, nextGroup, alerts>> /\ Outside

---------------------------------------------------------------------------
(* recount(groupId): an aggregate, then a write of what it returned *)

\* The group has no occurrence left: it goes with its journal, and the rows
\* that point to it lose their group (onDelete: SetNull).
DeleteGroup(g) ==
    /\ groups' = [groups EXCEPT ![g] = None]
    /\ journal' = [journal EXCEPT ![g] = 0]
    /\ rows' = [e \in Executions |->
                  IF e \in Members(g) THEN [rows[e] EXCEPT !.groupId = None] ELSE rows[e]]

StoreCount(g, total) ==
    /\ groups' = [groups EXCEPT ![g].occurrences = total]
    /\ UNCHANGED <<rows, journal>>

Aggregate(w, g) == job' = [job EXCEPT ![w].total = Cardinality(Members(g))]

CountPrevious(w) ==
    /\ pc[w] = "countPrevious"
    /\ Aggregate(w, job[w].row.groupId)
    /\ Goto(w, "applyPrevious")
    /\ UNCHANGED <<rows, groups, journal, nextGroup, alerts>> /\ Outside

ApplyPrevious(w) ==
    LET g == job[w].row.groupId IN
    /\ pc[w] = "applyPrevious"
    /\ \/ /\ job[w].total = 0
          /\ DeleteGroup(g)
          /\ Goto(w, "count") /\ Forget(w)
       \/ /\ job[w].total > 0 /\ g \in Live
          /\ StoreCount(g, job[w].total)
          /\ Goto(w, "count") /\ Forget(w)
       \/ \* the update throws: the group was deleted since the aggregate
          /\ job[w].total > 0 /\ g \notin Live
          /\ Finish(w)
          /\ UNCHANGED <<rows, groups, journal>>
    /\ UNCHANGED <<nextGroup, alerts>> /\ Outside

Count(w) ==
    /\ pc[w] = "count"
    /\ Aggregate(w, job[w].gid)
    /\ Goto(w, "apply")
    /\ UNCHANGED <<rows, groups, journal, nextGroup, alerts>> /\ Outside

\* The updated group is what the rest of assign() works on; when the recount
\* deleted it, the group read at the start is.
Apply(w) ==
    LET g == job[w].gid IN
    /\ pc[w] = "apply"
    /\ \/ /\ job[w].total = 0
          /\ DeleteGroup(g)
          /\ Goto(w, "alert") /\ Forget(w)
       \/ /\ job[w].total > 0 /\ g \in Live
          /\ StoreCount(g, job[w].total)
          /\ Hold(w, g, groups[g])
          /\ Goto(w, "alert")
       \/ /\ job[w].total > 0 /\ g \notin Live
          /\ Finish(w)
          /\ UNCHANGED <<rows, groups, journal>>
    /\ UNCHANGED <<nextGroup, alerts>> /\ Outside

---------------------------------------------------------------------------
(* handleRegression and announce *)

\* Decided on the group this call holds, not on the database's.
Regresses(w) ==
    /\ IsNewOccurrence(w)
    /\ job[w].seen.status = "resolved"
    /\ StartedAt[job[w].exec] > job[w].seen.resolvedAt

\* A later error reopens a resolved group.
ReopenRegressed(w) ==
    LET g == job[w].gid IN
    /\ pc[w] = "alert"
    /\ Regresses(w)
    /\ \/ /\ g \in Live
          /\ groups' = [groups EXCEPT ![g].status = "open", ![g].regressions = @ + 1]
          /\ Goto(w, "journal") /\ UNCHANGED job
       \/ /\ g \notin Live
          /\ Finish(w) /\ UNCHANGED groups
    /\ UNCHANGED <<rows, journal, nextGroup, alerts>> /\ Outside

\* Faulty variant: the alert leaves without the journal entry.
AlertUnjournaled(w) ==
    /\ pc[w] = "journal"
    /\ Goto(w, "emitRegressed")
    /\ UNCHANGED <<rows, groups, journal, nextGroup, job, alerts>> /\ Outside

JournalRegression(w) ==
    LET g == job[w].gid IN
    /\ pc[w] = "journal"
    /\ \/ /\ g \in Live
          /\ journal' = [journal EXCEPT ![g] = @ + 1]
          /\ Goto(w, "emitRegressed") /\ UNCHANGED job
       \/ /\ g \notin Live
          /\ Finish(w) /\ UNCHANGED journal
    /\ UNCHANGED <<rows, groups, nextGroup, alerts>> /\ Outside

EmitRegressed(w) ==
    /\ pc[w] = "emitRegressed"
    /\ regressed' = [regressed EXCEPT ![job[w].gid] = @ + 1]
    /\ Finish(w)
    /\ UNCHANGED <<rows, groups, journal, nextGroup, opened, recurred>> /\ Outside

\* Faulty variants: a group whose first detail is missing is never announced;
\* provisional groups are.
HasNoDetail(row) == row.detail = NoDetail
NeverProvisional(row) == FALSE

Announced(w) == job[w].seen.notified

Provisional(row) == row.detailState = "pending"

\* The group was announced before: a new occurrence of an open problem recurs.
Recur(w) ==
    /\ pc[w] = "alert"
    /\ ~ Regresses(w)
    /\ Announced(w)
    /\ \/ /\ IsNewOccurrence(w) /\ job[w].seen.status = "open"
          /\ recurred' = [recurred EXCEPT ![job[w].gid] = @ + 1]
       \/ /\ ~ (IsNewOccurrence(w) /\ job[w].seen.status = "open")
          /\ UNCHANGED recurred
    /\ Finish(w)
    /\ UNCHANGED <<rows, groups, journal, nextGroup, opened, regressed>> /\ Outside

\* No alert on a provisional signature.
HoldBack(w) ==
    /\ pc[w] = "alert"
    /\ ~ Regresses(w)
    /\ ~ Announced(w)
    /\ Provisional(job[w].row)
    /\ Finish(w)
    /\ UNCHANGED <<rows, groups, journal, nextGroup, alerts>> /\ Outside

\* Faulty variant: the date of the announcement is not stored.
Unmarked(group) == group

Notified(group) == [group EXCEPT !.notified = TRUE]

MarkNotified(w) ==
    LET g == job[w].gid IN
    /\ pc[w] = "alert"
    /\ ~ Regresses(w)
    /\ ~ Announced(w)
    /\ ~ Provisional(job[w].row)
    /\ \/ /\ g \in Live
          /\ groups' = [groups EXCEPT ![g] = Notified(groups[g])]
          /\ Goto(w, "emitOpened") /\ UNCHANGED job
       \/ /\ g \notin Live
          /\ Finish(w) /\ UNCHANGED groups
    /\ UNCHANGED <<rows, journal, nextGroup, alerts>> /\ Outside

EmitOpened(w) ==
    /\ pc[w] = "emitOpened"
    /\ opened' = [opened EXCEPT ![job[w].gid] = @ + 1]
    /\ Finish(w)
    /\ UNCHANGED <<rows, groups, journal, nextGroup, recurred, regressed>> /\ Outside

---------------------------------------------------------------------------
(* The console: resolve, reopen, ignore *)

Transition(g, group) ==
    /\ budget.actions > 0
    /\ budget' = [budget EXCEPT !.actions = @ - 1]
    /\ g \in Live
    /\ groups' = [groups EXCEPT ![g] = group]
    /\ UNCHANGED <<rows, pruned, journal, nextGroup, clock, pc, job, prune, alerts>>

Resolve(g) == Transition(g, [groups[g] EXCEPT !.status = "resolved", !.resolvedAt = clock])

Reopen(g) == Transition(g, [groups[g] EXCEPT !.status = "open"])

Ignore(g) == Transition(g, [groups[g] EXCEPT !.status = "ignored"])

---------------------------------------------------------------------------
(* ErrorHistoryService.prune *)

\* The rows older than the cut-off go; nothing more happens when none was.
PruneRows ==
    /\ prune.at = "idle"
    /\ budget.prunes > 0
    /\ budget' = [budget EXCEPT !.prunes = @ - 1]
    /\ \E cutoff \in 1..clock :
          LET old == {e \in Executions : rows[e] # None /\ StartedAt[e] < cutoff} IN
          /\ rows' = [e \in Executions |-> IF e \in old THEN None ELSE rows[e]]
          /\ pruned' = pruned \union old
          /\ prune' = IF old = {} THEN prune ELSE [prune EXCEPT !.at = "list"]
    /\ UNCHANGED <<groups, journal, nextGroup, clock, pc, job, alerts>>

PruneStep(next) ==
    /\ prune' = next
    /\ UNCHANGED <<pruned, nextGroup, clock, pc, job, alerts, budget>>

PruneList ==
    /\ prune.at = "list"
    /\ PruneStep([prune EXCEPT !.at = "count", !.left = Live])
    /\ UNCHANGED <<rows, groups, journal>>

PruneCount ==
    /\ prune.at = "count"
    /\ \E g \in prune.left :
          PruneStep([at |-> "apply", left |-> prune.left \ {g}, gid |-> g,
                     total |-> Cardinality(Members(g))])
    /\ UNCHANGED <<rows, groups, journal>>

\* A group deleted since the aggregate is skipped (the error is caught).
PruneApply ==
    /\ prune.at = "apply"
    /\ PruneStep([prune EXCEPT !.at = "count", !.gid = None, !.total = 0])
    /\ \/ /\ prune.total = 0
          /\ DeleteGroup(prune.gid)
       \/ /\ prune.total > 0 /\ prune.gid \in Live
          /\ StoreCount(prune.gid, prune.total)
       \/ /\ prune.total > 0 /\ prune.gid \notin Live
          /\ UNCHANGED <<rows, groups, journal>>

PruneEnd ==
    /\ prune.at = "count" /\ prune.left = {}
    /\ PruneStep(NoPrune)
    /\ UNCHANGED <<rows, groups, journal>>

Prune == PruneRows \/ PruneList \/ PruneCount \/ PruneApply \/ PruneEnd

---------------------------------------------------------------------------
(* Time and restarts *)

Tick ==
    /\ clock < MaxClock
    /\ clock' = clock + 1
    /\ UNCHANGED <<rows, pruned, groups, journal, nextGroup, pc, job, prune, alerts, budget>>

\* The process stops and starts again: every call in flight is lost.
Restart ==
    /\ budget.restarts > 0
    /\ budget' = [budget EXCEPT !.restarts = @ - 1]
    /\ pc' = [w \in Workers |-> "idle"]
    /\ job' = [w \in Workers |-> NoJob]
    /\ prune' = NoPrune
    /\ UNCHANGED <<rows, pruned, groups, journal, nextGroup, clock, alerts>>

---------------------------------------------------------------------------
(* History: what two calls had in hand at once *)

HandlesRow(w, e) == pc[w] # "idle" /\ job[w].exec = e

HandlesGroup(w, g) == pc[w] \in Grouping /\ job[w].gid = g

\* A call handles the signature its row carries, and that of the group the row
\* leaves while that group exists.
HandlesSignature(w, d) ==
    /\ pc[w] \in Assigning
    /\ \/ job[w].row.detail = d
       \/ \E g \in Live : job[w].row.groupId = g /\ groups[g].signature = d

SameRow(v, w) == \E e \in Executions : HandlesRow(v, e) /\ HandlesRow(w, e)

\* Two calls on one signature, or one on it and the other on the same row.
Clash(d) ==
    \E v \in Workers : \E w \in Workers \ {v} :
        HandlesSignature(v, d) /\ (HandlesSignature(w, d) \/ SameRow(v, w))

\* The recount of the group a row leaves fails, for another call deleted that
\* group since: assign() stops before it recounts and tells the new one.
CutShort(d) ==
    \E w \in Workers : HandlesSignature(w, d) /\ pc[w] = "applyPrevious" /\ pc'[w] = "idle"

Remember ==
    together' =
        [rows       |-> together.rows \union
                        {e \in Executions : \E v \in Workers : \E w \in Workers \ {v} :
                            (HandlesRow(v, e) /\ HandlesRow(w, e))'},
         groups     |-> together.groups \union
                        {g \in GroupIds : \E v \in Workers : \E w \in Workers \ {v} :
                            (HandlesGroup(v, g) /\ HandlesGroup(w, g))'},
         signatures |-> together.signatures \union {d \in Details : Clash(d)' \/ CutShort(d)}]

---------------------------------------------------------------------------
(* Specification *)

\* What a call does once it started.
Continue(w) ==
    \/ Insert(w) \/ FetchDetail(w)
    \/ Lookup(w) \/ Create(w) \/ Reread(w) \/ SameGroup(w) \/ Attach(w)
    \/ CountPrevious(w) \/ ApplyPrevious(w) \/ Count(w) \/ Apply(w)
    \/ ReopenRegressed(w) \/ JournalRegression(w) \/ EmitRegressed(w)
    \/ Recur(w) \/ HoldBack(w) \/ MarkNotified(w) \/ EmitOpened(w)

Work(w) ==
    \/ \E e \in Executions : Ingest(w, e) \/ Pick(w, e) \/ Regroup(w, e)
    \/ Continue(w)

User == \E g \in GroupIds : Resolve(g) \/ Reopen(g) \/ Ignore(g)

Next ==
    /\ (\E w \in Workers : Work(w)) \/ User \/ Prune \/ Tick \/ Restart
    /\ Remember

Spec == Init /\ [][Next]_vars

\* A call that started is scheduled again when its await completes, and the
\* drain runs every five minutes; nothing obliges the platform to report an
\* error, a user to act, or the process to restart.
Fairness ==
    /\ \A w \in Workers : WF_core(Continue(w))
    /\ \A e \in Executions : WF_core(\E w \in Workers : Pick(w, e))

FairSpec == Spec /\ Fairness

---------------------------------------------------------------------------
(* Properties *)

\* Every variable keeps its type: the tables hold rows and groups, and a call
\* only ever refers to what the database gave it.
CoreTypeOK ==
    /\ rows \in [Executions -> Row \union {None}]
    /\ pruned \subseteq Executions
    /\ groups \in [GroupIds -> Group \union {None}]
    /\ journal \in [GroupIds -> Nat]
    /\ nextGroup \in 1..(MaxGroups + 1)
    /\ clock \in Nat
    /\ pc \in [Workers -> Labels]
    /\ job \in [Workers -> Job]
    /\ prune \in [at : {"idle", "list", "count", "apply"}, left : SUBSET GroupIds,
                  gid : GroupIds \union {None}, total : Nat]
    /\ opened \in [GroupIds -> Nat]
    /\ recurred \in [GroupIds -> Nat]
    /\ regressed \in [GroupIds -> Nat]
    /\ budget \in [actions : Nat, prunes : Nat, restarts : Nat]

TypeOK ==
    /\ CoreTypeOK
    /\ together \in [rows : SUBSET Executions, groups : SUBSET GroupIds,
                     signatures : SUBSET Details]

\* No call in flight: the state a reader of the console finds.
Quiet == (\A w \in Workers : pc[w] = "idle") /\ prune.at = "idle"

\* No restart and no prune so far.
Undisturbed == budget.restarts = MaxRestarts /\ budget.prunes = MaxPrunes

Settled(e) == rows[e] # None /\ rows[e].detailState # "pending"

\* A row ends up in the group of its own signature: the detail that arrives
\* late moves it there, unless a restart or the prune cuts the call short.
RowsSorted ==
    Quiet /\ Undisturbed => \A e \in Executions :
               rows[e] # None => /\ rows[e].groupId \in Live
                                 /\ groups[rows[e].groupId].signature = rows[e].detail

\* No two calls handled the signature at once, and none was cut short on it.
Apart(d) == d \notin together.signatures

\* What the tables of problems say is true once nothing is in flight: each row
\* is in the group of its signature, each group counts the rows it holds and
\* none is empty, for every signature whose calls came one after the other,
\* however many calls worked on the others meanwhile.
GroupsTrue ==
    Quiet /\ Undisturbed =>
        /\ \A e \in Executions : rows[e] # None /\ Apart(rows[e].detail) =>
               /\ rows[e].groupId \in Live
               /\ groups[rows[e].groupId].signature = rows[e].detail
        /\ \A g \in Live : Apart(groups[g].signature) =>
               /\ groups[g].occurrences = Cardinality(Members(g))
               /\ Members(g) # {}

\* A problem is announced once ("one alert, not fifty"), unless two calls were
\* at work on its group at once: both may have read that nobody had been told.
AnnouncedOnce == \A g \in GroupIds \ together.groups : opened[g] <= 1

\* No row whose detail settled is left in a problem nobody was told about, when
\* the calls on its signature came one after the other and none was lost.
SettledIsTold ==
    Quiet /\ Undisturbed => \A e \in Executions :
               Settled(e) /\ Apart(rows[e].detail) =>
                   LET g == rows[e].groupId IN g \in Live /\ opened[g] + regressed[g] > 0

\* The call that announces a group does it for an execution whose detail is
\* settled (or that the prune took meanwhile), never on the provisional
\* "(no detail)" of a pending one; and that execution is one of the group,
\* under the group's signature, unless another call had its row in hand too.
AnnouncedFromSettled ==
    \A w \in Workers : pc[w] = "emitOpened" =>
        LET e == job[w].exec
            g == job[w].gid IN
        /\ Settled(e) \/ e \in pruned
        /\ g \in Live /\ e \notin pruned \union together.rows =>
               rows[e].groupId = g /\ rows[e].detail = groups[g].signature

\* The journal keeps the trace of a regression before anyone is alerted of
\* it, and the group counts it before the journal does.
RegressionsTraced ==
    \A g \in Live : /\ regressed[g] <= journal[g]
                    /\ journal[g] <= groups[g].regressions

\* An alert of recurrence follows the announcement it recalls, when no restart
\* came in between and no two calls were at work on the group at once.
RecurredAfterOpened ==
    budget.restarts = MaxRestarts =>
        \A g \in GroupIds \ together.groups : recurred[g] > 0 => opened[g] > 0

\* A problem whose detail settled is told, and told before it is recalled.
ToldInOrder == SettledIsTold /\ RecurredAfterOpened

\* Once fetched, a detail is kept: it is the cache of what the platform may
\* have purged since.  Two calls on one row may ask twice, and the second
\* answer replaces the first.
DetailKept ==
    [][\A e \in Executions \ together.rows :
         (rows[e] # None /\ rows[e].detailState = "fetched" /\ rows'[e] # None)
         => rows'[e].detail = rows[e].detail]_vars

\* A detail the platform may purge is not waited for: every pending row is
\* settled, or pruned.
DetailSettles ==
    \A e \in Executions :
        (rows[e] # None) ~> (e \in pruned \/ Settled(e))

\* A detail the platform may purge is waited for neither in vain nor twice: it
\* is settled, and once fetched it stays.
DetailLasts == DetailKept /\ DetailSettles
=============================================================================
