----------------------------- MODULE ErrorWatch -----------------------------
(***************************************************************************)
(* The error-watch monitor of an n8n instance: ErrorWatchService           *)
(* (apps/api/src/modules/monitoring/error-watch.service.ts).               *)
(*                                                                         *)
(* A check reads the monitor, pages through the failed executions of the   *)
(* instance down to the cursor, emits those of monitored environments,     *)
(* pushes the verdict to the probe and stores the new cursor.  Each await  *)
(* is a step: a check started by a tick and one started by a user, or by   *)
(* the next tick while the first one lasts, interleave.                    *)
(*                                                                         *)
(* An execution gets its id when it starts and fails later, so ids do not  *)
(* follow the order of failures.  The due date of a check (isCheckDue) is  *)
(* abstracted: a tick may find the monitor due at any time.                *)
(*                                                                         *)
(* Nothing in the code keeps two checks apart.  Three history variables,   *)
(* which no guard reads, tell by their causes the cases it does not        *)
(* master: the signals that may be repeated (doubtful), the errors passed  *)
(* over (overlooked), an alert of the relay told beside another check or   *)
(* never recorded (astray).                                                *)
(***************************************************************************)
EXTENDS Integers, FiniteSets

CONSTANTS
    Checks,       \* checks that may be in progress at the same time
    Instances,    \* instances a monitor may watch
    MaxId,        \* bound: executions of an instance
    MaxParallel,  \* executions of an instance that may run at the same time
    Monitored,    \* executions whose environment is monitored, or unknown
    PageLimit,    \* failed executions per page ("limit", 50)
    MaxPages,     \* pages read by one check (MAX_PAGES, 5)
    Threshold,    \* failed pushes before the alert (PUSH_FAILURE_THRESHOLD, 3)
    None,         \* no cursor yet: the first pass is a silent baseline
    MaxOutages,   \* bound: failed calls to the platform, the probe, the database
    MaxRestarts,  \* bound: restarts of the API process
    MaxEdits      \* bound: changes of the monitor, removals of an instance

Ids == 1..MaxId

Executions == Instances \X Ids

ASSUME ConstantsAssumption ==
    /\ Instances # {}
    /\ MaxId \in Nat /\ MaxParallel \in Nat
    /\ Monitored \subseteq Executions
    /\ PageLimit \in Nat \ {0} /\ MaxPages \in Nat \ {0} /\ Threshold \in Nat \ {0}
    /\ MaxOutages \in Nat /\ MaxRestarts \in Nat /\ MaxEdits \in Nat

ASSUME NoneAssumption == None \notin Int

VARIABLES
    status,    \* state of each execution on its platform
    existing,  \* instances that exist
    monitor,   \* row of table Monitor: config.instanceId, state, enabled, kumaPushUrl
    check,     \* what each check in progress holds
    emitted,   \* how many events carried each execution
    owed,      \* failed while the monitor watched its instance, baseline done
    relay,     \* 'relay broken' and 'relay restored' events emitted so far, and
               \* the alerts whose end nobody told, the push URL being gone
    budget,    \* what is left of the bounds
    doubtful,    \* history: signalled, perhaps without the cursor keeping it
    overlooked,  \* history: passed over, by one of the causes named below
    astray       \* history: a change of the relay met another check, or was lost

history == <<doubtful, overlooked, astray>>

vars == <<status, existing, monitor, check, emitted, owed, relay, budget, history>>

Cursors == 0..MaxId

Statuses == {"none", "running", "ok", "error"}

Monitor == [target : Instances, cursor : Cursors \union {None}, failures : Nat,
            enabled : BOOLEAN, pushUrl : BOOLEAN]

Check == [at       : {"idle", "find", "page", "decide", "push", "store"},
          target   : Instances,
          cursor   : Cursors \union {None},
          failures : Nat,
          pushUrl  : BOOLEAN,
          from     : 1..(MaxId + 1),
          pages    : Nat,
          fresh    : SUBSET Ids,
          next     : Cursors \union {None}]

AnInstance == CHOOSE i \in Instances : TRUE

Idle == [at |-> "idle", target |-> AnInstance, cursor |-> None, failures |-> 0, pushUrl |-> FALSE,
         from |-> MaxId + 1, pages |-> 0, fresh |-> {}, next |-> None]

Init ==
    /\ status = [x \in Executions |-> "none"]
    /\ existing = Instances
    /\ \E i \in Instances, linked \in BOOLEAN :
          monitor = [target |-> i, cursor |-> None, failures |-> 0,
                     enabled |-> TRUE, pushUrl |-> linked]
    /\ check = [c \in Checks |-> Idle]
    /\ emitted = [x \in Executions |-> 0]
    /\ owed = {}
    /\ relay = [broken |-> 0, restored |-> 0, dropped |-> 0]
    /\ budget = [outages |-> MaxOutages, restarts |-> MaxRestarts, edits |-> MaxEdits]
    /\ doubtful = {} /\ overlooked = {} /\ astray = FALSE

---------------------------------------------------------------------------
(* The watched platform *)

Platform == UNCHANGED <<existing, monitor, check, emitted, relay, budget, doubtful, astray>>

With(i, state) == {id \in Ids : status[<<i, id>>] = state}

\* An execution starts: it takes the next id.
Start(i, id) ==
    /\ \A k \in Ids : status[<<i, k>>] = "none" <=> k >= id
    /\ Cardinality(With(i, "running")) < MaxParallel
    /\ status' = [status EXCEPT ![<<i, id>>] = "running"]
    /\ UNCHANGED <<owed, overlooked>> /\ Platform

Succeed(i, id) ==
    /\ status[<<i, id>>] = "running"
    /\ status' = [status EXCEPT ![<<i, id>>] = "ok"]
    /\ UNCHANGED <<owed, overlooked>> /\ Platform

Watching(i) == monitor.target = i /\ monitor.cursor # None

CursorOrZero(job) == IF job.cursor = None THEN 0 ELSE job.cursor

\* This check will not list this id any more, and goes past it.
Passing(job, id) ==
    \/ id <= CursorOrZero(job)
    \/ job.at = "page" /\ job.from <= id /\ \E k \in job.fresh : id < k
    \/ job.at = "decide" /\ \E k \in job.fresh : id < k
    \/ job.next # None /\ id <= job.next

\* The stored cursor, or a check in progress, is past this id.
Late(i, id) ==
    \/ id <= CursorOrZero(monitor)
    \/ \E c \in Checks : check[c].target = i /\ Passing(check[c], id)

\* First cause of an error overlooked: it fails late.
Fail(i, id) ==
    /\ status[<<i, id>>] = "running"
    /\ status' = [status EXCEPT ![<<i, id>>] = "error"]
    /\ owed' = IF Watching(i) /\ <<i, id>> \in Monitored THEN owed \union {<<i, id>>} ELSE owed
    /\ overlooked' = IF Late(i, id) THEN overlooked \union {<<i, id>>} ELSE overlooked
    /\ Platform

Run == \E i \in Instances, id \in Ids : Start(i, id) \/ Succeed(i, id) \/ Fail(i, id)

---------------------------------------------------------------------------
(* One check *)

Outside == UNCHANGED <<status, existing, owed>>

Advance(c, job) == check' = [check EXCEPT ![c] = job]

InProgress(c) == check[c].at # "idle"

Signalled(job) == {<<job.target, id>> : id \in job.fresh} \intersect Monitored

\* What this check signalled and has not yet put behind the stored cursor.
Unrecorded(c) ==
    IF check[c].at \in {"push", "store"} /\ check[c].cursor # None THEN Signalled(check[c]) ELSE {}

\* The relay is broken, as far as this counter says.
Pending(failures) == IF failures >= Threshold THEN 1 ELSE 0

\* This check told a change of the relay the row does not know of yet.
Telling(c) == check[c].at = "store" /\ Pending(check[c].failures) # Pending(monitor.failures)

\* The monitor is read once, when the check starts.
Begin(c) ==
    /\ check[c].at = "idle"
    /\ Advance(c, [Idle EXCEPT !.at = "find", !.target = monitor.target, !.cursor = monitor.cursor,
                               !.failures = monitor.failures, !.pushUrl = monitor.pushUrl])
    /\ doubtful' = doubtful \union
          {x \in Executions : x[2] > CursorOrZero(monitor) /\ \E d \in Checks : x \in Unrecorded(d)}
    /\ astray' = (astray \/ \E d \in Checks : Telling(d))
    /\ UNCHANGED <<monitor, emitted, relay, budget, overlooked>> /\ Outside

\* The minutely tick takes the enabled monitors.
Tick(c) == monitor.enabled /\ Begin(c)

\* The button of the console checks a disabled monitor too.
CheckNow(c) == Begin(c)

\* An instance that is gone is a misconfiguration: the monitor disables itself.
FindInstance(c) ==
    /\ check[c].at = "find"
    /\ \/ /\ check[c].target \in existing
          /\ Advance(c, [check[c] EXCEPT !.at = "page"])
          /\ UNCHANGED monitor
       \/ /\ check[c].target \notin existing
          /\ monitor' = [monitor EXCEPT !.enabled = FALSE]
          /\ Advance(c, Idle)
    /\ UNCHANGED <<emitted, relay, budget, history>> /\ Outside

\* What the platform lists below an id, the most recent first.
Listing(i, from) == {id \in With(i, "error") : id < from}

\* A page of it: the highest ids, as many as a page holds.
IsPage(page, listing) ==
    /\ \A id \in page, k \in listing \ page : k < id
    /\ \/ Cardinality(page) = PageLimit
       \/ Cardinality(page) < PageLimit /\ page = listing

\* Faulty variant: the error next to the cursor counts as seen.
BeyondNext(page, cursor) == IF cursor = None THEN page ELSE {id \in page : id > cursor + 1}

Unseen(page, cursor) == IF cursor = None THEN page ELSE {id \in page : id > cursor}

PagesAllowed(cursor) == IF cursor = None THEN 1 ELSE MaxPages

IsLastAllowed(job) == job.pages + 1 = PagesAllowed(job.cursor)

\* Faulty variant: one page is always enough.
NoNextPage(job, page, listing) == TRUE

\* The already seen is reached, nothing is left, or enough pages were read.
IsLast(job, page, listing) ==
    \/ Unseen(page, job.cursor) # page
    \/ page = listing
    \/ IsLastAllowed(job)

MinId(page) == CHOOSE id \in page : \A k \in page : id <= k

\* Second cause of an error overlooked: it is beyond the last page allowed.
ReadPage(c) ==
    LET job == check[c]
        listing == Listing(job.target, job.from) IN
    /\ job.at = "page"
    /\ \E page \in SUBSET listing :
          LET read == [job EXCEPT !.fresh = @ \union Unseen(page, job.cursor)] IN
          /\ IsPage(page, listing)
          /\ overlooked' = IF IsLastAllowed(job)
                           THEN overlooked \union {<<job.target, id>> : id \in listing \ page}
                           ELSE overlooked
          /\ \/ /\ IsLast(job, page, listing)
                /\ Advance(c, [read EXCEPT !.at = "decide"])
             \/ /\ ~ IsLast(job, page, listing)
                /\ Advance(c, [read EXCEPT !.pages = @ + 1, !.from = MinId(page)])
    /\ UNCHANGED <<monitor, emitted, relay, budget, doubtful, astray>> /\ Outside

\* The platform does not answer: the cursor stays where it was.
KeepCursor(job) == [job EXCEPT !.at = "push", !.fresh = {}, !.next = job.cursor]

Unreachable(c) ==
    /\ check[c].at = "page"
    /\ budget.outages > 0
    /\ budget' = [budget EXCEPT !.outages = @ - 1]
    /\ Advance(c, KeepCursor(check[c]))
    /\ UNCHANGED <<monitor, emitted, relay, history>> /\ Outside

\* Faulty variant: the cursor does not move.
HeldCursor(job) == CursorOrZero(job)

\* The highest id seen, or the cursor when none is higher.
NewCursor(job) ==
    LET seen == job.fresh \union {CursorOrZero(job)}
    IN  CHOOSE id \in seen : \A k \in seen : k <= id

\* Another check in progress may list this execution too, or store a cursor
\* behind it.
Contested(c, x) == \E d \in Checks \ {c} : InProgress(d) /\ CursorOrZero(check[d]) < x[2]

\* The baseline is silent; so is a pass that saw nothing of its own.  Third
\* cause of an error overlooked: a baseline that began before another one ended.
Decide(c) ==
    LET job == check[c] IN
    /\ job.at = "decide"
    /\ \/ /\ job.cursor = None \/ Signalled(job) = {}
          /\ UNCHANGED <<emitted, doubtful>>
       \/ /\ job.cursor # None /\ Signalled(job) # {}
          /\ emitted' = [x \in Executions |->
                           IF x \in Signalled(job) THEN emitted[x] + 1 ELSE emitted[x]]
          /\ doubtful' = doubtful \union {x \in Signalled(job) : Contested(c, x)}
    /\ overlooked' = IF job.cursor = None
                     THEN overlooked \union {<<job.target, id>> : id \in job.fresh}
                     ELSE overlooked
    /\ Advance(c, [job EXCEPT !.at = "push", !.next = NewCursor(job)])
    /\ UNCHANGED <<monitor, relay, budget, astray>> /\ Outside

\* The verdict was pushed, or not: the check holds the counter to store.
Count(c, failures) ==
    /\ check[c].at = "push"
    /\ Advance(c, [check[c] EXCEPT !.at = "store", !.failures = failures])
    /\ astray' = \/ astray
                 \/ /\ Pending(failures) # Pending(monitor.failures)
                    /\ \E d \in Checks \ {c} : InProgress(d)
    /\ UNCHANGED <<monitor, emitted, doubtful, overlooked>> /\ Outside

\* Faulty variant: every failure from the threshold on alerts.
StillBroken(failures) == failures >= Threshold

Breaks(failures) == failures = Threshold

\* The verdict goes to the probe: the alert leaves when the number of
\* consecutive failures reaches the threshold, the relief when a push passes.
PushFails(c) ==
    LET failures == check[c].failures + 1 IN
    /\ check[c].pushUrl
    /\ budget.outages > 0
    /\ budget' = [budget EXCEPT !.outages = @ - 1]
    /\ relay' = IF Breaks(failures) THEN [relay EXCEPT !.broken = @ + 1] ELSE relay
    /\ Count(c, failures)

PushPasses(c) ==
    /\ check[c].pushUrl
    /\ relay' = IF check[c].failures >= Threshold
                THEN [relay EXCEPT !.restored = @ + 1] ELSE relay
    /\ Count(c, 0)
    /\ UNCHANGED budget

\* Without a push URL the counter goes back to zero and no relief is told.
SkipPush(c) ==
    /\ ~ check[c].pushUrl
    /\ relay' = IF check[c].failures >= Threshold
                THEN [relay EXCEPT !.dropped = @ + 1] ELSE relay
    /\ Count(c, 0)
    /\ UNCHANGED budget

Push(c) == PushPasses(c) \/ SkipPush(c)

\* Fourth cause of an error overlooked: the check of another instance moves
\* the cursor, when the monitor was pointed elsewhere meanwhile.
Store(c) ==
    LET job == check[c] IN
    /\ job.at = "store"
    /\ monitor' = [monitor EXCEPT !.cursor = job.next, !.failures = job.failures]
    /\ overlooked' = overlooked \union
          {x \in Executions : x[1] # job.target /\ job.next # None /\ x[2] <= job.next}
    /\ Advance(c, Idle)
    /\ UNCHANGED <<emitted, relay, budget, doubtful, astray>> /\ Outside

\* The next await is a call to the database: the listing and the push are
\* caught, and a silent pass reads no environment.
InDatabase(job) ==
    \/ job.at \in {"find", "store"}
    \/ job.at = "decide" /\ job.cursor # None /\ job.fresh # {}

\* It fails: the check ends there and stores nothing.
Throw(c) ==
    /\ InDatabase(check[c])
    /\ budget.outages > 0
    /\ budget' = [budget EXCEPT !.outages = @ - 1]
    /\ Advance(c, Idle)
    /\ doubtful' = doubtful \union Unrecorded(c)
    /\ astray' = (astray \/ Telling(c))
    /\ UNCHANGED <<monitor, emitted, relay, overlooked>> /\ Outside

Continue(c) == FindInstance(c) \/ ReadPage(c) \/ Decide(c) \/ Push(c) \/ Store(c)

Work(c) == Tick(c) \/ CheckNow(c) \/ Continue(c) \/ Unreachable(c) \/ PushFails(c) \/ Throw(c)

---------------------------------------------------------------------------
(* Users and restarts *)

Edited(row) ==
    /\ budget.edits > 0
    /\ budget' = [budget EXCEPT !.edits = @ - 1]
    /\ monitor' = row
    /\ UNCHANGED <<status, check, emitted, owed, relay, history>>

\* The configuration points to another instance: the state column stays.
Retarget(i) ==
    /\ i # monitor.target
    /\ Edited([monitor EXCEPT !.target = i])
    /\ UNCHANGED existing

\* The monitor is enabled or disabled by hand.
Switch ==
    /\ Edited([monitor EXCEPT !.enabled = ~ @])
    /\ UNCHANGED existing

\* The push URL is given or cleared: the counter of failures stays.
Relink ==
    /\ Edited([monitor EXCEPT !.pushUrl = ~ @])
    /\ UNCHANGED existing

RemoveInstance(i) ==
    /\ i \in existing
    /\ existing' = existing \ {i}
    /\ Edited(monitor)

\* Every check in progress is lost, what it emitted is not.
Restart ==
    /\ budget.restarts > 0
    /\ budget' = [budget EXCEPT !.restarts = @ - 1]
    /\ check' = [c \in Checks |-> Idle]
    /\ doubtful' = doubtful \union UNION {Unrecorded(c) : c \in Checks}
    /\ astray' = (astray \/ \E c \in Checks : Telling(c))
    /\ UNCHANGED <<status, existing, monitor, emitted, owed, relay, overlooked>>

User == Switch \/ Relink \/ \E i \in Instances : Retarget(i) \/ RemoveInstance(i)

Next == Run \/ (\E c \in Checks : Work(c)) \/ User \/ Restart

Spec == Init /\ [][Next]_vars

\* The tick comes back every minute and a started check goes on; nothing
\* obliges an execution to end, a user to act or a call to fail.
Fairness == \A c \in Checks : WF_vars(Tick(c)) /\ WF_vars(Continue(c))

FairSpec == Spec /\ Fairness

---------------------------------------------------------------------------
(* Properties *)

\* Every variable keeps its type: a check holds a cursor and pages the
\* platform can have given it.
TypeOK ==
    /\ status \in [Executions -> Statuses]
    /\ existing \subseteq Instances
    /\ monitor \in Monitor
    /\ check \in [Checks -> Check]
    /\ emitted \in [Executions -> Nat]
    /\ owed \subseteq Executions
    /\ relay \in [broken : Nat, restored : Nat, dropped : Nat]
    /\ budget \in [outages : Nat, restarts : Nat, edits : Nat]
    /\ doubtful \subseteq Executions
    /\ overlooked \subseteq Executions
    /\ astray \in BOOLEAN

\* The cursor never passes an error of a monitored environment without its
\* having been signalled: what failed while the monitor watched and has an id
\* up to the stored cursor was emitted.  (The code breaks it.)
SeenIsSignalled ==
    \A x \in owed : (x[1] = monitor.target /\ monitor.cursor # None /\ x[2] <= monitor.cursor)
                    => emitted[x] > 0

\* Whatever checks overlap, fail or are cut short, the cursor passes an error
\* the monitor owed only if it was signalled, or for one of four reasons: it
\* failed once the cursor or a check was past it, it was beyond the last page
\* a check may read, a belated baseline took it for old, or the check of
\* another instance moved the cursor.
PassedIsSignalled ==
    \A x \in owed \ overlooked : x[2] <= CursorOrZero(monitor) => emitted[x] > 0

\* One alert per outage of the probe, and one end of it: between two checks,
\* an alert is pending exactly when the stored counter has reached the
\* threshold, unless its end went untold because the push URL was cleared.  It
\* holds until a change of the relay is told beside another check in progress,
\* or by a check that never stored it.
RelayToldOnce ==
    (~ astray /\ \A c \in Checks : ~ InProgress(c)) =>
        relay.broken = relay.restored + relay.dropped + Pending(monitor.failures)

\* No tick looks for it any more: the monitor is disabled or points elsewhere.
Unwatched == {x \in Executions : ~ monitor.enabled \/ x[1] # monitor.target}

Promise == INSTANCE ExactlyOnce WITH
    Items    <- Executions,
    failed   <- {x \in Executions : status[x] = "error"},
    due      <- owed,
    signals  <- emitted,
    doubtful <- doubtful,
    released <- overlooked \union Unwatched

\* An error that fails while the monitor watches is signalled sooner or later,
\* whatever the restarts, the failed calls and the edits, unless it was passed
\* over for one of the four reasons or the monitor stopped watching meanwhile.
NoneForgotten == Promise!AllSignalled

\* Each error is signalled only after it failed, and signalled again only when
\* the check that signalled it met another one whose cursor was behind it, or
\* was cut before it stored the cursor.
AtMostOnce == Promise!Spec
=============================================================================
