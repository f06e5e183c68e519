-------------------------- MODULE PublicationRuns --------------------------
(***************************************************************************)
(* "Publish like the source": PromotionPublishService                      *)
(* (apps/api/src/modules/env-switcher/promotion-publish.service.ts) over   *)
(* the run of packages/core/src/domain/n8n/publication-chain.ts.           *)
(*                                                                         *)
(* After a promotion, each promoted copy is published when its source is,  *)
(* callees first.  The run is a row: it stops, paused, at the first        *)
(* refusal, and a user resumes it, skips the refused step or abandons it.  *)
(* One call at a time advances it, which is known in memory only.          *)
(*                                                                         *)
(* One run over one target is modelled; a copy has the name of its source. *)
(* The reads of a plan are one step.  n8n, the users of n8n and those of   *)
(* the console act between any two awaits of a call.                       *)
(***************************************************************************)
EXTENDS WorkflowLocks, SequencesExt

CONSTANTS
    Calls,        \* requests on the run that may be in progress at the same time
    Trees,        \* call trees that may be promoted
    None,         \* no row yet, nothing held
    MaxEvents,    \* bound: what the users of n8n and of the locks do, failures, restarts
    MaxEach       \* bound: the same, of each kind

SourceStates == {"published", "draft", "unreadable"}

CopyStates == {"missing", "archived", "draft", "published"}

\* A call tree of the source, and what n8n serves on the target.
Tree == [root : Workflows, callees : [Workflows -> Seq(Workflows)],
         source : [Workflows -> SourceStates], copy : [Workflows -> CopyStates],
         versioned : BOOLEAN]   \* drafts are kept apart from publications

StepStates == {"pending", "done", "already", "kept-draft", "not-applicable", "failed", "skipped"}

Statuses == {"running", "paused", "done", "abandoned"}

Run == [status : Statuses, states : Seq(StepStates)]

Walk == [seen : SUBSET Workflows, paired : SUBSET Workflows, order : Seq(Workflows)]

---------------------------------------------------------------------------
(* The plan (publicationOrder, planPublicationSteps, planLeg) *)

\* Faulty variant: the callers first.
CallerFirst(order, id) == <<id>> \o order

CalleesFirst(order, id) == Append(order, id)

\* The call tree from its root, callees first: each workflow once, cycles cut,
\* the unreadable ignored.  A copy is found through the copy of its caller.
Traversal(tree) ==
    LET visit[id \in Workflows, known \in BOOLEAN, walk \in Walk] ==
            LET paired == known /\ tree.copy[id] # "missing"
                entered == [walk EXCEPT !.seen = @ \union {id},
                                        !.paired = IF paired THEN @ \union {id} ELSE @]
                below == FoldLeft(LAMBDA w, callee : visit[callee, paired, w], entered, tree.callees[id])
            IN  IF id \in walk.seen \/ tree.source[id] = "unreadable" THEN walk
                ELSE [below EXCEPT !.order = CalleesFirst(@, id)]
    IN  visit[tree.root, TRUE, [seen |-> {}, paired |-> {}, order |-> <<>>]]

ASSUME ConstantsAssumption ==
    /\ Trees \subseteq Tree
    /\ MaxEvents \in Nat /\ MaxEach \in Nat
    /\ None \notin Run

\* What the traversal of a tree returns, which is a recursive definition.
ASSUME TraversalAssumption == \A tree \in Trees : Traversal(tree) \in Walk

VARIABLES
    tree,      \* the tree promoted
    live,      \* copies published on the target
    plan,      \* the workflow of each step
    run,       \* row of table PromotionPublishRun
    running,   \* the in-memory guard: a call advances the run
    call,      \* what each call in progress holds
    ours,      \* live copies whose last publication is the run's
    again,     \* copies the run published while they were ours
    undone,    \* copies a user of n8n unpublished
    clean,     \* no call was let in while another was in progress
    events     \* how often each kind of event has happened

history == <<ours, again, undone, clean>>

vars == <<lockVars, tree, live, plan, run, running, call, history, events>>

Events == {"edit", "lock", "outage", "restart"}

Idle == [at |-> "idle", act |-> "resume", held |-> None, lifts |-> {}]

Labels == {"idle", "create", "assert", "save", "enter", "load", "lock", "read", "publish", "upsert",
           "store", "leave"}

Init ==
    /\ tree \in Trees
    /\ live = {w \in Workflows : tree.copy[w] = "published"}
    /\ plan = <<>>
    /\ run = None
    /\ running = FALSE
    /\ call = [c \in Calls |-> Idle]
    /\ locked \in SUBSET {w \in Workflows : tree.copy[w] # "missing"} /\ journal = {}
    /\ ours = {} /\ again = {} /\ undone = {} /\ clean = TRUE
    /\ events = [e \in Events |-> 0]

\* What is left to do for a copy (planPublicationSteps).
PlannedState(w) ==
    IF w \notin Traversal(tree).paired THEN "not-applicable"
    ELSE IF tree.source[w] = "draft" THEN "kept-draft"
    ELSE IF tree.copy[w] = "archived" THEN "not-applicable"
    ELSE IF w \in live THEN "already" ELSE "pending"

---------------------------------------------------------------------------
(* The run (publication-chain) *)

Pending(r) == {i \in DOMAIN r.states : r.states[i] = "pending"}

Failed(r) == {i \in DOMAIN r.states : r.states[i] = "failed"}

\* Faulty variant: whatever is not done can be resumed.
NotDone(r) == r.status # "done"

Paused(r) == r.status = "paused"

Playable(r) == r.status = "running" /\ Pending(r) # {}

\* The step to play: the first one that is pending.
Current(r) == CHOOSE i \in Pending(r) : \A j \in Pending(r) : i <= j

\* Faulty variant: the run is not ended with its last step.
Unsettled(r) == r

Settle(r) == IF r.status = "running" /\ Pending(r) = {} THEN [r EXCEPT !.status = "done"] ELSE r

RecordPublished(r, state) == Settle([r EXCEPT !.states[Current(r)] = state])

\* Faulty variant: the run goes on.
FailAndGoOn(r) == [r EXCEPT !.states[Current(r)] = "failed"]

RecordPublishFailure(r) == [r EXCEPT !.states[Current(r)] = "failed", !.status = "paused"]

Replayed(r, state) ==
    IF ~ Paused(r) THEN r
    ELSE Settle([status |-> "running",
                 states |-> [i \in DOMAIN r.states |-> IF r.states[i] = "failed" THEN state ELSE r.states[i]]])

Abandoned(r) == IF r.status = "done" THEN r ELSE [r EXCEPT !.status = "abandoned"]

Edited(act, r) ==
    CASE act = "resume"  -> Replayed(r, "pending")
      [] act = "skip"    -> Replayed(r, "skipped")
      [] act = "abandon" -> Abandoned(r)

---------------------------------------------------------------------------
(* A request: start, resume, skip, abandon *)

Step(c, job) == call' = [call EXCEPT ![c] = job]

At(c, label) == call[c].at = label

Go(c, label) == Step(c, [call[c] EXCEPT !.at = label])

Hold(c, label, r) == Step(c, [call[c] EXCEPT !.at = label, !.held = r])

Outside == UNCHANGED <<tree, live, ours, again, undone, events>>

Alone(c) == \A d \in Calls \ {c} : At(d, "idle")

Arrive(c, job) ==
    /\ At(c, "idle")
    /\ Step(c, job)
    /\ clean' = (clean /\ Alone(c))
    /\ UNCHANGED <<lockVars, plan, run, running>> /\ Outside

\* The promotion ends with the plan of its publication.
Start(c, lifts) ==
    LET order == Traversal(tree).order
        states == [i \in DOMAIN order |-> PlannedState(order[i])] IN
    /\ run = None
    /\ \A d \in Calls : At(d, "idle")
    /\ plan' = order
    /\ Step(c, [Idle EXCEPT !.at = "create", !.held = Settle([status |-> "running", states |-> states]),
                            !.lifts = lifts])
    /\ UNCHANGED <<lockVars, run, running, clean>> /\ Outside

ToAdvance(c) == Step(c, [Idle EXCEPT !.at = "enter", !.lifts = call[c].lifts])

Create(c) ==
    /\ At(c, "create")
    /\ run' = call[c].held
    /\ ToAdvance(c)
    /\ UNCHANGED <<lockVars, plan, running, clean>> /\ Outside

\* The run is read, and refused when it is not paused; nothing holds it yet.
Replay(c, act, lifts) ==
    /\ run # None
    /\ Paused(run)
    /\ Arrive(c, [at |-> IF act = "resume" THEN "assert" ELSE "save", act |-> act, held |-> run,
                  lifts |-> lifts])

Abandon(c) == run # None /\ Arrive(c, [Idle EXCEPT !.at = "save", !.act = "abandon", !.held = run])

\* The refused step must be writable, or its lock lifted by the request.
RefusedCopies(r) == {plan[i] : i \in Failed(r)}

AssertStep(c) ==
    LET ids == RefusedCopies(call[c].held) IN
    /\ At(c, "assert")
    /\ \/ AssertWritable(ids, call[c].lifts) /\ Go(c, "save")
       \/ Refused(ids, call[c].lifts) /\ Step(c, Idle)
    /\ UNCHANGED <<plan, run, running, clean>> /\ Outside

\* What was read is written back, changed.
Save(c) ==
    /\ At(c, "save")
    /\ run' = Edited(call[c].act, call[c].held)
    /\ IF call[c].act = "abandon" THEN Step(c, Idle) ELSE ToAdvance(c)
    /\ UNCHANGED <<lockVars, plan, running, clean>> /\ Outside

---------------------------------------------------------------------------
(* The steps, one by one (advance, publishStep) *)

\* Faulty variant: two calls may advance the run.
Unguarded == TRUE

Free == ~ running

Enter(c) ==
    /\ At(c, "enter")
    /\ \/ Free /\ running' = TRUE /\ Go(c, "load")
       \/ ~ Free /\ Step(c, Idle) /\ UNCHANGED running
    /\ UNCHANGED <<lockVars, plan, run, clean>> /\ Outside

Onward(c, r) == IF Playable(r) THEN Hold(c, "lock", r) ELSE Step(c, [Idle EXCEPT !.at = "leave"])

Load(c) ==
    /\ At(c, "load")
    /\ Onward(c, run)
    /\ UNCHANGED <<lockVars, plan, run, running, clean>> /\ Outside

Copy(c) == plan[Current(call[c].held)]

\* The step is settled in what the call holds, and will be stored.
Published(c, state) == Hold(c, "store", RecordPublished(call[c].held, state))

\* Faulty variant: an error counts as a success.
Swallow(c) == Published(c, "done")

Refuse(c) == Hold(c, "store", RecordPublishFailure(call[c].held))

\* A locked copy pauses the run, unless the request lifts its lock.
CheckLock(c) ==
    /\ At(c, "lock")
    /\ \/ AssertWritable({Copy(c)}, call[c].lifts) /\ Go(c, "read")
       \/ Refused({Copy(c)}, call[c].lifts) /\ Refuse(c)
    /\ UNCHANGED <<plan, run, running, clean>> /\ Outside

\* Read again just before: a user of n8n may have published it.
ReadLive(c) ==
    /\ At(c, "read")
    /\ IF Copy(c) \in live THEN Published(c, "already") ELSE Go(c, "publish")
    /\ UNCHANGED <<lockVars, plan, run, running, clean>> /\ Outside

\* n8n refuses to publish a workflow that calls a draft.
CalleesLive(w) ==
    \A v \in Range(tree.callees[w]) \ {w} : tree.copy[v] = "missing" \/ v \in live

Accepted(c) ==
    /\ live' = live \union {Copy(c)}
    /\ ours' = ours \union {Copy(c)}
    /\ again' = again \union (ours \intersect {Copy(c)})
    /\ undone' = undone \ {Copy(c)}

Publish(c) ==
    /\ At(c, "publish")
    /\ \/ /\ tree.versioned => CalleesLive(Copy(c))
          /\ Accepted(c)
          /\ Go(c, "upsert")
       \/ /\ tree.versioned /\ ~ CalleesLive(Copy(c))
          /\ Refuse(c)
          /\ UNCHANGED <<live, ours, again, undone>>
    /\ UNCHANGED <<lockVars, tree, plan, run, running, clean, events>>

\* The local copy is brought up to date.
Upsert(c) ==
    /\ At(c, "upsert")
    /\ Published(c, "done")
    /\ UNCHANGED <<lockVars, plan, run, running, clean>> /\ Outside

Store(c) ==
    /\ At(c, "store")
    /\ run' = call[c].held
    /\ Onward(c, call[c].held)
    /\ UNCHANGED <<lockVars, plan, running, clean>> /\ Outside

Leave(c) ==
    /\ At(c, "leave")
    /\ running' = FALSE
    /\ Step(c, Idle)
    /\ UNCHANGED <<lockVars, plan, run, clean>> /\ Outside

---------------------------------------------------------------------------
(* Failures *)

Happens(event) ==
    /\ events[event] < MaxEach
    /\ events.edit + events.lock + events.outage + events.restart < MaxEvents
    /\ events' = [events EXCEPT ![event] = @ + 1]

Outage ==
    /\ Happens("outage")
    /\ UNCHANGED <<lockVars, tree, plan, run, clean>>

\* n8n or the local copy cannot be reached: the refusal is recorded.
Unreachable(c) ==
    /\ call[c].at \in {"read", "publish", "upsert"}
    /\ Refuse(c)
    /\ Outage /\ UNCHANGED <<live, running, ours, again, undone>>

\* n8n publishes, and its answer is lost.
AnswerLost(c) ==
    /\ At(c, "publish")
    /\ Accepted(c)
    /\ Refuse(c)
    /\ Outage /\ UNCHANGED running

\* The instance is gone, or the database fails: the exception ends the call,
\* and the guard with it, not the run.
Throw(c) ==
    /\ call[c].at \in {"create", "assert", "save", "load", "lock", "store"}
    /\ Step(c, Idle)
    /\ running' = (running /\ ~ call[c].at \in {"load", "lock", "store"})
    /\ Outage /\ UNCHANGED <<live, ours, again, undone>>

Restart ==
    /\ Happens("restart")
    /\ call' = [c \in Calls |-> Idle]
    /\ running' = FALSE
    /\ UNCHANGED <<lockVars, tree, live, plan, run, history>>

---------------------------------------------------------------------------
(* The users *)

Copies == Range(plan)

\* A user of n8n publishes or unpublishes a copy.
EditCopy(w) ==
    /\ Happens("edit")
    /\ \/ w \notin live /\ live' = live \union {w} /\ UNCHANGED <<ours, undone>>
       \/ w \in live /\ live' = live \ {w} /\ ours' = ours \ {w} /\ undone' = undone \union {w}
    /\ UNCHANGED <<lockVars, tree, plan, run, running, call, again, clean>>

EditLock(w) ==
    /\ Happens("lock")
    /\ (w \notin locked /\ Lock(w)) \/ (w \in locked /\ Unlock(w))
    /\ UNCHANGED <<tree, live, plan, run, running, call, history>>

\* A request lifts the locks the console was refused for, those of the promotion
\* or that of the step.
Request(c) ==
    \/ \E lifts \in {{}, locked} : Start(c, lifts)
    \/ run # None /\ \E lifts \in {{}, RefusedCopies(run)} : Replay(c, "resume", lifts)
    \/ Replay(c, "skip", {})
    \/ Abandon(c)

Continue(c) ==
    \/ Create(c) \/ AssertStep(c) \/ Save(c)
    \/ Enter(c) \/ Load(c) \/ CheckLock(c) \/ ReadLive(c) \/ Publish(c) \/ Upsert(c) \/ Store(c) \/ Leave(c)

Fail(c) == Unreachable(c) \/ AnswerLost(c) \/ Throw(c)

Next ==
    \/ \E c \in Calls : Request(c) \/ Continue(c) \/ Fail(c)
    \/ \E w \in Copies : EditCopy(w) \/ EditLock(w)
    \/ Restart

Spec == Init /\ [][Next]_vars

\* As long as a call is in progress, some call goes on; nobody is obliged to
\* click.
FairSpec == Spec /\ WF_vars(\E c \in Calls : Continue(c))

---------------------------------------------------------------------------
(* Properties *)

Playing == {"lock", "read", "publish", "upsert"}

Advancers == Playing \union {"load", "store", "leave"}

\* One state for each step of the plan.
WellFormed(r) == r # None /\ DOMAIN r.states = DOMAIN plan

\* Every variable keeps its type; a call that changes or stores a run holds
\* one, one that plays a step holds a run that has it, and one at most advances.
TypeOK ==
    /\ LockTypeOK
    /\ tree \in Trees
    /\ live \subseteq Workflows
    /\ plan \in Seq(Workflows)
    /\ run \in Run \union {None}
    /\ running \in BOOLEAN
    /\ call \in [Calls -> [at : Labels, act : {"resume", "skip", "abandon"}, held : Run \union {None},
                            lifts : SUBSET Workflows]]
    /\ \A c \in Calls :
           /\ call[c].at \in {"create", "assert", "save", "store"} \union Playing => WellFormed(call[c].held)
           /\ call[c].at \in Playing => Playable(call[c].held)
           /\ call[c].at \in Advancers => running /\ run # None
    /\ \A c, d \in Calls : call[c].at \in Advancers /\ call[d].at \in Advancers => c = d
    /\ run # None => WellFormed(run)
    /\ ours \subseteq live /\ again \subseteq Workflows /\ undone \subseteq Workflows
    /\ clean \in BOOLEAN
    /\ events \in [Events -> Nat]

\* "A double click on Resume would publish twice": whatever the clicks, lost
\* answers and restarts, a copy the run published is not published by it again
\* unless a user of n8n unpublished it.
PublishedOnce == again = {}

\* A caller is not reached before what it calls: in the row, a played step has
\* no unplayed step before it.
PlayedInOrder ==
    run # None => \A i, j \in DOMAIN run.states :
        i < j /\ run.states[i] \in {"pending", "failed"} => run.states[j] \notin {"done", "failed", "skipped"}

\* The callees of a workflow, direct or not.
Reached(t, w) ==
    LET Next1(S) == S \union UNION {Range(t.callees[v]) : v \in S}
        reach[n \in Nat] == IF n = 0 THEN Range(t.callees[w]) ELSE Next1(reach[n - 1])
    IN  reach[Cardinality(Workflows)]

\* When the run has published a workflow, what it calls has been played,
\* unless the calls form a cycle.
CalleesPlayed ==
    run # None => \A i, j \in DOMAIN plan :
        /\ run.states[i] = "done"
        /\ plan[j] \in Range(tree.callees[plan[i]]) /\ plan[i] \notin Reached(tree, plan[j])
        => run.states[j] \notin {"pending", "failed"}

\* What the row calls published is published, or was unpublished since by a
\* user of n8n.
DoneIsLive ==
    run # None => \A i \in DOMAIN plan :
        run.states[i] \in {"done", "already"} => plan[i] \in live \union undone

\* The row tells the truth of what was played, and of the order it was in.
RowIsTrue == PlayedInOrder /\ DoneIsLive

\* A locked copy is published by the run only under an override, which is
\* journaled, as long as nobody changes a lock meanwhile.
LiftsJournaled == events.lock = 0 => ours \intersect locked \subseteq journal

\* No failure, no restart, and one call at a time so far.
Undisturbed == clean /\ events.outage = 0 /\ events.restart = 0

Advancing == run # None /\ run.status = "running"

\* "The stop is a persisted pause: one resumes, skips the step or abandons
\* later": a run nobody advances is not running.
StopIsAPause == (\A c \in Calls : At(c, "idle")) => ~ Advancing

\* Without a failure or a second call, it is so.
StopIsAPauseUndisturbed == Undisturbed => StopIsAPause

\* And a run that advances stops: published, refused or abandoned.
RunsStop ==
    Advancing ~> (Undisturbed => ~ Advancing)

\* "An abandoned run plays nothing any more", as long as it is abandoned alone.
AbandonedPlaysNothing == [][clean => (run # None /\ run.status = "abandoned" => UNCHANGED run /\ ours' \subseteq ours)]_vars
=============================================================================
