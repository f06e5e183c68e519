--------------------------- MODULE WorkflowMirror ---------------------------
(***************************************************************************)
(* The local copy of the workflows of an instance: WorkflowSyncService     *)
(* (apps/api/src/modules/workflows/workflow-sync.service.ts), and the      *)
(* snapshots VersioningService takes of what the copy receives             *)
(* (apps/api/src/modules/versioning/versioning.service.ts).                *)
(*                                                                         *)
(* A pass copies every workflow of the instance (hourly cron, button,      *)
(* search without result); a click copies one.  n8n gives the contents     *)
(* with the list, and the copies its list lacks are asked for one by one.  *)
(* Make only gives a date with the list: a content is asked for when the   *)
(* date moved since the last read (lastChangedAt, in memory).              *)
(*                                                                         *)
(* Each await is a step, what follows a write runs with it.  A content is  *)
(* a value that stands for its hash; names, tags, estimates are left out.  *)
(* The versioning module is enabled.                                       *)
(***************************************************************************)
EXTENDS Integers, FiniteSets

CONSTANTS
    Workflows,   \* workflows of the instance
    Contents,    \* contents of a workflow, equal when their hashes are
    Syncs,       \* passes and clicks that may be in progress at the same time
    None,        \* no copy, no known date, nothing in hand
    MaxEdits,    \* bound: changes made on the platform
    MaxClicks,   \* bound: single workflows synchronised
    MaxOutages,  \* bound: calls to the platform that fail
    MaxRestarts  \* bound: restarts of the API process

Platforms == {"n8n", "make"}

Dates == Nat

\* A workflow on its platform: hidden from the list, or gone for good.
Upstream == [state : {"none", "listed", "hidden", "gone"}, content : Contents, date : Dates]

\* A row of table Workflow: hash and raw, missingUpstreamAt.
Copy == [content : Contents, missing : BOOLEAN]

\* What a pass or a click in progress holds.
Job == [at      : {"idle", "listed", "locals", "absent", "scenarios", "get", "find",
                   "upsert", "flag", "unlisted"},
        phase   : {"listed", "absent", "scenarios"},
        listing : [Workflows -> Upstream \union {None}],
        locals  : [Workflows -> Copy \union {None}],
        left    : SUBSET Workflows,
        item    : Workflows \union {None},
        payload : Contents \union {None},
        date    : Dates,
        changed : BOOLEAN]

ASSUME ConstantsAssumption ==
    /\ Contents # {}
    /\ MaxEdits \in Nat /\ MaxClicks \in Nat /\ MaxOutages \in Nat /\ MaxRestarts \in Nat

ASSUME NoneAssumption == None \notin Upstream \union Copy \union Workflows \union Contents \union Int

VARIABLES
    platform,    \* platform of the instance
    upstream,    \* the workflows on their platform
    mirror,      \* the local copies
    known,       \* lastChangedAt, by workflow
    versions,    \* the snapshots: which content was versioned for which workflow
    pending,     \* snapshots being taken (workflow.synced events handled)
    sync,        \* the passes and clicks in progress
    overlapped,  \* a sync was started while another one was in progress
    budget       \* what is left of the bounds

vars == <<platform, upstream, mirror, known, versions, pending, sync, overlapped, budget>>

Nothing == [w \in Workflows |-> None]

Idle == [at |-> "idle", phase |-> "absent", listing |-> Nothing, locals |-> Nothing, left |-> {},
         item |-> None, payload |-> None, date |-> 0, changed |-> FALSE]

Init ==
    /\ platform \in Platforms
    /\ upstream \in [Workflows -> [state : {"none", "listed"}, content : Contents, date : {0}]]
    /\ mirror = Nothing
    /\ known = Nothing
    /\ versions = {} /\ pending = {}
    /\ sync = [j \in Syncs |-> Idle]
    /\ overlapped = FALSE
    /\ budget = [edits |-> MaxEdits, clicks |-> MaxClicks,
                 outages |-> MaxOutages, restarts |-> MaxRestarts]

---------------------------------------------------------------------------
(* The users of the platform *)

Edited(w, workflow) ==
    /\ budget.edits > 0
    /\ budget' = [budget EXCEPT !.edits = @ - 1]
    /\ upstream' = [upstream EXCEPT ![w] = workflow]
    /\ UNCHANGED <<platform, mirror, known, versions, pending, sync, overlapped>>

Exists(w) == upstream[w].state \in {"listed", "hidden"}

Create(w, content) ==
    /\ upstream[w].state = "none"
    /\ Edited(w, [upstream[w] EXCEPT !.state = "listed", !.content = content])

Change(w, content) ==
    /\ Exists(w) /\ content # upstream[w].content
    /\ Edited(w, [upstream[w] EXCEPT !.content = content, !.date = @ + 1])

\* Archived in n8n, whose list may leave the archived out; a scenario that is
\* not in the list of Make is in its bin.
Hide(w) ==
    /\ platform = "n8n" /\ upstream[w].state = "listed"
    /\ Edited(w, [upstream[w] EXCEPT !.state = "hidden"])

Delete(w) ==
    /\ Exists(w)
    /\ Edited(w, [upstream[w] EXCEPT !.state = "gone"])

Users == \E w \in Workflows :
            \/ Hide(w) \/ Delete(w)
            \/ \E content \in Contents : Create(w, content) \/ Change(w, content)

---------------------------------------------------------------------------
(* A pass begins (syncInstance, syncPlatformInstance) *)

Outside == UNCHANGED <<platform, upstream, versions>>

\* The copies a list of Make did not give.
Missing(job) == {w \in Workflows : job.locals[w] # None /\ job.listing[w] = None}

\* What a job does before its next await: nothing is left to copy, it flags what
\* the list of Make did not give; nothing is left at all, it ends.
Onward(job) ==
    LET unlisted == [job EXCEPT !.at = "unlisted", !.left = Missing(job)] IN
    IF job.left # {} \/ job.at \notin {"absent", "scenarios", "unlisted"} THEN job
    ELSE IF job.at = "scenarios" /\ Missing(job) # {} THEN unlisted ELSE Idle

Become(j, job) == sync' = [sync EXCEPT ![j] = Onward(job)]

Begin(j, job) ==
    /\ sync[j].at = "idle"
    /\ Become(j, job)
    /\ overlapped' = (overlapped \/ \E k \in Syncs : sync[k].at # "idle")
    /\ UNCHANGED <<mirror, known, pending>> /\ Outside

Listed == {w \in Workflows : upstream[w].state = "listed"}

\* The list is read; when the call fails nothing happens.
List(j) ==
    /\ Begin(j, [Idle EXCEPT !.at = IF platform = "n8n" THEN "listed" ELSE "locals",
                             !.phase = IF platform = "n8n" THEN "listed" ELSE "scenarios",
                             !.listing = [w \in Workflows |-> IF w \in Listed THEN upstream[w] ELSE None],
                             !.left = Listed])
    /\ UNCHANGED budget

\* Faulty variant: nobody asks for the copies the list lacks.
NoneAbsent(job) == {}

\* The copies the list lacks.
Absent(job) == {w \in Workflows : mirror[w] # None /\ job.listing[w] = None}

\* n8n: the list is done (reconcileAbsent).  Make: the copies are read first.
ReadLocals(j) ==
    LET job == sync[j] IN
    /\ \/ /\ job.at = "listed" /\ job.left = {}
          /\ Become(j, [job EXCEPT !.at = "absent", !.phase = "absent",
                                   !.listing = Nothing,
                                   !.locals = mirror, !.left = Absent(job)])
       \/ /\ job.at = "locals"
          /\ Become(j, [job EXCEPT !.at = "scenarios", !.locals = mirror])
    /\ UNCHANGED <<mirror, known, pending, overlapped, budget>> /\ Outside

---------------------------------------------------------------------------
(* One workflow at a time (upsertWorkflow, syncWorkflow, reconcileAbsent) *)

\* A user synchronises one workflow: as if it were the only absent one.
Click(j, w) ==
    /\ mirror[w] # None
    /\ budget.clicks > 0
    /\ budget' = [budget EXCEPT !.clicks = @ - 1]
    /\ Begin(j, [Idle EXCEPT !.at = "absent", !.left = {w}, !.locals = mirror])

\* Faulty variant: what the list lacks counts as gone.
NotListed(w) == upstream[w].state # "listed"

NotFound(w) == ~ Exists(w)

\* The pass leaves alone a copy it read as flagged; a click on Make flags anyway.
LeftAlone(job, w) == platform = "n8n" /\ job.locals[w].missing

\* A copy is asked for on its own: updated, or flagged.
Ask(j) ==
    LET job == sync[j] IN
    /\ job.at = "absent"
    /\ \E w \in job.left :
          LET next == [job EXCEPT !.left = @ \ {w}] IN
          \/ /\ ~ NotFound(w)
             /\ Become(j, [next EXCEPT !.at = "find", !.item = w, !.payload = upstream[w].content,
                                       !.date = upstream[w].date])
          \/ /\ NotFound(w) /\ LeftAlone(job, w)
             /\ Become(j, next)
          \/ /\ NotFound(w) /\ ~ LeftAlone(job, w)
             /\ Become(j, [next EXCEPT !.at = "flag", !.item = w])
    /\ UNCHANGED <<mirror, known, pending, overlapped, budget>> /\ Outside

\* Faulty variant: the first copy of a workflow does not count as a change.
Differs(copy, content) == copy # None /\ copy.content # content

HashChanged(copy, content) == copy = None \/ copy.content # content

\* upsertWorkflow compares what was listed, or asked for, with the copy it finds...
Find(j) ==
    LET job == sync[j]
        Found(w, content) == [job EXCEPT !.at = "upsert", !.left = @ \ {w}, !.item = w, !.payload = content,
                                         !.changed = HashChanged(mirror[w], content)] IN
    /\ \/ /\ job.at = "listed"
          /\ \E w \in job.left : Become(j, Found(w, job.listing[w].content))
       \/ /\ job.at = "find"
          /\ Become(j, Found(job.item, job.payload))
    /\ UNCHANGED <<mirror, known, pending, overlapped, budget>> /\ Outside

Resumed(job) == [job EXCEPT !.at = job.phase, !.item = None, !.payload = None, !.date = 0, !.changed = FALSE]

\* ... and writes; workflow.synced is emitted, a changed content is versioned.
Upsert(j) ==
    LET job == sync[j] IN
    /\ job.at = "upsert"
    /\ mirror' = [mirror EXCEPT ![job.item] = [content |-> job.payload, missing |-> FALSE]]
    /\ known' = IF platform = "make" THEN [known EXCEPT ![job.item] = job.date] ELSE known
    /\ pending' = IF job.changed THEN pending \union {<<job.item, job.payload>>} ELSE pending
    /\ Become(j, Resumed(job))
    /\ UNCHANGED <<overlapped, budget>> /\ Outside

Flag(j) ==
    LET job == sync[j] IN
    /\ job.at = "flag"
    /\ mirror' = [mirror EXCEPT ![job.item].missing = TRUE]
    /\ Become(j, Resumed(job))
    /\ UNCHANGED <<known, pending, overlapped, budget>> /\ Outside

---------------------------------------------------------------------------
(* The scenarios of Make (syncPlatformInstance) *)

\* Faulty variant: a content once read is never read again.
OnceRead(job, w) == job.locals[w] # None /\ known[w] # None

\* contentIsFresh: the date did not move since the last read.
IsFresh(job, w) == job.locals[w] # None /\ known[w] = job.listing[w].date

\* The content of a fresh scenario is the one read with the copies.
LocalContent(job, w) == IF job.locals[w] = None THEN None ELSE job.locals[w].content

TakeScenario(j) ==
    LET job == sync[j] IN
    /\ job.at = "scenarios"
    /\ \E w \in job.left :
          LET next == [job EXCEPT !.left = @ \ {w}, !.item = w, !.date = job.listing[w].date] IN
          Become(j, IF IsFresh(job, w)
                    THEN [next EXCEPT !.at = "upsert", !.payload = LocalContent(job, w)]
                    ELSE [next EXCEPT !.at = "get"])
    /\ UNCHANGED <<mirror, known, pending, overlapped, budget>> /\ Outside

\* A scenario that is gone since the list makes the pass fail.
GetScenario(j) ==
    LET job == sync[j]
        content == upstream[job.item].content IN
    /\ job.at = "get"
    /\ Become(j, IF Exists(job.item)
                 THEN [job EXCEPT !.at = "upsert", !.payload = content,
                                  !.changed = HashChanged(job.locals[job.item], content)]
                 ELSE Idle)
    /\ UNCHANGED <<mirror, known, pending, overlapped, budget>> /\ Outside

FlagUnlisted(j) ==
    LET job == sync[j] IN
    /\ job.at = "unlisted"
    /\ \E w \in job.left :
          /\ mirror' = [mirror EXCEPT ![w].missing = TRUE]
          /\ Become(j, [job EXCEPT !.left = @ \ {w}])
    /\ UNCHANGED <<known, pending, overlapped, budget>> /\ Outside

---------------------------------------------------------------------------
(* Failures, snapshots and restarts *)

\* The platform does not answer: a copy asked for alone is skipped, a pass over
\* the scenarios of Make stops.
CallFails(j) ==
    LET job == sync[j] IN
    /\ budget.outages > 0
    /\ budget' = [budget EXCEPT !.outages = @ - 1]
    /\ \/ /\ job.at = "absent"
          /\ \E w \in job.left : Become(j, [job EXCEPT !.left = @ \ {w}])
       \/ /\ job.at = "get"
          /\ Become(j, Idle)
    /\ UNCHANGED <<mirror, known, pending, overlapped>> /\ Outside

\* onWorkflowSynced, createVersion
Snapshot(x) ==
    /\ x \in pending
    /\ pending' = pending \ {x}
    /\ versions' = versions \union {x}
    /\ UNCHANGED <<platform, upstream, mirror, known, sync, overlapped, budget>>

\* The syncs in progress, the snapshots not taken yet and the dates are lost.
Restart ==
    /\ budget.restarts > 0
    /\ budget' = [budget EXCEPT !.restarts = @ - 1]
    /\ sync' = [j \in Syncs |-> Idle]
    /\ pending' = {}
    /\ known' = Nothing
    /\ UNCHANGED <<mirror, overlapped>> /\ Outside

Continue(j) ==
    \/ ReadLocals(j) \/ Ask(j) \/ Find(j) \/ Upsert(j) \/ Flag(j)
    \/ TakeScenario(j) \/ GetScenario(j) \/ FlagUnlisted(j)

Work(j) == List(j) \/ Continue(j) \/ CallFails(j) \/ \E w \in Workflows : Click(j, w)

Next == \/ Users
        \/ \E j \in Syncs : Work(j)
        \/ \E x \in Workflows \X Contents : Snapshot(x)
        \/ Restart

Spec == Init /\ [][Next]_vars

\* The cron starts a pass every hour, and what was started goes on.
Fairness ==
    /\ WF_vars(\E j \in Syncs : List(j))
    /\ \A j \in Syncs : WF_vars(Continue(j))
    /\ \A x \in Workflows \X Contents : WF_vars(Snapshot(x))

FairSpec == Spec /\ Fairness

---------------------------------------------------------------------------
(* Properties *)

\* Every variable keeps its type: what is written is a content the platform gave.
TypeOK ==
    /\ platform \in Platforms
    /\ upstream \in [Workflows -> Upstream]
    /\ mirror \in [Workflows -> Copy \union {None}]
    /\ known \in [Workflows -> Dates \union {None}]
    /\ versions \subseteq Workflows \X Contents
    /\ pending \subseteq Workflows \X Contents
    /\ sync \in [Syncs -> Job]
    /\ overlapped \in BOOLEAN
    /\ budget \in [edits : Nat, clicks : Nat, outages : Nat, restarts : Nat]

Unrestarted == budget.restarts = MaxRestarts

Recorded(w, content) == <<w, content>> \in versions \union pending

\* "At each sync, a snapshot if the content changed": until a restart, whatever
\* the syncs that overlap, the content of a copy has been versioned, or is
\* about to be.
CopiesAreVersioned ==
    Unrestarted => \A w \in Workflows : mirror[w] # None => Recorded(w, mirror[w].content)

\* A copy flagged as missing is one its platform does not know any more; with
\* Make, as long as no two syncs overlapped.
MissingIsGone ==
    (platform = "n8n" \/ ~ overlapped) =>
        \A w \in Workflows : (mirror[w] # None /\ mirror[w].missing) => upstream[w].state = "gone"

\* "A blueprint is only asked for again if changedAt moved": when it did not
\* move since the last read, asking would teach nothing, as long as no two
\* syncs of Make overlapped.  When they do, one may store the content it read
\* before under the date the other just stored.
FreshIsCurrentAlone ==
    ~ overlapped =>
        \A w \in Workflows :
            (mirror[w] # None /\ known[w] # None /\ known[w] = upstream[w].date)
                => mirror[w].content = upstream[w].content

InSync(w) ==
    CASE upstream[w].state = "listed" -> mirror[w] = [content |-> upstream[w].content, missing |-> FALSE]
      [] upstream[w].state = "hidden" -> mirror[w] \in {None, [content |-> upstream[w].content, missing |-> FALSE]}
      [] upstream[w].state = "gone"   -> mirror[w] = None \/ mirror[w].missing
      [] upstream[w].state = "none"   -> mirror[w] = None

\* Once nobody edits any more, the copies are those of the platform for ever;
\* with Make, as long as no two syncs overlapped.
MirrorConverges ==
    <>[]((platform = "n8n" \/ ~ overlapped) => \A w \in Workflows : InSync(w))
=============================================================================
