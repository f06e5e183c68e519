------------------------------ MODULE Promotion ------------------------------
(***************************************************************************)
(* A workflow promoted from one environment to another:                    *)
(* InstancePromoterService.promote                                         *)
(* (apps/api/src/modules/env-switcher/instance-promoter.service.ts), with  *)
(* the chain of environments, the release state of the source and the      *)
(* snapshots of VersioningService.                                         *)
(*                                                                         *)
(* The copies of one workflow ("main") stand on a line of environments,    *)
(* with those of a sub-workflow it may call ("sub") and, on each target,   *)
(* a workflow that may hold a URL the promotion will set ("holder").  The  *)
(* promotion goes leg by leg, gives every copy it touched one number, and  *)
(* stamps their last snapshots with it.                                    *)
(*                                                                         *)
(* Names carry no number, which is then not written in n8n.  Requests do   *)
(* not publish anything nor read remote tables; the level of a number is   *)
(* not chosen by hand.  Two homonyms on a target are seen as one; the tags *)
(* and the console's copies of the other two workflows are left out.       *)
(***************************************************************************)
EXTENDS WorkflowLocks, Sequences

CONSTANTS
    Length,       \* environments are numbered from the root of the chain
    Calls,        \* promotions that may be in progress at the same time
    Requests,     \* what may be asked of a promotion
    Parks,        \* what the instances may hold at first
    MaxContent,   \* bound: contents of main that are told apart
    Budgets       \* bounds: promotions, edits, changes of locks, failures, restarts

Envs == 1..Length

Families == {"main", "sub", "holder"}

Contents == 0..MaxContent   \* 0: no such workflow

Request == [from : Envs, to : Envs, through : BOOLEAN, cascade : BOOLEAN, confirm : BOOLEAN, force : BOOLEAN]

\* The mode of the chain, whether main calls sub, whose URL the holders serve;
\* the workflows there are and those locked, at first.
Park == [mode : {"warn", "block"}, calls : BOOLEAN, clash : {"none", "main", "sub"},
         live : [Workflows -> Contents], locked : SUBSET Workflows]

Main(e) == <<"main", e>>
Sub(e) == <<"sub", e>>
Holder(e) == <<"holder", e>>

Events == {"promotion", "edit", "lock", "outage", "restart"}

\* A holder serves its URL, or one of its own.
Clashing == 1
Moved == 2

ASSUME ConstantsAssumption ==
    /\ Length \in Nat \ {0}
    /\ MaxContent \in Nat /\ MaxContent >= Moved
    /\ Budgets \subseteq [Events -> Nat]
    /\ Workflows = Families \X Envs
    /\ Requests \subseteq Request
    /\ Parks \subseteq Park

\* A lock is that of an existing workflow, and what main calls is where it is
\* promoted from.
ASSUME ParksAssumption ==
    \A p \in Parks :
        /\ \A w \in p.locked : p.live[w] # 0
        /\ p.calls => \A asked \in Requests : p.live[Sub(asked.from)] # 0

VARIABLES
    park,       \* what does not change: mode, calls, clash
    live,       \* what n8n serves
    archived,   \* workflows archived in n8n
    rows,       \* copies of main in the console, with their number
    versions,   \* their snapshots, numbered or not
    taking,     \* snapshots the listener of workflow.synced has still to take
    call,       \* what each promotion in progress holds
    pushed,     \* every write of main on a target
    served,     \* the contents a number was given to
    forced,     \* locked workflows written over with no lock lifted, and for whom
    twins,      \* workflows created beside a homonym
    alone,      \* no promotion was asked for while another was in progress
    calm,       \* while one was in progress nobody changed a workflow or a lock,
                \* and no other promotion wrote over its source
    prompt,     \* every stamp found the snapshot of the content that left
    climbing,   \* no copy was given a lower number than its own
    budget      \* what is left of the bound

n8n == <<live, archived>>

tables == <<rows, versions, taking>>

history == <<pushed, served, forced, twins, alone, calm, prompt, climbing>>

vars == <<lockVars, park, n8n, tables, call, history, budget>>

Snapshot == [content : Contents, number : Nat]   \* 0: no number

Labels == {"idle", "prepare", "judge", "legs", "lock", "leg", "push", "move", "put", "copy", "stamp", "snapshot"}

Idle == [at |-> "idle", legs |-> <<>>, todo |-> <<>>, ids |-> {}, lifts |-> {}, content |-> 0, number |-> 0,
         found |-> FALSE, touched |-> <<>>,
         asked |-> [from |-> 1, to |-> 1, through |-> FALSE, cascade |-> FALSE, confirm |-> FALSE, force |-> FALSE]]

Known(w) == w[1] # "main" \/ rows[w[2]].content # 0

Init ==
    /\ park \in Parks
    /\ live = park.live /\ archived = {}
    /\ rows = [e \in Envs |-> [content |-> live[Main(e)], number |-> 0]]
    /\ versions = [e \in Envs |-> IF live[Main(e)] = 0 THEN <<>> ELSE <<[content |-> live[Main(e)], number |-> 0]>>]
    /\ taking = [e \in Envs |-> <<>>]
    /\ call = [c \in Calls |-> Idle]
    /\ locked = park.locked /\ journal = {}
    /\ pushed = {} /\ served = {} /\ forced = {} /\ twins = {}
    /\ alone = TRUE /\ calm = TRUE /\ prompt = TRUE /\ climbing = TRUE
    /\ budget \in Budgets

---------------------------------------------------------------------------
(* What a promotion reads *)

Step(c, job) == call' = [call EXCEPT ![c] = job]

At(c, label) == call[c].at = label

Go(c, label) == Step(c, [call[c] EXCEPT !.at = label])

End(c) == Step(c, Idle)

Asked(c) == call[c].asked

Source(c) == Main(Asked(c).from)

\* A copy is brought up to date; its content is snapshotted when it changed,
\* by a listener nobody waits for.
Copied(e, content) ==
    /\ rows' = [rows EXCEPT ![e].content = content]
    /\ taking' = IF rows[e].content = content THEN taking ELSE [taking EXCEPT ![e] = Append(@, content)]
    /\ UNCHANGED versions

\* The source is read again in n8n, never taken from the console.
Refreshed(c) == Copied(Asked(c).from, live[Source(c)])

\* The steps of the chain between the source and the target.
Skipped(asked) == {e \in Envs : asked.from < e /\ e < asked.to}

\* Faulty variant: the target alone, whatever was asked.
Straight(asked) == <<asked.to>>

Route(asked) ==
    IF asked.through /\ Skipped(asked) # {}
    THEN [k \in 1..(asked.to - asked.from) |-> asked.from + k]
    ELSE <<asked.to>>

\* A step of the chain is skipped: refused in mode "block", confirmed in "warn".
ChainRefuses(asked) ==
    /\ Skipped(asked) # {} /\ ~ asked.through
    /\ (park.mode = "block" \/ ~ asked.confirm)

Misses(e) == park.calls /\ live[Sub(e)] = 0

\* The missing sub-workflow will be created first.
Cascades(asked, e) == Misses(e) /\ asked.cascade /\ live[Sub(asked.from)] # 0

\* What a human must force: the target is ahead of the source, a sub-workflow
\* is archived or missing for good; the findings and the tests are a choice.
Blocked(asked) ==
    \/ rows[asked.from].number # 0 /\ rows[asked.to].number > rows[asked.from].number
    \/ park.calls /\ Sub(asked.to) \in archived
    \/ Misses(asked.to) /\ ~ Cascades(asked, asked.to)

Clashes(f, e) == park.clash = f /\ live[Holder(e)] = Clashing /\ Holder(e) \notin archived

\* Faulty variant: the copy that is overwritten only.
TargetAlone(e) == {w \in {Main(e)} : live[w] # 0 /\ Known(w)}

\* Existing workflows a leg will write over.
Written(e) ==
    {w \in {Main(e)} : live[w] # 0 /\ Known(w)} \union {w \in {Holder(e)} : Clashes("main", e)}

\* The last snapshot that has a number is what was released.
Numbered(e) == {k \in DOMAIN versions[e] : versions[e][k].number # 0}

Release(e) == versions[e][CHOOSE k \in Numbered(e) : \A l \in Numbered(e) : l <= k]

Highest == CHOOSE n \in {rows[e].number : e \in Envs} : \A e \in Envs : rows[e].number <= n

\* Faulty variant: a source that has a number keeps it.
KeptNumber(e, content) == IF rows[e].number # 0 THEN rows[e].number ELSE Highest + 1

\* A source that has not changed since its release keeps its number; otherwise
\* the next one after the highest of the family.
NextNumber(e, content) ==
    IF Numbered(e) # {} /\ Release(e).content = content THEN Release(e).number ELSE Highest + 1

---------------------------------------------------------------------------
(* A promotion *)

Happens(event) ==
    /\ budget[event] > 0
    /\ budget' = [budget EXCEPT ![event] = @ - 1]

Alone(c) == \A d \in Calls \ {c} : At(d, "idle")

Promote(c, asked, lifts) ==
    /\ At(c, "idle")
    /\ asked.from # asked.to /\ Known(Main(asked.from))
    /\ Step(c, [Idle EXCEPT !.at = "prepare", !.asked = asked, !.lifts = lifts])
    /\ alone' = (alone /\ Alone(c))
    /\ Happens("promotion")
    /\ UNCHANGED <<lockVars, park, n8n, tables, pushed, served, forced, twins, calm, prompt, climbing>>

Prepare(c) ==
    /\ At(c, "prepare")
    /\ Refreshed(c)
    /\ Step(c, [call[c] EXCEPT !.at = "judge", !.content = live[Source(c)]])
    /\ UNCHANGED <<lockVars, park, n8n, history, budget>>

\* Faulty variant: the caller first.
CallerFirst(asked, e) == IF Cascades(asked, e) THEN <<"main", "sub">> ELSE <<"main">>

ToDo(asked, e) == IF Cascades(asked, e) THEN <<"sub", "main">> ELSE <<"main">>

\* The refusals, then the number and the route.
Judge(c) ==
    LET asked == Asked(c)
        route == Route(asked)
        single == Len(route) = 1
        refused == \/ Main(asked.to) \in archived
                   \/ ChainRefuses(asked)
                   \/ Blocked(asked) /\ ~ asked.force
    IN  /\ At(c, "judge")
        /\ \/ /\ ~ refused
              /\ Step(c, [call[c] EXCEPT !.at = IF single THEN "lock" ELSE "legs",
                                         !.legs = route,
                                         !.number = NextNumber(asked.from, call[c].content),
                                         !.todo = IF single THEN ToDo(asked, asked.to) ELSE <<>>,
                                         !.ids = IF single THEN Written(asked.to) ELSE {}])
           \/ /\ refused \/ ~ asked.force
              /\ End(c)
        /\ UNCHANGED <<lockVars, park, n8n, tables, history, budget>>

\* Several legs: each is prepared before the locks are looked at.
Legs(c) ==
    /\ At(c, "legs")
    /\ Refreshed(c)
    /\ Step(c, [call[c] EXCEPT !.at = "lock", !.ids = UNION {Written(call[c].legs[k]) : k \in DOMAIN call[c].legs}])
    /\ UNCHANGED <<lockVars, park, n8n, history, budget>>

\* The locks of the whole route, before anything is written.
CheckLocks(c) ==
    LET job == call[c] IN
    /\ At(c, "lock")
    /\ \/ /\ AssertWritable(job.ids, job.lifts)
          /\ Step(c, [job EXCEPT !.at = IF job.todo = <<>> THEN "leg" ELSE "push", !.ids = {}, !.lifts = {}])
       \/ /\ Refused(job.ids, job.lifts)
          /\ End(c)
    /\ UNCHANGED <<park, n8n, tables, history, budget>>

Here(c) == Head(call[c].legs)

\* A leg of several is prepared again, and its blockers are not looked at.
Leg(c) ==
    /\ At(c, "leg")
    /\ Refreshed(c)
    /\ Step(c, [call[c] EXCEPT !.at = "push", !.todo = ToDo(Asked(c), Here(c))])
    /\ UNCHANGED <<lockVars, park, n8n, history, budget>>

Pushing(c) == Head(call[c].todo)

Target(c) == <<Pushing(c), Here(c)>>

\* What follows a push: the caller, the next leg, the stamps.
Onward(job) ==
    IF Len(job.todo) > 1 THEN [job EXCEPT !.at = "push", !.todo = Tail(@)]
    ELSE IF Len(job.legs) > 1 THEN [job EXCEPT !.at = "leg", !.todo = <<>>, !.legs = Tail(@)]
    ELSE [job EXCEPT !.at = "stamp", !.todo = <<>>, !.legs = <<>>,
                     !.touched = <<[env |-> job.asked.from, content |-> job.content]>> \o @]

\* Faulty variant: a copy the console has not met is not there.
InConsole(w) == live[w] # 0 /\ Known(w)

\* Looked for in n8n, never in the console.
OnTarget(w) == live[w] # 0

\* Source and target are read again; a cascade leaves as it is what it finds.
Push(c) ==
    LET job == call[c]
        found == OnTarget(Target(c))
        next == IF Clashes(Pushing(c), Here(c)) THEN "move" ELSE "put"
        main == Pushing(c) = "main"
    IN  /\ At(c, "push")
        /\ IF Target(c) \in archived THEN End(c)
           ELSE IF found /\ ~ main THEN Step(c, Onward(job))
           ELSE Step(c, [job EXCEPT !.at = next, !.found = found, !.content = live[<<Pushing(c), Asked(c).from>>]])
        /\ IF main THEN Refreshed(c) ELSE UNCHANGED tables
        /\ UNCHANGED <<lockVars, park, n8n, history, budget>>

\* n8n takes the content of an existing workflow.
Overwritten(c, w, content) ==
    /\ w \notin archived
    /\ live' = [live EXCEPT ![w] = content]
    /\ forced' = IF w \in locked \ journal THEN forced \union {[copy |-> w, for |-> Pushing(c)]} ELSE forced
    /\ UNCHANGED <<archived, twins>>

\* n8n creates the workflow, whatever has the same name.
Created(w, content) ==
    /\ live' = [live EXCEPT ![w] = content]
    /\ twins' = IF live[w] # 0 THEN twins \union {w} ELSE twins
    /\ UNCHANGED <<archived, forced>>

Undisturbed == UNCHANGED <<lockVars, park, tables, served, alone, prompt, climbing>>

\* The holder of a URL is moved to one of its own.
MoveHolder(c) == Overwritten(c, Holder(Here(c)), Moved) /\ UNCHANGED <<pushed, calm>>

Move(c) ==
    /\ At(c, "move")
    /\ MoveHolder(c) /\ Go(c, "put")
    /\ UNCHANGED budget /\ Undisturbed

\* Nothing was forced, and missing sub-workflows were judged or created.
Ordinary(c) == LET asked == Asked(c) IN ~ asked.force /\ (asked.cascade \/ Here(c) = asked.to)

Trace(c) == [from |-> Asked(c).from, to |-> Here(c), content |-> call[c].content, ordinary |-> Ordinary(c)]

Write(c) ==
    /\ IF call[c].found THEN Overwritten(c, Target(c), call[c].content) ELSE Created(Target(c), call[c].content)
    /\ pushed' = IF Pushing(c) = "main" THEN pushed \union {Trace(c)} ELSE pushed
    /\ calm' = (calm /\ \A d \in Calls \ {c} : At(d, "idle") \/ Source(d) # Target(c))

Put(c) ==
    /\ At(c, "put")
    /\ Write(c) /\ Go(c, "copy")
    /\ UNCHANGED budget /\ Undisturbed

\* n8n refuses to write an archived workflow.
PutRefused(c) ==
    /\ \/ At(c, "put") /\ call[c].found /\ Target(c) \in archived
       \/ At(c, "move") /\ Holder(Here(c)) \in archived
    /\ End(c)
    /\ UNCHANGED <<lockVars, park, n8n, tables, history, budget>>

\* The copy of the target, in the console.
CopyTarget(c) ==
    LET job == call[c] IN
    /\ At(c, "copy")
    /\ IF Pushing(c) = "main"
       THEN /\ Copied(Here(c), live[Target(c)])
            /\ Step(c, Onward([job EXCEPT !.touched = Append(@, [env |-> Here(c), content |-> job.content])]))
       ELSE UNCHANGED tables /\ Step(c, Onward(job))
    /\ UNCHANGED <<lockVars, park, n8n, history, budget>>

Stamped(c) == Head(call[c].touched)

\* The number of each copy touched, then that of its last snapshot.
StampRow(c) ==
    LET number == call[c].number
        e == Stamped(c).env
    IN  /\ At(c, "stamp")
        /\ rows' = [rows EXCEPT ![e].number = number]
        /\ served' = served \union {[number |-> number, content |-> Stamped(c).content]}
        /\ climbing' = (climbing /\ number >= rows[e].number)
        /\ Go(c, "snapshot")
        /\ UNCHANGED <<lockVars, park, n8n, versions, taking, pushed, forced, twins, alone, calm, prompt, budget>>

StampSnapshot(c) ==
    LET e == Stamped(c).env
        last == Len(versions[e])
        rest == Tail(call[c].touched)
    IN  /\ At(c, "snapshot")
        /\ versions' = IF last = 0 THEN versions ELSE [versions EXCEPT ![e][last].number = call[c].number]
        /\ prompt' = (prompt /\ last # 0 /\ versions[e][last].content = Stamped(c).content)
        /\ IF rest = <<>> THEN End(c) ELSE Step(c, [call[c] EXCEPT !.at = "stamp", !.touched = rest])
        /\ UNCHANGED <<lockVars, park, n8n, rows, taking, pushed, served, forced, twins, alone, calm, climbing, budget>>

\* The listener of workflow.synced takes its snapshot.
TakeSnapshot(e) ==
    /\ taking[e] # <<>>
    /\ versions' = [versions EXCEPT ![e] = Append(@, [content |-> Head(taking[e]), number |-> 0])]
    /\ taking' = [taking EXCEPT ![e] = Tail(@)]
    /\ UNCHANGED <<lockVars, park, n8n, rows, call, history, budget>>

---------------------------------------------------------------------------
(* Failures and users *)

\* n8n or the database cannot be reached: the promotion ends there.
Throw(c) ==
    /\ ~ At(c, "idle")
    /\ End(c)
    /\ Happens("outage")
    /\ UNCHANGED <<lockVars, park, n8n, tables, history>>

\* n8n writes and its answer is lost.
AnswerLost(c) ==
    /\ \/ At(c, "put") /\ Write(c)
       \/ At(c, "move") /\ MoveHolder(c)
    /\ End(c)
    /\ Happens("outage") /\ Undisturbed

Restart ==
    /\ call' = [c \in Calls |-> Idle]
    /\ taking' = [e \in Envs |-> <<>>]
    /\ Happens("restart")
    /\ UNCHANGED <<lockVars, park, n8n, rows, versions, history>>

\* Somebody changes a workflow or a lock, perhaps under a promotion.
Touches(event) ==
    /\ Happens(event)
    /\ calm' = (calm /\ \A c \in Calls : At(c, "idle"))
    /\ UNCHANGED <<park, tables, call, pushed, served, forced, twins, alone, prompt, climbing>>

\* A user of n8n changes a copy, or puts an earlier content back.
Edit(e, content) ==
    /\ live[Main(e)] # 0 /\ Main(e) \notin archived
    /\ content \notin {0, live[Main(e)]}
    /\ live' = [live EXCEPT ![Main(e)] = content]
    /\ Touches("edit")
    /\ UNCHANGED <<lockVars, archived>>

\* A user of n8n archives a workflow, or takes it back.
Archive(w) ==
    /\ live[w] # 0
    /\ archived' = IF w \in archived THEN archived \ {w} ELSE archived \union {w}
    /\ Touches("edit")
    /\ UNCHANGED <<lockVars, live>>

EditLock(w) ==
    /\ live[w] # 0 /\ Known(w)
    /\ IF w \in locked THEN Unlock(w) ELSE Lock(w)
    /\ Touches("lock")
    /\ UNCHANGED n8n

\* The hourly pass copies what changed.
Sync(e) ==
    /\ live[Main(e)] # rows[e].content
    /\ Copied(e, live[Main(e)])
    /\ UNCHANGED <<lockVars, park, n8n, call, history, budget>>

Continue(c) ==
    \/ Prepare(c) \/ Judge(c) \/ Legs(c) \/ CheckLocks(c) \/ Leg(c) \/ Push(c) \/ Move(c)
    \/ Put(c) \/ PutRefused(c) \/ CopyTarget(c) \/ StampRow(c) \/ StampSnapshot(c)

Next ==
    \/ \E c \in Calls :
           \/ \E asked \in Requests, lifts \in {{}, locked} : Promote(c, asked, lifts)
           \/ Continue(c) \/ Throw(c) \/ AnswerLost(c)
    \/ \E e \in Envs : TakeSnapshot(e) \/ Sync(e) \/ \E content \in Contents : Edit(e, content)
    \/ \E w \in Workflows : EditLock(w) \/ Archive(w)
    \/ Restart

Spec == Init /\ [][Next]_vars

---------------------------------------------------------------------------
(* Properties *)

\* Every variable keeps its type.
TypeOK ==
    /\ LockTypeOK
    /\ park \in Park
    /\ live \in [Workflows -> Contents] /\ archived \subseteq Workflows
    /\ rows \in [Envs -> [content : Contents, number : Nat]]
    /\ versions \in [Envs -> Seq(Snapshot)]
    /\ taking \in [Envs -> Seq(Contents)]
    /\ call \in [Calls -> [at : Labels, asked : Request, legs : Seq(Envs), todo : Seq(Families),
                          ids : SUBSET Workflows, lifts : SUBSET Workflows, content : Contents,
                          number : Nat, found : BOOLEAN, touched : Seq([env : Envs, content : Contents])]]
    /\ pushed \subseteq [from : Envs, to : Envs, content : Contents, ordinary : BOOLEAN]
    /\ served \subseteq [number : Nat, content : Contents]
    /\ forced \subseteq [copy : Workflows, for : Families] /\ twins \subseteq Workflows
    /\ {alone, calm, prompt, climbing} \subseteq BOOLEAN
    /\ budget \in [Events -> Nat]

\* A number names one content ("le numéro identifie un CONTENU"), as long as
\* promotions do not overlap, nobody edits under one, the listener takes its
\* snapshots before the stamps and no copy's number goes down: a forced
\* promotion back to a lower number makes the highest one be given again.
NumberNamesOneContent ==
    alone /\ calm /\ prompt /\ climbing =>
        \A s, t \in served : s.number = t.number => s.content = t.content

\* A lock stops the promotion before it writes anything, wherever on the route
\* it is, unless the request lifts it by name; nobody looks at the lock of a
\* holder moved for a sub-workflow the cascade creates.
LocksHold == calm => \A f \in forced : f.for = "sub"

\* With a chain that blocks, a content that reaches an environment went first
\* through the one before it, whatever was forced or confirmed.
NothingSkips ==
    park.mode = "block" /\ calm =>
        \A p \in pushed : p.to > p.from + 1 =>
            \E q \in pushed : q.from = p.from /\ q.to = p.to - 1 /\ q.content = p.content

\* A promotion never leaves two copies of a workflow side by side, a retry
\* after a lost answer included, unless two promotions overlap.
OneCopyEach == alone => twins = {}

\* A caller reaches a target where its sub-workflow is, unless it was forced
\* or goes without cascade through a step of the chain.
CalleesThere == park.calls => \A p \in pushed : p.ordinary => live[Sub(p.to)] # 0
=============================================================================
