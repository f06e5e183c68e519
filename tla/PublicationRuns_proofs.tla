----------------------- MODULE PublicationRuns_proofs -----------------------
(***************************************************************************)
(* Theorems about PublicationRuns, for any call trees, any number of       *)
(* workflows and requests, and any number of edits, failures and restarts. *)
(***************************************************************************)
EXTENDS PublicationRuns, WellFoundedInduction, TLAPS

Job == [at : Labels, act : {"resume", "skip", "abandon"}, held : Run \union {None}, lifts : SUBSET Workflows]

\* A call that changes, plays or stores the run it holds.
Holding == {"create", "assert", "save", "store"} \union Playing

---------------------------------------------------------------------------
(* A run *)

LEMMA LeastIn ==
  ASSUME NEW S, S \subseteq Nat, S # {}
  PROVE  \E x \in S : \A y \in S : x <= y
<1> DEFINE Less == {p \in Nat \X Nat : p[1] < p[2]}
<1>1. IsWellFoundedOn(Less, Nat)
  BY NatLessThanWellFounded DEF OpToRel
<1>2. PICK x \in S : \A y \in S : ~ (<<y, x>> \in Less)
  <2> HIDE DEF Less
  <2> QED
    BY <1>1, WFMin
<1> SUFFICES ASSUME NEW y \in S PROVE x <= y
  OBVIOUS
<1>3. ~ (<<y, x>> \in Less) /\ x \in Nat /\ y \in Nat
  BY <1>2
<1>4. <<y, x>> \in Nat \X Nat /\ <<y, x>>[1] = y /\ <<y, x>>[2] = x
  BY <1>3
<1> QED
  BY <1>3, <1>4

\* The step to play is the first of those that are pending.
LEMMA CurrentFirst ==
  ASSUME NEW r \in Run, Pending(r) # {}
  PROVE  /\ Current(r) \in DOMAIN r.states /\ r.states[Current(r)] = "pending"
         /\ \A j \in DOMAIN r.states : r.states[j] = "pending" => Current(r) <= j
<1>1. DOMAIN r.states \subseteq Nat
  BY DEF Run
<1>2. Pending(r) \subseteq Nat
  BY <1>1 DEF Pending
<1>3. \E i \in Pending(r) : \A j \in Pending(r) : i <= j
  BY <1>2, LeastIn
<1>4. Current(r) \in Pending(r) /\ \A j \in Pending(r) : Current(r) <= j
  BY <1>3 DEF Current
<1> QED
  BY <1>4 DEF Pending

\* Settling a run changes its status only, and leaves it running only when a
\* step is left to play.
LEMMA SettleEffect ==
  ASSUME NEW r \in Run
  PROVE  /\ Settle(r) \in Run /\ Settle(r).states = r.states
         /\ Settle(r).status = r.status \/ (r.status = "running" /\ Settle(r).status = "done")
         /\ Settle(r).status = "running" => Pending(Settle(r)) # {}
BY DEF Settle, Run, Statuses, Pending

LEMMA PublishedEffect ==
  ASSUME NEW r \in Run, Playable(r), NEW state \in StepStates
  PROVE  /\ RecordPublished(r, state) \in Run
         /\ RecordPublished(r, state).states = [r.states EXCEPT ![Current(r)] = state]
         /\ RecordPublished(r, state).status \in {"running", "done"}
         /\ RecordPublished(r, state).status = "running" => Pending(RecordPublished(r, state)) # {}
<1> DEFINE s == [r EXCEPT !.states[Current(r)] = state]
<1>1. Current(r) \in DOMAIN r.states /\ r.states \in Seq(StepStates)
  BY CurrentFirst DEF Playable, Run
<1>2. [r.states EXCEPT ![Current(r)] = state] \in Seq(StepStates)
  BY <1>1
<1>3. s \in Run /\ s.states = [r.states EXCEPT ![Current(r)] = state] /\ s.status = "running"
  BY <1>2 DEF Run, Playable, Statuses
<1>4. RecordPublished(r, state) = Settle(s)
  BY DEF RecordPublished
<1> HIDE DEF s
<1> QED
  BY <1>3, <1>4, SettleEffect

LEMMA RefusalEffect ==
  ASSUME NEW r \in Run, Playable(r)
  PROVE  /\ RecordPublishFailure(r) \in Run
         /\ RecordPublishFailure(r).states = [r.states EXCEPT ![Current(r)] = "failed"]
         /\ RecordPublishFailure(r).status = "paused"
<1>1. Current(r) \in DOMAIN r.states /\ r.states \in Seq(StepStates)
  BY CurrentFirst DEF Playable, Run
<1>2. [r.states EXCEPT ![Current(r)] = "failed"] \in Seq(StepStates)
  BY <1>1 DEF StepStates
<1> QED
  BY <1>2 DEF RecordPublishFailure, Run, Statuses

LEMMA ReplayedEffect ==
  ASSUME NEW r \in Run, Paused(r), NEW state \in {"pending", "skipped"}
  PROVE  /\ Replayed(r, state) \in Run
         /\ Replayed(r, state).states =
              [i \in DOMAIN r.states |-> IF r.states[i] = "failed" THEN state ELSE r.states[i]]
         /\ Replayed(r, state).status \in {"running", "done"}
         /\ Replayed(r, state).status = "running" => Pending(Replayed(r, state)) # {}
<1> DEFINE states == [i \in DOMAIN r.states |-> IF r.states[i] = "failed" THEN state ELSE r.states[i]]
           s == [status |-> "running", states |-> states]
<1>1. r.states \in Seq(StepStates)
  BY DEF Run
<1>2. states \in Seq(StepStates)
  <2>1. PICK n \in Nat : r.states \in [1..n -> StepStates]
    BY <1>1
  <2>2. states \in [1..n -> StepStates]
    BY <2>1 DEF StepStates
  <2> QED
    BY <2>2
<1>3. s \in Run /\ s.states = states /\ s.status = "running"
  BY <1>2 DEF Run, Statuses
<1>4. Replayed(r, state) = Settle(s)
  BY DEF Replayed
<1> HIDE DEF s, states
<1>5. /\ Settle(s) \in Run /\ Settle(s).states = states
      /\ Settle(s).status \in {"running", "done"}
      /\ Settle(s).status = "running" => Pending(Settle(s)) # {}
  BY <1>3, SettleEffect
<1> QED
  BY <1>4, <1>5 DEF states

LEMMA AbandonedEffect ==
  ASSUME NEW r \in Run
  PROVE  /\ Abandoned(r) \in Run /\ Abandoned(r).states = r.states
         /\ Abandoned(r).status \in {"done", "abandoned"}
         /\ r.status = "abandoned" => Abandoned(r) = r
BY DEF Abandoned, Run, Statuses

\* What a request writes back, for each request.
LEMMA EditedEffect ==
  ASSUME NEW r \in Run, NEW act \in {"resume", "skip", "abandon"}
  PROVE  /\ Edited(act, r) \in Run /\ DOMAIN Edited(act, r).states = DOMAIN r.states
         /\ act = "abandon" => Edited(act, r) = Abandoned(r)
         /\ act = "resume" => Edited(act, r) = Replayed(r, "pending")
         /\ act = "skip" => Edited(act, r) = Replayed(r, "skipped")
<1>1. CASE act = "abandon"
  BY <1>1, AbandonedEffect DEF Edited
<1>2. CASE act # "abandon"
  <2>1. PICK state \in {"pending", "skipped"} : /\ Edited(act, r) = Replayed(r, state)
                                               /\ (act = "resume" <=> state = "pending")
    BY <1>2 DEF Edited
  <2>2. CASE Paused(r)
    BY <1>2, <2>1, <2>2, ReplayedEffect
  <2>3. CASE ~ Paused(r)
    BY <1>2, <2>1, <2>3 DEF Replayed
  <2> QED
    BY <2>2, <2>3
<1> QED
  BY <1>1, <1>2

---------------------------------------------------------------------------
(* Types *)

JobTyped(job) ==
    /\ job \in Job
    /\ job.at \in Holding => WellFormed(job.held)
    /\ job.at \in Playing => Playable(job.held)
    /\ job.at \in Advancers => running
    /\ job.at \notin {"idle", "create"} => run # None
    /\ job.at = "create" => run = None

\* TypeOK, and what makes it inductive: a call past the creation of the row
\* finds a row, and one that creates it is alone.
CallsTyped ==
    /\ call \in [Calls -> Job]
    /\ \A c \in Calls : JobTyped(call[c])
    /\ \A c, d \in Calls : call[c].at \in Advancers /\ call[d].at \in Advancers => c = d
    /\ \A c, d \in Calls : call[c].at = "create" /\ call[d].at # "idle" => c = d

RestTyped ==
    /\ LockTypeOK
    /\ tree \in Trees /\ live \subseteq Workflows /\ plan \in Seq(Workflows)
    /\ run \in Run \union {None} /\ (run # None => WellFormed(run))
    /\ running \in BOOLEAN /\ clean \in BOOLEAN
    /\ ours \subseteq live /\ again \subseteq Workflows /\ undone \subseteq Workflows
    /\ events \in [Events -> Nat]

TypeInv == RestTyped /\ CallsTyped

LEMMA TypeInvImplies == TypeInv => TypeOK
BY DEF TypeInv, RestTyped, CallsTyped, JobTyped, TypeOK, Job, Holding, Advancers, Playing

LEMMA IdleTyped == Idle \in Job /\ Idle.at = "idle" /\ JobTyped(Idle) /\ JobTyped(Idle)'
BY DEF Idle, Job, Labels, JobTyped, Holding, Playing, Advancers

LEMMA TypeInit == Init => TypeInv
<1> SUFFICES ASSUME Init PROVE TypeInv
  OBVIOUS
<1>1. /\ tree \in Tree /\ tree.copy \in [Workflows -> CopyStates]
      /\ tree \in Trees
  BY ConstantsAssumption DEF Init, Tree
<1>2. CallsTyped
  BY IdleTyped DEF Init, CallsTyped, Advancers, Playing
<1>3. RestTyped
  <2>1. LockTypeOK
    BY DEF Init, LockTypeOK
  <2>2. events \in [Events -> Nat] /\ plan \in Seq(Workflows)
    BY DEF Init, Events
  <2> QED
    BY <1>1, <2>1, <2>2 DEF Init, RestTyped
<1> QED
  BY <1>2, <1>3 DEF TypeInv

LEMMA HappensType ==
  ASSUME events \in [Events -> Nat], NEW e \in Events, Happens(e)
  PROVE  events' \in [Events -> Nat]
BY DEF Happens

\* What a step of one call has to show.
LEMMA StepTyped ==
  ASSUME CallsTyped, NEW c \in Calls, NEW job, Step(c, job), JobTyped(job)', job.at # "create",
         plan' = plan, run' = run \/ run' # None,
         call[c].at = "idle" => run' = run /\ (run # None \/ job.at = "idle"),
         running' = running \/ running' = TRUE \/ call[c].at \in Advancers,
         job.at \in Advancers => call[c].at \in Advancers \/ ~ running
  PROVE  CallsTyped'
<1>1. call' = [call EXCEPT ![c] = job] /\ call \in [Calls -> Job] /\ job \in Job
  BY DEF CallsTyped, Step, JobTyped
<1>2. \A d \in Calls : call'[d] = IF d = c THEN job ELSE call[d]
  BY <1>1
<1>3. ASSUME NEW d \in Calls, d # c
      PROVE  JobTyped(call[d])'
  <2>1. call'[d] = call[d] /\ JobTyped(call[d])
    BY <1>2, <1>3 DEF CallsTyped
  <2>2. call[d].at \in Advancers => running'
    BY <1>3, <2>1 DEF CallsTyped, JobTyped
  <2>3. call[d].at = "create" => run' = None
    <3> SUFFICES ASSUME call[d].at = "create" PROVE run' = None
      OBVIOUS
    <3>1. call[c].at = "idle" /\ run = None
      BY <1>3, <2>1 DEF CallsTyped, JobTyped
    <3> QED
      BY <3>1
  <2> QED
    BY <2>1, <2>2, <2>3 DEF JobTyped, WellFormed
<1>4. ASSUME NEW d \in Calls, NEW e \in Calls, d # e, call'[d].at \in Advancers, call'[e].at \in Advancers
      PROVE  FALSE
  <2>1. d = c \/ e = c
    BY <1>2, <1>4 DEF CallsTyped
  <2>2. PICK f \in Calls : f # c /\ call[f].at \in Advancers /\ job.at \in Advancers
    BY <1>2, <1>4, <2>1
  <2>3. running
    BY <2>2 DEF CallsTyped, JobTyped
  <2> QED
    BY <2>2, <2>3 DEF CallsTyped
<1>5. ASSUME NEW d \in Calls, NEW e \in Calls, d # e, call'[d].at = "create", call'[e].at # "idle"
      PROVE  FALSE
  <2>1. d # c /\ call[d].at = "create"
    BY <1>2, <1>5
  <2>2. e = c /\ call[c].at = "idle"
    BY <1>2, <1>5, <2>1 DEF CallsTyped
  <2>3. run # None
    BY <1>2, <1>5, <2>2
  <2> QED
    BY <2>1, <2>3 DEF CallsTyped, JobTyped
<1>6. call' \in [Calls -> Job] /\ \A d \in Calls : JobTyped(call[d])'
  <2>1. call'[c] = job /\ JobTyped(call[c])'
    BY <1>2 DEF JobTyped, WellFormed
  <2> QED
    BY <1>1, <1>3, <2>1
<1> QED
  BY <1>4, <1>5, <1>6 DEF CallsTyped

LEMMA LocksType ==
  ASSUME LockTypeOK, NEW ids \in SUBSET Workflows, NEW lifts \in SUBSET Workflows,
         AssertWritable(ids, lifts) \/ Refused(ids, lifts)
  PROVE  LockTypeOK'
BY DEF LockTypeOK, AssertWritable, Refused, Overridden, lockVars

\* What a call that holds a run, and one that plays a step, can count on.
LEMMA HeldType ==
  ASSUME TypeInv, NEW c \in Calls
  PROVE  /\ call[c] \in Job /\ call[c].lifts \in SUBSET Workflows
         /\ call[c].at \in Holding =>
              call[c].held \in Run /\ call[c].held # None /\ DOMAIN call[c].held.states = DOMAIN plan
         /\ call[c].at \in Playing =>
              /\ Playable(call[c].held)
              /\ Current(call[c].held) \in DOMAIN plan /\ Copy(c) \in Workflows
              /\ call[c].held.states[Current(call[c].held)] = "pending"
<1>1. /\ call[c] \in Job /\ JobTyped(call[c]) /\ plan \in Seq(Workflows)
  BY DEF TypeInv, CallsTyped, RestTyped
<1>2. call[c].at \in Holding =>
        call[c].held \in Run /\ call[c].held # None /\ DOMAIN call[c].held.states = DOMAIN plan
  BY <1>1 DEF JobTyped, Job, WellFormed
<1>3. ASSUME call[c].at \in Playing
      PROVE  /\ Playable(call[c].held)
             /\ Current(call[c].held) \in DOMAIN plan /\ Copy(c) \in Workflows
             /\ call[c].held.states[Current(call[c].held)] = "pending"
  <2>1. Playable(call[c].held) /\ call[c].held \in Run /\ DOMAIN call[c].held.states = DOMAIN plan
    BY <1>1, <1>2, <1>3 DEF JobTyped, Holding
  <2>2. /\ Current(call[c].held) \in DOMAIN plan
        /\ call[c].held.states[Current(call[c].held)] = "pending"
    BY <2>1, CurrentFirst DEF Playable
  <2> QED
    BY <1>1, <2>1, <2>2 DEF Copy
<1> QED
  BY <1>1, <1>2, <1>3 DEF Job

LEMMA StartType ==
  ASSUME TypeInv, NEW c \in Calls, NEW lifts \in SUBSET Workflows, Start(c, lifts)
  PROVE  /\ TypeInv'
         /\ run = None /\ run' = None
         /\ \A d \in Calls : call[d].at = "idle"
         /\ \E r \in Run : /\ DOMAIN r.states = DOMAIN plan' /\ r.status \in {"running", "done"}
                           /\ r.status = "running" => Pending(r) # {}
                           /\ \A i \in DOMAIN plan' : r.states[i] = PlannedState(plan'[i])
                           /\ call' = [call EXCEPT ![c] = [Idle EXCEPT !.at = "create", !.held = r, !.lifts = lifts]]
<1> DEFINE order == Traversal(tree).order
           states == [i \in DOMAIN order |-> PlannedState(order[i])]
           first == [status |-> "running", states |-> states]
<1>1. order \in Seq(Workflows)
  BY TraversalAssumption DEF Walk, TypeInv, RestTyped
<1>2. \A w : PlannedState(w) \in StepStates
  BY DEF PlannedState, StepStates
<1>3. PICK n \in Nat : order \in [1..n -> Workflows] /\ DOMAIN order = 1..n
  BY <1>1
<1>4. states \in [1..n -> StepStates]
  BY <1>2, <1>3
<1>5. first \in Run /\ first.status = "running" /\ first.states = states /\ DOMAIN first.states = DOMAIN order
  BY <1>4, <1>3 DEF Run, Statuses
<1>6. /\ plan' = order /\ run = None /\ run' = None
      /\ call' = [call EXCEPT ![c] = [Idle EXCEPT !.at = "create", !.held = Settle(first), !.lifts = lifts]]
      /\ \A d \in Calls : call[d].at = "idle"
      /\ UNCHANGED <<lockVars, running, clean>> /\ Outside
  BY DEF Start, Step, At
<1> HIDE DEF first, order
<1>7. PICK r \in Run : /\ r = Settle(first) /\ r.states = states /\ DOMAIN r.states = DOMAIN plan'
                       /\ r.status \in {"running", "done"} /\ (r.status = "running" => Pending(r) # {})
  BY <1>5, <1>6, SettleEffect
<1>8. \A i \in DOMAIN plan' : r.states[i] = PlannedState(plan'[i])
  BY <1>6, <1>7
<1> HIDE DEF states
<1> DEFINE job == [Idle EXCEPT !.at = "create", !.held = r, !.lifts = lifts]
<1>9. job \in Job /\ job.at = "create" /\ job.held = r /\ r # None
  BY ConstantsAssumption DEF Idle, Job, Labels
<1>10. call' = [call EXCEPT ![c] = job]
  BY <1>6, <1>7
<1> HIDE DEF job
<1>11. JobTyped(job)'
  BY <1>6, <1>7, <1>9 DEF JobTyped, WellFormed, Playing, Advancers
<1>12. \A d \in Calls : JobTyped(call[d])'
  <2> SUFFICES ASSUME NEW d \in Calls PROVE JobTyped(call[d])'
    OBVIOUS
  <2>1. CASE d = c
    <3>1. call'[d] = job
      BY <1>10, <2>1 DEF TypeInv, CallsTyped
    <3> QED
      BY <3>1, <1>11 DEF JobTyped, WellFormed
  <2>2. CASE d # c
    <3>1. call'[d] = call[d] /\ call[d] \in Job /\ call[d].at = "idle"
      BY <1>6, <1>10, <2>2 DEF TypeInv, CallsTyped
    <3> QED
      BY <3>1 DEF JobTyped, Holding, Playing, Advancers
  <2> QED
    BY <2>1, <2>2
<1>13. CallsTyped'
  <2>1. /\ call' \in [Calls -> Job] /\ call'[c] = job
        /\ \A d \in Calls : d # c => call'[d].at = "idle"
    BY <1>6, <1>9, <1>10 DEF TypeInv, CallsTyped
  <2> QED
    BY <2>1, <1>9, <1>12 DEF CallsTyped, Advancers, Playing
<1>14. RestTyped'
  BY <1>1, <1>6 DEF TypeInv, RestTyped, Outside, lockVars, LockTypeOK
<1> QED
  BY <1>6, <1>7, <1>8, <1>10, <1>13, <1>14 DEF TypeInv, job

LEMMA ArriveType ==
  ASSUME TypeInv, NEW c \in Calls, NEW job, Arrive(c, job), run # None, job \in Job,
         job.at \in {"assert", "save"}, job.held = run
  PROVE  TypeInv'
<1>1. /\ Step(c, job) /\ call[c].at = "idle" /\ UNCHANGED <<lockVars, plan, run, running>> /\ Outside
      /\ clean' \in BOOLEAN
  BY DEF Arrive, At, TypeInv, RestTyped
<1>2. JobTyped(job)'
  BY <1>1 DEF JobTyped, WellFormed, TypeInv, RestTyped, Holding, Playing, Advancers
<1>3. CallsTyped'
  BY <1>1, <1>2, StepTyped DEF TypeInv, Advancers, Playing
<1> QED
  BY <1>1, <1>3 DEF TypeInv, RestTyped, Outside, lockVars, LockTypeOK, WellFormed

LEMMA RefusedType ==
  ASSUME TypeInv, NEW r \in Run, WellFormed(r)
  PROVE  RefusedCopies(r) \subseteq Workflows
BY DEF RefusedCopies, Failed, WellFormed, TypeInv, RestTyped

LEMMA TypeRequest ==
  ASSUME TypeInv, NEW c \in Calls, Request(c)
  PROVE  TypeInv'
<1>1. locked \in SUBSET Workflows /\ {} \in SUBSET Workflows
  BY DEF TypeInv, RestTyped, LockTypeOK
<1>2. ASSUME NEW lifts \in SUBSET Workflows, Start(c, lifts)
      PROVE  TypeInv'
  BY <1>2, StartType
<1>3. ASSUME run # None, NEW act \in {"resume", "skip"}, NEW lifts \in SUBSET Workflows, Replay(c, act, lifts)
      PROVE  TypeInv'
  <2> DEFINE job == [at |-> IF act = "resume" THEN "assert" ELSE "save", act |-> act, held |-> run, lifts |-> lifts]
  <2>1. job \in Job /\ job.at \in {"assert", "save"} /\ job.held = run
    BY DEF Job, Labels, TypeInv, RestTyped
  <2>2. Arrive(c, job)
    BY <1>3 DEF Replay
  <2> HIDE DEF job
  <2> QED
    BY <1>3, <2>1, <2>2, ArriveType
<1>4. ASSUME Abandon(c)
      PROVE  TypeInv'
  <2> DEFINE job == [Idle EXCEPT !.at = "save", !.act = "abandon", !.held = run]
  <2>1. job \in Job /\ job.at = "save" /\ job.held = run
    BY DEF Idle, Job, Labels, TypeInv, RestTyped
  <2>2. Arrive(c, job) /\ run # None
    BY <1>4 DEF Abandon
  <2> HIDE DEF job
  <2> QED
    BY <2>1, <2>2, ArriveType
<1>5. run # None => RefusedCopies(run) \in SUBSET Workflows
  BY RefusedType DEF TypeInv, RestTyped
<1>6. CASE \E lifts \in {{}, locked} : Start(c, lifts)
  BY <1>1, <1>2, <1>6
<1>7. CASE run # None /\ \E lifts \in {{}, RefusedCopies(run)} : Replay(c, "resume", lifts)
  BY <1>1, <1>3, <1>5, <1>7
<1>8. CASE Replay(c, "skip", {})
  BY <1>1, <1>3, <1>8 DEF Replay
<1> QED
  BY <1>4, <1>6, <1>7, <1>8 DEF Request

\* A call that goes on with what it holds, or stops.
LEMMA GoTyped ==
  ASSUME TypeInv, NEW c \in Calls, call[c].at \notin {"idle", "create"}, plan' = plan, run' = run,
         NEW label \in Labels \ {"idle", "create"}, label \in Holding => call[c].at \in Holding,
         label \in Playing => call[c].at \in Playing,
         label \in Advancers => running', Go(c, label)
  PROVE  \E job : Step(c, job) /\ JobTyped(job)' /\ job.at = label /\ job.held = call[c].held
<1>1. call[c] \in Job /\ JobTyped(call[c])
  BY DEF TypeInv, CallsTyped
<1>2. PICK job : job = [call[c] EXCEPT !.at = label]
  OBVIOUS
<1>3. job \in Job /\ job.at = label /\ job.held = call[c].held
  BY <1>1, <1>2 DEF Job
<1>4. JobTyped(job)'
  BY <1>1, <1>3 DEF JobTyped, WellFormed
<1> QED
  BY <1>2, <1>3, <1>4 DEF Go

LEMMA EnterTyped ==
  ASSUME NEW lifts \in SUBSET Workflows, run' # None
  PROVE  LET next == [Idle EXCEPT !.at = "enter", !.lifts = lifts]
         IN  JobTyped(next)' /\ next.at = "enter"
BY DEF Idle, Job, Labels, JobTyped, Holding, Playing, Advancers

LEMMA TypeWrite ==
  ASSUME TypeInv, NEW c \in Calls, Create(c) \/ AssertStep(c) \/ Save(c)
  PROVE  TypeInv'
<1>1. /\ call[c] \in Job /\ call[c].at \in {"create", "assert", "save"} /\ call[c].held \in Run
      /\ DOMAIN call[c].held.states = DOMAIN plan /\ call[c].held # None /\ JobTyped(call[c])
  BY HeldType DEF Create, AssertStep, Save, At, TypeInv, CallsTyped, Holding
<1>2. plan' = plan /\ UNCHANGED <<running, clean>> /\ Outside
  BY DEF Create, AssertStep, Save
<1>3. LockTypeOK'
  <2>1. CASE UNCHANGED lockVars
    BY <2>1 DEF TypeInv, RestTyped, LockTypeOK, lockVars
  <2>2. CASE AssertStep(c)
    <3>1. RefusedCopies(call[c].held) \in SUBSET Workflows /\ call[c].lifts \in SUBSET Workflows
      BY <1>1, RefusedType DEF WellFormed, Job
    <3> QED
      BY <2>2, <3>1, LocksType DEF AssertStep, TypeInv, RestTyped
  <2> QED
    BY <2>1, <2>2 DEF Create, Save
<1>4. (run' \in Run /\ WellFormed(run')) \/ run' = run
  <2>1. CASE Save(c)
    <3>1. run' \in Run /\ DOMAIN run'.states = DOMAIN plan
      BY <1>1, <2>1, EditedEffect DEF Save, Job
    <3> QED
      BY <3>1, ConstantsAssumption DEF WellFormed
  <2> QED
    BY <1>1, <2>1 DEF Create, AssertStep, WellFormed
<1>5. run' # None
  BY <1>1, <1>4 DEF WellFormed, JobTyped, Create, Save, AssertStep, At
<1>6. PICK job : Step(c, job) /\ JobTyped(job)' /\ job.at \in {"idle", "enter", "save"}
  <2>1. CASE Step(c, Idle)
    BY <2>1, IdleTyped
  <2>2. CASE ToAdvance(c)
    BY <1>1, <1>5, <2>2, EnterTyped DEF ToAdvance, Job
  <2>3. CASE AssertStep(c) /\ Go(c, "save")
    <3>1. run' = run /\ At(c, "assert")
      BY <2>3 DEF AssertStep
    <3> QED
      BY <1>2, <2>3, <3>1, GoTyped DEF At, Labels, Holding, Playing, Advancers
  <2> QED
    BY <2>1, <2>2, <2>3 DEF Create, AssertStep, Save
<1>7. CallsTyped'
  BY <1>1, <1>2, <1>5, <1>6, StepTyped DEF TypeInv, Advancers, Playing
<1> QED
  BY <1>2, <1>3, <1>4, <1>7 DEF TypeInv, RestTyped, Outside, WellFormed

LEMMA OnwardTyped ==
  ASSUME TypeInv, NEW c \in Calls, NEW r \in Run, WellFormed(r), Onward(c, r),
         call[c].at \in Advancers, run' = r, plan' = plan, running' = running
  PROVE  CallsTyped'
<1>1. call[c] \in Job /\ running /\ run' # None
  BY DEF TypeInv, CallsTyped, JobTyped, WellFormed
<1>2. PICK job \in Job : /\ Step(c, job) /\ job.at \in {"lock", "leave"}
                         /\ job.at = "lock" => Playable(r) /\ job.held = r
  <2>1. CASE Playable(r)
    <3> DEFINE job == [call[c] EXCEPT !.at = "lock", !.held = r]
    <3>1. job \in Job /\ job.at = "lock" /\ job.held = r
      BY <1>1 DEF Job, Labels
    <3>2. Step(c, job)
      BY <2>1 DEF Onward, Hold
    <3> HIDE DEF job
    <3> QED
      BY <2>1, <3>1, <3>2
  <2>2. CASE ~ Playable(r)
    <3> DEFINE job == [Idle EXCEPT !.at = "leave"]
    <3>1. job \in Job /\ job.at = "leave"
      BY DEF Idle, Job, Labels
    <3>2. Step(c, job)
      BY <2>2 DEF Onward
    <3> HIDE DEF job
    <3> QED
      BY <3>1, <3>2
  <2> QED
    BY <2>1, <2>2
<1>3. JobTyped(job)'
  BY <1>1, <1>2 DEF JobTyped, WellFormed, Holding, Playing, Advancers
<1>4. call[c].at # "idle" /\ CallsTyped /\ job.at # "create" /\ Step(c, job) /\ run' # None
  BY <1>1, <1>2 DEF Advancers, Playing, TypeInv
<1> QED
  BY <1>3, <1>4, StepTyped

LEMMA TypeGuard ==
  ASSUME TypeInv, NEW c \in Calls, Enter(c) \/ Load(c) \/ Store(c) \/ Leave(c)
  PROVE  TypeInv'
<1>1. call[c] \in Job /\ JobTyped(call[c]) /\ run # None /\ run \in Run /\ WellFormed(run)
  BY DEF TypeInv, CallsTyped, RestTyped, JobTyped, Enter, Load, Store, Leave, At
<1>2. plan' = plan /\ UNCHANGED <<lockVars, clean>> /\ Outside
  BY DEF Enter, Load, Store, Leave
<1>3. run' \in Run /\ WellFormed(run') /\ running' \in BOOLEAN
  BY <1>1, HeldType DEF Enter, Load, Store, Leave, At, Holding, WellFormed, TypeInv, RestTyped
<1>4. CallsTyped'
  <2>1. CASE Load(c)
    BY <1>1, <2>1, OnwardTyped DEF Load, At, Advancers
  <2>2. CASE Store(c)
    BY <1>3, <2>2, OnwardTyped DEF Store, At, Advancers
  <2>3. CASE Enter(c) /\ Go(c, "load")
    <3>1. running' /\ ~ running /\ run' = run
      BY <1>1, <2>3 DEF Enter, Go, Step, Free, Job, Idle, TypeInv, CallsTyped
    <3>2. PICK job : Step(c, job) /\ JobTyped(job)' /\ job.at = "load"
      BY <1>2, <2>3, <3>1, GoTyped DEF Enter, At, Labels, Holding, Playing
    <3>3. call[c].at # "idle" /\ CallsTyped
      BY <2>3 DEF Enter, At, TypeInv
    <3> QED
      BY <1>2, <3>1, <3>2, <3>3, StepTyped
  <2>4. CASE Enter(c) /\ ~ Go(c, "load")
    <3>1. Step(c, Idle) /\ running' = running /\ run' = run
      BY <2>4 DEF Enter
    <3> QED
      BY <1>1, <1>2, <2>4, <3>1, IdleTyped, StepTyped DEF TypeInv, Advancers, Playing
  <2>5. CASE Leave(c)
    <3>1. Step(c, Idle) /\ run' = run /\ call[c].at \in Advancers
      BY <2>5 DEF Leave, At, Advancers
    <3> QED
      BY <1>1, <1>2, <2>5, <3>1, IdleTyped, StepTyped DEF TypeInv, Advancers, Playing
  <2> QED
    BY <2>1, <2>2, <2>3, <2>4, <2>5
<1> QED
  BY <1>2, <1>3, <1>4 DEF TypeInv, RestTyped, Outside, lockVars, LockTypeOK, WellFormed

\* A step is settled in what the call holds.
LEMMA SettledTyped ==
  ASSUME TypeInv, NEW c \in Calls, call[c].at \in Playing, plan' = plan, run' = run, running' = running,
         NEW r \in Run, DOMAIN r.states = DOMAIN plan, Hold(c, "store", r)
  PROVE  CallsTyped'
<1>1. call[c] \in Job /\ JobTyped(call[c]) /\ running /\ run # None /\ CallsTyped
  BY DEF TypeInv, CallsTyped, JobTyped, Playing, Advancers
<1>2. PICK job : job = [call[c] EXCEPT !.at = "store", !.held = r]
  OBVIOUS
<1>3. job \in Job /\ job.at = "store" /\ job.held = r /\ r # None /\ Step(c, job)
  BY <1>1, <1>2, ConstantsAssumption DEF Job, Labels, Hold
<1>4. JobTyped(job)'
  BY <1>1, <1>3 DEF JobTyped, WellFormed, Playing, Advancers
<1>5. call[c].at # "idle" /\ call[c].at \in Advancers
  BY DEF Playing, Advancers
<1> QED
  BY <1>1, <1>3, <1>4, <1>5, StepTyped

LEMMA RefuseTyped ==
  ASSUME TypeInv, NEW c \in Calls, call[c].at \in Playing, plan' = plan, run' = run, running' = running,
         Refuse(c)
  PROVE  CallsTyped'
<1>1. call[c].held \in Run /\ Playable(call[c].held) /\ DOMAIN call[c].held.states = DOMAIN plan
  BY HeldType DEF Holding
<1>2. /\ RecordPublishFailure(call[c].held) \in Run
      /\ DOMAIN RecordPublishFailure(call[c].held).states = DOMAIN plan
  BY <1>1, RefusalEffect
<1> QED
  BY <1>2, SettledTyped DEF Refuse

LEMMA PublishedTyped ==
  ASSUME TypeInv, NEW c \in Calls, call[c].at \in Playing, plan' = plan, run' = run, running' = running,
         NEW state \in StepStates, Published(c, state)
  PROVE  CallsTyped'
<1>1. call[c].held \in Run /\ Playable(call[c].held) /\ DOMAIN call[c].held.states = DOMAIN plan
  BY HeldType DEF Holding
<1>2. /\ RecordPublished(call[c].held, state) \in Run
      /\ DOMAIN RecordPublished(call[c].held, state).states = DOMAIN plan
  <2>1. /\ RecordPublished(call[c].held, state) \in Run
        /\ RecordPublished(call[c].held, state).states =
             [call[c].held.states EXCEPT ![Current(call[c].held)] = state]
    BY <1>1, PublishedEffect
  <2> QED
    BY <1>1, <2>1
<1> QED
  BY <1>2, SettledTyped DEF Published

\* A call that stops, whatever it was doing.
LEMMA StopTyped ==
  ASSUME TypeInv, NEW c \in Calls, call[c].at # "idle", plan' = plan, run' = run,
         running' = running \/ call[c].at \in Advancers, Step(c, Idle)
  PROVE  CallsTyped'
<1>1. CallsTyped /\ JobTyped(Idle)' /\ Idle.at = "idle"
  BY IdleTyped DEF TypeInv
<1>2. ~ Idle.at \in Advancers
  BY <1>1 DEF Advancers, Playing
<1> QED
  BY <1>1, <1>2, StepTyped

LEMMA TypePlay ==
  ASSUME TypeInv, NEW c \in Calls, CheckLock(c) \/ ReadLive(c) \/ Publish(c) \/ Upsert(c)
  PROVE  TypeInv'
<1>1. /\ call[c].at \in Playing /\ Copy(c) \in Workflows /\ call[c].lifts \in SUBSET Workflows
      /\ call[c] \in Job
  BY HeldType DEF CheckLock, ReadLive, Publish, Upsert, At, Playing
<1>2. UNCHANGED <<tree, plan, run, running, clean, events>>
  BY DEF CheckLock, ReadLive, Publish, Upsert, Outside
<1>3. LockTypeOK'
  <2>1. CASE UNCHANGED lockVars
    BY <2>1 DEF TypeInv, RestTyped, LockTypeOK, lockVars
  <2>2. CASE CheckLock(c)
    BY <1>1, <2>2, LocksType DEF CheckLock, TypeInv, RestTyped
  <2> QED
    BY <2>1, <2>2 DEF ReadLive, Publish, Upsert
<1>4. live' \subseteq Workflows /\ ours' \subseteq live' /\ again' \subseteq Workflows /\ undone' \subseteq Workflows
  <2>1. CASE UNCHANGED <<live, ours, again, undone>>
    BY <2>1 DEF TypeInv, RestTyped
  <2>2. CASE Accepted(c)
    BY <1>1, <2>2 DEF Accepted, TypeInv, RestTyped
  <2> QED
    BY <2>1, <2>2 DEF CheckLock, ReadLive, Publish, Upsert, Outside
<1>5. CallsTyped'
  <2>1. ASSUME NEW label \in Playing, Go(c, label) PROVE CallsTyped'
    <3>1. label \in Labels \ {"idle", "create"} /\ label \in Holding /\ label \in Advancers
      BY DEF Playing, Labels, Holding, Advancers
    <3>2. CallsTyped /\ running /\ call[c].at \notin {"idle", "create"} /\ call[c].at \in Advancers
          /\ call[c].at \in Holding
      BY <1>1 DEF TypeInv, CallsTyped, JobTyped, Advancers, Playing, Holding
    <3>3. PICK job : Step(c, job) /\ JobTyped(job)' /\ job.at = label
      BY <1>1, <1>2, <2>1, <3>1, <3>2, GoTyped
    <3> QED
      BY <1>2, <3>1, <3>2, <3>3, StepTyped
  <2>2. CASE Refuse(c)
    BY <1>1, <1>2, <2>2, RefuseTyped
  <2>3. ASSUME NEW state \in StepStates, Published(c, state) PROVE CallsTyped'
    BY <1>1, <1>2, <2>3, PublishedTyped
  <2>4. {"already", "done"} \subseteq StepStates /\ {"read", "publish", "upsert"} \subseteq Playing
    BY DEF StepStates, Playing
  <2> QED
    BY <2>1, <2>2, <2>3, <2>4 DEF CheckLock, ReadLive, Publish, Upsert
<1> QED
  BY <1>2, <1>3, <1>4, <1>5 DEF TypeInv, RestTyped, WellFormed

LEMMA TypeFail ==
  ASSUME TypeInv, NEW c \in Calls, Fail(c)
  PROVE  TypeInv'
<1>1. UNCHANGED <<lockVars, tree, plan, run, clean>> /\ events' \in [Events -> Nat]
  BY HappensType DEF Fail, Unreachable, AnswerLost, Throw, Outage, TypeInv, RestTyped, Events
<1>2. live' \subseteq Workflows /\ ours' \subseteq live' /\ again' \subseteq Workflows /\ undone' \subseteq Workflows
  <2>1. CASE UNCHANGED <<live, ours, again, undone>>
    BY <2>1 DEF TypeInv, RestTyped
  <2>2. CASE AnswerLost(c)
    <3>1. Copy(c) \in Workflows
      BY <2>2, HeldType DEF AnswerLost, At, Playing
    <3> QED
      BY <2>2, <3>1 DEF AnswerLost, Accepted, TypeInv, RestTyped
  <2> QED
    BY <2>1, <2>2 DEF Fail, Unreachable, Throw
<1>3. CallsTyped' /\ running' \in BOOLEAN
  <2>1. CASE Unreachable(c) \/ AnswerLost(c)
    <3>1. call[c].at \in Playing /\ running' = running /\ Refuse(c)
      BY <2>1 DEF Unreachable, AnswerLost, At, Playing
    <3> QED
      BY <1>1, <3>1, RefuseTyped DEF TypeInv, RestTyped
  <2>2. CASE Throw(c)
    <3>1. /\ call[c].at # "idle" /\ Step(c, Idle) /\ running' \in BOOLEAN
          /\ running' = running \/ call[c].at \in Advancers
      BY <2>2 DEF Throw, Advancers, Playing, TypeInv, RestTyped
    <3> QED
      BY <1>1, <3>1, StopTyped
  <2> QED
    BY <2>1, <2>2 DEF Fail
<1> QED
  BY <1>1, <1>2, <1>3 DEF TypeInv, RestTyped, WellFormed, LockTypeOK, lockVars

LEMMA TypeRestart ==
  ASSUME TypeInv, Restart
  PROVE  TypeInv'
<1>1. CallsTyped'
  BY IdleTyped DEF Restart, CallsTyped, Advancers, Playing, JobTyped, Holding
<1>2. events' \in [Events -> Nat]
  BY HappensType DEF Restart, Events, TypeInv, RestTyped
<1> QED
  BY <1>1, <1>2 DEF Restart, TypeInv, RestTyped, history, WellFormed, LockTypeOK, lockVars

LEMMA TypeUsers ==
  ASSUME TypeInv, NEW w \in Copies, EditCopy(w) \/ EditLock(w)
  PROVE  TypeInv'
<1>1. w \in Workflows
  BY DEF Copies, Range, TypeInv, RestTyped
<1>2. events' \in [Events -> Nat]
  BY HappensType DEF EditCopy, EditLock, Events, TypeInv, RestTyped
<1>3. LockTypeOK'
  BY <1>1 DEF EditCopy, EditLock, Lock, Unlock, TypeInv, RestTyped, LockTypeOK, lockVars
<1>4. UNCHANGED <<tree, plan, run, running, call, clean>>
  BY DEF EditCopy, EditLock, history
<1>5. CallsTyped'
  BY <1>4 DEF TypeInv, CallsTyped, JobTyped, WellFormed
<1>6. live' \subseteq Workflows /\ ours' \subseteq live' /\ again' \subseteq Workflows /\ undone' \subseteq Workflows
  BY <1>1 DEF EditCopy, EditLock, history, TypeInv, RestTyped
<1> QED
  BY <1>2, <1>3, <1>4, <1>5, <1>6 DEF TypeInv, RestTyped, WellFormed

LEMMA TypeNext == TypeInv /\ [Next]_vars => TypeInv'
<1> SUFFICES ASSUME TypeInv, [Next]_vars PROVE TypeInv'
  OBVIOUS
<1>1. CASE UNCHANGED vars
  <2>1. CallsTyped'
    BY <1>1 DEF vars, history, TypeInv, CallsTyped, JobTyped, WellFormed
  <2> QED
    BY <1>1, <2>1 DEF vars, history, lockVars, TypeInv, RestTyped, LockTypeOK, WellFormed
<1>2. ASSUME NEW c \in Calls, Continue(c) PROVE TypeInv'
  BY <1>2, TypeWrite, TypeGuard, TypePlay DEF Continue
<1> QED
  BY <1>1, <1>2, TypeRequest, TypeFail, TypeRestart, TypeUsers DEF Next

LEMMA TypeInvariant == Spec => []TypeInv
<1> QED
  BY TypeInit, TypeNext, PTL DEF Spec

\* Every variable keeps its type; a call that changes, plays or stores a run
\* holds one that has the step it plays, and one call at most advances the run,
\* whatever the call trees, the clicks, the failures and the restarts.
THEOREM TypeCorrect == Spec => []TypeOK
<1> QED
  BY TypeInvariant, TypeInvImplies, PTL

---------------------------------------------------------------------------
(* Published once, and never without its lock *)

CopyOf(job) == plan[Current(job.held)]

\* A call about to publish a copy knows that the run has not, and that its
\* lock, if any, was lifted.
OnceInv ==
    /\ PublishedOnce /\ LiftsJournaled
    /\ \A c \in Calls :
           /\ call[c].at = "publish" => Copy(c) \notin ours
           /\ call[c].at \in {"read", "publish"} /\ events.lock = 0 =>
                (Copy(c) \in locked => Copy(c) \in journal)

LEMMA StepOnce ==
  ASSUME TypeInv, OnceInv, NEW c \in Calls, NEW job, Step(c, job), plan' = plan,
         locked' = locked, journal \subseteq journal', events'.lock = events.lock, again' = {},
         ours' \subseteq ours \/ (call[c].at = "publish" /\ ours' = ours \union {Copy(c)}),
         job.at = "publish" => CopyOf(job) \notin ours',
         job.at \in {"read", "publish"} /\ events.lock = 0 => (CopyOf(job) \in locked => CopyOf(job) \in journal')
  PROVE  OnceInv'
<1>1. \A d \in Calls : call'[d] = IF d = c THEN job ELSE call[d]
  BY DEF Step, TypeInv, CallsTyped
<1>2. PublishedOnce' /\ LiftsJournaled'
  BY DEF OnceInv, PublishedOnce, LiftsJournaled
<1>3. ASSUME NEW d \in Calls, d # c
      PROVE  /\ call'[d].at = "publish" => Copy(d)' \notin ours'
             /\ call'[d].at \in {"read", "publish"} /\ events'.lock = 0 =>
                  (Copy(d)' \in locked' => Copy(d)' \in journal')
  <2>1. call'[d] = call[d] /\ Copy(d)' = Copy(d)
    BY <1>1, <1>3 DEF Copy
  <2>2. call[d].at = "publish" => call[c].at # "publish"
    BY <1>3 DEF TypeInv, CallsTyped, Advancers, Playing
  <2> QED
    BY <2>1, <2>2 DEF OnceInv
<1>4. call'[c] = job /\ Copy(c)' = CopyOf(job)
  BY <1>1 DEF Copy, CopyOf
<1> QED
  BY <1>2, <1>3, <1>4 DEF OnceInv

\* Where a call goes.
LEMMA Lands ==
  ASSUME NEW c \in Calls, call[c] \in Job, NEW label, NEW r, Go(c, label) \/ Hold(c, label, r)
  PROVE  \E job : Step(c, job) /\ job.at = label
<1>1. [call[c] EXCEPT !.at = label].at = label /\ [call[c] EXCEPT !.at = label, !.held = r].at = label
  BY DEF Job
<1> QED
  BY <1>1 DEF Go, Hold

LEMMA LandsOnward ==
  ASSUME NEW c \in Calls, call[c] \in Job, NEW r, Onward(c, r)
  PROVE  \E job : Step(c, job) /\ job.at = IF Playable(r) THEN "lock" ELSE "leave"
<1>1. [Idle EXCEPT !.at = "leave"].at = "leave"
  BY DEF Idle
<1> QED
  BY <1>1, Lands DEF Onward

LEMMA LandsEnter ==
  ASSUME NEW c \in Calls, ToAdvance(c)
  PROVE  \E job : Step(c, job) /\ job.at = "enter"
<1>1. [Idle EXCEPT !.at = "enter", !.lifts = call[c].lifts].at = "enter"
  BY DEF Idle
<1> QED
  BY <1>1 DEF ToAdvance

\* A step that neither publishes nor comes to a publication.
LEMMA OnceElsewhere ==
  ASSUME TypeInv, OnceInv, NEW c \in Calls, NEW job, Step(c, job), job.at \notin {"read", "publish"},
         plan' = plan, UNCHANGED lockVars, events'.lock = events.lock, UNCHANGED <<ours, again>>
  PROVE  OnceInv'
BY StepOnce DEF lockVars, OnceInv, PublishedOnce

LEMMA JournalGrows ==
  ASSUME NEW ids, NEW lifts, AssertWritable(ids, lifts)
  PROVE  /\ locked' = locked /\ journal \subseteq journal'
         /\ \A w \in ids : w \in locked => w \in journal'
BY DEF AssertWritable, CanWrite, Blocking, Overridden

LEMMA OnceRequest ==
  ASSUME TypeInv, OnceInv, NEW c \in Calls, Request(c)
  PROVE  OnceInv'
<1>1. ASSUME NEW job, Arrive(c, job), job.at \notin {"read", "publish"}
      PROVE  OnceInv'
  BY <1>1, OnceElsewhere DEF Arrive, Outside
<1>2. ASSUME NEW act, NEW lifts, Replay(c, act, lifts)
      PROVE  OnceInv'
  BY <1>1, <1>2 DEF Replay
<1>3. ASSUME Abandon(c)
      PROVE  OnceInv'
  BY <1>1, <1>3 DEF Abandon, Idle
<1>4. ASSUME NEW lifts \in SUBSET Workflows, Start(c, lifts)
      PROVE  OnceInv'
  <2>1. \A d \in Calls : call'[d].at \in {"idle", "create"}
    <3>1. PICK r : call' = [call EXCEPT ![c] = [Idle EXCEPT !.at = "create", !.held = r, !.lifts = lifts]]
      BY <1>4 DEF Start, Step
    <3>2. \A d \in Calls : call[d].at = "idle"
      BY <1>4, StartType
    <3>3. [Idle EXCEPT !.at = "create", !.held = r, !.lifts = lifts].at = "create"
      BY DEF Idle
    <3> QED
      BY <3>1, <3>2, <3>3 DEF TypeInv, CallsTyped
  <2> QED
    BY <1>4, <2>1 DEF Start, Outside, OnceInv, PublishedOnce, LiftsJournaled, lockVars
<1>5. locked \in SUBSET Workflows /\ {} \in SUBSET Workflows
  BY DEF TypeInv, RestTyped, LockTypeOK
<1> QED
  BY <1>2, <1>3, <1>4, <1>5 DEF Request

LEMMA OnceContinue ==
  ASSUME TypeInv, OnceInv, NEW c \in Calls, Continue(c)
  PROVE  OnceInv'
<1>1. call[c] \in Job
  BY HeldType
<1>2. again = {} /\ plan' = plan /\ events' = events
  BY DEF OnceInv, PublishedOnce, Continue, Create, AssertStep, Save, Enter, Load, CheckLock, ReadLive, Publish,
         Upsert, Store, Leave, Outside
<1>3. ASSUME UNCHANGED <<ours, again>>, UNCHANGED lockVars,
             \/ Step(c, Idle) \/ ToAdvance(c) \/ (\E r : Hold(c, "store", r)) \/ Onward(c, run)
             \/ Onward(c, call[c].held) \/ Go(c, "save") \/ Go(c, "load") \/ Go(c, "upsert")
      PROVE  OnceInv'
  <2>1. PICK job : Step(c, job) /\ job.at \notin {"read", "publish"}
    <3>1. CASE Step(c, Idle)
      BY <3>1 DEF Idle
    <3>2. CASE ToAdvance(c)
      BY <3>2, LandsEnter
    <3>3. CASE Onward(c, run) \/ Onward(c, call[c].held)
      BY <1>1, <3>3, LandsOnward
    <3> QED
      BY <1>1, <1>3, <3>1, <3>2, <3>3, Lands
  <2> QED
    BY <1>2, <1>3, <2>1, OnceElsewhere
<1>4. ASSUME AssertStep(c)
      PROVE  OnceInv'
  <2>1. PICK job : Step(c, job) /\ job.at \notin {"read", "publish"}
    BY <1>1, <1>4 DEF AssertStep, Go, Idle, Job
  <2>2. locked' = locked /\ journal \subseteq journal'
    BY <1>4, JournalGrows DEF AssertStep, Refused, lockVars
  <2> QED
    BY <1>2, <1>4, <2>1, <2>2, StepOnce DEF AssertStep, Outside
<1>5. ASSUME CheckLock(c)
      PROVE  OnceInv'
  <2>1. UNCHANGED <<ours, again>>
    BY <1>5 DEF CheckLock, Outside
  <2>2. CASE Refused({Copy(c)}, call[c].lifts) /\ Refuse(c)
    BY <1>3, <2>1, <2>2 DEF Refused, Refuse
  <2>3. CASE AssertWritable({Copy(c)}, call[c].lifts) /\ Go(c, "read")
    <3>1. PICK job : Step(c, job) /\ job.at = "read" /\ CopyOf(job) = Copy(c)
      BY <1>1, <2>3 DEF Go, Job, CopyOf, Copy
    <3>2. /\ locked' = locked /\ journal \subseteq journal'
          /\ Copy(c) \in locked => Copy(c) \in journal'
      BY <2>3, JournalGrows
    <3> QED
      BY <1>2, <2>1, <3>1, <3>2, StepOnce
  <2> QED
    BY <1>5, <2>2, <2>3 DEF CheckLock
<1>6. ASSUME ReadLive(c)
      PROVE  OnceInv'
  <2>1. UNCHANGED <<ours, again>> /\ UNCHANGED lockVars /\ call[c].at = "read"
    BY <1>6 DEF ReadLive, Outside, At
  <2>2. CASE Copy(c) \in live
    BY <1>3, <1>6, <2>1, <2>2 DEF ReadLive, Published
  <2>3. CASE Copy(c) \notin live
    <3>1. PICK job : Step(c, job) /\ job.at = "publish" /\ CopyOf(job) = Copy(c)
      BY <1>1, <1>6, <2>3 DEF ReadLive, Go, Job, CopyOf, Copy
    <3>2. Copy(c) \notin ours
      BY <2>3 DEF TypeInv, RestTyped
    <3> QED
      BY <1>2, <2>1, <3>1, <3>2, StepOnce DEF OnceInv, lockVars
  <2> QED
    BY <2>2, <2>3
<1>7. ASSUME Publish(c)
      PROVE  OnceInv'
  <2>1. CASE Refuse(c) /\ UNCHANGED <<live, ours, again, undone>>
    BY <1>3, <1>7, <2>1 DEF Publish, Refuse
  <2>2. CASE Accepted(c) /\ Go(c, "upsert")
    <3>1. PICK job : Step(c, job) /\ job.at = "upsert"
      BY <1>1, <2>2 DEF Go, Job
    <3>2. ours' = ours \union {Copy(c)} /\ again' = {}
      BY <1>2, <1>7, <2>2 DEF Accepted, OnceInv, Publish, At
    <3> QED
      BY <1>2, <1>7, <3>1, <3>2, StepOnce DEF Publish, At, lockVars
  <2> QED
    BY <1>7, <2>1, <2>2 DEF Publish
<1>8. CASE Create(c) \/ Save(c) \/ Enter(c) \/ Load(c) \/ Upsert(c) \/ Store(c) \/ Leave(c)
  <2>1. UNCHANGED <<ours, again>> /\ UNCHANGED lockVars
    BY <1>8 DEF Create, Save, Enter, Load, Upsert, Store, Leave, Outside
  <2> QED
    BY <1>3, <1>8, <2>1 DEF Create, Save, Enter, Load, Upsert, Store, Leave, Published
<1> QED
  BY <1>4, <1>5, <1>6, <1>7, <1>8 DEF Continue

LEMMA OnceFail ==
  ASSUME TypeInv, OnceInv, NEW c \in Calls, Fail(c)
  PROVE  OnceInv'
<1>1. UNCHANGED lockVars /\ plan' = plan /\ events'.lock = events.lock /\ again = {}
  BY DEF Fail, Unreachable, AnswerLost, Throw, Outage, Happens, TypeInv, RestTyped, Events, OnceInv, PublishedOnce
<1>2. PICK job : Step(c, job) /\ job.at \in {"idle", "store"}
  <2>1. CASE Step(c, Idle)
    BY <2>1 DEF Idle
  <2> QED
    BY <2>1, HeldType, Lands DEF Fail, Unreachable, AnswerLost, Throw, Refuse
<1>3. CASE AnswerLost(c)
  <2>1. call[c].at = "publish" /\ ours' = ours \union {Copy(c)} /\ again' = {}
    BY <1>1, <1>3 DEF AnswerLost, At, Accepted, OnceInv
  <2> QED
    BY <1>1, <1>2, <2>1, StepOnce DEF lockVars
<1>4. CASE Unreachable(c) \/ Throw(c)
  BY <1>1, <1>2, <1>4, OnceElsewhere DEF Unreachable, Throw
<1> QED
  BY <1>3, <1>4 DEF Fail

LEMMA OnceNext == TypeInv /\ OnceInv /\ [Next]_vars => OnceInv'
<1> SUFFICES ASSUME TypeInv, OnceInv, [Next]_vars PROVE OnceInv'
  OBVIOUS
<1>1. CASE UNCHANGED vars
  BY <1>1 DEF vars, history, lockVars, OnceInv, PublishedOnce, LiftsJournaled, Copy
<1>2. CASE Restart
  <2>1. \A c \in Calls : call'[c].at = "idle"
    BY <1>2 DEF Restart, Idle
  <2>2. events'.lock = events.lock
    BY <1>2 DEF Restart, Happens, TypeInv, RestTyped, Events
  <2> QED
    BY <1>2, <2>1, <2>2 DEF Restart, history, lockVars, OnceInv, PublishedOnce, LiftsJournaled
<1>3. ASSUME NEW w \in Copies, EditCopy(w)
      PROVE  OnceInv'
  <2>1. ours' \subseteq ours /\ UNCHANGED <<lockVars, plan, call, again>>
    BY <1>3 DEF EditCopy
  <2>2. events'.lock = events.lock
    BY <1>3 DEF EditCopy, Happens, TypeInv, RestTyped, Events
  <2> QED
    BY <2>1, <2>2 DEF lockVars, OnceInv, PublishedOnce, LiftsJournaled, Copy
<1>4. ASSUME NEW w \in Copies, EditLock(w)
      PROVE  OnceInv'
  <2>1. events'.lock # 0
    BY <1>4 DEF EditLock, Happens, TypeInv, RestTyped, Events
  <2> QED
    BY <1>4, <2>1 DEF EditLock, history, OnceInv, PublishedOnce, LiftsJournaled, Copy
<1> QED
  BY <1>1, <1>2, <1>3, <1>4, OnceRequest, OnceContinue, OnceFail DEF Next

LEMMA OnceInvariant == Spec => [](TypeInv /\ OnceInv)
<1>1. Init => OnceInv
  BY DEF Init, OnceInv, PublishedOnce, LiftsJournaled, Idle
<1> QED
  BY <1>1, OnceNext, TypeInvariant, PTL DEF Spec

\* A copy the run published is not published by it again unless a user of n8n
\* unpublished it, whatever the clicks, lost answers and restarts.
THEOREM NeverPublishedTwice == Spec => []PublishedOnce
<1> QED
  BY OnceInvariant, PTL DEF OnceInv

\* A locked copy is published only under a journaled override, as long as the
\* locks do not change.
THEOREM OverridesJournaled == Spec => []LiftsJournaled
<1> QED
  BY OnceInvariant, PTL DEF OnceInv

---------------------------------------------------------------------------
(* Played in order, and what is called published is *)

\* A run that advances has a step left and none refused, and no step was played
\* beyond one that was not.
Sound(r) ==
    /\ r.status = "running" => Pending(r) # {} /\ Failed(r) = {}
    /\ \A i, j \in DOMAIN r.states :
           i < j /\ r.states[i] \in {"pending", "failed"} => r.states[j] \notin {"done", "failed", "skipped"}

\* What a run calls published is, or was unpublished since by a user.
Shown(r) == \A i \in DOMAIN plan : r.states[i] \in {"done", "already"} => plan[i] \in live \union undone

PlanInv ==
    /\ run # None => Sound(run) /\ Shown(run)
    /\ \A c \in Calls :
           /\ call[c].at \in Holding => Sound(call[c].held) /\ Shown(call[c].held)
           /\ call[c].at = "assert" \/ (call[c].at = "save" /\ call[c].act # "abandon") => Paused(call[c].held)
           /\ call[c].at = "upsert" => Copy(c) \in live \union undone

LEMMA SoundPublished ==
  ASSUME NEW r \in Run, Playable(r), Sound(r), NEW state \in {"done", "already"}
  PROVE  Sound(RecordPublished(r, state))
<1> DEFINE s == RecordPublished(r, state)
<1>1. /\ s.states = [r.states EXCEPT ![Current(r)] = state]
      /\ s.status = "running" => Pending(s) # {}
  BY PublishedEffect DEF StepStates
<1>2. /\ Current(r) \in DOMAIN r.states /\ r.states[Current(r)] = "pending"
      /\ \A j \in DOMAIN r.states : r.states[j] = "pending" => Current(r) <= j
      /\ DOMAIN r.states \subseteq Nat
  BY CurrentFirst DEF Playable, Run
<1>3. \A j \in DOMAIN r.states : r.states[j] # "failed"
  BY DEF Sound, Playable, Failed
<1> HIDE DEF s
<1>4. DOMAIN s.states = DOMAIN r.states
      /\ \A j \in DOMAIN r.states : s.states[j] = IF j = Current(r) THEN state ELSE r.states[j]
  BY <1>1, <1>2
<1>5. Failed(s) = {}
  BY <1>3, <1>4 DEF Failed
<1>6. ASSUME NEW i \in DOMAIN r.states, NEW j \in DOMAIN r.states, i < j, s.states[i] \in {"pending", "failed"}
      PROVE  s.states[j] \notin {"done", "failed", "skipped"}
  <2>1. i # Current(r) /\ r.states[i] = "pending"
    BY <1>3, <1>4, <1>6
  <2>2. Current(r) <= i
    BY <1>2, <2>1
  <2>3. j # Current(r)
    BY <1>2, <1>6, <2>2
  <2> QED
    BY <1>4, <1>6, <2>1, <2>3 DEF Sound
<1> QED
  BY <1>1, <1>4, <1>5, <1>6 DEF Sound, s

LEMMA SoundRefused ==
  ASSUME NEW r \in Run, Playable(r), Sound(r)
  PROVE  Sound(RecordPublishFailure(r))
<1> DEFINE s == RecordPublishFailure(r)
<1>1. s.states = [r.states EXCEPT ![Current(r)] = "failed"] /\ s.status = "paused"
  BY RefusalEffect
<1>2. /\ Current(r) \in DOMAIN r.states /\ r.states[Current(r)] = "pending"
      /\ \A j \in DOMAIN r.states : r.states[j] = "pending" => Current(r) <= j
      /\ DOMAIN r.states \subseteq Nat
  BY CurrentFirst DEF Playable, Run
<1>3. \A j \in DOMAIN r.states : r.states[j] # "failed"
  BY DEF Sound, Playable, Failed
<1> HIDE DEF s
<1>4. DOMAIN s.states = DOMAIN r.states
      /\ \A j \in DOMAIN r.states : s.states[j] = IF j = Current(r) THEN "failed" ELSE r.states[j]
  BY <1>1, <1>2
<1>5. ASSUME NEW i \in DOMAIN r.states, NEW j \in DOMAIN r.states, i < j, s.states[i] \in {"pending", "failed"}
      PROVE  s.states[j] \notin {"done", "failed", "skipped"}
  <2>1. r.states[i] = "pending"
    BY <1>2, <1>3, <1>4, <1>5
  <2>2. j # Current(r)
    BY <1>2, <1>5, <2>1
  <2> QED
    BY <1>4, <1>5, <2>1, <2>2 DEF Sound
<1> QED
  BY <1>1, <1>4, <1>5 DEF Sound, s

LEMMA SoundReplayed ==
  ASSUME NEW r \in Run, Paused(r), Sound(r), NEW state \in {"pending", "skipped"}
  PROVE  Sound(Replayed(r, state))
<1> DEFINE s == Replayed(r, state)
<1>1. /\ s.states = [i \in DOMAIN r.states |-> IF r.states[i] = "failed" THEN state ELSE r.states[i]]
      /\ s.status = "running" => Pending(s) # {}
  BY ReplayedEffect
<1> HIDE DEF s
<1>2. DOMAIN s.states = DOMAIN r.states /\ Failed(s) = {}
  BY <1>1 DEF Failed
<1>3. ASSUME NEW i \in DOMAIN r.states, NEW j \in DOMAIN r.states, i < j, s.states[i] \in {"pending", "failed"}
      PROVE  s.states[j] \notin {"done", "failed", "skipped"}
  BY <1>1, <1>3 DEF Sound
<1> QED
  BY <1>1, <1>2, <1>3 DEF Sound, s

LEMMA SoundAbandoned ==
  ASSUME NEW r \in Run, Sound(r)
  PROVE  Sound(Abandoned(r))
BY AbandonedEffect DEF Sound

\* What is written back by a request.
LEMMA EditedSound ==
  ASSUME NEW r \in Run, NEW act \in {"resume", "skip", "abandon"}, act # "abandon" => Paused(r), Sound(r),
         DOMAIN r.states = DOMAIN plan, Shown(r)
  PROVE  Sound(Edited(act, r)) /\ Shown(Edited(act, r))
<1>1. CASE act = "abandon"
  BY <1>1, EditedEffect, SoundAbandoned, AbandonedEffect DEF Shown
<1>2. CASE act # "abandon"
  <2>1. PICK state \in {"pending", "skipped"} : Edited(act, r) = Replayed(r, state)
    BY <1>2, EditedEffect
  <2>2. Replayed(r, state).states =
          [i \in DOMAIN r.states |-> IF r.states[i] = "failed" THEN state ELSE r.states[i]]
    BY <1>2, ReplayedEffect
  <2>3. Shown(Replayed(r, state))
    BY <2>2 DEF Shown
  <2> QED
    BY <1>2, <2>1, <2>3, SoundReplayed
<1> QED
  BY <1>1, <1>2

\* What is live or was unpublished stays so.
Grows == plan' = plan /\ live \union undone \subseteq live' \union undone'

LEMMA ShownGrows ==
  ASSUME NEW r, Shown(r), Grows
  PROVE  Shown(r)'
BY DEF Shown, Grows

LEMMA StepPlan ==
  ASSUME TypeInv, PlanInv, NEW c \in Calls, NEW job, Step(c, job), Grows,
         run' # None => Sound(run') /\ Shown(run'),
         job.at \in Holding => Sound(job.held) /\ Shown(job.held)',
         job.at = "assert" \/ (job.at = "save" /\ job.act # "abandon") => Paused(job.held),
         job.at = "upsert" => CopyOf(job) \in live' \union undone'
  PROVE  PlanInv'
<1>1. \A d \in Calls : call'[d] = IF d = c THEN job ELSE call[d]
  BY DEF Step, TypeInv, CallsTyped
<1>2. run' # None => Sound(run') /\ Shown(run)'
  BY DEF Shown, Grows
<1>3. ASSUME NEW d \in Calls, d # c
      PROVE  /\ call'[d].at \in Holding => Sound(call'[d].held) /\ Shown(call[d].held)'
             /\ call'[d].at = "assert" \/ (call'[d].at = "save" /\ call'[d].act # "abandon") => Paused(call'[d].held)
             /\ call'[d].at = "upsert" => Copy(d)' \in live' \union undone'
  <2>1. call'[d] = call[d] /\ Copy(d)' = Copy(d)
    BY <1>1, <1>3 DEF Copy, Grows
  <2> QED
    BY <2>1 DEF PlanInv, Shown, Grows
<1>4. call'[c] = job /\ Copy(c)' = CopyOf(job)
  BY <1>1 DEF Copy, CopyOf, Grows
<1>5. job.at \in Holding => Sound(call'[c].held) /\ Shown(call[c].held)'
  BY <1>4 DEF Shown
<1> QED
  BY <1>2, <1>3, <1>4, <1>5 DEF PlanInv

LEMMA PlanAside ==
  ASSUME TypeInv, PlanInv, NEW c \in Calls, NEW job, Step(c, job), job.at \notin Holding, Grows,
         run' # None => Sound(run') /\ Shown(run')
  PROVE  PlanInv'
BY StepPlan DEF Holding, Playing

LEMMA PlanKept == PlanInv => (run # None => Sound(run) /\ Shown(run))
BY DEF PlanInv

LEMMA PlanGo ==
  ASSUME TypeInv, PlanInv, NEW c \in Calls, NEW label, Go(c, label), call[c].at \in Holding, Grows, run' = run,
         label # "assert", label = "save" => call[c].at = "assert",
         label = "upsert" => Copy(c) \in live' \union undone'
  PROVE  PlanInv'
<1>1. call[c] \in Job
  BY HeldType
<1>2. PICK job : job = [call[c] EXCEPT !.at = label]
  OBVIOUS
<1>3. /\ Step(c, job) /\ job.at = label /\ job.held = call[c].held /\ job.act = call[c].act
      /\ CopyOf(job) = Copy(c)
  BY <1>1, <1>2 DEF Job, Go, CopyOf, Copy
<1>4. Sound(job.held) /\ Shown(job.held)'
  <2>1. Sound(job.held) /\ Shown(job.held)
    BY <1>3 DEF PlanInv
  <2> QED
    BY <2>1, ShownGrows
<1> QED
  BY <1>3, <1>4, StepPlan, PlanKept DEF PlanInv

LEMMA PlanStore ==
  ASSUME TypeInv, PlanInv, NEW c \in Calls, NEW r, Hold(c, "store", r), Grows, run' = run,
         Sound(r), Shown(r)'
  PROVE  PlanInv'
<1>1. call[c] \in Job
  BY HeldType
<1>2. PICK job : job = [call[c] EXCEPT !.at = "store", !.held = r]
  OBVIOUS
<1>3. Step(c, job) /\ job.at = "store" /\ job.held = r
  BY <1>1, <1>2 DEF Job, Hold
<1> QED
  BY <1>3, StepPlan, PlanKept

LEMMA PlanRefuse ==
  ASSUME TypeInv, PlanInv, NEW c \in Calls, call[c].at \in Playing, Refuse(c), Grows, run' = run
  PROVE  PlanInv'
<1>1. PICK r \in Run : /\ r = call[c].held /\ Playable(r) /\ Sound(r) /\ Shown(r)
                       /\ DOMAIN r.states = DOMAIN plan /\ Current(r) \in DOMAIN plan
  BY HeldType DEF PlanInv, Holding
<1>2. PICK s : s = RecordPublishFailure(r)
  OBVIOUS
<1>3. Sound(s) /\ s.states = [r.states EXCEPT ![Current(r)] = "failed"]
  BY <1>1, <1>2, SoundRefused, RefusalEffect
<1>4. Shown(s)
  BY <1>1, <1>3 DEF Shown
<1>5. Shown(s)'
  BY <1>4, ShownGrows
<1> QED
  BY <1>1, <1>2, <1>3, <1>5, PlanStore DEF Refuse

LEMMA PlanPublished ==
  ASSUME TypeInv, PlanInv, NEW c \in Calls, call[c].at \in Playing, Grows, run' = run,
         NEW state \in {"done", "already"}, Published(c, state), Copy(c) \in live \union undone
  PROVE  PlanInv'
<1>1. PICK r \in Run : /\ r = call[c].held /\ Playable(r) /\ Sound(r) /\ Shown(r)
                       /\ DOMAIN r.states = DOMAIN plan /\ Current(r) \in DOMAIN plan
                       /\ plan[Current(r)] = Copy(c)
  BY HeldType DEF PlanInv, Holding, Copy
<1>2. PICK s : s = RecordPublished(r, state)
  OBVIOUS
<1>3. Sound(s) /\ s.states = [r.states EXCEPT ![Current(r)] = state]
  BY <1>1, <1>2, SoundPublished, PublishedEffect DEF StepStates
<1>4. Shown(s)
  BY <1>1, <1>3 DEF Shown
<1>5. Shown(s)'
  BY <1>4, ShownGrows
<1> QED
  BY <1>1, <1>2, <1>3, <1>5, PlanStore DEF Published

LEMMA PlanOnward ==
  ASSUME TypeInv, PlanInv, NEW c \in Calls, NEW r, Onward(c, r), Grows, Sound(r), Shown(r),
         run' = r
  PROVE  PlanInv'
<1>1. call[c] \in Job
  BY HeldType
<1>2. CASE Playable(r)
  <2>1. PICK job : job = [call[c] EXCEPT !.at = "lock", !.held = r]
    OBVIOUS
  <2>2. Step(c, job) /\ job.at = "lock" /\ job.held = r
    BY <1>1, <1>2, <2>1 DEF Job, Hold, Onward
  <2>3. Shown(r)'
    BY ShownGrows
  <2> QED
    BY <2>2, <2>3, StepPlan
<1>3. CASE ~ Playable(r)
  <2>1. PICK job : Step(c, job) /\ job.at = "leave"
    BY <1>1, <1>3, LandsOnward
  <2> QED
    BY <2>1, PlanAside DEF Holding, Playing
<1> QED
  BY <1>2, <1>3

LEMMA PlanArrive ==
  ASSUME TypeInv, PlanInv, NEW c \in Calls, NEW job, Arrive(c, job), run # None, job.held = run,
         job.at \in {"assert", "save"}, job.at = "assert" \/ job.act # "abandon" => Paused(run)
  PROVE  PlanInv'
<1>1. Step(c, job) /\ Grows /\ run' = run
  BY DEF Arrive, Outside, Grows
<1>2. Sound(job.held) /\ Shown(job.held) /\ job.held = run
  BY PlanKept
<1>3. Shown(job.held)'
  BY <1>1, <1>2, ShownGrows
<1> QED
  BY <1>1, <1>2, <1>3, StepPlan

LEMMA PlanStart ==
  ASSUME TypeInv, PlanInv, NEW c \in Calls, NEW lifts \in SUBSET Workflows, Start(c, lifts)
  PROVE  PlanInv'
<1>1. PICK r \in Run : /\ DOMAIN r.states = DOMAIN plan' /\ r.status \in {"running", "done"}
                       /\ r.status = "running" => Pending(r) # {}
                       /\ \A i \in DOMAIN plan' : r.states[i] = PlannedState(plan'[i])
                       /\ call' = [call EXCEPT ![c] = [Idle EXCEPT !.at = "create", !.held = r, !.lifts = lifts]]
  BY StartType
<1>2. run' = None /\ \A d \in Calls : call[d].at = "idle"
  BY StartType
<1>3. ASSUME NEW i \in DOMAIN plan'
      PROVE  r.states[i] \notin {"failed", "done", "skipped"} /\ (r.states[i] = "already" => plan'[i] \in live)
  BY <1>1 DEF PlannedState
<1>4. Sound(r)
  BY <1>1, <1>3 DEF Sound, Failed
<1>5. live' = live
  BY DEF Start, Outside
<1>6. Shown(r)'
  BY <1>3, <1>5 DEF Shown
<1> DEFINE job == [Idle EXCEPT !.at = "create", !.held = r, !.lifts = lifts]
<1>7. job.at = "create" /\ job.held = r
  BY DEF Idle
<1> HIDE DEF job
<1>8. \A d \in Calls : call'[d] = job \/ call'[d].at = "idle"
  BY <1>1, <1>2 DEF job, TypeInv, CallsTyped
<1>9. \A d \in Calls : (call'[d].at = "create" /\ call'[d].held = r) \/ call'[d].at = "idle"
  BY <1>7, <1>8
<1>10. \A d \in Calls : call'[d].at \in Holding => Sound(call'[d].held) /\ Shown(call[d].held)'
  BY <1>4, <1>6, <1>9 DEF Holding, Playing, Shown
<1> QED
  BY <1>2, <1>9, <1>10 DEF PlanInv

LEMMA PlanRequest ==
  ASSUME TypeInv, PlanInv, NEW c \in Calls, Request(c)
  PROVE  PlanInv'
<1>1. locked \in SUBSET Workflows /\ {} \in SUBSET Workflows
  BY DEF TypeInv, RestTyped, LockTypeOK
<1>2. ASSUME NEW act \in {"resume", "skip"}, NEW lifts, Replay(c, act, lifts)
      PROVE  PlanInv'
  <2>1. PICK job : job = [at |-> IF act = "resume" THEN "assert" ELSE "save", act |-> act, held |-> run,
                          lifts |-> lifts]
    OBVIOUS
  <2>2. Arrive(c, job) /\ job.at \in {"assert", "save"} /\ job.held = run /\ run # None /\ Paused(run)
    BY <1>2, <2>1 DEF Replay
  <2> QED
    BY <2>2, PlanArrive
<1>3. ASSUME Abandon(c)
      PROVE  PlanInv'
  <2>1. PICK job : job = [Idle EXCEPT !.at = "save", !.act = "abandon", !.held = run]
    OBVIOUS
  <2>2. Arrive(c, job) /\ job.at = "save" /\ job.held = run /\ job.act = "abandon" /\ run # None
    BY <1>3, <2>1 DEF Abandon, Idle
  <2> QED
    BY <2>2, PlanArrive
<1> QED
  BY <1>1, <1>2, <1>3, PlanStart DEF Request

LEMMA PlanContinue ==
  ASSUME TypeInv, PlanInv, NEW c \in Calls, Continue(c)
  PROVE  PlanInv'
<1>1. call[c] \in Job /\ (run # None => Sound(run) /\ Shown(run))
  BY HeldType, PlanKept
<1>2. ASSUME Publish(c)
      PROVE  PlanInv'
  <2>1. call[c].at \in Playing /\ call[c].at \in Holding /\ plan' = plan /\ run' = run
    BY <1>2 DEF Publish, At, Playing, Holding
  <2>2. CASE Refuse(c) /\ UNCHANGED <<live, ours, again, undone>>
    BY <2>1, <2>2, PlanRefuse DEF Grows
  <2>3. CASE Accepted(c) /\ Go(c, "upsert")
    <3>1. Grows /\ Copy(c) \in live'
      BY <2>1, <2>3 DEF Accepted, Grows
    <3> QED
      BY <2>1, <2>3, <3>1, PlanGo
  <2> QED
    BY <1>2, <2>2, <2>3 DEF Publish
<1>3. ASSUME ~ Publish(c)
      PROVE  Grows
  BY <1>3 DEF Continue, Create, AssertStep, Save, Enter, Load, CheckLock, ReadLive, Upsert, Store, Leave,
              Outside, Grows
<1>4. ASSUME Create(c)
      PROVE  PlanInv'
  <2>1. Grows /\ run' = call[c].held /\ call[c].at \in Holding
    BY <1>4 DEF Create, Outside, Grows, At, Holding
  <2>2. PICK job : Step(c, job) /\ job.at = "enter"
    BY <1>4, LandsEnter DEF Create
  <2> QED
    BY <2>1, <2>2, PlanAside DEF PlanInv, Holding, Playing
<1>5. ASSUME AssertStep(c)
      PROVE  PlanInv'
  <2>1. Grows /\ run' = run /\ call[c].at = "assert" /\ call[c].at \in Holding
    BY <1>5 DEF AssertStep, Outside, Grows, At, Holding
  <2>2. CASE Go(c, "save")
    BY <2>1, <2>2, PlanGo
  <2>3. CASE Step(c, Idle)
    BY <1>1, <2>1, <2>3, PlanAside DEF Idle, Holding, Playing
  <2> QED
    BY <1>5, <2>2, <2>3 DEF AssertStep
<1>6. ASSUME Save(c)
      PROVE  PlanInv'
  <2>1. /\ Grows /\ call[c].at = "save" /\ call[c].at \in Holding
        /\ run' = Edited(call[c].act, call[c].held)
    BY <1>6 DEF Save, Outside, Grows, At, Holding
  <2>2. PICK act \in {"resume", "skip", "abandon"} : act = call[c].act
    BY <1>1 DEF Job
  <2>3. PICK r \in Run : /\ r = call[c].held /\ DOMAIN r.states = DOMAIN plan
                         /\ Sound(r) /\ Shown(r) /\ (act # "abandon" => Paused(r))
    BY <2>1, <2>2, HeldType DEF PlanInv
  <2>4. Sound(run') /\ Shown(run')
    BY <2>1, <2>2, <2>3, EditedSound
  <2>5. PICK job : Step(c, job) /\ job.at \in {"idle", "enter"}
    BY <1>6, LandsEnter DEF Save, Idle
  <2> QED
    BY <2>1, <2>4, <2>5, PlanAside DEF Holding, Playing
<1>7. ASSUME Enter(c)
      PROVE  PlanInv'
  <2>1. Grows /\ run' = run
    BY <1>7 DEF Enter, Outside, Grows
  <2>2. PICK job : Step(c, job) /\ job.at \in {"idle", "load"}
    BY <1>1, <1>7, Lands DEF Enter, Idle
  <2> QED
    BY <1>1, <2>1, <2>2, PlanAside DEF Holding, Playing
<1>8. ASSUME Load(c)
      PROVE  PlanInv'
  <2>1. Grows /\ run' = run /\ Onward(c, run) /\ call[c].at = "load"
    BY <1>8 DEF Load, Outside, Grows, At
  <2>2. run # None
    BY <2>1 DEF TypeInv, CallsTyped, JobTyped
  <2> QED
    BY <1>1, <2>1, <2>2, PlanOnward
<1>9. ASSUME CheckLock(c)
      PROVE  PlanInv'
  <2>1. Grows /\ run' = run /\ call[c].at \in Playing /\ call[c].at \in Holding
    BY <1>9 DEF CheckLock, Outside, Grows, At, Playing, Holding
  <2> QED
    BY <1>9, <2>1, PlanGo, PlanRefuse DEF CheckLock
<1>10. ASSUME ReadLive(c)
      PROVE  PlanInv'
  <2>1. Grows /\ run' = run /\ call[c].at \in Playing /\ call[c].at \in Holding
    BY <1>10 DEF ReadLive, Outside, Grows, At, Playing, Holding
  <2>2. CASE Copy(c) \in live /\ Published(c, "already")
    BY <2>1, <2>2, PlanPublished
  <2> QED
    BY <1>10, <2>1, <2>2, PlanGo DEF ReadLive
<1>11. ASSUME Upsert(c)
      PROVE  PlanInv'
  <2>1. Grows /\ run' = run /\ call[c].at \in Playing /\ Published(c, "done")
    BY <1>11 DEF Upsert, Outside, Grows, At, Playing
  <2>2. Copy(c) \in live \union undone
    BY <1>11 DEF Upsert, At, PlanInv
  <2> QED
    BY <2>1, <2>2, PlanPublished
<1>12. ASSUME Store(c)
      PROVE  PlanInv'
  <2>1. PICK r : r = call[c].held
    OBVIOUS
  <2>2. Grows /\ run' = r /\ Onward(c, r) /\ call[c].at \in Holding
    BY <1>12, <2>1 DEF Store, Outside, Grows, At, Holding
  <2>3. Sound(r) /\ Shown(r)
    BY <2>1, <2>2 DEF PlanInv
  <2> QED
    BY <2>2, <2>3, PlanOnward
<1>13. ASSUME Leave(c)
      PROVE  PlanInv'
  <2>1. Grows /\ run' = run /\ Step(c, Idle)
    BY <1>13 DEF Leave, Outside, Grows
  <2> QED
    BY <1>1, <2>1, PlanAside DEF Idle, Holding, Playing
<1> QED
  BY <1>2, <1>4, <1>5, <1>6, <1>7, <1>8, <1>9, <1>10, <1>11, <1>12, <1>13 DEF Continue

LEMMA PlanNext == TypeInv /\ PlanInv /\ [Next]_vars => PlanInv'
<1> SUFFICES ASSUME TypeInv, PlanInv, [Next]_vars PROVE PlanInv'
  OBVIOUS
<1>1. CASE UNCHANGED vars
  BY <1>1 DEF vars, history, PlanInv, Shown, Copy
<1>2. CASE Restart
  <2>1. \A c \in Calls : call'[c].at = "idle"
    BY <1>2 DEF Restart, Idle
  <2> QED
    BY <1>2, <2>1 DEF Restart, history, PlanInv, Shown, Holding, Playing
<1>3. ASSUME NEW w \in Copies, EditCopy(w) \/ EditLock(w)
      PROVE  PlanInv'
  <2>1. Grows /\ UNCHANGED <<run, call>>
    BY <1>3 DEF EditCopy, EditLock, history, Grows
  <2> QED
    BY <2>1 DEF PlanInv, Shown, Copy, Grows
<1>4. ASSUME NEW c \in Calls, Fail(c)
      PROVE  PlanInv'
  <2>1. Grows /\ run' = run
    BY <1>4 DEF Fail, Unreachable, AnswerLost, Throw, Outage, Accepted, Grows
  <2>2. CASE Unreachable(c) \/ AnswerLost(c)
    <3>1. call[c].at \in Playing /\ Refuse(c)
      BY <2>2 DEF Unreachable, AnswerLost, At, Playing
    <3> QED
      BY <2>1, <3>1, PlanRefuse
  <2>3. CASE Throw(c)
    BY <2>1, <2>3, PlanAside, PlanKept DEF Throw, Idle, Holding, Playing
  <2> QED
    BY <1>4, <2>2, <2>3 DEF Fail
<1> QED
  BY <1>1, <1>2, <1>3, <1>4, PlanRequest, PlanContinue DEF Next

LEMMA PlanInvariant == Spec => [](TypeInv /\ PlanInv)
<1>1. Init => PlanInv
  BY DEF Init, PlanInv, Idle, Holding, Playing
<1> QED
  BY <1>1, PlanNext, TypeInvariant, PTL DEF Spec

\* In the row, a played step never has an unplayed step before it, and what it
\* calls published is, or was unpublished since by a user of n8n, whatever is
\* resumed, skipped, refused or lost.
THEOREM RowTellsTheTruth == Spec => []RowIsTrue
<1>1. PlanInv => PlayedInOrder
  BY DEF PlanInv, Sound, PlayedInOrder
<1>2. PlanInv => DoneIsLive
  BY DEF PlanInv, Shown, DoneIsLive
<1>3. PlanInv => RowIsTrue
  BY <1>1, <1>2 DEF RowIsTrue
<1> QED
  BY <1>3, PlanInvariant, PTL

---------------------------------------------------------------------------
(* When a workflow is published, what it calls has been played *)

\* What the plan asks of the traversal: a callee comes before its caller,
\* unless the calls form a cycle.
CalleesComeFirst ==
    \A t \in Trees : LET order == Traversal(t).order IN
        \A i, j \in DOMAIN order :
            order[j] \in Range(t.callees[order[i]]) /\ order[i] \notin Reached(t, order[j]) => j < i

\* The plan is made once the tree is known, of all of it, and kept.
Planned == tree \in Trees /\ (plan = <<>> \/ plan = Traversal(tree).order)

LEMMA PlannedNext == Planned /\ [Next]_vars => Planned'
<1> SUFFICES ASSUME Planned, [Next]_vars PROVE Planned'
  OBVIOUS
<1>1. UNCHANGED <<tree, plan>> => Planned'
  BY DEF Planned
<1>2. CASE \E c \in Calls : Request(c)
  <2>1. PICK c \in Calls : Request(c)
    BY <1>2
  <2>2. CASE \E lifts \in {{}, locked} : Start(c, lifts)
    BY <2>2 DEF Start, Outside, Planned
  <2>3. CASE \E act, lifts : Replay(c, act, lifts)
    BY <2>3, <1>1 DEF Replay, Arrive, Outside
  <2>4. CASE Abandon(c)
    BY <2>4, <1>1 DEF Abandon, Arrive, Outside
  <2> QED
    BY <2>1, <2>2, <2>3, <2>4 DEF Request
<1>3. CASE \E c \in Calls : Continue(c)
  <2>1. PICK c \in Calls : Continue(c)
    BY <1>3
  <2>2. CASE Create(c) \/ AssertStep(c) \/ Save(c) \/ Enter(c) \/ Load(c) \/ CheckLock(c)
    BY <2>2, <1>1 DEF Create, AssertStep, Save, Enter, Load, CheckLock, Outside
  <2>3. CASE ReadLive(c) \/ Publish(c) \/ Upsert(c) \/ Store(c) \/ Leave(c)
    BY <2>3, <1>1 DEF ReadLive, Publish, Upsert, Store, Leave, Outside
  <2> QED
    BY <2>1, <2>2, <2>3 DEF Continue
<1>4. CASE \E c \in Calls : Fail(c)
  BY <1>4, <1>1 DEF Fail, Unreachable, AnswerLost, Throw, Outage
<1>5. CASE \E w \in Copies : EditCopy(w) \/ EditLock(w)
  BY <1>5, <1>1 DEF EditCopy, EditLock
<1>6. CASE Restart
  BY <1>6, <1>1 DEF Restart
<1>7. CASE UNCHANGED vars
  BY <1>7, <1>1 DEF vars
<1> QED
  BY <1>2, <1>3, <1>4, <1>5, <1>6, <1>7 DEF Next

\* A traversal that puts callees first is enough, whatever is resumed, skipped,
\* lost or restarted meanwhile: when the run has published a workflow, what it
\* calls outside a cycle has been played.
THEOREM CalleesArePlayed ==
  ASSUME CalleesComeFirst
  PROVE  Spec => []CalleesPlayed
<1>1. Init => Planned
  BY DEF Init, Planned
<1>2. TypeInv /\ PlanInv /\ Planned => CalleesPlayed
  <2> SUFFICES ASSUME TypeInv, PlanInv, Planned, run # None,
                      NEW i \in DOMAIN plan, NEW j \in DOMAIN plan, run.states[i] = "done",
                      plan[j] \in Range(tree.callees[plan[i]]), plan[i] \notin Reached(tree, plan[j])
               PROVE  run.states[j] \notin {"pending", "failed"}
    BY DEF CalleesPlayed
  <2>1. plan = Traversal(tree).order /\ tree \in Trees
    BY DEF Planned
  <2>2. j < i
    BY <2>1, CalleesComeFirst DEF CalleesComeFirst
  <2>3. DOMAIN run.states = DOMAIN plan
    BY DEF TypeInv, RestTyped, WellFormed
  <2>4. PlayedInOrder
    BY DEF PlanInv, Sound, PlayedInOrder
  <2> QED
    BY <2>2, <2>3, <2>4 DEF PlayedInOrder
<1> QED
  BY <1>1, <1>2, PlannedNext, PlanInvariant, PTL DEF Spec

---------------------------------------------------------------------------
(* A run nobody advances is not running, and an abandoned one is left alone *)

\* Two calls in progress were not let in one after the other; a call that
\* writes holds the row as it is, and an abandoned run is at most abandoned
\* again.
CleanInv ==
    /\ running => \E c \in Calls : call[c].at \in Advancers
    /\ \A c \in Calls : call[c].at \in {"create", "store"} => call[c].held.status # "abandoned"
    /\ clean =>
         /\ \A c, d \in Calls : call[c].at # "idle" /\ call[d].at # "idle" => c = d
         /\ \A c \in Calls : call[c].at \in {"assert", "save"} => call[c].held = run
         /\ run # None /\ run.status = "abandoned" => \A c \in Calls :
                call[c].at = "idle" \/ (call[c].at = "save" /\ call[c].act = "abandon")
    /\ Undisturbed /\ Advancing => \E c \in Calls : call[c].at \notin {"idle", "leave"}

LEMMA StepClean ==
  ASSUME TypeInv, CleanInv, NEW c \in Calls, NEW job, Step(c, job), call[c].at # "idle", clean' = clean,
         running' => job.at \in Advancers \/ (running /\ call[c].at \notin Advancers),
         job.at \in {"create", "store"} => job.held.status # "abandoned",
         clean => (job.at \in {"assert", "save"} => job.held = run'),
         clean /\ run' # None /\ run'.status = "abandoned" =>
             job.at = "idle" \/ (job.at = "save" /\ job.act = "abandon"),
         Undisturbed' /\ Advancing' => job.at \notin {"idle", "leave"}
  PROVE  CleanInv'
<1>1. \A d \in Calls : call'[d] = IF d = c THEN job ELSE call[d]
  BY DEF Step, TypeInv, CallsTyped
<1>2. clean => \A d \in Calls : d # c => call'[d] = call[d] /\ call[d].at = "idle"
  BY <1>1 DEF CleanInv
<1>3. call'[c] = job
  BY <1>1
<1>4. running' => \E d \in Calls : call'[d].at \in Advancers
  <2> SUFFICES ASSUME running' PROVE \E d \in Calls : call'[d].at \in Advancers
    OBVIOUS
  <2>1. CASE job.at \in Advancers
    BY <1>3, <2>1
  <2>2. CASE running /\ call[c].at \notin Advancers
    BY <1>1, <2>2 DEF CleanInv
  <2> QED
    BY <2>1, <2>2
<1>5. \A d \in Calls : call'[d].at \in {"create", "store"} => call'[d].held.status # "abandoned"
  BY <1>1 DEF CleanInv
<1>6. clean => /\ \A d, e \in Calls : call'[d].at # "idle" /\ call'[e].at # "idle" => d = e
               /\ \A d \in Calls : call'[d].at \in {"assert", "save"} => call'[d].held = run'
               /\ run' # None /\ run'.status = "abandoned" => \A d \in Calls :
                      call'[d].at = "idle" \/ (call'[d].at = "save" /\ call'[d].act = "abandon")
  BY <1>2, <1>3
<1>7. Undisturbed' /\ Advancing' => \E d \in Calls : call'[d].at \notin {"idle", "leave"}
  BY <1>3
<1> QED
  BY <1>4, <1>5, <1>6, <1>7 DEF CleanInv

\* As long as calls do not overlap, one of them holds the run that advances.
LEMMA Busy ==
  ASSUME TypeInv, CleanInv, NEW c \in Calls, call[c].at # "idle", Undisturbed, Advancing
  PROVE  call[c].at # "leave"
BY DEF CleanInv, Undisturbed

\* What a call that holds the run does, as long as calls do not overlap, finds
\* it as it was read, and not abandoned unless it abandons it again.
LEMMA NotAbandoned ==
  ASSUME TypeInv, CleanInv, NEW c \in Calls, call[c].at # "idle", clean, run # None, run.status = "abandoned"
  PROVE  call[c].at = "save" /\ call[c].act = "abandon" /\ call[c].held = run
BY DEF CleanInv

LEMMA CleanGo ==
  ASSUME TypeInv, CleanInv, NEW c \in Calls, NEW job, Step(c, job), call[c].at \in Playing,
         job.at \in Advancers, job.at = "leave" => ~ Advancing, job.at = "store" => job.held.status # "abandoned",
         UNCHANGED <<run, running, clean, events>>
  PROVE  CleanInv'
<1>1. call[c].at \notin {"idle", "save"} /\ job.at \notin {"idle", "create", "assert", "save"}
  BY DEF Advancers, Playing
<1>2. Undisturbed' = Undisturbed /\ Advancing' = Advancing
  BY DEF Undisturbed, Advancing
<1> QED
  BY <1>1, <1>2, StepClean, NotAbandoned DEF CleanInv

LEMMA CleanPlay ==
  ASSUME TypeInv, CleanInv, NEW c \in Calls, CheckLock(c) \/ ReadLive(c) \/ Publish(c) \/ Upsert(c)
  PROVE  CleanInv'
<1>1. /\ call[c] \in Job /\ call[c].at \in Playing /\ UNCHANGED <<run, running, clean, events>>
      /\ call[c].held \in Run /\ Playable(call[c].held)
  BY HeldType DEF CheckLock, ReadLive, Publish, Upsert, Outside, At, Playing, Holding
<1>2. ASSUME NEW label \in Playing, Go(c, label)
      PROVE  CleanInv'
  <2>1. PICK job : Step(c, job) /\ job.at = label
    BY <1>1, <1>2, Lands
  <2>2. job.at \in Advancers /\ job.at \notin {"leave", "store"}
    BY <2>1 DEF Advancers, Playing
  <2> QED
    BY <1>1, <2>1, <2>2, CleanGo
<1>3. ASSUME NEW r, Hold(c, "store", r), r.status # "abandoned"
      PROVE  CleanInv'
  <2>1. PICK job : job = [call[c] EXCEPT !.at = "store", !.held = r]
    OBVIOUS
  <2>2. Step(c, job) /\ job.at = "store" /\ job.held = r /\ job.at \in Advancers
    BY <1>1, <1>3, <2>1 DEF Hold, Job, Advancers
  <2> QED
    BY <1>1, <1>3, <2>2, CleanGo
<1>4. CASE Refuse(c)
  BY <1>1, <1>3, <1>4, RefusalEffect DEF Refuse
<1>5. ASSUME NEW state \in StepStates, Published(c, state)
      PROVE  CleanInv'
  <2>1. RecordPublished(call[c].held, state).status # "abandoned"
    BY <1>1, PublishedEffect
  <2> QED
    BY <1>3, <1>5, <2>1 DEF Published
<1>6. {"already", "done"} \subseteq StepStates /\ {"read", "publish", "upsert"} \subseteq Playing
  BY DEF StepStates, Playing
<1> QED
  BY <1>2, <1>4, <1>5, <1>6 DEF CheckLock, ReadLive, Publish, Upsert

LEMMA CleanOnward ==
  ASSUME TypeInv, CleanInv, NEW c \in Calls, NEW r, Onward(c, r), call[c].at \in {"load", "store"},
         run' = r, Sound(r), clean /\ r # None => r.status # "abandoned", UNCHANGED <<running, clean>>
  PROVE  CleanInv'
<1>1. call[c] \in Job
  BY HeldType
<1>2. PICK job : Step(c, job) /\ job.at = IF Playable(r) THEN "lock" ELSE "leave"
  BY <1>1, LandsOnward
<1>3. job.at \in Advancers /\ job.at \notin {"idle", "create", "store", "assert", "save"}
  BY <1>2 DEF Advancers, Playing
<1>4. Advancing' => job.at = "lock"
  BY <1>2 DEF Advancing, Playable, Sound
<1> QED
  BY <1>2, <1>3, <1>4, StepClean

LEMMA CleanContinue ==
  ASSUME TypeInv, PlanInv, CleanInv, NEW c \in Calls, Continue(c)
  PROVE  CleanInv'
<1>1. call[c] \in Job /\ clean' = clean /\ events' = events /\ call[c].at # "idle"
  BY HeldType DEF Continue, Create, AssertStep, Save, Enter, Load, CheckLock, ReadLive, Publish, Upsert, Store,
                  Leave, Outside, At
<1>2. ASSUME Create(c)
      PROVE  CleanInv'
  <2>1. PICK job : Step(c, job) /\ job.at = "enter"
    BY <1>2, LandsEnter DEF Create
  <2>2. run' = call[c].held /\ run'.status # "abandoned" /\ running' = running /\ call[c].at \notin Advancers
    BY <1>2 DEF Create, At, CleanInv, Advancers, Playing
  <2> QED
    BY <1>1, <2>1, <2>2, StepClean
<1>3. ASSUME AssertStep(c)
      PROVE  CleanInv'
  <2>1. /\ UNCHANGED <<run, running>> /\ call[c].at = "assert" /\ call[c].at \notin Advancers
        /\ Paused(call[c].held)
        /\ (clean => call[c].held = run)
    BY <1>3 DEF AssertStep, At, Advancers, Playing, PlanInv, CleanInv
  <2>2. clean /\ run # None => run.status # "abandoned"
    BY <1>1, <2>1, NotAbandoned
  <2>3. CASE Go(c, "save")
    <3>1. PICK job : job = [call[c] EXCEPT !.at = "save"]
      OBVIOUS
    <3>2. Step(c, job) /\ job.at = "save" /\ job.held = call[c].held
      BY <1>1, <2>3, <3>1 DEF Go, Job
    <3> QED
      BY <1>1, <2>1, <2>2, <3>2, StepClean
  <2>4. CASE Step(c, Idle)
    <3>1. Idle.at = "idle"
      BY DEF Idle
    <3>2. Undisturbed /\ Advancing => FALSE
      BY <2>1 DEF Undisturbed, Advancing, Paused
    <3>3. ~ (Undisturbed' /\ Advancing')
      BY <1>1, <2>1, <3>2 DEF Undisturbed, Advancing
    <3> QED
      BY <1>1, <2>1, <2>4, <3>1, <3>3, StepClean
  <2> QED
    BY <1>3, <2>3, <2>4 DEF AssertStep
<1>4. ASSUME Save(c)
      PROVE  CleanInv'
  <2>1. /\ run' = Edited(call[c].act, call[c].held) /\ running' = running /\ call[c].at = "save"
        /\ call[c].at \notin Advancers /\ call[c].held \in Run /\ call[c].act \in {"resume", "skip", "abandon"}
    BY <1>1, <1>4, HeldType DEF Save, At, Advancers, Playing, Holding, Job
  <2>2. CASE call[c].act = "abandon"
    <3>1. Step(c, Idle) /\ Idle.at = "idle"
      BY <1>4, <2>2 DEF Save, Idle
    <3>2. run'.status \in {"done", "abandoned"}
      BY <2>1, <2>2, EditedEffect, AbandonedEffect
    <3> QED
      BY <1>1, <2>1, <3>1, <3>2, StepClean DEF Advancing
  <2>3. CASE call[c].act # "abandon"
    <3>1. PICK job : Step(c, job) /\ job.at = "enter"
      BY <1>4, <2>3, LandsEnter DEF Save
    <3>2. Paused(call[c].held)
      BY <2>1, <2>3 DEF PlanInv
    <3>3. run'.status \in {"running", "done"}
      BY <2>1, <2>3, <3>2, EditedEffect, ReplayedEffect
    <3> QED
      BY <1>1, <2>1, <3>1, <3>3, StepClean
  <2> QED
    BY <2>2, <2>3
<1>5. ASSUME Enter(c)
      PROVE  CleanInv'
  <2>1. run' = run /\ call[c].at = "enter" /\ call[c].at \notin Advancers
    BY <1>5 DEF Enter, At, Advancers, Playing
  <2>2. clean /\ run # None => run.status # "abandoned"
    BY <1>1, <2>1, NotAbandoned
  <2>3. CASE Go(c, "load")
    <3>1. PICK job : Step(c, job) /\ job.at = "load"
      BY <1>1, <2>3, Lands
    <3>2. job.at \in Advancers
      BY <3>1 DEF Advancers
    <3> QED
      BY <1>1, <2>1, <2>2, <3>1, <3>2, StepClean
  <2>4. CASE ~ Free /\ Step(c, Idle) /\ running' = running
    <3>1. Idle.at = "idle"
      BY DEF Idle
    <3>2. ~ clean
      <4>1. PICK d \in Calls : call[d].at \in Advancers
        BY <2>4 DEF Free, CleanInv
      <4>2. d # c /\ call[d].at # "idle"
        BY <2>1, <4>1 DEF Advancers, Playing
      <4> QED
        BY <1>1, <4>2 DEF CleanInv
    <3>3. ~ Undisturbed'
      BY <1>1, <3>2 DEF Undisturbed
    <3> QED
      BY <1>1, <2>1, <2>4, <3>1, <3>2, <3>3, StepClean
  <2> QED
    BY <1>5, <2>3, <2>4 DEF Enter
<1>6. ASSUME Load(c)
      PROVE  CleanInv'
  <2>1. Onward(c, run) /\ run' = run /\ call[c].at = "load" /\ running' = running
    BY <1>6 DEF Load, At
  <2>2. run # None
    BY <2>1 DEF TypeInv, CallsTyped, JobTyped
  <2>3. Sound(run) /\ (clean => run.status # "abandoned")
    BY <1>1, <2>1, <2>2, NotAbandoned DEF PlanInv
  <2> QED
    BY <1>1, <2>1, <2>3, CleanOnward
<1>7. ASSUME Store(c)
      PROVE  CleanInv'
  <2>1. PICK r : r = call[c].held
    OBVIOUS
  <2>2. Onward(c, r) /\ run' = r /\ call[c].at = "store" /\ running' = running /\ call[c].at \in Holding
    BY <1>7, <2>1 DEF Store, At, Holding
  <2>3. Sound(r) /\ r.status # "abandoned"
    BY <2>1, <2>2 DEF PlanInv, CleanInv
  <2> QED
    BY <1>1, <2>2, <2>3, CleanOnward
<1>8. ASSUME Leave(c)
      PROVE  CleanInv'
  <2>1. Step(c, Idle) /\ run' = run /\ ~ running' /\ call[c].at = "leave"
    BY <1>8 DEF Leave, At
  <2>2. Idle.at = "idle"
    BY DEF Idle
  <2>3. ~ (Undisturbed' /\ Advancing')
    BY <1>1, <2>1, Busy DEF Undisturbed, Advancing
  <2> QED
    BY <1>1, <2>1, <2>2, <2>3, StepClean
<1> QED
  BY <1>2, <1>3, <1>4, <1>5, <1>6, <1>7, <1>8, CleanPlay DEF Continue

LEMMA CleanRequest ==
  ASSUME TypeInv, CleanInv, NEW c \in Calls, Request(c)
  PROVE  CleanInv'
<1>1. ASSUME NEW job, Arrive(c, job), run # None, job.at \in {"assert", "save"}, job.held = run,
             run.status = "abandoned" => job.at = "save" /\ job.act = "abandon"
      PROVE  CleanInv'
  <2>1. /\ Step(c, job) /\ call[c].at = "idle" /\ UNCHANGED <<run, running, events>>
        /\ clean' = (clean /\ Alone(c))
    BY <1>1 DEF Arrive, At, Outside
  <2>2. \A d \in Calls : call'[d] = IF d = c THEN job ELSE call[d]
    BY <2>1 DEF Step, TypeInv, CallsTyped
  <2>3. clean' => \A d \in Calls : d # c => call'[d].at = "idle"
    BY <2>1, <2>2 DEF Alone, At
  <2>4. running' => \E d \in Calls : call'[d].at \in Advancers
    BY <2>1, <2>2 DEF CleanInv, Advancers, Playing
  <2>5. \A d \in Calls : call'[d].at \in {"create", "store"} => call'[d].held.status # "abandoned"
    BY <1>1, <2>2 DEF CleanInv
  <2>6. call'[c] = job
    BY <2>2
  <2> QED
    BY <1>1, <2>1, <2>3, <2>4, <2>5, <2>6 DEF CleanInv
<1>2. ASSUME NEW act \in {"resume", "skip"}, NEW lifts, Replay(c, act, lifts)
      PROVE  CleanInv'
  <2>1. PICK job : job = [at |-> IF act = "resume" THEN "assert" ELSE "save", act |-> act, held |-> run,
                          lifts |-> lifts]
    OBVIOUS
  <2>2. Arrive(c, job) /\ job.at \in {"assert", "save"} /\ job.held = run /\ run # None /\ run.status = "paused"
    BY <1>2, <2>1 DEF Replay, Paused
  <2> QED
    BY <1>1, <2>2
<1>3. ASSUME Abandon(c)
      PROVE  CleanInv'
  <2>1. PICK job : job = [Idle EXCEPT !.at = "save", !.act = "abandon", !.held = run]
    OBVIOUS
  <2>2. Arrive(c, job) /\ job.at = "save" /\ job.held = run /\ job.act = "abandon" /\ run # None
    BY <1>3, <2>1 DEF Abandon, Idle
  <2> QED
    BY <1>1, <2>2
<1>4. ASSUME NEW lifts \in SUBSET Workflows, Start(c, lifts)
      PROVE  CleanInv'
  <2>1. PICK r \in Run : /\ DOMAIN r.states = DOMAIN plan' /\ r.status \in {"running", "done"}
                         /\ r.status = "running" => Pending(r) # {}
                         /\ \A i \in DOMAIN plan' : r.states[i] = PlannedState(plan'[i])
                         /\ call' = [call EXCEPT ![c] = [Idle EXCEPT !.at = "create", !.held = r, !.lifts = lifts]]
    BY <1>4, StartType
  <2>2. run' = None /\ \A d \in Calls : call[d].at = "idle"
    BY <1>4, StartType
  <2>3. ~ running'
    <3>1. ~ running
      BY <2>2 DEF CleanInv, Advancers, Playing
    <3> QED
      BY <1>4, <3>1 DEF Start
  <2> DEFINE job == [Idle EXCEPT !.at = "create", !.held = r, !.lifts = lifts]
  <2>4. job.at = "create" /\ job.held = r
    BY DEF Idle
  <2> HIDE DEF job
  <2>5. \A d \in Calls : call'[d] = IF d = c THEN job ELSE call[d]
    BY <2>1 DEF job, TypeInv, CallsTyped
  <2> QED
    BY <2>1, <2>2, <2>3, <2>4, <2>5 DEF CleanInv, Advancing
<1>5. locked \in SUBSET Workflows /\ {} \in SUBSET Workflows
  BY DEF TypeInv, RestTyped, LockTypeOK
<1> QED
  BY <1>2, <1>3, <1>4, <1>5 DEF Request

LEMMA CleanFail ==
  ASSUME TypeInv, CleanInv, NEW c \in Calls, Fail(c)
  PROVE  CleanInv'
<1>1. UNCHANGED <<run, clean>> /\ call[c] \in Job
  BY HeldType DEF Fail, Unreachable, AnswerLost, Throw, Outage
<1>2. ~ Undisturbed'
  BY DEF Fail, Unreachable, AnswerLost, Throw, Outage, Happens, Undisturbed, TypeInv, RestTyped, Events
<1>3. CASE Unreachable(c) \/ AnswerLost(c)
  <2>1. call[c].at \in Playing /\ call[c].at \notin {"idle", "save"} /\ running' = running /\ Refuse(c)
    BY <1>3 DEF Unreachable, AnswerLost, At, Playing
  <2>2. call[c].held \in Run /\ Playable(call[c].held)
    BY <2>1, HeldType DEF Holding
  <2>3. PICK r : r = RecordPublishFailure(call[c].held)
    OBVIOUS
  <2>4. PICK job : job = [call[c] EXCEPT !.at = "store", !.held = r]
    OBVIOUS
  <2>5. Step(c, job) /\ job.at = "store" /\ job.held = r /\ job.at \in Advancers
    BY <1>1, <2>1, <2>3, <2>4 DEF Refuse, Hold, Job, Advancers
  <2>6. r.status # "abandoned"
    BY <2>2, <2>3, RefusalEffect
  <2>7. clean /\ run # None => run.status # "abandoned"
    BY <2>1, NotAbandoned
  <2> QED
    BY <1>1, <1>2, <2>1, <2>5, <2>6, <2>7, StepClean
<1>4. CASE Throw(c)
  <2>1. Step(c, Idle) /\ Idle.at = "idle" /\ call[c].at # "idle"
    BY <1>4 DEF Throw, Idle
  <2>2. running' => running /\ call[c].at \notin Advancers
    BY <1>4 DEF Throw, Advancers, Playing
  <2> QED
    BY <1>1, <1>2, <2>1, <2>2, StepClean
<1> QED
  BY <1>3, <1>4 DEF Fail

LEMMA CleanNext == TypeInv /\ PlanInv /\ CleanInv /\ [Next]_vars => CleanInv'
<1> SUFFICES ASSUME TypeInv, PlanInv, CleanInv, [Next]_vars PROVE CleanInv'
  OBVIOUS
<1>1. CASE UNCHANGED vars
  BY <1>1 DEF vars, history, CleanInv, Undisturbed, Advancing
<1>2. CASE Restart
  <2>1. \A c \in Calls : call'[c].at = "idle"
    BY <1>2 DEF Restart, Idle
  <2>2. ~ Undisturbed' /\ ~ running'
    BY <1>2 DEF Restart, Happens, Undisturbed, TypeInv, RestTyped, Events
  <2> QED
    BY <2>1, <2>2 DEF CleanInv
<1>3. ASSUME NEW w \in Copies, EditCopy(w) \/ EditLock(w)
      PROVE  CleanInv'
  <2>1. UNCHANGED <<run, running, call, clean>>
    BY <1>3 DEF EditCopy, EditLock, history
  <2>2. Undisturbed' => Undisturbed
    BY <1>3, <2>1 DEF EditCopy, EditLock, Happens, Undisturbed, TypeInv, RestTyped, Events
  <2> QED
    BY <2>1, <2>2 DEF CleanInv, Advancing
<1> QED
  BY <1>1, <1>2, <1>3, CleanRequest, CleanContinue, CleanFail DEF Next

LEMMA CleanInvariant == Spec => [](TypeInv /\ PlanInv /\ CleanInv)
<1>1. Init => CleanInv
  BY DEF Init, CleanInv, Idle, Advancing
<1> QED
  BY <1>1, CleanNext, PlanInvariant, PTL DEF Spec

\* Without a failure, a restart or a second call, a run nobody advances is not
\* running: every stop is a pause a user can take up, or an end.
THEOREM StopsArePauses == Spec => []StopIsAPauseUndisturbed
<1>1. CleanInv => StopIsAPauseUndisturbed
  BY DEF CleanInv, StopIsAPauseUndisturbed, StopIsAPause, At
<1> QED
  BY <1>1, CleanInvariant, PTL

\* A run that is abandoned while no other call is in progress keeps its row,
\* and publishes nothing more.
THEOREM AbandonedForGood == Spec => AbandonedPlaysNothing
<1>1. TypeInv /\ PlanInv /\ CleanInv /\ [Next]_vars =>
        (clean => (run # None /\ run.status = "abandoned" => UNCHANGED run /\ ours' \subseteq ours))
  <2> SUFFICES ASSUME TypeInv, CleanInv, [Next]_vars, clean, run # None, run.status = "abandoned"
               PROVE  run' = run /\ ours' \subseteq ours
    OBVIOUS
  <2>1. ASSUME NEW c \in Calls, Request(c)
        PROVE  run' = run /\ ours' = ours
    BY <2>1 DEF Request, Start, Replay, Abandon, Arrive, Outside
  <2>2. ASSUME NEW c \in Calls, Continue(c)
        PROVE  run' = run /\ ours' = ours
    <3>1. call[c].at = "save" /\ call[c].act = "abandon" /\ call[c].held = run /\ run \in Run
      <4>1. call[c].at # "idle"
        BY <2>2 DEF Continue, Create, AssertStep, Save, Enter, Load, CheckLock, ReadLive, Publish, Upsert, Store,
                    Leave, At
      <4> QED
        BY <4>1, NotAbandoned DEF TypeInv, RestTyped
    <3>2. Save(c)
      BY <2>2, <3>1 DEF Continue, Create, AssertStep, Enter, Load, CheckLock, ReadLive, Publish, Upsert, Store,
                        Leave, At
    <3>3. Edited("abandon", run) = run
      BY <3>1, EditedEffect, AbandonedEffect
    <3> QED
      BY <3>1, <3>2, <3>3 DEF Save, Outside
  <2>3. ASSUME NEW c \in Calls, Fail(c)
        PROVE  run' = run /\ ours' = ours
    <3>1. call[c].at # "idle" /\ run' = run
      BY <2>3 DEF Fail, Unreachable, AnswerLost, Throw, At, Outage
    <3>2. call[c].at = "save"
      BY <3>1, NotAbandoned
    <3> QED
      BY <2>3, <3>1, <3>2 DEF Fail, Unreachable, AnswerLost, Throw, At
  <2>4. ASSUME NEW w \in Copies, EditCopy(w) \/ EditLock(w)
        PROVE  run' = run /\ ours' \subseteq ours
    BY <2>4 DEF EditCopy, EditLock, history
  <2>5. CASE Restart \/ UNCHANGED vars
    BY <2>5 DEF Restart, vars, history
  <2> QED
    BY <2>1, <2>2, <2>3, <2>4, <2>5 DEF Next
<1> QED
  BY <1>1, CleanInvariant, PTL DEF Spec, AbandonedPlaysNothing
=============================================================================
