------------------------ MODULE ChatProposals_proofs ------------------------
(***************************************************************************)
(* Theorems about ChatProposals, for any number of workflows and requests, *)
(* any proposal, and any number of edits, failures and restarts.           *)
(***************************************************************************)
EXTENDS ChatProposals, TLAPS

Job == [at : Labels, open : BOOLEAN, checks : SUBSET Workflows, writes : SUBSET Workflows,
        sent : SUBSET Workflows, lifts : SUBSET Workflows, early : SUBSET Workflows]

LEMMA ProposalType ==
  ASSUME TypeOK
  PROVE  /\ proposal \in Proposal
         /\ proposal.root \in Workflows /\ proposal.parts \subseteq Workflows
         /\ proposal.root \notin proposal.parts /\ proposal.touchesRoot \in BOOLEAN
         /\ Rows \subseteq Workflows
BY ConstantsAssumption DEF TypeOK, Proposal, Rows

LEMMA IdleType == Idle \in Job
BY DEF Idle, Job, Labels

LEMMA JobType ==
  ASSUME TypeOK, NEW c \in Calls
  PROVE  call[c] \in Job
BY DEF TypeOK, Job

LEMMA HappensType ==
  ASSUME TypeOK, NEW e \in Events, Happens(e)
  PROVE  events' \in [Events -> Nat]
<1>1. events \in [Events -> Nat] /\ events' = [events EXCEPT ![e] = @ + 1]
  BY DEF TypeOK, Happens
<1> QED
  BY <1>1

---------------------------------------------------------------------------
(* Types *)

LEMMA TypeInit == Init => TypeOK
<1> SUFFICES ASSUME Init PROVE TypeOK
  OBVIOUS
<1>1. proposal \in Proposal
  BY ConstantsAssumption DEF Init
<1>2. Rows \subseteq Workflows
  BY <1>1 DEF Rows, Proposal
<1>3. call \in [Calls -> Job] /\ \A c \in Calls : call[c] = Idle
  BY IdleType DEF Init
<1>4. \A c \in Calls : Touched(c) \subseteq Rows /\ (call[c].at \in {"put", "close"} => Touched(c) # {})
  BY <1>3 DEF Touched, Idle
<1> QED
  BY <1>1, <1>2, <1>3, <1>4 DEF Init, TypeOK, LockTypeOK, Job, Statuses, Contents, Events

\* What a step of one request has to show.
LEMMA StepType ==
  ASSUME TypeOK, NEW c \in Calls, NEW job \in Job, Step(c, job), proposal' = proposal,
         job.writes \subseteq Rows, job.at \in {"put", "close"} => job.writes # {}
  PROVE  /\ call' \in [Calls -> Job]
         /\ \A d \in Calls : (Touched(d) \subseteq Rows)' /\ (call'[d].at \in {"put", "close"} => Touched(d)' # {})
<1>1. call \in [Calls -> Job] /\ call' = [call EXCEPT ![c] = job]
  BY DEF TypeOK, Job, Step
<1>2. Rows' = Rows
  BY DEF Rows
<1>3. \A d \in Calls : call'[d] = IF d = c THEN job ELSE call[d]
  BY <1>1
<1> QED
  BY <1>1, <1>2, <1>3 DEF TypeOK, Touched

LEMMA IdleStepType ==
  ASSUME TypeOK, NEW c \in Calls, Step(c, Idle), proposal' = proposal
  PROVE  /\ call' \in [Calls -> Job]
         /\ \A d \in Calls : (Touched(d) \subseteq Rows)' /\ (call'[d].at \in {"put", "close"} => Touched(d)' # {})
BY IdleType, StepType DEF Idle

LEMMA LocksType ==
  ASSUME TypeOK, NEW ids \in SUBSET Workflows, NEW lifts \in SUBSET Workflows,
         AssertWritable(ids, lifts) \/ Refused(ids, lifts)
  PROVE  LockTypeOK'
BY DEF TypeOK, LockTypeOK, AssertWritable, Refused, Overridden, lockVars

LEMMA TypeRequest ==
  ASSUME TypeOK, NEW c \in Calls, NEW lifts \in SUBSET Workflows, Apply(c, lifts) \/ Discard(c)
  PROVE  TypeOK'
<1>1. Root \subseteq Rows /\ PendingParts \subseteq Rows
  BY DEF Root, PendingParts, Rows
<1>2. PICK job \in Job : /\ Arrive(c, job) /\ job.writes \subseteq Rows /\ job.at \notin {"put", "close"}
  <2>1. CASE Apply(c, lifts)
    <3> DEFINE job == [Idle EXCEPT !.at = "chain", !.open = status[proposal.root] = "pending",
                           !.checks = PendingParts \union Root, !.writes = PendingParts \union Root,
                           !.lifts = lifts, !.early = Rows]
    <3>1. job \in Job /\ job.writes \subseteq Rows /\ job.at = "chain"
      BY <1>1, ProposalType DEF Idle, Job, Labels
    <3> QED
      BY <2>1, <3>1 DEF Apply
  <2>2. CASE Discard(c)
    <3>1. [Idle EXCEPT !.at = "discard"] \in Job
      BY DEF Idle, Job, Labels
    <3> QED
      BY <2>2, <3>1 DEF Discard, Idle
  <2> QED
    BY <2>1, <2>2
<1>3. Step(c, job) /\ UNCHANGED <<lockVars, proposal, status, content, wrote, again, blind, events>>
      /\ clean' \in BOOLEAN
  BY <1>2 DEF Arrive, TypeOK
<1>4. Rows' = Rows
  BY <1>3 DEF Rows
<1> QED
  BY <1>2, <1>3, <1>4, StepType DEF TypeOK, Job, LockTypeOK, lockVars

LEMMA TypeGuards ==
  ASSUME TypeOK, NEW c \in Calls, CheckChain(c) \/ CheckLocks(c) \/ Judge(c)
  PROVE  TypeOK'
<1>1. call[c] \in Job /\ call[c].writes \subseteq Rows /\ proposal' = proposal
  BY JobType DEF TypeOK, Touched, CheckChain, CheckLocks, Judge
<1>2. LockTypeOK'
  <2>1. Guarded(c) \in SUBSET Workflows /\ call[c].lifts \in SUBSET Workflows
    BY <1>1, ProposalType DEF Guarded, Touched, Job
  <2> QED
    BY <2>1, LocksType DEF CheckChain, CheckLocks, Judge, TypeOK, LockTypeOK, lockVars
<1>3. PICK job \in Job : /\ Step(c, job) /\ job.writes \subseteq Rows
                         /\ (job.at \in {"put", "close"} => job.writes # {})
  <2>1. CASE Step(c, Idle)
    BY <2>1, IdleType DEF Idle
  <2>2. CASE CheckChain(c) /\ Go(c, "lock")
    BY <1>1, <2>2 DEF Go, Job, Labels
  <2>3. CASE Step(c, [call[c] EXCEPT !.at = "judge", !.open = FALSE, !.lifts = {}])
    <3> DEFINE job == [call[c] EXCEPT !.at = "judge", !.open = FALSE, !.lifts = {}]
    <3>1. job \in Job /\ job.writes = call[c].writes /\ job.at = "judge"
      BY <1>1 DEF Job, Labels
    <3> HIDE DEF job
    <3> QED
      BY <1>1, <2>3, <3>1 DEF job
  <2>4. CASE Judge(c) /\ Go(c, Begin(c))
    BY <1>1, <2>4 DEF Go, Begin, Job, Labels
  <2>5. CASE \E w \in call[c].checks : Step(c, [call[c] EXCEPT !.checks = @ \ {w}]) /\ At(c, "judge")
    BY <1>1, <2>5 DEF Job, At
  <2> QED
    BY <2>1, <2>2, <2>3, <2>4, <2>5 DEF CheckChain, CheckLocks, Judge
<1>4. UNCHANGED <<proposal, status, content, history, events>> /\ Rows' = Rows
  BY DEF CheckChain, CheckLocks, Judge, Rows
<1> QED
  BY <1>2, <1>3, <1>4, StepType DEF TypeOK, Job, history

LEMMA TypeAccepted ==
  ASSUME TypeOK, NEW c \in Calls, NEW w \in Targets(c), Accepted(c, w), proposal' = proposal
  PROVE  /\ w \in Rows /\ w \in Touched(c)
         /\ content' \in [Workflows -> Contents]
         /\ wrote' \subseteq Rows /\ again' \subseteq Rows /\ blind' \subseteq Rows /\ clean' \in BOOLEAN
<1>1. w \in Rows /\ w \in Touched(c) /\ w \in Workflows
  BY ProposalType DEF TypeOK, Targets
<1> QED
  BY <1>1 DEF Accepted, TypeOK, Contents

LEMMA TypeWrites ==
  ASSUME TypeOK, NEW c \in Calls, Put(c) \/ Close(c) \/ Finish(c) \/ DiscardRoot(c) \/ DiscardParts(c)
  PROVE  TypeOK'
<1>1. call[c] \in Job /\ call[c].writes \subseteq Rows
  BY JobType DEF TypeOK, Touched
<1>2. proposal' = proposal /\ Rows' = Rows /\ LockTypeOK' /\ events' = events
  BY DEF Put, Close, Finish, DiscardRoot, DiscardParts, Rows, TypeOK, LockTypeOK, lockVars
<1>3. PICK job \in Job : /\ Step(c, job) /\ job.writes \subseteq Rows
                         /\ (job.at \in {"put", "close"} => job.writes # {})
  <2>1. CASE Step(c, Idle)
    BY <2>1, IdleType DEF Idle
  <2>2. CASE \E w \in Targets(c) : At(c, "put") /\ Accepted(c, w)
                                     /\ Step(c, [call[c] EXCEPT !.at = "close", !.sent = {w}])
    <3>1. PICK w \in Targets(c) : Accepted(c, w) /\ Step(c, [call[c] EXCEPT !.at = "close", !.sent = {w}])
      BY <2>2
    <3>2. w \in Touched(c) /\ w \in Workflows
      BY <1>2, <3>1, TypeAccepted, ProposalType
    <3> DEFINE job == [call[c] EXCEPT !.at = "close", !.sent = {w}]
    <3>3. job \in Job /\ job.writes = call[c].writes
      BY <1>1, <3>2 DEF Job, Labels
    <3>4. job.writes # {}
      BY <3>2, <3>3 DEF Touched
    <3> HIDE DEF job
    <3> QED
      BY <1>1, <3>1, <3>3, <3>4 DEF job
  <2>3. CASE Close(c)
    <3> DEFINE rest == call[c].writes \ call[c].sent
    <3>1. CASE rest # {}
      <4>1. Step(c, [call[c] EXCEPT !.at = "put", !.writes = rest, !.sent = {}])
        BY <2>3, <3>1 DEF Close
      <4> DEFINE job == [call[c] EXCEPT !.at = "put", !.writes = rest, !.sent = {}]
      <4>2. job \in Job /\ job.writes = rest
        BY <1>1 DEF Job, Labels
      <4> HIDE DEF job
      <4> QED
        BY <1>1, <3>1, <4>1, <4>2 DEF job
    <3>2. CASE rest = {}
      <4>1. Step(c, Idle) \/ Step(c, [Idle EXCEPT !.at = "finish"])
        BY <2>3, <3>2 DEF Close
      <4>2. [Idle EXCEPT !.at = "finish"] \in Job
        BY DEF Idle, Job, Labels
      <4> QED
        BY <2>1, <4>1, <4>2 DEF Idle
    <3> QED
      BY <3>1, <3>2
  <2>4. CASE DiscardRoot(c)
    BY <1>1, <2>4 DEF DiscardRoot, Go, Job, Labels
  <2> QED
    BY <2>1, <2>2, <2>3, <2>4 DEF Put, Finish, DiscardParts
<1>4. status' \in [Rows -> Statuses]
  BY DEF Put, Close, Finish, DiscardRoot, DiscardParts, CloseRows, TypeOK, Statuses
<1>5. /\ content' \in [Workflows -> Contents]
      /\ wrote' \subseteq Rows /\ again' \subseteq Rows /\ blind' \subseteq Rows /\ clean' \in BOOLEAN
  <2>1. CASE UNCHANGED <<content, history>>
    BY <2>1 DEF TypeOK, history
  <2> QED
    BY <1>2, <2>1, TypeAccepted DEF Put, Close, Finish, DiscardRoot, DiscardParts
<1> QED
  BY <1>2, <1>3, <1>4, <1>5, StepType DEF TypeOK, Job

LEMMA TypeFailures ==
  ASSUME TypeOK, (\E c \in Calls : Throw(c) \/ AnswerLost(c)) \/ Restart
  PROVE  TypeOK'
<1>1. proposal' = proposal /\ Rows' = Rows /\ LockTypeOK' /\ status' = status
  BY DEF Throw, AnswerLost, Restart, Rows, TypeOK, LockTypeOK, lockVars
<1>2. events' \in [Events -> Nat]
  BY HappensType DEF Throw, AnswerLost, Restart, Events
<1>3. /\ call' \in [Calls -> Job]
      /\ \A d \in Calls : (Touched(d) \subseteq Rows)' /\ (call'[d].at \in {"put", "close"} => Touched(d)' # {})
  <2>1. CASE Restart
    BY <2>1, IdleType DEF Restart, Idle, Touched
  <2> QED
    BY <1>1, <2>1, IdleStepType DEF Throw, AnswerLost
<1>4. /\ content' \in [Workflows -> Contents]
      /\ wrote' \subseteq Rows /\ again' \subseteq Rows /\ blind' \subseteq Rows /\ clean' \in BOOLEAN
  <2>1. CASE UNCHANGED <<content, history>>
    BY <2>1 DEF TypeOK, history
  <2> QED
    BY <1>1, <2>1, TypeAccepted DEF Throw, AnswerLost, Restart
<1> QED
  BY <1>1, <1>2, <1>3, <1>4 DEF TypeOK, Job

LEMMA TypeUsers ==
  ASSUME TypeOK, NEW w \in Rows, EditLock(w) \/ \E new \in {"base", "other", "gone"} : Edit(w, new)
  PROVE  TypeOK'
<1>1. w \in Workflows
  BY ProposalType
<1>2. events' \in [Events -> Nat]
  BY HappensType DEF EditLock, Edit, Events
<1>3. CASE EditLock(w)
  <2>1. LockTypeOK'
    BY <1>1, <1>3 DEF EditLock, Lock, Unlock, TypeOK, LockTypeOK
  <2> QED
    BY <1>2, <1>3, <2>1 DEF EditLock, TypeOK, Touched, Rows, history
<1>4. ASSUME NEW new \in {"base", "other", "gone"}, Edit(w, new)
      PROVE  TypeOK'
  <2>1. content' \in [Workflows -> Contents]
    BY <1>1, <1>4 DEF Edit, TypeOK, Contents
  <2>2. call \in [Calls -> Job] /\ call' = [c \in Calls |-> [call[c] EXCEPT !.early = @ \ {w}]]
    BY <1>4 DEF Edit, TypeOK, Job
  <2>3. call' \in [Calls -> Job] /\ \A c \in Calls : call'[c].writes = call[c].writes /\ call'[c].at = call[c].at
    BY <2>2 DEF Job
  <2>4. UNCHANGED <<lockVars, proposal, status, history>> /\ Rows' = Rows
    BY <1>4 DEF Edit, Rows
  <2> QED
    BY <1>2, <2>1, <2>3, <2>4 DEF TypeOK, Touched, Job, history, LockTypeOK, lockVars
<1> QED
  BY <1>3, <1>4

LEMMA TypeNext == TypeOK /\ [Next]_vars => TypeOK'
<1> SUFFICES ASSUME TypeOK, [Next]_vars PROVE TypeOK'
  OBVIOUS
<1>1. ASSUME NEW c \in Calls, (\E lifts \in {{}, locked} : Apply(c, lifts)) \/ Discard(c)
      PROVE  TypeOK'
  <2>1. locked \in SUBSET Workflows
    BY DEF TypeOK, LockTypeOK
  <2> QED
    BY <1>1, <2>1, TypeRequest
<1>2. CASE UNCHANGED vars
  BY <1>2 DEF vars, history, lockVars, TypeOK, LockTypeOK, Touched, Rows
<1> QED
  BY <1>1, <1>2, TypeGuards, TypeWrites, TypeFailures, TypeUsers DEF Next, Continue

\* Every variable keeps its type, and a request that writes has something to
\* write, whatever the proposal and the number of requests.
THEOREM TypeCorrect == Spec => []TypeOK
<1> QED
  BY TypeInit, TypeNext, PTL DEF Spec

---------------------------------------------------------------------------
(* The parts are written first, and an applied proposal was written whole *)

\* A request that may still write: its proposal was pending when it read it.
Committed(job) ==
    job.at \in {"judge", "put", "close", "finish"} \/ (job.at \in {"chain", "lock"} /\ job.open)

\* What such a request does not write any more is applied; it writes the root
\* last, if at all.
Sound(job, p, st, wr) ==
    /\ Committed(job) =>
           /\ \A w \in p.parts : w \notin job.writes => st[w] = "applied"
           /\ \A w \in job.writes : w \in p.parts \/ (w = p.root /\ p.touchesRoot)
           /\ p.touchesRoot => p.root \in job.writes
    /\ job.at = "finish" => job.writes = {} /\ ~ p.touchesRoot
    /\ job.at = "close" => \E w \in job.writes : /\ job.sent = {w} /\ w \in wr
                                                  /\ (w = p.root => job.writes = {w})
    /\ job.at = "parts" => st[p.root] # "pending"

RowsInv ==
    /\ \A w \in proposal.parts : status[w] = "applied" => w \in wrote
    /\ status[proposal.root] = "pending" => \A w \in proposal.parts : status[w] # "discarded"

OrderInv ==
    /\ PartsFirst /\ AppliedIsWhole /\ RowsInv
    /\ \A c \in Calls : Sound(call[c], proposal, status, wrote)

\* What is applied stays so, a decision is not undone, what is written too.
Grows ==
    /\ proposal' = proposal /\ wrote \subseteq wrote'
    /\ \A w \in proposal.parts : status[w] = "applied" => status'[w] = "applied"
    /\ status[proposal.root] # "pending" => status'[proposal.root] # "pending"

LEMMA SoundIdle ==
  ASSUME NEW p, NEW st, NEW wr
  PROVE  Sound(Idle, p, st, wr)
BY DEF Sound, Committed, Idle

LEMMA SoundOthers ==
  ASSUME TypeOK, NEW c \in Calls, NEW job, Step(c, job), Grows,
         \A d \in Calls : Sound(call[d], proposal, status, wrote),
         Sound(job, proposal, status', wrote')
  PROVE  \A d \in Calls : Sound(call'[d], proposal', status', wrote')
<1> SUFFICES ASSUME NEW d \in Calls PROVE Sound(call'[d], proposal, status', wrote')
  BY DEF Grows
<1>1. CASE d = c
  BY <1>1 DEF Step, TypeOK
<1>2. CASE d # c
  <2>1. call'[d] = call[d]
    BY <1>2 DEF Step, TypeOK
  <2>2. Sound(call[d], proposal, status, wrote)
    OBVIOUS
  <2> QED
    BY <2>1, <2>2 DEF Sound, Grows
<1> QED
  BY <1>1, <1>2

LEMMA OrderInit == Init => OrderInv
BY SoundIdle DEF Init, OrderInv, PartsFirst, AppliedIsWhole, RowsInv, Rows

LEMMA OrderRequest ==
  ASSUME TypeOK, OrderInv, NEW c \in Calls, NEW lifts, Apply(c, lifts) \/ Discard(c)
  PROVE  OrderInv'
<1>1. UNCHANGED <<proposal, status, wrote>>
  BY DEF Apply, Discard, Arrive
<1>2. Grows
  BY <1>1 DEF Grows
<1>3. CASE Apply(c, lifts)
  <2> DEFINE job == [Idle EXCEPT !.at = "chain", !.open = status[proposal.root] = "pending",
                         !.checks = PendingParts \union Root, !.writes = PendingParts \union Root,
                         !.lifts = lifts, !.early = Rows]
  <2>1. Step(c, job)
    BY <1>3 DEF Apply, Arrive
  <2>2. /\ job.at = "chain" /\ job.open = (status[proposal.root] = "pending")
        /\ job.writes = PendingParts \union Root
    BY DEF Idle
  <2>3. \A w \in proposal.parts : status[w] \in Statuses
    BY DEF TypeOK, Rows
  <2> HIDE DEF job
  <2>4. Sound(job, proposal, status, wrote)
    BY <2>2, <2>3, ProposalType DEF Sound, Committed, OrderInv, RowsInv, PendingParts, Root, Statuses
  <2> QED
    BY <1>1, <1>2, <2>1, <2>4, SoundOthers DEF OrderInv, PartsFirst, AppliedIsWhole, RowsInv, Root
<1>4. CASE Discard(c)
  <2>1. Step(c, [Idle EXCEPT !.at = "discard"])
    BY <1>4 DEF Discard, Arrive
  <2>2. Sound([Idle EXCEPT !.at = "discard"], proposal, status, wrote)
    BY DEF Sound, Committed, Idle
  <2> QED
    BY <1>1, <1>2, <2>1, <2>2, SoundOthers DEF OrderInv, PartsFirst, AppliedIsWhole, RowsInv, Root
<1> QED
  BY <1>3, <1>4

LEMMA OrderGuards ==
  ASSUME TypeOK, OrderInv, NEW c \in Calls, CheckChain(c) \/ CheckLocks(c) \/ Judge(c)
  PROVE  OrderInv'
<1>1. UNCHANGED <<proposal, status, wrote>> /\ Grows
  BY DEF CheckChain, CheckLocks, Judge, history, Grows
<1>2. call[c] \in Job /\ Sound(call[c], proposal, status, wrote)
  BY JobType DEF OrderInv
<1>3. PICK job : Step(c, job) /\ Sound(job, proposal, status, wrote)
  <2>1. CASE Step(c, Idle)
    BY <2>1, SoundIdle
  <2>2. CASE CheckChain(c) /\ Go(c, "lock")
    <3> DEFINE job == [call[c] EXCEPT !.at = "lock"]
    <3>1. job.at = "lock" /\ job.open = call[c].open /\ job.writes = call[c].writes /\ call[c].at = "chain"
      BY <1>2, <2>2 DEF Job, CheckChain, At
    <3>2. Step(c, job)
      BY <2>2 DEF Go
    <3> HIDE DEF job
    <3>3. Sound(job, proposal, status, wrote)
      BY <1>2, <3>1 DEF Sound, Committed
    <3> QED
      BY <3>2, <3>3
  <2>3. CASE At(c, "lock") /\ StillOpen(c) /\ Step(c, [call[c] EXCEPT !.at = "judge", !.open = FALSE, !.lifts = {}])
    <3> DEFINE job == [call[c] EXCEPT !.at = "judge", !.open = FALSE, !.lifts = {}]
    <3>1. job.at = "judge" /\ job.writes = call[c].writes /\ call[c].at = "lock" /\ call[c].open
      BY <1>2, <2>3 DEF Job, At, StillOpen
    <3> HIDE DEF job
    <3>3. Sound(job, proposal, status, wrote)
      BY <1>2, <3>1 DEF Sound, Committed
    <3> QED
      BY <2>3, <3>3 DEF job
  <2>4. CASE Judge(c) /\ Go(c, Begin(c))
    <3> DEFINE job == [call[c] EXCEPT !.at = Begin(c)]
    <3>1. /\ job.at = Begin(c) /\ job.writes = call[c].writes /\ call[c].at = "judge"
          /\ job.at = IF job.writes = {} THEN "finish" ELSE "put"
      BY <1>2, <2>4 DEF Job, Judge, At, Begin
    <3>2. Step(c, job)
      BY <2>4 DEF Go
    <3> HIDE DEF job
    <3>3. Sound(job, proposal, status, wrote)
      BY <1>2, <3>1, ProposalType DEF Sound, Committed
    <3> QED
      BY <3>2, <3>3
  <2>5. CASE \E w \in call[c].checks : Step(c, [call[c] EXCEPT !.checks = @ \ {w}]) /\ At(c, "judge")
    <3>1. PICK w \in call[c].checks : Step(c, [call[c] EXCEPT !.checks = @ \ {w}]) /\ At(c, "judge")
      BY <2>5
    <3> DEFINE job == [call[c] EXCEPT !.checks = @ \ {w}]
    <3>2. job.at = "judge" /\ job.writes = call[c].writes /\ call[c].at = "judge"
      BY <1>2, <3>1 DEF Job, At
    <3> HIDE DEF job
    <3>3. Sound(job, proposal, status, wrote)
      BY <1>2, <3>2 DEF Sound, Committed
    <3> QED
      BY <3>1, <3>3 DEF job
  <2> QED
    BY <2>1, <2>2, <2>3, <2>4, <2>5 DEF CheckChain, CheckLocks, Judge
<1> QED
  BY <1>1, <1>3, SoundOthers DEF OrderInv, PartsFirst, AppliedIsWhole, RowsInv, Root

\* A write that n8n accepts: a part, or the root once every part is applied.
LEMMA OrderAccepted ==
  ASSUME TypeOK, OrderInv, NEW c \in Calls, At(c, "put"), NEW w \in Targets(c), Accepted(c, w),
         UNCHANGED <<proposal, status>>
  PROVE  /\ w \in call[c].writes /\ (w = proposal.root => call[c].writes = {w})
         /\ wrote' = wrote \union {w} /\ Grows
         /\ PartsFirst' /\ AppliedIsWhole' /\ RowsInv'
<1>1. w \in call[c].writes /\ (w = proposal.root => call[c].writes = {w})
  BY DEF Targets, Touched
<1>2. wrote' = wrote \union {w} /\ Grows
  BY DEF Accepted, Grows
<1>3. w = proposal.root => \A v \in proposal.parts : status[v] = "applied"
  <2>1. Sound(call[c], proposal, status, wrote)
    BY DEF OrderInv
  <2> QED
    BY <1>1, <2>1, ProposalType DEF Sound, Committed, At
<1> QED
  BY <1>1, <1>2, <1>3 DEF OrderInv, PartsFirst, AppliedIsWhole, RowsInv, Root

LEMMA OrderPut ==
  ASSUME TypeOK, OrderInv, NEW c \in Calls, Put(c)
  PROVE  OrderInv'
<1>1. CASE UNCHANGED <<content, history>> /\ Step(c, Idle)
  <2>1. UNCHANGED <<proposal, status, wrote>> /\ Grows
    BY <1>1 DEF Put, history, Grows
  <2> QED
    BY <1>1, <2>1, SoundIdle, SoundOthers DEF OrderInv, PartsFirst, AppliedIsWhole, RowsInv, Root
<1>2. ASSUME NEW w \in Targets(c), Accepted(c, w), Step(c, [call[c] EXCEPT !.at = "close", !.sent = {w}])
      PROVE  OrderInv'
  <2>1. call[c] \in Job /\ Sound(call[c], proposal, status, wrote) /\ call[c].at = "put"
    BY JobType DEF OrderInv, Put, At
  <2>2. UNCHANGED <<proposal, status>> /\ At(c, "put")
    BY DEF Put
  <2>3. /\ w \in call[c].writes /\ (w = proposal.root => call[c].writes = {w})
        /\ wrote' = wrote \union {w} /\ Grows
        /\ PartsFirst' /\ AppliedIsWhole' /\ RowsInv'
    BY <1>2, <2>2, OrderAccepted
  <2> DEFINE job == [call[c] EXCEPT !.at = "close", !.sent = {w}]
  <2>4. job.at = "close" /\ job.writes = call[c].writes /\ job.sent = {w}
    BY <2>1 DEF Job
  <2> HIDE DEF job
  <2>5. Sound(job, proposal, status', wrote')
    BY <2>1, <2>2, <2>3, <2>4 DEF Sound, Committed
  <2>6. Step(c, job)
    BY <1>2 DEF job
  <2>7. \A d \in Calls : Sound(call[d], proposal, status, wrote)
    BY DEF OrderInv
  <2>8. \A d \in Calls : Sound(call'[d], proposal', status', wrote')
    BY <2>3, <2>5, <2>6, <2>7, SoundOthers
  <2> QED
    BY <2>3, <2>8 DEF OrderInv
<1> QED
  BY <1>1, <1>2 DEF Put

LEMMA OrderClose ==
  ASSUME TypeOK, OrderInv, NEW c \in Calls, Close(c)
  PROVE  OrderInv'
<1> DEFINE rest == call[c].writes \ call[c].sent
<1>1. call[c] \in Job /\ Sound(call[c], proposal, status, wrote) /\ call[c].at = "close"
  BY JobType DEF OrderInv, Close, At
<1>2. PICK w \in call[c].writes : call[c].sent = {w} /\ w \in wrote /\ (w = proposal.root => call[c].writes = {w})
  BY <1>1 DEF Sound
<1>3. /\ UNCHANGED <<proposal, wrote>> /\ w \in Rows
      /\ status' = [v \in Rows |-> IF v = w THEN "applied" ELSE status[v]]
  BY <1>1, <1>2 DEF Close, CloseRows, history, TypeOK, Touched
<1>4. Grows
  BY <1>3 DEF Grows, Rows
<1>5. w = proposal.root => \A v \in proposal.parts : status[v] = "applied" /\ v \in wrote
  BY <1>1, <1>2, ProposalType DEF Sound, Committed, OrderInv, RowsInv
<1>6. w = proposal.root => proposal.touchesRoot
  BY <1>1, <1>2, ProposalType DEF Sound, Committed
<1>7. PartsFirst' /\ AppliedIsWhole' /\ RowsInv'
  <2>1. PartsFirst'
    BY <1>3 DEF OrderInv, PartsFirst
  <2>2. RowsInv'
    BY <1>2, <1>3, ProposalType DEF OrderInv, RowsInv, Rows
  <2>3. AppliedIsWhole'
    <3>1. CASE w = proposal.root
      BY <1>2, <1>3, <1>5, <3>1, ProposalType DEF AppliedIsWhole, Root, Rows
    <3>2. CASE w # proposal.root
      BY <1>2, <1>3, <1>4, <3>2, ProposalType DEF OrderInv, AppliedIsWhole, Root, Rows, Grows
    <3> QED
      BY <3>1, <3>2
  <2> QED
    BY <2>1, <2>2, <2>3
<1>8. PICK job : Step(c, job) /\ Sound(job, proposal, status', wrote')
  <2>1. CASE rest # {}
    <3> DEFINE job == [call[c] EXCEPT !.at = "put", !.writes = rest, !.sent = {}]
    <3>1. Step(c, job)
      BY <2>1 DEF Close
    <3>2. job.at = "put" /\ job.writes = rest
      BY <1>1 DEF Job
    <3>3. \A v \in proposal.parts : v \notin rest => status'[v] = "applied"
      BY <1>1, <1>2, <1>3 DEF Sound, Committed, Rows
    <3>4. w # proposal.root
      BY <1>2, <2>1
    <3> HIDE DEF job
    <3>5. Sound(job, proposal, status', wrote')
      BY <1>1, <1>2, <3>2, <3>3, <3>4 DEF Sound, Committed
    <3> QED
      BY <3>1, <3>5
  <2>2. CASE rest = {} /\ proposal.touchesRoot
    BY <2>2, SoundIdle DEF Close
  <2>3. CASE rest = {} /\ ~ proposal.touchesRoot
    <3> DEFINE job == [Idle EXCEPT !.at = "finish"]
    <3>1. Step(c, job)
      BY <2>3 DEF Close
    <3>2. job.at = "finish" /\ job.writes = {}
      BY DEF Idle
    <3>3. \A v \in proposal.parts : status'[v] = "applied"
      BY <1>1, <1>2, <1>3, <2>3 DEF Sound, Committed, Rows
    <3> HIDE DEF job
    <3>4. Sound(job, proposal, status', wrote')
      BY <2>3, <3>2, <3>3 DEF Sound, Committed
    <3> QED
      BY <3>1, <3>4
  <2> QED
    BY <2>1, <2>2, <2>3
<1>9. \A d \in Calls : Sound(call[d], proposal, status, wrote)
  BY DEF OrderInv
<1> QED
  BY <1>4, <1>7, <1>8, <1>9, SoundOthers DEF OrderInv

LEMMA OrderFinish ==
  ASSUME TypeOK, OrderInv, NEW c \in Calls, Finish(c)
  PROVE  OrderInv'
<1>1. Sound(call[c], proposal, status, wrote) /\ call[c].at = "finish"
  BY DEF OrderInv, Finish, At
<1>2. ~ proposal.touchesRoot /\ \A v \in proposal.parts : status[v] = "applied" /\ v \in wrote
  BY <1>1 DEF Sound, Committed, OrderInv, RowsInv
<1>3. /\ UNCHANGED <<proposal, wrote>> /\ Step(c, Idle)
      /\ status' = [v \in Rows |-> IF v = proposal.root THEN "applied" ELSE status[v]]
  BY DEF Finish, CloseRows, history
<1>4. Grows
  BY <1>3 DEF Grows, Rows
<1>5. PartsFirst' /\ AppliedIsWhole' /\ RowsInv'
  BY <1>2, <1>3, <1>4, ProposalType DEF OrderInv, PartsFirst, AppliedIsWhole, RowsInv, Root, Rows, Grows
<1> QED
  BY <1>3, <1>4, <1>5, SoundIdle, SoundOthers DEF OrderInv

LEMMA OrderDiscard ==
  ASSUME TypeOK, OrderInv, NEW c \in Calls, DiscardRoot(c) \/ DiscardParts(c)
  PROVE  OrderInv'
<1>1. call[c] \in Job /\ Sound(call[c], proposal, status, wrote) /\ UNCHANGED <<proposal, wrote>>
  BY JobType DEF OrderInv, DiscardRoot, DiscardParts, history
<1>2. CASE DiscardRoot(c)
  <2>1. status' = [status EXCEPT ![proposal.root] = "discarded"] /\ status \in [Rows -> Statuses]
    BY <1>2 DEF DiscardRoot, TypeOK
  <2>2. status'[proposal.root] = "discarded" /\ \A v \in proposal.parts : status'[v] = status[v]
    BY <2>1, ProposalType DEF Rows
  <2>3. Grows
    BY <1>1, <2>2 DEF Grows
  <2> DEFINE job == [call[c] EXCEPT !.at = "parts"]
  <2>4. job.at = "parts" /\ Step(c, job)
    BY <1>1, <1>2 DEF Job, DiscardRoot, Go
  <2> HIDE DEF job
  <2>5. Sound(job, proposal, status', wrote')
    BY <2>2, <2>4 DEF Sound, Committed
  <2>6. PartsFirst' /\ AppliedIsWhole' /\ RowsInv'
    BY <1>1, <2>2 DEF OrderInv, PartsFirst, AppliedIsWhole, RowsInv
  <2> QED
    BY <2>3, <2>4, <2>5, <2>6, SoundOthers DEF OrderInv
<1>3. CASE DiscardParts(c)
  <2>1. /\ status' = [w \in Rows |-> IF w \in PendingParts THEN "discarded" ELSE status[w]]
        /\ status[proposal.root] # "pending" /\ Step(c, Idle)
    BY <1>1, <1>3 DEF DiscardParts, Followers, Sound, At
  <2>2. /\ status'[proposal.root] = status[proposal.root]
        /\ \A v \in proposal.parts : (status'[v] = "applied") = (status[v] = "applied")
    BY <2>1, ProposalType DEF Rows, PendingParts
  <2>3. Grows
    BY <1>1, <2>2 DEF Grows
  <2>4. PartsFirst' /\ AppliedIsWhole' /\ RowsInv'
    BY <1>1, <2>1, <2>2 DEF OrderInv, PartsFirst, AppliedIsWhole, RowsInv, Root
  <2> QED
    BY <2>1, <2>3, <2>4, SoundIdle, SoundOthers DEF OrderInv
<1> QED
  BY <1>2, <1>3

LEMMA OrderOthers ==
  ASSUME TypeOK, OrderInv,
         \/ \E c \in Calls : Throw(c) \/ AnswerLost(c)
         \/ Restart
         \/ \E w \in Rows : EditLock(w) \/ \E new \in {"base", "other", "gone"} : Edit(w, new)
         \/ UNCHANGED vars
  PROVE  OrderInv'
<1>0. \A d \in Calls : Sound(call[d], proposal, status, wrote)
  BY DEF OrderInv
<1>1. ASSUME UNCHANGED <<proposal, status, wrote>>, \A d \in Calls : Sound(call'[d], proposal, status, wrote)
      PROVE  OrderInv'
  BY <1>1 DEF OrderInv, PartsFirst, AppliedIsWhole, RowsInv, Root
<1>2. ASSUME NEW c \in Calls, Throw(c) PROVE OrderInv'
  <2>1. UNCHANGED <<proposal, status, wrote>> /\ Step(c, Idle) /\ Grows
    BY <1>2 DEF Throw, history, Grows
  <2> QED
    BY <1>0, <1>1, <2>1, SoundIdle, SoundOthers
<1>3. ASSUME NEW c \in Calls, AnswerLost(c) PROVE OrderInv'
  <2>1. PICK w \in Targets(c) : Accepted(c, w)
    BY <1>3 DEF AnswerLost
  <2>2. At(c, "put") /\ UNCHANGED <<proposal, status>> /\ Step(c, Idle)
    BY <1>3 DEF AnswerLost
  <2>3. Grows /\ PartsFirst' /\ AppliedIsWhole' /\ RowsInv'
    BY <2>1, <2>2, OrderAccepted
  <2> QED
    BY <1>0, <2>2, <2>3, SoundIdle, SoundOthers DEF OrderInv
<1>4. CASE Restart
  BY <1>1, <1>4, SoundIdle DEF Restart, history
<1>5. ASSUME NEW w \in Rows, EditLock(w) PROVE OrderInv'
  BY <1>0, <1>1, <1>5 DEF EditLock, history
<1>6. ASSUME NEW w \in Rows, NEW new \in {"base", "other", "gone"}, Edit(w, new) PROVE OrderInv'
  <2>1. UNCHANGED <<proposal, status, wrote>>
    BY <1>6 DEF Edit, history
  <2>2. call' = [c \in Calls |-> [call[c] EXCEPT !.early = @ \ {w}]]
    BY <1>6 DEF Edit
  <2>3. \A d \in Calls : Sound(call'[d], proposal, status, wrote)
    <3> SUFFICES ASSUME NEW d \in Calls PROVE Sound(call'[d], proposal, status, wrote)
      OBVIOUS
    <3>1. call[d] \in Job /\ call'[d] = [call[d] EXCEPT !.early = @ \ {w}]
      BY <2>2, JobType
    <3>2. /\ call'[d].at = call[d].at /\ call'[d].writes = call[d].writes
          /\ call'[d].sent = call[d].sent /\ call'[d].open = call[d].open
      BY <3>1 DEF Job
    <3> QED
      BY <1>0, <3>2 DEF Sound, Committed
  <2> QED
    BY <1>1, <2>1, <2>3
<1>7. CASE UNCHANGED vars
  BY <1>0, <1>1, <1>7 DEF vars, history
<1> QED
  BY <1>2, <1>3, <1>4, <1>5, <1>6, <1>7

LEMMA OrderNext == TypeOK /\ OrderInv /\ [Next]_vars => OrderInv'
BY OrderRequest, OrderGuards, OrderPut, OrderClose, OrderFinish, OrderDiscard, OrderOthers DEF Next, Continue

\* Whatever fails, overlaps or is retried, the root is not written before every
\* part has been, and a proposal that says applied was written whole.
THEOREM PartsBeforeRoot == Spec => []WrittenWhole
<1>1. OrderInv => WrittenWhole
  BY DEF OrderInv, WrittenWhole
<1> QED
  BY <1>1, TypeInit, TypeNext, OrderInit, OrderNext, PTL DEF Spec

---------------------------------------------------------------------------
(* No edit is overwritten unseen, nothing is replayed, a decision is final *)

\* The workflows a request has judged and not written yet.
Judged(job) ==
    CASE job.at \in {"chain", "lock", "judge"} -> job.writes \ job.checks
      [] job.at = "put"                        -> job.writes
      [] job.at = "close"                      -> job.writes \ job.sent
      [] OTHER                                 -> {}

\* A request that found the proposal pending and has not closed it.
Deciding(job) == Committed(job) \/ job.at = "discard"

\* None of them was edited before the request; when it is alone, none of them
\* is the proposal's already, and the proposal is pending.
Aware(job, ct) == \A w \in Judged(job) : w \in job.early => ct[w] # "other"

Current(job, ct, pending) ==
    /\ \A w \in Judged(job) : ct[w] # "candidate"
    /\ Deciding(job) => pending

Pending == status[proposal.root] = "pending"

DecisionInv ==
    /\ NothingBlind
    /\ \A c \in Calls : Aware(call[c], content)
    /\ clean => /\ again = {}
                /\ \A c, d \in Calls : ~ At(c, "idle") /\ ~ At(d, "idle") => c = d
                /\ \A c \in Calls : Current(call[c], content, Pending)

LEMMA IdleDecision ==
  ASSUME NEW ct, NEW pending
  PROVE  Judged(Idle) = {} /\ ~ Deciding(Idle) /\ Aware(Idle, ct) /\ Current(Idle, ct, pending)
BY DEF Judged, Deciding, Committed, Aware, Current, Idle

\* A step of one request that leaves what n8n serves and the status alone.
LEMMA DecisionStep ==
  ASSUME TypeOK, DecisionInv, NEW c \in Calls, NEW job, Step(c, job), ~ At(c, "idle"),
         UNCHANGED <<proposal, status, content, history>>,
         Judged(job) \subseteq Judged(call[c]) \union {w \in Workflows : Fresh(w)},
         job.early \subseteq call[c].early, Deciding(job) => Deciding(call[c])
  PROVE  DecisionInv'
<1>1. \A d \in Calls : call'[d] = IF d = c THEN job ELSE call[d]
  BY DEF Step, TypeOK
<1>2. UNCHANGED <<proposal, status, content, wrote, again, blind, clean>> /\ Pending' = Pending
  BY DEF history, Pending
<1>3. Aware(job, content)
  BY DEF DecisionInv, Aware, Fresh
<1>4. clean => Current(job, content, Pending)
  BY DEF DecisionInv, Current, Fresh
<1>5. \A d \in Calls : Aware(call'[d], content')
  BY <1>1, <1>2, <1>3 DEF DecisionInv
<1>6. clean => \A d \in Calls : Current(call'[d], content', Pending')
  BY <1>1, <1>2, <1>4 DEF DecisionInv
<1>7. clean => \A d, e \in Calls : call'[d].at # "idle" /\ call'[e].at # "idle" => d = e
  BY <1>1 DEF DecisionInv, At
<1> QED
  BY <1>2, <1>5, <1>6, <1>7 DEF DecisionInv, NothingBlind, At

\* A request that ends, whatever it has done to the status.
LEMMA DecisionEnd ==
  ASSUME TypeOK, DecisionInv, NEW c \in Calls, NEW job, Step(c, job), ~ At(c, "idle"),
         UNCHANGED <<proposal, content, history>>, Judged(job) \subseteq Judged(call[c]),
         job.early \subseteq call[c].early,
         clean => (Deciding(job) => Pending'),
         clean => \A d \in Calls \ {c} : Deciding(call[d]) => Pending'
  PROVE  DecisionInv'
<1>1. \A d \in Calls : call'[d] = IF d = c THEN job ELSE call[d]
  BY DEF Step, TypeOK
<1>2. UNCHANGED <<proposal, content, wrote, again, blind, clean>>
  BY DEF history
<1>3. Aware(job, content)
  BY DEF DecisionInv, Aware
<1>4. clean => Current(job, content, Pending')
  BY DEF DecisionInv, Current
<1>5. \A d \in Calls : Aware(call'[d], content')
  BY <1>1, <1>2, <1>3 DEF DecisionInv
<1>6. clean => \A d \in Calls : Current(call'[d], content', Pending')
  BY <1>1, <1>2, <1>4 DEF DecisionInv, Current
<1>7. clean => \A d, e \in Calls : call'[d].at # "idle" /\ call'[e].at # "idle" => d = e
  BY <1>1 DEF DecisionInv, At
<1> QED
  BY <1>2, <1>5, <1>6, <1>7 DEF DecisionInv, NothingBlind, At

\* The others are idle while a request is alone.
LEMMA OthersIdle ==
  ASSUME TypeOK, DecisionInv, NEW c \in Calls, ~ At(c, "idle"), clean
  PROVE  \A d \in Calls \ {c} : At(d, "idle") /\ ~ Deciding(call[d]) /\ Judged(call[d]) = {}
BY DEF DecisionInv, At, Deciding, Committed, Judged

LEMMA DecisionInit == Init => DecisionInv
<1> SUFFICES ASSUME Init PROVE DecisionInv
  OBVIOUS
<1>1. \A c \in Calls : call[c] = Idle
  BY DEF Init
<1>2. \A c \in Calls : Aware(call[c], content) /\ Current(call[c], content, Pending) /\ At(c, "idle")
  BY <1>1, IdleDecision DEF At, Idle
<1> QED
  BY <1>2 DEF Init, DecisionInv, NothingBlind

LEMMA DecisionRequest ==
  ASSUME TypeOK, DecisionInv, NEW c \in Calls, NEW lifts, Apply(c, lifts) \/ Discard(c)
  PROVE  DecisionInv'
<1>1. PICK job : Arrive(c, job) /\ Judged(job) = {} /\ (Deciding(job) => Pending)
  <2>1. CASE Apply(c, lifts)
    <3> DEFINE job == [Idle EXCEPT !.at = "chain", !.open = status[proposal.root] = "pending",
                           !.checks = PendingParts \union Root, !.writes = PendingParts \union Root,
                           !.lifts = lifts, !.early = Rows]
    <3>1. /\ job.at = "chain" /\ job.open = (status[proposal.root] = "pending")
          /\ job.writes = PendingParts \union Root /\ job.checks = PendingParts \union Root
      BY DEF Idle
    <3>2. Arrive(c, job)
      BY <2>1 DEF Apply
    <3> HIDE DEF job
    <3>3. Judged(job) = {} /\ (Deciding(job) => Pending)
      BY <3>1 DEF Judged, Deciding, Committed, Pending
    <3> QED
      BY <3>2, <3>3
  <2>2. CASE Discard(c)
    <3>1. [Idle EXCEPT !.at = "discard"].at = "discard"
      BY DEF Idle
    <3> QED
      BY <2>2, <3>1 DEF Discard, Judged, Pending
  <2> QED
    BY <2>1, <2>2
<1>2. \A d \in Calls : call'[d] = IF d = c THEN job ELSE call[d]
  BY <1>1 DEF Arrive, Step, TypeOK
<1>3. /\ UNCHANGED <<proposal, status, content, wrote, again, blind>> /\ Pending' = Pending
      /\ (clean' => clean /\ \A d \in Calls : At(d, "idle"))
  BY <1>1 DEF Arrive, Pending
<1>4. \A d \in Calls : Aware(call'[d], content')
  BY <1>1, <1>2, <1>3 DEF DecisionInv, Aware
<1>5. clean' => \A d \in Calls : Current(call'[d], content', Pending')
  BY <1>1, <1>2, <1>3 DEF DecisionInv, Current
<1>6. clean' => \A d, e \in Calls : call'[d].at # "idle" /\ call'[e].at # "idle" => d = e
  BY <1>2, <1>3 DEF At
<1> QED
  BY <1>3, <1>4, <1>5, <1>6 DEF DecisionInv, NothingBlind, At

LEMMA DecisionGuards ==
  ASSUME TypeOK, DecisionInv, NEW c \in Calls, CheckChain(c) \/ CheckLocks(c) \/ Judge(c)
  PROVE  DecisionInv'
<1>1. UNCHANGED <<proposal, status, content, history>> /\ call[c] \in Job /\ ~ At(c, "idle")
  BY JobType DEF CheckChain, CheckLocks, Judge, At
<1>2. PICK job : /\ Step(c, job) /\ job.early \subseteq call[c].early
                 /\ Judged(job) \subseteq Judged(call[c]) \union {w \in Workflows : Fresh(w)}
                 /\ (Deciding(job) => Deciding(call[c]))
  <2>1. CASE Step(c, Idle)
    <3>1. Idle.early = {}
      BY DEF Idle
    <3> QED
      BY <2>1, <3>1, IdleDecision
  <2>2. CASE CheckChain(c) /\ Go(c, "lock")
    <3> DEFINE job == [call[c] EXCEPT !.at = "lock"]
    <3>1. /\ job.at = "lock" /\ job.open = call[c].open /\ job.writes = call[c].writes
          /\ job.checks = call[c].checks /\ job.early = call[c].early /\ call[c].at = "chain"
      BY <1>1, <2>2 DEF Job, CheckChain, At
    <3>2. Step(c, job)
      BY <2>2 DEF Go
    <3> HIDE DEF job
    <3> QED
      BY <3>1, <3>2 DEF Judged, Deciding, Committed
  <2>3. CASE At(c, "lock") /\ StillOpen(c) /\ Step(c, [call[c] EXCEPT !.at = "judge", !.open = FALSE, !.lifts = {}])
    <3> DEFINE job == [call[c] EXCEPT !.at = "judge", !.open = FALSE, !.lifts = {}]
    <3>1. /\ job.at = "judge" /\ job.writes = call[c].writes /\ job.checks = call[c].checks
          /\ job.early = call[c].early /\ call[c].at = "lock" /\ call[c].open
      BY <1>1, <2>3 DEF Job, At, StillOpen
    <3>2. Step(c, job)
      BY <2>3
    <3> HIDE DEF job
    <3> QED
      BY <3>1, <3>2 DEF Judged, Deciding, Committed
  <2>4. CASE Judge(c) /\ call[c].checks = {} /\ Go(c, Begin(c))
    <3> DEFINE job == [call[c] EXCEPT !.at = Begin(c)]
    <3>1. /\ job.at = Begin(c) /\ job.writes = call[c].writes /\ job.early = call[c].early
          /\ call[c].at = "judge" /\ job.at \in {"put", "finish"}
      BY <1>1, <2>4 DEF Job, Judge, At, Begin
    <3>2. Step(c, job)
      BY <2>4 DEF Go
    <3> HIDE DEF job
    <3> QED
      BY <2>4, <3>1, <3>2 DEF Judged, Deciding, Committed
  <2>5. CASE \E w \in call[c].checks : Fresh(w) /\ Step(c, [call[c] EXCEPT !.checks = @ \ {w}]) /\ At(c, "judge")
    <3>1. PICK w \in call[c].checks : Fresh(w) /\ Step(c, [call[c] EXCEPT !.checks = @ \ {w}]) /\ At(c, "judge")
      BY <2>5
    <3> DEFINE job == [call[c] EXCEPT !.checks = @ \ {w}]
    <3>2. /\ job.at = "judge" /\ job.writes = call[c].writes /\ job.checks = call[c].checks \ {w}
          /\ job.early = call[c].early /\ call[c].at = "judge" /\ w \in Workflows
      BY <1>1, <3>1 DEF Job, At
    <3>3. Step(c, job)
      BY <3>1
    <3> HIDE DEF job
    <3> QED
      BY <3>1, <3>2, <3>3 DEF Judged, Deciding, Committed
  <2> QED
    BY <2>1, <2>2, <2>3, <2>4, <2>5 DEF CheckChain, CheckLocks, Judge
<1> QED
  BY <1>1, <1>2, DecisionStep

\* A write that n8n accepts: what n8n held was not edited before the request,
\* nor the proposal's own.
LEMMA DecisionAccepted ==
  ASSUME TypeOK, DecisionInv, NEW c \in Calls, At(c, "put"), NEW w \in Targets(c), Accepted(c, w),
         UNCHANGED <<proposal, status>>, NEW job, Step(c, job), job.early \subseteq call[c].early,
         Judged(job) \subseteq call[c].writes \ {w}, Deciding(job) => Deciding(call[c])
  PROVE  DecisionInv' /\ (clean => again' = again)
<1>1. w \in Judged(call[c]) /\ Judged(job) \subseteq Judged(call[c]) \ {w} /\ w \in Workflows
  BY ProposalType DEF Targets, Touched, Judged, At, TypeOK
<1>2. \A d \in Calls : call'[d] = IF d = c THEN job ELSE call[d]
  BY DEF Step, TypeOK
<1>3. content' = [content EXCEPT ![w] = "candidate"] /\ content \in [Workflows -> Contents]
  BY DEF Accepted, TypeOK
<1>4. \A v \in Workflows : content'[v] = IF v = w THEN "candidate" ELSE content[v]
  BY <1>3
<1>5. \A d \in Calls : Judged(call[d]) \subseteq Workflows
  BY JobType DEF Job, Judged
<1>6. NothingBlind' /\ clean' = clean /\ (clean => again' = again) /\ Pending' = Pending
  BY <1>1 DEF Accepted, DecisionInv, NothingBlind, Aware, Current, Pending
<1>7. \A d \in Calls : Aware(call'[d], content')
  BY <1>1, <1>2, <1>4, <1>5 DEF DecisionInv, Aware
<1>8. clean => \A d \in Calls \ {c} : Judged(call[d]) = {}
  BY OthersIdle DEF At
<1>9. clean => \A d \in Calls : Current(call'[d], content', Pending')
  BY <1>1, <1>2, <1>4, <1>5, <1>6, <1>8 DEF DecisionInv, Current
<1>10. clean => \A d, e \in Calls : call'[d].at # "idle" /\ call'[e].at # "idle" => d = e
  BY <1>2 DEF DecisionInv, At
<1> QED
  BY <1>6, <1>7, <1>9, <1>10 DEF DecisionInv, At

LEMMA DecisionWrites ==
  ASSUME TypeOK, OrderInv, DecisionInv, NEW c \in Calls, Put(c) \/ Close(c) \/ Finish(c)
  PROVE  DecisionInv' /\ (clean => again' = again)
<1>1. call[c] \in Job /\ ~ At(c, "idle") /\ proposal' = proposal /\ Idle.early = {}
  BY JobType DEF Put, Close, Finish, At, Idle
<1>2. CASE UNCHANGED <<content, history>> /\ Step(c, Idle) /\ Put(c)
  <2>1. UNCHANGED status
    BY <1>2 DEF Put
  <2> QED
    BY <1>1, <1>2, <2>1, IdleDecision, DecisionStep DEF history
<1>3. ASSUME NEW w \in Targets(c), Accepted(c, w), Step(c, [call[c] EXCEPT !.at = "close", !.sent = {w}]), Put(c)
      PROVE  DecisionInv' /\ (clean => again' = again)
  <2> DEFINE job == [call[c] EXCEPT !.at = "close", !.sent = {w}]
  <2>1. /\ job.at = "close" /\ job.writes = call[c].writes /\ job.sent = {w} /\ job.early = call[c].early
        /\ call[c].at = "put"
    BY <1>1, <1>3 DEF Job, Put, At
  <2>2. Step(c, job) /\ UNCHANGED status /\ At(c, "put")
    BY <1>3 DEF Put
  <2> HIDE DEF job
  <2>3. Judged(job) \subseteq call[c].writes \ {w} /\ Deciding(call[c])
    BY <2>1 DEF Judged, Deciding, Committed
  <2> QED
    BY <1>1, <1>3, <2>1, <2>2, <2>3, DecisionAccepted
<1>4. CASE Close(c) \/ Finish(c)
  <2>1. UNCHANGED <<content, history>> /\ Deciding(call[c])
    BY <1>4 DEF Close, Finish, At, Deciding, Committed
  <2>2. clean => \A d \in Calls \ {c} : ~ Deciding(call[d])
    BY <1>1, OthersIdle
  <2>3. PICK job : /\ Step(c, job) /\ Judged(job) \subseteq Judged(call[c]) /\ job.early \subseteq call[c].early
                   /\ (clean => (Deciding(job) => Pending'))
    <3>1. CASE Step(c, Idle)
      BY <1>1, <3>1, IdleDecision
    <3>2. CASE Close(c) /\ ~ Step(c, Idle)
      <4> DEFINE rest == call[c].writes \ call[c].sent
      <4>1. clean => Pending
        BY <2>1 DEF DecisionInv, Current
      <4>4. rest # {} \/ ~ proposal.touchesRoot => (clean => Pending')
        <5> SUFFICES ASSUME clean, rest # {} \/ ~ proposal.touchesRoot PROVE Pending'
          OBVIOUS
        <5>1. Sound(call[c], proposal, status, wrote) /\ call[c].at = "close"
          BY <3>2 DEF OrderInv, Close, At
        <5>2. proposal.root \notin call[c].sent
          BY <5>1, ProposalType DEF Sound, Committed
        <5> QED
          BY <1>1, <3>2, <4>1, <5>2 DEF Close, CloseRows, Pending, Rows
      <4>2. CASE rest # {}
        <5> DEFINE job == [call[c] EXCEPT !.at = "put", !.writes = rest, !.sent = {}]
        <5>1. Step(c, job) /\ call[c].at = "close"
          BY <3>2, <4>2 DEF Close, At
        <5>2. job.at = "put" /\ job.writes = rest /\ job.early = call[c].early
          BY <1>1 DEF Job
        <5>3. Judged(job) \subseteq Judged(call[c])
          BY <5>1, <5>2 DEF Judged
        <5> HIDE DEF job
        <5> QED
          BY <4>2, <4>4, <5>1, <5>2, <5>3
      <4>3. CASE rest = {} /\ ~ proposal.touchesRoot
        <5> DEFINE job == [Idle EXCEPT !.at = "finish"]
        <5>1. Step(c, job)
          BY <3>2, <4>3 DEF Close
        <5>2. job.at = "finish" /\ job.early = {}
          BY DEF Idle
        <5> HIDE DEF job
        <5> QED
          BY <4>3, <4>4, <5>1, <5>2 DEF Judged
      <4>5. CASE rest = {} /\ proposal.touchesRoot
        BY <3>2, <4>5 DEF Close
      <4> QED
        BY <4>2, <4>3, <4>5
    <3> QED
      BY <1>4, <3>1, <3>2 DEF Finish
  <2>4. DecisionInv'
    BY <1>1, <2>1, <2>2, <2>3, DecisionEnd
  <2> QED
    BY <2>1, <2>4 DEF history
<1> QED
  BY <1>2, <1>3, <1>4 DEF Put

LEMMA DecisionDiscard ==
  ASSUME TypeOK, DecisionInv, NEW c \in Calls, DiscardRoot(c) \/ DiscardParts(c)
  PROVE  DecisionInv'
<1>1. call[c] \in Job /\ ~ At(c, "idle") /\ UNCHANGED <<proposal, content, history>> /\ Idle.early = {}
  BY JobType DEF DiscardRoot, DiscardParts, At, Idle
<1>2. clean => \A d \in Calls \ {c} : ~ Deciding(call[d])
  BY <1>1, OthersIdle
<1>3. PICK job : Step(c, job) /\ Judged(job) = {} /\ job.early \subseteq call[c].early /\ ~ Deciding(job)
  <2>1. CASE DiscardRoot(c)
    <3> DEFINE job == [call[c] EXCEPT !.at = "parts"]
    <3>1. job.at = "parts" /\ job.early = call[c].early
      BY <1>1 DEF Job
    <3>2. Step(c, job)
      BY <2>1 DEF DiscardRoot, Go
    <3> HIDE DEF job
    <3> QED
      BY <3>1, <3>2 DEF Judged, Deciding, Committed
  <2>2. CASE DiscardParts(c)
    BY <1>1, <2>2, IdleDecision DEF DiscardParts
  <2> QED
    BY <2>1, <2>2
<1> QED
  BY <1>1, <1>2, <1>3, DecisionEnd

LEMMA DecisionOthers ==
  ASSUME TypeOK, DecisionInv,
         \/ \E c \in Calls : Throw(c) \/ AnswerLost(c)
         \/ Restart
         \/ \E w \in Rows : EditLock(w) \/ \E new \in {"base", "other", "gone"} : Edit(w, new)
         \/ UNCHANGED vars
  PROVE  DecisionInv' /\ (clean => again' = again)
<1>0. Idle.early = {}
  BY DEF Idle
<1>1. ASSUME NEW c \in Calls, Throw(c) PROVE DecisionInv' /\ again' = again
  <2>1. UNCHANGED <<proposal, status, content, history>> /\ ~ At(c, "idle") /\ Step(c, Idle)
    BY <1>1 DEF Throw
  <2> QED
    BY <1>0, <2>1, IdleDecision, DecisionStep DEF history
<1>2. ASSUME NEW c \in Calls, AnswerLost(c) PROVE DecisionInv' /\ (clean => again' = again)
  <2>1. PICK w \in Targets(c) : Accepted(c, w)
    BY <1>2 DEF AnswerLost
  <2>2. At(c, "put") /\ UNCHANGED <<proposal, status>> /\ Step(c, Idle)
    BY <1>2 DEF AnswerLost
  <2> QED
    BY <1>0, <2>1, <2>2, IdleDecision, DecisionAccepted
<1>3. CASE Restart
  <2>1. UNCHANGED <<proposal, status, content, history>> /\ \A d \in Calls : call'[d] = Idle
    BY <1>3 DEF Restart
  <2>2. Idle.at = "idle"
    BY DEF Idle
  <2> QED
    BY <2>1, <2>2, IdleDecision DEF DecisionInv, NothingBlind, At, history
<1>4. ASSUME NEW w \in Rows, EditLock(w) PROVE DecisionInv' /\ again' = again
  BY <1>4 DEF EditLock, DecisionInv, NothingBlind, At, Pending, history
<1>5. ASSUME NEW w \in Rows, NEW new \in {"base", "other", "gone"}, Edit(w, new)
      PROVE  DecisionInv' /\ again' = again
  <2>1. UNCHANGED <<proposal, status, history>> /\ content' = [content EXCEPT ![w] = new]
    BY <1>5 DEF Edit
  <2>2. call' = [c \in Calls |-> [call[c] EXCEPT !.early = @ \ {w}]]
    BY <1>5 DEF Edit
  <2>3. \A d \in Calls : /\ call'[d].at = call[d].at /\ call'[d].early = call[d].early \ {w}
                         /\ Judged(call'[d]) = Judged(call[d]) /\ Deciding(call'[d]) = Deciding(call[d])
                         /\ Judged(call[d]) \subseteq Workflows
    <3> SUFFICES ASSUME NEW d \in Calls
                 PROVE  /\ call'[d].at = call[d].at /\ call'[d].early = call[d].early \ {w}
                        /\ Judged(call'[d]) = Judged(call[d]) /\ Deciding(call'[d]) = Deciding(call[d])
                        /\ Judged(call[d]) \subseteq Workflows
      OBVIOUS
    <3>1. call[d] \in Job /\ call'[d] = [call[d] EXCEPT !.early = @ \ {w}]
      BY <2>2, JobType
    <3>2. /\ call'[d].at = call[d].at /\ call'[d].writes = call[d].writes /\ call'[d].checks = call[d].checks
          /\ call'[d].sent = call[d].sent /\ call'[d].open = call[d].open
          /\ call'[d].early = call[d].early \ {w}
      BY <3>1 DEF Job
    <3> QED
      BY <3>1, <3>2 DEF Judged, Deciding, Committed, Job
  <2>4. \A v \in Workflows : content'[v] = IF v = w THEN new ELSE content[v]
    BY <2>1 DEF TypeOK
  <2>5. \A d \in Calls : Aware(call'[d], content')
    BY <2>3, <2>4 DEF DecisionInv, Aware
  <2>6. clean => \A d \in Calls : Current(call'[d], content', Pending)
    BY <2>3, <2>4 DEF DecisionInv, Current
  <2> QED
    BY <2>1, <2>3, <2>5, <2>6 DEF DecisionInv, NothingBlind, At, Pending, history
<1>6. CASE UNCHANGED vars
  BY <1>6 DEF vars, DecisionInv, NothingBlind, At, Pending, history
<1> QED
  BY <1>1, <1>2, <1>3, <1>4, <1>5, <1>6

LEMMA DecisionNext == TypeOK /\ OrderInv /\ DecisionInv /\ [Next]_vars => DecisionInv'
BY DecisionRequest, DecisionGuards, DecisionWrites, DecisionDiscard, DecisionOthers DEF Next, Continue

\* An edit made before a request is not overwritten by it; nothing is written
\* twice in a row as long as requests do not overlap, whatever is lost or retried.
THEOREM NothingLost == Spec => []WritesJustified
<1>1. DecisionInv => WritesJustified
  BY DEF DecisionInv, NeverReplayed, WritesJustified
<1> QED
  BY <1>1, TypeInit, TypeNext, OrderInit, OrderNext, DecisionInit, DecisionNext, PTL DEF Spec

LEMMA DecidedStep ==
  ASSUME TypeOK, OrderInv, DecisionInv, [Next]_vars, clean, status[proposal.root] # "pending"
  PROVE  UNCHANGED <<status[proposal.root], wrote, again>>
<1>1. \A c \in Calls : ~ Deciding(call[c])
  BY DEF DecisionInv, Current, Pending
<1>2. \A c \in Calls : ~ (Put(c) \/ Close(c) \/ Finish(c) \/ DiscardRoot(c) \/ AnswerLost(c))
  BY <1>1 DEF Deciding, Committed, Put, Close, Finish, DiscardRoot, AnswerLost, At
<1>3. ASSUME NEW c \in Calls, DiscardParts(c)
      PROVE  UNCHANGED <<status[proposal.root], wrote, again>>
  BY <1>3, ProposalType DEF DiscardParts, Followers, PendingParts, Rows, history
<1>4. ASSUME NEW c \in Calls, CheckChain(c) \/ CheckLocks(c) \/ Judge(c) \/ Throw(c)
      PROVE  UNCHANGED <<status[proposal.root], wrote, again>>
  BY <1>4 DEF CheckChain, CheckLocks, Judge, Throw, history
<1>5. ASSUME NEW c \in Calls, NEW lifts, Apply(c, lifts) \/ Discard(c)
      PROVE  UNCHANGED <<status[proposal.root], wrote, again>>
  BY <1>5 DEF Apply, Discard, Arrive
<1>6. ASSUME NEW w \in Rows, NEW new, EditLock(w) \/ Edit(w, new)
      PROVE  UNCHANGED <<status[proposal.root], wrote, again>>
  BY <1>6 DEF EditLock, Edit, history
<1>7. CASE Restart \/ UNCHANGED vars
  BY <1>7 DEF Restart, vars, history
<1> QED
  BY <1>2, <1>3, <1>4, <1>5, <1>6, <1>7 DEF Next, Continue

\* What was decided is not decided again as long as requests do not overlap.
THEOREM DecisionsAreFinal == Spec => DecidedOnce
<1>1. TypeOK /\ OrderInv /\ DecisionInv /\ [Next]_vars
      => [clean /\ status[proposal.root] # "pending" => UNCHANGED <<status[proposal.root], wrote, again>>]_vars
  BY DecidedStep
<1> QED
  BY <1>1, TypeInit, TypeNext, OrderInit, OrderNext, DecisionInit, DecisionNext, PTL DEF Spec, DecidedOnce

---------------------------------------------------------------------------
(* No back door: the guards have looked at everything that is written *)

\* What a request is about to write has passed the guards.
Passed(job, governed, blocked) ==
    /\ job.at \in {"lock", "judge", "put", "close"} => job.writes \intersect governed = {}
    /\ job.at \in {"judge", "put", "close"} => job.writes \intersect blocked = {}

\* Locked, and nobody lifted the lock; empty once a lock has been changed.
Blocked == IF events.lock = 0 THEN locked \ journal ELSE {}

GuardInv ==
    /\ wrote \intersect proposal.governed = {} /\ wrote \intersect Blocked = {}
    /\ \A c \in Calls : Passed(call[c], proposal.governed, Blocked)

LEMMA GuardImplies == GuardInv => NoBackDoor
BY DEF GuardInv, NoBackDoor, Blocked

LEMMA PassedIdle ==
  ASSUME NEW job, job.at \notin {"lock", "judge", "put", "close"}, NEW governed, NEW blocked
  PROVE  Passed(job, governed, blocked)
BY DEF Passed

\* A step of one request that locks nothing.
LEMMA GuardStep ==
  ASSUME TypeOK, GuardInv, NEW c \in Calls, NEW job, Step(c, job), proposal' = proposal,
         Blocked' \subseteq Blocked, Passed(job, proposal.governed, Blocked'),
         wrote' \subseteq wrote \/ (call[c].at = "put" /\ wrote' \subseteq wrote \union call[c].writes)
  PROVE  GuardInv'
<1>1. \A d \in Calls : call'[d] = IF d = c THEN job ELSE call[d]
  BY DEF Step, TypeOK
<1>2. \A d \in Calls : Passed(call'[d], proposal.governed, Blocked')
  BY <1>1 DEF GuardInv, Passed
<1> QED
  BY <1>2 DEF GuardInv, Passed

LEMMA GuardInit == Init => GuardInv
<1> SUFFICES ASSUME Init PROVE GuardInv
  OBVIOUS
<1>1. \A c \in Calls : call[c].at = "idle"
  BY DEF Init, Idle
<1> QED
  BY <1>1 DEF Init, GuardInv, Passed

LEMMA GuardCall ==
  ASSUME TypeOK, GuardInv, NEW c \in Calls,
         \/ \E lifts \in SUBSET Workflows : Apply(c, lifts)
         \/ Discard(c) \/ Continue(c) \/ Throw(c) \/ AnswerLost(c)
  PROVE  GuardInv'
<1>1. call[c] \in Job /\ Passed(call[c], proposal.governed, Blocked) /\ Idle.at = "idle"
  BY JobType DEF GuardInv, Idle
<1>2. CASE CheckLocks(c)
  <2>1. proposal' = proposal /\ wrote' = wrote /\ locked' = locked /\ journal \subseteq journal' /\ events' = events
    BY <1>2 DEF CheckLocks, AssertWritable, Refused, history, lockVars
  <2>2. Blocked' \subseteq Blocked
    BY <2>1 DEF Blocked
  <2>3. CASE Step(c, Idle)
    BY <1>1, <2>1, <2>2, <2>3, PassedIdle, GuardStep
  <2>4. CASE AssertWritable(Guarded(c), call[c].lifts)
             /\ Step(c, [call[c] EXCEPT !.at = "judge", !.open = FALSE, !.lifts = {}])
    <3> DEFINE job == [call[c] EXCEPT !.at = "judge", !.open = FALSE, !.lifts = {}]
    <3>1. job.at = "judge" /\ job.writes = call[c].writes /\ call[c].at = "lock"
      BY <1>1, <1>2 DEF Job, CheckLocks, At
    <3>2. Step(c, job)
      BY <2>4
    <3> HIDE DEF job
    <3>3. call[c].writes \intersect Blocked' = {}
      BY <2>1, <2>4 DEF AssertWritable, CanWrite, Blocking, Overridden, Blocked, Guarded, Touched
    <3>4. Passed(job, proposal.governed, Blocked')
      BY <1>1, <3>1, <3>3 DEF Passed
    <3> QED
      BY <2>1, <2>2, <3>2, <3>4, GuardStep
  <2> QED
    BY <1>2, <2>3, <2>4 DEF CheckLocks
<1>3. CASE ~ CheckLocks(c)
  <2>1. UNCHANGED <<proposal, lockVars>> /\ (events' = events \/ events' = [events EXCEPT !["outage"] = @ + 1])
    BY <1>3 DEF Apply, Discard, Arrive, Continue, CheckChain, Judge, Put, Close, Finish, DiscardRoot,
                DiscardParts, Throw, AnswerLost, Happens
  <2>2. Blocked' = Blocked
    <3>1. events'.lock = events.lock
      BY <2>1 DEF TypeOK, Events
    <3> QED
      BY <2>1, <3>1 DEF Blocked, lockVars
  <2>3. wrote' \subseteq wrote \/ (call[c].at = "put" /\ wrote' \subseteq wrote \union call[c].writes)
    <3>1. ASSUME NEW w \in Targets(c), Accepted(c, w), At(c, "put")
          PROVE  call[c].at = "put" /\ wrote' \subseteq wrote \union call[c].writes
      BY <3>1 DEF Accepted, Targets, Touched, At
    <3>2. CASE Put(c) \/ AnswerLost(c)
      BY <3>1, <3>2 DEF Put, AnswerLost, history
    <3>3. CASE ~ (Put(c) \/ AnswerLost(c))
      BY <1>3, <3>3 DEF Apply, Discard, Arrive, Continue, CheckChain, Judge, Close, Finish,
                        DiscardRoot, DiscardParts, Throw, history
    <3> QED
      BY <3>2, <3>3
  <2>4. PICK job : Step(c, job) /\ Passed(job, proposal.governed, Blocked)
    <3>1. CASE Step(c, Idle)
      BY <1>1, <3>1, PassedIdle
    <3>2. CASE \E lifts \in SUBSET Workflows : Apply(c, lifts)
      <4>1. PICK lifts \in SUBSET Workflows : Apply(c, lifts)
        BY <3>2
      <4> DEFINE job == [Idle EXCEPT !.at = "chain", !.open = status[proposal.root] = "pending",
                             !.checks = PendingParts \union Root, !.writes = PendingParts \union Root,
                             !.lifts = lifts, !.early = Rows]
      <4>2. job.at = "chain" /\ Step(c, job)
        BY <4>1 DEF Apply, Arrive, Idle
      <4> HIDE DEF job
      <4> QED
        BY <4>2, PassedIdle
    <3>3. CASE Discard(c)
      <4>1. [Idle EXCEPT !.at = "discard"].at = "discard"
        BY DEF Idle
      <4> QED
        BY <3>3, <4>1, PassedIdle DEF Discard, Arrive
    <3>4. CASE CheckChain(c) /\ Go(c, "lock") /\ Guarded(c) \intersect proposal.governed = {}
      <4> DEFINE job == [call[c] EXCEPT !.at = "lock"]
      <4>1. job.at = "lock" /\ job.writes = call[c].writes
        BY <1>1 DEF Job
      <4>2. Step(c, job)
        BY <3>4 DEF Go
      <4> HIDE DEF job
      <4> QED
        BY <3>4, <4>1, <4>2 DEF Passed, Guarded, Touched
    <3>5. CASE Judge(c) /\ Go(c, Begin(c))
      <4> DEFINE job == [call[c] EXCEPT !.at = Begin(c)]
      <4>1. job.at \in {"put", "finish"} /\ job.writes = call[c].writes /\ call[c].at = "judge"
        BY <1>1, <3>5 DEF Job, Begin, Judge, At
      <4>2. Step(c, job)
        BY <3>5 DEF Go
      <4> HIDE DEF job
      <4> QED
        BY <1>1, <4>1, <4>2 DEF Passed
    <3>6. CASE Judge(c) /\ \E w \in call[c].checks : Step(c, [call[c] EXCEPT !.checks = @ \ {w}])
      <4>1. PICK w \in call[c].checks : Step(c, [call[c] EXCEPT !.checks = @ \ {w}])
        BY <3>6
      <4> DEFINE job == [call[c] EXCEPT !.checks = @ \ {w}]
      <4>2. job.at = call[c].at /\ job.writes = call[c].writes
        BY <1>1 DEF Job
      <4>3. Step(c, job)
        BY <4>1
      <4> HIDE DEF job
      <4> QED
        BY <1>1, <4>2, <4>3 DEF Passed
    <3>7. CASE Put(c) /\ \E w \in Targets(c) : Step(c, [call[c] EXCEPT !.at = "close", !.sent = {w}])
      <4>1. PICK w \in Targets(c) : Step(c, [call[c] EXCEPT !.at = "close", !.sent = {w}])
        BY <3>7
      <4> DEFINE job == [call[c] EXCEPT !.at = "close", !.sent = {w}]
      <4>2. job.at = "close" /\ job.writes = call[c].writes /\ call[c].at = "put"
        BY <1>1, <3>7 DEF Job, Put, At
      <4>3. Step(c, job)
        BY <4>1
      <4> HIDE DEF job
      <4> QED
        BY <1>1, <4>2, <4>3 DEF Passed
    <3>8. CASE Close(c)
      <4> DEFINE rest == call[c].writes \ call[c].sent
      <4>1. CASE rest # {}
        <5> DEFINE job == [call[c] EXCEPT !.at = "put", !.writes = rest, !.sent = {}]
        <5>1. Step(c, job) /\ call[c].at = "close"
          BY <3>8, <4>1 DEF Close, At
        <5>2. job.at = "put" /\ job.writes = rest
          BY <1>1 DEF Job
        <5> HIDE DEF job
        <5> QED
          BY <1>1, <5>1, <5>2 DEF Passed
      <4>2. CASE rest = {}
        <5>1. Step(c, Idle) \/ Step(c, [Idle EXCEPT !.at = "finish"])
          BY <3>8, <4>2 DEF Close
        <5>2. [Idle EXCEPT !.at = "finish"].at = "finish"
          BY DEF Idle
        <5> QED
          BY <3>1, <5>1, <5>2, PassedIdle
      <4> QED
        BY <4>1, <4>2
    <3>9. CASE DiscardRoot(c)
      <4>1. [call[c] EXCEPT !.at = "parts"].at = "parts"
        BY <1>1 DEF Job
      <4> QED
        BY <3>9, <4>1, PassedIdle DEF DiscardRoot, Go
    <3> QED
      BY <1>3, <3>1, <3>2, <3>3, <3>4, <3>5, <3>6, <3>7, <3>8, <3>9
      DEF Continue, CheckChain, Judge, Put, Finish, DiscardParts, Throw, AnswerLost
  <2> QED
    BY <2>1, <2>2, <2>3, <2>4, GuardStep
<1> QED
  BY <1>2, <1>3

LEMMA GuardOthers ==
  ASSUME TypeOK, GuardInv,
         \/ Restart
         \/ \E w \in Rows : EditLock(w) \/ \E new \in {"base", "other", "gone"} : Edit(w, new)
         \/ UNCHANGED vars
  PROVE  GuardInv'
<1>1. proposal' = proposal /\ wrote' = wrote
  BY DEF Restart, EditLock, Edit, vars, history
<1>2. Blocked' \subseteq Blocked
  <2>0. events \in [Events -> Nat] /\ Events = {"edit", "lock", "outage", "restart"}
    BY DEF TypeOK, Events
  <2>1. ASSUME NEW w \in Rows, EditLock(w) PROVE Blocked' \subseteq Blocked
    <3>1. events'.lock = events.lock + 1
      BY <2>0, <2>1 DEF EditLock, Happens
    <3>2. events.lock \in Nat
      BY <2>0
    <3>3. events'.lock # 0
      BY <3>1, <3>2
    <3> QED
      BY <3>3 DEF Blocked
  <2>2. CASE UNCHANGED lockVars
             /\ (events' = events \/ \E e \in {"edit", "restart"} : events' = [events EXCEPT ![e] = @ + 1])
    <3>1. events'.lock = events.lock
      BY <2>0, <2>2
    <3> QED
      BY <2>2, <3>1 DEF Blocked, lockVars
  <2> QED
    BY <2>1, <2>2 DEF Restart, Edit, Happens, vars
<1>3. \A d \in Calls : Passed(call'[d], proposal.governed, Blocked)
  <2> SUFFICES ASSUME NEW d \in Calls PROVE Passed(call'[d], proposal.governed, Blocked)
    OBVIOUS
  <2>0. call[d] \in Job /\ Passed(call[d], proposal.governed, Blocked)
    BY JobType DEF GuardInv
  <2>1. CASE call'[d] = call[d]
    BY <2>0, <2>1
  <2>2. CASE Restart
    <3>1. call'[d].at = "idle"
      BY <2>2 DEF Restart, Idle
    <3> QED
      BY <3>1, PassedIdle
  <2>3. ASSUME NEW w, call'[d] = [call[d] EXCEPT !.early = @ \ {w}]
        PROVE  Passed(call'[d], proposal.governed, Blocked)
    <3>1. call'[d].at = call[d].at /\ call'[d].writes = call[d].writes
      BY <2>0, <2>3 DEF Job
    <3> QED
      BY <2>0, <3>1 DEF Passed
  <2> QED
    BY <2>1, <2>2, <2>3 DEF EditLock, Edit, vars
<1> QED
  BY <1>1, <1>2, <1>3 DEF GuardInv, Passed

LEMMA GuardNext == TypeOK /\ GuardInv /\ [Next]_vars => GuardInv'
<1> SUFFICES ASSUME TypeOK, GuardInv, [Next]_vars PROVE GuardInv'
  OBVIOUS
<1>1. \A lifts \in {{}, locked} : lifts \in SUBSET Workflows
  BY DEF TypeOK, LockTypeOK
<1> QED
  BY <1>1, GuardCall, GuardOthers DEF Next

\* Nothing governed is written, nothing locked without an override that is
\* journaled, the parts no more than the root.
THEOREM NoBackDoorIsOpen == Spec => []NoBackDoor
<1> QED
  BY TypeInit, TypeNext, GuardInit, GuardNext, GuardImplies, PTL DEF Spec
---------------------------------------------------------------------------
(* What is written is closed, what is discarded leaves no part pending *)

\* What is written is closed, or about to be by the request that wrote it; the
\* parts of a closed proposal are closed, or about to be discarded.
Closing(w) == status[w] = "applied" \/ \E c \in Calls : At(c, "close") /\ w \in call[c].sent

Following(w) == status[w] # "pending" \/ \E c \in Calls : At(c, "parts")

ClosedInv ==
    Undisturbed =>
        /\ \A w \in wrote : Closing(w)
        /\ status[proposal.root] # "pending" => \A w \in proposal.parts : Following(w)

LEMMA ClosedImplies == ClosedInv => Settled
BY DEF ClosedInv, Settled, Closing, Following, At

LEMMA ClosedInit == Init => ClosedInv
BY DEF Init, ClosedInv, Closing, Following, Rows

\* A step of one request that was not about to close or discard anything, and
\* leaves the rows and what is written as they are.
LEMMA ClosedStep ==
  ASSUME TypeOK, ClosedInv, NEW c \in Calls, NEW job, Step(c, job), call[c].at \notin {"close", "parts"},
         UNCHANGED <<proposal, status, wrote>>, Undisturbed' => Undisturbed
  PROVE  ClosedInv'
<1>1. \A d \in Calls : call[d].at \in {"close", "parts"} => call'[d] = call[d]
  BY DEF Step, TypeOK
<1>2. \A w : Closing(w) => Closing(w)'
  BY <1>1 DEF Closing, At
<1>3. \A w : Following(w) => Following(w)'
  BY <1>1 DEF Following, At
<1> QED
  BY <1>2, <1>3 DEF ClosedInv

LEMMA ClosedWrites ==
  ASSUME TypeOK, OrderInv, ClosedInv, NEW c \in Calls, Put(c) \/ Close(c) \/ Finish(c)
  PROVE  ClosedInv'
<1>0. /\ call[c] \in Job /\ Idle.at = "idle" /\ Sound(call[c], proposal, status, wrote)
      /\ UNCHANGED <<proposal, events>> /\ clean' = clean
  BY JobType DEF OrderInv, Put, Close, Finish, history, Accepted, Idle
<1>1. Undisturbed' = Undisturbed
  BY <1>0 DEF Undisturbed
<1>2. CASE Put(c)
  <2>1. call[c].at = "put" /\ status' = status
    BY <1>2 DEF Put, At
  <2>2. CASE Step(c, Idle) /\ UNCHANGED <<content, history>>
    BY <1>0, <1>1, <2>1, <2>2, ClosedStep DEF history
  <2>3. ASSUME NEW w \in Targets(c), Accepted(c, w), Step(c, [call[c] EXCEPT !.at = "close", !.sent = {w}])
        PROVE  ClosedInv'
    <3> DEFINE job == [call[c] EXCEPT !.at = "close", !.sent = {w}]
    <3>1. job.at = "close" /\ job.sent = {w}
      BY <1>0 DEF Job
    <3>2. call'[c] = job /\ \A d \in Calls : call[d].at \in {"close", "parts"} => call'[d] = call[d]
      BY <2>1, <2>3 DEF Step, TypeOK
    <3> HIDE DEF job
    <3>3. wrote' = wrote \union {w}
      BY <2>3 DEF Accepted
    <3>4. \A v : Closing(v) => Closing(v)'
      BY <2>1, <3>2 DEF Closing, At
    <3>5. \A v : Following(v) => Following(v)'
      BY <2>1, <3>2 DEF Following, At
    <3>6. Closing(w)'
      BY <3>1, <3>2 DEF Closing, At
    <3> QED
      BY <1>0, <1>1, <2>1, <3>3, <3>4, <3>5, <3>6 DEF ClosedInv
  <2> QED
    BY <1>2, <2>2, <2>3 DEF Put
<1>3. CASE Close(c) \/ Finish(c)
  <2>1. PICK ws : CloseRows(ws) /\ wrote' = wrote /\ ((Close(c) /\ ws = call[c].sent) \/ (Finish(c) /\ ws = {proposal.root}))
    BY <1>3 DEF Close, Finish, history
  <2>2. ws \subseteq Rows
    BY <1>0, <2>1 DEF Sound, Close, At, Rows, TypeOK, Touched
  <2>3. \A v \in Rows : status'[v] = IF v \in ws THEN "applied" ELSE status[v]
    BY <2>1 DEF CloseRows
  <2>4. \A d \in Calls \ {c} : call'[d] = call[d]
    BY <1>3 DEF Close, Finish, Step, TypeOK
  <2>5. call[c].at \in {"close", "finish"}
    BY <1>3 DEF Close, Finish, At
  <2>6. \A v \in Rows : Closing(v) => Closing(v)'
    BY <2>1, <2>3, <2>4, <2>5 DEF Closing, At, Finish
  <2>7. \A v \in Rows : Following(v) => Following(v)'
    BY <2>3, <2>4, <2>5 DEF Following, At
  <2>8. status'[proposal.root] # "pending" /\ status[proposal.root] = "pending"
        => \A v \in proposal.parts : status'[v] = "applied"
    <3>1. SUFFICES ASSUME status'[proposal.root] # "pending", status[proposal.root] = "pending"
                   PROVE  \A v \in proposal.parts : status'[v] = "applied"
      OBVIOUS
    <3>2. OrderInv' /\ status'[proposal.root] = "applied"
      BY <1>3, <2>3, <3>1, OrderClose, OrderFinish DEF Rows
    <3> QED
      BY <1>0, <3>2 DEF OrderInv, AppliedIsWhole
  <2>9. wrote \subseteq Rows
    BY DEF TypeOK
  <2> QED
    BY <1>0, <1>1, <2>1, <2>6, <2>7, <2>8, <2>9 DEF ClosedInv, Following, Rows
<1> QED
  BY <1>2, <1>3

LEMMA ClosedDiscard ==
  ASSUME TypeOK, DecisionInv, ClosedInv, NEW c \in Calls, DiscardRoot(c) \/ DiscardParts(c)
  PROVE  ClosedInv'
<1>0. /\ call[c] \in Job /\ UNCHANGED <<proposal, wrote, clean, events>> /\ ~ At(c, "idle") /\ wrote \subseteq Rows
  BY JobType DEF DiscardRoot, DiscardParts, history, At, TypeOK
<1>1. SUFFICES ASSUME Undisturbed
               PROVE  /\ \A w \in wrote : Closing(w)'
                      /\ \A w \in proposal.parts : Following(w)'
  BY <1>0 DEF ClosedInv, Undisturbed
<1>2. \A d \in Calls \ {c} : At(d, "idle")
  BY <1>0, <1>1, OthersIdle DEF Undisturbed
<1>3. \A w \in wrote : status[w] = "applied"
  BY <1>0, <1>1, <1>2 DEF ClosedInv, Closing, DiscardRoot, DiscardParts, At
<1>4. CASE DiscardRoot(c)
  <2>1. status[proposal.root] = "pending"
    BY <1>1, <1>4 DEF DecisionInv, Current, Deciding, DiscardRoot, At, Undisturbed, Pending
  <2>2. \A w \in wrote : status'[w] = "applied"
    BY <1>3, <1>4, <2>1 DEF DiscardRoot, TypeOK
  <2>3. call'[c].at = "parts"
    BY <1>0, <1>4 DEF DiscardRoot, Go, Step, TypeOK, Job
  <2> QED
    BY <2>2, <2>3 DEF Closing, Following, At
<1>5. CASE DiscardParts(c)
  <2>1. status' = [w \in Rows |-> IF w \in PendingParts THEN "discarded" ELSE status[w]]
    BY <1>5 DEF DiscardParts, Followers
  <2>2. \A w \in wrote : status'[w] = "applied"
    BY <1>0, <1>3, <2>1 DEF PendingParts
  <2>3. \A w \in proposal.parts : status'[w] # "pending"
    BY <2>1 DEF PendingParts, Rows
  <2> QED
    BY <2>2, <2>3 DEF Closing, Following
<1> QED
  BY <1>4, <1>5

LEMMA ClosedOthers ==
  ASSUME TypeOK, ClosedInv,
         \/ \E c \in Calls : Throw(c) \/ AnswerLost(c)
         \/ Restart
         \/ \E w \in Rows : EditLock(w) \/ \E new \in {"base", "other", "gone"} : Edit(w, new)
         \/ UNCHANGED vars
  PROVE  ClosedInv'
<1>0. events \in [Events -> Nat] /\ Events = {"edit", "lock", "outage", "restart"}
  BY DEF TypeOK, Events
<1>1. CASE Restart \/ \E c \in Calls : Throw(c) \/ AnswerLost(c)
  <2>1. PICK e \in {"outage", "restart"} : Happens(e)
    BY <1>1 DEF Restart, Throw, AnswerLost
  <2>2. events'[e] = events[e] + 1 /\ events[e] \in Nat
    BY <1>0, <2>1 DEF Happens
  <2>3. events'[e] # 0
    BY <2>2
  <2> QED
    BY <2>3 DEF ClosedInv, Undisturbed
<1>2. CASE \/ \E w \in Rows : EditLock(w) \/ \E new \in {"base", "other", "gone"} : Edit(w, new)
           \/ UNCHANGED vars
  <2>1. UNCHANGED <<proposal, status, wrote, clean>>
    BY <1>2 DEF EditLock, Edit, vars, history
  <2>2. events'.outage = events.outage /\ events'.restart = events.restart
    BY <1>0, <1>2 DEF EditLock, Edit, Happens, vars
  <2>3. \A d \in Calls : call'[d].at = call[d].at /\ call'[d].sent = call[d].sent
    <3> SUFFICES ASSUME NEW d \in Calls PROVE call'[d].at = call[d].at /\ call'[d].sent = call[d].sent
      OBVIOUS
    <3>1. call[d] \in Job
      BY JobType
    <3>2. call'[d] = call[d] \/ \E w \in Rows : call'[d] = [call[d] EXCEPT !.early = @ \ {w}]
      BY <1>2 DEF EditLock, Edit, vars
    <3> QED
      BY <3>1, <3>2 DEF Job
  <2>4. \A w : (Closing(w) => Closing(w)') /\ (Following(w) => Following(w)')
    BY <2>1, <2>3 DEF Closing, Following, At
  <2> QED
    BY <2>1, <2>2, <2>4 DEF ClosedInv, Undisturbed
<1> QED
  BY <1>1, <1>2

LEMMA ClosedNext == TypeOK /\ OrderInv /\ DecisionInv /\ ClosedInv /\ [Next]_vars => ClosedInv'
<1> SUFFICES ASSUME TypeOK, OrderInv, DecisionInv, ClosedInv, [Next]_vars PROVE ClosedInv'
  OBVIOUS
<1>1. ASSUME NEW c \in Calls, NEW lifts, Apply(c, lifts) \/ Discard(c)
      PROVE  ClosedInv'
  <2>1. PICK job : Arrive(c, job)
    BY <1>1 DEF Apply, Discard
  <2> QED
    BY <2>1, ClosedStep DEF Arrive, At, Undisturbed
<1>2. ASSUME NEW c \in Calls, CheckChain(c) \/ CheckLocks(c) \/ Judge(c)
      PROVE  ClosedInv'
  <2>1. PICK job : Step(c, job)
    BY <1>2 DEF CheckChain, CheckLocks, Judge, Go
  <2>2. UNCHANGED <<proposal, status, wrote, clean, events>> /\ call[c].at \in {"chain", "lock", "judge"}
    BY <1>2 DEF CheckChain, CheckLocks, Judge, history, At
  <2> QED
    BY <2>1, <2>2, ClosedStep DEF Undisturbed
<1> QED
  BY <1>1, <1>2, ClosedWrites, ClosedDiscard, ClosedOthers DEF Next, Continue

\* Between two requests, without a failure or an overlap, what is written is
\* closed and what is discarded leaves no part pending.
THEOREM RequestsSettle == Spec => []Settled
<1> QED
  BY TypeInit, TypeNext, OrderInit, OrderNext, DecisionInit, DecisionNext,
     ClosedInit, ClosedNext, ClosedImplies, PTL DEF Spec
=============================================================================
