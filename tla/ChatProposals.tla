--------------------------- MODULE ChatProposals ---------------------------
(***************************************************************************)
(* A change the assistant proposes, applied or discarded by a user:        *)
(* ProposalService.apply and discard                                       *)
(* (apps/api/src/modules/workflow-chat/proposal.service.ts).               *)
(*                                                                         *)
(* A proposal changes the workflow of the conversation (the root), some    *)
(* sub-workflows (the parts), or both.  The parts are written before the   *)
(* root, one by one, each closed once n8n has accepted it; n8n keeps no    *)
(* transaction, and the users of n8n write between any two awaits.         *)
(*                                                                         *)
(* One proposal is modelled, from the moment it is stored.  Reading a      *)
(* workflow from n8n and judging it is one step; the resynchronisation     *)
(* after a write changes nothing a proposal looks at and never fails it.   *)
(* The parts are taken in the order of their dates, which are the same.    *)
(***************************************************************************)
EXTENDS WorkflowLocks

CONSTANTS
    Calls,       \* requests on the proposal that may be in progress at the same time
    Proposals,   \* proposals that may be stored
    MaxEvents,   \* bound: edits, changes of a lock, failures, restarts
    MaxEach      \* bound: the same, of each kind

Statuses == {"pending", "applied", "discarded"}

\* What n8n serves: what the proposal was built on, what it writes, what a user
\* wrote, nothing that can be written (deleted or archived).
Contents == {"base", "candidate", "other", "gone"}

\* The workflows whose environment receives promotions only are governed.
Proposal == [root : Workflows, touchesRoot : BOOLEAN, parts : SUBSET Workflows, governed : SUBSET Workflows]

ASSUME ConstantsAssumption ==
    /\ Proposals \subseteq Proposal
    /\ \A p \in Proposals : p.root \notin p.parts
    /\ MaxEvents \in Nat /\ MaxEach \in Nat

VARIABLES
    proposal,   \* what is proposed
    status,     \* row of the proposal (under its root) and rows of its parts
    content,    \* what n8n serves of each workflow
    call,       \* what each request in progress holds
    wrote,      \* workflows the proposal has written
    again,      \* written although what n8n served was the proposal's already
    blind,      \* written over an edit made before the request
    clean,      \* no request was made while another was in progress
    events      \* how often each kind of event has happened

history == <<wrote, again, blind, clean>>

vars == <<lockVars, proposal, status, content, call, history, events>>

Events == {"edit", "lock", "outage", "restart"}

Labels == {"idle", "chain", "lock", "judge", "put", "close", "finish", "discard", "parts"}

\* What a request read, has left to judge and to write, has written and not yet
\* closed; "early" are the workflows nobody edited since it was made.
Idle == [at |-> "idle", open |-> FALSE, checks |-> {}, writes |-> {}, sent |-> {}, lifts |-> {},
         early |-> {}]

Rows == proposal.parts \union {proposal.root}

Init ==
    /\ proposal \in Proposals
    /\ status = [w \in Rows |-> "pending"]
    /\ content = [w \in Workflows |-> "base"]
    /\ call = [c \in Calls |-> Idle]
    /\ locked \in SUBSET Rows /\ journal = {}
    /\ wrote = {} /\ again = {} /\ blind = {} /\ clean = TRUE
    /\ events = [e \in Events |-> 0]

---------------------------------------------------------------------------
(* Requests *)

Step(c, job) == call' = [call EXCEPT ![c] = job]

At(c, label) == call[c].at = label

Go(c, label) == Step(c, [call[c] EXCEPT !.at = label])

Arrive(c, job) ==
    /\ At(c, "idle")
    /\ Step(c, job)
    /\ clean' = (clean /\ \A d \in Calls : At(d, "idle"))
    /\ UNCHANGED <<lockVars, proposal, status, content, wrote, again, blind, events>>

Root == IF proposal.touchesRoot THEN {proposal.root} ELSE {}

PendingParts == {w \in proposal.parts : status[w] = "pending"}

\* The proposal and its parts are read once, here.
Apply(c, lifts) ==
    Arrive(c, [Idle EXCEPT !.at = "chain", !.open = status[proposal.root] = "pending",
                           !.checks = PendingParts \union Root, !.writes = PendingParts \union Root,
                           !.lifts = lifts, !.early = Rows])

\* The workflows the request would write.
Touched(c) == call[c].writes

\* Faulty variant: the guards look at the root only.
RootAlone(c) == Touched(c) \intersect {proposal.root}

\* What the guards look at.
Guarded(c) == Touched(c)

\* A governed workflow is changed by promotions only.
CheckChain(c) ==
    /\ At(c, "chain")
    /\ IF Guarded(c) \intersect proposal.governed = {} THEN Go(c, "lock") ELSE Step(c, Idle)
    /\ UNCHANGED <<lockVars, proposal, status, content, history, events>>

\* Faulty variant: whatever was decided is decided again.
AnyStatus(c) == TRUE

StillOpen(c) == call[c].open

\* The locks, then the status that was read.
CheckLocks(c) ==
    /\ At(c, "lock")
    /\ \/ AssertWritable(Guarded(c), call[c].lifts)
          /\ Step(c, IF StillOpen(c) THEN [call[c] EXCEPT !.at = "judge", !.open = FALSE, !.lifts = {}] ELSE Idle)
       \/ Refused(Guarded(c), call[c].lifts) /\ Step(c, Idle)
    /\ UNCHANGED <<proposal, status, content, history, events>>

\* Faulty variant: what the proposal wrote itself is accepted.
BaseOrOurs(w) == content[w] \in {"base", "candidate"}

\* n8n still serves what the proposal was built on.
Fresh(w) == content[w] = "base"

Begin(c) == IF call[c].writes = {} THEN "finish" ELSE "put"

\* Every workflow is read again and judged before any is written.
Judge(c) ==
    /\ At(c, "judge")
    /\ \/ call[c].checks = {} /\ Go(c, Begin(c))
       \/ \E w \in call[c].checks : Fresh(w) /\ Step(c, [call[c] EXCEPT !.checks = @ \ {w}])
       \/ call[c].checks # {} /\ Step(c, Idle)   \* stale, archived, missing, or refused by the gate
    /\ UNCHANGED <<lockVars, proposal, status, content, history, events>>

\* Faulty variant: the caller first.
CallerFirst(c) == IF proposal.root \in Touched(c) THEN {proposal.root} ELSE Touched(c)

\* What may be written now: the parts, then the root.
Targets(c) == IF Touched(c) \ {proposal.root} # {} THEN Touched(c) \ {proposal.root} ELSE Touched(c)

\* n8n takes the whole content, whatever it holds.
Accepted(c, w) ==
    /\ content[w] # "gone"
    /\ content' = [content EXCEPT ![w] = "candidate"]
    /\ wrote' = wrote \union {w}
    /\ again' = IF content[w] = "candidate" THEN again \union {w} ELSE again
    /\ blind' = IF content[w] = "other" /\ w \in call[c].early THEN blind \union {w} ELSE blind
    /\ UNCHANGED clean

\* n8n takes the content, or refuses it.
Put(c) ==
    /\ At(c, "put")
    /\ \/ \E w \in Targets(c) : Accepted(c, w) /\ Step(c, [call[c] EXCEPT !.at = "close", !.sent = {w}])
       \/ Step(c, Idle) /\ UNCHANGED <<content, history>>
    /\ UNCHANGED <<lockVars, proposal, status, events>>

CloseRows(ws) == status' = [v \in Rows |-> IF v \in ws THEN "applied" ELSE status[v]]

\* What n8n accepted is closed at once; then the next.
Close(c) ==
    LET job == call[c]
        rest == job.writes \ job.sent IN
    /\ At(c, "close")
    /\ CloseRows(job.sent)
    /\ IF rest # {} THEN Step(c, [job EXCEPT !.at = "put", !.writes = rest, !.sent = {}])
       ELSE IF proposal.touchesRoot THEN Step(c, Idle)
       ELSE Step(c, [Idle EXCEPT !.at = "finish"])
    /\ UNCHANGED <<lockVars, proposal, content, history, events>>

\* A proposal without a root is closed after its parts.
Finish(c) ==
    /\ At(c, "finish")
    /\ CloseRows({proposal.root})
    /\ Step(c, Idle)
    /\ UNCHANGED <<lockVars, proposal, content, history, events>>

\* The status is read.
Discard(c) == status[proposal.root] = "pending" /\ Arrive(c, [Idle EXCEPT !.at = "discard"])

DiscardRoot(c) ==
    /\ At(c, "discard")
    /\ status' = [status EXCEPT ![proposal.root] = "discarded"]
    /\ Go(c, "parts")
    /\ UNCHANGED <<lockVars, proposal, content, history, events>>

\* Faulty variant: the parts are left as they are.
LeftBehind == {}

Followers == PendingParts

DiscardParts(c) ==
    /\ At(c, "parts")
    /\ status' = [w \in Rows |-> IF w \in Followers THEN "discarded" ELSE status[w]]
    /\ Step(c, Idle)
    /\ UNCHANGED <<lockVars, proposal, content, history, events>>

---------------------------------------------------------------------------
(* Failures and users *)

Happens(event) ==
    /\ events[event] < MaxEach
    /\ events.edit + events.lock + events.outage + events.restart < MaxEvents
    /\ events' = [events EXCEPT ![event] = @ + 1]

\* n8n or the database cannot be reached: the request ends there.
Throw(c) ==
    /\ ~ At(c, "idle")
    /\ Step(c, Idle)
    /\ Happens("outage")
    /\ UNCHANGED <<lockVars, proposal, status, content, history>>

\* n8n takes the content and its answer is lost.
AnswerLost(c) ==
    /\ At(c, "put")
    /\ \E w \in Targets(c) : Accepted(c, w)
    /\ Step(c, Idle)
    /\ Happens("outage")
    /\ UNCHANGED <<lockVars, proposal, status>>

Restart ==
    /\ call' = [c \in Calls |-> Idle]
    /\ Happens("restart")
    /\ UNCHANGED <<lockVars, proposal, status, content, history>>

\* A user of n8n writes, restores the version before, archives or deletes.
Edit(w, new) ==
    /\ content[w] # "gone" /\ new # content[w]
    /\ content' = [content EXCEPT ![w] = new]
    /\ call' = [c \in Calls |-> [call[c] EXCEPT !.early = @ \ {w}]]
    /\ Happens("edit")
    /\ UNCHANGED <<lockVars, proposal, status, history>>

EditLock(w) ==
    /\ (w \notin locked /\ Lock(w)) \/ (w \in locked /\ Unlock(w))
    /\ Happens("lock")
    /\ UNCHANGED <<proposal, status, content, call, history>>

Continue(c) ==
    \/ CheckChain(c) \/ CheckLocks(c) \/ Judge(c) \/ Put(c) \/ Close(c) \/ Finish(c)
    \/ DiscardRoot(c) \/ DiscardParts(c)

Next ==
    \/ \E c \in Calls :
           \/ \E lifts \in {{}, locked} : Apply(c, lifts)
           \/ Discard(c) \/ Continue(c) \/ Throw(c) \/ AnswerLost(c)
    \/ \E w \in Rows : EditLock(w) \/ \E new \in {"base", "other", "gone"} : Edit(w, new)
    \/ Restart

Spec == Init /\ [][Next]_vars

---------------------------------------------------------------------------
(* Properties *)

\* Every variable keeps its type; a request that writes has something to write,
\* and only its own rows.
TypeOK ==
    /\ LockTypeOK
    /\ proposal \in Proposals
    /\ status \in [Rows -> Statuses]
    /\ content \in [Workflows -> Contents]
    /\ call \in [Calls -> [at : Labels, open : BOOLEAN, checks : SUBSET Workflows,
                            writes : SUBSET Workflows, sent : SUBSET Workflows, lifts : SUBSET Workflows, early : SUBSET Workflows]]
    /\ \A c \in Calls : Touched(c) \subseteq Rows /\ (call[c].at \in {"put", "close"} => Touched(c) # {})
    /\ wrote \subseteq Rows /\ again \subseteq Rows /\ blind \subseteq Rows
    /\ clean \in BOOLEAN
    /\ events \in [Events -> Nat]

\* "Written BEFORE the root: the caller often puts the call to a content that
\* must exist already": whatever fails, overlaps or is retried, the root is not
\* written before every part has been.
PartsFirst == proposal.root \in wrote => proposal.parts \subseteq wrote

\* A proposal that says applied was written whole, and its parts say so too.
AppliedIsWhole ==
    status[proposal.root] = "applied" =>
        /\ proposal.parts \union Root \subseteq wrote
        /\ \A w \in proposal.parts : status[w] = "applied"

\* A proposal is written in order, and whole when it says so.
WrittenWhole == PartsFirst /\ AppliedIsWhole

\* "Everything the local copy does not know of the real state would be
\* overwritten unseen": an edit made before a request is not overwritten by it.
NothingBlind == blind = {}

\* "A failure on the next one must not replay the one that passed": nothing is
\* written twice in a row, after lost answers, failures and restarts too, as
\* long as two requests do not overlap.
NeverReplayed == clean => again = {}

\* A request writes over what the proposal was built on, nothing else: neither
\* an edit nor what the proposal wrote itself.
WritesJustified == NothingBlind /\ NeverReplayed

\* "A proposal that goes through a sub-workflow must not be a back door": no
\* governed workflow is written, and a locked one only under an override, which
\* is journaled, as long as nobody changes a lock meanwhile.
NoBackDoor ==
    /\ wrote \intersect proposal.governed = {}
    /\ events.lock = 0 => wrote \intersect locked \subseteq journal

\* "Closed immediately": between two requests, without a failure or an overlap,
\* what is written is closed and what is discarded leaves no part pending.
Undisturbed == clean /\ events.outage = 0 /\ events.restart = 0

Settled ==
    Undisturbed /\ (\A c \in Calls : At(c, "idle")) =>
        /\ \A w \in wrote : status[w] = "applied"
        /\ status[proposal.root] # "pending" => \A w \in proposal.parts : status[w] # "pending"

\* What was decided is not decided again: neither the status of a closed
\* proposal nor what n8n holds of it changes, as long as requests do not overlap.
DecidedOnce == [][clean /\ status[proposal.root] # "pending" => UNCHANGED <<status[proposal.root], wrote, again>>]_vars
=============================================================================
