----------------------- MODULE WorkflowMirror_proofs -----------------------
(***************************************************************************)
(* Theorems about WorkflowMirror, for any number of workflows, contents    *)
(* and syncs that overlap.                                                 *)
(***************************************************************************)
EXTENDS WorkflowMirror, TLAPS

\* The workflows that have a copy: a copy is never removed.
Copied == {w \in Workflows : mirror[w] # None}

\* What a step may rely on in a job, given the workflows that have a copy.
Steady(job, copied) ==
    /\ job \in Job
    /\ \A w \in Workflows : job.locals[w] # None => w \in copied
    /\ job.at \in {"find", "upsert"} => job.item \in Workflows /\ job.payload \in Contents
    /\ job.at = "flag" => job.item \in copied
    /\ job.at = "get" => job.item \in Workflows
    /\ job.at \in {"locals", "scenarios", "get", "unlisted"} => job.phase = "scenarios"
    /\ job.at = "listed" => job.phase = "listed"
    /\ job.at \in {"absent", "find", "flag"} => job.phase = "absent"
    /\ (job.at = "unlisted" \/ job.phase = "absent") => job.left \subseteq copied
    /\ (job.at # "unlisted" /\ job.phase # "absent") => \A w \in job.left : job.listing[w] # None

LEMMA Distinct ==
  /\ None \notin Upstream /\ None \notin Copy /\ None \notin Workflows
  /\ None \notin Contents /\ None \notin Int
BY NoneAssumption

LEMMA NothingType == Nothing \in [Workflows -> Upstream \union {None}]
                     /\ Nothing \in [Workflows -> Copy \union {None}]
BY DEF Nothing

LEMMA IdleSteady ==
  ASSUME NEW copied
  PROVE  Steady(Idle, copied)
<1>1. Idle \in Job
  BY NothingType DEF Idle, Job, Dates
<1> QED
  BY <1>1 DEF Steady, Idle, Nothing

LEMMA SteadyGrows ==
  ASSUME NEW copied, NEW more, copied \subseteq more, NEW job, Steady(job, copied)
  PROVE  Steady(job, more)
BY DEF Steady

LEMMA OnwardSteady ==
  ASSUME NEW copied, NEW job, Steady(job, copied)
  PROVE  Steady(Onward(job), copied)
<1> DEFINE next == [job EXCEPT !.at = "unlisted", !.left = Missing(job)]
<1>1. CASE Onward(job) = job
  BY <1>1
<1>2. CASE Onward(job) = Idle
  BY <1>2, IdleSteady
<1>3. CASE Onward(job) = next /\ job.at = "scenarios"
  <2>1. job \in Job /\ Missing(job) \subseteq Workflows /\ Missing(job) \subseteq copied
    BY DEF Steady, Missing
  <2>2. next \in Job
    BY <2>1 DEF Job
  <2>3. /\ next.at = "unlisted" /\ next.left = Missing(job) /\ next.phase = job.phase
        /\ next.locals = job.locals
    BY <2>1 DEF Job
  <2>4. job.phase = "scenarios"
    BY <1>3 DEF Steady
  <2>5. Steady(next, copied)
    BY <2>1, <2>2, <2>3, <2>4 DEF Steady
  <2> QED
    BY <1>3, <2>5
<1> QED
  BY <1>1, <1>2, <1>3 DEF Onward

LEMMA BecomeSteady ==
  ASSUME NEW copied, NEW j \in Syncs, NEW job, Steady(job, copied), Become(j, job),
         sync \in [Syncs -> Job], \A k \in Syncs : Steady(sync[k], copied)
  PROVE  sync' \in [Syncs -> Job] /\ \A k \in Syncs : Steady(sync'[k], copied)
<1>1. Steady(Onward(job), copied)
  BY OnwardSteady
<1>2. Onward(job) \in Job
  BY <1>1 DEF Steady
<1>3. sync' = [sync EXCEPT ![j] = Onward(job)]
  BY DEF Become
<1> QED
  BY <1>1, <1>2, <1>3

---------------------------------------------------------------------------
(* Types *)

\* TypeOK is not inductive: a step writes what its job holds.
TypeInv ==
    /\ TypeOK
    /\ \A j \in Syncs : Steady(sync[j], Copied)

LEMMA TypeInit == Init => TypeInv
<1> SUFFICES ASSUME Init PROVE TypeInv
  OBVIOUS
<1>1. budget \in [edits : Nat, clicks : Nat, outages : Nat, restarts : Nat]
  BY ConstantsAssumption DEF Init
<1>2. upstream \in [Workflows -> Upstream]
  <2>1. [state : {"none", "listed"}, content : Contents, date : {0}] \subseteq Upstream
    BY DEF Upstream, Dates
  <2> QED
    BY <2>1 DEF Init
<1>3. Steady(Idle, Copied) /\ Idle \in Job
  BY IdleSteady DEF Steady
<1>4. mirror \in [Workflows -> Copy \union {None}] /\ known \in [Workflows -> Dates \union {None}]
  BY DEF Init, Nothing
<1> QED
  BY <1>1, <1>2, <1>3, <1>4 DEF Init, TypeInv, TypeOK

LEMMA TypeUsers ==
  ASSUME TypeInv, Users
  PROVE  TypeInv'
<1> USE DEF TypeInv
<1>1. PICK w \in Workflows, workflow \in Upstream : Edited(w, workflow)
  <2>1. upstream \in [Workflows -> Upstream]
    BY DEF TypeOK
  <2>2. PICK w \in Workflows : \/ Hide(w) \/ Delete(w)
                               \/ \E content \in Contents : Create(w, content) \/ Change(w, content)
    BY DEF Users
  <2>3. upstream[w] \in Upstream
    BY <2>1
  <2>4. CASE Hide(w)
    <3>1. [upstream[w] EXCEPT !.state = "hidden"] \in Upstream
      BY <2>3 DEF Upstream
    <3> QED
      BY <2>1, <2>4, <3>1 DEF Hide, Edited
  <2>5. CASE Delete(w)
    <3>1. [upstream[w] EXCEPT !.state = "gone"] \in Upstream
      BY <2>3 DEF Upstream
    <3> QED
      BY <2>1, <2>5, <3>1 DEF Delete, Edited
  <2>6. ASSUME NEW content \in Contents, Create(w, content) \/ Change(w, content)
        PROVE  \E workflow \in Upstream : Edited(w, workflow)
    <3>1. /\ [upstream[w] EXCEPT !.state = "listed", !.content = content] \in Upstream
          /\ [upstream[w] EXCEPT !.content = content, !.date = @ + 1] \in Upstream
      <4>1. upstream[w].date \in Nat /\ upstream[w].date + 1 \in Nat
        BY <2>3 DEF Upstream, Dates
      <4>2. [upstream[w] EXCEPT !.content = content] \in Upstream
        BY <2>3 DEF Upstream
      <4>3. [upstream[w] EXCEPT !.content = content, !.date = @ + 1] \in Upstream
        BY <2>3, <4>1, <4>2 DEF Upstream, Dates
      <4>4. [upstream[w] EXCEPT !.state = "listed", !.content = content] \in Upstream
        BY <2>3 DEF Upstream
      <4> QED
        BY <4>3, <4>4
    <3> QED
      BY <2>1, <2>6, <3>1 DEF Create, Change
  <2> QED
    BY <2>2, <2>4, <2>5, <2>6
<1>2. budget' \in [edits : Nat, clicks : Nat, outages : Nat, restarts : Nat]
  BY <1>1 DEF Edited, TypeOK
<1>3. upstream' \in [Workflows -> Upstream]
  BY <1>1 DEF Edited, TypeOK
<1>4. UNCHANGED <<platform, mirror, known, versions, pending, sync, overlapped>>
  BY <1>1 DEF Edited
<1> QED
  BY <1>2, <1>3, <1>4 DEF TypeOK, Copied

\* A step of a job that writes no copy.
LEMMA TypeSilent ==
  ASSUME TypeInv, NEW j \in Syncs, NEW job, Steady(job, Copied), Become(j, job),
         UNCHANGED <<platform, upstream, mirror, known, versions, pending>>,
         overlapped' \in BOOLEAN,
         budget' \in [edits : Nat, clicks : Nat, outages : Nat, restarts : Nat]
  PROVE  TypeInv'
<1>1. Copied' = Copied
  BY DEF Copied
<1>2. sync' \in [Syncs -> Job] /\ \A k \in Syncs : Steady(sync'[k], Copied)
  BY BecomeSteady DEF TypeInv, TypeOK
<1> QED
  BY <1>1, <1>2 DEF TypeInv, TypeOK

LEMMA TypeList ==
  ASSUME TypeInv, NEW j \in Syncs, List(j)
  PROVE  TypeInv'
<1> DEFINE at == IF platform = "n8n" THEN "listed" ELSE "locals"
           phase == IF platform = "n8n" THEN "listed" ELSE "scenarios"
           listing == [w \in Workflows |-> IF w \in Listed THEN upstream[w] ELSE None]
           job == [Idle EXCEPT !.at = at, !.phase = phase, !.listing = listing, !.left = Listed]
<1>1. listing \in [Workflows -> Upstream \union {None}] /\ Listed \subseteq Workflows
  BY DEF TypeInv, TypeOK, Listed
<1>2. Idle \in Job /\ Idle.locals = Nothing
  BY NothingType DEF Job, Idle, Dates
<1>3. /\ job \in Job /\ job.at = at /\ job.phase = phase /\ job.listing = listing
      /\ job.left = Listed /\ job.locals = Nothing
  <2>1. at \in {"listed", "locals"} /\ phase \in {"listed", "scenarios"}
    OBVIOUS
  <2> HIDE DEF at, phase, listing
  <2> QED
    BY <1>1, <1>2, <2>1 DEF Job
<1>4. \A w \in Listed : listing[w] # None
  <2>1. ASSUME NEW w \in Listed PROVE upstream[w] # None
    <3>1. upstream[w] \in Upstream
      BY <1>1, <2>1 DEF TypeInv, TypeOK
    <3> QED
      BY <3>1, Distinct
  <2> QED
    BY <1>1, <2>1
<1>5. Steady(job, Copied)
  <2>1. \A w \in Workflows : job.locals[w] = None
    BY <1>3 DEF Nothing
  <2>2. (at = "listed" /\ phase = "listed") \/ (at = "locals" /\ phase = "scenarios")
    OBVIOUS
  <2> HIDE DEF at, phase, listing, job
  <2> QED
    BY <1>3, <1>4, <2>1, <2>2 DEF Steady
<1>6. Become(j, job) /\ UNCHANGED <<platform, upstream, mirror, known, versions, pending, budget>>
  BY DEF List, Begin, Outside
<1>7. overlapped' \in BOOLEAN
  BY DEF List, Begin
<1>8. budget' \in [edits : Nat, clicks : Nat, outages : Nat, restarts : Nat]
  BY <1>6 DEF TypeInv, TypeOK
<1> HIDE DEF job
<1> QED
  BY <1>5, <1>6, <1>7, <1>8, TypeSilent

LEMMA TypeClick ==
  ASSUME TypeInv, NEW j \in Syncs, NEW w \in Workflows, Click(j, w)
  PROVE  TypeInv'
<1> DEFINE job == [Idle EXCEPT !.at = "absent", !.left = {w}, !.locals = mirror]
<1>1. Idle \in Job /\ Idle.phase = "absent"
  BY NothingType DEF Job, Idle, Dates
<1>2. /\ job \in Job /\ job.at = "absent" /\ job.phase = "absent"
      /\ job.left = {w} /\ job.locals = mirror
  <2>1. mirror \in [Workflows -> Copy \union {None}]
    BY DEF TypeInv, TypeOK
  <2> QED
    BY <1>1, <2>1 DEF Job
<1>3. Steady(job, Copied)
  <2>1. w \in Copied
    BY DEF Click, Copied
  <2> HIDE DEF job
  <2> QED
    BY <1>2, <2>1 DEF Steady, Copied
<1>4. Become(j, job) /\ UNCHANGED <<platform, upstream, mirror, known, versions, pending>>
  BY DEF Click, Begin, Outside
<1>5. overlapped' \in BOOLEAN
  BY DEF Click, Begin
<1>6. budget' \in [edits : Nat, clicks : Nat, outages : Nat, restarts : Nat]
  BY DEF Click, TypeInv, TypeOK
<1> HIDE DEF job
<1> QED
  BY <1>3, <1>4, <1>5, <1>6, TypeSilent

LEMMA TypeReadLocals ==
  ASSUME TypeInv, NEW j \in Syncs, ReadLocals(j)
  PROVE  TypeInv'
<1> DEFINE job == sync[j]
           absent == [job EXCEPT !.at = "absent", !.phase = "absent", !.listing = Nothing,
                                 !.locals = mirror, !.left = Absent(job)]
           scenarios == [job EXCEPT !.at = "scenarios", !.locals = mirror]
<1>1. job \in Job /\ Steady(job, Copied) /\ mirror \in [Workflows -> Copy \union {None}]
  BY DEF TypeInv, TypeOK
<1>2. Absent(job) \subseteq Workflows /\ Absent(job) \subseteq Copied
  BY DEF Absent, Copied
<1>3. Steady(absent, Copied)
  <2>1. /\ absent \in Job /\ absent.at = "absent" /\ absent.phase = "absent"
        /\ absent.left = Absent(job) /\ absent.locals = mirror
    BY <1>1, <1>2, NothingType DEF Job
  <2> QED
    BY <1>2, <2>1 DEF Steady, Copied
<1>4. ASSUME job.at = "locals" PROVE Steady(scenarios, Copied)
  <2>1. /\ scenarios \in Job /\ scenarios.at = "scenarios" /\ scenarios.phase = job.phase
        /\ scenarios.left = job.left /\ scenarios.locals = mirror /\ scenarios.listing = job.listing
    BY <1>1 DEF Job
  <2> QED
    BY <1>1, <1>4, <2>1 DEF Steady, Copied
<1>5. UNCHANGED <<platform, upstream, mirror, known, versions, pending, overlapped, budget>>
  BY DEF ReadLocals, Outside
<1>6. \E next : Steady(next, Copied) /\ Become(j, next)
  BY <1>3, <1>4 DEF ReadLocals
<1> QED
  BY <1>5, <1>6, TypeSilent DEF TypeInv, TypeOK

\* What Ask turns a job into.
LEMMA AskSteady ==
  ASSUME TypeInv, NEW job, Steady(job, Copied), job.at = "absent", NEW w \in job.left
  PROVE  LET next == [job EXCEPT !.left = @ \ {w}] IN
         /\ Steady(next, Copied)
         /\ Steady([next EXCEPT !.at = "flag", !.item = w], Copied)
         /\ Steady([next EXCEPT !.at = "find", !.item = w, !.payload = upstream[w].content,
                                !.date = upstream[w].date], Copied)
<1> DEFINE next == [job EXCEPT !.left = @ \ {w}]
           flag == [next EXCEPT !.at = "flag", !.item = w]
           find == [next EXCEPT !.at = "find", !.item = w, !.payload = upstream[w].content,
                                !.date = upstream[w].date]
<1>1. job \in Job /\ job.phase = "absent" /\ job.left \subseteq Copied /\ w \in Copied /\ w \in Workflows
  BY DEF Steady, Copied
<1>2. upstream[w] \in Upstream
  BY <1>1 DEF TypeInv, TypeOK
<1>3. upstream[w].content \in Contents /\ upstream[w].date \in Dates
  BY <1>2 DEF Upstream
<1>4. /\ next \in Job /\ next.at = "absent" /\ next.phase = "absent"
      /\ next.left = job.left \ {w} /\ next.locals = job.locals
  BY <1>1 DEF Job
<1>5. /\ flag \in Job /\ flag.at = "flag" /\ flag.phase = "absent" /\ flag.item = w
      /\ flag.left = job.left \ {w} /\ flag.locals = job.locals
  BY <1>1, <1>4 DEF Job
<1>6. /\ find \in Job /\ find.at = "find" /\ find.phase = "absent"
      /\ find.item = w /\ find.payload = upstream[w].content
      /\ find.left = job.left \ {w} /\ find.locals = job.locals
  BY <1>1, <1>3, <1>4 DEF Job
<1>7. Steady(next, Copied)
  BY <1>1, <1>4 DEF Steady
<1>8. Steady(flag, Copied)
  BY <1>1, <1>5 DEF Steady
<1>9. Steady(find, Copied)
  BY <1>1, <1>3, <1>6 DEF Steady
<1> QED
  BY <1>7, <1>8, <1>9

LEMMA TypeAsk ==
  ASSUME TypeInv, NEW j \in Syncs, Ask(j)
  PROVE  TypeInv'
<1>1. UNCHANGED <<platform, upstream, mirror, known, versions, pending, overlapped, budget>>
  BY DEF Ask, Outside
<1>2. Steady(sync[j], Copied) /\ sync[j].at = "absent"
  BY DEF TypeInv, Ask
<1>3. \E next : Steady(next, Copied) /\ Become(j, next)
  BY <1>2, AskSteady DEF Ask
<1> QED
  BY <1>1, <1>3, TypeSilent DEF TypeInv, TypeOK

LEMMA TypeFind ==
  ASSUME TypeInv, NEW j \in Syncs, Find(j)
  PROVE  TypeInv'
<1> DEFINE job == sync[j]
<1>1. ASSUME NEW w \in Workflows, NEW content \in Contents, job.at \in {"listed", "find"}
      PROVE  Steady([job EXCEPT !.at = "upsert", !.left = @ \ {w}, !.item = w, !.payload = content,
                                !.changed = HashChanged(mirror[w], content)], Copied)
  <2> DEFINE next == [job EXCEPT !.at = "upsert", !.left = @ \ {w}, !.item = w, !.payload = content,
                                 !.changed = HashChanged(mirror[w], content)]
  <2>1. job \in Job /\ Steady(job, Copied)
    BY DEF TypeInv, TypeOK
  <2>2. HashChanged(mirror[w], content) \in BOOLEAN
    BY DEF HashChanged
  <2>3. /\ next \in Job /\ next.at = "upsert" /\ next.item = w /\ next.payload = content
        /\ next.phase = job.phase /\ next.left = job.left \ {w}
        /\ next.locals = job.locals /\ next.listing = job.listing
    BY <2>1, <2>2 DEF Job
  <2> HIDE DEF next
  <2>4. Steady(next, Copied)
    BY <1>1, <2>1, <2>3 DEF Steady
  <2> QED
    BY <2>4 DEF next
<1>2. UNCHANGED <<platform, upstream, mirror, known, versions, pending, overlapped, budget>>
  BY DEF Find, Outside
<1>3. \E next : Steady(next, Copied) /\ Become(j, next)
  <2>1. job \in Job /\ Steady(job, Copied)
    BY DEF TypeInv, TypeOK
  <2>2. CASE job.at = "listed"
    <3>1. PICK w \in job.left :
             Become(j, [job EXCEPT !.at = "upsert", !.left = @ \ {w}, !.item = w,
                                   !.payload = job.listing[w].content,
                                   !.changed = HashChanged(mirror[w], job.listing[w].content)])
      BY <2>2 DEF Find
    <3>2. w \in Workflows /\ job.listing[w] # None
      BY <2>1, <2>2 DEF Steady, Job
    <3>3. job.listing[w] \in Upstream
      BY <2>1, <3>2 DEF Job
    <3>4. job.listing[w].content \in Contents
      BY <3>3 DEF Upstream
    <3> QED
      BY <1>1, <2>2, <3>1, <3>2, <3>4
  <2>3. CASE job.at = "find"
    <3>1. job.item \in Workflows /\ job.payload \in Contents
      BY <2>1, <2>3 DEF Steady
    <3>2. Become(j, [job EXCEPT !.at = "upsert", !.left = @ \ {job.item}, !.item = job.item,
                                !.payload = job.payload,
                                !.changed = HashChanged(mirror[job.item], job.payload)])
      BY <2>3 DEF Find
    <3> QED
      BY <1>1, <2>3, <3>1, <3>2
  <2> QED
    BY <2>2, <2>3 DEF Find
<1> QED
  BY <1>2, <1>3, TypeSilent DEF TypeInv, TypeOK

LEMMA ResumedSteady ==
  ASSUME NEW copied, NEW job, Steady(job, copied), job.at \in {"upsert", "flag"}
  PROVE  Steady(Resumed(job), copied)
<1>1. job \in Job
  BY DEF Steady
<1>2. /\ Resumed(job) \in Job /\ Resumed(job).at = job.phase /\ Resumed(job).phase = job.phase
      /\ Resumed(job).left = job.left /\ Resumed(job).locals = job.locals
      /\ Resumed(job).listing = job.listing
  BY <1>1 DEF Resumed, Job, Dates
<1>3. job.phase \in {"listed", "absent", "scenarios"}
  BY <1>1 DEF Job
<1> QED
  BY <1>2, <1>3 DEF Steady

\* A step of a job that writes a copy.
LEMMA TypeWrite ==
  ASSUME TypeInv, NEW j \in Syncs, NEW job, Steady(job, Copied'), Become(j, job),
         NEW w \in Workflows, NEW copy \in Copy, mirror' = [mirror EXCEPT ![w] = copy],
         known' \in [Workflows -> Dates \union {None}], pending' \subseteq Workflows \X Contents,
         UNCHANGED <<platform, upstream, versions, overlapped, budget>>
  PROVE  TypeInv'
<1>1. mirror' \in [Workflows -> Copy \union {None}]
  BY DEF TypeInv, TypeOK
<1>2. Copied \subseteq Copied'
  BY Distinct DEF Copied, TypeInv, TypeOK
<1>3. \A k \in Syncs : Steady(sync[k], Copied')
  BY <1>2, SteadyGrows DEF TypeInv
<1>4. sync' \in [Syncs -> Job] /\ \A k \in Syncs : Steady(sync'[k], Copied')
  BY <1>3, BecomeSteady DEF TypeInv, TypeOK
<1> QED
  BY <1>1, <1>4 DEF TypeInv, TypeOK

LEMMA CopiedGrows ==
  ASSUME TypeInv, NEW w \in Workflows, NEW copy \in Copy, mirror' = [mirror EXCEPT ![w] = copy]
  PROVE  Copied \subseteq Copied'
BY Distinct DEF Copied, TypeInv, TypeOK

LEMMA TypeUpsert ==
  ASSUME TypeInv, NEW j \in Syncs, Upsert(j)
  PROVE  TypeInv'
<1> DEFINE job == sync[j]
           copy == [content |-> job.payload, missing |-> FALSE]
<1>1. job \in Job /\ Steady(job, Copied) /\ job.at = "upsert"
  BY DEF TypeInv, TypeOK, Upsert
<1>2. job.item \in Workflows /\ job.payload \in Contents /\ job.date \in Dates
  BY <1>1 DEF Steady, Job
<1>3. copy \in Copy /\ mirror' = [mirror EXCEPT ![job.item] = copy]
  BY <1>2 DEF Copy, Upsert
<1>4. known' \in [Workflows -> Dates \union {None}] /\ pending' \subseteq Workflows \X Contents
  BY <1>2 DEF Upsert, TypeInv, TypeOK
<1>5. Steady(Resumed(job), Copied')
  <2>1. Copied \subseteq Copied'
    BY <1>2, <1>3, CopiedGrows
  <2> QED
    BY <1>1, <2>1, SteadyGrows, ResumedSteady
<1>6. Become(j, Resumed(job)) /\ UNCHANGED <<platform, upstream, versions, overlapped, budget>>
  BY DEF Upsert, Outside
<1> HIDE DEF job, copy
<1> QED
  BY <1>2, <1>3, <1>4, <1>5, <1>6, TypeWrite

\* Flagging keeps the rest of the copy.
LEMMA FlaggedCopy ==
  ASSUME TypeInv, NEW w \in Copied
  PROVE  LET copy == [mirror[w] EXCEPT !.missing = TRUE] IN
         /\ copy \in Copy /\ copy.content = mirror[w].content /\ copy.missing
         /\ [mirror EXCEPT ![w].missing = TRUE] = [mirror EXCEPT ![w] = copy]
<1>1. mirror[w] \in Copy
  BY DEF Copied, TypeInv, TypeOK
<1> QED
  BY <1>1 DEF Copy

LEMMA TypeFlag ==
  ASSUME TypeInv, NEW j \in Syncs, Flag(j)
  PROVE  TypeInv'
<1> DEFINE job == sync[j]
           copy == [mirror[job.item] EXCEPT !.missing = TRUE]
<1>1. job \in Job /\ Steady(job, Copied) /\ job.at = "flag"
  BY DEF TypeInv, TypeOK, Flag
<1>2. job.item \in Copied /\ job.item \in Workflows
  BY <1>1 DEF Steady, Copied
<1>3. copy \in Copy /\ mirror' = [mirror EXCEPT ![job.item] = copy]
  BY <1>2, FlaggedCopy DEF Flag
<1>4. Steady(Resumed(job), Copied')
  <2>1. Copied \subseteq Copied'
    BY <1>2, <1>3, CopiedGrows
  <2> QED
    BY <1>1, <2>1, SteadyGrows, ResumedSteady
<1>5. /\ Become(j, Resumed(job))
      /\ UNCHANGED <<platform, upstream, known, versions, pending, overlapped, budget>>
  BY DEF Flag, Outside
<1>6. known' \in [Workflows -> Dates \union {None}] /\ pending' \subseteq Workflows \X Contents
  BY <1>5 DEF TypeInv, TypeOK
<1> HIDE DEF job, copy
<1> QED
  BY <1>2, <1>3, <1>4, <1>5, <1>6, TypeWrite

LEMMA TypeTakeScenario ==
  ASSUME TypeInv, NEW j \in Syncs, TakeScenario(j)
  PROVE  TypeInv'
<1> DEFINE job == sync[j]
<1>1. PICK w \in job.left :
        LET next == [job EXCEPT !.left = @ \ {w}, !.item = w, !.date = job.listing[w].date] IN
        Become(j, IF IsFresh(job, w)
                  THEN [next EXCEPT !.at = "upsert", !.payload = LocalContent(job, w)]
                  ELSE [next EXCEPT !.at = "get"])
  BY DEF TakeScenario
<1> DEFINE next == [job EXCEPT !.left = @ \ {w}, !.item = w, !.date = job.listing[w].date]
           fresh == [next EXCEPT !.at = "upsert", !.payload = LocalContent(job, w)]
           get == [next EXCEPT !.at = "get"]
<1>2. job \in Job /\ Steady(job, Copied) /\ job.at = "scenarios"
  BY DEF TypeInv, TypeOK, TakeScenario
<1>3. w \in Workflows /\ job.listing[w] # None /\ job.phase = "scenarios"
  BY <1>2 DEF Steady, Job
<1>4. job.listing[w].date \in Dates
  <2>1. job.listing[w] \in Upstream
    BY <1>2, <1>3 DEF Job
  <2> QED
    BY <2>1 DEF Upstream
<1>5. /\ next \in Job /\ next.item = w /\ next.left = job.left \ {w}
      /\ next.phase = "scenarios" /\ next.locals = job.locals /\ next.listing = job.listing
  BY <1>2, <1>3, <1>4 DEF Job
<1> HIDE DEF job, next
<1>6. Steady(get, Copied)
  <2>1. /\ get \in Job /\ get.at = "get" /\ get.item = w /\ get.left = job.left \ {w}
        /\ get.phase = "scenarios" /\ get.locals = job.locals /\ get.listing = job.listing
    BY <1>5 DEF Job
  <2> QED
    BY <1>2, <1>3, <2>1 DEF Steady
<1>7. ASSUME IsFresh(job, w) PROVE Steady(fresh, Copied)
  <2>1. LocalContent(job, w) \in Contents
    <3>1. job.locals[w] \in Copy
      BY <1>2, <1>3, <1>7 DEF IsFresh, Job
    <3> QED
      BY <1>7, <3>1 DEF Copy, IsFresh, LocalContent
  <2>2. /\ fresh \in Job /\ fresh.at = "upsert" /\ fresh.item = w /\ fresh.left = job.left \ {w}
        /\ fresh.payload = LocalContent(job, w)
        /\ fresh.phase = "scenarios" /\ fresh.locals = job.locals /\ fresh.listing = job.listing
    BY <1>5, <2>1 DEF Job
  <2> QED
    BY <1>2, <1>3, <2>1, <2>2 DEF Steady
<1>8. \E new : Steady(new, Copied) /\ Become(j, new)
  BY <1>1, <1>6, <1>7 DEF next
<1>9. UNCHANGED <<platform, upstream, mirror, known, versions, pending, overlapped, budget>>
  BY DEF TakeScenario, Outside
<1> QED
  BY <1>8, <1>9, TypeSilent DEF TypeInv, TypeOK

LEMMA TypeGetScenario ==
  ASSUME TypeInv, NEW j \in Syncs, GetScenario(j)
  PROVE  TypeInv'
<1> DEFINE job == sync[j]
           content == upstream[job.item].content
           next == [job EXCEPT !.at = "upsert", !.payload = content,
                               !.changed = HashChanged(job.locals[job.item], content)]
<1>1. job \in Job /\ Steady(job, Copied) /\ job.at = "get"
  BY DEF TypeInv, TypeOK, GetScenario
<1>2. job.item \in Workflows /\ job.phase = "scenarios"
  BY <1>1 DEF Steady
<1>3. content \in Contents
  <2>1. upstream[job.item] \in Upstream
    BY <1>2 DEF TypeInv, TypeOK
  <2> QED
    BY <2>1 DEF Upstream
<1>4. HashChanged(job.locals[job.item], content) \in BOOLEAN
  BY DEF HashChanged
<1>5. Become(j, next) \/ Become(j, Idle)
  BY DEF GetScenario
<1>6. UNCHANGED <<platform, upstream, mirror, known, versions, pending, overlapped, budget>>
  BY DEF GetScenario, Outside
<1> HIDE DEF job, content
<1>7. /\ next \in Job /\ next.at = "upsert" /\ next.item = job.item /\ next.payload = content
      /\ next.phase = "scenarios" /\ next.left = job.left
      /\ next.locals = job.locals /\ next.listing = job.listing
  BY <1>1, <1>2, <1>3, <1>4 DEF Job
<1> HIDE DEF next
<1>8. Steady(next, Copied)
  BY <1>1, <1>2, <1>3, <1>7 DEF Steady
<1> QED
  BY <1>5, <1>6, <1>8, IdleSteady, TypeSilent DEF TypeInv, TypeOK

\* One workflow less in the hands of a job.
LEMMA SkipSteady ==
  ASSUME NEW copied, NEW job, Steady(job, copied), NEW w
  PROVE  Steady([job EXCEPT !.left = @ \ {w}], copied)
<1> DEFINE next == [job EXCEPT !.left = @ \ {w}]
<1>1. job \in Job
  BY DEF Steady
<1>2. /\ next \in Job /\ next.at = job.at /\ next.item = job.item /\ next.payload = job.payload
      /\ next.phase = job.phase /\ next.left = job.left \ {w}
      /\ next.locals = job.locals /\ next.listing = job.listing
  BY <1>1 DEF Job
<1> HIDE DEF next
<1>3. Steady(next, copied)
  BY <1>2 DEF Steady
<1> QED
  BY <1>3 DEF next

LEMMA TypeFlagUnlisted ==
  ASSUME TypeInv, NEW j \in Syncs, FlagUnlisted(j)
  PROVE  TypeInv'
<1> DEFINE job == sync[j]
<1>1. PICK w \in job.left : /\ mirror' = [mirror EXCEPT ![w].missing = TRUE]
                            /\ Become(j, [job EXCEPT !.left = @ \ {w}])
  BY DEF FlagUnlisted
<1> DEFINE next == [job EXCEPT !.left = @ \ {w}]
           copy == [mirror[w] EXCEPT !.missing = TRUE]
<1>2. Steady(job, Copied) /\ job.at = "unlisted"
  BY DEF TypeInv, FlagUnlisted
<1>3. w \in Copied /\ w \in Workflows
  BY <1>2 DEF Steady, Copied
<1>4. copy \in Copy /\ mirror' = [mirror EXCEPT ![w] = copy]
  BY <1>1, <1>3, FlaggedCopy
<1>5. Steady(next, Copied')
  <2>1. Copied \subseteq Copied'
    BY <1>3, <1>4, CopiedGrows
  <2> QED
    BY <1>2, <2>1, SteadyGrows, SkipSteady
<1>6. UNCHANGED <<platform, upstream, known, versions, pending, overlapped, budget>>
  BY DEF FlagUnlisted, Outside
<1>7. known' \in [Workflows -> Dates \union {None}] /\ pending' \subseteq Workflows \X Contents
  BY <1>6 DEF TypeInv, TypeOK
<1> HIDE DEF job, copy
<1> QED
  BY <1>1, <1>3, <1>4, <1>5, <1>6, <1>7, TypeWrite

LEMMA TypeCallFails ==
  ASSUME TypeInv, NEW j \in Syncs, CallFails(j)
  PROVE  TypeInv'
<1>1. \E next : Steady(next, Copied) /\ Become(j, next)
  <2>1. Steady(sync[j], Copied)
    BY DEF TypeInv
  <2> QED
    BY <2>1, SkipSteady, IdleSteady DEF CallFails
<1>2. budget' \in [edits : Nat, clicks : Nat, outages : Nat, restarts : Nat]
  BY DEF CallFails, TypeInv, TypeOK
<1>3. UNCHANGED <<platform, upstream, mirror, known, versions, pending, overlapped>>
  BY DEF CallFails, Outside
<1> QED
  BY <1>1, <1>2, <1>3, TypeSilent DEF TypeInv, TypeOK

LEMMA TypeSnapshot ==
  ASSUME TypeInv, NEW x \in Workflows \X Contents, Snapshot(x)
  PROVE  TypeInv'
BY DEF Snapshot, TypeInv, TypeOK, Copied

LEMMA TypeRestart ==
  ASSUME TypeInv, Restart
  PROVE  TypeInv'
<1>1. Copied' = Copied
  BY DEF Restart, Copied
<1>2. budget' \in [edits : Nat, clicks : Nat, outages : Nat, restarts : Nat]
  BY DEF Restart, TypeInv, TypeOK
<1>3. sync' \in [Syncs -> Job] /\ \A j \in Syncs : Steady(sync'[j], Copied)
  <2>1. Steady(Idle, Copied) /\ Idle \in Job
    BY IdleSteady DEF Steady
  <2> QED
    BY <2>1 DEF Restart
<1>4. known' \in [Workflows -> Dates \union {None}]
  BY DEF Restart, Nothing
<1> QED
  BY <1>1, <1>2, <1>3, <1>4 DEF Restart, Outside, TypeInv, TypeOK

LEMMA TypeWork ==
  ASSUME TypeInv, NEW j \in Syncs, Work(j)
  PROVE  TypeInv'
BY TypeList, TypeClick, TypeReadLocals, TypeAsk, TypeFind, TypeUpsert, TypeFlag, TypeTakeScenario,
   TypeGetScenario, TypeFlagUnlisted, TypeCallFails DEF Work, Continue

LEMMA TypeNext == TypeInv /\ [Next]_vars => TypeInv'
<1> SUFFICES ASSUME TypeInv, [Next]_vars PROVE TypeInv'
  OBVIOUS
<1>1. CASE UNCHANGED vars
  BY <1>1 DEF vars, TypeInv, TypeOK, Copied
<1>2. CASE Next
  BY <1>2, TypeUsers, TypeWork, TypeSnapshot, TypeRestart DEF Next
<1> QED
  BY <1>1, <1>2

\* Every variable keeps its type, whatever the syncs that overlap: what a step
\* writes over a copy is a content the platform gave (upsertWorkflow,
\* syncPlatformInstance).
THEOREM TypeCorrect == Spec => []TypeOK
<1>1. Spec => []TypeInv
  BY TypeInit, TypeNext, PTL DEF Spec
<1>2. TypeInv => TypeOK
  BY DEF TypeInv
<1> QED
  BY <1>1, <1>2, PTL

---------------------------------------------------------------------------
(* Versions *)

\* The contents versioned, or about to be.
Archive == versions \union pending

\* The copies a job read are archived, and what it writes as unchanged too.
Recording(job, archive) ==
    /\ \A w \in Workflows : job.locals[w] # None => <<w, job.locals[w].content>> \in archive
    /\ job.at = "upsert" /\ ~ job.changed => <<job.item, job.payload>> \in archive

AllRecorded ==
    /\ \A w \in Workflows : mirror[w] # None => <<w, mirror[w].content>> \in Archive
    /\ \A j \in Syncs : Recording(sync[j], Archive)

VersionInv ==
    /\ TypeInv
    /\ budget.restarts <= MaxRestarts
    /\ Unrestarted => AllRecorded

LEMMA IdleRecording ==
  ASSUME NEW archive
  PROVE  Recording(Idle, archive)
BY DEF Recording, Idle, Nothing

LEMMA RecordingGrows ==
  ASSUME NEW archive, NEW more, archive \subseteq more, NEW job, Recording(job, archive)
  PROVE  Recording(job, more)
BY DEF Recording

LEMMA BecomeRecording ==
  ASSUME NEW archive, NEW j \in Syncs, NEW job \in Job, Recording(job, archive), Become(j, job),
         sync \in [Syncs -> Job], \A k \in Syncs : Recording(sync[k], archive)
  PROVE  \A k \in Syncs : Recording(sync'[k], archive)
<1>1. Recording(Onward(job), archive)
  <2> DEFINE next == [job EXCEPT !.at = "unlisted", !.left = Missing(job)]
  <2>1. Recording(next, archive)
    <3>1. next.at = "unlisted" /\ next.locals = job.locals
      BY DEF Job
    <3> QED
      BY <3>1 DEF Recording
  <2> QED
    BY <2>1, IdleRecording DEF Onward
<1>2. sync' = [sync EXCEPT ![j] = Onward(job)]
  BY DEF Become
<1> QED
  BY <1>1, <1>2

\* A step of a job that writes no copy.
LEMMA RecordSilent ==
  ASSUME TypeInv, AllRecorded, NEW j \in Syncs, NEW job \in Job, Recording(job, Archive), Become(j, job),
         UNCHANGED <<mirror, versions, pending>>
  PROVE  AllRecorded'
<1>1. \A k \in Syncs : Recording(sync'[k], Archive)
  BY BecomeRecording DEF TypeInv, TypeOK, AllRecorded
<1>2. Archive' = Archive
  BY DEF Archive
<1> QED
  BY <1>1, <1>2 DEF AllRecorded

\* A job that goes on with the copies it read, and does not write.
LEMMA RecordingKept ==
  ASSUME NEW archive, NEW job, NEW next, Recording(job, archive),
         next.locals = job.locals, next.at # "upsert"
  PROVE  Recording(next, archive)
BY DEF Recording

\* A job that has just read the copies.
LEMMA RecordingRead ==
  ASSUME AllRecorded, NEW next, next.locals = mirror, next.at # "upsert"
  PROVE  Recording(next, Archive)
BY DEF Recording, AllRecorded

LEMMA RecordBegin ==
  ASSUME TypeInv, AllRecorded, NEW j \in Syncs, List(j) \/ \E w \in Workflows : Click(j, w)
  PROVE  AllRecorded'
<1>1. Idle \in Job /\ Idle.at = "idle" /\ Idle.locals = Nothing
  BY NothingType DEF Job, Idle, Dates
<1>2. UNCHANGED <<mirror, versions, pending>>
  BY DEF List, Click, Begin, Outside
<1>3. CASE List(j)
  <2> DEFINE at == IF platform = "n8n" THEN "listed" ELSE "locals"
             phase == IF platform = "n8n" THEN "listed" ELSE "scenarios"
             listing == [w \in Workflows |-> IF w \in Listed THEN upstream[w] ELSE None]
             job == [Idle EXCEPT !.at = at, !.phase = phase, !.listing = listing, !.left = Listed]
  <2>1. at \in {"listed", "locals"} /\ phase \in {"listed", "scenarios"}
    OBVIOUS
  <2>2. listing \in [Workflows -> Upstream \union {None}] /\ Listed \subseteq Workflows
    BY DEF TypeInv, TypeOK, Listed
  <2>3. Become(j, job)
    BY <1>3 DEF List, Begin
  <2> HIDE DEF at, phase, listing
  <2>4. job \in Job /\ job.locals = Idle.locals /\ job.at # "upsert"
    BY <1>1, <2>1, <2>2 DEF Job
  <2>5. Recording(job, Archive)
    BY <2>4, IdleRecording, RecordingKept
  <2> HIDE DEF job
  <2> QED
    BY <1>2, <2>3, <2>4, <2>5, RecordSilent
<1>4. ASSUME NEW w \in Workflows, Click(j, w)
      PROVE  AllRecorded'
  <2> DEFINE job == [Idle EXCEPT !.at = "absent", !.left = {w}, !.locals = mirror]
  <2>1. mirror \in [Workflows -> Copy \union {None}]
    BY DEF TypeInv, TypeOK
  <2>2. job \in Job /\ job.locals = mirror /\ job.at # "upsert"
    BY <1>1, <2>1 DEF Job
  <2>3. Become(j, job)
    BY <1>4 DEF Click, Begin
  <2> HIDE DEF job
  <2> QED
    BY <1>2, <2>2, <2>3, RecordingRead, RecordSilent
<1> QED
  BY <1>3, <1>4

LEMMA RecordReadLocals ==
  ASSUME TypeInv, AllRecorded, NEW j \in Syncs, ReadLocals(j)
  PROVE  AllRecorded'
<1> DEFINE job == sync[j]
           absent == [job EXCEPT !.at = "absent", !.phase = "absent", !.listing = Nothing,
                                 !.locals = mirror, !.left = Absent(job)]
           scenarios == [job EXCEPT !.at = "scenarios", !.locals = mirror]
<1>1. job \in Job /\ mirror \in [Workflows -> Copy \union {None}] /\ Absent(job) \subseteq Workflows
  BY DEF TypeInv, TypeOK, Absent
<1>2. absent \in Job /\ absent.locals = mirror /\ absent.at # "upsert"
  BY <1>1, NothingType DEF Job
<1>3. scenarios \in Job /\ scenarios.locals = mirror /\ scenarios.at # "upsert"
  BY <1>1 DEF Job
<1>4. UNCHANGED <<mirror, versions, pending>> /\ (Become(j, absent) \/ Become(j, scenarios))
  BY DEF ReadLocals, Outside
<1> HIDE DEF absent, scenarios
<1> QED
  BY <1>2, <1>3, <1>4, RecordingRead, RecordSilent

LEMMA RecordAsk ==
  ASSUME TypeInv, AllRecorded, NEW j \in Syncs, Ask(j)
  PROVE  AllRecorded'
<1> DEFINE job == sync[j]
<1>1. PICK w \in job.left :
        LET next == [job EXCEPT !.left = @ \ {w}] IN
        \/ Become(j, next)
        \/ Become(j, [next EXCEPT !.at = "flag", !.item = w])
        \/ Become(j, [next EXCEPT !.at = "find", !.item = w, !.payload = upstream[w].content,
                                  !.date = upstream[w].date])
  BY DEF Ask
<1> DEFINE next == [job EXCEPT !.left = @ \ {w}]
           flag == [next EXCEPT !.at = "flag", !.item = w]
           find == [next EXCEPT !.at = "find", !.item = w, !.payload = upstream[w].content,
                                !.date = upstream[w].date]
<1>2. Steady(job, Copied) /\ job \in Job /\ job.at = "absent"
  BY DEF TypeInv, TypeOK, Ask
<1>3. next \in Job /\ flag \in Job /\ find \in Job
  BY <1>2, AskSteady DEF Steady
<1>4. /\ next.at # "upsert" /\ next.locals = job.locals
      /\ flag.at # "upsert" /\ flag.locals = job.locals
      /\ find.at # "upsert" /\ find.locals = job.locals
  BY <1>2 DEF Job
<1>5. UNCHANGED <<mirror, versions, pending>>
  BY DEF Ask, Outside
<1>6. Recording(job, Archive)
  BY DEF AllRecorded
<1>7. Become(j, next) \/ Become(j, flag) \/ Become(j, find)
  BY <1>1
<1> HIDE DEF job, next, flag, find
<1> QED
  BY <1>3, <1>4, <1>5, <1>6, <1>7, RecordingKept, RecordSilent

\* What is not a change is what the copy has, and the copy is archived.
LEMMA RecordFind ==
  ASSUME TypeInv, AllRecorded, NEW j \in Syncs, Find(j)
  PROVE  AllRecorded'
<1> DEFINE job == sync[j]
           Found(w, content) == [job EXCEPT !.at = "upsert", !.left = @ \ {w}, !.item = w,
                                            !.payload = content,
                                            !.changed = HashChanged(mirror[w], content)]
<1>1. job \in Job /\ Steady(job, Copied) /\ Recording(job, Archive)
  BY DEF TypeInv, TypeOK, AllRecorded
<1>2. PICK w \in Workflows, content \in Contents : Become(j, Found(w, content))
  <2>1. CASE job.at = "listed"
    <3>1. PICK w \in job.left : Become(j, Found(w, job.listing[w].content))
      BY <2>1 DEF Find
    <3>2. w \in Workflows /\ job.listing[w] # None
      BY <1>1, <2>1 DEF Steady, Job
    <3>3. job.listing[w] \in Upstream
      BY <1>1, <3>2 DEF Job
    <3>4. job.listing[w].content \in Contents
      BY <3>3 DEF Upstream
    <3> HIDE DEF Found
    <3> QED
      BY <3>1, <3>2, <3>4
  <2>2. CASE job.at = "find"
    <3>1. job.item \in Workflows /\ job.payload \in Contents
      BY <1>1, <2>2 DEF Steady
    <3>2. Become(j, Found(job.item, job.payload))
      BY <2>2 DEF Find
    <3> HIDE DEF Found
    <3> QED
      BY <3>1, <3>2
  <2> QED
    BY <2>1, <2>2 DEF Find
<1> DEFINE next == Found(w, content)
<1>3. HashChanged(mirror[w], content) \in BOOLEAN
  BY DEF HashChanged
<1>4. /\ next \in Job /\ next.locals = job.locals /\ next.item = w /\ next.payload = content
      /\ next.changed = HashChanged(mirror[w], content)
  BY <1>1, <1>3 DEF Job
<1> HIDE DEF next
<1>5. ASSUME ~ HashChanged(mirror[w], content) PROVE <<w, content>> \in Archive
  BY <1>5 DEF HashChanged, AllRecorded
<1>6. Recording(next, Archive)
  BY <1>1, <1>4, <1>5 DEF Recording
<1>7. UNCHANGED <<mirror, versions, pending>>
  BY DEF Find, Outside
<1>8. Become(j, next)
  BY <1>2 DEF next
<1> QED
  BY <1>4, <1>6, <1>7, <1>8, RecordSilent

LEMMA ResumedRecording ==
  ASSUME NEW copied, NEW archive, NEW job, Steady(job, copied), Recording(job, archive)
  PROVE  Recording(Resumed(job), archive) /\ Resumed(job) \in Job
<1>1. job \in Job
  BY DEF Steady
<1>2. /\ Resumed(job) \in Job /\ Resumed(job).locals = job.locals /\ Resumed(job).at = job.phase
  BY <1>1 DEF Resumed, Job, Dates
<1>3. job.phase \in {"listed", "absent", "scenarios"}
  BY <1>1 DEF Job
<1> QED
  BY <1>2, <1>3, RecordingKept

\* A step of a job that writes an archived content.
LEMMA RecordWrite ==
  ASSUME TypeInv, AllRecorded, NEW j \in Syncs, NEW job \in Job, Recording(job, Archive), Become(j, job),
         NEW w \in Workflows, NEW copy \in Copy, mirror' = [mirror EXCEPT ![w] = copy],
         <<w, copy.content>> \in Archive', Archive \subseteq Archive'
  PROVE  AllRecorded'
<1>1. Recording(job, Archive') /\ \A k \in Syncs : Recording(sync[k], Archive')
  BY RecordingGrows DEF AllRecorded
<1>2. \A k \in Syncs : Recording(sync'[k], Archive')
  BY <1>1, BecomeRecording DEF TypeInv, TypeOK
<1>3. ASSUME NEW v \in Workflows, mirror'[v] # None
      PROVE  <<v, mirror'[v].content>> \in Archive'
  <2>1. mirror \in [Workflows -> Copy \union {None}]
    BY DEF TypeInv, TypeOK
  <2>2. CASE v = w
    BY <2>1, <2>2
  <2>3. CASE v # w
    BY <1>3, <2>1, <2>3 DEF AllRecorded
  <2> QED
    BY <2>2, <2>3
<1> QED
  BY <1>2, <1>3 DEF AllRecorded

LEMMA RecordUpsert ==
  ASSUME TypeInv, AllRecorded, NEW j \in Syncs, Upsert(j)
  PROVE  AllRecorded'
<1> DEFINE job == sync[j]
           copy == [content |-> job.payload, missing |-> FALSE]
<1>1. job \in Job /\ Steady(job, Copied) /\ job.at = "upsert" /\ Recording(job, Archive)
  BY DEF TypeInv, TypeOK, Upsert, AllRecorded
<1>2. job.item \in Workflows /\ job.payload \in Contents
  BY <1>1 DEF Steady
<1>3. copy \in Copy /\ copy.content = job.payload /\ mirror' = [mirror EXCEPT ![job.item] = copy]
  BY <1>2 DEF Copy, Upsert
<1>4. Archive \subseteq Archive' /\ <<job.item, job.payload>> \in Archive'
  <2>1. CASE job.changed
    BY <2>1 DEF Upsert, Outside, Archive
  <2>2. CASE ~ job.changed
    BY <1>1, <2>2 DEF Upsert, Outside, Archive, Recording
  <2> QED
    BY <2>1, <2>2
<1>5. Recording(Resumed(job), Archive) /\ Resumed(job) \in Job
  BY <1>1, ResumedRecording
<1>6. Become(j, Resumed(job))
  BY DEF Upsert
<1> HIDE DEF job, copy
<1> QED
  BY <1>2, <1>3, <1>4, <1>5, <1>6, RecordWrite

LEMMA RecordFlagged ==
  ASSUME TypeInv, AllRecorded, NEW j \in Syncs, NEW job \in Job, Recording(job, Archive), Become(j, job),
         NEW w \in Copied, mirror' = [mirror EXCEPT ![w].missing = TRUE], UNCHANGED <<versions, pending>>
  PROVE  AllRecorded'
<1> DEFINE copy == [mirror[w] EXCEPT !.missing = TRUE]
<1>1. copy \in Copy /\ copy.content = mirror[w].content /\ mirror' = [mirror EXCEPT ![w] = copy]
  BY FlaggedCopy
<1>2. w \in Workflows /\ mirror[w] # None
  BY DEF Copied
<1>3. Archive' = Archive
  BY DEF Archive
<1>4. <<w, copy.content>> \in Archive'
  BY <1>1, <1>2, <1>3 DEF AllRecorded
<1> HIDE DEF copy
<1> QED
  BY <1>1, <1>2, <1>3, <1>4, RecordWrite

LEMMA RecordFlag ==
  ASSUME TypeInv, AllRecorded, NEW j \in Syncs, Flag(j) \/ FlagUnlisted(j)
  PROVE  AllRecorded'
<1> DEFINE job == sync[j]
<1>1. job \in Job /\ Steady(job, Copied) /\ Recording(job, Archive)
  BY DEF TypeInv, TypeOK, AllRecorded
<1>2. UNCHANGED <<versions, pending>>
  BY DEF Flag, FlagUnlisted, Outside
<1>3. CASE Flag(j)
  <2>1. job.item \in Copied
    BY <1>1, <1>3 DEF Flag, Steady
  <2>2. Recording(Resumed(job), Archive) /\ Resumed(job) \in Job
    BY <1>1, ResumedRecording
  <2>3. Become(j, Resumed(job)) /\ mirror' = [mirror EXCEPT ![job.item].missing = TRUE]
    BY <1>3 DEF Flag
  <2> QED
    BY <1>2, <2>1, <2>2, <2>3, RecordFlagged
<1>4. CASE FlagUnlisted(j)
  <2>1. PICK w \in job.left : /\ mirror' = [mirror EXCEPT ![w].missing = TRUE]
                              /\ Become(j, [job EXCEPT !.left = @ \ {w}])
    BY <1>4 DEF FlagUnlisted
  <2> DEFINE next == [job EXCEPT !.left = @ \ {w}]
  <2>2. job.at = "unlisted" /\ w \in Copied
    BY <1>1, <1>4 DEF FlagUnlisted, Steady
  <2>3. next \in Job /\ next.locals = job.locals /\ next.at # "upsert"
    BY <1>1, <2>2 DEF Job
  <2>4. Become(j, next)
    BY <2>1
  <2> HIDE DEF next
  <2>5. Recording(next, Archive)
    BY <1>1, <2>3, RecordingKept
  <2> QED
    BY <1>2, <2>1, <2>2, <2>3, <2>4, <2>5, RecordFlagged
<1> QED
  BY <1>3, <1>4

\* A fresh content is the one of the copy the job read, which is archived.
LEMMA RecordTakeScenario ==
  ASSUME TypeInv, AllRecorded, NEW j \in Syncs, TakeScenario(j)
  PROVE  AllRecorded'
<1> DEFINE job == sync[j]
<1>1. PICK w \in job.left :
        LET next == [job EXCEPT !.left = @ \ {w}, !.item = w, !.date = job.listing[w].date] IN
        Become(j, IF IsFresh(job, w)
                  THEN [next EXCEPT !.at = "upsert", !.payload = LocalContent(job, w)]
                  ELSE [next EXCEPT !.at = "get"])
  BY DEF TakeScenario
<1> DEFINE next == [job EXCEPT !.left = @ \ {w}, !.item = w, !.date = job.listing[w].date]
           fresh == [next EXCEPT !.at = "upsert", !.payload = LocalContent(job, w)]
           get == [next EXCEPT !.at = "get"]
<1>2. job \in Job /\ Steady(job, Copied) /\ job.at = "scenarios" /\ Recording(job, Archive)
  BY DEF TypeInv, TypeOK, TakeScenario, AllRecorded
<1>3. w \in Workflows /\ job.listing[w] # None /\ job.phase = "scenarios"
  BY <1>2 DEF Steady, Job
<1>4. job.listing[w].date \in Dates
  <2>1. job.listing[w] \in Upstream
    BY <1>2, <1>3 DEF Job
  <2> QED
    BY <2>1 DEF Upstream
<1>5. next \in Job /\ next.item = w /\ next.locals = job.locals
  BY <1>2, <1>3, <1>4 DEF Job
<1>6. UNCHANGED <<mirror, versions, pending>>
  BY DEF TakeScenario, Outside
<1>7. Become(j, IF IsFresh(job, w) THEN fresh ELSE get)
  BY <1>1
<1> HIDE DEF job, next
<1>8. get \in Job /\ Recording(get, Archive)
  <2>1. get \in Job /\ get.locals = job.locals /\ get.at # "upsert"
    BY <1>5 DEF Job
  <2> QED
    BY <1>2, <2>1, RecordingKept
<1>9. ASSUME IsFresh(job, w) PROVE fresh \in Job /\ Recording(fresh, Archive)
  <2>1. job.locals[w] \in Copy /\ LocalContent(job, w) = job.locals[w].content /\ job.locals[w] # None
    BY <1>2, <1>3, <1>9 DEF IsFresh, LocalContent, Job
  <2>2. LocalContent(job, w) \in Contents
    BY <2>1 DEF Copy
  <2>3. /\ fresh \in Job /\ fresh.locals = job.locals /\ fresh.item = w
        /\ fresh.payload = LocalContent(job, w)
    BY <1>5, <2>2 DEF Job
  <2>4. <<w, job.locals[w].content>> \in Archive
    BY <1>2, <1>3, <2>1 DEF Recording
  <2> QED
    BY <1>2, <2>1, <2>3, <2>4 DEF Recording
<1> HIDE DEF fresh, get
<1> QED
  BY <1>6, <1>7, <1>8, <1>9, RecordSilent

LEMMA RecordGetScenario ==
  ASSUME TypeInv, AllRecorded, NEW j \in Syncs, GetScenario(j)
  PROVE  AllRecorded'
<1> DEFINE job == sync[j]
           content == upstream[job.item].content
           next == [job EXCEPT !.at = "upsert", !.payload = content,
                               !.changed = HashChanged(job.locals[job.item], content)]
<1>1. job \in Job /\ Steady(job, Copied) /\ job.at = "get" /\ Recording(job, Archive)
  BY DEF TypeInv, TypeOK, GetScenario, AllRecorded
<1>2. job.item \in Workflows
  BY <1>1 DEF Steady
<1>3. content \in Contents
  <2>1. upstream[job.item] \in Upstream
    BY <1>2 DEF TypeInv, TypeOK
  <2> QED
    BY <2>1 DEF Upstream
<1>4. HashChanged(job.locals[job.item], content) \in BOOLEAN
  BY DEF HashChanged
<1>5. Become(j, next) \/ Become(j, Idle)
  BY DEF GetScenario
<1>6. UNCHANGED <<mirror, versions, pending>>
  BY DEF GetScenario, Outside
<1> HIDE DEF job, content
<1>7. /\ next \in Job /\ next.item = job.item /\ next.payload = content /\ next.locals = job.locals
      /\ next.changed = HashChanged(job.locals[job.item], content)
  BY <1>1, <1>2, <1>3, <1>4 DEF Job
<1> HIDE DEF next
<1>8. Recording(next, Archive)
  BY <1>1, <1>2, <1>7 DEF Recording, HashChanged
<1>9. Idle \in Job
  BY IdleSteady DEF Steady
<1> QED
  BY <1>5, <1>6, <1>7, <1>8, <1>9, IdleRecording, RecordSilent

LEMMA RecordCallFails ==
  ASSUME TypeInv, AllRecorded, NEW j \in Syncs, CallFails(j)
  PROVE  AllRecorded'
<1> DEFINE job == sync[j]
<1>1. job \in Job /\ Steady(job, Copied) /\ Recording(job, Archive)
  BY DEF TypeInv, TypeOK, AllRecorded
<1>2. UNCHANGED <<mirror, versions, pending>>
  BY DEF CallFails, Outside
<1>3. Idle \in Job
  BY IdleSteady DEF Steady
<1>4. ASSUME NEW w \in job.left, job.at = "absent", Become(j, [job EXCEPT !.left = @ \ {w}])
      PROVE  AllRecorded'
  <2> DEFINE next == [job EXCEPT !.left = @ \ {w}]
  <2>1. next \in Job /\ next.locals = job.locals /\ next.at # "upsert"
    BY <1>1, <1>4 DEF Job
  <2>2. Become(j, next)
    BY <1>4
  <2> HIDE DEF next
  <2>3. Recording(next, Archive)
    BY <1>1, <2>1, RecordingKept
  <2> QED
    BY <1>2, <2>1, <2>2, <2>3, RecordSilent
<1>5. ASSUME Become(j, Idle) PROVE AllRecorded'
  BY <1>2, <1>3, <1>5, IdleRecording, RecordSilent
<1> QED
  BY <1>4, <1>5 DEF CallFails

LEMMA VersionInit == Init => VersionInv
<1> SUFFICES ASSUME Init PROVE VersionInv
  OBVIOUS
<1>1. budget.restarts <= MaxRestarts
  BY ConstantsAssumption DEF Init
<1>2. AllRecorded
  BY IdleRecording DEF Init, AllRecorded, Nothing
<1> QED
  BY <1>1, <1>2, TypeInit DEF VersionInv

LEMMA RecordWork ==
  ASSUME TypeInv, AllRecorded, NEW j \in Syncs, Work(j)
  PROVE  AllRecorded'
BY RecordBegin, RecordReadLocals, RecordAsk, RecordFind, RecordUpsert, RecordFlag, RecordTakeScenario,
   RecordGetScenario, RecordCallFails DEF Work, Continue

LEMMA VersionNext == VersionInv /\ [Next]_vars => VersionInv'
<1> SUFFICES ASSUME VersionInv, [Next]_vars PROVE VersionInv'
  OBVIOUS
<1>1. TypeInv /\ TypeInv' /\ budget \in [edits : Nat, clicks : Nat, outages : Nat, restarts : Nat]
  BY TypeNext DEF VersionInv, TypeInv, TypeOK
<1>2. CASE Restart
  <2>1. budget'.restarts = budget.restarts - 1 /\ budget.restarts <= MaxRestarts /\ budget.restarts \in Nat
    BY <1>1, <1>2 DEF Restart, VersionInv
  <2>2. budget'.restarts <= MaxRestarts /\ ~ Unrestarted'
    BY <2>1, ConstantsAssumption DEF Unrestarted
  <2> QED
    BY <1>1, <2>2 DEF VersionInv
<1>3. CASE ~ Restart
  <2>1. budget'.restarts = budget.restarts
    <3>1. CASE Users
      <4>1. budget' = [budget EXCEPT !.edits = @ - 1]
        BY <3>1 DEF Users, Create, Change, Hide, Delete, Edited
      <4> QED
        BY <1>1, <4>1
    <3>2. ASSUME NEW j \in Syncs, Work(j) PROVE budget'.restarts = budget.restarts
      <4>1. \/ budget' = budget \/ budget' = [budget EXCEPT !.clicks = @ - 1]
            \/ budget' = [budget EXCEPT !.outages = @ - 1]
        BY <3>2 DEF Work, Continue, List, Click, ReadLocals, Ask, Find, Upsert, Flag, TakeScenario,
           GetScenario, FlagUnlisted, CallFails
      <4> QED
        BY <1>1, <4>1
    <3>3. CASE UNCHANGED budget
      BY <3>3
    <3> QED
      BY <1>3, <3>1, <3>2, <3>3 DEF Next, vars, Snapshot
  <2>2. ASSUME AllRecorded PROVE AllRecorded'
    <3>1. CASE UNCHANGED <<mirror, versions, pending, sync>>
      BY <2>2, <3>1 DEF AllRecorded, Archive
    <3>2. CASE \E j \in Syncs : Work(j)
      BY <1>1, <2>2, <3>2, RecordWork
    <3>3. ASSUME NEW x \in Workflows \X Contents, Snapshot(x) PROVE AllRecorded'
      <4>1. Archive' = Archive /\ UNCHANGED <<mirror, sync>>
        BY <3>3 DEF Snapshot, Archive
      <4> QED
        BY <2>2, <4>1 DEF AllRecorded
    <3>4. Users => UNCHANGED <<mirror, versions, pending, sync>>
      BY DEF Users, Create, Change, Hide, Delete, Edited
    <3> QED
      BY <1>3, <3>1, <3>2, <3>3, <3>4 DEF Next, vars
  <2> QED
    BY <1>1, <2>1, <2>2 DEF VersionInv, Unrestarted
<1> QED
  BY <1>2, <1>3

\* Until the API restarts, the content of every copy is in a snapshot, or in the
\* hands of onWorkflowSynced, whatever the passes and clicks that overlap.
THEOREM VersionsKeepUp == Spec => []CopiesAreVersioned
<1>1. Spec => []VersionInv
  BY VersionInit, VersionNext, PTL DEF Spec
<1>2. VersionInv => CopiesAreVersioned
  BY DEF VersionInv, AllRecorded, CopiesAreVersioned, Recorded, Archive
<1> QED
  BY <1>1, <1>2, PTL

---------------------------------------------------------------------------
(* Missing workflows *)

Known == {w \in Workflows : upstream[w].state # "none"}

Gone == {w \in Workflows : upstream[w].state = "gone"}

\* What a job holds was on the platform one day.
Witnessed(job) ==
    /\ \A w \in Workflows : job.listing[w] # None => w \in Known
    /\ job.at \in {"find", "upsert", "get"} => job.item \in Known
    /\ job.at = "flag" => job.item \in Gone
    /\ platform = "n8n" => job.phase # "scenarios"

\* What a pass over Make will flag is gone, given the workflows that have a copy.
Lone(job, copied) ==
    /\ job.at = "locals" => \A w \in copied : job.listing[w] = None => w \in Gone
    /\ (job.at \in {"scenarios", "get"} \/ (job.at = "upsert" /\ job.phase = "scenarios"))
         => Missing(job) \subseteq Gone
    /\ job.at = "unlisted" => job.left \subseteq Gone

\* Where no two syncs overlapped.
Alone == \A j, k \in Syncs : sync[j].at # "idle" /\ sync[k].at # "idle" => j = k

GoneInv ==
    /\ TypeInv
    /\ Copied \subseteq Known
    /\ platform = "make" => \A w \in Workflows : upstream[w].state # "hidden"
    /\ \A j \in Syncs : Witnessed(sync[j])
    /\ ~ overlapped => Alone /\ \A j \in Syncs : Lone(sync[j], Copied)
    /\ MissingIsGone

LEMMA IdleWitnessed == Witnessed(Idle) /\ \A copied : Lone(Idle, copied)
BY DEF Witnessed, Lone, Idle, Nothing

LEMMA OnwardWitnessed ==
  ASSUME NEW job \in Job, Witnessed(job)
  PROVE  Witnessed(Onward(job))
<1> DEFINE next == [job EXCEPT !.at = "unlisted", !.left = Missing(job)]
<1>1. next.at = "unlisted" /\ next.listing = job.listing /\ next.phase = job.phase
  BY DEF Job
<1>2. Witnessed(next)
  BY <1>1 DEF Witnessed
<1> QED
  BY <1>2, IdleWitnessed DEF Onward

LEMMA OnwardLone ==
  ASSUME NEW copied, NEW job \in Job, Lone(job, copied)
  PROVE  Lone(Onward(job), copied)
<1> DEFINE next == [job EXCEPT !.at = "unlisted", !.left = Missing(job)]
<1>1. ASSUME job.at = "scenarios" PROVE Lone(next, copied)
  <2>1. next.at = "unlisted" /\ next.left = Missing(job)
    BY DEF Job, Missing
  <2>2. Missing(job) \subseteq Gone
    BY <1>1 DEF Lone
  <2> QED
    BY <2>1, <2>2 DEF Lone
<1> QED
  BY <1>1, IdleWitnessed DEF Onward

\* A step of a job.
LEMMA GoneStep ==
  ASSUME GoneInv, TypeInv', NEW j \in Syncs, NEW next \in Job, Become(j, next),
         UNCHANGED <<platform, upstream>>,
         Witnessed(next), Copied' \subseteq Known,
         ~ overlapped' => /\ ~ overlapped
                          /\ \A k \in Syncs \ {j} : sync[k].at = "idle"
                          /\ Lone(next, Copied'),
         \A w \in Copied' : mirror'[w].missing =>
            w \in Gone \/ (platform # "n8n" /\ overlapped') \/ (w \in Copied /\ mirror[w].missing)
  PROVE  GoneInv'
<1>1. sync' = [sync EXCEPT ![j] = Onward(next)] /\ sync \in [Syncs -> Job]
  BY DEF Become, GoneInv, TypeInv, TypeOK
<1>2. Known' = Known /\ Gone' = Gone
  BY DEF Known, Gone
<1>3. \A k \in Syncs : Witnessed(sync[k])'
  <2>1. \A k \in Syncs : Witnessed(sync'[k])
    BY <1>1, OnwardWitnessed DEF GoneInv
  <2> QED
    BY <1>2, <2>1 DEF Witnessed
<1>4. ASSUME ~ overlapped' PROVE Alone' /\ \A k \in Syncs : Lone(sync[k], Copied)'
  <2>1. \A k \in Syncs \ {j} : sync'[k] = sync[k] /\ sync[k].at = "idle"
    BY <1>1, <1>4
  <2>2. Alone'
    BY <2>1 DEF Alone
  <2>3. Lone(sync'[j], Copied')
    BY <1>1, <1>4, OnwardLone
  <2>4. \A k \in Syncs \ {j} : Lone(sync'[k], Copied')
    BY <2>1 DEF Lone
  <2> QED
    BY <1>2, <2>2, <2>3, <2>4 DEF Lone, Missing
<1>5. MissingIsGone'
  <2> SUFFICES ASSUME platform = "n8n" \/ ~ overlapped', NEW w \in Copied', mirror'[w].missing
               PROVE  w \in Gone
    BY <1>2 DEF MissingIsGone, Copied, Gone
  <2>1. CASE w \in Copied /\ mirror[w].missing
    BY <2>1 DEF GoneInv, MissingIsGone, Copied, Gone
  <2> QED
    BY <2>1
<1> QED
  BY <1>2, <1>3, <1>4, <1>5 DEF GoneInv

\* A step of a job at work that writes no copy.
LEMMA GoneSilent ==
  ASSUME GoneInv, TypeInv', NEW j \in Syncs, sync[j].at # "idle", NEW next \in Job, Become(j, next),
         UNCHANGED <<platform, upstream, mirror, overlapped>>,
         Witnessed(next), ~ overlapped => Lone(next, Copied)
  PROVE  GoneInv'
<1>1. Copied' = Copied
  BY DEF Copied
<1>2. Copied \subseteq Known /\ (~ overlapped => Alone)
  BY DEF GoneInv
<1> QED
  BY <1>1, <1>2, GoneStep DEF Alone

LEMMA GoneUsers ==
  ASSUME GoneInv, TypeInv', Users
  PROVE  GoneInv'
<1>1. UNCHANGED <<platform, mirror, known, sync, overlapped>>
  BY DEF Users, Create, Change, Hide, Delete, Edited
<1>2. upstream \in [Workflows -> Upstream] /\ upstream' \in [Workflows -> Upstream]
  BY DEF GoneInv, TypeInv, TypeOK
<1> DEFINE Grows(w) == /\ upstream[w].state # "none" => upstream'[w].state # "none"
                       /\ upstream[w].state = "gone" => upstream'[w].state = "gone"
                       /\ upstream'[w].state = "hidden" => platform = "n8n" \/ upstream[w].state = "hidden"
<1>3. \A w \in Workflows : Grows(w)
  <2>1. PICK v \in Workflows : \/ Hide(v) \/ Delete(v)
                               \/ \E content \in Contents : Create(v, content) \/ Change(v, content)
    BY DEF Users
  <2>2. upstream[v] \in [state : {"none", "listed", "hidden", "gone"}, content : Contents, date : Dates]
    BY <1>2 DEF Upstream
  <2>3. PICK workflow : upstream' = [upstream EXCEPT ![v] = workflow]
    BY <2>1 DEF Hide, Delete, Create, Change, Edited
  <2>4. ASSUME NEW w \in Workflows, w # v PROVE Grows(w)
    BY <1>2, <2>3, <2>4
  <2>5. Grows(v)
    <3>1. CASE Hide(v)
      BY <1>2, <2>2, <3>1 DEF Hide, Edited
    <3>2. CASE Delete(v)
      BY <1>2, <2>2, <3>2 DEF Delete, Edited, Exists
    <3>3. ASSUME NEW content \in Contents, Create(v, content) PROVE Grows(v)
      <4>1. upstream'[v].state = "listed" /\ upstream[v].state = "none"
        BY <1>2, <2>2, <3>3 DEF Create, Edited
      <4> QED
        BY <4>1
    <3>4. ASSUME NEW content \in Contents, Change(v, content) PROVE Grows(v)
      <4>1. upstream'[v].state = upstream[v].state
        BY <1>2, <2>2, <3>4 DEF Change, Edited
      <4>2. upstream[v].state \in {"listed", "hidden"}
        BY <3>4 DEF Change, Exists
      <4> QED
        BY <4>1, <4>2, <1>2
    <3> QED
      BY <2>1, <3>1, <3>2, <3>3, <3>4
  <2> QED
    BY <2>4, <2>5
<1>4. Known \subseteq Known' /\ Gone \subseteq Gone' /\ Copied' = Copied
  BY <1>1, <1>3 DEF Known, Gone, Copied
<1>5. platform' = "make" => \A w \in Workflows : upstream'[w].state # "hidden"
  BY <1>1, <1>3 DEF GoneInv
<1>6. \A j \in Syncs : Witnessed(sync[j])'
  BY <1>1, <1>4 DEF GoneInv, Witnessed
<1>7. ~ overlapped' => Alone' /\ \A j \in Syncs : Lone(sync[j], Copied)'
  BY <1>1, <1>4 DEF GoneInv, Alone, Lone, Missing
<1>8. MissingIsGone'
  BY <1>1, <1>3 DEF GoneInv, MissingIsGone
<1> QED
  BY <1>4, <1>5, <1>6, <1>7, <1>8 DEF GoneInv

\* A copy Make does not list, while nothing else goes on, is gone: nothing is hidden.
LEMMA GoneList ==
  ASSUME GoneInv, TypeInv', NEW j \in Syncs, List(j)
  PROVE  GoneInv'
<1> DEFINE at == IF platform = "n8n" THEN "listed" ELSE "locals"
           phase == IF platform = "n8n" THEN "listed" ELSE "scenarios"
           listing == [w \in Workflows |-> IF w \in Listed THEN upstream[w] ELSE None]
           job == [Idle EXCEPT !.at = at, !.phase = phase, !.listing = listing, !.left = Listed]
<1>1. Idle \in Job
  BY NothingType DEF Job, Idle, Dates
<1>2. listing \in [Workflows -> Upstream \union {None}] /\ Listed \subseteq Workflows /\ Listed \subseteq Known
  BY DEF GoneInv, TypeInv, TypeOK, Listed, Known
<1>3. at \in {"listed", "locals"} /\ phase \in {"listed", "scenarios"} /\ (platform = "n8n" => phase = "listed")
  OBVIOUS
<1>4. \A w \in Workflows : /\ listing[w] # None => w \in Listed
                           /\ listing[w] = None => w \notin Listed
  <2>1. \A w \in Workflows : upstream[w] # None
    BY Distinct DEF GoneInv, TypeInv, TypeOK
  <2> QED
    BY <2>1
<1>5. UNCHANGED <<platform, upstream, mirror>> /\ Become(j, job)
      /\ overlapped' = (overlapped \/ \E k \in Syncs : sync[k].at # "idle")
  BY DEF List, Begin, Outside
<1>6. ASSUME at = "locals", NEW w \in Copied, w \notin Listed PROVE w \in Gone
  <2>1. platform = "make"
    BY <1>6 DEF GoneInv, TypeInv, TypeOK, Platforms
  <2>2. w \in Workflows /\ upstream[w].state # "none" /\ upstream[w].state # "hidden" /\ upstream[w].state # "listed"
    BY <1>6, <2>1 DEF GoneInv, Known, Copied, Listed
  <2>3. upstream[w] \in Upstream
    BY <2>2 DEF GoneInv, TypeInv, TypeOK
  <2> QED
    BY <2>2, <2>3 DEF Upstream, Gone
<1> HIDE DEF at, phase, listing
<1>7. job \in Job /\ job.at = at /\ job.phase = phase /\ job.listing = listing
  BY <1>1, <1>2, <1>3 DEF Job
<1> HIDE DEF job
<1>8. Witnessed(job)
  BY <1>2, <1>3, <1>4, <1>7 DEF Witnessed
<1>9. Copied' = Copied
  BY <1>5 DEF Copied
<1>10. Lone(job, Copied)
  BY <1>3, <1>4, <1>6, <1>7 DEF Lone, Copied
<1>11. Copied' \subseteq Known
  BY <1>9 DEF GoneInv
<1> QED
  BY <1>5, <1>7, <1>8, <1>9, <1>10, <1>11, GoneStep

LEMMA GoneClick ==
  ASSUME GoneInv, TypeInv', NEW j \in Syncs, NEW w \in Workflows, Click(j, w)
  PROVE  GoneInv'
<1> DEFINE job == [Idle EXCEPT !.at = "absent", !.left = {w}, !.locals = mirror]
<1>1. Idle \in Job /\ Idle.phase = "absent" /\ Idle.listing = Nothing
  BY NothingType DEF Job, Idle, Dates
<1>2. /\ job \in Job /\ job.at = "absent" /\ job.phase = "absent" /\ job.listing = Nothing
  <2>1. mirror \in [Workflows -> Copy \union {None}]
    BY DEF GoneInv, TypeInv, TypeOK
  <2> QED
    BY <1>1, <2>1 DEF Job
<1>3. UNCHANGED <<platform, upstream, mirror>> /\ Become(j, job)
      /\ overlapped' = (overlapped \/ \E k \in Syncs : sync[k].at # "idle")
  BY DEF Click, Begin, Outside
<1> HIDE DEF job
<1>4. Witnessed(job)
  BY <1>2 DEF Witnessed, Nothing
<1>5. Copied' = Copied /\ Copied \subseteq Known
  BY <1>3 DEF Copied, GoneInv
<1>6. Lone(job, Copied)
  BY <1>2 DEF Lone
<1> QED
  BY <1>2, <1>3, <1>4, <1>5, <1>6, GoneStep

LEMMA GoneReadLocals ==
  ASSUME GoneInv, TypeInv', NEW j \in Syncs, ReadLocals(j)
  PROVE  GoneInv'
<1> DEFINE job == sync[j]
           absent == [job EXCEPT !.at = "absent", !.phase = "absent", !.listing = Nothing,
                                 !.locals = mirror, !.left = Absent(job)]
           scenarios == [job EXCEPT !.at = "scenarios", !.locals = mirror]
<1>1. job \in Job /\ mirror \in [Workflows -> Copy \union {None}] /\ Absent(job) \subseteq Workflows
  BY DEF GoneInv, TypeInv, TypeOK, Absent
<1>2. /\ absent \in Job /\ absent.at = "absent" /\ absent.phase = "absent" /\ absent.listing = Nothing
  BY <1>1, NothingType DEF Job
<1>3. /\ scenarios \in Job /\ scenarios.at = "scenarios" /\ scenarios.phase = job.phase
      /\ scenarios.listing = job.listing /\ scenarios.locals = mirror
  BY <1>1 DEF Job
<1>4. UNCHANGED <<platform, upstream, mirror, overlapped>> /\ job.at # "idle"
      /\ (Become(j, absent) \/ (job.at = "locals" /\ Become(j, scenarios)))
  BY DEF ReadLocals, Outside
<1>5. Witnessed(job) /\ (~ overlapped => Lone(job, Copied))
  BY DEF GoneInv
<1> HIDE DEF job, absent, scenarios
<1>6. Witnessed(absent) /\ Lone(absent, Copied)
  BY <1>2 DEF Witnessed, Lone, Nothing
<1>7. Witnessed(scenarios)
  BY <1>3, <1>5 DEF Witnessed
<1>8. ASSUME ~ overlapped, job.at = "locals" PROVE Lone(scenarios, Copied)
  <2>1. Missing(scenarios) \subseteq Gone
    BY <1>3, <1>5, <1>8 DEF Lone, Missing, Copied
  <2> QED
    BY <1>3, <2>1 DEF Lone
<1> QED
  BY <1>2, <1>3, <1>4, <1>6, <1>7, <1>8, GoneSilent DEF job

\* What is not found was copied, so it existed: it is gone.
LEMMA GoneAsk ==
  ASSUME GoneInv, TypeInv', NEW j \in Syncs, Ask(j)
  PROVE  GoneInv'
<1> DEFINE job == sync[j]
<1>1. PICK w \in job.left :
        LET next == [job EXCEPT !.left = @ \ {w}] IN
        \/ /\ ~ NotFound(w)
           /\ Become(j, [next EXCEPT !.at = "find", !.item = w, !.payload = upstream[w].content,
                                     !.date = upstream[w].date])
        \/ Become(j, next)
        \/ /\ NotFound(w)
           /\ Become(j, [next EXCEPT !.at = "flag", !.item = w])
  BY DEF Ask
<1> DEFINE next == [job EXCEPT !.left = @ \ {w}]
           flag == [next EXCEPT !.at = "flag", !.item = w]
           find == [next EXCEPT !.at = "find", !.item = w, !.payload = upstream[w].content,
                                !.date = upstream[w].date]
<1>2. Steady(job, Copied) /\ job \in Job /\ job.at = "absent" /\ Witnessed(job)
  BY DEF GoneInv, TypeInv, TypeOK, Ask
<1>3. next \in Job /\ flag \in Job /\ find \in Job
  BY <1>2, AskSteady DEF Steady, GoneInv
<1>4. /\ next.at = "absent" /\ next.listing = job.listing /\ next.phase = job.phase
      /\ flag.at = "flag" /\ flag.listing = job.listing /\ flag.phase = job.phase /\ flag.item = w
      /\ find.at = "find" /\ find.listing = job.listing /\ find.phase = job.phase /\ find.item = w
  BY <1>2 DEF Job
<1>5. UNCHANGED <<platform, upstream, mirror, overlapped>>
  BY DEF Ask, Outside
<1>6. w \in Known /\ (NotFound(w) => w \in Gone)
  <2>1. w \in Copied
    BY <1>2 DEF Steady
  <2>2. w \in Known /\ w \in Workflows
    BY <2>1 DEF GoneInv, Copied
  <2>3. upstream[w] \in Upstream
    BY <2>2 DEF GoneInv, TypeInv, TypeOK
  <2> QED
    BY <2>2, <2>3 DEF Upstream, NotFound, Exists, Known, Gone
<1>7. Become(j, next) \/ (NotFound(w) /\ Become(j, flag)) \/ Become(j, find)
  BY <1>1
<1> HIDE DEF job, next, flag, find
<1>8. Witnessed(next) /\ Witnessed(find) /\ (NotFound(w) => Witnessed(flag))
  BY <1>2, <1>4, <1>6 DEF Witnessed
<1>9. Lone(next, Copied) /\ Lone(find, Copied) /\ Lone(flag, Copied)
  BY <1>4 DEF Lone
<1> QED
  BY <1>2, <1>3, <1>5, <1>7, <1>8, <1>9, GoneSilent DEF job

LEMMA GoneFind ==
  ASSUME GoneInv, TypeInv', NEW j \in Syncs, Find(j)
  PROVE  GoneInv'
<1> DEFINE job == sync[j]
           Found(w, content) == [job EXCEPT !.at = "upsert", !.left = @ \ {w}, !.item = w,
                                            !.payload = content,
                                            !.changed = HashChanged(mirror[w], content)]
<1>1. job \in Job /\ Steady(job, Copied) /\ Witnessed(job)
  BY DEF GoneInv, TypeInv, TypeOK
<1>2. PICK w \in Known, content \in Contents : Become(j, Found(w, content))
  <2>1. CASE job.at = "listed"
    <3>1. PICK w \in job.left : Become(j, Found(w, job.listing[w].content))
      BY <2>1 DEF Find
    <3>2. w \in Workflows /\ job.listing[w] # None
      BY <1>1, <2>1 DEF Steady, Job
    <3>3. job.listing[w] \in Upstream /\ w \in Known
      BY <1>1, <3>2 DEF Job, Witnessed
    <3>4. job.listing[w].content \in Contents
      BY <3>3 DEF Upstream
    <3> HIDE DEF Found
    <3> QED
      BY <3>1, <3>3, <3>4
  <2>2. CASE job.at = "find"
    <3>1. job.item \in Known /\ job.payload \in Contents
      BY <1>1, <2>2 DEF Steady, Witnessed
    <3>2. Become(j, Found(job.item, job.payload))
      BY <2>2 DEF Find
    <3> HIDE DEF Found
    <3> QED
      BY <3>1, <3>2
  <2> QED
    BY <2>1, <2>2 DEF Find
<1> DEFINE next == Found(w, content)
<1>3. HashChanged(mirror[w], content) \in BOOLEAN /\ w \in Workflows
  BY DEF HashChanged, Known
<1>4. /\ next \in Job /\ next.at = "upsert" /\ next.listing = job.listing /\ next.item = w
      /\ next.phase = job.phase
  BY <1>1, <1>3 DEF Job
<1>5. job.at \in {"listed", "find"}
  BY DEF Find
<1>6. UNCHANGED <<platform, upstream, mirror, overlapped>> /\ Become(j, next)
  BY <1>2 DEF Find, Outside
<1> HIDE DEF job, next
<1>7. Witnessed(next)
  BY <1>1, <1>4 DEF Witnessed
<1>8. Lone(next, Copied)
  BY <1>1, <1>4, <1>5 DEF Lone, Steady
<1> QED
  BY <1>4, <1>5, <1>6, <1>7, <1>8, GoneSilent DEF job

LEMMA ResumedWitnessed ==
  ASSUME NEW copied, NEW job \in Job, Witnessed(job),
         (job.at = "upsert" /\ Lone(job, copied)) \/ job.phase = "absent"
  PROVE  Resumed(job) \in Job /\ Witnessed(Resumed(job)) /\ Lone(Resumed(job), copied)
<1>1. /\ Resumed(job) \in Job /\ Resumed(job).at = job.phase /\ Resumed(job).phase = job.phase
      /\ Resumed(job).listing = job.listing /\ Resumed(job).locals = job.locals
  BY DEF Resumed, Job, Dates
<1>2. job.phase \in {"listed", "absent", "scenarios"}
  BY DEF Job
<1> QED
  BY <1>1, <1>2 DEF Witnessed, Lone, Missing

LEMMA GoneUpsert ==
  ASSUME GoneInv, TypeInv', NEW j \in Syncs, Upsert(j)
  PROVE  GoneInv'
<1> DEFINE job == sync[j]
           copy == [content |-> job.payload, missing |-> FALSE]
<1>1. job \in Job /\ Steady(job, Copied) /\ job.at = "upsert" /\ Witnessed(job)
  BY DEF GoneInv, TypeInv, TypeOK, Upsert
<1>2. job.item \in Known /\ mirror \in [Workflows -> Copy \union {None}] /\ Copied \subseteq Known
  BY <1>1 DEF Witnessed, GoneInv, TypeInv, TypeOK
<1>3. copy.missing = FALSE /\ mirror' = [mirror EXCEPT ![job.item] = copy]
  BY DEF Upsert
<1> HIDE DEF copy
<1>4. \A w \in Workflows \ {job.item} : mirror'[w] = mirror[w]
  BY <1>2, <1>3
<1>5. Copied' \subseteq Copied \union {job.item}
  BY <1>4 DEF Copied
<1>6. job.item \in Copied' => mirror'[job.item].missing = FALSE
  BY <1>2, <1>3 DEF Copied
<1>7. \A w \in Copied' : mirror'[w].missing => w \in Copied /\ mirror[w].missing
  BY <1>4, <1>5, <1>6 DEF Copied
<1>8. UNCHANGED <<platform, upstream, overlapped>> /\ Become(j, Resumed(job))
  BY DEF Upsert, Outside
<1>9. Resumed(job) \in Job /\ Witnessed(Resumed(job))
  BY <1>1, OnwardWitnessed DEF Resumed, Job, Dates, Witnessed
<1>10. ASSUME ~ overlapped
       PROVE  /\ \A k \in Syncs \ {j} : sync[k].at = "idle"
              /\ Lone(Resumed(job), Copied')
  <2>1. Alone /\ Lone(job, Copied)
    BY <1>10 DEF GoneInv
  <2>2. Lone(job, Copied')
    BY <1>1, <2>1 DEF Lone
  <2> QED
    BY <1>1, <2>1, <2>2, ResumedWitnessed DEF Alone
<1> HIDE DEF job
<1> QED
  BY <1>2, <1>5, <1>7, <1>8, <1>9, <1>10, GoneStep

\* A step of a job at work that flags a copy.
LEMMA GoneFlagged ==
  ASSUME GoneInv, TypeInv', NEW j \in Syncs, sync[j].at # "idle", NEW next \in Job, Become(j, next),
         UNCHANGED <<platform, upstream, overlapped>>,
         NEW w \in Copied, mirror' = [mirror EXCEPT ![w].missing = TRUE],
         w \in Gone \/ (platform # "n8n" /\ overlapped),
         Witnessed(next), ~ overlapped => Lone(next, Copied)
  PROVE  GoneInv'
<1> DEFINE copy == [mirror[w] EXCEPT !.missing = TRUE]
<1>1. copy \in Copy /\ mirror' = [mirror EXCEPT ![w] = copy]
  BY FlaggedCopy DEF GoneInv
<1> HIDE DEF copy
<1>2. w \in Workflows /\ mirror \in [Workflows -> Copy \union {None}] /\ Copied \subseteq Known
  BY DEF Copied, GoneInv, TypeInv, TypeOK
<1>3. \A v \in Workflows \ {w} : mirror'[v] = mirror[v]
  BY <1>1, <1>2
<1>4. Copied' = Copied
  <2>1. w \in Copied'
    BY <1>1, <1>2, Distinct DEF Copied
  <2> QED
    BY <1>3, <2>1 DEF Copied
<1>5. \A v \in Copied' : v # w => mirror'[v] = mirror[v]
  BY <1>3 DEF Copied
<1>6. ~ overlapped => Alone
  BY DEF GoneInv
<1> QED
  BY <1>2, <1>4, <1>5, <1>6, GoneStep DEF Alone

LEMMA GoneFlag ==
  ASSUME GoneInv, TypeInv', NEW j \in Syncs, Flag(j)
  PROVE  GoneInv'
<1> DEFINE job == sync[j]
<1>1. job \in Job /\ Steady(job, Copied) /\ job.at = "flag" /\ Witnessed(job)
  BY DEF GoneInv, TypeInv, TypeOK, Flag
<1>2. job.item \in Copied /\ job.item \in Gone /\ job.phase = "absent"
  BY <1>1 DEF Steady, Witnessed
<1>3. /\ UNCHANGED <<platform, upstream, overlapped>> /\ Become(j, Resumed(job))
      /\ mirror' = [mirror EXCEPT ![job.item].missing = TRUE]
  BY DEF Flag, Outside
<1>4. Resumed(job) \in Job /\ Witnessed(Resumed(job)) /\ Lone(Resumed(job), Copied)
  BY <1>1, <1>2, ResumedWitnessed
<1> QED
  BY <1>1, <1>2, <1>3, <1>4, GoneFlagged

LEMMA GoneFlagUnlisted ==
  ASSUME GoneInv, TypeInv', NEW j \in Syncs, FlagUnlisted(j)
  PROVE  GoneInv'
<1> DEFINE job == sync[j]
<1>1. PICK w \in job.left : /\ mirror' = [mirror EXCEPT ![w].missing = TRUE]
                            /\ Become(j, [job EXCEPT !.left = @ \ {w}])
  BY DEF FlagUnlisted
<1> DEFINE next == [job EXCEPT !.left = @ \ {w}]
<1>2. /\ job \in Job /\ Steady(job, Copied) /\ job.at = "unlisted" /\ Witnessed(job)
      /\ (~ overlapped => Lone(job, Copied))
  BY DEF GoneInv, TypeInv, TypeOK, FlagUnlisted
<1>3. w \in Copied /\ platform # "n8n" /\ (~ overlapped => w \in Gone)
  BY <1>2 DEF Steady, Witnessed, Lone
<1>4. /\ next \in Job /\ next.at = "unlisted" /\ next.left = job.left \ {w}
      /\ next.listing = job.listing /\ next.phase = job.phase
  BY <1>2 DEF Job
<1>5. UNCHANGED <<platform, upstream, overlapped>> /\ Become(j, next)
  BY <1>1 DEF FlagUnlisted, Outside
<1> HIDE DEF next
<1>6. Witnessed(next) /\ (~ overlapped => Lone(next, Copied))
  BY <1>2, <1>4 DEF Witnessed, Lone
<1>7. overlapped \in BOOLEAN
  BY DEF GoneInv, TypeInv, TypeOK
<1> QED
  BY <1>1, <1>2, <1>3, <1>4, <1>5, <1>6, <1>7, GoneFlagged

LEMMA GoneTakeScenario ==
  ASSUME GoneInv, TypeInv', NEW j \in Syncs, TakeScenario(j)
  PROVE  GoneInv'
<1> DEFINE job == sync[j]
<1>1. PICK w \in job.left :
        LET next == [job EXCEPT !.left = @ \ {w}, !.item = w, !.date = job.listing[w].date] IN
        Become(j, IF IsFresh(job, w)
                  THEN [next EXCEPT !.at = "upsert", !.payload = LocalContent(job, w)]
                  ELSE [next EXCEPT !.at = "get"])
  BY DEF TakeScenario
<1> DEFINE next == [job EXCEPT !.left = @ \ {w}, !.item = w, !.date = job.listing[w].date]
           fresh == [next EXCEPT !.at = "upsert", !.payload = LocalContent(job, w)]
           get == [next EXCEPT !.at = "get"]
<1>2. /\ job \in Job /\ Steady(job, Copied) /\ job.at = "scenarios" /\ Witnessed(job)
      /\ (~ overlapped => Lone(job, Copied))
  BY DEF GoneInv, TypeInv, TypeOK, TakeScenario
<1>3. w \in Workflows /\ w \in Known /\ job.listing[w] # None /\ job.phase = "scenarios"
  BY <1>2 DEF Steady, Job, Witnessed
<1>4. job.listing[w].date \in Dates
  <2>1. job.listing[w] \in Upstream
    BY <1>2, <1>3 DEF Job
  <2> QED
    BY <2>1 DEF Upstream
<1>5. /\ next \in Job /\ next.item = w /\ next.locals = job.locals /\ next.listing = job.listing
      /\ next.phase = "scenarios"
  BY <1>2, <1>3, <1>4 DEF Job
<1>6. UNCHANGED <<platform, upstream, mirror, overlapped>> /\ job.at # "idle"
  BY <1>2 DEF TakeScenario, Outside
<1>7. Become(j, IF IsFresh(job, w) THEN fresh ELSE get)
  BY <1>1
<1>8. job = sync[j]
  OBVIOUS
<1> HIDE DEF job, next
<1>9. ASSUME NEW new \in Job, new.at \in {"get", "upsert"}, new.item = w, new.locals = job.locals,
             new.listing = job.listing, new.phase = "scenarios"
      PROVE  Witnessed(new) /\ (~ overlapped => Lone(new, Copied))
  <2>1. Missing(new) = Missing(job)
    BY <1>9 DEF Missing
  <2> QED
    BY <1>2, <1>3, <1>9, <2>1 DEF Witnessed, Lone
<1>10. /\ get \in Job /\ get.at = "get" /\ get.item = w /\ get.locals = job.locals
       /\ get.listing = job.listing /\ get.phase = "scenarios"
  BY <1>5 DEF Job
<1>11. ASSUME IsFresh(job, w)
       PROVE  /\ fresh \in Job /\ fresh.at = "upsert" /\ fresh.item = w /\ fresh.locals = job.locals
              /\ fresh.listing = job.listing /\ fresh.phase = "scenarios"
  <2>1. job.locals[w] \in Copy /\ LocalContent(job, w) = job.locals[w].content
    BY <1>2, <1>3, <1>11 DEF IsFresh, LocalContent, Job
  <2>2. LocalContent(job, w) \in Contents
    BY <2>1 DEF Copy
  <2> QED
    BY <1>5, <2>2 DEF Job
<1> HIDE DEF fresh, get
<1>12. CASE IsFresh(job, w)
  BY <1>6, <1>7, <1>8, <1>9, <1>11, <1>12, GoneSilent
<1>13. CASE ~ IsFresh(job, w)
  BY <1>6, <1>7, <1>8, <1>9, <1>10, <1>13, GoneSilent
<1> QED
  BY <1>12, <1>13

LEMMA GoneGetScenario ==
  ASSUME GoneInv, TypeInv', NEW j \in Syncs, GetScenario(j)
  PROVE  GoneInv'
<1> DEFINE job == sync[j]
           content == upstream[job.item].content
           next == [job EXCEPT !.at = "upsert", !.payload = content,
                               !.changed = HashChanged(job.locals[job.item], content)]
<1>1. /\ job \in Job /\ Steady(job, Copied) /\ job.at = "get" /\ Witnessed(job)
      /\ (~ overlapped => Lone(job, Copied))
  BY DEF GoneInv, TypeInv, TypeOK, GetScenario
<1>2. job.item \in Workflows
  BY <1>1 DEF Steady
<1>3. content \in Contents
  <2>1. upstream[job.item] \in Upstream
    BY <1>2 DEF GoneInv, TypeInv, TypeOK
  <2> QED
    BY <2>1 DEF Upstream
<1>4. HashChanged(job.locals[job.item], content) \in BOOLEAN
  BY DEF HashChanged
<1>5. UNCHANGED <<platform, upstream, mirror, overlapped>> /\ (Become(j, next) \/ Become(j, Idle))
  BY DEF GetScenario, Outside
<1>6. job = sync[j]
  OBVIOUS
<1> HIDE DEF job, content
<1>7. /\ next \in Job /\ next.at = "upsert" /\ next.item = job.item /\ next.locals = job.locals
      /\ next.listing = job.listing /\ next.phase = job.phase
  BY <1>1, <1>3, <1>4 DEF Job
<1> HIDE DEF next
<1>8. Witnessed(next) /\ (~ overlapped => Lone(next, Copied))
  <2>1. Missing(next) = Missing(job)
    BY <1>7 DEF Missing
  <2> QED
    BY <1>1, <1>7, <2>1 DEF Witnessed, Lone
<1>9. Idle \in Job
  BY IdleSteady DEF Steady
<1> QED
  BY <1>1, <1>5, <1>6, <1>7, <1>8, <1>9, IdleWitnessed, GoneSilent

LEMMA GoneCallFails ==
  ASSUME GoneInv, TypeInv', NEW j \in Syncs, CallFails(j)
  PROVE  GoneInv'
<1> DEFINE job == sync[j]
<1>1. job \in Job /\ Witnessed(job)
  BY DEF GoneInv, TypeInv, TypeOK
<1>2. UNCHANGED <<platform, upstream, mirror, overlapped>> /\ job.at # "idle"
  BY DEF CallFails, Outside
<1>3. ASSUME NEW w \in job.left, job.at = "absent", Become(j, [job EXCEPT !.left = @ \ {w}])
      PROVE  GoneInv'
  <2> DEFINE next == [job EXCEPT !.left = @ \ {w}]
  <2>1. next \in Job /\ next.listing = job.listing /\ next.at = "absent" /\ next.phase = job.phase
    BY <1>1, <1>3 DEF Job
  <2>2. Become(j, next)
    BY <1>3
  <2> HIDE DEF next
  <2>3. Witnessed(next) /\ Lone(next, Copied)
    BY <1>1, <2>1 DEF Witnessed, Lone
  <2> QED
    BY <1>2, <2>1, <2>2, <2>3, GoneSilent
<1>4. ASSUME Become(j, Idle) PROVE GoneInv'
  <2>1. Idle \in Job
    BY IdleSteady DEF Steady
  <2> QED
    BY <1>2, <1>4, <2>1, IdleWitnessed, GoneSilent
<1> QED
  BY <1>3, <1>4 DEF CallFails

LEMMA GoneRestart ==
  ASSUME GoneInv, TypeInv', Restart
  PROVE  GoneInv'
<1>1. /\ UNCHANGED <<platform, upstream, mirror, overlapped>>
      /\ sync' = [j \in Syncs |-> Idle]
  BY DEF Restart, Outside
<1>2. Copied' = Copied /\ Known' = Known /\ Gone' = Gone
  BY <1>1 DEF Copied, Known, Gone
<1>3. \A j \in Syncs : Witnessed(sync[j])' /\ Lone(sync[j], Copied)'
  <2>1. \A j \in Syncs : Witnessed(sync'[j]) /\ Lone(sync'[j], Copied')
    BY <1>1, IdleWitnessed
  <2> QED
    BY <1>1, <1>2, <2>1 DEF Witnessed, Lone
<1>4. Alone'
  BY <1>1 DEF Alone, Idle
<1>5. MissingIsGone'
  BY <1>1 DEF GoneInv, MissingIsGone
<1> QED
  BY <1>1, <1>2, <1>3, <1>4, <1>5 DEF GoneInv

LEMMA GoneInit == Init => GoneInv
<1> SUFFICES ASSUME Init PROVE GoneInv
  OBVIOUS
<1>1. Copied = {} /\ MissingIsGone
  BY DEF Init, Nothing, Copied, MissingIsGone
<1>2. \A w \in Workflows : upstream[w].state # "hidden"
  BY DEF Init
<1>3. Alone
  BY DEF Init, Alone, Idle
<1> QED
  BY <1>1, <1>2, <1>3, TypeInit, IdleWitnessed DEF Init, GoneInv

LEMMA GoneNext == GoneInv /\ [Next]_vars => GoneInv'
<1> SUFFICES ASSUME GoneInv, [Next]_vars PROVE GoneInv'
  OBVIOUS
<1>1. TypeInv'
  BY TypeNext DEF GoneInv
<1>2. CASE UNCHANGED <<platform, upstream, mirror, sync, overlapped>>
  BY <1>1, <1>2 DEF GoneInv, Copied, Known, Gone, Alone, Lone, Witnessed, Missing, MissingIsGone
<1>3. ASSUME NEW j \in Syncs, Work(j) PROVE GoneInv'
  BY <1>1, <1>3, GoneList, GoneClick, GoneReadLocals, GoneAsk, GoneFind, GoneUpsert, GoneFlag,
     GoneTakeScenario, GoneGetScenario, GoneFlagUnlisted, GoneCallFails DEF Work, Continue
<1> QED
  BY <1>1, <1>2, <1>3, GoneUsers, GoneRestart DEF Next, vars, Snapshot

\* Whatever the failures, the restarts and, with n8n, the syncs that overlap, a
\* copy flagged as missing is one its platform does not know any more.
THEOREM FlaggedIsGone == Spec => []MissingIsGone
<1>1. Spec => []GoneInv
  BY GoneInit, GoneNext, PTL DEF Spec
<1>2. GoneInv => MissingIsGone
  BY DEF GoneInv
<1> QED
  BY <1>1, <1>2, PTL
---------------------------------------------------------------------------
(* The dates of Make *)

\* A date and a content read together: the platform has the content as long as
\* it has the date.
Tells(w, date, content) ==
    /\ w \in Known
    /\ date <= upstream[w].date
    /\ date = upstream[w].date => content = upstream[w].content

\* What a job over Make will store, given the copies.
Honest(job, copies) ==
    job.at # "idle" =>
        /\ job.phase # "listed"
        /\ \A w \in Workflows : job.listing[w] # None => Tells(w, job.listing[w].date, job.listing[w].content)
        /\ (job.at \in {"scenarios", "get"} \/ (job.at = "upsert" /\ job.phase = "scenarios"))
             => \A w \in job.left : job.locals[w] = copies[w]
        /\ (job.at = "get" \/ (job.at = "upsert" /\ job.phase = "scenarios")) => job.item \notin job.left
        /\ job.at \in {"find", "upsert"} => Tells(job.item, job.date, job.payload)
        /\ job.at = "get" => job.date <= upstream[job.item].date

\* A date is stored with the content that was read with it, or later.
DatesHonest(dates, copies) == \A w \in Workflows : dates[w] # None => Tells(w, dates[w], copies[w].content)

FreshInv ==
    /\ platform = "n8n" => known = Nothing
    /\ \A w \in Workflows : known[w] # None => mirror[w] # None
    /\ platform = "make" /\ ~ overlapped => DatesHonest(known, mirror) /\ \A j \in Syncs : Honest(sync[j], mirror)

LEMMA FreshInit == Init => FreshInv
<1> SUFFICES ASSUME Init PROVE FreshInv
  OBVIOUS
<1>1. \A w \in Workflows : known[w] = None
  BY DEF Init, Nothing
<1>2. \A j \in Syncs : sync[j].at = "idle"
  BY DEF Init, Idle
<1> QED
  BY <1>1, <1>2 DEF Init, FreshInv, DatesHonest, Honest

LEMMA OnwardHonest ==
  ASSUME NEW copies, NEW job \in Job, Honest(job, copies)
  PROVE  Honest(Onward(job), copies)
<1> DEFINE next == [job EXCEPT !.at = "unlisted", !.left = Missing(job)]
<1>1. next.at = "unlisted" /\ next.listing = job.listing /\ next.phase = job.phase
  BY DEF Job
<1>2. job.at = "scenarios" => Honest(next, copies)
  BY <1>1 DEF Honest
<1>3. Honest(Idle, copies)
  BY DEF Honest, Idle
<1> QED
  BY <1>2, <1>3 DEF Onward

\* A step of a job.
LEMMA FreshStep ==
  ASSUME GoneInv, FreshInv, NEW j \in Syncs, NEW next \in Job, Become(j, next), UNCHANGED <<platform, upstream>>,
         platform = "n8n" => known' = known,
         \A w \in Workflows : known'[w] # None => mirror'[w] # None,
         platform = "make" /\ ~ overlapped' => /\ \A k \in Syncs \ {j} : sync[k].at = "idle"
                                               /\ DatesHonest(known', mirror')
                                               /\ Honest(next, mirror')
  PROVE  FreshInv'
<1>1. sync' = [sync EXCEPT ![j] = Onward(next)] /\ sync \in [Syncs -> Job]
  BY DEF Become, GoneInv, TypeInv, TypeOK
<1>2. Known' = Known
  BY DEF Known
<1>3. ASSUME platform = "make", ~ overlapped' PROVE \A k \in Syncs : Honest(sync'[k], mirror')
  <2>1. Honest(Onward(next), mirror')
    BY <1>3, OnwardHonest
  <2>2. \A k \in Syncs : k = j \/ sync'[k].at = "idle"
    BY <1>1, <1>3
  <2>3. \A k \in Syncs : sync'[k].at = "idle" => Honest(sync'[k], mirror')
    BY DEF Honest
  <2> QED
    BY <1>1, <2>1, <2>2, <2>3
<1>4. ASSUME platform = "make", ~ overlapped' PROVE DatesHonest(known, mirror)'
  BY <1>2, <1>4 DEF DatesHonest, Tells
<1>5. ASSUME platform = "make", ~ overlapped' PROVE \A k \in Syncs : Honest(sync[k], mirror)'
  BY <1>2, <1>3, <1>5 DEF Honest, Tells
<1> QED
  BY <1>4, <1>5 DEF FreshInv

\* A step of a job at work that writes no copy.
LEMMA FreshSilent ==
  ASSUME GoneInv, FreshInv, NEW j \in Syncs, sync[j].at # "idle", NEW next \in Job, Become(j, next),
         UNCHANGED <<platform, upstream, mirror, known, overlapped>>,
         platform = "make" /\ ~ overlapped => Honest(next, mirror)
  PROVE  FreshInv'
<1>1. ~ overlapped => \A k \in Syncs \ {j} : sync[k].at = "idle"
  BY DEF GoneInv, Alone
<1>2. (\A w \in Workflows : known[w] # None => mirror[w] # None)
      /\ (platform = "make" /\ ~ overlapped => DatesHonest(known, mirror))
  BY DEF FreshInv
<1> QED
  BY <1>1, <1>2, FreshStep

\* Edits move the date; what is not there yet was told to nobody.
LEMMA TellsLater ==
  ASSUME GoneInv, Users, NEW w \in Workflows, NEW date \in Nat, date <= upstream[w].date, w \in Known
  PROVE  /\ date <= upstream'[w].date /\ w \in Known'
         /\ \A content : Tells(w, date, content) => Tells(w, date, content)'
<1>1. upstream \in [Workflows -> Upstream] /\ upstream[w] \in Upstream /\ upstream[w].date \in Nat
  BY DEF GoneInv, TypeInv, TypeOK, Upstream, Dates
<1>2. PICK v \in Workflows : \/ Hide(v) \/ Delete(v)
                             \/ \E content \in Contents : Create(v, content) \/ Change(v, content)
  BY DEF Users
<1>3. CASE v # w
  <2>1. PICK workflow : upstream' = [upstream EXCEPT ![v] = workflow]
    BY <1>2 DEF Hide, Delete, Create, Change, Edited
  <2>2. upstream'[w] = upstream[w]
    BY <1>1, <1>3, <2>1
  <2> QED
    BY <2>2 DEF Tells, Known
<1>4. CASE v = w /\ (Hide(v) \/ Delete(v))
  <2>1. /\ upstream'[w].date = upstream[w].date /\ upstream'[w].content = upstream[w].content
        /\ upstream'[w].state # "none"
    BY <1>1, <1>4 DEF Hide, Delete, Edited, Upstream
  <2> QED
    BY <2>1 DEF Tells, Known
<1>5. ASSUME v = w, NEW content \in Contents, Change(v, content)
      PROVE  upstream'[w].date = upstream[w].date + 1 /\ upstream'[w].state = upstream[w].state
  BY <1>1, <1>5 DEF Change, Edited, Upstream
<1>6. ~ \E content \in Contents : Create(w, content)
  BY DEF Create, Known
<1>7. CASE v = w /\ \E content \in Contents : Change(v, content)
  <2>1. upstream'[w].date = upstream[w].date + 1 /\ upstream'[w].state = upstream[w].state
    BY <1>5, <1>7
  <2>2. date <= upstream'[w].date /\ date # upstream'[w].date
    BY <1>1, <2>1
  <2> QED
    BY <2>1, <2>2 DEF Tells, Known
<1> QED
  BY <1>2, <1>3, <1>4, <1>6, <1>7

LEMMA FreshUsers ==
  ASSUME GoneInv, FreshInv, Users
  PROVE  FreshInv'
<1>1. UNCHANGED <<platform, mirror, known, sync, overlapped>>
  BY DEF Users, Create, Change, Hide, Delete, Edited
<1>2. ASSUME NEW w \in Workflows, NEW date \in Nat, NEW content, Tells(w, date, content)
      PROVE  Tells(w, date, content)'
  BY <1>2, TellsLater DEF Tells
<1> SUFFICES ASSUME platform = "make", ~ overlapped
             PROVE  DatesHonest(known, mirror)' /\ \A j \in Syncs : Honest(sync[j], mirror)'
  BY <1>1 DEF FreshInv
<1>3. DatesHonest(known, mirror)'
  <2> SUFFICES ASSUME NEW w \in Workflows, known[w] # None PROVE Tells(w, known[w], mirror[w].content)'
    BY <1>1 DEF DatesHonest
  <2>1. known[w] \in Nat /\ Tells(w, known[w], mirror[w].content)
    BY DEF GoneInv, TypeInv, TypeOK, Dates, FreshInv, DatesHonest
  <2>2. Tells(w, known[w], mirror[w].content) => Tells(w, known[w], mirror[w].content)'
    BY <1>1, <2>1, TellsLater DEF Tells
  <2> QED
    BY <2>1, <2>2
<1>4. ASSUME NEW j \in Syncs PROVE Honest(sync[j], mirror)'
  <2>1. PICK job \in Job : job = sync[j] /\ Steady(job, Copied) /\ Witnessed(job) /\ Honest(job, mirror)
    BY DEF GoneInv, TypeInv, TypeOK, FreshInv
  <2>2. ASSUME NEW w \in Workflows, job.listing[w] # None, Tells(w, job.listing[w].date, job.listing[w].content)
        PROVE  Tells(w, job.listing[w].date, job.listing[w].content)'
    <3>1. job.listing[w] \in Upstream
      BY <2>2 DEF Job
    <3> QED
      BY <1>2, <2>2, <3>1 DEF Upstream, Dates
  <2>3. ASSUME job.at \in {"find", "upsert"}, Tells(job.item, job.date, job.payload)
        PROVE  Tells(job.item, job.date, job.payload)'
    BY <1>2, <2>1, <2>3 DEF Steady, Job, Dates
  <2>4. ASSUME job.at = "get", job.date <= upstream[job.item].date PROVE job.date <= upstream'[job.item].date
    <3>1. job.item \in Workflows /\ job.item \in Known /\ job.date \in Nat
      BY <2>1, <2>4 DEF Steady, Witnessed, Job, Dates
    <3> QED
      BY <2>4, <3>1, TellsLater
  <2>5. sync'[j] = job /\ mirror' = mirror
    BY <1>1, <2>1
  <2> QED
    BY <2>1, <2>2, <2>3, <2>4, <2>5 DEF Honest
<1> QED
  BY <1>3, <1>4
\* A pass or a click begins alone, or they overlap.
LEMMA FreshBegin ==
  ASSUME GoneInv, FreshInv, NEW j \in Syncs, NEW next \in Job, Begin(j, next), Honest(next, mirror)
  PROVE  FreshInv'
<1>1. UNCHANGED <<platform, upstream, mirror, known>> /\ Become(j, next)
      /\ overlapped' = (overlapped \/ \E k \in Syncs : sync[k].at # "idle")
  BY DEF Begin, Outside
<1>2. ~ overlapped' => ~ overlapped /\ \A k \in Syncs : sync[k].at = "idle"
  BY <1>1
<1>3. (\A w \in Workflows : known[w] # None => mirror[w] # None)
      /\ (platform = "make" /\ ~ overlapped => DatesHonest(known, mirror))
  BY DEF FreshInv
<1> QED
  BY <1>1, <1>2, <1>3, FreshStep

LEMMA FreshList ==
  ASSUME GoneInv, FreshInv, NEW j \in Syncs, List(j), platform = "make"
  PROVE  FreshInv'
<1>1. PICK listing : listing = [w \in Workflows |-> IF w \in Listed THEN upstream[w] ELSE None]
  OBVIOUS
<1>2. PICK job : job = [Idle EXCEPT !.at = "locals", !.phase = "scenarios", !.listing = listing, !.left = Listed]
  OBVIOUS
<1>3. upstream \in [Workflows -> Upstream] /\ Listed \subseteq Workflows /\ Idle \in Job
  BY IdleSteady DEF GoneInv, TypeInv, TypeOK, Listed, Steady
<1>4. listing \in [Workflows -> Upstream \union {None}]
  BY <1>1, <1>3
<1>5. job \in Job /\ job.at = "locals" /\ job.phase = "scenarios" /\ job.listing = listing
  BY <1>2, <1>3, <1>4 DEF Job
<1>6. ASSUME NEW w \in Workflows, listing[w] # None PROVE Tells(w, listing[w].date, listing[w].content)
  <2>1. w \in Listed /\ listing[w] = upstream[w]
    BY <1>1, <1>6
  <2>2. upstream[w].date \in Nat /\ w \in Known
    BY <1>3, <2>1 DEF Upstream, Dates, Listed, Known
  <2> QED
    BY <2>1, <2>2 DEF Tells
<1>7. Honest(job, mirror)
  BY <1>5, <1>6 DEF Honest
<1>8. platform # "n8n"
  OBVIOUS
<1>9. Begin(j, job)
  BY <1>1, <1>2, <1>8 DEF List
<1> QED
  BY <1>5, <1>7, <1>9, FreshBegin

LEMMA FreshClick ==
  ASSUME GoneInv, FreshInv, NEW j \in Syncs, NEW w \in Workflows, Click(j, w)
  PROVE  FreshInv'
<1>1. PICK job : job = [Idle EXCEPT !.at = "absent", !.left = {w}, !.locals = mirror]
  OBVIOUS
<1>2. Idle \in Job /\ Idle.phase = "absent" /\ Idle.listing = Nothing /\ mirror \in [Workflows -> Copy \union {None}]
  BY NothingType DEF Job, Idle, Dates, GoneInv, TypeInv, TypeOK
<1>3. job \in Job /\ job.at = "absent" /\ job.phase = "absent" /\ job.listing = Nothing
  BY <1>1, <1>2 DEF Job
<1>4. Honest(job, mirror)
  BY <1>3 DEF Honest, Nothing
<1>5. Begin(j, job)
  BY <1>1 DEF Click
<1> QED
  BY <1>3, <1>4, <1>5, FreshBegin

LEMMA FreshReadLocals ==
  ASSUME GoneInv, FreshInv, NEW j \in Syncs, ReadLocals(j)
  PROVE  FreshInv'
<1>1. PICK job \in Job : job = sync[j] /\ job.at # "idle"
  BY DEF GoneInv, TypeInv, TypeOK, ReadLocals
<1>2. PICK left : left = Absent(job)
  OBVIOUS
<1>3. PICK absent : absent = [job EXCEPT !.at = "absent", !.phase = "absent", !.listing = Nothing,
                                         !.locals = mirror, !.left = left]
  OBVIOUS
<1>4. PICK scenarios : scenarios = [job EXCEPT !.at = "scenarios", !.locals = mirror]
  OBVIOUS
<1>5. mirror \in [Workflows -> Copy \union {None}] /\ left \subseteq Workflows
  BY <1>2 DEF GoneInv, TypeInv, TypeOK, Absent
<1>6. absent \in Job /\ absent.at = "absent" /\ absent.phase = "absent" /\ absent.listing = Nothing
  BY <1>3, <1>5, NothingType DEF Job
<1>7. /\ scenarios \in Job /\ scenarios.at = "scenarios" /\ scenarios.phase = job.phase
      /\ scenarios.listing = job.listing /\ scenarios.locals = mirror /\ scenarios.left = job.left
  BY <1>4, <1>5 DEF Job
<1>8. Honest(absent, mirror)
  BY <1>6 DEF Honest, Nothing
<1>9. platform = "make" /\ ~ overlapped => Honest(scenarios, mirror)
  <2>1. platform = "make" /\ ~ overlapped => Honest(job, mirror)
    BY <1>1 DEF FreshInv
  <2>2. job.left \subseteq Workflows
    BY DEF Job
  <2> QED
    BY <1>1, <1>7, <2>1, <2>2 DEF Honest
<1>10. UNCHANGED <<platform, upstream, mirror, known, overlapped>> /\ (Become(j, absent) \/ Become(j, scenarios))
  BY <1>1, <1>2, <1>3, <1>4 DEF ReadLocals, Outside
<1> QED
  BY <1>1, <1>6, <1>7, <1>8, <1>9, <1>10, FreshSilent

LEMMA FreshAsk ==
  ASSUME GoneInv, FreshInv, NEW j \in Syncs, Ask(j)
  PROVE  FreshInv'
<1>1. PICK job \in Job : job = sync[j] /\ job.at = "absent" /\ Steady(job, Copied)
  BY DEF GoneInv, TypeInv, TypeOK, Ask
<1>2. PICK w \in job.left :
        \/ ~ NotFound(w) /\ Become(j, [[job EXCEPT !.left = @ \ {w}] EXCEPT !.at = "find", !.item = w,
                                          !.payload = upstream[w].content, !.date = upstream[w].date])
        \/ Become(j, [job EXCEPT !.left = @ \ {w}])
        \/ Become(j, [[job EXCEPT !.left = @ \ {w}] EXCEPT !.at = "flag", !.item = w])
  BY <1>1 DEF Ask
<1>3. PICK next : next = [job EXCEPT !.left = @ \ {w}]
  OBVIOUS
<1>4. PICK find : find = [next EXCEPT !.at = "find", !.item = w, !.payload = upstream[w].content, !.date = upstream[w].date]
  OBVIOUS
<1>5. PICK flag : flag = [next EXCEPT !.at = "flag", !.item = w]
  OBVIOUS
<1>6. next \in Job /\ find \in Job /\ flag \in Job
  BY <1>1, <1>3, <1>4, <1>5, AskSteady DEF Steady, GoneInv
<1>7. /\ next.at = "absent" /\ next.listing = job.listing /\ next.phase = job.phase
      /\ find.at = "find" /\ find.listing = job.listing /\ find.phase = job.phase
      /\ find.item = w /\ find.date = upstream[w].date /\ find.payload = upstream[w].content
      /\ flag.at = "flag" /\ flag.listing = job.listing /\ flag.phase = job.phase
  <2>1. next.at = "absent" /\ next.listing = job.listing /\ next.phase = job.phase
    BY <1>1, <1>3 DEF Job
  <2>2. /\ find.at = "find" /\ find.listing = next.listing /\ find.phase = next.phase
        /\ find.item = w /\ find.date = upstream[w].date /\ find.payload = upstream[w].content
    BY <1>4, <1>6 DEF Job
  <2>3. flag.at = "flag" /\ flag.listing = next.listing /\ flag.phase = next.phase
    BY <1>5, <1>6 DEF Job
  <2> QED
    BY <2>1, <2>2, <2>3
<1>8. ~ NotFound(w) => Tells(w, upstream[w].date, upstream[w].content)
  <2>1. upstream[w] \in Upstream /\ w \in Workflows
    BY DEF GoneInv, TypeInv, TypeOK, Job
  <2>2. upstream[w].date \in Nat
    BY <2>1 DEF Upstream, Dates
  <2> QED
    BY <2>1, <2>2 DEF Tells, NotFound, Exists, Known
<1>9. platform = "make" /\ ~ overlapped => Honest(job, mirror)
  BY <1>1 DEF FreshInv
<1>10. platform = "make" /\ ~ overlapped =>
         Honest(next, mirror) /\ Honest(flag, mirror) /\ (~ NotFound(w) => Honest(find, mirror))
  BY <1>1, <1>7, <1>8, <1>9 DEF Honest
<1>11. UNCHANGED <<platform, upstream, mirror, known, overlapped>>
  BY DEF Ask, Outside
<1>12. Become(j, next) \/ Become(j, flag) \/ (~ NotFound(w) /\ Become(j, find))
  BY <1>2, <1>3, <1>4, <1>5
<1> QED
  BY <1>1, <1>6, <1>10, <1>11, <1>12, FreshSilent

LEMMA FreshFind ==
  ASSUME GoneInv, FreshInv, NEW j \in Syncs, Find(j), platform = "make"
  PROVE  FreshInv'
<1>1. PICK job \in Job : job = sync[j] /\ job.at \in {"listed", "find"} /\ Steady(job, Copied)
  BY DEF GoneInv, TypeInv, TypeOK, Find
<1>2. ~ overlapped => Honest(job, mirror)
  BY <1>1 DEF FreshInv
<1>3. PICK w, content, changed :
        /\ Become(j, [job EXCEPT !.at = "upsert", !.left = @ \ {w}, !.item = w, !.payload = content, !.changed = changed])
        /\ job.at = "find" => w = job.item /\ content = job.payload
        /\ w \in Workflows /\ content \in Contents /\ changed \in BOOLEAN
  <2>1. CASE job.at = "find"
    <3>1. PICK changed : changed = HashChanged(mirror[job.item], job.payload)
      OBVIOUS
    <3>2. job.item \in Workflows /\ job.payload \in Contents /\ changed \in BOOLEAN
      BY <1>1, <2>1, <3>1 DEF Steady, HashChanged
    <3>3. Become(j, [job EXCEPT !.at = "upsert", !.left = @ \ {job.item}, !.item = job.item,
                                !.payload = job.payload, !.changed = changed])
      BY <1>1, <2>1, <3>1 DEF Find
    <3> QED
      BY <2>1, <3>2, <3>3
  <2>2. CASE job.at = "listed"
    <3>1. PICK w \in job.left :
             Become(j, [job EXCEPT !.at = "upsert", !.left = @ \ {w}, !.item = w,
                                   !.payload = job.listing[w].content,
                                   !.changed = HashChanged(mirror[w], job.listing[w].content)])
      BY <1>1, <2>2 DEF Find
    <3>2. w \in Workflows /\ job.listing[w] # None
      BY <1>1, <2>2 DEF Steady, Job
    <3>3. job.listing[w] \in Upstream
      BY <3>2 DEF Job
    <3>4. job.listing[w].content \in Contents /\ HashChanged(mirror[w], job.listing[w].content) \in BOOLEAN
      BY <3>3 DEF Upstream, HashChanged
    <3> QED
      BY <2>2, <3>1, <3>2, <3>4
  <2> QED
    BY <1>1, <2>1, <2>2
<1>4. PICK next : next = [job EXCEPT !.at = "upsert", !.left = @ \ {w}, !.item = w, !.payload = content, !.changed = changed]
  OBVIOUS
<1>5. /\ next \in Job /\ next.at = "upsert" /\ next.item = w /\ next.payload = content /\ next.date = job.date
      /\ next.phase = job.phase /\ next.listing = job.listing
  BY <1>3, <1>4 DEF Job
<1>6. ~ overlapped => Honest(next, mirror)
  <2>1. job.at = "listed" => job.phase = "listed"
    BY <1>1 DEF Steady
  <2>2. job.at = "find" => job.phase = "absent"
    BY <1>1 DEF Steady
  <2> QED
    BY <1>1, <1>2, <1>3, <1>5, <2>1, <2>2 DEF Honest
<1>7. UNCHANGED <<platform, upstream, mirror, known, overlapped>> /\ Become(j, next)
  BY <1>3, <1>4 DEF Find, Outside
<1> QED
  BY <1>1, <1>5, <1>6, <1>7, FreshSilent
LEMMA FreshUpsert ==
  ASSUME GoneInv, FreshInv, NEW j \in Syncs, Upsert(j)
  PROVE  FreshInv'
<1>1. PICK job \in Job : job = sync[j] /\ job.at = "upsert" /\ Steady(job, Copied)
  BY DEF GoneInv, TypeInv, TypeOK, Upsert
<1>2. PICK w \in Workflows : w = job.item /\ job.payload \in Contents /\ job.date \in Nat
  BY <1>1 DEF Steady, Job, Dates
<1>3. PICK copy : copy = [content |-> job.payload, missing |-> FALSE]
  OBVIOUS
<1>4. copy \in Copy /\ copy.content = job.payload /\ copy # None
  <2>1. copy \in Copy /\ copy.content = job.payload
    BY <1>2, <1>3 DEF Copy
  <2> QED
    BY <2>1, Distinct
<1>5. /\ mirror' = [mirror EXCEPT ![w] = copy]
      /\ known' = IF platform = "make" THEN [known EXCEPT ![w] = job.date] ELSE known
      /\ Become(j, Resumed(job)) /\ UNCHANGED <<platform, upstream, overlapped>>
  BY <1>1, <1>2, <1>3 DEF Upsert, Outside
<1>6. /\ \A v \in Workflows : mirror'[v] = IF v = w THEN copy ELSE mirror[v]
      /\ \A v \in Workflows : known'[v] = IF v = w /\ platform = "make" THEN job.date ELSE known[v]
  BY <1>5 DEF GoneInv, TypeInv, TypeOK
<1>7. \A v \in Workflows : known'[v] # None => mirror'[v] # None
  BY <1>4, <1>6 DEF FreshInv
<1>8. ASSUME platform = "make", ~ overlapped
      PROVE  DatesHonest(known', mirror') /\ Honest(Resumed(job), mirror')
  <2>1. Honest(job, mirror) /\ DatesHonest(known, mirror)
    BY <1>1, <1>8 DEF FreshInv
  <2>2. DatesHonest(known', mirror')
    BY <1>1, <1>2, <1>4, <1>6, <1>8, <2>1 DEF DatesHonest, Honest
  <2>3. /\ Resumed(job).at = job.phase /\ Resumed(job).phase = job.phase /\ Resumed(job).listing = job.listing
        /\ Resumed(job).left = job.left /\ Resumed(job).locals = job.locals
    BY DEF Resumed, Job
  <2>4. job.phase \in {"absent", "scenarios"} /\ job.left \subseteq Workflows
    BY <1>1, <2>1 DEF Honest, Job
  <2>5. job.phase = "scenarios" => \A v \in job.left : job.locals[v] = mirror'[v]
    BY <1>1, <1>2, <1>6, <2>1, <2>4 DEF Honest
  <2> QED
    BY <1>1, <2>1, <2>2, <2>3, <2>4, <2>5 DEF Honest
<1>9. Resumed(job) \in Job
  BY DEF Resumed, Job, Dates
<1>10. ~ overlapped => \A k \in Syncs \ {j} : sync[k].at = "idle"
  BY <1>1 DEF GoneInv, Alone
<1>11. platform = "n8n" => known' = known
  BY <1>5
<1> QED
  BY <1>5, <1>7, <1>8, <1>9, <1>10, <1>11, FreshStep

\* A step of a job at work that flags a copy keeps its content.
LEMMA FreshFlagged ==
  ASSUME GoneInv, FreshInv, NEW j \in Syncs, sync[j].at # "idle", NEW next \in Job, Become(j, next),
         UNCHANGED <<platform, upstream, known, overlapped>>,
         NEW w \in Copied, mirror' = [mirror EXCEPT ![w].missing = TRUE],
         next.at \in {"absent", "unlisted"},
         platform = "make" /\ ~ overlapped => Honest(next, mirror)
  PROVE  FreshInv'
<1>1. PICK copy \in Copy : copy.content = mirror[w].content /\ mirror' = [mirror EXCEPT ![w] = copy]
  BY FlaggedCopy DEF GoneInv
<1>2. w \in Workflows /\ mirror \in [Workflows -> Copy \union {None}] /\ copy # None
  BY Distinct DEF Copied, GoneInv, TypeInv, TypeOK
<1>3. \A v \in Workflows : mirror'[v].content = mirror[v].content /\ (mirror[v] # None => mirror'[v] # None)
  BY <1>1, <1>2
<1>4. (\A v \in Workflows : known[v] # None => mirror[v] # None)
      /\ (platform = "make" /\ ~ overlapped => DatesHonest(known, mirror))
  BY DEF FreshInv
<1>5. platform = "make" /\ ~ overlapped => DatesHonest(known', mirror') /\ Honest(next, mirror')
  BY <1>3, <1>4 DEF DatesHonest, Honest
<1>6. ~ overlapped => \A k \in Syncs \ {j} : sync[k].at = "idle"
  BY DEF GoneInv, Alone
<1> QED
  BY <1>3, <1>4, <1>5, <1>6, FreshStep

LEMMA FreshFlag ==
  ASSUME GoneInv, FreshInv, NEW j \in Syncs, Flag(j)
  PROVE  FreshInv'
<1>1. PICK job \in Job : job = sync[j] /\ job.at = "flag" /\ Steady(job, Copied)
  BY DEF GoneInv, TypeInv, TypeOK, Flag
<1>2. job.item \in Copied /\ job.phase = "absent"
  BY <1>1 DEF Steady
<1>3. /\ Resumed(job).at = "absent" /\ Resumed(job).phase = "absent" /\ Resumed(job).listing = job.listing
      /\ Resumed(job) \in Job
  BY <1>2 DEF Resumed, Job, Dates
<1>4. platform = "make" /\ ~ overlapped => Honest(Resumed(job), mirror)
  <2>1. platform = "make" /\ ~ overlapped => Honest(job, mirror)
    BY <1>1 DEF FreshInv
  <2> QED
    BY <1>1, <1>3, <2>1 DEF Honest
<1>5. /\ UNCHANGED <<platform, upstream, known, overlapped>> /\ Become(j, Resumed(job))
      /\ mirror' = [mirror EXCEPT ![job.item].missing = TRUE]
  BY <1>1 DEF Flag, Outside
<1> QED
  BY <1>1, <1>2, <1>3, <1>4, <1>5, FreshFlagged

LEMMA FreshFlagUnlisted ==
  ASSUME GoneInv, FreshInv, NEW j \in Syncs, FlagUnlisted(j)
  PROVE  FreshInv'
<1>1. PICK job \in Job : job = sync[j] /\ job.at = "unlisted" /\ Steady(job, Copied)
  BY DEF GoneInv, TypeInv, TypeOK, FlagUnlisted
<1>2. PICK w \in job.left : /\ mirror' = [mirror EXCEPT ![w].missing = TRUE]
                            /\ Become(j, [job EXCEPT !.left = @ \ {w}])
  BY <1>1 DEF FlagUnlisted
<1>3. PICK next : next = [job EXCEPT !.left = @ \ {w}]
  OBVIOUS
<1>4. next \in Job /\ next.at = "unlisted" /\ next.listing = job.listing /\ next.phase = job.phase
  BY <1>1, <1>3 DEF Job
<1>5. w \in Copied
  BY <1>1 DEF Steady
<1>6. platform = "make" /\ ~ overlapped => Honest(next, mirror)
  <2>1. platform = "make" /\ ~ overlapped => Honest(job, mirror)
    BY <1>1 DEF FreshInv
  <2> QED
    BY <1>1, <1>4, <2>1 DEF Honest
<1>7. UNCHANGED <<platform, upstream, known, overlapped>>
  BY DEF FlagUnlisted, Outside
<1> QED
  BY <1>1, <1>2, <1>3, <1>4, <1>5, <1>6, <1>7, FreshFlagged

\* The content of a scenario whose date did not move is the one its copy has.
LEMMA FreshTakeScenario ==
  ASSUME GoneInv, FreshInv, NEW j \in Syncs, TakeScenario(j)
  PROVE  FreshInv'
<1>1. PICK job \in Job : job = sync[j] /\ job.at = "scenarios" /\ Steady(job, Copied)
  BY DEF GoneInv, TypeInv, TypeOK, TakeScenario
<1>2. PICK w \in job.left :
        LET next == [job EXCEPT !.left = @ \ {w}, !.item = w, !.date = job.listing[w].date] IN
        Become(j, IF IsFresh(job, w)
                  THEN [next EXCEPT !.at = "upsert", !.payload = LocalContent(job, w)]
                  ELSE [next EXCEPT !.at = "get"])
  BY <1>1 DEF TakeScenario
<1>3. w \in Workflows /\ job.listing[w] # None /\ job.phase = "scenarios"
  BY <1>1 DEF Steady, Job
<1>4. job.listing[w] \in Upstream /\ job.listing[w].date \in Nat
  BY <1>3 DEF Job, Upstream, Dates
<1>5. PICK next : next = [job EXCEPT !.left = @ \ {w}, !.item = w, !.date = job.listing[w].date]
  OBVIOUS
<1>6. /\ next \in Job /\ next.item = w /\ next.locals = job.locals /\ next.listing = job.listing
      /\ next.phase = "scenarios" /\ next.left = job.left \ {w} /\ next.date = job.listing[w].date
  BY <1>1, <1>3, <1>4, <1>5 DEF Job, Dates
<1>7. platform = "make" /\ ~ overlapped => Honest(job, mirror) /\ DatesHonest(known, mirror)
  BY <1>1 DEF FreshInv
<1>8. UNCHANGED <<platform, upstream, mirror, known, overlapped>>
  BY DEF TakeScenario, Outside
<1>9. CASE IsFresh(job, w)
  <2>1. job.locals[w] \in Copy /\ LocalContent(job, w) = job.locals[w].content /\ known[w] = job.listing[w].date
    BY <1>3, <1>9 DEF IsFresh, LocalContent, Job
  <2>2. PICK fresh : fresh = [next EXCEPT !.at = "upsert", !.payload = LocalContent(job, w)]
    OBVIOUS
  <2>3. LocalContent(job, w) \in Contents
    BY <2>1 DEF Copy
  <2>4. /\ fresh \in Job /\ fresh.at = "upsert" /\ fresh.payload = job.locals[w].content /\ fresh.date = next.date
        /\ fresh.item = next.item /\ fresh.locals = next.locals /\ fresh.listing = next.listing
        /\ fresh.phase = next.phase /\ fresh.left = next.left
    BY <1>6, <2>1, <2>2, <2>3 DEF Job
  <2>5. platform = "make" /\ ~ overlapped => Honest(fresh, mirror)
    <3> SUFFICES ASSUME platform = "make", ~ overlapped PROVE Honest(fresh, mirror)
      OBVIOUS
    <3>1. job.locals[w] = mirror[w]
      BY <1>1, <1>7 DEF Honest
    <3>2. known[w] # None
      BY <1>4, <2>1, Distinct
    <3>3. Tells(w, job.listing[w].date, job.locals[w].content)
      BY <1>3, <1>7, <2>1, <3>1, <3>2 DEF DatesHonest
    <3> QED
      BY <1>1, <1>6, <1>7, <2>4, <3>3 DEF Honest
  <2>6. Become(j, fresh)
    BY <1>2, <1>5, <1>9, <2>2
  <2> QED
    BY <1>1, <1>8, <2>4, <2>5, <2>6, FreshSilent
<1>10. CASE ~ IsFresh(job, w)
  <2>1. PICK get : get = [next EXCEPT !.at = "get"]
    OBVIOUS
  <2>2. /\ get \in Job /\ get.at = "get" /\ get.date = next.date /\ get.item = next.item
        /\ get.locals = next.locals /\ get.listing = next.listing /\ get.phase = next.phase /\ get.left = next.left
    BY <1>6, <2>1 DEF Job
  <2>3. platform = "make" /\ ~ overlapped => Honest(get, mirror)
    BY <1>1, <1>3, <1>6, <1>7, <2>2 DEF Honest, Tells
  <2>4. Become(j, get)
    BY <1>2, <1>5, <1>10, <2>1
  <2> QED
    BY <1>1, <1>8, <2>2, <2>3, <2>4, FreshSilent
<1> QED
  BY <1>9, <1>10

\* What is asked for after the list is that content or a later one.
LEMMA FreshGetScenario ==
  ASSUME GoneInv, FreshInv, NEW j \in Syncs, GetScenario(j)
  PROVE  FreshInv'
<1>1. PICK job \in Job : job = sync[j] /\ job.at = "get" /\ Steady(job, Copied) /\ Witnessed(job)
  BY DEF GoneInv, TypeInv, TypeOK, GetScenario
<1>2. PICK w \in Workflows : w = job.item /\ w \in Known /\ job.date \in Nat
  BY <1>1 DEF Steady, Witnessed, Job, Dates
<1>3. upstream[w] \in Upstream /\ upstream[w].content \in Contents /\ job.phase = "scenarios"
  BY <1>1 DEF GoneInv, TypeInv, TypeOK, Upstream, Steady
<1>4. PICK changed \in BOOLEAN : changed = HashChanged(job.locals[w], upstream[w].content)
  BY DEF HashChanged
<1>5. PICK next : next = [job EXCEPT !.at = "upsert", !.payload = upstream[w].content, !.changed = changed]
  OBVIOUS
<1>6. /\ next \in Job /\ next.at = "upsert" /\ next.item = job.item /\ next.locals = job.locals
      /\ next.listing = job.listing /\ next.phase = job.phase /\ next.left = job.left /\ next.date = job.date
      /\ next.payload = upstream[w].content
  BY <1>1, <1>3, <1>4, <1>5 DEF Job
<1>7. platform = "make" /\ ~ overlapped => Honest(next, mirror)
  <2>1. platform = "make" /\ ~ overlapped => Honest(job, mirror)
    BY <1>1 DEF FreshInv
  <2> QED
    BY <1>1, <1>2, <1>6, <2>1 DEF Honest, Tells
<1>8. Honest(Idle, mirror) /\ Idle \in Job
  BY IdleSteady DEF Honest, Idle, Steady
<1>9. UNCHANGED <<platform, upstream, mirror, known, overlapped>> /\ (Become(j, next) \/ Become(j, Idle))
  BY <1>1, <1>2, <1>4, <1>5 DEF GetScenario, Outside
<1> QED
  BY <1>1, <1>6, <1>7, <1>8, <1>9, FreshSilent

LEMMA FreshCallFails ==
  ASSUME GoneInv, FreshInv, NEW j \in Syncs, CallFails(j)
  PROVE  FreshInv'
<1>1. PICK job \in Job : job = sync[j] /\ job.at # "idle"
  BY DEF GoneInv, TypeInv, TypeOK, CallFails
<1>2. UNCHANGED <<platform, upstream, mirror, known, overlapped>>
  BY DEF CallFails, Outside
<1>3. ASSUME NEW w \in job.left, job.at = "absent", Become(j, [job EXCEPT !.left = @ \ {w}])
      PROVE  FreshInv'
  <2>1. PICK next : next = [job EXCEPT !.left = @ \ {w}]
    OBVIOUS
  <2>2. next \in Job /\ next.listing = job.listing /\ next.at = "absent" /\ next.phase = job.phase
    BY <1>1, <1>3, <2>1 DEF Job
  <2>3. platform = "make" /\ ~ overlapped => Honest(next, mirror)
    <3>1. platform = "make" /\ ~ overlapped => Honest(job, mirror)
      BY <1>1 DEF FreshInv
    <3> QED
      BY <1>1, <2>2, <3>1 DEF Honest
  <2>4. Become(j, next)
    BY <1>3, <2>1
  <2> QED
    BY <1>1, <1>2, <2>2, <2>3, <2>4, FreshSilent
<1>4. ASSUME Become(j, Idle) PROVE FreshInv'
  <2>1. Idle \in Job /\ Honest(Idle, mirror)
    BY IdleSteady DEF Steady, Honest, Idle
  <2> QED
    BY <1>1, <1>2, <1>4, <2>1, FreshSilent
<1> QED
  BY <1>1, <1>3, <1>4 DEF CallFails

LEMMA FreshRestart ==
  ASSUME FreshInv, Restart
  PROVE  FreshInv'
<1>1. \A w \in Workflows : known'[w] = None
  BY DEF Restart, Nothing
<1>2. \A j \in Syncs : sync'[j].at = "idle"
  BY DEF Restart, Idle
<1>3. known' = Nothing
  BY DEF Restart
<1>4. Nothing' = Nothing
  BY DEF Nothing
<1> QED
  BY <1>1, <1>2, <1>3, <1>4 DEF FreshInv, DatesHonest, Honest

LEMMA FreshNext == GoneInv /\ FreshInv /\ [Next]_vars => FreshInv'
<1> SUFFICES ASSUME GoneInv, FreshInv, [Next]_vars PROVE FreshInv'
  OBVIOUS
<1>1. CASE UNCHANGED <<platform, upstream, mirror, known, sync, overlapped>>
  BY <1>1 DEF FreshInv, DatesHonest, Honest, Tells, Known, Nothing
<1>2. ASSUME NEW j \in Syncs, Work(j), platform = "make" PROVE FreshInv'
  BY <1>2, FreshList, FreshClick, FreshReadLocals, FreshAsk, FreshFind, FreshUpsert, FreshFlag,
     FreshTakeScenario, FreshGetScenario, FreshFlagUnlisted, FreshCallFails DEF Work, Continue
<1>3. ASSUME NEW j \in Syncs, Work(j), platform = "n8n" PROVE FreshInv'
  <2>1. known' = known /\ platform' = platform
    BY <1>3 DEF Work, Continue, List, Click, Begin, ReadLocals, Ask, Find, Upsert, Flag, TakeScenario, GetScenario,
                FlagUnlisted, CallFails, Outside
  <2>2. \A w \in Workflows : known[w] = None
    BY <1>3 DEF FreshInv, Nothing
  <2>3. platform' # "make" /\ known' = Nothing
    BY <1>3, <2>1 DEF FreshInv
  <2> QED
    BY <2>1, <2>2, <2>3 DEF FreshInv, Nothing
<1>4. platform \in {"n8n", "make"}
  BY DEF GoneInv, TypeInv, TypeOK, Platforms
<1> QED
  BY <1>1, <1>2, <1>3, <1>4, FreshUsers, FreshRestart DEF Next, vars, Snapshot

\* A scenario of Make whose date did not move since its content was read is
\* not asked for again, and its copy is the one Make has: whatever the edits
\* between the list and the reading, the failures and the restarts, until two
\* syncs overlap.
THEOREM FreshIsRead == Spec => []FreshIsCurrentAlone
<1>1. Spec => []GoneInv
  BY GoneInit, GoneNext, PTL DEF Spec
<1>2. GoneInv /\ FreshInv => FreshIsCurrentAlone
  <2> SUFFICES ASSUME GoneInv, FreshInv, ~ overlapped, NEW w \in Workflows,
                      mirror[w] # None, known[w] # None, known[w] = upstream[w].date
               PROVE  mirror[w].content = upstream[w].content
    BY DEF FreshIsCurrentAlone
  <2>1. platform = "make"
    BY DEF GoneInv, TypeInv, TypeOK, Platforms, FreshInv, Nothing
  <2> QED
    BY <2>1 DEF FreshInv, DatesHonest, Tells
<1> QED
  BY <1>1, <1>2, FreshInit, FreshNext, PTL DEF Spec
============================================================================
