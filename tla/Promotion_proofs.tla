-------------------------- MODULE Promotion_proofs --------------------------
(***************************************************************************)
(* Theorems about Promotion, for a chain of any length, any requests and   *)
(* any number of promotions, edits, failures and restarts.                 *)
(***************************************************************************)
EXTENDS Promotion, WellFoundedInduction, TLAPS

Stamp == [env : Envs, content : Contents]

Job == [at : Labels, asked : Request, legs : Seq(Envs), todo : Seq(Families), ids : SUBSET Workflows,
        lifts : SUBSET Workflows, content : Contents, number : Nat, found : BOOLEAN, touched : Seq(Stamp)]

---------------------------------------------------------------------------
(* The greatest of finitely many numbers *)

LEMMA LeastIn ==
  ASSUME NEW S, S \subseteq Nat, S # {}
  PROVE  \E x \in S : \A y \in S : x <= y
<1> DEFINE Less == {p \in Nat \X Nat : p[1] < p[2]}
<1>1. IsWellFoundedOn(Less, Nat)
  BY NatLessThanWellFounded DEF OpToRel
<1>2. PICK x \in S : \A y \in S : ~ (<<y, x>> \in Less)
  <2> HIDE DEF Less
  <2> QED
    BY <1>1, WFMin
<1> SUFFICES ASSUME NEW y \in S PROVE x <= y
  OBVIOUS
<1>3. ~ (<<y, x>> \in Less) /\ x \in Nat /\ y \in Nat
  BY <1>2
<1>4. <<y, x>> \in Nat \X Nat /\ <<y, x>>[1] = y /\ <<y, x>>[2] = x
  BY <1>3
<1> QED
  BY <1>3, <1>4

\* If some prefix had none, take the shortest: one less has one, and either it
\* or the last element is the greatest.
LEMMA GreatestOf ==
  ASSUME NEW n \in Nat \ {0}, NEW f \in [1..n -> Nat]
  PROVE  \E i \in 1..n : \A j \in 1..n : f[j] <= f[i]
<1> DEFINE Has(k) == \E i \in 1..k : \A j \in 1..k : f[j] <= f[i]
           Bad == {k \in 1..n : ~ Has(k)}
<1> SUFFICES ASSUME ~ Has(n) PROVE FALSE
  OBVIOUS
<1>1. n \in Bad /\ Bad \subseteq Nat
  OBVIOUS
<1>2. PICK k \in Bad : \A l \in Bad : k <= l
  BY <1>1, LeastIn
<1>3. k # 1
  <2>1. Has(1)
    OBVIOUS
  <2> QED
    BY <1>2, <2>1
<1>4. k \in Nat /\ k \in 1..n /\ k - 1 \in 1..n /\ ~ Has(k)
  BY <1>2, <1>3
<1>5. Has(k - 1)
  <2> HIDE DEF Has
  <2>1. k - 1 \notin Bad
    <3> HIDE DEF Bad
    <3> QED
      BY <1>2, <1>4
  <2> QED
    BY <1>4, <2>1
<1>6. PICK i \in 1..(k - 1) : \A j \in 1..(k - 1) : f[j] <= f[i]
  BY <1>5
<1>7. i \in 1..k /\ k \in 1..k /\ \A j \in 1..k : j \in 1..n /\ (j \in 1..(k - 1) \/ j = k)
  <2>1. k \in Nat /\ n \in Nat /\ 1 <= k /\ k <= n /\ i \in 1..(k - 1)
    BY <1>4, <1>6
  <2> HIDE DEF Has, Bad
  <2> QED
    BY <2>1
<1>8. f[i] \in Nat /\ f[k] \in Nat
  BY <1>7
<1>9. CASE f[k] <= f[i]
  <2>1. \A j \in 1..k : f[j] <= f[i]
    BY <1>6, <1>7, <1>9
  <2> QED
    BY <1>4, <1>7, <2>1
<1>10. CASE f[i] <= f[k]
  <2>1. ASSUME NEW j \in 1..k
        PROVE  f[j] <= f[k]
    <3>1. CASE j = k
      BY <1>8, <3>1
    <3>2. CASE j \in 1..(k - 1)
      <4>1. f[j] <= f[i]
        BY <1>6, <3>2
      <4>2. f[j] \in Nat
        BY <1>7
      <4> HIDE DEF Has, Bad
      <4> QED
        BY <1>8, <1>10, <4>1, <4>2
    <3> QED
      BY <1>7, <3>1, <3>2
  <2> QED
    BY <1>4, <1>7, <2>1
<1> QED
  BY <1>8, <1>9, <1>10

LEMMA HighestType ==
  ASSUME rows \in [Envs -> [content : Contents, number : Nat]]
  PROVE  Highest \in Nat /\ \A e \in Envs : rows[e].number <= Highest
<1> DEFINE f == [e \in Envs |-> rows[e].number]
           Numbers == {rows[e].number : e \in Envs}
<1>1. Length \in Nat \ {0} /\ Envs = 1..Length
  BY ConstantsAssumption DEF Envs
<1>2. f \in [1..Length -> Nat]
  BY <1>1
<1>3. PICK i \in 1..Length : \A j \in 1..Length : f[j] <= f[i]
  <2> HIDE DEF f
  <2> QED
    BY <1>1, <1>2, GreatestOf
<1>4. f[i] \in Numbers /\ \A e \in Envs : rows[e].number <= f[i]
  BY <1>1, <1>3
<1>5. Highest \in Numbers /\ \A e \in Envs : rows[e].number <= Highest
  BY <1>4 DEF Highest
<1> QED
  BY <1>5

LEMMA ReleaseType ==
  ASSUME versions \in [Envs -> Seq(Snapshot)], NEW e \in Envs, Numbered(e) # {}
  PROVE  Release(e) \in Snapshot /\ \E k \in Numbered(e) : Release(e) = versions[e][k]
<1>1. versions[e] \in Seq(Snapshot)
  OBVIOUS
<1>2. PICK n \in Nat : DOMAIN versions[e] = 1..n /\ \A k \in 1..n : versions[e][k] \in Snapshot
  BY <1>1
<1>3. Numbered(e) \subseteq 1..n /\ n # 0
  BY <1>2 DEF Numbered
<1> DEFINE f == [k \in 1..n |-> IF k \in Numbered(e) THEN k ELSE 0]
<1>4. f \in [1..n -> Nat]
  OBVIOUS
<1>5. PICK i \in 1..n : \A j \in 1..n : f[j] <= f[i]
  <2> HIDE DEF f
  <2> QED
    BY <1>3, <1>4, GreatestOf
<1>6. i \in Numbered(e) /\ \A l \in Numbered(e) : l <= i
  BY <1>3, <1>5
<1>7. (CHOOSE k \in Numbered(e) : \A l \in Numbered(e) : l <= k) \in Numbered(e)
  BY <1>6
<1> QED
  BY <1>2, <1>3, <1>7 DEF Release

LEMMA NumberType ==
  ASSUME rows \in [Envs -> [content : Contents, number : Nat]], versions \in [Envs -> Seq(Snapshot)],
         NEW e \in Envs, NEW content
  PROVE  NextNumber(e, content) \in Nat
<1>1. Highest + 1 \in Nat
  BY HighestType
<1>2. Numbered(e) # {} => Release(e).number \in Nat
  BY ReleaseType DEF Snapshot
<1> QED
  BY <1>1, <1>2 DEF NextNumber

---------------------------------------------------------------------------
(* Types *)

Writing == {"push", "move", "put", "copy"}

\* What a promotion holds, at each of its steps.
JobTyped(job) ==
    /\ job \in Job
    /\ job.at # "idle" => job.asked.from # job.asked.to
    /\ job.at \in {"legs", "lock", "leg"} \union Writing => job.legs # <<>>
    /\ job.at \in {"legs", "lock"} => job.todo \in {<<>>, <<"main">>, <<"sub", "main">>}
    /\ job.at \in Writing => job.todo \in {<<"main">>, <<"sub", "main">>}
    /\ job.at \in {"stamp", "snapshot"} => job.touched # <<>>

CallsTyped == call \in [Calls -> Job] /\ \A c \in Calls : JobTyped(call[c])

TablesTyped ==
    /\ rows \in [Envs -> [content : Contents, number : Nat]]
    /\ versions \in [Envs -> Seq(Snapshot)]
    /\ taking \in [Envs -> Seq(Contents)]

RestTyped ==
    /\ LockTypeOK
    /\ park \in Park
    /\ live \in [Workflows -> Contents] /\ archived \subseteq Workflows
    /\ pushed \subseteq [from : Envs, to : Envs, content : Contents, ordinary : BOOLEAN]
    /\ served \subseteq [number : Nat, content : Contents]
    /\ forced \subseteq [copy : Workflows, for : Families] /\ twins \subseteq Workflows
    /\ alone \in BOOLEAN /\ calm \in BOOLEAN /\ prompt \in BOOLEAN /\ climbing \in BOOLEAN
    /\ budget \in [Events -> Nat]

TypeInv == CallsTyped /\ TablesTyped /\ RestTyped

LEMMA TypeInvImplies == TypeInv => TypeOK
BY DEF TypeInv, CallsTyped, TablesTyped, RestTyped, TypeOK, Job, Stamp

LEMMA Family ==
  ASSUME NEW e \in Envs, NEW f \in Families
  PROVE  /\ <<f, e>> \in Workflows /\ Main(e) \in Workflows /\ Sub(e) \in Workflows /\ Holder(e) \in Workflows
         /\ Main(e)[1] = "main" /\ Main(e)[2] = e /\ Sub(e)[1] = "sub" /\ Holder(e)[1] = "holder"
         /\ <<f, e>>[1] = f /\ <<f, e>>[2] = e
BY ConstantsAssumption DEF Main, Sub, Holder, Families

LEMMA SomeEnv == 1 \in Envs /\ Envs \subseteq Nat
BY ConstantsAssumption DEF Envs

LEMMA IdleTyped == JobTyped(Idle) /\ Idle.at = "idle" /\ Idle.legs = <<>> /\ Idle.todo = <<>>
<1>1. Idle \in Job
  BY SomeEnv, ConstantsAssumption DEF Idle, Job, Labels, Contents, Request
<1> QED
  BY <1>1 DEF JobTyped, Idle, Writing

LEMMA TypeInit == Init => TypeInv
<1> SUFFICES ASSUME Init PROVE TypeInv
  OBVIOUS
<1>1. park \in Park /\ live \in [Workflows -> Contents] /\ locked \subseteq Workflows
  BY ConstantsAssumption DEF Init, Park
<1>2. CallsTyped
  <2>1. call = [c \in Calls |-> Idle]
    BY DEF Init
  <2> QED
    BY <2>1, IdleTyped DEF CallsTyped, JobTyped
<1>3. TablesTyped
  <2>1. \A e \in Envs : live[Main(e)] \in Contents
    BY <1>1, Family DEF Families
  <2>2. \A e \in Envs : <<[content |-> live[Main(e)], number |-> 0]>> \in Seq(Snapshot)
    BY <2>1 DEF Snapshot
  <2>3. versions \in [Envs -> Seq(Snapshot)]
    BY <2>2 DEF Init
  <2>4. rows \in [Envs -> [content : Contents, number : Nat]] /\ taking \in [Envs -> Seq(Contents)]
    BY <2>1 DEF Init
  <2> QED
    BY <2>3, <2>4 DEF TablesTyped
<1>4. budget \in [Events -> Nat]
  BY ConstantsAssumption DEF Init
<1> QED
  BY <1>1, <1>2, <1>3, <1>4 DEF Init, TypeInv, RestTyped, LockTypeOK

\* What a step of one promotion has to show.
LEMMA StepTyped ==
  ASSUME CallsTyped, NEW c \in Calls, NEW job, Step(c, job), JobTyped(job)
  PROVE  /\ CallsTyped' /\ call'[c] = job
         /\ \A d \in Calls : d # c => call'[d] = call[d]
BY DEF CallsTyped, Step, JobTyped

LEMMA HappensType ==
  ASSUME RestTyped, NEW event \in Events, Happens(event)
  PROVE  budget' \in [Events -> Nat]
<1>1. budget \in [Events -> Nat] /\ budget[event] > 0
  BY DEF RestTyped, Happens
<1>2. budget[event] - 1 \in Nat
  BY <1>1
<1> QED
  BY <1>1, <1>2 DEF Happens

LEMMA CopiedType ==
  ASSUME TablesTyped, NEW e \in Envs, NEW content \in Contents, Copied(e, content)
  PROVE  TablesTyped'
<1>1. rows' \in [Envs -> [content : Contents, number : Nat]]
  BY DEF TablesTyped, Copied
<1>2. taking' \in [Envs -> Seq(Contents)]
  <2>1. Append(taking[e], content) \in Seq(Contents)
    BY DEF TablesTyped
  <2> QED
    BY <2>1 DEF TablesTyped, Copied
<1> QED
  BY <1>1, <1>2 DEF TablesTyped, Copied

\* What a promotion in progress can count on.
LEMMA HeldType ==
  ASSUME TypeInv, NEW c \in Calls
  PROVE  /\ JobTyped(call[c]) /\ call[c] \in Job
         /\ Asked(c).from \in Envs /\ Asked(c).to \in Envs
         /\ Asked(c) \in Request
         /\ Source(c) \in Workflows /\ live[Source(c)] \in Contents
         /\ Refreshed(c) => TablesTyped'
<1>1. JobTyped(call[c]) /\ call[c] \in Job /\ Asked(c) \in Request
  BY DEF TypeInv, CallsTyped, JobTyped, Job, Asked
<1>2. Asked(c).from \in Envs /\ Asked(c).to \in Envs
  BY <1>1 DEF Request
<1>3. Source(c) \in Workflows /\ live[Source(c)] \in Contents
  BY <1>2, Family DEF Source, Families, TypeInv, RestTyped
<1>4. Refreshed(c) => TablesTyped'
  BY <1>2, <1>3, CopiedType DEF Refreshed, TypeInv
<1> QED
  BY <1>1, <1>2, <1>3, <1>4

LEMMA WritingType ==
  ASSUME TypeInv, NEW c \in Calls, call[c].at \in Writing
  PROVE  /\ Here(c) \in Envs /\ Pushing(c) \in {"main", "sub"} /\ Pushing(c) \in Families
         /\ Target(c) \in Workflows /\ Target(c) = <<Pushing(c), Here(c)>>
         /\ <<Pushing(c), Asked(c).from>> \in Workflows /\ Holder(Here(c)) \in Workflows
         /\ live[<<Pushing(c), Asked(c).from>>] \in Contents
<1>1. JobTyped(call[c]) /\ call[c] \in Job /\ Asked(c).from \in Envs
  BY HeldType
<1>2. Here(c) \in Envs
  BY <1>1 DEF JobTyped, Job, Here
<1>3. Pushing(c) \in {"main", "sub"}
  <2>1. call[c].todo \in {<<"main">>, <<"sub", "main">>}
    BY <1>1 DEF JobTyped
  <2>2. Head(<<"main">>) = "main" /\ Head(<<"sub", "main">>) = "sub"
    OBVIOUS
  <2> QED
    BY <2>1, <2>2 DEF Pushing
<1>4. Pushing(c) \in Families
  BY <1>3 DEF Families
<1> QED
  BY <1>1, <1>2, <1>3, <1>4, Family DEF Target, TypeInv, RestTyped

\* The legs of a promotion: one step of the chain after the other, or straight
\* to the target.
LEMMA RouteShape ==
  ASSUME NEW asked \in Request
  PROVE  /\ Route(asked) \in Seq(Envs) /\ Route(asked) # <<>> /\ Len(Route(asked)) \in Nat \ {0}
         /\ asked.through /\ Skipped(asked) # {} =>
              /\ asked.from < asked.to
              /\ Len(Route(asked)) = asked.to - asked.from
              /\ \A k \in 1..Len(Route(asked)) : Route(asked)[k] = asked.from + k
         /\ ~ (asked.through /\ Skipped(asked) # {}) => Route(asked) = <<asked.to>>
<1>1. /\ asked.from \in 1..Length /\ asked.to \in 1..Length /\ Length \in Nat
      /\ asked.from \in Nat /\ asked.to \in Nat
  BY ConstantsAssumption DEF Request, Envs
<1>2. CASE asked.through /\ Skipped(asked) # {}
  <2>1. asked.from < asked.to
    BY <1>1, <1>2 DEF Skipped, Envs
  <2>2. PICK n \in Nat \ {0} : n = asked.to - asked.from
    BY <1>1, <2>1
  <2>3. Route(asked) = [k \in 1..n |-> asked.from + k]
    BY <1>2, <2>2 DEF Route
  <2>4. \A k \in 1..n : asked.from + k \in Envs
    BY <1>1, <2>2 DEF Envs
  <2>5. Route(asked) \in [1..n -> Envs]
    BY <2>3, <2>4
  <2>6. Route(asked) \in Seq(Envs) /\ Len(Route(asked)) = n
    BY <2>5
  <2>7. \A k \in 1..n : Route(asked)[k] = asked.from + k
    BY <2>3
  <2> QED
    BY <1>2, <2>1, <2>2, <2>6, <2>7
<1>3. CASE ~ (asked.through /\ Skipped(asked) # {})
  <2>1. Route(asked) = <<asked.to>> /\ asked.to \in Envs
    BY <1>1, <1>3 DEF Route, Envs
  <2> QED
    BY <1>3, <2>1
<1> QED
  BY <1>2, <1>3

LEMMA WrittenType ==
  ASSUME NEW e \in Envs
  PROVE  Written(e) \subseteq Workflows
BY ConstantsAssumption DEF Written, Main, Holder, Families

LEMMA Tuples ==
  /\ <<>> \in Seq(Families) /\ <<"main">> \in Seq(Families) /\ <<"sub", "main">> \in Seq(Families)
  /\ Len(<<"main">>) = 1 /\ Len(<<"sub", "main">>) = 2 /\ Tail(<<"sub", "main">>) = <<"main">>
  /\ Head(<<"main">>) = "main" /\ Head(<<"sub", "main">>) = "sub"
<1>1. "main" \in Families /\ "sub" \in Families
  BY DEF Families
<1>2. <<>> \in Seq(Families) /\ <<"main">> \in Seq(Families)
  BY <1>1
<1>3. <<"sub", "main">> \in Seq(Families)
  BY <1>1
<1>4. Len(<<"main">>) = 1 /\ Len(<<"sub", "main">>) = 2
  OBVIOUS
<1>5. Tail(<<"sub", "main">>) = <<"main">>
  OBVIOUS
<1> QED
  BY <1>2, <1>3, <1>4, <1>5

LEMMA Tails ==
  ASSUME NEW S, NEW s \in Seq(S), Len(s) > 1
  PROVE  /\ Tail(s) \in Seq(S) /\ Tail(s) # <<>> /\ Len(Tail(s)) = Len(s) - 1
         /\ \A k \in 1..Len(Tail(s)) : Tail(s)[k] = s[k + 1]
<1>1. Tail(s) \in Seq(S) /\ Len(Tail(s)) = Len(s) - 1
  OBVIOUS
<1>2. \A k \in 1..Len(Tail(s)) : Tail(s)[k] = s[k + 1]
  OBVIOUS
<1>3. Len(Tail(s)) # 0
  BY <1>1
<1>4. Len(<<>>) = 0
  OBVIOUS
<1>5. Tail(s) # <<>>
  BY <1>3, <1>4
<1> QED
  BY <1>1, <1>2, <1>5

LEMMA ToDoType ==
  ASSUME NEW asked, NEW e
  PROVE  ToDo(asked, e) \in {<<"main">>, <<"sub", "main">>} /\ ToDo(asked, e) \in Seq(Families)
BY Tuples DEF ToDo

\* What follows a push.
LEMMA OnwardTyped ==
  ASSUME NEW job, JobTyped(job), job.at \in Writing
  PROVE  /\ JobTyped(Onward(job)) /\ Onward(job).at \in {"push", "leg", "stamp"}
         /\ Onward(job).asked = job.asked
         /\ Onward(job).at = "push" => /\ job.todo = <<"sub", "main">> /\ Onward(job).todo = <<"main">>
                                        /\ Onward(job).legs = job.legs
         /\ Onward(job).at = "leg" => job.todo = <<"main">> /\ Onward(job).legs = Tail(job.legs)
<1>1. /\ job \in Job /\ job.todo \in {<<"main">>, <<"sub", "main">>} /\ job.asked.from # job.asked.to
      /\ job.legs # <<>> /\ job.legs \in Seq(Envs) /\ job.asked.from \in Envs
  BY DEF JobTyped, Writing, Job, Request
<1>2. CASE Len(job.todo) > 1
  <2>1. job.todo = <<"sub", "main">> /\ Tail(job.todo) = <<"main">> /\ <<"main">> \in Seq(Families)
    <3>1. ASSUME job.todo = <<"main">> PROVE FALSE
      <4>1. Len(job.todo) = 1
        BY <3>1
      <4> QED
        BY <1>2, <4>1
    <3> QED
      BY <1>1, <3>1, Tuples
  <2>2. PICK new : new = [job EXCEPT !.at = "push", !.todo = <<"main">>]
    OBVIOUS
  <2>3. /\ new \in Job /\ new.at = "push" /\ new.todo = <<"main">> /\ new.legs = job.legs
        /\ new.asked = job.asked
    BY <1>1, <2>1, <2>2 DEF Job, Labels
  <2>4. Onward(job) = new
    BY <1>2, <2>1, <2>2 DEF Onward
  <2> QED
    BY <1>1, <2>1, <2>3, <2>4 DEF JobTyped, Writing
<1>3. CASE ~ Len(job.todo) > 1 /\ Len(job.legs) > 1
  <2>1. job.todo = <<"main">> /\ <<>> \in Seq(Families)
    <3>1. ASSUME job.todo = <<"sub", "main">> PROVE FALSE
      <4>1. Len(job.todo) = 2
        BY <3>1
      <4> QED
        BY <1>3, <4>1
    <3> QED
      BY <1>1, <3>1, Tuples
  <2>5. Tail(job.legs) \in Seq(Envs) /\ Tail(job.legs) # <<>>
    BY <1>1, <1>3, Tails
  <2>2. PICK new : new = [job EXCEPT !.at = "leg", !.todo = <<>>, !.legs = Tail(job.legs)]
    OBVIOUS
  <2>3. /\ new \in Job /\ new.at = "leg" /\ new.legs = Tail(job.legs) /\ new.asked = job.asked
    BY <1>1, <2>1, <2>2, <2>5 DEF Job, Labels
  <2>4. Onward(job) = new
    BY <1>3, <2>2 DEF Onward
  <2> QED
    BY <1>1, <2>1, <2>3, <2>4, <2>5 DEF JobTyped, Writing
<1>4. CASE ~ Len(job.todo) > 1 /\ ~ Len(job.legs) > 1
  <2>1. PICK s : s = <<[env |-> job.asked.from, content |-> job.content]>> \o job.touched
    OBVIOUS
  <2>2. s \in Seq(Stamp) /\ s # <<>>
    <3>1. job.touched \in Seq(Stamp) /\ [env |-> job.asked.from, content |-> job.content] \in Stamp
      BY <1>1 DEF Job, Stamp
    <3> QED
      BY <2>1, <3>1
  <2>3. PICK new : new = [job EXCEPT !.at = "stamp", !.todo = <<>>, !.legs = <<>>, !.touched = s]
    OBVIOUS
  <2>4. /\ new \in Job /\ new.at = "stamp" /\ new.touched = s /\ new.asked = job.asked
    <3>1. <<>> \in Seq(Envs) /\ <<>> \in Seq(Families)
      OBVIOUS
    <3> QED
      BY <1>1, <2>2, <2>3, <3>1 DEF Job, Labels
  <2>5. Onward(job) = new
    BY <1>4, <2>1, <2>3 DEF Onward
  <2> QED
    BY <1>1, <2>2, <2>4, <2>5 DEF JobTyped, Writing
<1> QED
  BY <1>2, <1>3, <1>4

LEMMA LocksType ==
  ASSUME LockTypeOK, NEW ids \in SUBSET Workflows, NEW lifts \in SUBSET Workflows,
         AssertWritable(ids, lifts) \/ Refused(ids, lifts)
  PROVE  LockTypeOK'
BY DEF LockTypeOK, AssertWritable, Refused, Overridden, lockVars

LEMMA TypePromote ==
  ASSUME TypeInv, NEW c \in Calls, NEW asked \in Requests, NEW lifts \in SUBSET Workflows, Promote(c, asked, lifts)
  PROVE  TypeInv'
<1>1. asked \in Request
  BY ConstantsAssumption
<1>2. PICK job : job = [Idle EXCEPT !.at = "prepare", !.asked = asked, !.lifts = lifts]
  OBVIOUS
<1>3. job \in Job /\ job.at = "prepare" /\ job.asked = asked
  BY <1>1, <1>2, IdleTyped DEF JobTyped, Job, Labels
<1>4. JobTyped(job) /\ Step(c, job)
  BY <1>2, <1>3 DEF Promote, JobTyped, Writing
<1>5. CallsTyped'
  BY <1>4, StepTyped DEF TypeInv
<1>6. budget' \in [Events -> Nat]
  BY HappensType DEF Promote, TypeInv, Events
<1>7. alone' \in BOOLEAN
  BY DEF Promote, TypeInv, RestTyped
<1> QED
  BY <1>5, <1>6, <1>7 DEF Promote, TypeInv, RestTyped, TablesTyped, LockTypeOK, lockVars, n8n, tables

LEMMA TypeEnd ==
  ASSUME TypeInv, NEW c \in Calls, End(c)
  PROVE  CallsTyped'
BY IdleTyped, StepTyped DEF End, TypeInv

LEMMA TypePrepare ==
  ASSUME TypeInv, NEW c \in Calls, Prepare(c) \/ Legs(c) \/ Leg(c)
  PROVE  TypeInv'
<1>1. JobTyped(call[c]) /\ call[c] \in Job /\ TablesTyped' /\ live[Source(c)] \in Contents
  BY HeldType DEF Prepare, Legs, Leg
<1>2. PICK job : Step(c, job) /\ JobTyped(job)
  <2>1. CASE Prepare(c)
    <3>1. PICK job : job = [call[c] EXCEPT !.at = "judge", !.content = live[Source(c)]]
      OBVIOUS
    <3>2. job \in Job /\ job.at = "judge" /\ job.asked = call[c].asked
      BY <1>1, <3>1 DEF Job, Labels
    <3>3. JobTyped(job)
      BY <1>1, <2>1, <3>2 DEF JobTyped, Writing, Prepare, At
    <3> QED
      BY <2>1, <3>1, <3>3 DEF Prepare
  <2>2. CASE Legs(c)
    <3>1. PICK ids : ids = UNION {Written(call[c].legs[k]) : k \in DOMAIN call[c].legs}
      OBVIOUS
    <3>2. ids \in SUBSET Workflows
      BY <1>1, <3>1, WrittenType DEF Job
    <3>3. PICK job : job = [call[c] EXCEPT !.at = "lock", !.ids = ids]
      OBVIOUS
    <3>4. job \in Job /\ job.at = "lock" /\ job.asked = call[c].asked /\ job.legs = call[c].legs
          /\ job.todo = call[c].todo
      BY <1>1, <3>2, <3>3 DEF Job, Labels
    <3>5. JobTyped(job)
      BY <1>1, <2>2, <3>4 DEF JobTyped, Writing, Legs, At
    <3> QED
      BY <2>2, <3>1, <3>3, <3>5 DEF Legs
  <2>3. CASE Leg(c)
    <3>1. PICK todo : todo = ToDo(Asked(c), Here(c))
      OBVIOUS
    <3>2. PICK job : job = [call[c] EXCEPT !.at = "push", !.todo = todo]
      OBVIOUS
    <3>3. todo \in {<<"main">>, <<"sub", "main">>} /\ todo \in Seq(Families)
      BY <3>1, ToDoType
    <3>4. job \in Job /\ job.at = "push" /\ job.asked = call[c].asked /\ job.legs = call[c].legs /\ job.todo = todo
      BY <1>1, <3>2, <3>3 DEF Job, Labels
    <3>5. JobTyped(job)
      BY <1>1, <2>3, <3>3, <3>4 DEF JobTyped, Writing, Leg, At
    <3> QED
      BY <2>3, <3>1, <3>2, <3>5 DEF Leg
  <2> QED
    BY <2>1, <2>2, <2>3
<1>3. CallsTyped'
  BY <1>2, StepTyped DEF TypeInv
<1>4. UNCHANGED <<lockVars, park, n8n, history, budget>>
  BY DEF Prepare, Legs, Leg
<1> QED
  BY <1>1, <1>3, <1>4 DEF TypeInv, RestTyped, LockTypeOK, lockVars, n8n, history

LEMMA TypeJudge ==
  ASSUME TypeInv, NEW c \in Calls, Judge(c)
  PROVE  TypeInv'
<1>1. /\ JobTyped(call[c]) /\ call[c] \in Job /\ Asked(c) \in Request
      /\ Asked(c).from \in Envs /\ Asked(c).to \in Envs /\ Asked(c) = call[c].asked
  BY HeldType DEF Asked
<1>2. PICK route : route = Route(Asked(c))
  OBVIOUS
<1>3. route \in Seq(Envs) /\ route # <<>>
  BY <1>1, <1>2, RouteShape
<1>4. PICK number \in Nat : number = NextNumber(Asked(c).from, call[c].content)
  BY <1>1, NumberType DEF TypeInv, TablesTyped
<1>5. PICK todo \in Seq(Families) :
        /\ todo = IF Len(route) = 1 THEN ToDo(Asked(c), Asked(c).to) ELSE <<>>
        /\ todo \in {<<>>, <<"main">>, <<"sub", "main">>}
  <2>1. ToDo(Asked(c), Asked(c).to) \in {<<"main">>, <<"sub", "main">>} /\ ToDo(Asked(c), Asked(c).to) \in Seq(Families)
    BY ToDoType
  <2> QED
    BY <2>1, Tuples
<1>6. PICK ids \in SUBSET Workflows : ids = IF Len(route) = 1 THEN Written(Asked(c).to) ELSE {}
  BY <1>1, WrittenType
<1>7. PICK job : job = [call[c] EXCEPT !.at = IF Len(route) = 1 THEN "lock" ELSE "legs", !.legs = route,
                                       !.number = number, !.todo = todo, !.ids = ids]
  OBVIOUS
<1>8. /\ job \in Job /\ job.at \in {"lock", "legs"} /\ job.asked = call[c].asked /\ job.legs = route
      /\ job.todo = todo
  BY <1>1, <1>3, <1>4, <1>5, <1>6, <1>7 DEF Job, Labels
<1>9. JobTyped(job)
  <2>1. call[c].at = "judge" /\ job.asked.from # job.asked.to
    BY <1>1, <1>8 DEF JobTyped, Judge, At
  <2> QED
    BY <1>3, <1>5, <1>8, <2>1 DEF JobTyped, Writing
<1>10. Step(c, job) \/ End(c)
  BY <1>2, <1>4, <1>5, <1>6, <1>7 DEF Judge
<1>11. CallsTyped'
  BY <1>9, <1>10, StepTyped, TypeEnd DEF TypeInv
<1>12. UNCHANGED <<lockVars, park, n8n, tables, history, budget>>
  BY DEF Judge
<1> QED
  BY <1>11, <1>12 DEF TypeInv, RestTyped, TablesTyped, LockTypeOK, lockVars, n8n, tables, history

LEMMA TypeCheckLocks ==
  ASSUME TypeInv, NEW c \in Calls, CheckLocks(c)
  PROVE  TypeInv'
<1>1. JobTyped(call[c]) /\ call[c] \in Job /\ call[c].ids \in SUBSET Workflows /\ call[c].lifts \in SUBSET Workflows
  BY HeldType DEF Job
<1>2. LockTypeOK'
  BY <1>1, LocksType DEF CheckLocks, TypeInv, RestTyped
<1>3. PICK job : job = [call[c] EXCEPT !.at = IF call[c].todo = <<>> THEN "leg" ELSE "push", !.ids = {}, !.lifts = {}]
  OBVIOUS
<1>4. /\ job \in Job /\ job.at = (IF call[c].todo = <<>> THEN "leg" ELSE "push") /\ job.asked = call[c].asked
      /\ job.legs = call[c].legs /\ job.todo = call[c].todo
  BY <1>1, <1>3 DEF Job, Labels
<1>5. JobTyped(job)
  BY <1>1, <1>4 DEF JobTyped, Writing, CheckLocks, At
<1>6. CallsTyped'
  BY <1>3, <1>5, StepTyped, TypeEnd DEF TypeInv, CheckLocks
<1> QED
  BY <1>2, <1>6 DEF TypeInv, RestTyped, TablesTyped, CheckLocks, n8n, tables, history

LEMMA TypePush ==
  ASSUME TypeInv, NEW c \in Calls, Push(c)
  PROVE  TypeInv'
<1>1. JobTyped(call[c]) /\ call[c] \in Job /\ (Refreshed(c) => TablesTyped') /\ call[c].at = "push"
  BY HeldType DEF Push, At
<1>2. live[<<Pushing(c), Asked(c).from>>] \in Contents
  BY <1>1, WritingType DEF Writing
<1>3. PICK job : job = [call[c] EXCEPT !.at = IF Clashes(Pushing(c), Here(c)) THEN "move" ELSE "put",
                                       !.found = OnTarget(Target(c)), !.content = live[<<Pushing(c), Asked(c).from>>]]
  OBVIOUS
<1>4. /\ job \in Job /\ job.at \in {"move", "put"} /\ job.asked = call[c].asked
      /\ job.legs = call[c].legs /\ job.todo = call[c].todo
  <2>1. OnTarget(Target(c)) \in BOOLEAN
    BY DEF OnTarget
  <2> QED
    BY <1>1, <1>2, <1>3, <2>1 DEF Job, Labels
<1>5. JobTyped(job)
  BY <1>1, <1>4 DEF JobTyped, Writing
<1>6. JobTyped(Onward(call[c]))
  BY <1>1, OnwardTyped DEF Writing
<1>7. End(c) \/ Step(c, Onward(call[c])) \/ Step(c, job)
  BY <1>3 DEF Push
<1>8. CallsTyped'
  BY <1>5, <1>6, <1>7, StepTyped, TypeEnd DEF TypeInv
<1>9. TablesTyped' /\ UNCHANGED <<lockVars, park, n8n, history, budget>>
  BY <1>1 DEF Push, TypeInv, TablesTyped, tables
<1> QED
  BY <1>8, <1>9 DEF TypeInv, RestTyped, LockTypeOK, lockVars, n8n, history

\* What the writes leave.
LEMMA WriteType ==
  ASSUME TypeInv, NEW c \in Calls, call[c].at \in Writing, Write(c) \/ MoveHolder(c)
  PROVE  /\ live' \in [Workflows -> Contents] /\ archived' = archived
         /\ pushed' \subseteq [from : Envs, to : Envs, content : Contents, ordinary : BOOLEAN]
         /\ forced' \subseteq [copy : Workflows, for : Families] /\ twins' \subseteq Workflows
         /\ calm' \in BOOLEAN
<1>1. /\ JobTyped(call[c]) /\ call[c] \in Job /\ call[c].content \in Contents
      /\ Asked(c).from \in Envs /\ Asked(c) \in Request
  BY HeldType DEF Job
<1>2. /\ Here(c) \in Envs /\ Pushing(c) \in Families /\ Target(c) \in Workflows /\ Holder(Here(c)) \in Workflows
  BY WritingType
<1>3. Trace(c) \in [from : Envs, to : Envs, content : Contents, ordinary : BOOLEAN]
  BY <1>1, <1>2 DEF Trace, Ordinary
<1>4. Moved \in Contents
  BY ConstantsAssumption DEF Contents, Moved
<1>5. ASSUME NEW w \in Workflows, NEW content \in Contents, Overwritten(c, w, content)
      PROVE  /\ live' \in [Workflows -> Contents] /\ archived' = archived
             /\ forced' \subseteq [copy : Workflows, for : Families] /\ twins' \subseteq Workflows
  <2>1. [copy |-> w, for |-> Pushing(c)] \in [copy : Workflows, for : Families]
    BY <1>2
  <2> QED
    BY <1>5, <2>1 DEF Overwritten, TypeInv, RestTyped
<1>6. ASSUME NEW w \in Workflows, NEW content \in Contents, Created(w, content)
      PROVE  /\ live' \in [Workflows -> Contents] /\ archived' = archived
             /\ forced' \subseteq [copy : Workflows, for : Families] /\ twins' \subseteq Workflows
  BY <1>6 DEF Created, TypeInv, RestTyped
<1>7. CASE MoveHolder(c)
  BY <1>2, <1>4, <1>5, <1>7 DEF MoveHolder, TypeInv, RestTyped
<1>8. CASE Write(c)
  <2>1. /\ live' \in [Workflows -> Contents] /\ archived' = archived
        /\ forced' \subseteq [copy : Workflows, for : Families] /\ twins' \subseteq Workflows
    BY <1>1, <1>2, <1>5, <1>6, <1>8 DEF Write
  <2>2. pushed' \subseteq [from : Envs, to : Envs, content : Contents, ordinary : BOOLEAN] /\ calm' \in BOOLEAN
    BY <1>3, <1>8 DEF Write, TypeInv, RestTyped
  <2> QED
    BY <2>1, <2>2
<1> QED
  BY <1>7, <1>8

LEMMA TypeWrite ==
  ASSUME TypeInv, NEW c \in Calls, Move(c) \/ Put(c) \/ AnswerLost(c)
  PROVE  TypeInv'
<1>1. JobTyped(call[c]) /\ call[c] \in Job /\ call[c].at \in Writing
  BY HeldType DEF Move, Put, AnswerLost, At, Writing
<1>2. /\ live' \in [Workflows -> Contents] /\ archived' = archived
      /\ pushed' \subseteq [from : Envs, to : Envs, content : Contents, ordinary : BOOLEAN]
      /\ forced' \subseteq [copy : Workflows, for : Families] /\ twins' \subseteq Workflows
      /\ calm' \in BOOLEAN
  BY <1>1, WriteType DEF Move, Put, AnswerLost
<1>3. ASSUME NEW label \in {"put", "copy"}, Go(c, label) PROVE CallsTyped'
  <2>1. PICK job : job = [call[c] EXCEPT !.at = label]
    OBVIOUS
  <2>2. job \in Job /\ job.at = label /\ job.asked = call[c].asked /\ job.legs = call[c].legs /\ job.todo = call[c].todo
    BY <1>1, <2>1 DEF Job, Labels
  <2>3. JobTyped(job)
    BY <1>1, <2>2 DEF JobTyped, Writing
  <2> QED
    BY <1>3, <2>1, <2>3, StepTyped DEF Go, TypeInv
<1>4. CallsTyped'
  BY <1>3, TypeEnd DEF Move, Put, AnswerLost
<1>5. budget' \in [Events -> Nat]
  <2>1. CASE AnswerLost(c)
    BY <2>1, HappensType DEF AnswerLost, TypeInv, Events
  <2> QED
    BY <2>1 DEF Move, Put, TypeInv, RestTyped
<1>6. UNCHANGED <<lockVars, park, tables, served, alone, prompt, climbing>>
  BY DEF Move, Put, AnswerLost, Undisturbed
<1> QED
  BY <1>2, <1>4, <1>5, <1>6 DEF TypeInv, RestTyped, TablesTyped, LockTypeOK, lockVars, tables

LEMMA TypeStop ==
  ASSUME TypeInv, NEW c \in Calls, PutRefused(c) \/ Throw(c)
  PROVE  TypeInv'
<1>1. CallsTyped'
  BY TypeEnd DEF PutRefused, Throw
<1>2. budget' \in [Events -> Nat]
  <2>1. CASE Throw(c)
    BY <2>1, HappensType DEF Throw, TypeInv, Events
  <2> QED
    BY <2>1 DEF PutRefused, TypeInv, RestTyped
<1>3. UNCHANGED <<lockVars, park, n8n, tables, history>>
  BY DEF PutRefused, Throw
<1> QED
  BY <1>1, <1>2, <1>3 DEF TypeInv, RestTyped, TablesTyped, LockTypeOK, lockVars, n8n, tables, history

LEMMA TypeCopyTarget ==
  ASSUME TypeInv, NEW c \in Calls, CopyTarget(c)
  PROVE  TypeInv'
<1>1. JobTyped(call[c]) /\ call[c] \in Job /\ call[c].at = "copy" /\ call[c].content \in Contents
  BY HeldType DEF CopyTarget, At, Job
<1>2. Here(c) \in Envs /\ Target(c) \in Workflows /\ live[Target(c)] \in Contents
  BY <1>1, WritingType DEF Writing, TypeInv, RestTyped
<1>3. PICK held : held = [call[c] EXCEPT !.touched = Append(@, [env |-> Here(c), content |-> call[c].content])]
  OBVIOUS
<1>4. JobTyped(held) /\ held.at = "copy"
  <2>1. PICK s : s = Append(call[c].touched, [env |-> Here(c), content |-> call[c].content])
    OBVIOUS
  <2>2. s \in Seq(Stamp)
    BY <1>1, <1>2, <2>1 DEF Job, Stamp
  <2>3. /\ held \in Job /\ held.at = "copy" /\ held.asked = call[c].asked /\ held.legs = call[c].legs
        /\ held.todo = call[c].todo
    BY <1>1, <1>3, <2>1, <2>2 DEF Job
  <2> QED
    BY <1>1, <2>3 DEF JobTyped, Writing
<1>5. JobTyped(Onward(held)) /\ JobTyped(Onward(call[c]))
  BY <1>1, <1>4, OnwardTyped DEF Writing
<1>6. Step(c, Onward(held)) \/ Step(c, Onward(call[c]))
  BY <1>3 DEF CopyTarget
<1>7. CallsTyped'
  BY <1>5, <1>6, StepTyped DEF TypeInv
<1>8. TablesTyped'
  <2>1. CASE Pushing(c) = "main"
    BY <1>2, <2>1, CopiedType DEF CopyTarget, TypeInv
  <2> QED
    BY <2>1 DEF CopyTarget, tables, TypeInv, TablesTyped
<1>9. UNCHANGED <<lockVars, park, n8n, history, budget>>
  BY DEF CopyTarget
<1> QED
  BY <1>7, <1>8, <1>9 DEF TypeInv, RestTyped, LockTypeOK, lockVars, n8n, history

LEMMA TypeStamps ==
  ASSUME TypeInv, NEW c \in Calls, StampRow(c) \/ StampSnapshot(c)
  PROVE  TypeInv'
<1>1. /\ JobTyped(call[c]) /\ call[c] \in Job /\ call[c].touched \in Seq(Stamp) /\ call[c].touched # <<>>
      /\ call[c].number \in Nat
  BY HeldType DEF StampRow, StampSnapshot, At, Job, JobTyped
<1>2. Stamped(c) \in Stamp
  BY <1>1 DEF Stamped
<1>3. PICK e \in Envs : e = Stamped(c).env
  BY <1>2 DEF Stamp
<1>4. CASE StampRow(c)
  <2>1. rows' \in [Envs -> [content : Contents, number : Nat]]
    BY <1>1, <1>3, <1>4 DEF StampRow, TypeInv, TablesTyped
  <2>2. served' \subseteq [number : Nat, content : Contents] /\ climbing' \in BOOLEAN
    <3>1. [number |-> call[c].number, content |-> Stamped(c).content] \in [number : Nat, content : Contents]
      BY <1>1, <1>2 DEF Stamp
    <3> QED
      BY <1>4, <3>1 DEF StampRow, TypeInv, RestTyped
  <2>3. PICK job : job = [call[c] EXCEPT !.at = "snapshot"]
    OBVIOUS
  <2>4. /\ job \in Job /\ job.at = "snapshot" /\ job.asked = call[c].asked /\ job.touched = call[c].touched
    BY <1>1, <2>3 DEF Job, Labels
  <2>5. JobTyped(job)
    BY <1>1, <1>4, <2>4 DEF JobTyped, Writing, StampRow, At
  <2>6. CallsTyped'
    BY <1>4, <2>3, <2>5, StepTyped DEF StampRow, Go, TypeInv
  <2> QED
    BY <1>4, <2>1, <2>2, <2>6 DEF StampRow, TypeInv, RestTyped, TablesTyped, LockTypeOK, lockVars, n8n
<1>5. CASE StampSnapshot(c)
  <2>1. versions[e] \in Seq(Snapshot) /\ Len(versions[e]) \in Nat
    BY DEF TypeInv, TablesTyped
  <2>2. versions' \in [Envs -> Seq(Snapshot)]
    <3>1. CASE Len(versions[e]) = 0
      BY <1>3, <1>5, <3>1 DEF StampSnapshot, TypeInv, TablesTyped
    <3>2. CASE Len(versions[e]) # 0
      <4>1. PICK s : s = [versions[e] EXCEPT ![Len(versions[e])].number = call[c].number]
        OBVIOUS
      <4>2. s \in Seq(Snapshot)
        <5>1. PICK n \in Nat \ {0} : n = Len(versions[e])
          BY <2>1, <3>2
        <5>2. versions[e] \in [1..n -> Snapshot]
          BY <2>1, <5>1
        <5>3. [versions[e][n] EXCEPT !.number = call[c].number] \in Snapshot
          BY <1>1, <5>2 DEF Snapshot
        <5>4. s = [versions[e] EXCEPT ![n] = [versions[e][n] EXCEPT !.number = call[c].number]]
          BY <4>1, <5>1
        <5>5. s \in [1..n -> Snapshot]
          BY <5>2, <5>3, <5>4
        <5> QED
          BY <5>5
      <4>3. versions' = [versions EXCEPT ![e] = s]
        BY <1>3, <1>5, <3>2, <4>1 DEF StampSnapshot
      <4> QED
        BY <4>2, <4>3 DEF TypeInv, TablesTyped
    <3> QED
      BY <3>1, <3>2
  <2>3. prompt' \in BOOLEAN
    BY <1>3, <1>5 DEF StampSnapshot, TypeInv, RestTyped
  <2>4. CallsTyped'
    <3>1. CASE Tail(call[c].touched) = <<>>
      BY <1>5, <3>1, TypeEnd DEF StampSnapshot
    <3>2. CASE Tail(call[c].touched) # <<>>
      <4>1. PICK rest : rest = Tail(call[c].touched)
        OBVIOUS
      <4>2. rest \in Seq(Stamp)
        BY <1>1, <4>1
      <4>3. PICK job : job = [call[c] EXCEPT !.at = "stamp", !.touched = rest]
        OBVIOUS
      <4>4. job \in Job /\ job.at = "stamp" /\ job.asked = call[c].asked /\ job.touched = rest
        BY <1>1, <4>2, <4>3 DEF Job, Labels
      <4>5. JobTyped(job)
        BY <1>1, <1>5, <3>2, <4>1, <4>4 DEF JobTyped, Writing, StampSnapshot, At
      <4> QED
        BY <1>5, <3>2, <4>1, <4>3, <4>5, StepTyped DEF StampSnapshot, TypeInv
    <3> QED
      BY <3>1, <3>2
  <2> QED
    BY <1>5, <2>2, <2>3, <2>4 DEF StampSnapshot, TypeInv, RestTyped, TablesTyped, LockTypeOK, lockVars, n8n
<1> QED
  BY <1>4, <1>5

LEMMA TypeSnapshot ==
  ASSUME TypeInv, NEW e \in Envs, TakeSnapshot(e)
  PROVE  TypeInv'
<1>1. taking[e] \in Seq(Contents) /\ taking[e] # <<>> /\ versions[e] \in Seq(Snapshot)
  BY DEF TakeSnapshot, TypeInv, TablesTyped
<1>2. PICK s : s = Append(versions[e], [content |-> Head(taking[e]), number |-> 0])
  OBVIOUS
<1>3. s \in Seq(Snapshot)
  <2>1. [content |-> Head(taking[e]), number |-> 0] \in Snapshot
    BY <1>1 DEF Snapshot
  <2> QED
    BY <1>1, <1>2, <2>1
<1>4. PICK t : t = Tail(taking[e])
  OBVIOUS
<1>5. t \in Seq(Contents)
  BY <1>1, <1>4
<1>6. versions' = [versions EXCEPT ![e] = s] /\ taking' = [taking EXCEPT ![e] = t] /\ rows' = rows
  BY <1>2, <1>4 DEF TakeSnapshot
<1>7. TablesTyped'
  BY <1>3, <1>5, <1>6 DEF TypeInv, TablesTyped
<1>8. UNCHANGED <<lockVars, park, n8n, call, history, budget>>
  BY DEF TakeSnapshot
<1> QED
  BY <1>7, <1>8 DEF TypeInv, CallsTyped, RestTyped, LockTypeOK, lockVars, n8n, history

LEMMA TypeSync ==
  ASSUME TypeInv, NEW e \in Envs, Sync(e)
  PROVE  TypeInv'
<1>1. live[Main(e)] \in Contents
  BY Family DEF Families, TypeInv, RestTyped
<1>2. TablesTyped'
  BY <1>1, CopiedType DEF Sync, TypeInv
<1> QED
  BY <1>2 DEF Sync, TypeInv, CallsTyped, RestTyped, LockTypeOK, lockVars, n8n, history

LEMMA TypeRestart == ASSUME TypeInv, Restart PROVE TypeInv'
<1>1. CallsTyped'
  <2>1. call' = [c \in Calls |-> Idle]
    BY DEF Restart
  <2> QED
    BY <2>1, IdleTyped DEF CallsTyped, JobTyped
<1>2. TablesTyped'
  BY DEF Restart, TypeInv, TablesTyped
<1>3. budget' \in [Events -> Nat]
  BY HappensType DEF Restart, TypeInv, Events
<1> QED
  BY <1>1, <1>2, <1>3 DEF Restart, TypeInv, RestTyped, LockTypeOK, lockVars, n8n, history

LEMMA TypeTouch ==
  ASSUME TypeInv, \/ \E e \in Envs, content \in Contents : Edit(e, content)
                  \/ \E w \in Workflows : EditLock(w) \/ Archive(w)
  PROVE  TypeInv'
<1>1. \E event \in Events : Touches(event)
  BY DEF Edit, EditLock, Archive, Events
<1>2. budget' \in [Events -> Nat] /\ calm' \in BOOLEAN
  BY <1>1, HappensType DEF Touches, TypeInv, RestTyped
<1>3. UNCHANGED <<park, tables, call, pushed, served, forced, twins, alone, prompt, climbing>>
  BY <1>1 DEF Touches
<1>4. live' \in [Workflows -> Contents] /\ archived' \subseteq Workflows /\ LockTypeOK'
  <2>1. CASE \E e \in Envs, content \in Contents : Edit(e, content)
    <3>1. PICK e \in Envs, content \in Contents : Edit(e, content)
      BY <2>1
    <3>2. live' = [live EXCEPT ![Main(e)] = content] /\ UNCHANGED <<locked, journal, archived>>
      BY <3>1 DEF Edit, lockVars
    <3> QED
      BY <3>2 DEF TypeInv, RestTyped, LockTypeOK
  <2>2. CASE \E w \in Workflows : EditLock(w)
    BY <2>2 DEF EditLock, Lock, Unlock, n8n, TypeInv, RestTyped, LockTypeOK, lockVars
  <2>3. CASE \E w \in Workflows : Archive(w)
    BY <2>3 DEF Archive, TypeInv, RestTyped, LockTypeOK, lockVars
  <2> QED
    BY <2>1, <2>2, <2>3
<1> QED
  BY <1>2, <1>3, <1>4 DEF TypeInv, CallsTyped, RestTyped, TablesTyped, tables

LEMMA TypeNext == TypeInv /\ [Next]_vars => TypeInv'
<1> SUFFICES ASSUME TypeInv, [Next]_vars PROVE TypeInv'
  OBVIOUS
<1>1. ASSUME NEW c \in Calls, NEW asked \in Requests, NEW lifts \in {{}, locked}, Promote(c, asked, lifts)
      PROVE  TypeInv'
  BY <1>1, TypePromote DEF TypeInv, RestTyped, LockTypeOK
<1>2. ASSUME NEW c \in Calls, Continue(c) PROVE TypeInv'
  BY <1>2, TypePrepare, TypeJudge, TypeCheckLocks, TypePush, TypeWrite, TypeStop, TypeCopyTarget, TypeStamps
  DEF Continue
<1>3. ASSUME NEW c \in Calls, Throw(c) \/ AnswerLost(c) PROVE TypeInv'
  BY <1>3, TypeStop, TypeWrite
<1>4. CASE UNCHANGED vars
  BY <1>4 DEF vars, TypeInv, CallsTyped, RestTyped, TablesTyped, LockTypeOK, lockVars, n8n, tables, history
<1> QED
  BY <1>1, <1>2, <1>3, <1>4, TypeSnapshot, TypeSync, TypeTouch, TypeRestart DEF Next

\* The type invariant, for every value of the constants.
THEOREM TypeCorrect == Spec => []TypeOK
<1>1. Init => TypeInv
  BY TypeInit
<1>2. TypeInv /\ [Next]_vars => TypeInv'
  BY TypeNext
<1>3. TypeInv => TypeOK
  BY TypeInvImplies
<1> QED
  BY <1>1, <1>2, <1>3, PTL DEF Spec

LEMMA TypeAlways == Spec => []TypeInv
BY TypeInit, TypeNext, PTL DEF Spec

---------------------------------------------------------------------------
(* What each step makes of the promotion that takes it *)

Routed == {"legs", "lock", "leg"} \union Writing

\* What a promotion was asked, and where it goes, do not change.
Same(new, old) == new.asked = old.asked /\ new.legs = old.legs /\ new.todo = old.todo

LEMMA EndFields ==
  ASSUME CallsTyped, NEW c \in Calls, End(c)
  PROVE  call'[c].at = "idle"
BY IdleTyped, StepTyped DEF End

LEMMA PromoteFields ==
  ASSUME TypeInv, NEW c \in Calls, NEW asked \in Requests, NEW lifts \in SUBSET Workflows, Promote(c, asked, lifts)
  PROVE  /\ call'[c].at = "prepare" /\ call'[c].asked = asked /\ call'[c].todo = <<>> /\ call[c].at = "idle"
         /\ \A d \in Calls : d # c => call'[d] = call[d]
<1>1. PICK job : job = [Idle EXCEPT !.at = "prepare", !.asked = asked, !.lifts = lifts]
  OBVIOUS
<1>2. job.at = "prepare" /\ job.asked = asked /\ job.todo = <<>>
  BY <1>1 DEF Idle
<1>3. call' = [call EXCEPT ![c] = job]
  BY <1>1 DEF Promote, Step
<1> QED
  BY <1>2, <1>3 DEF Promote, At, TypeInv, CallsTyped

LEMMA PrepareFields ==
  ASSUME TypeInv, NEW c \in Calls, Prepare(c)
  PROVE  call'[c].at = "judge" /\ Same(call'[c], call[c])
<1>1. PICK job : job = [call[c] EXCEPT !.at = "judge", !.content = live[Source(c)]]
  OBVIOUS
<1>2. job.at = "judge" /\ Same(job, call[c])
  BY <1>1, HeldType DEF Same, Job
<1> QED
  BY <1>1, <1>2 DEF Prepare, Step, TypeInv, CallsTyped

LEMMA JudgeFields ==
  ASSUME TypeInv, NEW c \in Calls, Judge(c), call'[c].at # "idle"
  PROVE  /\ ~ ChainRefuses(Asked(c))
         /\ ~ Asked(c).force => ~ Blocked(Asked(c))
         /\ call'[c].asked = call[c].asked /\ call'[c].legs = Route(Asked(c))
         /\ IF Len(Route(Asked(c))) = 1
            THEN /\ call'[c].at = "lock" /\ call'[c].ids = Written(Asked(c).to)
                 /\ call'[c].todo = ToDo(Asked(c), Asked(c).to)
            ELSE call'[c].at = "legs" /\ call'[c].todo = <<>>
<1>1. PICK route : route = Route(Asked(c))
  OBVIOUS
<1>2. PICK job : job = [call[c] EXCEPT !.at = IF Len(route) = 1 THEN "lock" ELSE "legs",
                                       !.legs = route,
                                       !.number = NextNumber(Asked(c).from, call[c].content),
                                       !.todo = IF Len(route) = 1 THEN ToDo(Asked(c), Asked(c).to) ELSE <<>>,
                                       !.ids = IF Len(route) = 1 THEN Written(Asked(c).to) ELSE {}]
  OBVIOUS
<1>3. /\ job.at = (IF Len(route) = 1 THEN "lock" ELSE "legs") /\ job.asked = call[c].asked /\ job.legs = route
      /\ job.todo = (IF Len(route) = 1 THEN ToDo(Asked(c), Asked(c).to) ELSE <<>>)
      /\ job.ids = (IF Len(route) = 1 THEN Written(Asked(c).to) ELSE {})
  BY <1>2, HeldType DEF Job
<1>4. ~ End(c)
  BY EndFields DEF TypeInv
<1>5. /\ Step(c, job) /\ ~ ChainRefuses(Asked(c)) /\ (~ Asked(c).force => ~ Blocked(Asked(c)))
  BY <1>1, <1>2, <1>4 DEF Judge
<1>6. call'[c] = job
  BY <1>5 DEF Step, TypeInv, CallsTyped
<1> QED
  BY <1>1, <1>3, <1>5, <1>6

LEMMA LegsFields ==
  ASSUME TypeInv, NEW c \in Calls, Legs(c)
  PROVE  /\ call'[c].at = "lock" /\ Same(call'[c], call[c]) /\ call[c].at = "legs"
         /\ call'[c].ids = UNION {Written(call[c].legs[k]) : k \in DOMAIN call[c].legs}
<1>1. PICK ids : ids = UNION {Written(call[c].legs[k]) : k \in DOMAIN call[c].legs}
  OBVIOUS
<1>2. PICK job : job = [call[c] EXCEPT !.at = "lock", !.ids = ids]
  OBVIOUS
<1>3. job.at = "lock" /\ Same(job, call[c]) /\ job.ids = ids
  BY <1>2, HeldType DEF Same, Job
<1>4. call'[c] = job
  BY <1>1, <1>2 DEF Legs, Step, TypeInv, CallsTyped
<1> QED
  BY <1>1, <1>3, <1>4 DEF Legs, At

LEMMA CheckLocksFields ==
  ASSUME TypeInv, NEW c \in Calls, CheckLocks(c), call'[c].at # "idle"
  PROVE  /\ AssertWritable(call[c].ids, call[c].lifts) /\ Same(call'[c], call[c]) /\ call[c].at = "lock"
         /\ call'[c].at = (IF call[c].todo = <<>> THEN "leg" ELSE "push")
<1>1. PICK job : job = [call[c] EXCEPT !.at = IF call[c].todo = <<>> THEN "leg" ELSE "push", !.ids = {}, !.lifts = {}]
  OBVIOUS
<1>2. job.at = (IF call[c].todo = <<>> THEN "leg" ELSE "push") /\ Same(job, call[c])
  BY <1>1, HeldType DEF Same, Job
<1>3. ~ End(c)
  BY EndFields DEF TypeInv
<1>4. AssertWritable(call[c].ids, call[c].lifts) /\ Step(c, job)
  BY <1>1, <1>3 DEF CheckLocks
<1>5. call'[c] = job
  BY <1>4 DEF Step, TypeInv, CallsTyped
<1> QED
  BY <1>2, <1>4, <1>5 DEF CheckLocks, At

LEMMA LegFields ==
  ASSUME TypeInv, NEW c \in Calls, Leg(c)
  PROVE  /\ call'[c].at = "push" /\ call'[c].asked = call[c].asked /\ call'[c].legs = call[c].legs
         /\ call'[c].todo = ToDo(Asked(c), Here(c)) /\ call[c].at = "leg"
<1>1. PICK job : job = [call[c] EXCEPT !.at = "push", !.todo = ToDo(Asked(c), Here(c))]
  OBVIOUS
<1>2. /\ job.at = "push" /\ job.asked = call[c].asked /\ job.legs = call[c].legs
      /\ job.todo = ToDo(Asked(c), Here(c))
  BY <1>1, HeldType DEF Job
<1>3. call'[c] = job
  BY <1>1 DEF Leg, Step, TypeInv, CallsTyped
<1> QED
  BY <1>2, <1>3 DEF Leg, At

\* The caller after its sub-workflow, the next leg, or the stamps.
Onwards(new, old) ==
    /\ new.asked = old.asked
    /\ \/ new.at = "push" /\ old.todo = <<"sub", "main">> /\ new.todo = <<"main">> /\ new.legs = old.legs
       \/ new.at = "leg" /\ old.todo = <<"main">> /\ new.todo = <<>> /\ new.legs = Tail(old.legs) /\ Len(old.legs) > 1
       \/ new.at = "stamp" /\ new.todo = <<>>

LEMMA OnwardFields ==
  ASSUME NEW job, JobTyped(job), job.at \in Writing
  PROVE  Onwards(Onward(job), job)
<1>1. job \in Job /\ job.todo \in {<<"main">>, <<"sub", "main">>}
  BY DEF JobTyped
<1>2. /\ Onward(job).asked = job.asked /\ Onward(job).at \in {"push", "leg", "stamp"}
      /\ Onward(job).at = "push" => /\ job.todo = <<"sub", "main">> /\ Onward(job).todo = <<"main">>
                                     /\ Onward(job).legs = job.legs
      /\ Onward(job).at = "leg" => job.todo = <<"main">> /\ Onward(job).legs = Tail(job.legs)
  BY OnwardTyped
<1>3. Onward(job).at # "push" => Onward(job).todo = <<>>
  BY <1>1 DEF Onward, Job
<1>4. Onward(job).at = "leg" => Len(job.legs) > 1
  BY <1>1 DEF Onward, Job
<1> QED
  BY <1>2, <1>3, <1>4 DEF Onwards

\* A sub-workflow found on the target is left as it is; what is not in the way
\* of the write is read again before it.
LEMMA PushFields ==
  ASSUME TypeInv, NEW c \in Calls, Push(c), call'[c].at # "idle"
  PROVE  /\ call[c].at = "push"
         /\ \/ Onwards(call'[c], call[c]) /\ OnTarget(Target(c)) /\ Pushing(c) # "main"
            \/ /\ Same(call'[c], call[c])
               /\ call'[c].at = (IF Clashes(Pushing(c), Here(c)) THEN "move" ELSE "put")
               /\ call'[c].found = OnTarget(Target(c))
               /\ call'[c].content = live[<<Pushing(c), Asked(c).from>>]
<1>1. JobTyped(call[c]) /\ call[c] \in Job /\ call[c].at = "push"
  BY HeldType DEF Push, At
<1>2. PICK job : job = [call[c] EXCEPT !.at = IF Clashes(Pushing(c), Here(c)) THEN "move" ELSE "put",
                                       !.found = OnTarget(Target(c)), !.content = live[<<Pushing(c), Asked(c).from>>]]
  OBVIOUS
<1>3. /\ job.at = (IF Clashes(Pushing(c), Here(c)) THEN "move" ELSE "put") /\ job.found = OnTarget(Target(c))
      /\ job.content = live[<<Pushing(c), Asked(c).from>>] /\ Same(job, call[c])
  BY <1>1, <1>2 DEF Job, Same
<1>4. ~ End(c)
  BY EndFields DEF TypeInv
<1>5. \/ Step(c, Onward(call[c])) /\ OnTarget(Target(c)) /\ Pushing(c) # "main"
      \/ Step(c, job)
  BY <1>2, <1>4 DEF Push
<1>6. CASE Step(c, job)
  <2>1. call'[c] = job
    BY <1>6 DEF Step, TypeInv, CallsTyped
  <2> QED
    BY <1>1, <1>3, <2>1
<1>7. CASE Step(c, Onward(call[c])) /\ OnTarget(Target(c)) /\ Pushing(c) # "main"
  <2>1. call'[c] = Onward(call[c])
    BY <1>7 DEF Step, TypeInv, CallsTyped
  <2>2. Onwards(Onward(call[c]), call[c])
    BY <1>1, OnwardFields DEF Writing
  <2> QED
    BY <1>1, <1>7, <2>1, <2>2
<1> QED
  BY <1>5, <1>6, <1>7

LEMMA GoFields ==
  ASSUME TypeInv, NEW c \in Calls, NEW label, Go(c, label)
  PROVE  /\ call'[c].at = label /\ Same(call'[c], call[c])
         /\ call'[c].content = call[c].content /\ call'[c].found = call[c].found
<1>1. PICK job : job = [call[c] EXCEPT !.at = label]
  OBVIOUS
<1>2. job.at = label /\ Same(job, call[c]) /\ job.content = call[c].content /\ job.found = call[c].found
  BY <1>1, HeldType DEF Same, Job
<1>3. call'[c] = job
  BY <1>1 DEF Go, Step, TypeInv, CallsTyped
<1> QED
  BY <1>2, <1>3

LEMMA CopyTargetFields ==
  ASSUME TypeInv, NEW c \in Calls, CopyTarget(c)
  PROVE  call[c].at = "copy" /\ Onwards(call'[c], call[c])
<1>1. JobTyped(call[c]) /\ call[c] \in Job /\ call[c].at = "copy" /\ call[c].content \in Contents
  BY HeldType DEF CopyTarget, At, Job
<1>2. Here(c) \in Envs
  BY <1>1, WritingType DEF Writing
<1>3. PICK held : held = [call[c] EXCEPT !.touched = Append(@, [env |-> Here(c), content |-> call[c].content])]
  OBVIOUS
<1>4. JobTyped(held) /\ held.at = "copy" /\ held.asked = call[c].asked /\ Same(held, call[c])
  <2>1. PICK s : s = Append(call[c].touched, [env |-> Here(c), content |-> call[c].content])
    OBVIOUS
  <2>2. s \in Seq(Stamp)
    BY <1>1, <1>2, <2>1 DEF Job, Stamp
  <2>3. /\ held \in Job /\ held.at = "copy" /\ held.asked = call[c].asked /\ held.legs = call[c].legs
        /\ held.todo = call[c].todo
    BY <1>1, <1>3, <2>1, <2>2 DEF Job
  <2> QED
    BY <1>1, <2>3 DEF JobTyped, Writing, Same
<1>5. Onwards(Onward(held), held) /\ Onwards(Onward(call[c]), call[c])
  BY <1>1, <1>4, OnwardFields DEF Writing
<1>6. Onwards(Onward(held), call[c])
  BY <1>4, <1>5 DEF Onwards, Same
<1>7. call'[c] = Onward(held) \/ call'[c] = Onward(call[c])
  BY <1>3 DEF CopyTarget, Step, TypeInv, CallsTyped
<1> QED
  BY <1>1, <1>5, <1>6, <1>7

LEMMA StampFields ==
  ASSUME TypeInv, NEW c \in Calls, StampRow(c) \/ StampSnapshot(c), call'[c].at # "idle"
  PROVE  call'[c].at \in {"stamp", "snapshot"} /\ Same(call'[c], call[c]) /\ call[c].at \in {"stamp", "snapshot"}
<1>1. CASE StampRow(c)
  BY <1>1, GoFields DEF StampRow, At
<1>2. CASE StampSnapshot(c)
  <2>1. PICK job : job = [call[c] EXCEPT !.at = "stamp", !.touched = Tail(call[c].touched)]
    OBVIOUS
  <2>2. job.at = "stamp" /\ Same(job, call[c])
    BY <2>1, HeldType DEF Same, Job
  <2>3. ~ End(c)
    BY EndFields DEF TypeInv
  <2>4. call'[c] = job
    BY <1>2, <2>1, <2>3 DEF StampSnapshot, Step, TypeInv, CallsTyped
  <2> QED
    BY <1>2, <2>2, <2>4 DEF StampSnapshot, At
<1> QED
  BY <1>1, <1>2

\* Nobody but the promotion that takes a step changes what it holds.
LEMMA OnlyItself ==
  ASSUME CallsTyped, NEW c \in Calls, Continue(c) \/ Throw(c) \/ AnswerLost(c)
  PROVE  call[c].at # "idle" /\ \A d \in Calls : d # c => call'[d] = call[d]
<1>1. \E job : Step(c, job)
  BY DEF Continue, Throw, AnswerLost, Prepare, Judge, Legs, CheckLocks, Leg, Push, Move, Put, PutRefused, CopyTarget,
         StampRow, StampSnapshot, End, Go
<1>2. call[c].at # "idle"
  BY DEF Continue, Throw, AnswerLost, Prepare, Judge, Legs, CheckLocks, Leg, Push, Move, Put, PutRefused, CopyTarget,
         StampRow, StampSnapshot, At
<1> QED
  BY <1>1, <1>2 DEF Step, CallsTyped

---------------------------------------------------------------------------
(* No promotion leaves two copies of a workflow side by side *)

\* A promotion that is to create a workflow does not find it there: it looked,
\* and nobody else creates one.
Fresh(c) == call[c].at \in {"move", "put"} /\ ~ call[c].found => live[Target(c)] = 0

OneInv ==
    alone =>
        /\ twins = {}
        /\ \A c, d \in Calls : call[c].at # "idle" /\ call[d].at # "idle" => c = d
        /\ \A c \in Calls : Fresh(c)

LEMMA OneInit == Init => OneInv
<1> SUFFICES ASSUME Init PROVE OneInv
  OBVIOUS
<1>1. \A c \in Calls : call[c].at = "idle"
  BY IdleTyped DEF Init
<1> QED
  BY <1>1 DEF Init, OneInv, Fresh

\* Only a push makes a promotion ready to write.
LEMMA ReadyFields ==
  ASSUME TypeInv, NEW c \in Calls, Continue(c), call'[c].at \in {"move", "put"}
  PROVE  Push(c) \/ Move(c)
<1>1. ~ Prepare(c)
  BY PrepareFields
<1>2. ~ Judge(c)
  BY JudgeFields
<1>3. ~ Legs(c)
  BY LegsFields
<1>4. ~ CheckLocks(c)
  BY CheckLocksFields
<1>5. ~ Leg(c)
  BY LegFields
<1>6. ~ Put(c)
  BY GoFields DEF Put
<1>7. ~ PutRefused(c)
  BY EndFields DEF PutRefused, TypeInv
<1>8. ~ CopyTarget(c)
  BY CopyTargetFields DEF Onwards
<1>9. ~ StampRow(c) /\ ~ StampSnapshot(c)
  BY StampFields
<1> QED
  BY <1>1, <1>2, <1>3, <1>4, <1>5, <1>6, <1>7, <1>8, <1>9 DEF Continue

\* Only three steps write in n8n.
LEMMA QuietSteps ==
  ASSUME NEW c \in Calls, Continue(c), ~ Move(c), ~ Put(c)
  PROVE  UNCHANGED <<live, archived, twins, forced, pushed, calm>>
BY DEF Continue, Prepare, Judge, Legs, CheckLocks, Leg, Push, PutRefused, CopyTarget, StampRow, StampSnapshot, n8n, history

LEMMA WriteOnce ==
  ASSUME TypeInv, OneInv, alone, NEW c \in Calls, At(c, "put"), Write(c)
  PROVE  twins' = twins
<1>1. CASE call[c].found
  BY <1>1 DEF Write, Overwritten
<1>2. CASE ~ call[c].found
  <2>1. live[Target(c)] = 0
    BY <1>2 DEF OneInv, Fresh, At
  <2> QED
    BY <1>2, <2>1 DEF Write, Created
<1> QED
  BY <1>1, <1>2

LEMMA MoveApart ==
  ASSUME TypeInv, NEW c \in Calls, At(c, "move"), MoveHolder(c)
  PROVE  /\ live' = [live EXCEPT ![Holder(Here(c))] = Moved] /\ twins' = twins /\ pushed' = pushed /\ calm' = calm
         /\ archived' = archived /\ live'[Target(c)] = live[Target(c)] /\ Holder(Here(c)) \in Workflows
<1>1. Here(c) \in Envs /\ Pushing(c) \in {"main", "sub"} /\ Target(c) \in Workflows /\ Holder(Here(c)) \in Workflows
  BY WritingType DEF At, Writing
<1>2. Target(c) # Holder(Here(c))
  BY <1>1 DEF Target, Holder
<1>3. live' = [live EXCEPT ![Holder(Here(c))] = Moved] /\ twins' = twins /\ archived' = archived
  BY DEF MoveHolder, Overwritten
<1> QED
  BY <1>1, <1>2, <1>3 DEF MoveHolder, TypeInv, RestTyped

LEMMA OneNext == TypeInv /\ OneInv /\ [Next]_vars => OneInv'
<1> SUFFICES ASSUME TypeInv, OneInv, [Next]_vars, alone' PROVE OneInv'
  BY DEF OneInv
<1> USE DEF OneInv
<1>1. ASSUME NEW c \in Calls, NEW asked \in Requests, NEW lifts \in SUBSET Workflows, Promote(c, asked, lifts)
      PROVE  OneInv'
  <2>1. alone /\ (\A d \in Calls : d # c => call[d].at = "idle") /\ live' = live /\ twins' = twins
    BY <1>1 DEF Promote, Alone, At, n8n
  <2>2. call'[c].at = "prepare" /\ \A d \in Calls : d # c => call'[d].at = "idle"
    BY <1>1, <2>1, PromoteFields
  <2> QED
    BY <2>1, <2>2 DEF Fresh
<1>2. ASSUME NEW c \in Calls, Continue(c) \/ Throw(c) \/ AnswerLost(c)
      PROVE  OneInv'
  <2>1. alone
    BY <1>2 DEF Continue, Throw, AnswerLost, Prepare, Judge, Legs, CheckLocks, Leg, Push, Move, Put, PutRefused,
                CopyTarget, StampRow, StampSnapshot, Undisturbed, history
  <2>2. \A d \in Calls : d # c => call'[d].at = "idle"
    BY <1>2, <2>1, OnlyItself DEF TypeInv
  <2>3. twins' = twins
    <3>1. CASE Move(c) \/ (At(c, "move") /\ MoveHolder(c))
      BY <3>1, MoveApart DEF Move
    <3>2. CASE At(c, "put") /\ Write(c)
      BY <2>1, <3>2, WriteOnce
    <3> QED
      BY <1>2, <3>1, <3>2, QuietSteps DEF Put, Throw, AnswerLost, history
  <2>4. Fresh(c)'
    <3> SUFFICES ASSUME call'[c].at \in {"move", "put"}, ~ call'[c].found
                 PROVE  live'[<<Head(call'[c].todo), Head(call'[c].legs)>>] = 0
      BY DEF Fresh, Target, Pushing, Here
    <3>1. Continue(c)
      BY <1>2, EndFields DEF Throw, AnswerLost, TypeInv
    <3>2. CASE Push(c)
      <4>1. Same(call'[c], call[c]) /\ call'[c].found = OnTarget(Target(c)) /\ live' = live
        BY <3>2, PushFields DEF Onwards, Push, n8n
      <4>2. live[Target(c)] = 0
        BY <4>1 DEF OnTarget
      <4> QED
        BY <4>1, <4>2 DEF Same, Target, Pushing, Here
    <3>3. CASE Move(c)
      <4>1. Same(call'[c], call[c]) /\ call'[c].found = call[c].found
        BY <3>3, GoFields DEF Move
      <4>2. live'[Target(c)] = live[Target(c)] /\ live[Target(c)] = 0
        BY <2>1, <3>3, <4>1, MoveApart DEF Move, Fresh, At
      <4> QED
        BY <4>1, <4>2 DEF Same, Target, Pushing, Here
    <3> QED
      BY <3>1, <3>2, <3>3, ReadyFields
  <2>5. ASSUME NEW d \in Calls PROVE Fresh(d)'
    <3>1. CASE d = c
      BY <2>4, <3>1
    <3>2. CASE d # c
      BY <2>2, <3>2 DEF Fresh
    <3> QED
      BY <3>1, <3>2
  <2>6. \A d, e \in Calls : call'[d].at # "idle" /\ call'[e].at # "idle" => d = e
    BY <2>2
  <2>7. twins' = {}
    BY <2>1, <2>3
  <2> QED
    BY <2>5, <2>6, <2>7
<1>3. ASSUME UNCHANGED <<call, alone, twins>>, \A w \in Workflows : live[w] = 0 => live'[w] = 0
      PROVE  OneInv'
  <2>1. ASSUME NEW c \in Calls PROVE Fresh(c)'
    <3>1. CASE call[c].at \in {"move", "put"}
      <4>1. Target(c) \in Workflows /\ Target(c)' = Target(c)
        BY <1>3, <3>1, WritingType DEF Writing, Target, Pushing, Here
      <4> QED
        BY <1>3, <4>1 DEF Fresh
    <3> QED
      BY <1>3, <3>1 DEF Fresh
  <2> QED
    BY <1>3, <2>1
<1>4. CASE Restart
  BY <1>4, IdleTyped DEF Restart, history, Fresh
<1>5. CASE \E e \in Envs, content \in Contents : Edit(e, content)
  <2>1. PICK e \in Envs, content \in Contents : Edit(e, content)
    BY <1>5
  <2>2. live' = [live EXCEPT ![Main(e)] = content] /\ live[Main(e)] # 0 /\ UNCHANGED <<call, alone, twins>>
    BY <2>1 DEF Edit, Touches
  <2>3. \A w \in Workflows : live[w] = 0 => live'[w] = 0
    BY <2>2 DEF TypeInv, RestTyped
  <2> QED
    BY <1>3, <2>2, <2>3
<1>6. CASE \E w \in Workflows : EditLock(w) \/ Archive(w)
  BY <1>3, <1>6 DEF EditLock, Archive, Touches, n8n
<1>7. CASE \E e \in Envs : TakeSnapshot(e) \/ Sync(e)
  BY <1>3, <1>7 DEF TakeSnapshot, Sync, n8n, history
<1>8. CASE UNCHANGED vars
  BY <1>3, <1>8 DEF vars, n8n, history
<1>9. {} \in SUBSET Workflows /\ locked \in SUBSET Workflows
  BY DEF TypeInv, RestTyped, LockTypeOK
<1> QED
  BY <1>1, <1>2, <1>4, <1>5, <1>6, <1>7, <1>8, <1>9 DEF Next

\* However many copies a promotion writes, and whatever answers are lost, none
\* stands beside a homonym as long as promotions do not overlap.
THEOREM NoTwins == Spec => []OneCopyEach
<1>1. Init => OneInv
  BY OneInit
<1>2. TypeInv /\ OneInv /\ [Next]_vars => OneInv'
  BY OneNext
<1>3. OneInv => OneCopyEach
  BY DEF OneInv, OneCopyEach
<1> QED
  BY <1>1, <1>2, <1>3, TypeAlways, PTL DEF Spec

---------------------------------------------------------------------------
(* A workflow that exists is never lost *)

\* What a promotion takes is there, where it goes is not where it comes from.
Held(c) ==
    LET job == call[c] IN
    job.at # "idle" =>
        /\ job.asked \in Requests
        /\ rows[job.asked.from].content # 0
        /\ job.at \in Routed => \A k \in DOMAIN job.legs : job.legs[k] # job.asked.from
        /\ job.todo = <<"sub", "main">> => live[Sub(job.asked.from)] # 0
        /\ job.at \in {"move", "put"} => job.content # 0
        /\ job.at = "copy" => live[Target(c)] # 0

LiveInv ==
    /\ \A e \in Envs : rows[e].content # 0 => live[Main(e)] # 0
    /\ \A w \in locked : live[w] # 0 /\ Known(w)
    /\ park.calls => \A asked \in Requests : live[Sub(asked.from)] # 0
    /\ \A c \in Calls : Held(c)

LEMMA LiveInit == Init => LiveInv
<1> SUFFICES ASSUME Init PROVE LiveInv
  OBVIOUS
<1>1. \A c \in Calls : call[c].at = "idle"
  BY IdleTyped DEF Init
<1>2. \A e \in Envs : rows[e].content = live[Main(e)]
  BY DEF Init
<1>3. ASSUME NEW w \in locked PROVE live[w] # 0 /\ Known(w)
  <2>1. live[w] # 0 /\ w \in Families \X Envs
    BY ParksAssumption, ConstantsAssumption DEF Init, Park
  <2>2. PICK f \in Families, e \in Envs : w = <<f, e>>
    BY <2>1
  <2> QED
    BY <1>2, <2>1, <2>2 DEF Known, Main
<1>4. park.calls => \A asked \in Requests : live[Sub(asked.from)] # 0
  BY ParksAssumption DEF Init
<1> QED
  BY <1>1, <1>2, <1>3, <1>4 DEF LiveInv, Held

\* Where a promotion in progress is going.
LEMMA HeldFacts ==
  ASSUME TypeInv, LiveInv, NEW c \in Calls, call[c].at # "idle"
  PROVE  /\ Asked(c) \in Requests /\ Asked(c).from \in Envs
         /\ rows[Asked(c).from].content # 0 /\ live[Source(c)] # 0
         /\ call[c].at \in Writing => Here(c) # Asked(c).from /\ Target(c) # Source(c)
         /\ call[c].at \in Writing => live[<<Pushing(c), Asked(c).from>>] # 0
<1>1. Held(c) /\ Asked(c) = call[c].asked /\ JobTyped(call[c]) /\ call[c] \in Job /\ Asked(c).from \in Envs
  BY HeldType DEF LiveInv, Asked
<1>2. Asked(c) \in Requests /\ rows[Asked(c).from].content # 0
  BY <1>1 DEF Held
<1>3. live[Source(c)] # 0
  BY <1>1, <1>2 DEF LiveInv, Source
<1>4. ASSUME call[c].at \in Writing
      PROVE  /\ Here(c) # Asked(c).from /\ Target(c) # Source(c)
             /\ live[<<Pushing(c), Asked(c).from>>] # 0
  <2>1. call[c].legs \in Seq(Envs) /\ call[c].legs # <<>> /\ call[c].todo \in {<<"main">>, <<"sub", "main">>}
    BY <1>1, <1>4 DEF JobTyped, Job
  <2>2. 1 \in DOMAIN call[c].legs /\ Here(c) = call[c].legs[1]
    BY <2>1 DEF Here
  <2>3. Here(c) # Asked(c).from
    BY <1>1, <1>4, <2>2 DEF Held, Routed
  <2>4. Target(c) # Source(c)
    BY <2>3 DEF Target, Source, Main
  <2>5. CASE call[c].todo = <<"main">>
    <3>1. Pushing(c) = "main"
      BY <2>5, Tuples DEF Pushing
    <3>2. Source(c) = <<Pushing(c), Asked(c).from>>
      BY <3>1 DEF Source, Main
    <3> QED
      BY <1>3, <2>3, <2>4, <3>2
  <2>6. CASE call[c].todo = <<"sub", "main">>
    <3>1. Pushing(c) = "sub"
      BY <2>6, Tuples DEF Pushing
    <3>2. Sub(Asked(c).from) = <<Pushing(c), Asked(c).from>>
      BY <3>1 DEF Sub
    <3>3. live[Sub(Asked(c).from)] # 0
      BY <1>1, <1>4, <2>6 DEF Held, Writing
    <3> QED
      BY <2>3, <2>4, <3>2, <3>3
  <2> QED
    BY <2>1, <2>3, <2>4, <2>5, <2>6
<1> QED
  BY <1>1, <1>2, <1>3, <1>4

\* What happens to the contents: nobody takes one away.
LEMMA WriteGrows ==
  ASSUME TypeInv, LiveInv, NEW c \in Calls, At(c, "put"), Write(c)
  PROVE  live' = [live EXCEPT ![Target(c)] = call[c].content] /\ call[c].content # 0 /\ Target(c) \in Workflows
<1>1. Target(c) \in Workflows
  BY WritingType DEF At, Writing
<1>2. call[c].content # 0
  BY DEF LiveInv, Held, At
<1> QED
  BY <1>1, <1>2 DEF Write, Overwritten, Created

LEMMA LiveGrows ==
  ASSUME TypeInv, LiveInv, [Next]_vars
  PROVE  \A w \in Workflows : live[w] # 0 => live'[w] # 0
<1>1. ASSUME NEW w, NEW content, live' = [live EXCEPT ![w] = content], content # 0
      PROVE  \A v \in Workflows : live[v] # 0 => live'[v] # 0
  BY <1>1 DEF TypeInv, RestTyped
<1>2. ASSUME NEW c \in Calls, Move(c) \/ Put(c) \/ AnswerLost(c)
      PROVE  \A v \in Workflows : live[v] # 0 => live'[v] # 0
  <2>1. CASE At(c, "put") /\ Write(c)
    BY <1>1, <2>1, WriteGrows
  <2>2. CASE At(c, "move") /\ MoveHolder(c)
    BY <1>1, <2>2, MoveApart DEF Moved
  <2> QED
    BY <1>2, <2>1, <2>2 DEF Move, Put, AnswerLost
<1>3. ASSUME NEW e \in Envs, NEW content \in Contents, Edit(e, content)
      PROVE  \A v \in Workflows : live[v] # 0 => live'[v] # 0
  BY <1>1, <1>3 DEF Edit
<1>4. ASSUME NEW c \in Calls, Continue(c), ~ Move(c), ~ Put(c)
      PROVE  live' = live
  BY <1>4, QuietSteps
<1>5. ASSUME \/ \E c \in Calls, asked \in Requests, lifts \in {{}, locked} : Promote(c, asked, lifts)
             \/ \E c \in Calls : Throw(c)
             \/ \E e \in Envs : TakeSnapshot(e) \/ Sync(e)
             \/ \E w \in Workflows : EditLock(w) \/ Archive(w)
             \/ Restart \/ UNCHANGED vars
      PROVE  live' = live
  BY <1>5 DEF Promote, Throw, TakeSnapshot, Sync, EditLock, Archive, Restart, n8n, vars
<1> QED
  BY <1>2, <1>3, <1>4, <1>5 DEF Next

\* The console follows n8n: a copy it knows stays known.
LEMMA CopiedKnown ==
  ASSUME TypeInv, LiveInv, NEW e \in Envs, Copied(e, live[Main(e)]), live' = live
  PROVE  \A f \in Envs : /\ rows[f].content # 0 => rows'[f].content # 0
                         /\ rows'[f].content # 0 => live'[Main(f)] # 0
BY DEF TypeInv, TablesTyped, LiveInv, Copied

LEMMA RowsFollow ==
  ASSUME TypeInv, LiveInv, [Next]_vars
  PROVE  \A f \in Envs : /\ rows[f].content # 0 => rows'[f].content # 0
                         /\ rows'[f].content # 0 => live'[Main(f)] # 0
<1>1. ASSUME NEW c \in Calls, Refreshed(c), live' = live
      PROVE  \A f \in Envs : /\ rows[f].content # 0 => rows'[f].content # 0
                             /\ rows'[f].content # 0 => live'[Main(f)] # 0
  BY <1>1, HeldType, CopiedKnown DEF Refreshed, Source
<1>2. ASSUME rows' = rows
      PROVE  \A f \in Envs : /\ rows[f].content # 0 => rows'[f].content # 0
                             /\ rows'[f].content # 0 => live'[Main(f)] # 0
  <2>1. \A f \in Envs : live[Main(f)] # 0 => live'[Main(f)] # 0
    BY LiveGrows, Family DEF Families
  <2> QED
    BY <1>2, <2>1 DEF LiveInv
<1>3. ASSUME NEW c \in Calls, Continue(c)
      PROVE  \A f \in Envs : /\ rows[f].content # 0 => rows'[f].content # 0
                             /\ rows'[f].content # 0 => live'[Main(f)] # 0
  <2>1. CASE Prepare(c) \/ Legs(c) \/ Leg(c) \/ Push(c)
    BY <1>1, <1>2, <2>1 DEF Prepare, Legs, Leg, Push, n8n, tables
  <2>2. CASE CopyTarget(c)
    <3>1. CASE Pushing(c) = "main"
      <4>1. Here(c) \in Envs /\ Target(c) = Main(Here(c))
        BY <2>2, <3>1, WritingType DEF CopyTarget, At, Writing, Main
      <4> QED
        BY <2>2, <3>1, <4>1, CopiedKnown DEF CopyTarget, n8n
    <3> QED
      BY <1>2, <2>2, <3>1 DEF CopyTarget, tables
  <2>3. CASE StampRow(c)
    <3>1. rows' = [rows EXCEPT ![Stamped(c).env].number = call[c].number] /\ live' = live
      BY <2>3 DEF StampRow, n8n
    <3>2. \A f \in Envs : rows'[f].content = rows[f].content
      BY <3>1 DEF TypeInv, TablesTyped
    <3> QED
      BY <3>1, <3>2 DEF LiveInv
  <2>4. CASE Judge(c) \/ CheckLocks(c) \/ Move(c) \/ Put(c) \/ PutRefused(c) \/ StampSnapshot(c)
    BY <1>2, <2>4 DEF Judge, CheckLocks, Move, Put, PutRefused, StampSnapshot, Undisturbed, tables
  <2> QED
    BY <1>3, <2>1, <2>2, <2>3, <2>4 DEF Continue
<1>4. ASSUME NEW e \in Envs, Sync(e)
      PROVE  \A f \in Envs : /\ rows[f].content # 0 => rows'[f].content # 0
                             /\ rows'[f].content # 0 => live'[Main(f)] # 0
  BY <1>4, CopiedKnown DEF Sync, n8n
<1>5. ASSUME \/ \E c \in Calls, asked \in Requests, lifts \in {{}, locked} : Promote(c, asked, lifts)
             \/ \E c \in Calls : Throw(c) \/ AnswerLost(c)
             \/ \E e \in Envs : TakeSnapshot(e) \/ \E content \in Contents : Edit(e, content)
             \/ \E w \in Workflows : EditLock(w) \/ Archive(w)
             \/ Restart \/ UNCHANGED vars
      PROVE  rows' = rows
  BY <1>5 DEF Promote, Throw, AnswerLost, Undisturbed, TakeSnapshot, Edit, EditLock, Archive, Touches, Restart, tables, vars
<1> QED
  BY <1>2, <1>3, <1>4, <1>5 DEF Next

LEMMA HeldKept ==
  ASSUME TypeInv, LiveInv, [Next]_vars, NEW d \in Calls, call'[d] = call[d]
  PROVE  Held(d)'
<1> SUFFICES ASSUME call[d].at # "idle" PROVE Held(d)'
  BY DEF Held
<1>1. Held(d) /\ call[d] \in Job /\ Asked(d) = call[d].asked /\ Asked(d).from \in Envs
  BY HeldType DEF LiveInv, Asked
<1>2. call[d].asked \in Requests /\ rows'[call[d].asked.from].content # 0
  BY <1>1, RowsFollow DEF Held
<1>3. call[d].todo = <<"sub", "main">> => live'[Sub(call[d].asked.from)] # 0
  BY <1>1, LiveGrows, Family DEF Held, Families
<1>4. call[d].at = "copy" => live'[Target(d)] # 0 /\ Target(d)' = Target(d)
  <2>1. Target(d)' = Target(d)
    BY DEF Target, Pushing, Here
  <2>2. call[d].at = "copy" => Target(d) \in Workflows
    BY WritingType DEF Writing
  <2> QED
    BY <1>1, <2>1, <2>2, LiveGrows DEF Held
<1> QED
  BY <1>1, <1>2, <1>3, <1>4 DEF Held

\* The route never comes back to where it started.
LEMMA RouteLeaves ==
  ASSUME NEW asked \in Request, asked.from # asked.to
  PROVE  \A k \in DOMAIN Route(asked) : Route(asked)[k] # asked.from
<1>1. asked.from \in Nat /\ asked.to \in Nat
  BY SomeEnv DEF Request
<1>2. CASE asked.through /\ Skipped(asked) # {}
  <2>1. \A k \in 1..Len(Route(asked)) : Route(asked)[k] = asked.from + k
    BY <1>2, RouteShape
  <2>2. DOMAIN Route(asked) = 1..Len(Route(asked))
    BY RouteShape
  <2> QED
    BY <1>1, <2>1, <2>2
<1>3. CASE ~ (asked.through /\ Skipped(asked) # {})
  <2>1. Route(asked) = <<asked.to>>
    BY <1>3, RouteShape
  <2> QED
    BY <2>1
<1> QED
  BY <1>2, <1>3

\* The legs left to go are legs of the route.
LEMMA LegsLeft ==
  ASSUME NEW job \in Job, NEW new, Onwards(new, job), new.at # "stamp", NEW k \in DOMAIN new.legs
  PROVE  \E l \in DOMAIN job.legs : new.legs[k] = job.legs[l]
<1>1. CASE new.legs = job.legs
  BY <1>1
<1>2. CASE new.legs = Tail(job.legs) /\ Len(job.legs) > 1
  <2>1. job.legs \in Seq(Envs)
    BY DEF Job
  <2>2. /\ Tail(job.legs) \in Seq(Envs) /\ Len(Tail(job.legs)) = Len(job.legs) - 1
        /\ \A l \in 1..Len(Tail(job.legs)) : Tail(job.legs)[l] = job.legs[l + 1]
    BY <1>2, <2>1, Tails
  <2>3. k \in 1..Len(Tail(job.legs))
    BY <1>2, <2>2
  <2>4. k + 1 \in DOMAIN job.legs
    BY <2>1, <2>2, <2>3
  <2> QED
    BY <1>2, <2>2, <2>3, <2>4
<1> QED
  BY <1>1, <1>2 DEF Onwards

LEMMA HeldNext ==
  ASSUME TypeInv, LiveInv, [Next]_vars, NEW c \in Calls, Continue(c)
  PROVE  Held(c)'
<1> SUFFICES ASSUME call'[c].at # "idle" PROVE Held(c)'
  BY DEF Held
<1>1. /\ Held(c) /\ JobTyped(call[c]) /\ call[c] \in Job /\ call[c].at # "idle" /\ Asked(c) = call[c].asked
      /\ Asked(c) \in Request /\ Asked(c).from # Asked(c).to
  BY HeldType, OnlyItself DEF LiveInv, Asked, TypeInv, JobTyped
<1>2. /\ call[c].asked \in Requests /\ rows'[call[c].asked.from].content # 0 /\ live[Source(c)] # 0
      /\ call[c].asked.from \in Envs
      /\ live[Sub(call[c].asked.from)] # 0 => live'[Sub(call[c].asked.from)] # 0
  <2>1. call[c].asked \in Requests /\ call[c].asked.from \in Envs /\ rows[call[c].asked.from].content # 0
    BY <1>1, HeldFacts
  <2>2. live[Source(c)] # 0
    BY <1>1, HeldFacts
  <2>3. Sub(call[c].asked.from) \in Workflows
    BY <2>1, Family DEF Families
  <2> QED
    BY <2>1, <2>2, <2>3, RowsFollow, LiveGrows
<1> DEFINE new == call'[c]
           old == call[c]
<1>3. ASSUME Same(new, old), new.at \in Routed => old.at \in Routed,
             new.at \in {"move", "put"} => new.content # 0,
             new.at = "copy" => live'[<<Head(old.todo), Head(old.legs)>>] # 0
      PROVE  Held(c)'
  BY <1>1, <1>2, <1>3 DEF Held, Same, Target, Pushing, Here
<1>4. ASSUME Onwards(new, old), old.at \in Writing
      PROVE  Held(c)'
  <2>1. new.at \in Routed => \A k \in DOMAIN new.legs : new.legs[k] # old.asked.from
    BY <1>1, <1>4, LegsLeft DEF Held, Routed, Writing
  <2>2. new.asked = old.asked /\ new.todo # <<"sub", "main">> /\ new.at \in {"push", "leg", "stamp"}
    BY <1>4 DEF Onwards
  <2> QED
    BY <1>2, <2>1, <2>2 DEF Held
<1>5. CASE Prepare(c)
  BY <1>3, <1>5, PrepareFields DEF Routed, Writing
<1>6. CASE Legs(c)
  BY <1>3, <1>6, LegsFields DEF Routed, Writing
<1>7. CASE CheckLocks(c)
  BY <1>3, <1>7, CheckLocksFields DEF Routed, Writing
<1>8. CASE StampRow(c) \/ StampSnapshot(c)
  BY <1>3, <1>8, StampFields DEF Routed, Writing
<1>9. CASE PutRefused(c)
  BY <1>9, EndFields DEF PutRefused, TypeInv
<1>10. CASE CopyTarget(c)
  BY <1>4, <1>10, CopyTargetFields DEF Writing
<1>11. CASE Move(c)
  BY <1>1, <1>3, <1>11, GoFields DEF Move, At, Held, Routed, Writing
<1>12. CASE Put(c)
  <2>1. live' = [live EXCEPT ![Target(c)] = call[c].content] /\ call[c].content # 0 /\ Target(c) \in Workflows
    BY <1>12, WriteGrows DEF Put
  <2>2. live'[Target(c)] # 0
    BY <2>1 DEF TypeInv, RestTyped
  <2>3. new.at = "copy" /\ Same(new, old) /\ old.at = "put"
    BY <1>12, GoFields DEF Put, At
  <2> QED
    BY <1>3, <2>2, <2>3 DEF Target, Pushing, Here, Routed, Writing
<1>13. CASE Push(c)
  <2>1. CASE Onwards(new, old)
    BY <1>4, <1>13, <2>1 DEF Push, At, Writing
  <2>2. CASE ~ Onwards(new, old)
    <3>1. /\ Same(new, old) /\ new.at \in {"move", "put"} /\ old.at = "push"
          /\ new.content = live[<<Pushing(c), Asked(c).from>>]
      BY <1>13, <2>2, PushFields
    <3>2. new.content # 0
      BY <1>1, <3>1, HeldFacts DEF Writing
    <3> QED
      BY <1>3, <3>1, <3>2 DEF Routed, Writing
  <2> QED
    BY <2>1, <2>2
<1>14. CASE Leg(c)
  <2>1. /\ new.at = "push" /\ new.asked = old.asked /\ new.legs = old.legs
        /\ new.todo = ToDo(Asked(c), Here(c)) /\ old.at = "leg"
    BY <1>14, LegFields
  <2>2. new.todo = <<"sub", "main">> => live[Sub(old.asked.from)] # 0
    BY <1>1, <2>1, Tuples DEF ToDo, Cascades
  <2> QED
    BY <1>1, <1>2, <2>1, <2>2 DEF Held, Routed, Writing
<1>15. CASE Judge(c)
  <2>1. /\ new.at \in {"lock", "legs"} /\ new.asked = old.asked /\ new.legs = Route(Asked(c))
        /\ new.todo \in {<<>>, ToDo(Asked(c), Asked(c).to)}
    BY <1>15, JudgeFields
  <2>2. new.todo = <<"sub", "main">> => live[Sub(old.asked.from)] # 0
    BY <1>1, <2>1, Tuples DEF ToDo, Cascades
  <2>3. \A k \in DOMAIN new.legs : new.legs[k] # old.asked.from
    BY <1>1, <2>1, RouteLeaves
  <2> QED
    BY <1>2, <2>1, <2>2, <2>3 DEF Held
<1> QED
  BY <1>5, <1>6, <1>7, <1>8, <1>9, <1>10, <1>11, <1>12, <1>13, <1>14, <1>15 DEF Continue

LEMMA LocksExist ==
  ASSUME TypeInv, LiveInv, [Next]_vars, NEW w \in locked'
  PROVE  live'[w] # 0 /\ Known(w)'
<1>1. w \in locked => w \in Workflows /\ live[w] # 0 /\ Known(w)
  BY DEF LiveInv, TypeInv, RestTyped, LockTypeOK
<1>2. w \notin locked => w \in Workflows /\ live[w] # 0 /\ Known(w)
  <2>1. w \notin locked => \E v \in Workflows : EditLock(v)
    BY DEF Next, Promote, Continue, Throw, AnswerLost, Undisturbed, Prepare, Judge, Legs, CheckLocks, AssertWritable, Refused,
           Leg, Push, Move, Put, PutRefused, CopyTarget, StampRow, StampSnapshot, TakeSnapshot, Sync, Edit, Archive, Restart,
           lockVars, vars
  <2> QED
    BY <2>1 DEF EditLock, Lock, Unlock
<1>3. w \in Workflows /\ live[w] # 0 /\ Known(w)
  BY <1>1, <1>2
<1>4. w[1] = "main" => w[2] \in Envs
  BY <1>3, ConstantsAssumption
<1>5. Known(w)'
  BY <1>3, <1>4, RowsFollow DEF Known
<1> QED
  BY <1>3, <1>5, LiveGrows

\* What does not change.
LEMMA ParkKept == [Next]_vars => park' = park
BY DEF Next, Promote, Continue, Throw, AnswerLost, Undisturbed, Prepare, Judge, Legs, CheckLocks, Leg, Push, Move, Put,
       PutRefused, CopyTarget, StampRow, StampSnapshot, TakeSnapshot, Sync, Edit, EditLock, Archive, Touches, Restart, vars

\* A promotion changes because it starts, takes a step or ends.
LEMMA WhoSteps ==
  ASSUME TypeInv, [Next]_vars, NEW d \in Calls
  PROVE  \/ call'[d] = call[d] \/ call'[d].at = "idle" \/ Continue(d)
         \/ \E asked \in Requests, lifts \in {{}, locked} : Promote(d, asked, lifts)
<1>1. ASSUME NEW c \in Calls, Continue(c) \/ Throw(c) \/ AnswerLost(c)
      PROVE  call'[d] = call[d] \/ call'[d].at = "idle" \/ Continue(d)
  BY <1>1, OnlyItself, EndFields DEF Throw, AnswerLost, TypeInv
<1>2. ASSUME NEW c \in Calls, NEW asked \in Requests, NEW lifts \in {{}, locked}, Promote(c, asked, lifts)
      PROVE  call'[d] = call[d] \/ c = d
  BY <1>2, PromoteFields DEF TypeInv, RestTyped, LockTypeOK
<1>3. Restart => call'[d].at = "idle"
  BY IdleTyped DEF Restart
<1>4. ASSUME \/ \E e \in Envs : TakeSnapshot(e) \/ Sync(e) \/ \E content \in Contents : Edit(e, content)
             \/ \E w \in Workflows : EditLock(w) \/ Archive(w)
             \/ UNCHANGED vars
      PROVE  call' = call
  BY <1>4 DEF TakeSnapshot, Sync, Edit, EditLock, Archive, Touches, vars
<1> QED
  BY <1>1, <1>2, <1>3, <1>4 DEF Next

LEMMA LiveNext == TypeInv /\ LiveInv /\ [Next]_vars => LiveInv'
<1> SUFFICES ASSUME TypeInv, LiveInv, [Next]_vars PROVE LiveInv'
  OBVIOUS
<1>1. \A e \in Envs : rows'[e].content # 0 => live'[Main(e)] # 0
  BY RowsFollow
<1>2. \A w \in locked' : live'[w] # 0 /\ Known(w)'
  BY LocksExist
<1>3. park' = park
  BY ParkKept
<1>4. park'.calls => \A asked \in Requests : live'[Sub(asked.from)] # 0
  <2>1. \A asked \in Requests : Sub(asked.from) \in Workflows
    BY ConstantsAssumption, Family DEF Request, Families
  <2> QED
    BY <1>3, <2>1, LiveGrows DEF LiveInv
<1>5. ASSUME NEW d \in Calls PROVE Held(d)'
  <2>1. CASE call'[d] = call[d]
    BY <2>1, HeldKept
  <2>2. CASE Continue(d)
    BY <2>2, HeldNext
  <2>3. CASE call'[d].at = "idle"
    BY <2>3 DEF Held
  <2>4. CASE \E asked \in Requests, lifts \in {{}, locked} : Promote(d, asked, lifts)
    <3>1. PICK asked \in Requests, lifts \in SUBSET Workflows : Promote(d, asked, lifts)
      BY <2>4 DEF TypeInv, RestTyped, LockTypeOK
    <3>2. call'[d].at = "prepare" /\ call'[d].asked = asked /\ call'[d].todo = <<>> /\ asked.from \in Envs
      BY <3>1, PromoteFields, ConstantsAssumption DEF Request
    <3>3. rows'[asked.from].content # 0
      BY <3>1, <3>2, RowsFollow DEF Promote, Known, Main
    <3> QED
      BY <3>2, <3>3 DEF Held, Routed, Writing
  <2>5. \/ call'[d] = call[d] \/ call'[d].at = "idle" \/ Continue(d)
        \/ \E asked \in Requests, lifts \in {{}, locked} : Promote(d, asked, lifts)
    BY WhoSteps
  <2> QED
    BY <2>1, <2>2, <2>3, <2>4, <2>5
<1> QED
  BY <1>1, <1>2, <1>4, <1>5 DEF LiveInv

---------------------------------------------------------------------------
(* A caller reaches a target where its sub-workflow is *)

\* Nothing was forced: the sub-workflow is on the last target or will be
\* created there, and it is there once the turn of its caller has come.
Met(c) ==
    LET job == call[c] IN
    park.calls /\ ~ job.asked.force /\ job.at \in Routed =>
        /\ live[Sub(job.asked.to)] = 0 => job.asked.cascade
        /\ job.todo = <<"main">> /\ (job.asked.cascade \/ Here(c) = job.asked.to) => live[Sub(Here(c))] # 0

CalleesInv == CalleesThere /\ \A c \in Calls : Met(c)

LEMMA CalleesInit == Init => CalleesInv
<1> SUFFICES ASSUME Init PROVE CalleesInv
  OBVIOUS
<1>1. \A c \in Calls : call[c].at = "idle"
  BY IdleTyped DEF Init
<1> QED
  BY <1>1 DEF Init, CalleesInv, CalleesThere, Met, Routed, Writing

LEMMA MetKept ==
  ASSUME TypeInv, LiveInv, [Next]_vars, NEW d \in Calls, Met(d), call'[d] = call[d]
  PROVE  Met(d)'
<1> SUFFICES ASSUME call[d].at \in Routed PROVE Met(d)'
  BY DEF Met
<1>1. JobTyped(call[d]) /\ call[d] \in Job /\ call[d].asked \in Request
  BY HeldType DEF Asked
<1>2. Here(d) \in Envs /\ call[d].asked.to \in Envs /\ Here(d)' = Here(d)
  BY <1>1 DEF JobTyped, Job, Here, Request, Routed
<1>3. Sub(Here(d)) \in Workflows /\ Sub(call[d].asked.to) \in Workflows
  BY <1>2, Family DEF Families
<1>4. /\ live[Sub(Here(d))] # 0 => live'[Sub(Here(d))] # 0
      /\ live[Sub(call[d].asked.to)] # 0 => live'[Sub(call[d].asked.to)] # 0
  BY <1>3, LiveGrows
<1>5. park' = park
  BY ParkKept
<1> QED
  BY <1>2, <1>4, <1>5 DEF Met

\* The turn of the caller comes once what it calls is there.
LEMMA TurnOfCaller ==
  ASSUME TypeInv, LiveInv, NEW asked \in Requests, NEW e \in Envs, park.calls,
         ToDo(asked, e) = <<"main">>, asked.cascade \/ live[Sub(e)] # 0
  PROVE  live[Sub(e)] # 0
<1>1. <<"sub", "main">> # <<"main">>
  <2>1. Len(<<"sub", "main">>) # Len(<<"main">>)
    BY Tuples
  <2> QED
    BY <2>1
<1>2. ~ Cascades(asked, e)
  BY <1>1 DEF ToDo
<1>3. live[Sub(asked.from)] # 0
  BY DEF LiveInv
<1> QED
  BY <1>2, <1>3 DEF Cascades, Misses

\* A route of one leg goes straight to the target.
LEMMA StraightRoute ==
  ASSUME NEW asked \in Request, Len(Route(asked)) = 1
  PROVE  Route(asked) = <<asked.to>>
<1>1. CASE asked.through /\ Skipped(asked) # {}
  <2>1. asked.from \in Envs /\ asked.to \in Envs
    BY DEF Request
  <2>2. PICK f \in Nat, t \in Nat : f = asked.from /\ t = asked.to
    BY <2>1, SomeEnv
  <2>3. 1 = t - f
    BY <1>1, <2>2, RouteShape
  <2>4. \A e \in Envs : ~ (f < e /\ e < t)
    BY <2>2, <2>3, SomeEnv
  <2> QED
    BY <1>1, <2>2, <2>4 DEF Skipped
<1> QED
  BY <1>1, RouteShape

LEMMA MetNext ==
  ASSUME TypeInv, LiveInv, [Next]_vars, NEW c \in Calls, Met(c), Continue(c)
  PROVE  Met(c)'
<1> SUFFICES ASSUME call'[c].at # "idle", park.calls, ~ call'[c].asked.force, call'[c].at \in Routed
             PROVE  /\ live'[Sub(call'[c].asked.to)] = 0 => call'[c].asked.cascade
                    /\ /\ call'[c].todo = <<"main">>
                       /\ call'[c].asked.cascade \/ Head(call'[c].legs) = call'[c].asked.to
                       => live'[Sub(Head(call'[c].legs))] # 0
  <2>1. park' = park /\ "idle" \notin Routed
    BY ParkKept DEF Routed, Writing
  <2> QED
    BY <2>1 DEF Met, Here
<1> DEFINE new == call'[c]
           old == call[c]
<1>1. /\ JobTyped(old) /\ old \in Job /\ old.at # "idle" /\ Asked(c) = old.asked
      /\ Asked(c) \in Request /\ Asked(c) \in Requests /\ old.asked.to \in Envs
  BY HeldType, HeldFacts, OnlyItself DEF Asked, TypeInv
<1>2. ASSUME NEW e \in Envs, live[Sub(e)] # 0 PROVE live'[Sub(e)] # 0
  BY <1>2, LiveGrows, Family DEF Families
<1>3. ASSUME old.at \in Routed PROVE Here(c) \in Envs
  BY <1>1, <1>3 DEF JobTyped, Job, Here, Routed
<1>4. CASE Same(new, old) /\ old.at \in Routed
  <2>1. Head(new.legs) = Here(c)
    BY <1>4 DEF Same, Here
  <2> QED
    BY <1>1, <1>2, <1>3, <1>4, <2>1 DEF Same, Met
<1>5. CASE Onwards(new, old) /\ old.at \in Writing /\ (old.todo = <<"sub", "main">> => live[Target(c)] # 0)
  <2>1. /\ new.asked = old.asked
        /\ new.todo = <<"main">> => old.todo = <<"sub", "main">> /\ new.legs = old.legs
    <3>1. <<>> # <<"main">>
      OBVIOUS
    <3> QED
      BY <1>5, <3>1 DEF Onwards, Routed, Writing
  <2>2. live'[Sub(old.asked.to)] = 0 => old.asked.cascade
    BY <1>1, <1>2, <1>5, <2>1 DEF Met, Routed
  <2>3. new.todo = <<"main">> => live'[Sub(Head(new.legs))] # 0
    <3> SUFFICES ASSUME new.todo = <<"main">> PROVE live'[Sub(Head(new.legs))] # 0
      OBVIOUS
    <3>1. live[Target(c)] # 0 /\ Pushing(c) = "sub" /\ Head(new.legs) = Here(c)
      BY <1>5, <2>1, Tuples DEF Pushing, Here
    <3>2. Target(c) = Sub(Here(c))
      BY <3>1 DEF Target, Sub
    <3> QED
      BY <1>2, <1>3, <1>5, <3>1, <3>2 DEF Routed
  <2> QED
    BY <2>1, <2>2, <2>3
<1>6. CASE Judge(c)
  <2>1. /\ ~ Blocked(Asked(c)) /\ new.asked = old.asked /\ new.legs = Route(Asked(c))
        /\ new.todo = (IF Len(Route(Asked(c))) = 1 THEN ToDo(Asked(c), Asked(c).to) ELSE <<>>)
    BY <1>1, <1>6, JudgeFields
  <2>2. live[Sub(old.asked.to)] = 0 => old.asked.cascade
    BY <1>1, <2>1 DEF Blocked, Misses, Cascades
  <2>3. new.todo = <<"main">> => live[Sub(old.asked.to)] # 0 /\ Head(new.legs) = old.asked.to
    <3> SUFFICES ASSUME new.todo = <<"main">> PROVE live[Sub(old.asked.to)] # 0 /\ Head(new.legs) = old.asked.to
      OBVIOUS
    <3>1. Len(Route(Asked(c))) = 1 /\ ToDo(Asked(c), Asked(c).to) = <<"main">>
      <4>1. <<>> # <<"main">>
        OBVIOUS
      <4> QED
        BY <2>1, <4>1
    <3>2. live[Sub(old.asked.to)] # 0
      BY <1>1, <2>2, <3>1, TurnOfCaller
    <3>3. Route(Asked(c)) = <<old.asked.to>>
      BY <1>1, <3>1, StraightRoute
    <3> QED
      BY <2>1, <3>2, <3>3
  <2> QED
    BY <1>1, <1>2, <2>1, <2>2, <2>3
<1>7. CASE Leg(c)
  <2>1. /\ new.asked = old.asked /\ new.legs = old.legs /\ new.todo = ToDo(Asked(c), Here(c))
        /\ old.at = "leg" /\ Head(new.legs) = Here(c)
    BY <1>7, LegFields DEF Here
  <2>2. live[Sub(old.asked.to)] = 0 => old.asked.cascade
    BY <2>1 DEF Met, Routed
  <2>3. ASSUME new.todo = <<"main">>, old.asked.cascade \/ Here(c) = old.asked.to
        PROVE  live[Sub(Here(c))] # 0
    BY <1>1, <1>3, <2>1, <2>2, <2>3, TurnOfCaller DEF Routed
  <2>4. Here(c) \in Envs
    BY <1>3, <2>1 DEF Routed
  <2>5. live'[Sub(old.asked.to)] = 0 => old.asked.cascade
    BY <1>1, <1>2, <2>2
  <2>6. ASSUME new.todo = <<"main">>, old.asked.cascade \/ Here(c) = old.asked.to
        PROVE  live'[Sub(Here(c))] # 0
    BY <1>2, <2>3, <2>4, <2>6
  <2> QED
    BY <2>1, <2>5, <2>6
<1>8. CASE Push(c)
  <2>1. old.at = "push" /\ (Same(new, old) \/ (Onwards(new, old) /\ live[Target(c)] # 0))
    <3>1. OnTarget(Target(c)) => live[Target(c)] # 0
      BY DEF OnTarget
    <3>2. old.at = "push" /\ (Same(new, old) \/ (Onwards(new, old) /\ OnTarget(Target(c))))
      BY <1>8, PushFields
    <3> QED
      BY <3>1, <3>2
  <2> QED
    BY <1>4, <1>5, <2>1 DEF Routed, Writing
<1>9. CASE CopyTarget(c)
  <2>1. old.at = "copy" /\ Onwards(new, old)
    BY <1>9, CopyTargetFields
  <2>2. live[Target(c)] # 0
    BY <2>1 DEF LiveInv, Held
  <2> QED
    BY <1>5, <2>1, <2>2 DEF Writing
<1>10. CASE Legs(c) \/ CheckLocks(c) \/ Move(c) \/ Put(c)
  <2>1. Same(new, old)
    BY <1>10, LegsFields, CheckLocksFields, GoFields DEF Move, Put
  <2>2. old.at \in Routed
    BY <1>10 DEF Legs, CheckLocks, Move, Put, At, Routed, Writing
  <2> QED
    BY <1>4, <2>1, <2>2
<1>11. CASE Prepare(c) \/ PutRefused(c) \/ StampRow(c) \/ StampSnapshot(c)
  <2>1. ~ Prepare(c)
    BY PrepareFields DEF Routed, Writing
  <2>2. ~ PutRefused(c)
    BY EndFields DEF PutRefused, TypeInv
  <2>3. ~ StampRow(c) /\ ~ StampSnapshot(c)
    BY StampFields DEF Routed, Writing
  <2> QED
    BY <1>11, <2>1, <2>2, <2>3
<1> QED
  BY <1>6, <1>7, <1>8, <1>9, <1>10, <1>11 DEF Continue

\* A write of main is noted where it is made.
LEMMA PushedBy ==
  ASSUME TypeInv, [Next]_vars, NEW p \in pushed', p \notin pushed
  PROVE  \E c \in Calls : /\ At(c, "put") /\ Write(c) /\ p = Trace(c) /\ call[c].todo = <<"main">>
<1>1. \E c \in Calls : At(c, "put") /\ Write(c)
  <2>1. \A c \in Calls : MoveHolder(c) => pushed' = pushed
    BY DEF MoveHolder
  <2> QED
    BY <2>1 DEF Next, Promote, Continue, Throw, AnswerLost, Undisturbed, Prepare, Judge, Legs, CheckLocks, Leg, Push, Move, Put,
       PutRefused, CopyTarget, StampRow, StampSnapshot, TakeSnapshot, Sync, Edit, EditLock, Archive, Touches, Restart, vars,
       history
<1>2. PICK c \in Calls : At(c, "put") /\ Write(c)
  BY <1>1
<1>3. Pushing(c) = "main" /\ p = Trace(c)
  BY <1>2 DEF Write
<1>4. call[c].todo \in {<<"main">>, <<"sub", "main">>}
  BY <1>2, HeldType DEF JobTyped, At, Writing
<1>5. call[c].todo = <<"main">>
  BY <1>3, <1>4, Tuples DEF Pushing
<1> QED
  BY <1>2, <1>3, <1>5

LEMMA CalleesNext == TypeInv /\ LiveInv /\ CalleesInv /\ [Next]_vars => CalleesInv'
<1> SUFFICES ASSUME TypeInv, LiveInv, CalleesInv, [Next]_vars PROVE CalleesInv'
  OBVIOUS
<1>1. ASSUME NEW d \in Calls PROVE Met(d)'
  <2>1. Met(d)
    BY DEF CalleesInv
  <2>2. CASE call'[d] = call[d]
    BY <2>1, <2>2, MetKept
  <2>3. CASE Continue(d)
    BY <2>1, <2>3, MetNext
  <2>4. CASE call'[d].at = "idle" \/ call'[d].at = "prepare"
    BY <2>4 DEF Met, Routed, Writing
  <2>5. ASSUME NEW asked \in Requests, NEW lifts \in {{}, locked}, Promote(d, asked, lifts)
        PROVE  call'[d].at = "prepare"
    BY <2>5, PromoteFields DEF TypeInv, RestTyped, LockTypeOK
  <2> QED
    BY <2>2, <2>3, <2>4, <2>5, WhoSteps
<1>2. ASSUME park.calls, NEW p \in pushed', p.ordinary PROVE live'[Sub(p.to)] # 0
  <2>1. CASE p \in pushed
    <3>1. p.to \in Envs /\ live[Sub(p.to)] # 0
      BY <1>2, <2>1 DEF TypeInv, RestTyped, CalleesInv, CalleesThere
    <3>2. Sub(p.to) \in Workflows
      BY <3>1, Family DEF Families
    <3> QED
      BY <3>1, <3>2, LiveGrows
  <2>2. CASE p \notin pushed
    <3>1. PICK c \in Calls : At(c, "put") /\ p = Trace(c) /\ call[c].todo = <<"main">>
      BY <2>2, PushedBy
    <3>2. p.to = Here(c) /\ p.ordinary = Ordinary(c) /\ Asked(c) = call[c].asked
      BY <3>1 DEF Trace, Asked
    <3>3. live[Sub(Here(c))] # 0
      BY <1>2, <3>1, <3>2 DEF CalleesInv, Met, Ordinary, At, Routed, Writing
    <3>4. Sub(Here(c)) \in Workflows
      BY <3>1, WritingType, Family DEF Families, At, Writing
    <3> QED
      BY <3>2, <3>3, <3>4, LiveGrows
  <2> QED
    BY <2>1, <2>2
<1> QED
  BY <1>1, <1>2, ParkKept DEF CalleesInv, CalleesThere

\* Whatever was promoted without being forced, caller and sub-workflow are
\* together on the target, for any route and any failure on the way.
THEOREM CallersAreComplete == Spec => []CalleesThere
<1>1. Init => LiveInv /\ CalleesInv
  BY LiveInit, CalleesInit
<1>2. TypeInv /\ LiveInv /\ CalleesInv /\ [Next]_vars => LiveInv' /\ CalleesInv'
  BY LiveNext, CalleesNext
<1>3. CalleesInv => CalleesThere
  BY DEF CalleesInv
<1> QED
  BY <1>1, <1>2, <1>3, TypeAlways, PTL DEF Spec

---------------------------------------------------------------------------
(* What stays as it is under a promotion nobody disturbs *)

LEMMA CalmBefore == [Next]_vars /\ calm' => calm
BY DEF Next, Promote, Continue, Throw, AnswerLost, Undisturbed, Prepare, Judge, Legs, CheckLocks, Leg, Push, Move, Put,
       PutRefused, CopyTarget, StampRow, StampSnapshot, TakeSnapshot, Sync, Edit, EditLock, Archive, Touches, Restart, vars,
       history, MoveHolder, Write

LEMMA JournalGrows ==
  ASSUME [Next]_vars
  PROVE  /\ journal \subseteq journal'
         /\ (\A w \in Workflows : ~ EditLock(w)) => locked' = locked
BY DEF Next, Promote, Continue, Throw, AnswerLost, Undisturbed, Prepare, Judge, Legs, CheckLocks, AssertWritable, Refused,
       Leg, Push, Move, Put, PutRefused, CopyTarget, StampRow, StampSnapshot, TakeSnapshot, Sync, Edit, EditLock, Lock,
       Unlock, Archive, Restart, lockVars, vars

LEMMA NobodyTouches ==
  ASSUME calm', NEW d \in Calls, call[d].at # "idle"
  PROVE  \A event \in Events : ~ Touches(event)
BY DEF Touches, At

\* The three ways n8n changes.
LEMMA Writers ==
  ASSUME TypeInv, LiveInv, [Next]_vars, \A event \in Events : ~ Touches(event)
  PROVE  /\ archived' = archived
         /\ \/ live' = live
            \/ \E c \in Calls : /\ call[c].at = "move" /\ MoveHolder(c) /\ Here(c) \in Envs
                                /\ live' = [live EXCEPT ![Holder(Here(c))] = Moved]
            \/ \E c \in Calls : /\ call[c].at = "put" /\ Write(c)
                                /\ live' = [live EXCEPT ![Target(c)] = call[c].content]
<1>1. ASSUME NEW c \in Calls, At(c, "move"), MoveHolder(c)
      PROVE  /\ archived' = archived /\ Here(c) \in Envs
             /\ live' = [live EXCEPT ![Holder(Here(c))] = Moved]
  BY <1>1, MoveApart, WritingType DEF At, Writing
<1>2. ASSUME NEW c \in Calls, At(c, "put"), Write(c)
      PROVE  archived' = archived /\ live' = [live EXCEPT ![Target(c)] = call[c].content]
  BY <1>2, WriteGrows DEF Write, Overwritten, Created
<1>3. ASSUME NEW c \in Calls, Move(c) \/ Put(c) \/ AnswerLost(c)
      PROVE  \/ At(c, "move") /\ MoveHolder(c)
             \/ At(c, "put") /\ Write(c)
  BY <1>3 DEF Move, Put, AnswerLost
<1>4. ASSUME NEW c \in Calls, Continue(c), ~ Move(c), ~ Put(c)
      PROVE  live' = live /\ archived' = archived
  BY <1>4, QuietSteps
<1>5. ASSUME \/ \E c \in Calls, asked \in Requests, lifts \in {{}, locked} : Promote(c, asked, lifts)
             \/ \E c \in Calls : Throw(c)
             \/ \E e \in Envs : TakeSnapshot(e) \/ Sync(e)
             \/ Restart \/ UNCHANGED vars
      PROVE  live' = live /\ archived' = archived
  BY <1>5 DEF Promote, Throw, TakeSnapshot, Sync, Restart, n8n, vars
<1>6. /\ \A e \in Envs, content \in Contents : ~ Edit(e, content)
      /\ \A w \in Workflows : ~ EditLock(w) /\ ~ Archive(w)
  BY DEF Edit, EditLock, Archive, Events
<1>7. \/ \E c \in Calls : At(c, "move") /\ MoveHolder(c)
      \/ \E c \in Calls : At(c, "put") /\ Write(c)
      \/ live' = live /\ archived' = archived
  BY <1>3, <1>4, <1>5, <1>6 DEF Next
<1> QED
  BY <1>1, <1>2, <1>7 DEF At

\* The source of a promotion, the locks and the holders of URLs.
LEMMA LeftAlone ==
  ASSUME TypeInv, LiveInv, [Next]_vars, calm', NEW d \in Calls, call[d].at # "idle"
  PROVE  /\ live'[Source(d)] = live[Source(d)]
         /\ locked' = locked /\ journal \subseteq journal'
         /\ \A e \in Envs : Clashes("main", e)' => Clashes("main", e)
<1>1. \A event \in Events : ~ Touches(event)
  BY NobodyTouches
<1>2. locked' = locked /\ journal \subseteq journal'
  BY <1>1, JournalGrows DEF EditLock, Events
<1>3. park' = park /\ archived' = archived
  BY <1>1, ParkKept, Writers
<1>4. Source(d) \in Workflows /\ Source(d) = Main(Asked(d).from)
  BY HeldType DEF Source
<1>5. ASSUME live' = live
      PROVE  live'[Source(d)] = live[Source(d)] /\ \A e \in Envs : Clashes("main", e)' => Clashes("main", e)
  BY <1>3, <1>5 DEF Clashes
<1>6. ASSUME NEW c \in Calls, MoveHolder(c), Here(c) \in Envs,
             live' = [live EXCEPT ![Holder(Here(c))] = Moved]
      PROVE  live'[Source(d)] = live[Source(d)] /\ \A e \in Envs : Clashes("main", e)' => Clashes("main", e)
  <2>1. Source(d) # Holder(Here(c))
    BY <1>4 DEF Main, Holder
  <2>2. live'[Source(d)] = live[Source(d)]
    BY <1>4, <1>6, <2>1 DEF TypeInv, RestTyped
  <2>3. ASSUME NEW e \in Envs, live'[Holder(e)] = Clashing PROVE live[Holder(e)] = Clashing
    <3>1. Holder(e) \in Workflows
      BY Family DEF Families
    <3>2. Moved # Clashing
      BY DEF Moved, Clashing
    <3> QED
      BY <1>6, <2>3, <3>1, <3>2 DEF TypeInv, RestTyped
  <2> QED
    BY <1>3, <2>2, <2>3 DEF Clashes
<1>7. ASSUME NEW c \in Calls, call[c].at = "put", Write(c), live' = [live EXCEPT ![Target(c)] = call[c].content]
      PROVE  live'[Source(d)] = live[Source(d)] /\ \A e \in Envs : Clashes("main", e)' => Clashes("main", e)
  <2>1. Source(d) # Target(c)
    <3>1. CASE d = c
      BY <1>7, <3>1, HeldFacts DEF Writing
    <3>2. CASE d # c
      BY <1>7, <3>2 DEF Write, At
    <3> QED
      BY <3>1, <3>2
  <2>2. live'[Source(d)] = live[Source(d)]
    BY <1>4, <1>7, <2>1 DEF TypeInv, RestTyped
  <2>3. \A e \in Envs : Holder(e) # Target(c) /\ Holder(e) \in Workflows
    <3>1. Pushing(c) \in {"main", "sub"}
      BY <1>7, WritingType DEF Writing
    <3> QED
      BY <3>1, Family DEF Families, Target, Holder
  <2>4. \A e \in Envs : live'[Holder(e)] = live[Holder(e)]
    BY <1>7, <2>3 DEF TypeInv, RestTyped
  <2> QED
    BY <1>3, <2>2, <2>4 DEF Clashes
<1> QED
  BY <1>1, <1>2, <1>5, <1>6, <1>7, Writers

---------------------------------------------------------------------------
(* The locks *)

\* Before the guard, every lock of the route is among those it will look at;
\* past it, every lock still ahead is one that was lifted.
Guarded(c) ==
    LET job == call[c] IN
    calm =>
        /\ job.at = "lock" =>
             \A k \in DOMAIN job.legs :
                 /\ Main(job.legs[k]) \in locked => Main(job.legs[k]) \in job.ids
                 /\ Clashes("main", job.legs[k]) => Holder(job.legs[k]) \in job.ids
        /\ job.at \in {"leg"} \union Writing =>
             \A k \in DOMAIN job.legs :
                 /\ Main(job.legs[k]) \in locked => Main(job.legs[k]) \in journal
                 /\ Clashes("main", job.legs[k]) /\ Holder(job.legs[k]) \in locked => Holder(job.legs[k]) \in journal
        /\ job.at = "move" /\ job.todo = <<"main">> => (Holder(Here(c)) \in locked => Holder(Here(c)) \in journal)

LocksInv == LocksHold /\ \A c \in Calls : Guarded(c)

LEMMA LocksInit == Init => LocksInv
<1> SUFFICES ASSUME Init PROVE LocksInv
  OBVIOUS
<1>1. \A c \in Calls : call[c].at = "idle"
  BY IdleTyped DEF Init
<1> QED
  BY <1>1 DEF Init, LocksInv, LocksHold, Guarded, Writing

\* A lock of the route is a lock the guard is shown.
LEMMA WrittenLocks ==
  ASSUME LiveInv, NEW e \in Envs
  PROVE  /\ Main(e) \in locked => Main(e) \in Written(e)
         /\ Clashes("main", e) => Holder(e) \in Written(e)
BY DEF LiveInv, Written

LEMMA GuardedKept ==
  ASSUME TypeInv, LiveInv, [Next]_vars, NEW d \in Calls, Guarded(d), call'[d] = call[d]
  PROVE  Guarded(d)'
<1> SUFFICES ASSUME calm', call[d].at # "idle" PROVE Guarded(d)'
  BY DEF Guarded, Writing
<1>1. calm /\ locked' = locked /\ journal \subseteq journal' /\ \A e \in Envs : Clashes("main", e)' => Clashes("main", e)
  BY CalmBefore, LeftAlone
<1>2. \A k \in DOMAIN call[d].legs : call[d].legs[k] \in Envs
  BY HeldType DEF Job
<1>3. Here(d)' = Here(d)
  BY DEF Here
<1> QED
  BY <1>1, <1>2, <1>3 DEF Guarded

LEMMA GuardedNext ==
  ASSUME TypeInv, LiveInv, [Next]_vars, NEW c \in Calls, Guarded(c), Continue(c)
  PROVE  Guarded(c)'
<1> SUFFICES ASSUME calm', call'[c].at # "idle" PROVE Guarded(c)'
  BY DEF Guarded, Writing
<1> DEFINE new == call'[c]
           old == call[c]
<1>1. /\ JobTyped(old) /\ old \in Job /\ old.at # "idle" /\ Asked(c) = old.asked /\ Asked(c) \in Request
      /\ \A k \in DOMAIN old.legs : old.legs[k] \in Envs
  BY HeldType, OnlyItself DEF Asked, TypeInv, Job
<1>2. calm /\ locked' = locked /\ journal \subseteq journal' /\ \A e \in Envs : Clashes("main", e)' => Clashes("main", e)
  BY <1>1, CalmBefore, LeftAlone
<1> DEFINE Ahead == \A k \in DOMAIN new.legs :
                       /\ Main(new.legs[k]) \in locked => Main(new.legs[k]) \in journal
                       /\ Clashes("main", new.legs[k]) /\ Holder(new.legs[k]) \in locked => Holder(new.legs[k]) \in journal
                       /\ new.legs[k] \in Envs
<1>3. ASSUME new.at \in {"leg", "push", "put", "copy"}, Ahead
      PROVE  Guarded(c)'
  BY <1>2, <1>3 DEF Guarded
<1>4. ASSUME new.at = "lock", \A k \in DOMAIN new.legs : new.legs[k] \in Envs /\ Written(new.legs[k]) \subseteq new.ids
      PROVE  Guarded(c)'
  <2>1. \A k \in DOMAIN new.legs : /\ Main(new.legs[k]) \in locked => Main(new.legs[k]) \in new.ids
                                   /\ Clashes("main", new.legs[k]) => Holder(new.legs[k]) \in new.ids
    BY <1>4, WrittenLocks
  <2> QED
    BY <1>2, <1>4, <2>1 DEF Guarded, Writing
<1>5. ASSUME Onwards(new, old), old.at \in Writing
      PROVE  Guarded(c)'
  <2>1. CASE new.at = "stamp"
    BY <2>1 DEF Guarded, Writing
  <2>2. CASE new.at # "stamp"
    <3>1. Ahead
      BY <1>1, <1>2, <1>5, <2>2, LegsLeft DEF Guarded
    <3> QED
      BY <1>3, <1>5, <2>2, <3>1 DEF Onwards
  <2> QED
    BY <2>1, <2>2
<1>6. ASSUME Same(new, old), old.at \in {"leg"} \union Writing
      PROVE  Ahead
  BY <1>1, <1>2, <1>6 DEF Guarded, Same
<1>7. CASE Prepare(c) \/ StampRow(c) \/ StampSnapshot(c) \/ PutRefused(c)
  <2>1. new.at \in {"judge", "stamp", "snapshot"}
    BY <1>7, PrepareFields, StampFields, EndFields DEF PutRefused, TypeInv
  <2> QED
    BY <2>1 DEF Guarded, Writing
<1>8. CASE Judge(c)
  <2>1. /\ new.legs = Route(Asked(c))
        /\ \/ new.at = "lock" /\ new.ids = Written(Asked(c).to) /\ Len(Route(Asked(c))) = 1
           \/ new.at = "legs"
    BY <1>8, JudgeFields
  <2>2. CASE new.at = "legs"
    BY <2>2 DEF Guarded, Writing
  <2>3. CASE new.at = "lock"
    <3>1. new.ids = Written(Asked(c).to) /\ Len(Route(Asked(c))) = 1
      BY <2>1, <2>3
    <3>2. Route(Asked(c)) = <<Asked(c).to>> /\ Asked(c).to \in Envs
      BY <1>1, <3>1, StraightRoute DEF Request
    <3>3. \A k \in DOMAIN new.legs : new.legs[k] = Asked(c).to
      BY <2>1, <3>2
    <3> QED
      BY <1>4, <2>3, <3>1, <3>2, <3>3
  <2> QED
    BY <2>1, <2>2, <2>3
<1>9. CASE Legs(c)
  <2>1. /\ new.at = "lock" /\ new.legs = old.legs
        /\ new.ids = UNION {Written(old.legs[k]) : k \in DOMAIN old.legs}
    BY <1>9, LegsFields DEF Same
  <2> QED
    BY <1>1, <1>4, <2>1
<1>10. CASE CheckLocks(c)
  <2>1. /\ new.at \in {"leg", "push"} /\ new.legs = old.legs /\ old.at = "lock"
        /\ AssertWritable(old.ids, old.lifts)
    BY <1>10, CheckLocksFields DEF Same
  <2>2. \A w \in old.ids : w \in locked => w \in journal'
    BY <2>1 DEF AssertWritable, CanWrite, Blocking, Overridden
  <2>3. \A k \in DOMAIN old.legs :
          /\ Main(old.legs[k]) \in locked => Main(old.legs[k]) \in journal'
          /\ Clashes("main", old.legs[k]) /\ Holder(old.legs[k]) \in locked => Holder(old.legs[k]) \in journal'
    BY <1>2, <2>1, <2>2 DEF Guarded
  <2> QED
    BY <1>1, <1>2, <2>1, <2>3 DEF Guarded
<1>11. CASE Leg(c)
  <2>1. new.at = "push" /\ new.legs = old.legs /\ old.at = "leg"
    BY <1>11, LegFields
  <2>2. Ahead
    BY <1>1, <1>2, <2>1 DEF Guarded
  <2> QED
    BY <1>3, <2>1, <2>2
<1>12. CASE Push(c)
  <2>1. CASE Onwards(new, old)
    BY <1>5, <1>12, <2>1 DEF Push, At, Writing
  <2>2. CASE ~ Onwards(new, old)
    <3>1. Same(new, old) /\ new.at = (IF Clashes(Pushing(c), Here(c)) THEN "move" ELSE "put") /\ old.at = "push"
      BY <1>12, <2>2, PushFields
    <3>2. Ahead
      BY <1>6, <3>1 DEF Writing
    <3>3. CASE new.at = "put"
      BY <1>3, <3>2, <3>3
    <3>4. CASE new.at = "move"
      <4>1. Clashes(Pushing(c), Here(c)) /\ Here(c) = Head(old.legs)
        BY <3>1, <3>4 DEF Here
      <4>2. new.todo = <<"main">> => Pushing(c) = "main"
        BY <3>1, Tuples DEF Same, Pushing
      <4>3. 1 \in DOMAIN old.legs /\ Here(c) = old.legs[1] /\ new.legs = old.legs
        BY <1>1, <3>1, <4>1 DEF JobTyped, Job, Writing, Same
      <4>4. new.todo = <<"main">> => (Holder(Here(c)) \in locked => Holder(Here(c)) \in journal)
        BY <3>2, <4>1, <4>2, <4>3
      <4>5. Here(c)' = Here(c)
        BY <4>1, <4>3 DEF Here
      <4> QED
        BY <1>2, <3>2, <3>4, <4>4, <4>5 DEF Guarded
    <3> QED
      BY <3>1, <3>3, <3>4
  <2> QED
    BY <2>1, <2>2
<1>13. CASE Move(c) \/ Put(c)
  <2>1. Same(new, old) /\ old.at \in Writing /\ new.at \in {"put", "copy"}
    BY <1>13, GoFields DEF Move, Put, At, Writing
  <2> QED
    BY <1>3, <1>6, <2>1
<1>14. CASE CopyTarget(c)
  BY <1>5, <1>14, CopyTargetFields DEF Writing
<1> QED
  BY <1>7, <1>8, <1>9, <1>10, <1>11, <1>12, <1>13, <1>14 DEF Continue

\* Where a locked workflow is written over.
LEMMA ForcedBy ==
  ASSUME TypeInv, [Next]_vars, NEW f \in forced', f \notin forced
  PROVE  \E c \in Calls :
           /\ f.for = Pushing(c)
           /\ \/ call[c].at = "move" /\ Holder(Here(c)) \in locked \ journal
              \/ call[c].at = "put" /\ Target(c) \in locked \ journal
<1>1. \E c \in Calls : (At(c, "move") /\ MoveHolder(c)) \/ (At(c, "put") /\ Write(c))
  <2>1. ASSUME NEW c \in Calls, Continue(c), ~ Move(c), ~ Put(c)
        PROVE  forced' = forced
    BY <2>1, QuietSteps
  <2>2. ASSUME \/ \E c \in Calls, asked \in Requests, lifts \in {{}, locked} : Promote(c, asked, lifts)
               \/ \E c \in Calls : Throw(c)
               \/ \E e \in Envs : TakeSnapshot(e) \/ Sync(e) \/ \E content \in Contents : Edit(e, content)
               \/ \E w \in Workflows : EditLock(w) \/ Archive(w)
               \/ Restart \/ UNCHANGED vars
        PROVE  forced' = forced
    BY <2>2 DEF Promote, Throw, TakeSnapshot, Sync, Edit, EditLock, Archive, Touches, Restart, vars, history
  <2>3. \E c \in Calls : Move(c) \/ Put(c) \/ AnswerLost(c)
    BY <2>1, <2>2 DEF Next
  <2> QED
    BY <2>3 DEF Move, Put, AnswerLost
<1>2. PICK c \in Calls : (At(c, "move") /\ MoveHolder(c)) \/ (At(c, "put") /\ Write(c))
  BY <1>1
<1>3. CASE At(c, "move") /\ MoveHolder(c)
  <2>1. Holder(Here(c)) \in locked \ journal /\ f = [copy |-> Holder(Here(c)), for |-> Pushing(c)]
    BY <1>3 DEF MoveHolder, Overwritten
  <2> QED
    BY <1>3, <2>1 DEF At
<1>4. CASE At(c, "put") /\ Write(c)
  <2>1. Target(c) \in locked \ journal /\ f = [copy |-> Target(c), for |-> Pushing(c)]
    BY <1>4 DEF Write, Overwritten, Created
  <2> QED
    BY <1>4, <2>1 DEF At
<1> QED
  BY <1>2, <1>3, <1>4

LEMMA LocksNext == TypeInv /\ LiveInv /\ LocksInv /\ [Next]_vars => LocksInv'
<1> SUFFICES ASSUME TypeInv, LiveInv, LocksInv, [Next]_vars PROVE LocksInv'
  OBVIOUS
<1>1. ASSUME NEW d \in Calls PROVE Guarded(d)'
  <2>1. Guarded(d)
    BY DEF LocksInv
  <2>2. CASE call'[d] = call[d]
    BY <2>1, <2>2, GuardedKept
  <2>3. CASE Continue(d)
    BY <2>1, <2>3, GuardedNext
  <2>4. CASE call'[d].at = "idle" \/ call'[d].at = "prepare"
    BY <2>4 DEF Guarded, Writing
  <2>5. ASSUME NEW asked \in Requests, NEW lifts \in {{}, locked}, Promote(d, asked, lifts)
        PROVE  call'[d].at = "prepare"
    BY <2>5, PromoteFields DEF TypeInv, RestTyped, LockTypeOK
  <2> QED
    BY <2>2, <2>3, <2>4, <2>5, WhoSteps
<1>2. ASSUME calm', NEW f \in forced' PROVE f.for = "sub"
  <2>1. calm
    BY <1>2, CalmBefore
  <2>2. CASE f \in forced
    BY <2>1, <2>2 DEF LocksInv, LocksHold
  <2>3. CASE f \notin forced
    <3>1. PICK c \in Calls : /\ f.for = Pushing(c)
                             /\ \/ call[c].at = "move" /\ Holder(Here(c)) \in locked \ journal
                                \/ call[c].at = "put" /\ Target(c) \in locked \ journal
      BY <1>2, <2>3, ForcedBy
    <3>2. call[c].at \in Writing /\ Guarded(c) /\ JobTyped(call[c]) /\ call[c] \in Job
      BY <3>1, HeldType DEF Writing, LocksInv
    <3>3. ASSUME call[c].todo = <<"main">> PROVE FALSE
      <4>1. Pushing(c) = "main" /\ Target(c) = Main(Here(c))
        BY <3>3, Tuples DEF Pushing, Target, Main
      <4>2. 1 \in DOMAIN call[c].legs /\ Here(c) = call[c].legs[1]
        BY <3>2 DEF JobTyped, Job, Here
      <4>3. Main(Here(c)) \in locked => Main(Here(c)) \in journal
        BY <2>1, <3>2, <4>2 DEF Guarded
      <4>4. call[c].at = "move" => (Holder(Here(c)) \in locked => Holder(Here(c)) \in journal)
        BY <2>1, <3>2, <3>3 DEF Guarded
      <4> QED
        BY <3>1, <4>1, <4>3, <4>4
    <3>4. call[c].todo = <<"sub", "main">>
      BY <3>2, <3>3 DEF JobTyped
    <3> QED
      BY <3>1, <3>4, Tuples DEF Pushing
  <2> QED
    BY <2>2, <2>3
<1> QED
  BY <1>1, <1>2 DEF LocksInv, LocksHold

\* The locks seen before the first write hold for the whole route.
THEOREM LocksAreLifted == Spec => []LocksHold
<1>1. Init => LiveInv /\ LocksInv
  BY LiveInit, LocksInit
<1>2. TypeInv /\ LiveInv /\ LocksInv /\ [Next]_vars => LiveInv' /\ LocksInv'
  BY LiveNext, LocksNext
<1>3. LocksInv => LocksHold
  BY DEF LocksInv
<1> QED
  BY <1>1, <1>2, <1>3, TypeAlways, PTL DEF Spec

---------------------------------------------------------------------------
(* The steps of the chain *)

\* The content left from and was written on e.
Reached(writes, from, e, content) == \E q \in writes : q.from = from /\ q.to = e /\ q.content = content

\* With a chain that blocks, the legs follow each other from the first step of
\* the chain on, and each starts when the one before has written.
Orderly(c) ==
    LET job == call[c]
        from == Asked(c).from
    IN  park.mode = "block" /\ calm =>
        /\ job.at \in Routed => \A k \in 1..(Len(job.legs) - 1) : job.legs[k + 1] = job.legs[k] + 1
        /\ job.at \in Routed /\ Here(c) > from + 1 => Reached(pushed, from, Here(c) - 1, live[Source(c)])
        /\ job.at \in {"move", "put", "copy"} /\ job.todo = <<"main">> => job.content = live[Source(c)]
        /\ job.at = "copy" /\ job.todo = <<"main">> => Reached(pushed, from, Here(c), live[Source(c)])

ChainInv == NothingSkips /\ \A c \in Calls : Orderly(c)

LEMMA ChainInit == Init => ChainInv
<1> SUFFICES ASSUME Init PROVE ChainInv
  OBVIOUS
<1>1. \A c \in Calls : call[c].at = "idle"
  BY IdleTyped DEF Init
<1> QED
  BY <1>1 DEF Init, ChainInv, NothingSkips, Orderly, Routed, Writing

LEMMA PushedGrows == ASSUME [Next]_vars PROVE pushed \subseteq pushed'
BY DEF Next, Promote, Continue, Throw, AnswerLost, Undisturbed, Prepare, Judge, Legs, CheckLocks, Leg, Push, Move, Put,
       PutRefused, CopyTarget, StampRow, StampSnapshot, TakeSnapshot, Sync, Edit, EditLock, Archive, Touches, Restart, vars,
       history, MoveHolder, Write

LEMMA OrderlyKept ==
  ASSUME TypeInv, LiveInv, [Next]_vars, NEW d \in Calls, Orderly(d), call'[d] = call[d]
  PROVE  Orderly(d)'
<1> SUFFICES ASSUME calm', call[d].at # "idle" PROVE Orderly(d)'
  BY DEF Orderly, Routed, Writing
<1>1. calm /\ live'[Source(d)] = live[Source(d)] /\ pushed \subseteq pushed' /\ park' = park
  BY CalmBefore, LeftAlone, PushedGrows, ParkKept
<1>2. Here(d)' = Here(d) /\ Asked(d)' = Asked(d) /\ Source(d)' = Source(d)
  BY DEF Here, Asked, Source
<1>3. live'[Source(d)'] = live[Source(d)]
  BY <1>1, <1>2
<1>4. ASSUME NEW e, Reached(pushed, Asked(d).from, e, live[Source(d)])
      PROVE  Reached(pushed', Asked(d).from, e, live[Source(d)])
  BY <1>1, <1>4 DEF Reached
<1> QED
  BY <1>1, <1>2, <1>3, <1>4 DEF Orderly

LEMMA BlockedRoute ==
  ASSUME NEW asked \in Request, asked.through \/ Skipped(asked) = {}
  PROVE  /\ \A k \in 1..(Len(Route(asked)) - 1) : Route(asked)[k + 1] = Route(asked)[k] + 1
         /\ ~ (Head(Route(asked)) > asked.from + 1)
<1>1. PICK f \in Envs, t \in Envs : f = asked.from /\ t = asked.to
  BY DEF Request
<1>2. f \in Nat /\ t \in Nat
  BY SomeEnv
<1>3. CASE asked.through /\ Skipped(asked) # {}
  <2>1. PICK n \in Nat \ {0} : n = Len(Route(asked))
    BY RouteShape
  <2>2. \A k \in 1..n : Route(asked)[k] = f + k
    BY <1>1, <1>3, <2>1, RouteShape
  <2>3. Head(Route(asked)) = Route(asked)[1]
    BY RouteShape
  <2>4. Head(Route(asked)) = f + 1
    BY <2>1, <2>2, <2>3
  <2>5. ASSUME NEW k \in 1..(n - 1) PROVE Route(asked)[k + 1] = Route(asked)[k] + 1
    <3>1. k \in 1..n /\ k + 1 \in 1..n /\ k \in Nat
      BY <2>1, <2>5
    <3>2. Route(asked)[k + 1] = f + (k + 1) /\ Route(asked)[k] = f + k
      BY <2>2, <3>1
    <3> QED
      BY <1>2, <3>1, <3>2
  <2> QED
    BY <1>1, <1>2, <2>1, <2>4, <2>5
<1>4. CASE Skipped(asked) = {}
  <2>1. Route(asked) = <<t>>
    BY <1>1, <1>4, RouteShape
  <2>2. Head(Route(asked)) = t /\ Len(Route(asked)) = 1
    BY <2>1
  <2>3. ~ (t > f + 1)
    <3> SUFFICES ASSUME t > f + 1 PROVE FALSE
      OBVIOUS
    <3>1. f + 1 \in Envs
      BY <1>2, ConstantsAssumption DEF Envs
    <3>2. f + 1 \in Skipped(asked)
      BY <1>1, <1>2, <3>1 DEF Skipped
    <3> QED
      BY <1>4, <3>2
  <2> QED
    BY <1>1, <2>2, <2>3
<1> QED
  BY <1>3, <1>4

\* The next leg starts where the one before has just written.
LEMMA NextLeg ==
  ASSUME NEW legs \in Seq(Envs), Len(legs) > 1, \A k \in 1..(Len(legs) - 1) : legs[k + 1] = legs[k] + 1
  PROVE  /\ Head(Tail(legs)) - 1 = Head(legs)
         /\ \A k \in 1..(Len(Tail(legs)) - 1) : Tail(legs)[k + 1] = Tail(legs)[k] + 1
<1>1. PICK n \in Nat : n = Len(legs) /\ n > 1
  OBVIOUS
<1>2. /\ Tail(legs) \in Seq(Envs) /\ Tail(legs) # <<>> /\ Len(Tail(legs)) = n - 1
      /\ \A k \in 1..(n - 1) : Tail(legs)[k] = legs[k + 1]
  BY <1>1, Tails
<1>3. Head(Tail(legs)) = Tail(legs)[1] /\ Head(legs) = legs[1]
  BY <1>1, <1>2
<1>4. Head(Tail(legs)) = legs[1 + 1] /\ legs[1 + 1] = legs[1] + 1
  <2>1. 1 \in 1..(n - 1)
    BY <1>1
  <2> QED
    BY <1>1, <1>2, <1>3, <2>1
<1>5. legs[1] \in Nat
  <2>1. legs[1] \in Envs
    BY <1>1
  <2> QED
    BY <2>1, SomeEnv
<1>6. Head(Tail(legs)) - 1 = Head(legs)
  <2>1. Head(Tail(legs)) = legs[1] + 1
    BY <1>4
  <2> QED
    BY <1>3, <1>5, <2>1
<1>7. ASSUME NEW k \in 1..(n - 1 - 1) PROVE Tail(legs)[k + 1] = Tail(legs)[k] + 1
  <2>1. k \in 1..(n - 1) /\ k + 1 \in 1..(n - 1)
    BY <1>1, <1>7
  <2>2. legs[(k + 1) + 1] = legs[k + 1] + 1
    BY <1>1, <2>1
  <2> QED
    BY <1>2, <2>1, <2>2
<1> QED
  BY <1>2, <1>6, <1>7

LEMMA OrderlyNext ==
  ASSUME TypeInv, LiveInv, [Next]_vars, NEW c \in Calls, Orderly(c), Continue(c)
  PROVE  Orderly(c)'
<1> DEFINE new == call'[c]
           old == call[c]
<1>1. /\ JobTyped(old) /\ old \in Job /\ old.at # "idle" /\ Asked(c) = old.asked /\ Asked(c) \in Request
  BY HeldType, OnlyItself DEF Asked, TypeInv
<1>2. PICK from, source : from = old.asked.from /\ source = live[Source(c)]
  OBVIOUS
<1> SUFFICES ASSUME park.mode = "block", calm', new.at # "idle"
             PROVE  /\ new.asked.from = from
                    /\ new.at \in Routed => \A k \in 1..(Len(new.legs) - 1) : new.legs[k + 1] = new.legs[k] + 1
                    /\ new.at \in Routed /\ Head(new.legs) > from + 1 => Reached(pushed', from, Head(new.legs) - 1, source)
                    /\ new.at \in {"move", "put", "copy"} /\ new.todo = <<"main">> => new.content = source
                    /\ new.at = "copy" /\ new.todo = <<"main">> => Reached(pushed', from, Head(new.legs), source)
  <2>1. park' = park
    BY ParkKept
  <2>2. calm' => live'[Source(c)] = source
    BY <1>1, <1>2, LeftAlone
  <2>3. new.asked.from = from => live'[Source(c)'] = live'[Source(c)]
    BY <1>1, <1>2 DEF Source, Asked
  <2>4. new.at = "idle" => Orderly(c)'
    BY DEF Orderly, Routed, Writing
  <2> QED
    BY <1>2, <2>1, <2>2, <2>3, <2>4 DEF Orderly, Here, Asked
<1>3. calm /\ pushed \subseteq pushed'
  BY <1>1, CalmBefore, PushedGrows
<1>4. ASSUME NEW e, Reached(pushed, from, e, source) PROVE Reached(pushed', from, e, source)
  BY <1>3, <1>4 DEF Reached
<1>5. old.at \in Routed =>
        /\ \A k \in 1..(Len(old.legs) - 1) : old.legs[k + 1] = old.legs[k] + 1
        /\ Head(old.legs) > from + 1 => Reached(pushed', from, Head(old.legs) - 1, source)
  BY <1>1, <1>2, <1>3, <1>4 DEF Orderly, Here
<1>6. CASE Judge(c)
  <2>1. /\ ~ ChainRefuses(Asked(c)) /\ new.asked = old.asked /\ new.legs = Route(Asked(c))
        /\ new.at \in {"lock", "legs"}
    BY <1>6, JudgeFields
  <2>2. Asked(c).through \/ Skipped(Asked(c)) = {}
    BY <2>1 DEF ChainRefuses
  <2> QED
    BY <1>1, <1>2, <2>1, <2>2, BlockedRoute
<1>7. CASE Prepare(c) \/ StampRow(c) \/ StampSnapshot(c)
  <2>1. new.at \in {"judge", "stamp", "snapshot"} /\ new.asked = old.asked
    BY <1>7, PrepareFields, StampFields DEF Same
  <2> QED
    BY <1>2, <2>1 DEF Routed, Writing
<1>8. CASE PutRefused(c)
  BY <1>8, EndFields DEF PutRefused, TypeInv
<1>9. CASE Legs(c) \/ CheckLocks(c) \/ Leg(c)
  <2>1. new.asked = old.asked /\ new.legs = old.legs /\ new.at \in {"lock", "leg", "push"} /\ old.at \in Routed
    BY <1>9, LegsFields, CheckLocksFields, LegFields DEF Same, Routed
  <2> QED
    BY <1>2, <1>5, <2>1
<1>10. ASSUME Onwards(new, old), old.at \in Writing,
              old.todo = <<"main">> => Reached(pushed', from, Head(old.legs), source)
       PROVE  /\ new.asked.from = from /\ new.at \in {"push", "leg", "stamp"}
              /\ new.at \in Routed => \A k \in 1..(Len(new.legs) - 1) : new.legs[k + 1] = new.legs[k] + 1
              /\ new.at \in Routed /\ Head(new.legs) > from + 1 => Reached(pushed', from, Head(new.legs) - 1, source)
  <2>1. new.asked = old.asked /\ old.legs \in Seq(Envs)
    BY <1>1, <1>10 DEF Onwards, Job
  <2>2. CASE new.at = "push" /\ new.legs = old.legs
    BY <1>2, <1>5, <1>10, <2>1, <2>2 DEF Routed
  <2>3. CASE new.at = "leg" /\ old.todo = <<"main">> /\ new.legs = Tail(old.legs) /\ Len(old.legs) > 1
    <3>1. /\ Head(new.legs) - 1 = Head(old.legs)
          /\ \A k \in 1..(Len(new.legs) - 1) : new.legs[k + 1] = new.legs[k] + 1
      BY <1>5, <1>10, <2>1, <2>3, NextLeg DEF Routed
    <3> QED
      BY <1>2, <1>10, <2>1, <2>3, <3>1
  <2>4. CASE new.at = "stamp"
    BY <1>2, <2>1, <2>4 DEF Routed, Writing
  <2> QED
    BY <1>10, <2>2, <2>3, <2>4 DEF Onwards
<1>11. CASE CopyTarget(c)
  <2>1. old.at = "copy" /\ Onwards(new, old)
    BY <1>11, CopyTargetFields
  <2>2. old.todo = <<"main">> => Reached(pushed', from, Head(old.legs), source)
    BY <1>1, <1>2, <1>3, <1>4, <2>1 DEF Orderly, Here
  <2> QED
    BY <1>10, <2>1, <2>2 DEF Writing
<1>12. CASE Push(c)
  <2>1. CASE Onwards(new, old) /\ Pushing(c) # "main"
    <3>1. old.todo # <<"main">>
      BY <2>1, Tuples DEF Pushing
    <3> QED
      BY <1>10, <1>12, <2>1, <3>1 DEF Push, At, Writing
  <2>2. CASE ~ (Onwards(new, old) /\ Pushing(c) # "main")
    <3>1. /\ Same(new, old) /\ new.at \in {"move", "put"} /\ old.at = "push"
          /\ new.content = live[<<Pushing(c), Asked(c).from>>]
      BY <1>12, <2>2, PushFields
    <3>2. new.todo = <<"main">> => new.content = source
      <4> SUFFICES ASSUME new.todo = <<"main">> PROVE new.content = source
        OBVIOUS
      <4>1. Pushing(c) = "main"
        BY <3>1, Tuples DEF Same, Pushing
      <4>2. <<Pushing(c), Asked(c).from>> = Source(c)
        BY <4>1 DEF Source, Main
      <4> QED
        BY <1>2, <3>1, <4>2
    <3> QED
      BY <1>2, <1>5, <3>1, <3>2 DEF Same, Routed, Writing
  <2> QED
    BY <2>1, <2>2
<1>13. CASE Move(c)
  <2>1. new.at = "put" /\ Same(new, old) /\ new.content = old.content /\ old.at = "move"
    BY <1>13, GoFields DEF Move, At
  <2>2. old.todo = <<"main">> => old.content = source
    BY <1>1, <1>2, <1>3, <2>1 DEF Orderly
  <2> QED
    BY <1>2, <1>5, <2>1, <2>2 DEF Same, Routed, Writing
<1>14. CASE Put(c)
  <2>1. new.at = "copy" /\ Same(new, old) /\ new.content = old.content /\ old.at = "put"
    BY <1>14, GoFields DEF Put, At
  <2>2. old.todo = <<"main">> => old.content = source
    BY <1>1, <1>2, <1>3, <2>1 DEF Orderly
  <2>3. old.todo = <<"main">> => Reached(pushed', from, Head(old.legs), source)
    <3> SUFFICES ASSUME old.todo = <<"main">> PROVE Reached(pushed', from, Head(old.legs), source)
      OBVIOUS
    <3>1. Pushing(c) = "main"
      BY Tuples DEF Pushing
    <3>2. Trace(c) \in pushed'
      BY <1>14, <3>1 DEF Put, Write
    <3>3. Trace(c).from = from /\ Trace(c).to = Head(old.legs) /\ Trace(c).content = source
      BY <1>1, <1>2, <2>2 DEF Trace, Here
    <3> QED
      BY <3>2, <3>3 DEF Reached
  <2> QED
    BY <1>2, <1>5, <2>1, <2>2, <2>3 DEF Same, Routed, Writing
<1> QED
  BY <1>6, <1>7, <1>8, <1>9, <1>11, <1>12, <1>13, <1>14 DEF Continue, Writing

LEMMA ChainNext == TypeInv /\ LiveInv /\ ChainInv /\ [Next]_vars => ChainInv'
<1> SUFFICES ASSUME TypeInv, LiveInv, ChainInv, [Next]_vars PROVE ChainInv'
  OBVIOUS
<1>1. ASSUME NEW d \in Calls PROVE Orderly(d)'
  <2>1. Orderly(d)
    BY DEF ChainInv
  <2>2. CASE call'[d] = call[d]
    BY <2>1, <2>2, OrderlyKept
  <2>3. CASE Continue(d)
    BY <2>1, <2>3, OrderlyNext
  <2>4. CASE call'[d].at = "idle" \/ call'[d].at = "prepare"
    BY <2>4 DEF Orderly, Routed, Writing
  <2>5. ASSUME NEW asked \in Requests, NEW lifts \in {{}, locked}, Promote(d, asked, lifts)
        PROVE  call'[d].at = "prepare"
    BY <2>5, PromoteFields DEF TypeInv, RestTyped, LockTypeOK
  <2> QED
    BY <2>2, <2>3, <2>4, <2>5, WhoSteps
<1>2. ASSUME park.mode = "block", calm', NEW p \in pushed', p.to > p.from + 1
      PROVE  Reached(pushed', p.from, p.to - 1, p.content)
  <2>1. calm /\ pushed \subseteq pushed'
    BY <1>2, CalmBefore, PushedGrows
  <2>2. CASE p \in pushed
    BY <1>2, <2>1, <2>2 DEF ChainInv, NothingSkips, Reached
  <2>3. CASE p \notin pushed
    <3>1. PICK c \in Calls : At(c, "put") /\ p = Trace(c) /\ call[c].todo = <<"main">>
      BY <2>3, PushedBy
    <3>2. /\ p.from = Asked(c).from /\ p.to = Here(c) /\ p.content = call[c].content /\ Orderly(c)
          /\ call[c].at = "put"
      BY <3>1 DEF Trace, ChainInv, At
    <3>3. call[c].content = live[Source(c)] /\ Reached(pushed, p.from, p.to - 1, live[Source(c)])
      BY <1>2, <2>1, <3>1, <3>2 DEF Orderly, Routed, Writing
    <3> QED
      BY <2>1, <3>2, <3>3 DEF Reached
  <2> QED
    BY <2>2, <2>3
<1> QED
  BY <1>1, <1>2, ParkKept DEF ChainInv, NothingSkips, Reached

\* In mode "block" no content reaches an environment by going round the one
\* before it, whatever was forced or confirmed and wherever it was cut short.
THEOREM ChainIsFollowed == Spec => []NothingSkips
<1>1. Init => LiveInv /\ ChainInv
  BY LiveInit, ChainInit
<1>2. TypeInv /\ LiveInv /\ ChainInv /\ [Next]_vars => LiveInv' /\ ChainInv'
  BY LiveNext, ChainNext
<1>3. ChainInv => NothingSkips
  BY DEF ChainInv
<1> QED
  BY <1>1, <1>2, <1>3, TypeAlways, PTL DEF Spec
---------------------------------------------------------------------------
(* A number names one content *)

\* Every copy a promotion has touched holds the content that left.
Entire(touched, content) == \A k \in DOMAIN touched : touched[k].content = content

\* A number was given to that content only, if it was given at all.
Fits(number, content, given) == \A s \in given : s.number = number => s.content = content

\* What a promotion is about to give a number to: the content of its source,
\* which is the one the number was chosen for.
Naming(job, content, given) ==
    /\ job.at = "prepare" => job.touched = <<>>
    /\ job.at \notin {"idle", "prepare"} => Entire(job.touched, content)
    /\ job.at = "judge" => job.content = content
    /\ job.at \in Routed \union {"stamp", "snapshot"} => Fits(job.number, content, given)
    /\ job.at \in {"move", "put", "copy"} /\ job.todo = <<"main">> => job.content = content
    /\ job.at = "snapshot" => [number |-> job.number, content |-> content] \in given

Named(c) == Naming(call[c], live[Source(c)], served)

\* The numbers given are below the highest of the family, and each numbered
\* snapshot is the content its number was given to.
NumbersInv ==
    alone /\ calm /\ prompt /\ climbing =>
        /\ \A s, t \in served : s.number = t.number => s.content = t.content
        /\ \A s \in served : \E e \in Envs : s.number <= rows[e].number
        /\ \A e \in Envs : \A k \in Numbered(e) :
               [number |-> versions[e][k].number, content |-> versions[e][k].content] \in served
        /\ \A c \in Calls : Named(c)

LEMMA EntireSeq ==
  ASSUME NEW touched \in Seq(Stamp), NEW content, Entire(touched, content)
  PROVE  /\ \A e \in Envs : content \in Contents => /\ Entire(Append(touched, [env |-> e, content |-> content]), content)
                                                    /\ Entire(<<[env |-> e, content |-> content]>> \o touched, content)
         /\ touched # <<>> => Entire(Tail(touched), content) /\ Head(touched).content = content
<1>1. PICK n \in Nat : n = Len(touched) /\ DOMAIN touched = 1..n
  OBVIOUS
<1>2. ASSUME NEW e \in Envs, content \in Contents
      PROVE  /\ Entire(Append(touched, [env |-> e, content |-> content]), content)
             /\ Entire(<<[env |-> e, content |-> content]>> \o touched, content)
  <2>1. PICK s \in Stamp : s = [env |-> e, content |-> content]
    BY <1>2 DEF Stamp
  <2>2. s.content = content
    BY <2>1
  <2>3. Entire(Append(touched, s), content)
    <3> SUFFICES ASSUME NEW k \in DOMAIN Append(touched, s) PROVE Append(touched, s)[k].content = content
      BY DEF Entire
    <3>1. k \in 1..(n + 1) /\ (k \in 1..n \/ k = n + 1)
      BY <1>1
    <3>2. Append(touched, s)[k] = IF k = n + 1 THEN s ELSE touched[k]
      BY <1>1, <3>1
    <3> QED
      BY <1>1, <2>2, <3>1, <3>2 DEF Entire
  <2>4. Entire(<<s>> \o touched, content)
    <3> SUFFICES ASSUME NEW k \in DOMAIN (<<s>> \o touched) PROVE (<<s>> \o touched)[k].content = content
      BY DEF Entire
    <3>1. k \in 1..(n + 1) /\ (k = 1 \/ k - 1 \in 1..n)
      BY <1>1
    <3>2. (<<s>> \o touched)[k] = IF k = 1 THEN s ELSE touched[k - 1]
      BY <1>1, <3>1
    <3> QED
      BY <1>1, <2>2, <3>1, <3>2 DEF Entire
  <2> QED
    BY <2>1, <2>3, <2>4
<1>3. ASSUME touched # <<>>
      PROVE  Entire(Tail(touched), content) /\ Head(touched).content = content
  <2>1. 1 \in DOMAIN touched /\ Head(touched) = touched[1] /\ n > 0
    BY <1>1, <1>3
  <2>2. DOMAIN Tail(touched) = 1..(n - 1) /\ \A k \in 1..(n - 1) : Tail(touched)[k] = touched[k + 1]
    BY <1>1, <1>3, <2>1
  <2>3. \A k \in 1..(n - 1) : k + 1 \in 1..n
    BY <1>1
  <2> QED
    BY <1>1, <2>1, <2>2, <2>3 DEF Entire
<1> QED
  BY <1>2, <1>3

LEMMA NumbersInit == Init => NumbersInv
<1> SUFFICES ASSUME Init PROVE NumbersInv
  OBVIOUS
<1>1. \A c \in Calls : call[c].at = "idle"
  BY IdleTyped DEF Init
<1>2. \A c \in Calls : Named(c)
  BY <1>1 DEF Named, Naming, Routed, Writing
<1>3. ASSUME NEW e \in Envs PROVE Numbered(e) = {}
  <2>1. \/ versions[e] = <<>>
        \/ versions[e] = <<[content |-> live[Main(e)], number |-> 0]>>
    BY DEF Init
  <2> QED
    BY <2>1 DEF Numbered
<1> QED
  BY <1>2, <1>3 DEF Init, NumbersInv

\* The number a promotion chooses was given to the content of its source or to
\* none.
LEMMA NextFits ==
  ASSUME TypeInv, NEW e \in Envs, NEW content,
         \A s, t \in served : s.number = t.number => s.content = t.content,
         \A s \in served : \E f \in Envs : s.number <= rows[f].number,
         \A k \in Numbered(e) : [number |-> versions[e][k].number, content |-> versions[e][k].content] \in served
  PROVE  Fits(NextNumber(e, content), content, served)
<1>1. CASE Numbered(e) # {} /\ Release(e).content = content
  <2>1. PICK k \in Numbered(e) : Release(e) = versions[e][k]
    BY <1>1, ReleaseType DEF TypeInv, TablesTyped
  <2>2. [number |-> Release(e).number, content |-> content] \in served
    BY <1>1, <2>1
  <2>3. NextNumber(e, content) = Release(e).number
    BY <1>1 DEF NextNumber
  <2> QED
    BY <2>2, <2>3 DEF Fits
<1>2. CASE ~ (Numbered(e) # {} /\ Release(e).content = content)
  <2>1. Highest \in Nat /\ NextNumber(e, content) = Highest + 1
    BY <1>2, HighestType DEF NextNumber, TypeInv, TablesTyped
  <2>2. ASSUME NEW s \in served PROVE s.number # Highest + 1
    <3>1. PICK f \in Envs : s.number <= rows[f].number
      OBVIOUS
    <3>2. s.number \in Nat /\ rows[f].number \in Nat /\ rows[f].number <= Highest
      BY HighestType DEF TypeInv, TablesTyped, RestTyped
    <3> QED
      BY <2>1, <3>1, <3>2
  <2> QED
    BY <2>1, <2>2 DEF Fits
<1> QED
  BY <1>1, <1>2

\* A step keeps the number and the copies touched, unless it chooses or stamps.
LEMMA KeptFields ==
  ASSUME TypeInv, NEW c \in Calls, Continue(c), call'[c].at # "idle",
         ~ CopyTarget(c), ~ StampSnapshot(c)
  PROVE  /\ call'[c].touched = call[c].touched
         /\ call'[c].number = IF Judge(c) THEN NextNumber(Asked(c).from, call[c].content) ELSE call[c].number
<1>1. call[c] \in Job /\ JobTyped(call[c]) /\ call \in [Calls -> Job]
  BY HeldType DEF TypeInv, CallsTyped
<1>2. ~ End(c)
  BY EndFields DEF TypeInv
<1>3. CASE Prepare(c)
  <2>1. PICK content : content = live[Source(c)]
    OBVIOUS
  <2>2. call'[c] = [call[c] EXCEPT !.at = "judge", !.content = content]
    BY <1>1, <1>3, <2>1 DEF Prepare, Step
  <2> QED
    BY <1>1, <1>3, <2>2 DEF Job, Prepare, Judge, At
<1>4. CASE Judge(c)
  <2>1. PICK route : route = Route(Asked(c))
    OBVIOUS
  <2>2. PICK number : number = NextNumber(Asked(c).from, call[c].content)
    OBVIOUS
  <2>3. call'[c] = [call[c] EXCEPT !.at = IF Len(route) = 1 THEN "lock" ELSE "legs",
                                   !.legs = route, !.number = number,
                                   !.todo = IF Len(route) = 1 THEN ToDo(Asked(c), Asked(c).to) ELSE <<>>,
                                   !.ids = IF Len(route) = 1 THEN Written(Asked(c).to) ELSE {}]
    BY <1>1, <1>2, <1>4, <2>1, <2>2 DEF Judge, Step
  <2> QED
    BY <1>1, <1>4, <2>2, <2>3 DEF Job
<1>5. CASE Legs(c)
  <2>1. PICK ids : call'[c] = [call[c] EXCEPT !.at = "lock", !.ids = ids]
    BY <1>1, <1>5 DEF Legs, Step
  <2> QED
    BY <1>1, <1>5, <2>1 DEF Job, Legs, Judge, At
<1>6. CASE CheckLocks(c)
  <2>1. PICK at : call'[c] = [call[c] EXCEPT !.at = at, !.ids = {}, !.lifts = {}]
    BY <1>1, <1>2, <1>6 DEF CheckLocks, Step
  <2> QED
    BY <1>1, <1>6, <2>1 DEF Job, CheckLocks, Judge, At
<1>7. CASE Leg(c)
  <2>1. PICK todo : call'[c] = [call[c] EXCEPT !.at = "push", !.todo = todo]
    BY <1>1, <1>7 DEF Leg, Step
  <2> QED
    BY <1>1, <1>7, <2>1 DEF Job, Leg, Judge, At
<1>8. CASE Push(c)
  <2>1. CASE Step(c, Onward(call[c])) /\ Pushing(c) # "main"
    <3>1. call'[c] = Onward(call[c]) /\ call[c].at = "push"
      BY <1>1, <1>8, <2>1 DEF Push, Step, At
    <3>2. call[c].todo = <<"sub", "main">>
      BY <1>1, <2>1, <3>1, Tuples DEF JobTyped, Pushing, Writing
    <3>3. Len(call[c].todo) > 1
      BY <3>2
    <3>4. PICK todo : call'[c] = [call[c] EXCEPT !.at = "push", !.todo = todo]
      BY <3>1, <3>3 DEF Onward
    <3> QED
      BY <1>1, <3>1, <3>4 DEF Job, Judge, At
  <2>2. CASE ~ (Step(c, Onward(call[c])) /\ Pushing(c) # "main")
    <3>1. call'[c] = [call[c] EXCEPT !.at = IF Clashes(Pushing(c), Here(c)) THEN "move" ELSE "put",
                                     !.found = OnTarget(Target(c)), !.content = live[<<Pushing(c), Asked(c).from>>]]
      BY <1>1, <1>2, <1>8, <2>2 DEF Push, Step
    <3> QED
      BY <1>1, <1>8, <3>1 DEF Job, Push, Judge, At
  <2> QED
    BY <2>1, <2>2
<1>9. ASSUME NEW label, Go(c, label), ~ Judge(c)
      PROVE  call'[c].touched = call[c].touched /\ call'[c].number = call[c].number
  <2>1. call'[c] = [call[c] EXCEPT !.at = label]
    BY <1>1, <1>9 DEF Go, Step
  <2> QED
    BY <1>1, <2>1 DEF Job
<1>10. CASE Move(c) \/ Put(c) \/ StampRow(c)
  BY <1>9, <1>10 DEF Move, Put, StampRow, Judge, At
<1>11. ~ PutRefused(c)
  BY <1>2 DEF PutRefused
<1> QED
  BY <1>3, <1>4, <1>5, <1>6, <1>7, <1>8, <1>10, <1>11 DEF Continue

LEMMA CopyTargetTouches ==
  ASSUME TypeInv, NEW c \in Calls, CopyTarget(c), NEW content \in Contents, Entire(call[c].touched, content),
         call[c].todo = <<"main">> => call[c].content = content
  PROVE  call'[c].number = call[c].number /\ Entire(call'[c].touched, content)
<1>1. /\ call[c] \in Job /\ call[c].at = "copy" /\ call \in [Calls -> Job]
      /\ call[c].todo \in {<<"main">>, <<"sub", "main">>} /\ Here(c) \in Envs /\ call[c].asked.from \in Envs
  BY HeldType, WritingType DEF CopyTarget, At, TypeInv, CallsTyped, JobTyped, Writing, Asked
<1>2. CASE call[c].todo = <<"sub", "main">>
  <2>1. Pushing(c) # "main" /\ Len(call[c].todo) > 1
    BY <1>2, Tuples DEF Pushing
  <2>2. call'[c] = Onward(call[c])
    BY <1>1, <2>1 DEF CopyTarget, Step
  <2>3. PICK todo : call'[c] = [call[c] EXCEPT !.at = "push", !.todo = todo]
    BY <2>1, <2>2 DEF Onward
  <2> QED
    BY <1>1, <2>3 DEF Job
<1>3. CASE call[c].todo = <<"main">>
  <2>1. Pushing(c) = "main" /\ call[c].content = content
    BY <1>3, Tuples DEF Pushing
  <2>2. PICK s : s = Append(call[c].touched, [env |-> Here(c), content |-> content])
    OBVIOUS
  <2>10. s \in Seq(Stamp)
    <3>1. [env |-> Here(c), content |-> content] \in Stamp /\ call[c].touched \in Seq(Stamp)
      BY <1>1 DEF Stamp, Job
    <3> QED
      BY <2>2, <3>1
  <2>3. Entire(s, content)
    BY <1>1, <2>2, EntireSeq DEF Job
  <2>4. PICK held : held = [call[c] EXCEPT !.touched = s]
    OBVIOUS
  <2>5. /\ held.touched = s /\ held.content = content /\ held.number = call[c].number /\ held.asked = call[c].asked
        /\ held.todo = call[c].todo /\ held.legs = call[c].legs /\ held \in Job
    BY <1>1, <2>1, <2>4, <2>10 DEF Job
  <2>6. call'[c] = Onward(held)
    BY <1>1, <2>1, <2>2, <2>4 DEF CopyTarget, Step
  <2>7. ~ (Len(held.todo) > 1)
    BY <1>3, <2>5
  <2>8. CASE Len(held.legs) > 1
    <3>1. PICK legs : call'[c] = [held EXCEPT !.at = "leg", !.todo = <<>>, !.legs = legs]
      BY <2>6, <2>7, <2>8 DEF Onward
    <3> QED
      BY <2>3, <2>5, <3>1 DEF Job
  <2>9. CASE ~ (Len(held.legs) > 1)
    <3>1. PICK whole : whole = <<[env |-> held.asked.from, content |-> held.content]>> \o held.touched
      OBVIOUS
    <3>2. call'[c] = [held EXCEPT !.at = "stamp", !.todo = <<>>, !.legs = <<>>, !.touched = whole]
      BY <2>6, <2>7, <2>9, <3>1 DEF Onward
    <3>3. Entire(whole, content)
      BY <1>1, <2>3, <2>5, <2>10, <3>1, EntireSeq
    <3> QED
      BY <2>5, <3>2, <3>3 DEF Job
  <2> QED
    BY <2>8, <2>9
<1> QED
  BY <1>1, <1>2, <1>3

LEMMA SnapshotFields ==
  ASSUME TypeInv, NEW c \in Calls, StampSnapshot(c), call'[c].at # "idle"
  PROVE  /\ call'[c].at = "stamp" /\ call'[c].number = call[c].number
         /\ call'[c].touched = Tail(call[c].touched)
<1>1. call[c] \in Job /\ call \in [Calls -> Job]
  BY DEF TypeInv, CallsTyped
<1>2. ~ End(c)
  BY EndFields DEF TypeInv
<1>3. PICK rest : rest = Tail(call[c].touched)
  OBVIOUS
<1>4. call'[c] = [call[c] EXCEPT !.at = "stamp", !.touched = rest]
  BY <1>1, <1>2, <1>3 DEF StampSnapshot, Step
<1> QED
  BY <1>1, <1>3, <1>4 DEF Job

\* What is given a number, and where it shows.
LEMMA ServedStep ==
  ASSUME [Next]_vars
  PROVE  /\ alone' => alone
         /\ prompt' => prompt
         /\ climbing' => climbing
         /\ served' = served \/ \E c \in Calls : StampRow(c)
<1>1. ASSUME NEW c \in Calls, NEW asked, NEW lifts, Promote(c, asked, lifts)
      PROVE  (alone' => alone) /\ prompt' = prompt /\ climbing' = climbing /\ served' = served
  BY <1>1 DEF Promote
<1>2. ASSUME NEW c \in Calls, Continue(c)
      PROVE  alone' = alone /\ (prompt' => prompt) /\ (climbing' => climbing) /\ (served' = served \/ StampRow(c))
  <2>1. CASE StampRow(c)
    BY <2>1 DEF StampRow
  <2>2. CASE StampSnapshot(c)
    BY <2>2 DEF StampSnapshot
  <2>3. CASE Move(c) \/ Put(c)
    BY <2>3 DEF Move, Put, Undisturbed
  <2> QED
    BY <1>2, <2>1, <2>2, <2>3 DEF Continue, Prepare, Judge, Legs, CheckLocks, Leg, Push, PutRefused, CopyTarget, history
<1>3. ASSUME NEW c \in Calls, Throw(c) \/ AnswerLost(c)
      PROVE  alone' = alone /\ prompt' = prompt /\ climbing' = climbing /\ served' = served
  BY <1>3 DEF Throw, AnswerLost, Undisturbed, history
<1>4. ASSUME NEW e \in Envs, TakeSnapshot(e) \/ Sync(e) \/ \E content \in Contents : Edit(e, content)
      PROVE  alone' = alone /\ prompt' = prompt /\ climbing' = climbing /\ served' = served
  BY <1>4 DEF TakeSnapshot, Sync, Edit, Touches, history
<1>5. ASSUME NEW w \in Workflows, EditLock(w) \/ Archive(w)
      PROVE  alone' = alone /\ prompt' = prompt /\ climbing' = climbing /\ served' = served
  BY <1>5 DEF EditLock, Archive, Touches
<1>6. CASE Restart \/ UNCHANGED vars
  BY <1>6 DEF Restart, vars, history
<1> QED
  BY <1>1, <1>2, <1>3, <1>4, <1>5, <1>6 DEF Next

LEMMA RowsStep ==
  ASSUME TypeInv, [Next]_vars, NEW e \in Envs
  PROVE  rows'[e].number = rows[e].number \/ \E c \in Calls : StampRow(c)
<1>1. ASSUME NEW f, NEW content, Copied(f, content) PROVE rows'[e].number = rows[e].number
  BY <1>1 DEF Copied, TypeInv, TablesTyped
<1>2. ASSUME NEW c \in Calls, Continue(c) PROVE rows'[e].number = rows[e].number \/ StampRow(c)
  BY <1>1, <1>2 DEF Continue, Prepare, Judge, Legs, CheckLocks, Leg, Push, Move, Put, PutRefused, CopyTarget,
                    StampSnapshot, Refreshed, Undisturbed, tables
<1>3. ASSUME ~ \E c \in Calls : Continue(c) PROVE rows'[e].number = rows[e].number
  BY <1>1, <1>3 DEF Next, Promote, Throw, AnswerLost, Undisturbed, TakeSnapshot, Sync, Edit, EditLock, Archive,
                    Touches, Restart, vars, tables
<1> QED
  BY <1>2, <1>3

LEMMA VersionsStep ==
  ASSUME [Next]_vars
  PROVE  \/ versions' = versions
         \/ \E c \in Calls : StampSnapshot(c)
         \/ \E e \in Envs : TakeSnapshot(e)
BY DEF Next, Promote, Continue, Throw, AnswerLost, Undisturbed, Prepare, Judge, Legs, CheckLocks, Leg, Push, Move, Put,
       PutRefused, CopyTarget, StampRow, Sync, Edit, EditLock, Archive, Touches, Restart, vars, tables, Copied, Refreshed
LEMMA GivenBy ==
  ASSUME NEW c \in Calls, Continue(c)
  PROVE  served' = IF StampRow(c) THEN served \union {[number |-> call[c].number, content |-> Stamped(c).content]}
                                  ELSE served
<1>1. CASE StampRow(c)
  BY <1>1 DEF StampRow
<1>2. CASE Move(c) \/ Put(c)
  BY <1>2 DEF Move, Put, Undisturbed, StampRow, At
<1> QED
  BY <1>1, <1>2 DEF Continue, Prepare, Judge, Legs, CheckLocks, Leg, Push, PutRefused, CopyTarget, StampSnapshot, history

LEMMA NamedNext ==
  ASSUME TypeInv, LiveInv, [Next]_vars, calm', NEW c \in Calls, Named(c), Continue(c),
         \A s, t \in served : s.number = t.number => s.content = t.content,
         \A s \in served : \E e \in Envs : s.number <= rows[e].number,
         \A e \in Envs : \A k \in Numbered(e) :
             [number |-> versions[e][k].number, content |-> versions[e][k].content] \in served
  PROVE  Named(c)'
<1> DEFINE new == call'[c]
           old == call[c]
<1>1. /\ JobTyped(old) /\ old \in Job /\ old.at # "idle" /\ Asked(c) = old.asked /\ Asked(c).from \in Envs
      /\ Source(c) \in Workflows
  BY HeldType, OnlyItself DEF Asked, TypeInv
<1>2. PICK source : source = live[Source(c)]
  OBVIOUS
<1>3. Naming(old, source, served) /\ old.touched \in Seq(Stamp) /\ source \in Contents
  BY <1>1, <1>2 DEF Named, Job, TypeInv, RestTyped
<1> SUFFICES ASSUME new.at # "idle" PROVE new.asked = old.asked /\ Naming(new, source, served')
  <2>1. live'[Source(c)] = source
    BY <1>1, <1>2, LeftAlone
  <2>2. new.asked = old.asked => live'[Source(c)'] = live'[Source(c)]
    BY DEF Source, Asked
  <2>3. new.at = "idle" => Named(c)'
    BY DEF Named, Naming, Routed, Writing
  <2> QED
    BY <2>1, <2>2, <2>3 DEF Named
<1>4. served' = IF StampRow(c) THEN served \union {[number |-> old.number, content |-> Stamped(c).content]} ELSE served
  BY GivenBy
<1>5. ~ CopyTarget(c) /\ ~ StampSnapshot(c) =>
        /\ new.touched = old.touched
        /\ new.number = IF Judge(c) THEN NextNumber(Asked(c).from, old.content) ELSE old.number
  BY KeptFields
<1> HIDE DEF new, old
<1>6. CASE Prepare(c)
  <2>1. new.at = "judge" /\ new.asked = old.asked /\ old.at = "prepare" /\ ~ StampRow(c) /\ ~ CopyTarget(c) /\ ~ StampSnapshot(c)
    BY <1>6, PrepareFields DEF Same, Prepare, StampRow, CopyTarget, StampSnapshot, At, new, old
  <2>2. new.content = source
    BY <1>1, <1>2, <1>6 DEF Prepare, Step, TypeInv, CallsTyped, Job, new, old
  <2>3. new.touched = <<>>
    BY <1>3, <1>5, <2>1 DEF Naming
  <2> QED
    BY <2>1, <2>2, <2>3 DEF Naming, Entire, Routed, Writing
<1>7. CASE Judge(c)
  <2>1. /\ new.at \in {"lock", "legs"} /\ new.asked = old.asked /\ old.at = "judge"
        /\ ~ StampRow(c) /\ ~ CopyTarget(c) /\ ~ StampSnapshot(c)
    BY <1>7, JudgeFields DEF Judge, StampRow, CopyTarget, StampSnapshot, At, new, old
  <2>2. new.touched = old.touched /\ new.number = NextNumber(Asked(c).from, source)
    BY <1>3, <1>5, <1>7, <2>1 DEF Naming
  <2>3. Fits(new.number, source, served)
    BY <1>1, <2>2, NextFits
  <2> QED
    BY <1>3, <1>4, <2>1, <2>2, <2>3 DEF Naming, Routed
<1>8. ASSUME new.at \in {"lock", "leg", "push", "stamp"}, new.asked = old.asked, old.at \in Routed,
             new.number = old.number, Entire(new.touched, source), served' = served
      PROVE  Naming(new, source, served')
  BY <1>3, <1>8 DEF Naming, Routed, Writing
<1>9. CASE Legs(c) \/ CheckLocks(c) \/ Leg(c)
  <2>1. /\ new.at \in {"lock", "leg", "push"} /\ new.asked = old.asked /\ old.at \in {"legs", "lock", "leg"}
    BY <1>9, LegsFields, CheckLocksFields, LegFields DEF Same, new, old
  <2>2. ~ StampRow(c) /\ ~ CopyTarget(c) /\ ~ StampSnapshot(c) /\ ~ Judge(c)
    BY <2>1 DEF StampRow, CopyTarget, StampSnapshot, Judge, At, old
  <2> QED
    BY <1>3, <1>4, <1>5, <1>8, <2>1, <2>2 DEF Routed, Naming
<1>10. CASE Push(c)
  <2>1. old.at = "push" /\ ~ StampRow(c) /\ ~ CopyTarget(c) /\ ~ StampSnapshot(c) /\ ~ Judge(c)
    BY <1>10 DEF Push, StampRow, CopyTarget, StampSnapshot, Judge, At, old
  <2>2. CASE Onwards(new, old)
    BY <1>3, <1>4, <1>5, <1>8, <2>1, <2>2 DEF Onwards, Routed, Writing, Naming
  <2>3. CASE ~ Onwards(new, old)
    <3>1. /\ new.asked = old.asked /\ new.todo = old.todo /\ new.at \in {"move", "put"}
          /\ new.content = live[<<Pushing(c), Asked(c).from>>]
      BY <1>10, <2>3, PushFields DEF Same, new, old
    <3>2. new.todo = <<"main">> => new.content = source
      BY <1>2, <3>1, Tuples DEF Pushing, Source, Main, old
    <3> QED
      BY <1>3, <1>4, <1>5, <2>1, <3>1, <3>2 DEF Routed, Writing, Naming
  <2> QED
    BY <2>2, <2>3
<1>11. CASE Move(c) \/ Put(c)
  <2>1. /\ old.at \in {"move", "put"} /\ new.at \in {"put", "copy"} /\ new.asked = old.asked /\ new.todo = old.todo
        /\ new.content = old.content /\ ~ StampRow(c) /\ ~ CopyTarget(c) /\ ~ StampSnapshot(c) /\ ~ Judge(c)
    BY <1>11, GoFields DEF Move, Put, Same, StampRow, CopyTarget, StampSnapshot, Judge, At, new, old
  <2> QED
    BY <1>3, <1>4, <1>5, <2>1 DEF Routed, Writing, Naming
<1>12. CASE PutRefused(c)
  BY <1>12, EndFields DEF PutRefused, TypeInv, new
<1>13. CASE CopyTarget(c)
  <2>1. old.at = "copy" /\ Onwards(new, old)
    BY <1>13, CopyTargetFields DEF new, old
  <2>2. ~ StampRow(c) /\ (old.todo = <<"main">> => old.content = source) /\ Entire(old.touched, source)
    BY <1>3, <2>1 DEF StampRow, At, Naming, old
  <2>3. new.number = old.number /\ Entire(new.touched, source)
    BY <1>3, <1>13, <2>2, CopyTargetTouches DEF new, old
  <2> QED
    BY <1>4, <1>8, <2>1, <2>2, <2>3 DEF Onwards, Routed, Writing
<1>14. CASE StampRow(c)
  <2>1. /\ old.at = "stamp" /\ new.at = "snapshot" /\ new.asked = old.asked
        /\ ~ CopyTarget(c) /\ ~ StampSnapshot(c) /\ ~ Judge(c)
    BY <1>14, GoFields DEF StampRow, Same, CopyTarget, StampSnapshot, Judge, At, new, old
  <2>2. Stamped(c).content = source
    <3>1. old.touched # <<>> /\ Entire(old.touched, source)
      BY <1>1, <1>3, <2>1 DEF JobTyped, Naming
    <3> QED
      BY <1>3, <3>1, EntireSeq DEF Stamped, old
  <2>3. served' = served \union {[number |-> old.number, content |-> source]}
    BY <1>4, <1>14, <2>2
  <2>4. Fits(old.number, source, served')
    BY <1>3, <2>1, <2>3 DEF Naming, Fits
  <2> QED
    BY <1>3, <1>5, <2>1, <2>3, <2>4 DEF Routed, Writing, Naming
<1>15. CASE StampSnapshot(c)
  <2>1. /\ old.at = "snapshot" /\ new.at = "stamp" /\ new.asked = old.asked /\ new.number = old.number
        /\ new.touched = Tail(old.touched) /\ ~ StampRow(c)
    BY <1>15, SnapshotFields, StampFields DEF StampSnapshot, StampRow, Same, At, new, old
  <2>2. Entire(new.touched, source)
    <3>1. old.touched # <<>> /\ Entire(old.touched, source)
      BY <1>1, <1>3, <2>1 DEF JobTyped, Naming
    <3> QED
      BY <1>3, <2>1, <3>1, EntireSeq
  <2> QED
    BY <1>3, <1>4, <2>1, <2>2 DEF Routed, Writing, Naming
<1> QED
  BY <1>6, <1>7, <1>9, <1>10, <1>11, <1>12, <1>13, <1>14, <1>15 DEF Continue
\* The content a number is given to is the one it was chosen for.
LEMMA StampedIsSource ==
  ASSUME TypeInv, NEW c \in Calls, call[c].at \in {"stamp", "snapshot"}, Named(c)
  PROVE  Stamped(c).content = live[Source(c)] /\ Stamped(c).env \in Envs
<1>1. /\ call[c].touched \in Seq(Stamp) /\ call[c].touched # <<>> /\ Entire(call[c].touched, live[Source(c)])
      /\ live[Source(c)] \in Contents
  BY HeldType DEF JobTyped, Job, Named, Naming
<1>2. Stamped(c) \in Stamp
  BY <1>1 DEF Stamped
<1> QED
  BY <1>1, <1>2, EntireSeq DEF Stamped, Stamp

\* A number that is given was given to that content or to none, and no row
\* goes below it.
LEMMA StampGives ==
  ASSUME TypeInv, NEW c \in Calls, StampRow(c), climbing', Named(c)
  PROVE  /\ served' = served \union {[number |-> call[c].number, content |-> live[Source(c)]]}
         /\ Fits(call[c].number, live[Source(c)], served)
         /\ \E e \in Envs : call[c].number <= rows'[e].number
         /\ \A e \in Envs : rows[e].number <= rows'[e].number
<1>1. call[c].at = "stamp" /\ call[c].number \in Nat
  BY HeldType DEF StampRow, At, Job
<1>2. Stamped(c).content = live[Source(c)] /\ Stamped(c).env \in Envs
  BY <1>1, StampedIsSource
<1>3. PICK e \in Envs : e = Stamped(c).env
  BY <1>2
<1>4. rows' = [rows EXCEPT ![e].number = call[c].number] /\ call[c].number >= rows[e].number
  BY <1>3 DEF StampRow
<1>5. Fits(call[c].number, live[Source(c)], served)
  BY <1>1 DEF Named, Naming
<1>6. \A f \in Envs : rows[f].number \in Nat /\ rows'[f].number = IF f = e THEN call[c].number ELSE rows[f].number
  BY <1>4 DEF TypeInv, TablesTyped
<1>7. rows'[e].number = call[c].number /\ call[c].number <= rows'[e].number
  BY <1>1, <1>6
<1>8. \A f \in Envs : rows[f].number <= rows'[f].number
  BY <1>1, <1>4, <1>6
<1> QED
  BY <1>2, <1>5, <1>7, <1>8 DEF StampRow

LEMMA NumbersNext == TypeInv /\ LiveInv /\ OneInv /\ NumbersInv /\ [Next]_vars => NumbersInv'
<1> SUFFICES ASSUME TypeInv, LiveInv, OneInv, NumbersInv, [Next]_vars, alone', calm', prompt', climbing'
             PROVE  /\ \A s, t \in served' : s.number = t.number => s.content = t.content
                    /\ \A s \in served' : \E e \in Envs : s.number <= rows'[e].number
                    /\ \A e \in Envs : \A k \in Numbered(e)' :
                           [number |-> versions'[e][k].number, content |-> versions'[e][k].content] \in served'
                    /\ \A c \in Calls : Named(c)'
  BY DEF NumbersInv
<1>1. alone /\ calm /\ prompt /\ climbing
  BY ServedStep, CalmBefore
<1>2. /\ \A s, t \in served : s.number = t.number => s.content = t.content
      /\ \A s \in served : \E e \in Envs : s.number <= rows[e].number
      /\ \A e \in Envs : \A k \in Numbered(e) :
             [number |-> versions[e][k].number, content |-> versions[e][k].content] \in served
      /\ \A c \in Calls : Named(c)
  BY <1>1 DEF NumbersInv
<1>3. served' = served \/ \E c \in Calls : StampRow(c)
  BY ServedStep
<1>4. served \subseteq served'
  BY <1>3 DEF StampRow
<1>5. \A s, t \in served' : s.number = t.number => s.content = t.content
  <2>1. CASE served' = served
    BY <1>2, <2>1
  <2>2. ASSUME NEW c \in Calls, StampRow(c)
        PROVE  \A s, t \in served' : s.number = t.number => s.content = t.content
    <3>1. /\ served' = served \union {[number |-> call[c].number, content |-> live[Source(c)]]}
          /\ Fits(call[c].number, live[Source(c)], served)
      BY <1>2, <2>2, StampGives
    <3> QED
      BY <1>2, <3>1 DEF Fits
  <2> QED
    BY <1>3, <2>1, <2>2
<1>6. ASSUME NEW s \in served' PROVE \E e \in Envs : s.number <= rows'[e].number
  <2>1. ASSUME NEW c \in Calls, StampRow(c) PROVE \E e \in Envs : s.number <= rows'[e].number
    <3>1. /\ served' = served \union {[number |-> call[c].number, content |-> live[Source(c)]]}
          /\ \E e \in Envs : call[c].number <= rows'[e].number
          /\ \A e \in Envs : rows[e].number <= rows'[e].number
      BY <1>2, <2>1, StampGives
    <3>2. CASE s \in served
      <4>1. PICK e \in Envs : s.number <= rows[e].number
        BY <1>2, <3>2
      <4>2. s.number \in Nat /\ rows[e].number \in Nat /\ rows'[e].number \in Nat /\ rows[e].number <= rows'[e].number
        BY <3>1, <3>2, TypeNext DEF TypeInv, TablesTyped, RestTyped
      <4> QED
        BY <4>1, <4>2
    <3>3. CASE s = [number |-> call[c].number, content |-> live[Source(c)]]
      BY <3>1, <3>3
    <3> QED
      BY <3>1, <3>2, <3>3
  <2>2. ASSUME ~ \E c \in Calls : StampRow(c) PROVE \E e \in Envs : s.number <= rows'[e].number
    <3>1. PICK e \in Envs : s.number <= rows[e].number
      BY <1>2, <1>3, <2>2
    <3>2. rows'[e].number = rows[e].number
      BY <2>2, RowsStep
    <3> QED
      BY <3>1, <3>2
  <2> QED
    BY <2>1, <2>2
<1>7. ASSUME NEW e \in Envs, NEW k \in Numbered(e)'
      PROVE  [number |-> versions'[e][k].number, content |-> versions'[e][k].content] \in served'
  <2>1. k \in DOMAIN versions'[e] /\ versions'[e][k].number # 0 /\ versions[e] \in Seq(Snapshot)
    BY DEF Numbered, TypeInv, TablesTyped
  <2>2. ASSUME k \in DOMAIN versions[e], versions'[e][k] = versions[e][k]
        PROVE  [number |-> versions'[e][k].number, content |-> versions'[e][k].content] \in served'
    BY <1>2, <1>4, <2>1, <2>2 DEF Numbered
  <2>3. CASE versions' = versions
    BY <2>1, <2>2, <2>3
  <2>4. ASSUME NEW c \in Calls, StampSnapshot(c)
        PROVE  [number |-> versions'[e][k].number, content |-> versions'[e][k].content] \in served'
    <3>1. call[c].at = "snapshot" /\ served' = served
      BY <2>4 DEF StampSnapshot, At
    <3>2. PICK f \in Envs : f = Stamped(c).env
      BY <1>2, <3>1, StampedIsSource
    <3>3. [number |-> call[c].number, content |-> live[Source(c)]] \in served
      BY <1>2, <3>1 DEF Named, Naming
    <3>4. Stamped(c).content = live[Source(c)]
      BY <1>2, <3>1, StampedIsSource
    <3>5. PICK last \in DOMAIN versions[f] : last = Len(versions[f])
      <4>1. Len(versions[f]) # 0 /\ versions[f] \in Seq(Snapshot)
        BY <2>4, <3>2 DEF StampSnapshot, TypeInv, TablesTyped
      <4> QED
        BY <4>1
    <3>6. /\ versions' = [versions EXCEPT ![f][last].number = call[c].number]
          /\ versions[f][last].content = live[Source(c)] /\ versions[f] \in Seq(Snapshot)
      BY <2>4, <3>2, <3>4, <3>5 DEF StampSnapshot, TypeInv, TablesTyped
    <3>7. versions[f][last] \in Snapshot
      BY <3>5, <3>6
    <3>8. CASE e = f /\ k = last
      <4>1. versions'[e][k] = [versions[f][last] EXCEPT !.number = call[c].number]
        BY <3>5, <3>6, <3>8 DEF TypeInv, TablesTyped
      <4> QED
        BY <3>1, <3>3, <3>6, <3>7, <4>1 DEF Snapshot
    <3>9. CASE ~ (e = f /\ k = last)
      <4>1. k \in DOMAIN versions[e] /\ versions'[e][k] = versions[e][k]
        BY <2>1, <3>5, <3>6, <3>9 DEF TypeInv, TablesTyped
      <4> QED
        BY <2>2, <4>1
    <3> QED
      BY <3>8, <3>9
  <2>5. ASSUME NEW f \in Envs, TakeSnapshot(f)
        PROVE  [number |-> versions'[e][k].number, content |-> versions'[e][k].content] \in served'
    <3>1. PICK taken : taken = [content |-> Head(taking[f]), number |-> 0]
      OBVIOUS
    <3>2. versions' = [versions EXCEPT ![f] = Append(@, taken)] /\ taken.number = 0
      BY <2>5, <3>1 DEF TakeSnapshot
    <3>3. versions'[e] = IF e = f THEN Append(versions[e], taken) ELSE versions[e]
      BY <3>2 DEF TypeInv, TablesTyped
    <3>4. k \in DOMAIN versions[e] /\ versions'[e][k] = versions[e][k]
      BY <2>1, <3>2, <3>3
    <3> QED
      BY <2>2, <3>4
  <2> QED
    BY <2>3, <2>4, <2>5, VersionsStep
<1>8. ASSUME NEW d \in Calls PROVE Named(d)'
  <2>1. Named(d)
    BY <1>2
  <2>2. CASE call'[d].at = "idle"
    BY <2>2 DEF Named, Naming, Routed, Writing
  <2>3. CASE Continue(d)
    BY <1>2, <2>1, <2>3, NamedNext
  <2>4. ASSUME NEW asked \in Requests, NEW lifts \in {{}, locked}, Promote(d, asked, lifts)
        PROVE  Named(d)'
    <3>1. call'[d].at = "prepare"
      BY <2>4, PromoteFields DEF TypeInv, RestTyped, LockTypeOK
    <3>2. call'[d].touched = <<>>
      BY <2>4 DEF Promote, Step, Idle, TypeInv, CallsTyped
    <3> QED
      BY <3>1, <3>2 DEF Named, Naming, Routed, Writing
  <2>5. CASE call'[d] = call[d] /\ call[d].at # "idle"
    <3>1. live'[Source(d)] = live[Source(d)] /\ Source(d)' = Source(d)
      BY <2>5, LeftAlone DEF Source, Asked
    <3>2. served' = served
      <4> SUFFICES ASSUME NEW c \in Calls, StampRow(c) PROVE FALSE
        BY <1>3
      <4>1. call[c].at = "stamp" /\ call'[c].at = "snapshot"
        BY GoFields DEF StampRow, At
      <4>2. c = d
        BY <1>1, <2>5, <4>1 DEF OneInv
      <4> QED
        BY <2>5, <4>1, <4>2
    <3> QED
      BY <2>1, <2>5, <3>1, <3>2 DEF Named
  <2> QED
    BY <2>2, <2>3, <2>4, <2>5, WhoSteps
<1> QED
  BY <1>5, <1>6, <1>7, <1>8

\* "Le numéro identifie un contenu": promotions that do not overlap, with
\* nobody editing under them and snapshots taken before the stamps, never give
\* one number to two contents, wherever they fail, restart or are retried.
THEOREM NumbersNameContents == Spec => []NumberNamesOneContent
<1>1. Init => LiveInv /\ OneInv /\ NumbersInv
  BY LiveInit, OneInit, NumbersInit
<1>2. TypeInv /\ LiveInv /\ OneInv /\ NumbersInv /\ [Next]_vars => LiveInv' /\ OneInv' /\ NumbersInv'
  BY LiveNext, OneNext, NumbersNext
<1>3. NumbersInv => NumberNamesOneContent
  BY DEF NumbersInv, NumberNamesOneContent
<1> QED
  BY <1>1, <1>2, <1>3, TypeAlways, PTL DEF Spec
=============================================================================
