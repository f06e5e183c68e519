-------------------------- MODULE ErrorWatch_proofs --------------------------
(***************************************************************************)
(* Theorems about ErrorWatch, for any number of checks at once, of         *)
(* executions, instances, pages, failed calls, restarts and edits of the   *)
(* monitor.                                                                *)
(***************************************************************************)
EXTENDS ErrorWatch, FiniteSetTheorems, WellFoundedInduction, TLAPS

---------------------------------------------------------------------------
(* Extrema of sets of naturals *)

LEMMA LeastNat ==
  ASSUME NEW S, S \subseteq Nat, S # {}
  PROVE  \E x \in S : \A y \in S : x <= y
<1> DEFINE Less == {p \in Nat \X Nat : p[1] < p[2]}
<1>1. IsWellFoundedOn(Less, Nat)
  BY NatLessThanWellFounded DEF OpToRel
<1>2. PICK x \in S : \A y \in S : ~ (<<y, x>> \in Less)
  <2> HIDE DEF Less
  <2> QED
    BY <1>1, WFMin
<1>3. \A y \in S : x <= y
  <2> TAKE y \in S
  <2>1. ~ (<<y, x>> \in Less) /\ x \in Nat /\ y \in Nat
    BY <1>2
  <2>2. <<y, x>> \in Nat \X Nat /\ <<y, x>>[1] = y /\ <<y, x>>[2] = x
    BY <2>1
  <2> QED
    BY <2>1, <2>2
<1> QED
  BY <1>2, <1>3

LEMMA GreatestNat ==
  ASSUME NEW S, NEW n \in Nat, S \subseteq 0..n, S # {}
  PROVE  \E x \in S : \A y \in S : y <= x
<1> DEFINE Mirror == {x \in 0..n : n - x \in S}
<1>1. PICK s \in S : s \in 0..n
  OBVIOUS
<1>2. Mirror \subseteq Nat /\ n - s \in Mirror
  <2>1. n - (n - s) = s /\ n - s \in 0..n
    BY <1>1
  <2> QED
    BY <1>1, <2>1
<1>3. PICK x \in Mirror : \A y \in Mirror : x <= y
  <2> HIDE DEF Mirror
  <2> QED
    BY <1>2, LeastNat
<1>4. \A y \in S : n - y \in Mirror
  <2> TAKE y \in S
  <2>1. n - (n - y) = y /\ n - y \in 0..n
    OBVIOUS
  <2> QED
    BY <2>1
<1> QED
  BY <1>3, <1>4

LEMMA MinIdIsLeast ==
  ASSUME NEW page \in SUBSET Ids, page # {}
  PROVE  MinId(page) \in page /\ (\A k \in page : MinId(page) <= k)
<1>1. page \subseteq Nat
  BY ConstantsAssumption DEF Ids
<1>2. PICK x \in page : \A k \in page : x <= k
  BY <1>1, LeastNat
<1> QED
  BY <1>2 DEF MinId

LEMMA NewCursorIsGreatest ==
  ASSUME NEW job \in Check
  PROVE  /\ NewCursor(job) \in Cursors
         /\ NewCursor(job) \in job.fresh \union {CursorOrZero(job)}
         /\ \A k \in job.fresh \union {CursorOrZero(job)} : k <= NewCursor(job)
<1> DEFINE seen == job.fresh \union {CursorOrZero(job)}
<1>1. job.fresh \subseteq Ids /\ job.cursor \in Cursors \union {None}
  BY DEF Check
<1>2. CursorOrZero(job) \in 0..MaxId
  BY <1>1, ConstantsAssumption DEF CursorOrZero, Cursors
<1>3. seen \subseteq 0..MaxId /\ seen # {}
  BY <1>1, <1>2, ConstantsAssumption DEF Ids
<1>4. PICK x \in seen : \A k \in seen : k <= x
  <2> HIDE DEF seen
  <2> QED
    BY <1>3, GreatestNat, ConstantsAssumption
<1>5. NewCursor(job) \in seen /\ \A k \in seen : k <= NewCursor(job)
  BY <1>4 DEF NewCursor
<1> QED
  BY <1>3, <1>5 DEF Cursors

---------------------------------------------------------------------------
(* Types *)

LEMMA IdleType == Idle \in Check
<1>1. AnInstance \in Instances
  BY ConstantsAssumption DEF AnInstance
<1>2. MaxId + 1 \in 1..(MaxId + 1)
  BY ConstantsAssumption
<1> QED
  BY <1>1, <1>2 DEF Idle, Check

LEMMA ListingType ==
  ASSUME NEW i, NEW from
  PROVE  Listing(i, from) \subseteq Ids
BY DEF Listing, With

LEMMA UnseenType ==
  ASSUME NEW page, NEW cursor
  PROVE  Unseen(page, cursor) \subseteq page
BY DEF Unseen

\* What a read page makes of the check that reads it.
Read(job, page) == [job EXCEPT !.fresh = @ \union Unseen(page, job.cursor)]

LEMMA ReadType ==
  ASSUME NEW job \in Check, NEW page \in SUBSET Ids
  PROVE  /\ Read(job, page) \in Check
         /\ [Read(job, page) EXCEPT !.at = "decide"] \in Check
         /\ page # {} => [Read(job, page) EXCEPT !.pages = @ + 1, !.from = MinId(page)] \in Check
<1>1. job.fresh \union Unseen(page, job.cursor) \in SUBSET Ids
  BY UnseenType DEF Check
<1>2. Read(job, page) \in Check
  BY <1>1 DEF Read, Check
<1>3. [Read(job, page) EXCEPT !.at = "decide"] \in Check
  BY <1>2 DEF Check
<1>4. ASSUME page # {}
      PROVE  [Read(job, page) EXCEPT !.pages = @ + 1, !.from = MinId(page)] \in Check
  <2>1. MinId(page) \in 1..(MaxId + 1)
    <3>1. MinId(page) \in Ids
      BY <1>4, MinIdIsLeast
    <3> QED
      BY <3>1, ConstantsAssumption DEF Ids
  <2>2. Read(job, page).pages + 1 \in Nat
    BY <1>2 DEF Check
  <2> QED
    BY <1>2, <2>1, <2>2 DEF Check
<1> QED
  BY <1>2, <1>3, <1>4

\* The page a check goes on from is not empty.
LEMMA FullPageNotEmpty ==
  ASSUME NEW page, NEW listing, IsPage(page, listing), page # listing
  PROVE  page # {} /\ Cardinality(page) = PageLimit
BY FS_EmptySet, ConstantsAssumption DEF IsPage

LEMMA UnrecordedType ==
  ASSUME NEW c
  PROVE  Unrecorded(c) \subseteq Executions
BY ConstantsAssumption DEF Unrecorded, Signalled

LEMMA TypeInit == Init => TypeOK
<1> SUFFICES ASSUME Init PROVE TypeOK
  OBVIOUS
<1>1. monitor \in Monitor
  BY DEF Init, Monitor
<1>2. check \in [Checks -> Check]
  BY IdleType DEF Init
<1>3. status \in [Executions -> Statuses]
  BY DEF Init, Statuses
<1>4. emitted \in [Executions -> Nat] /\ relay \in [broken : Nat, restored : Nat, dropped : Nat]
  BY DEF Init
<1>5. budget \in [outages : Nat, restarts : Nat, edits : Nat]
  BY ConstantsAssumption DEF Init
<1> QED
  BY <1>1, <1>2, <1>3, <1>4, <1>5 DEF Init, TypeOK

LEMMA TypeNext == TypeOK /\ [Next]_vars => TypeOK'
<1> SUFFICES ASSUME TypeOK, [Next]_vars PROVE TypeOK'
  OBVIOUS
<1>0. \A c \in Checks : check[c] \in Check
  BY DEF TypeOK
<1>a. ASSUME NEW c \in Checks, NEW job \in Check, Advance(c, job)
      PROVE  (check \in [Checks -> Check])'
  BY <1>a DEF Advance, TypeOK
<1>b. ASSUME budget' = [budget EXCEPT !.outages = @ - 1], budget.outages > 0
      PROVE  (budget \in [outages : Nat, restarts : Nat, edits : Nat])'
  BY <1>b DEF TypeOK
<1>1. ASSUME NEW i \in Instances, NEW id \in Ids, Start(i, id) \/ Succeed(i, id) \/ Fail(i, id)
      PROVE  TypeOK'
  <2>1. <<i, id>> \in Executions
    BY DEF Executions
  <2>2. (status \in [Executions -> Statuses])'
    BY <1>1 DEF Start, Succeed, Fail, TypeOK, Statuses
  <2>3. (owed \subseteq Executions)'
    BY <1>1, <2>1 DEF Start, Succeed, Fail, TypeOK
  <2>4. UNCHANGED <<existing, monitor, check, emitted, relay, budget, doubtful, astray>>
    BY <1>1 DEF Start, Succeed, Fail, Platform
  <2>5. (overlooked \subseteq Executions)'
    BY <1>1, <2>1 DEF Start, Succeed, Fail, TypeOK
  <2> QED
    BY <2>2, <2>3, <2>4, <2>5 DEF TypeOK
<1>2. ASSUME NEW c \in Checks, Begin(c)
      PROVE  TypeOK'
  <2>1. [Idle EXCEPT !.at = "find", !.target = monitor.target, !.cursor = monitor.cursor,
                     !.failures = monitor.failures, !.pushUrl = monitor.pushUrl] \in Check
    <3>1. /\ monitor.target \in Instances /\ monitor.failures \in Nat
          /\ monitor.cursor \in Cursors \union {None} /\ monitor.pushUrl \in BOOLEAN
      BY DEF TypeOK, Monitor
    <3> QED
      BY <3>1, IdleType DEF Check
  <2>2. (check \in [Checks -> Check])'
    BY <1>2, <2>1, <1>a DEF Begin
  <2>3. (doubtful \subseteq Executions)' /\ (astray \in BOOLEAN)'
    BY <1>2 DEF Begin, TypeOK
  <2> QED
    BY <1>2, <2>2, <2>3 DEF Begin, Outside, TypeOK
<1>3. ASSUME NEW c \in Checks, FindInstance(c)
      PROVE  TypeOK'
  <2>1. [check[c] EXCEPT !.at = "page"] \in Check
    BY <1>0 DEF Check
  <2>2. (check \in [Checks -> Check])'
    BY <1>3, <1>a, <2>1, IdleType DEF FindInstance
  <2>3. [monitor EXCEPT !.enabled = FALSE] \in Monitor
    BY DEF TypeOK, Monitor
  <2>4. (monitor \in Monitor)'
    BY <1>3, <2>3 DEF FindInstance, TypeOK
  <2> QED
    BY <1>3, <2>2, <2>4 DEF FindInstance, Outside, history, TypeOK
<1>4. ASSUME NEW c \in Checks, ReadPage(c)
      PROVE  TypeOK'
  <2> DEFINE listing == Listing(check[c].target, check[c].from)
  <2>1. PICK page \in SUBSET listing :
            /\ IsPage(page, listing)
            /\ \/ Advance(c, [Read(check[c], page) EXCEPT !.at = "decide"])
               \/ /\ ~ IsLast(check[c], page, listing)
                  /\ Advance(c, [Read(check[c], page) EXCEPT !.pages = @ + 1, !.from = MinId(page)])
    BY <1>4 DEF ReadPage, Read
  <2>2. page \in SUBSET Ids
    BY <2>1, ListingType
  <2>3. ~ IsLast(check[c], page, listing) => page # {}
    BY <2>1, FullPageNotEmpty DEF IsLast
  <2>4. (check \in [Checks -> Check])'
    BY <1>0, <2>1, <2>2, <2>3, <1>a, ReadType
  <2>5. (overlooked \subseteq Executions)'
    <3>1. \A rest \in SUBSET listing : {<<check[c].target, id>> : id \in rest} \subseteq Executions
      BY <1>0, ListingType DEF Check, Executions
    <3>2. PICK rest \in SUBSET listing :
             overlooked' \in {overlooked, overlooked \union {<<check[c].target, id>> : id \in rest}}
      <4>1. PICK p \in SUBSET listing :
              overlooked' = IF IsLastAllowed(check[c])
                            THEN overlooked \union {<<check[c].target, id>> : id \in listing \ p}
                            ELSE overlooked
        BY <1>4 DEF ReadPage
      <4>2. listing \ p \in SUBSET listing
        OBVIOUS
      <4> QED
        BY <4>1, <4>2
    <3> QED
      BY <3>1, <3>2 DEF TypeOK
  <2> QED
    BY <1>4, <2>4, <2>5 DEF ReadPage, Outside, TypeOK
<1>5. ASSUME NEW c \in Checks, Unreachable(c)
      PROVE  TypeOK'
  <2>1. KeepCursor(check[c]) \in Check
    BY <1>0 DEF KeepCursor, Check
  <2>2. (check \in [Checks -> Check])'
    BY <1>5, <2>1, <1>a DEF Unreachable
  <2>3. (budget \in [outages : Nat, restarts : Nat, edits : Nat])'
    BY <1>5, <1>b DEF Unreachable
  <2> QED
    BY <1>5, <2>2, <2>3 DEF Unreachable, Outside, history, TypeOK
<1>6. ASSUME NEW c \in Checks, Decide(c)
      PROVE  TypeOK'
  <2>1. [check[c] EXCEPT !.at = "push", !.next = NewCursor(check[c])] \in Check
    <3>1. NewCursor(check[c]) \in Cursors \union {None}
      BY <1>0, NewCursorIsGreatest
    <3> QED
      BY <1>0, <3>1 DEF Check
  <2>2. (check \in [Checks -> Check])'
    BY <1>6, <2>1, <1>a DEF Decide
  <2>3. (emitted \in [Executions -> Nat])'
    BY <1>6 DEF Decide, TypeOK
  <2>4. (doubtful \subseteq Executions)'
    <3>1. Signalled(check[c]) \subseteq Executions
      BY ConstantsAssumption DEF Signalled
    <3> QED
      BY <1>6, <3>1 DEF Decide, TypeOK
  <2>5. (overlooked \subseteq Executions)'
    <3>1. {<<check[c].target, id>> : id \in check[c].fresh} \subseteq Executions
      BY <1>0 DEF Check, Executions
    <3> QED
      BY <1>6, <3>1 DEF Decide, TypeOK
  <2> QED
    BY <1>6, <2>2, <2>3, <2>4, <2>5 DEF Decide, Outside, TypeOK
<1>7. ASSUME NEW c \in Checks, PushFails(c) \/ Push(c)
      PROVE  TypeOK'
  <2>1. PICK n \in Nat : Count(c, n)
    <3>1. check[c].failures + 1 \in Nat
      BY <1>0 DEF Check
    <3> QED
      BY <1>7, <3>1 DEF PushFails, Push, PushPasses, SkipPush
  <2>2. [check[c] EXCEPT !.at = "store", !.failures = n] \in Check
    BY <1>0, <2>1 DEF Check
  <2>3. (check \in [Checks -> Check])'
    BY <2>1, <2>2, <1>a DEF Count
  <2>4. (relay \in [broken : Nat, restored : Nat, dropped : Nat])'
    BY <1>7 DEF PushFails, Push, PushPasses, SkipPush, TypeOK
  <2>5. (budget \in [outages : Nat, restarts : Nat, edits : Nat])'
    <3>1. CASE PushFails(c)
      BY <3>1, <1>b DEF PushFails
    <3>2. CASE Push(c)
      BY <3>2 DEF Push, PushPasses, SkipPush, TypeOK
    <3> QED
      BY <1>7, <3>1, <3>2
  <2>6. (astray \in BOOLEAN)'
    BY <2>1 DEF Count, TypeOK
  <2> QED
    BY <2>1, <2>3, <2>4, <2>5, <2>6 DEF Count, Outside, TypeOK
<1>8. ASSUME NEW c \in Checks, Throw(c)
      PROVE  TypeOK'
  <2>1. (check \in [Checks -> Check])'
    BY <1>8, IdleType, <1>a DEF Throw
  <2>2. (budget \in [outages : Nat, restarts : Nat, edits : Nat])'
    BY <1>8, <1>b DEF Throw
  <2>3. (doubtful \subseteq Executions)' /\ (astray \in BOOLEAN)'
    BY <1>8, UnrecordedType DEF Throw, TypeOK
  <2> QED
    BY <1>8, <2>1, <2>2, <2>3 DEF Throw, Outside, TypeOK
<1>9. ASSUME NEW c \in Checks, Store(c)
      PROVE  TypeOK'
  <2>1. check[c].next \in Cursors \union {None} /\ check[c].failures \in Nat
    BY <1>0 DEF Check
  <2>2. (monitor \in Monitor)'
    BY <1>9, <2>1 DEF Store, TypeOK, Monitor
  <2>3. (check \in [Checks -> Check])'
    BY <1>9, IdleType, <1>a DEF Store
  <2>4. (overlooked \subseteq Executions)'
    BY <1>9 DEF Store, TypeOK
  <2> QED
    BY <1>9, <2>2, <2>3, <2>4 DEF Store, Outside, TypeOK
<1>10. CASE User
  <2>1. (budget \in [outages : Nat, restarts : Nat, edits : Nat])'
    BY <1>10 DEF User, Retarget, Switch, Relink, RemoveInstance, Edited, TypeOK
  <2>2. (monitor \in Monitor)'
    BY <1>10 DEF User, Retarget, Switch, Relink, RemoveInstance, Edited, TypeOK, Monitor
  <2>3. (existing \subseteq Instances)'
    BY <1>10 DEF User, Retarget, Switch, Relink, RemoveInstance, TypeOK
  <2> QED
    BY <1>10, <2>1, <2>2, <2>3 DEF User, Retarget, Switch, Relink, RemoveInstance, Edited, history, TypeOK
<1>11. CASE Restart
  <2>1. (budget \in [outages : Nat, restarts : Nat, edits : Nat])'
    BY <1>11 DEF Restart, TypeOK
  <2>2. (check \in [Checks -> Check])'
    BY <1>11, IdleType DEF Restart
  <2>3. (doubtful \subseteq Executions)' /\ (astray \in BOOLEAN)'
    BY <1>11, UnrecordedType DEF Restart, TypeOK
  <2> QED
    BY <1>11, <2>1, <2>2, <2>3 DEF Restart, TypeOK
<1>12. CASE UNCHANGED vars
  BY <1>12 DEF vars, history, TypeOK
<1> QED
  BY <1>1, <1>2, <1>3, <1>4, <1>5, <1>6, <1>7, <1>8, <1>9, <1>10, <1>11, <1>12
  DEF Next, Run, Work, Continue, Tick, CheckNow

\* Every variable keeps its type, whatever the number of checks in progress,
\* outages, edits and restarts.
THEOREM TypeCorrect == Spec => []TypeOK
BY TypeInit, TypeNext, PTL DEF Spec


---------------------------------------------------------------------------
(* At most once, whatever checks overlap or are cut short *)

\* Only the check that takes a step changes.
OthersStay(c) == \A d \in Checks \ {c} : check'[d] = check[d]

\* What a check listed failed, beyond the cursor it holds; and the cursor it is
\* about to store is behind none of what it knows.
Holds(c) ==
    /\ check[c].at \in {"idle", "find"} => check[c].fresh = {}
    /\ check[c].at \in {"page", "decide"} =>
          \A id \in check[c].fresh :
              /\ status[<<check[c].target, id>>] = "error"
              /\ check[c].cursor # None => id > check[c].cursor
    /\ check[c].at \in {"push", "store"} =>
          /\ \A id \in check[c].fresh : check[c].next # None /\ id <= check[c].next
          /\ check[c].cursor # None => check[c].next # None /\ check[c].cursor <= check[c].next
    /\ \A x \in Unrecorded(c) : emitted[x] > 0

\* What was signalled for good is behind the cursor of the monitor and of
\* every check in progress, but the ones that signalled it.
Recorded(x) ==
    /\ \A c \in Checks : InProgress(c) /\ CursorOrZero(check[c]) < x[2] => x \in Unrecorded(c)
    /\ x[2] <= CursorOrZero(monitor) \/ \E c \in Checks : x \in Unrecorded(c)

OnceInv ==
    /\ TypeOK
    /\ \A c \in Checks : Holds(c)
    /\ \A x \in doubtful : emitted[x] > 0
    /\ \A x \in Executions : emitted[x] > 0 /\ x \notin doubtful => Recorded(x)

LEMMA OnceInit == Init => OnceInv
<1> SUFFICES ASSUME Init PROVE OnceInv
  OBVIOUS
<1>1. \A c \in Checks : check[c].at = "idle" /\ check[c].fresh = {}
  BY DEF Init, Idle
<1>2. \A c \in Checks : Holds(c)
  BY <1>1 DEF Holds, Unrecorded
<1>3. doubtful = {} /\ \A x \in Executions : emitted[x] = 0
  BY DEF Init
<1> QED
  BY <1>2, <1>3, TypeInit DEF OnceInv

\* A check that takes a step but signals, starts, ends or stores nothing.
LEMMA OnceGoesOn ==
  ASSUME OnceInv, TypeOK', NEW c \in Checks, OthersStay(c), Holds(c)',
         UNCHANGED <<status, emitted, doubtful>>, monitor'.cursor = monitor.cursor,
         Unrecorded(c)' = Unrecorded(c),
         InProgress(c)' => InProgress(c) /\ check'[c].cursor = check[c].cursor
  PROVE  OnceInv'
<1>1. \A d \in Checks \ {c} : check'[d] = check[d]
  BY DEF OthersStay
<1>2. \A d \in Checks : Unrecorded(d)' = Unrecorded(d)
  BY <1>1 DEF Unrecorded
<1>3. \A d \in Checks : Holds(d)'
  <2> TAKE d \in Checks
  <2>1. CASE d = c
    BY <2>1
  <2>2. CASE d # c
    <3>1. Holds(d) /\ check'[d] = check[d] /\ Unrecorded(d)' = Unrecorded(d)
      BY <1>1, <1>2, <2>2 DEF OnceInv
    <3> QED
      BY <3>1 DEF Holds
  <2> QED
    BY <2>1, <2>2
<1>4. ASSUME NEW x \in Executions, Recorded(x)
      PROVE  Recorded(x)'
  <2>1. \A d \in Checks : InProgress(d)' => InProgress(d) /\ check'[d].cursor = check[d].cursor
    BY <1>1 DEF InProgress
  <2>2. \A d \in Checks : InProgress(d)' => CursorOrZero(check'[d]) = CursorOrZero(check[d])
    BY <2>1 DEF CursorOrZero
  <2>3. CursorOrZero(monitor') = CursorOrZero(monitor)
    BY DEF CursorOrZero
  <2> QED
    BY <1>2, <1>4, <2>1, <2>2, <2>3 DEF Recorded
<1> QED
  BY <1>3, <1>4 DEF OnceInv

\* What one check's step leaves of the others.
LEMMA OthersOfAdvance ==
  ASSUME TypeOK, NEW c \in Checks, NEW job, Advance(c, job)
  PROVE  OthersStay(c) /\ check'[c] = job
BY DEF Advance, OthersStay, TypeOK

LEMMA OnceRun ==
  ASSUME OnceInv, TypeOK', Run
  PROVE  OnceInv'
<1>1. PICK i \in Instances, id \in Ids : Start(i, id) \/ Succeed(i, id) \/ Fail(i, id)
  BY DEF Run
<1>2. UNCHANGED <<monitor, check, emitted, doubtful>>
  BY <1>1 DEF Start, Succeed, Fail, Platform
<1>3. \A x \in Executions : status[x] = "error" => status'[x] = "error"
  <2>1. <<i, id>> \in Executions
    BY DEF Executions
  <2>2. Start(i, id) => status[<<i, id>>] = "none"
    BY ConstantsAssumption DEF Start, Ids
  <2>3. \A x \in Executions : status'[x] = status[x] \/ (x = <<i, id>> /\ status[x] # "error")
    BY <1>1, <2>1, <2>2 DEF Start, Succeed, Fail, OnceInv, TypeOK
  <2> QED
    BY <2>3
<1>4. \A c \in Checks : Unrecorded(c)' = Unrecorded(c)
  BY <1>2 DEF Unrecorded
<1>5. \A c \in Checks : Holds(c)'
  <2> TAKE c \in Checks
  <2>1. \A k \in check[c].fresh : <<check[c].target, k>> \in Executions
    BY DEF OnceInv, TypeOK, Check, Executions
  <2>2. Holds(c)
    BY DEF OnceInv
  <2> QED
    BY <1>2, <1>3, <1>4, <2>1, <2>2 DEF Holds
<1>6. \A x \in Executions : Recorded(x) => Recorded(x)'
  BY <1>2, <1>4 DEF Recorded, InProgress
<1> QED
  BY <1>2, <1>5, <1>6 DEF OnceInv

\* A check that starts reads a cursor past what was signalled for good.
LEMMA OnceBegin ==
  ASSUME OnceInv, TypeOK', NEW c \in Checks, Begin(c)
  PROVE  OnceInv'
<1>1. /\ check'[c].at = "find" /\ check'[c].cursor = monitor.cursor /\ check'[c].fresh = {}
      /\ check[c].at = "idle" /\ OthersStay(c)
  <2> DEFINE job == [Idle EXCEPT !.at = "find", !.target = monitor.target, !.cursor = monitor.cursor,
                                 !.failures = monitor.failures, !.pushUrl = monitor.pushUrl]
  <2>1. Advance(c, job) /\ check[c].at = "idle"
    BY DEF Begin
  <2>2. OthersStay(c) /\ check'[c] = job
    BY <2>1, OthersOfAdvance DEF OnceInv
  <2>3. job.at = "find" /\ job.cursor = monitor.cursor /\ job.fresh = {}
    BY DEF Idle
  <2> QED
    BY <2>1, <2>2, <2>3
<1>2. UNCHANGED <<status, monitor, emitted>>
  BY DEF Begin, Outside
<1>3. \A d \in Checks \ {c} : check'[d] = check[d]
  BY <1>1 DEF OthersStay
<1>4. \A d \in Checks : Unrecorded(d)' = Unrecorded(d)
  BY <1>1, <1>3 DEF Unrecorded
<1>5. \A d \in Checks : Holds(d)'
  <2> TAKE d \in Checks
  <2>1. CASE d = c
    BY <1>1, <2>1 DEF Holds, Unrecorded
  <2>2. CASE d # c
    <3>1. Holds(d)
      BY DEF OnceInv
    <3> QED
      BY <1>2, <1>3, <1>4, <2>2, <3>1 DEF Holds
  <2> QED
    BY <2>1, <2>2
<1>6. doubtful' = doubtful \union
         {x \in Executions : x[2] > CursorOrZero(monitor) /\ \E d \in Checks : x \in Unrecorded(d)}
  BY DEF Begin
<1>7. \A x \in doubtful' : emitted'[x] > 0
  <2>1. \A d \in Checks : \A x \in Unrecorded(d) : emitted[x] > 0
    BY DEF OnceInv, Holds
  <2> QED
    BY <1>2, <1>6, <2>1 DEF OnceInv
<1>8. ASSUME NEW x \in Executions, emitted[x] > 0, x \notin doubtful'
      PROVE  Recorded(x)'
  <2>1. Recorded(x)
    BY <1>6, <1>8 DEF OnceInv
  <2>2. x[2] <= CursorOrZero(monitor)
    <3>1. CursorOrZero(monitor) \in Nat /\ x[2] \in Nat
      BY ConstantsAssumption DEF CursorOrZero, OnceInv, TypeOK, Monitor, Cursors, Executions, Ids
    <3>2. ~ (x[2] > CursorOrZero(monitor) /\ \E d \in Checks : x \in Unrecorded(d))
      BY <1>6, <1>8
    <3> QED
      BY <2>1, <3>1, <3>2 DEF Recorded
  <2>3. CursorOrZero(check'[c]) = CursorOrZero(monitor)
    BY <1>1 DEF CursorOrZero
  <2>4. ~ (CursorOrZero(check'[c]) < x[2])
    <3>1. CursorOrZero(monitor) \in Nat /\ x[2] \in Nat
      BY ConstantsAssumption DEF CursorOrZero, OnceInv, TypeOK, Monitor, Cursors, Executions, Ids
    <3> QED
      BY <2>2, <2>3, <3>1
  <2>5. ASSUME NEW d \in Checks, InProgress(d)', CursorOrZero(check'[d]) < x[2]
        PROVE  x \in Unrecorded(d)'
    <3>1. d # c /\ check'[d] = check[d]
      BY <1>3, <2>4, <2>5
    <3> QED
      BY <1>4, <2>1, <2>5, <3>1 DEF Recorded, InProgress
  <2> QED
    BY <1>2, <2>2, <2>5 DEF Recorded
<1> QED
  BY <1>2, <1>5, <1>7, <1>8 DEF OnceInv

LEMMA OnceFind ==
  ASSUME OnceInv, TypeOK', NEW c \in Checks, FindInstance(c)
  PROVE  OnceInv'
<1>1. /\ UNCHANGED <<status, emitted, doubtful>> /\ monitor'.cursor = monitor.cursor
      /\ check[c].at = "find" /\ check[c] \in Check
  BY DEF FindInstance, Outside, history, OnceInv, TypeOK, Monitor
<1>2. /\ OthersStay(c)
      /\ check'[c] = Idle \/ check'[c] = [check[c] EXCEPT !.at = "page"]
  BY OthersOfAdvance DEF FindInstance, OnceInv
<1>3. Holds(c)
  BY DEF OnceInv
<1>4. /\ check'[c].at \in {"idle", "page"} /\ check'[c].fresh = {}
      /\ check'[c].at = "page" => check'[c].cursor = check[c].cursor
  <2>1. check[c].fresh = {}
    BY <1>1, <1>3 DEF Holds
  <2> QED
    BY <1>1, <1>2, <2>1 DEF Idle, Check
<1>5. Unrecorded(c) = {} /\ Unrecorded(c)' = {}
  BY <1>1, <1>4 DEF Unrecorded
<1>6. Holds(c)'
  BY <1>4, <1>5 DEF Holds
<1>7. InProgress(c)' => InProgress(c) /\ check'[c].cursor = check[c].cursor
  BY <1>1, <1>4 DEF InProgress
<1> QED
  BY <1>1, <1>2, <1>5, <1>6, <1>7, OnceGoesOn

LEMMA OnceReadPage ==
  ASSUME OnceInv, TypeOK', NEW c \in Checks, ReadPage(c)
  PROVE  OnceInv'
<1> DEFINE job == check[c]
           listing == Listing(job.target, job.from)
<1>1. PICK page \in SUBSET listing :
          \/ Advance(c, [Read(job, page) EXCEPT !.at = "decide"])
          \/ Advance(c, [Read(job, page) EXCEPT !.pages = @ + 1, !.from = MinId(page)])
  BY DEF ReadPage, Read
<1>2. job.at = "page" /\ job \in Check /\ Holds(c)
  BY DEF ReadPage, OnceInv, TypeOK
<1>3. UNCHANGED <<status, monitor, emitted, doubtful>>
  BY DEF ReadPage, Outside
<1>4. /\ OthersStay(c)
      /\ \/ check'[c] = [Read(job, page) EXCEPT !.at = "decide"]
         \/ check'[c] = [Read(job, page) EXCEPT !.pages = @ + 1, !.from = MinId(page)]
  BY <1>1, OthersOfAdvance DEF OnceInv
<1>5. /\ check'[c].at \in {"page", "decide"}
      /\ check'[c].cursor = job.cursor /\ check'[c].target = job.target
      /\ check'[c].fresh = job.fresh \union Unseen(page, job.cursor)
  BY <1>2, <1>4 DEF Read, Check
<1>6. \A id \in Unseen(page, job.cursor) :
          /\ status[<<job.target, id>>] = "error"
          /\ job.cursor # None => id > job.cursor
  BY <1>1 DEF Unseen, Listing, With
<1>7. Unrecorded(c) = {} /\ Unrecorded(c)' = {}
  BY <1>2, <1>5 DEF Unrecorded
<1>8. Holds(c)'
  BY <1>2, <1>3, <1>5, <1>6, <1>7 DEF Holds
<1>9. InProgress(c)' => InProgress(c) /\ check'[c].cursor = check[c].cursor
  BY <1>2, <1>5 DEF InProgress
<1> QED
  BY <1>3, <1>4, <1>7, <1>8, <1>9, OnceGoesOn

LEMMA OnceUnreachable ==
  ASSUME OnceInv, TypeOK', NEW c \in Checks, Unreachable(c)
  PROVE  OnceInv'
<1>1. Advance(c, KeepCursor(check[c])) /\ check[c].at = "page" /\ check[c] \in Check
  BY DEF Unreachable, OnceInv, TypeOK
<1>2. UNCHANGED <<status, monitor, emitted, doubtful>>
  BY DEF Unreachable, Outside, history
<1>3. OthersStay(c) /\ check'[c] = KeepCursor(check[c])
  BY <1>1, OthersOfAdvance DEF OnceInv
<1>4. /\ check'[c].at = "push" /\ check'[c].cursor = check[c].cursor
      /\ check'[c].next = check[c].cursor /\ check'[c].fresh = {}
  BY <1>1, <1>3 DEF KeepCursor, Check
<1>5. Unrecorded(c) = {} /\ Unrecorded(c)' = {}
  BY <1>1, <1>4 DEF Unrecorded, Signalled
<1>6. Holds(c)'
  <2>1. check[c].cursor # None => check[c].cursor <= check[c].cursor
    BY <1>1, ConstantsAssumption DEF Check, Cursors
  <2> QED
    BY <1>4, <1>5, <2>1 DEF Holds
<1>7. InProgress(c)' => InProgress(c) /\ check'[c].cursor = check[c].cursor
  BY <1>1, <1>4 DEF InProgress
<1> QED
  BY <1>2, <1>3, <1>5, <1>6, <1>7, OnceGoesOn

LEMMA OnceCount ==
  ASSUME OnceInv, TypeOK', NEW c \in Checks, NEW n, Count(c, n)
  PROVE  OnceInv'
<1>1. UNCHANGED <<status, monitor, emitted, doubtful>> /\ check[c].at = "push" /\ check[c] \in Check
  BY DEF Count, Outside, OnceInv, TypeOK
<1>2. OthersStay(c) /\ check'[c] = [check[c] EXCEPT !.at = "store", !.failures = n]
  BY OthersOfAdvance DEF Count, OnceInv
<1>3. /\ check'[c].at = "store" /\ check'[c].cursor = check[c].cursor
      /\ check'[c].next = check[c].next /\ check'[c].fresh = check[c].fresh
      /\ check'[c].target = check[c].target
  BY <1>1, <1>2 DEF Check
<1>4. Unrecorded(c)' = Unrecorded(c)
  BY <1>1, <1>3 DEF Unrecorded, Signalled
<1>5. Holds(c)'
  BY <1>1, <1>3, <1>4 DEF Holds, OnceInv
<1>6. InProgress(c)' => InProgress(c) /\ check'[c].cursor = check[c].cursor
  BY <1>1, <1>3 DEF InProgress
<1> QED
  BY <1>1, <1>2, <1>4, <1>5, <1>6, OnceGoesOn

\* The ids a check signals are past the cursor it holds: they were never
\* signalled, or their signal is doubtful.
LEMMA SignalIsNew ==
  ASSUME OnceInv, NEW c \in Checks, check[c].at = "decide",
         check[c].cursor # None, NEW x \in Signalled(check[c])
  PROVE  /\ x \in Executions /\ status[x] = "error" /\ x[2] \in check[c].fresh
         /\ CursorOrZero(check[c]) < x[2]
         /\ emitted[x] = 0 \/ x \in doubtful
<1>1. PICK id \in check[c].fresh : x = <<check[c].target, id>>
  BY DEF Signalled
<1>2. check[c] \in Check /\ Holds(c)
  BY DEF OnceInv, TypeOK
<1>3. x \in Executions /\ x[2] = id /\ id \in Ids
  BY <1>1, <1>2 DEF Check, Executions
<1>4. status[x] = "error" /\ id > check[c].cursor
  BY <1>1, <1>2 DEF Holds
<1>5. CursorOrZero(check[c]) < x[2]
  BY <1>2, <1>3, <1>4, ConstantsAssumption DEF CursorOrZero, Check, Cursors, Ids
<1>6. emitted[x] = 0 \/ x \in doubtful
  <2>1. Unrecorded(c) = {} /\ InProgress(c)
    BY DEF Unrecorded, InProgress
  <2>2. emitted[x] \in Nat
    BY <1>3 DEF OnceInv, TypeOK
  <2> QED
    BY <1>3, <1>5, <2>1, <2>2 DEF OnceInv, Recorded
<1> QED
  BY <1>1, <1>3, <1>4, <1>5, <1>6

LEMMA OnceDecide ==
  ASSUME OnceInv, TypeOK', NEW c \in Checks, Decide(c)
  PROVE  OnceInv'
<1> DEFINE job == check[c]
           loud == job.cursor # None /\ Signalled(job) # {}
<1>1. /\ Advance(c, [job EXCEPT !.at = "push", !.next = NewCursor(job)])
      /\ job.at = "decide" /\ job \in Check /\ Holds(c)
  BY DEF Decide, OnceInv, TypeOK
<1>2. UNCHANGED <<status, monitor>>
  BY DEF Decide, Outside
<1>3. OthersStay(c) /\ check'[c] = [job EXCEPT !.at = "push", !.next = NewCursor(job)]
  BY <1>1, OthersOfAdvance DEF OnceInv
<1>4. /\ check'[c].at = "push" /\ check'[c].cursor = job.cursor /\ check'[c].next = NewCursor(job)
      /\ check'[c].fresh = job.fresh /\ check'[c].target = job.target
  BY <1>1, <1>3 DEF Check
<1>5. /\ NewCursor(job) \in Cursors
      /\ CursorOrZero(job) <= NewCursor(job)
      /\ \A id \in job.fresh : id <= NewCursor(job)
  BY <1>1, NewCursorIsGreatest
<1>6. NewCursor(job) # None
  BY <1>5, NoneAssumption, ConstantsAssumption DEF Cursors
<1>7. Unrecorded(c) = {} /\ Unrecorded(c)' = IF job.cursor # None THEN Signalled(job) ELSE {}
  BY <1>1, <1>4 DEF Unrecorded, Signalled
<1>8. /\ \A x \in Executions : emitted'[x] = IF loud /\ x \in Signalled(job) THEN emitted[x] + 1 ELSE emitted[x]
      /\ doubtful' = IF loud THEN doubtful \union {x \in Signalled(job) : Contested(c, x)} ELSE doubtful
  BY DEF Decide, OnceInv, TypeOK
<1>9. \A x \in Executions : emitted[x] \in Nat
  BY DEF OnceInv, TypeOK
<1>10. Signalled(job) \subseteq Executions
  BY ConstantsAssumption DEF Signalled
<1>11. \A d \in Checks \ {c} : check'[d] = check[d] /\ Unrecorded(d)' = Unrecorded(d)
  BY <1>3 DEF OthersStay, Unrecorded
<1>12. \A x \in Executions : emitted[x] > 0 => emitted'[x] > 0
  BY <1>8, <1>9
<1>13. \A x \in Unrecorded(c)' : emitted'[x] > 0
  BY <1>7, <1>8, <1>9, <1>10
<1>14. \A d \in Checks : Holds(d)'
  <2> TAKE d \in Checks
  <2>1. CASE d = c
    BY <1>4, <1>5, <1>6, <1>13, <2>1 DEF Holds, CursorOrZero
  <2>2. CASE d # c
    <3>1. Holds(d) /\ check'[d] = check[d] /\ Unrecorded(d)' = Unrecorded(d)
      BY <1>11, <2>2 DEF OnceInv
    <3>2. \A x \in Unrecorded(d)' : emitted'[x] > 0
      BY <1>12, <3>1, UnrecordedType DEF Holds
    <3> QED
      BY <1>2, <3>1, <3>2 DEF Holds
  <2> QED
    BY <2>1, <2>2
<1>15. \A x \in doubtful' : emitted'[x] > 0
  <2>1. doubtful \subseteq Executions
    BY DEF OnceInv, TypeOK
  <2> QED
    BY <1>8, <1>9, <1>10, <1>12, <2>1 DEF OnceInv
<1>16. ASSUME NEW x \in Executions, emitted'[x] > 0, x \notin doubtful'
       PROVE  Recorded(x)'
  <2>1. CASE loud /\ x \in Signalled(job)
    <3>1. x \in Unrecorded(c)'
      BY <1>7, <2>1
    <3>2. ~ Contested(c, x)
      BY <1>8, <1>16, <2>1
    <3> QED
      BY <1>11, <3>1, <3>2 DEF Contested, Recorded, InProgress
  <2>2. CASE ~ (loud /\ x \in Signalled(job))
    <3>1. emitted[x] > 0 /\ x \notin doubtful
      BY <1>8, <1>16, <2>2
    <3>2. Recorded(x)
      BY <3>1 DEF OnceInv
    <3>3. InProgress(c) /\ CursorOrZero(check'[c]) = CursorOrZero(job)
      BY <1>1, <1>4 DEF InProgress, CursorOrZero
    <3>4. ~ (CursorOrZero(check'[c]) < x[2])
      BY <1>7, <3>2, <3>3 DEF Recorded
    <3>5. \A d \in Checks : InProgress(d)' /\ CursorOrZero(check'[d]) < x[2] => x \in Unrecorded(d)'
      BY <1>11, <3>2, <3>4 DEF Recorded, InProgress
    <3>6. x[2] <= CursorOrZero(monitor') \/ \E d \in Checks : x \in Unrecorded(d)'
      BY <1>2, <1>7, <1>11, <3>2 DEF Recorded
    <3> QED
      BY <3>5, <3>6 DEF Recorded
  <2> QED
    BY <2>1, <2>2
<1> QED
  BY <1>14, <1>15, <1>16 DEF OnceInv

LEMMA OnceStore ==
  ASSUME OnceInv, TypeOK', NEW c \in Checks, Store(c)
  PROVE  OnceInv'
<1>1. UNCHANGED <<status, emitted, doubtful>>
  BY DEF Store, Outside
<1>2. check[c].at = "store" /\ check[c] \in Check /\ Holds(c)
  BY DEF Store, OnceInv, TypeOK
<1>3. OthersStay(c) /\ check'[c] = Idle
  BY OthersOfAdvance DEF Store, OnceInv
<1>4. monitor'.cursor = check[c].next
  BY DEF Store, OnceInv, TypeOK, Monitor
<1>5. \A d \in Checks \ {c} : check'[d] = check[d] /\ Unrecorded(d)' = Unrecorded(d)
  BY <1>3 DEF OthersStay, Unrecorded
<1>6. Unrecorded(c)' = {} /\ ~ InProgress(c)' /\ check'[c].at = "idle" /\ check'[c].fresh = {}
  BY <1>3 DEF Unrecorded, InProgress, Idle
<1>7. \A d \in Checks : Holds(d)'
  <2> TAKE d \in Checks
  <2>1. CASE d = c
    BY <1>6, <2>1 DEF Holds
  <2>2. CASE d # c
    <3>1. Holds(d) /\ check'[d] = check[d] /\ Unrecorded(d)' = Unrecorded(d)
      BY <1>5, <2>2 DEF OnceInv
    <3> QED
      BY <1>1, <3>1 DEF Holds
  <2> QED
    BY <2>1, <2>2
<1>8. ASSUME NEW x \in Executions, Recorded(x)
      PROVE  Recorded(x)'
  <2>1. /\ x[2] \in Nat /\ check[c].next \in Cursors \union {None}
        /\ check[c].cursor \in Cursors \union {None} /\ Cursors \subseteq Nat
    BY <1>2, ConstantsAssumption DEF Check, Executions, Ids, Cursors
  <2>2. x[2] <= CursorOrZero(monitor')
    <3>1. CASE x \in Unrecorded(c)
      <4>1. x[2] \in check[c].fresh
        BY <3>1 DEF Unrecorded, Signalled
      <4>2. check[c].next # None /\ x[2] <= check[c].next
        BY <1>2, <4>1 DEF Holds
      <4> QED
        BY <1>4, <4>2 DEF CursorOrZero
    <3>2. CASE ~ (CursorOrZero(check[c]) < x[2])
      <4> DEFINE held == CursorOrZero(check[c])
      <4>a. held \in Nat /\ x[2] \in Nat
        BY <2>1 DEF CursorOrZero
      <4>b. x[2] # 0
        BY ConstantsAssumption DEF Executions, Ids
      <4>c. ~ (held < x[2])
        BY <3>2
      <4>1. x[2] <= CursorOrZero(check[c]) /\ x[2] # 0
        <5> HIDE DEF held
        <5>1. x[2] <= held
          BY <4>a, <4>c
        <5> QED
          BY <4>b, <5>1 DEF held
      <4>2. check[c].cursor # None /\ x[2] <= check[c].cursor
        BY <2>1, <4>1 DEF CursorOrZero
      <4>3. check[c].next # None /\ check[c].cursor <= check[c].next
        BY <1>2, <4>2 DEF Holds
      <4>4. check[c].cursor \in Nat /\ check[c].next \in Nat
        BY <2>1, <4>2, <4>3
      <4>5. x[2] <= check[c].next
        BY <2>1, <4>2, <4>3, <4>4
      <4> QED
        BY <1>4, <4>3, <4>5 DEF CursorOrZero
    <3> QED
      BY <1>2, <1>8, <3>1, <3>2 DEF Recorded, InProgress
  <2>3. \A d \in Checks : InProgress(d)' /\ CursorOrZero(check'[d]) < x[2] => x \in Unrecorded(d)'
    BY <1>5, <1>6, <1>8 DEF Recorded, InProgress
  <2> QED
    BY <2>2, <2>3 DEF Recorded
<1> QED
  BY <1>1, <1>7, <1>8 DEF OnceInv

\* Checks that are cut short leave their signals doubtful.
LEMMA OnceCut ==
  ASSUME OnceInv, TypeOK', NEW Cut \in SUBSET Checks,
         \A c \in Cut : check'[c] = Idle,
         \A c \in Checks \ Cut : check'[c] = check[c],
         doubtful' = doubtful \union UNION {Unrecorded(c) : c \in Cut},
         UNCHANGED <<status, monitor, emitted>>
  PROVE  OnceInv'
<1>1. \A c \in Checks \ Cut : Unrecorded(c)' = Unrecorded(c)
  BY DEF Unrecorded
<1>2. \A c \in Cut : /\ Unrecorded(c)' = {} /\ ~ InProgress(c)'
                     /\ check'[c].at = "idle" /\ check'[c].fresh = {}
  BY DEF Unrecorded, InProgress, Idle
<1>3. \A c \in Checks : Holds(c)'
  <2> TAKE c \in Checks
  <2>1. CASE c \in Cut
    BY <1>2, <2>1 DEF Holds
  <2>2. CASE c \notin Cut
    <3>1. Holds(c) /\ check'[c] = check[c] /\ Unrecorded(c)' = Unrecorded(c)
      BY <1>1, <2>2 DEF OnceInv
    <3> QED
      BY <3>1 DEF Holds
  <2> QED
    BY <2>1, <2>2
<1>4. \A x \in doubtful' : emitted'[x] > 0
  BY DEF OnceInv, Holds
<1>5. ASSUME NEW x \in Executions, emitted[x] > 0, x \notin doubtful'
      PROVE  Recorded(x)'
  <2>1. Recorded(x) /\ \A c \in Cut : x \notin Unrecorded(c)
    BY <1>5 DEF OnceInv
  <2>2. \A c \in Checks : InProgress(c)' /\ CursorOrZero(check'[c]) < x[2] => x \in Unrecorded(c)'
    BY <1>1, <1>2, <2>1 DEF Recorded, InProgress
  <2>3. x[2] <= CursorOrZero(monitor') \/ \E c \in Checks : x \in Unrecorded(c)'
    BY <1>1, <2>1 DEF Recorded
  <2> QED
    BY <2>2, <2>3 DEF Recorded
<1> QED
  BY <1>3, <1>4, <1>5 DEF OnceInv

LEMMA OnceThrow ==
  ASSUME OnceInv, TypeOK', NEW c \in Checks, Throw(c)
  PROVE  OnceInv'
<1>1. OthersStay(c) /\ check'[c] = Idle
  BY OthersOfAdvance DEF Throw, OnceInv
<1>2. UNION {Unrecorded(d) : d \in {c}} = Unrecorded(c)
  OBVIOUS
<1>3. UNCHANGED <<status, monitor, emitted>> /\ doubtful' = doubtful \union Unrecorded(c)
  BY DEF Throw, Outside
<1>4. \A d \in Checks \ {c} : check'[d] = check[d]
  BY <1>1 DEF OthersStay
<1>5. {c} \in SUBSET Checks /\ \A d \in {c} : check'[d] = Idle
  BY <1>1
<1> QED
  BY <1>2, <1>3, <1>4, <1>5, OnceCut

LEMMA OnceRestart ==
  ASSUME OnceInv, TypeOK', Restart
  PROVE  OnceInv'
<1>1. /\ \A c \in Checks : check'[c] = Idle
      /\ doubtful' = doubtful \union UNION {Unrecorded(c) : c \in Checks}
      /\ UNCHANGED <<status, monitor, emitted>>
  BY DEF Restart
<1> QED
  BY <1>1, OnceCut

LEMMA OnceUser ==
  ASSUME OnceInv, TypeOK', User
  PROVE  OnceInv'
<1>1. UNCHANGED <<status, check, emitted, doubtful>>
  BY DEF User, Retarget, Switch, Relink, RemoveInstance, Edited, history
<1>2. monitor'.cursor = monitor.cursor
  BY DEF User, Retarget, Switch, Relink, RemoveInstance, Edited, OnceInv, TypeOK, Monitor
<1>3. \A c \in Checks : Unrecorded(c)' = Unrecorded(c)
  BY <1>1 DEF Unrecorded
<1>4. \A c \in Checks : Holds(c)'
  BY <1>1, <1>3 DEF OnceInv, Holds
<1>5. \A x \in Executions : Recorded(x) => Recorded(x)'
  BY <1>1, <1>2, <1>3 DEF Recorded, InProgress, CursorOrZero
<1> QED
  BY <1>1, <1>4, <1>5 DEF OnceInv

LEMMA OnceNext == OnceInv /\ [Next]_vars => OnceInv'
<1> SUFFICES ASSUME OnceInv, [Next]_vars PROVE OnceInv'
  OBVIOUS
<1>1. TypeOK'
  BY TypeNext DEF OnceInv
<1>2. CASE Run
  BY <1>1, <1>2, OnceRun
<1>3. ASSUME NEW c \in Checks, Work(c)
      PROVE  OnceInv'
  <2>1. CASE Begin(c)
    BY <1>1, <2>1, OnceBegin
  <2>2. CASE FindInstance(c)
    BY <1>1, <2>2, OnceFind
  <2>3. CASE ReadPage(c)
    BY <1>1, <2>3, OnceReadPage
  <2>4. CASE Unreachable(c)
    BY <1>1, <2>4, OnceUnreachable
  <2>5. CASE Decide(c)
    BY <1>1, <2>5, OnceDecide
  <2>6. CASE Push(c) \/ PushFails(c)
    <3>1. PICK n : Count(c, n)
      BY <2>6 DEF Push, PushPasses, SkipPush, PushFails
    <3> QED
      BY <1>1, <3>1, OnceCount
  <2>7. CASE Store(c)
    BY <1>1, <2>7, OnceStore
  <2>8. CASE Throw(c)
    BY <1>1, <2>8, OnceThrow
  <2> QED
    BY <1>3, <2>1, <2>2, <2>3, <2>4, <2>5, <2>6, <2>7, <2>8 DEF Work, Continue, Tick, CheckNow
<1>4. CASE User
  BY <1>1, <1>4, OnceUser
<1>5. CASE Restart
  BY <1>1, <1>5, OnceRestart
<1>6. CASE UNCHANGED vars
  <2>1. UNCHANGED <<status, monitor, check, emitted, doubtful>>
    BY <1>6 DEF vars, history
  <2>2. \A c \in Checks : Unrecorded(c)' = Unrecorded(c)
    BY <2>1 DEF Unrecorded
  <2>3. \A c \in Checks : Holds(c)'
    BY <2>1, <2>2 DEF OnceInv, Holds
  <2>4. \A x \in Executions : Recorded(x) => Recorded(x)'
    BY <2>1, <2>2 DEF Recorded, InProgress
  <2> QED
    BY <1>1, <2>1, <2>3, <2>4 DEF OnceInv
<1> QED
  BY <1>2, <1>3, <1>4, <1>5, <1>6 DEF Next

---------------------------------------------------------------------------
(* The refinement *)

LEMMA PromiseInit == Init => Promise!Init
<1> SUFFICES ASSUME Init PROVE Promise!Init
  OBVIOUS
<1>1. {x \in Executions : status[x] = "error"} = {}
  BY DEF Init
<1> QED
  BY <1>1 DEF Init, Promise!Init

LEMMA PromiseFail ==
  ASSUME TypeOK, NEW i \in Instances, NEW id \in Ids, Fail(i, id)
  PROVE  Promise!Fail(<<i, id>>)
<1> DEFINE x == <<i, id>>
           failed == {y \in Executions : status[y] = "error"}
<1>1. x \in Executions
  BY DEF Executions
<1>2. /\ status' = [status EXCEPT ![x] = "error"] /\ status[x] = "running"
      /\ UNCHANGED <<emitted, doubtful>>
  BY DEF Fail, Platform
<1>3. x \notin failed /\ failed' = failed \union {x}
  BY <1>1, <1>2 DEF TypeOK
<1>4. owed' \in {owed, owed \union {x}}
  BY DEF Fail
<1> QED
  BY <1>1, <1>2, <1>3, <1>4 DEF Promise!Fail

LEMMA PromiseSignal ==
  ASSUME OnceInv, OnceInv', NEW c \in Checks, Decide(c), emitted' # emitted
  PROVE  Promise!Next
<1> DEFINE fresh == Signalled(check[c])
           failed == {x \in Executions : status[x] = "error"}
<1>1. check[c].at = "decide" /\ check[c].cursor # None /\ fresh # {}
  BY DEF Decide
<1>2. \A x \in fresh : (emitted[x] = 0 \/ x \in doubtful) /\ x \in failed
  BY <1>1, SignalIsNew
<1>3. emitted' = [x \in Executions |-> IF x \in fresh THEN emitted[x] + 1 ELSE emitted[x]]
  BY DEF Decide
<1>4. UNCHANGED <<status, owed>> /\ doubtful \subseteq doubtful'
  BY DEF Decide, Outside
<1>5. Promise!Doubts
  BY <1>4 DEF OnceInv, Promise!Doubts
<1>6. Promise!Signal(fresh)
  BY <1>1, <1>2, <1>3, <1>4, <1>5 DEF Promise!Signal
<1>7. fresh \in SUBSET failed
  BY <1>2
<1> QED
  BY <1>6, <1>7 DEF Promise!Next

\* A step that signals nothing may leave a signal doubtful.
LEMMA PromiseUnrecord ==
  ASSUME OnceInv', doubtful \subseteq doubtful', UNCHANGED <<status, owed, emitted>>
  PROVE  Promise!Next
<1>1. Promise!Doubts
  BY DEF OnceInv, Promise!Doubts
<1> QED
  BY <1>1 DEF Promise!Next, Promise!Unrecord

LEMMA PromiseStep ==
  ASSUME OnceInv, [Next]_vars
  PROVE  [Promise!Next]_(Promise!vars)
<1> DEFINE failed == {x \in Executions : status[x] = "error"}
<1>0. OnceInv'
  BY OnceNext
<1>1. ASSUME NEW i \in Instances, NEW id \in Ids, Start(i, id) \/ Succeed(i, id)
      PROVE  UNCHANGED <<failed, owed, emitted, doubtful>>
  <2>1. UNCHANGED <<owed, emitted, doubtful>>
    BY <1>1 DEF Start, Succeed, Platform
  <2>2. status[<<i, id>>] # "error" /\ <<i, id>> \in Executions
    BY <1>1, ConstantsAssumption DEF Start, Succeed, Executions, Ids
  <2>3. \A x \in Executions : status[x] = "error" <=> status'[x] = "error"
    BY <1>1, <2>2 DEF Start, Succeed, OnceInv, TypeOK
  <2> QED
    BY <2>1, <2>3
<1>2. ASSUME NEW i \in Instances, NEW id \in Ids, Fail(i, id)
      PROVE  Promise!Next
  <2>1. Promise!Fail(<<i, id>>)
    BY <1>2, PromiseFail DEF OnceInv
  <2> QED
    BY <2>1 DEF Promise!Next, Executions
<1>3. CASE Run
  BY <1>1, <1>2, <1>3 DEF Run, Promise!vars
<1>4. ASSUME NEW c \in Checks, Decide(c)
      PROVE  Promise!Next
  <2>1. CASE emitted' = emitted
    <3>1. UNCHANGED <<status, owed, emitted>> /\ doubtful \subseteq doubtful'
      BY <1>4, <2>1 DEF Decide, Outside
    <3> QED
      BY <1>0, <3>1, PromiseUnrecord
  <2>2. CASE emitted' # emitted
    BY <1>0, <1>4, <2>2, PromiseSignal
  <2> QED
    BY <2>1, <2>2
<1>5. ASSUME NEW c \in Checks,
             \/ Begin(c) \/ FindInstance(c) \/ ReadPage(c) \/ Unreachable(c)
             \/ Push(c) \/ PushFails(c) \/ Store(c) \/ Throw(c)
      PROVE  Promise!Next
  <2>1. UNCHANGED <<status, owed, emitted>> /\ doubtful \subseteq doubtful'
    BY <1>5 DEF Begin, FindInstance, ReadPage, Unreachable, Push, PushPasses, SkipPush,
                PushFails, Count, Store, Throw, Outside, history
  <2> QED
    BY <1>0, <2>1, PromiseUnrecord
<1>6. CASE User \/ Restart \/ UNCHANGED vars
  <2>1. UNCHANGED <<status, owed, emitted>> /\ doubtful \subseteq doubtful'
    BY <1>6 DEF User, Retarget, Switch, Relink, RemoveInstance, Edited, Restart, vars, history
  <2> QED
    BY <1>0, <2>1, PromiseUnrecord
<1> QED
  BY <1>3, <1>4, <1>5, <1>6 DEF Next, Work, Continue, Tick, CheckNow

\* The monitor implements the abstract signal, whatever checks overlap, fail or
\* are cut short, whatever edits and restarts: it tells of executions that
\* failed, and tells again only of those whose signal met another check in
\* progress or was lost before the cursor was stored.
THEOREM WatchSignalsOnce == Spec => AtMostOnce
<1>1. Spec => []OnceInv
  BY OnceInit, OnceNext, PTL DEF Spec
<1>2. Spec => Promise!Init
  BY PromiseInit DEF Spec
<1>3. OnceInv /\ [Next]_vars => [Promise!Next]_(Promise!vars)
  BY PromiseStep
<1> QED
  BY <1>1, <1>2, <1>3, PTL DEF Spec, AtMostOnce, Promise!Spec

---------------------------------------------------------------------------
(* What the cursor passes was signalled, or overlooked for a known reason *)

\* This check will list the execution, or store a cursor behind it.
Hopeful(job, x) ==
    job.target = x[1] =>
        /\ CursorOrZero(job) < x[2]
        /\ job.next # None => job.next < x[2]
        /\ job.at \in {"page", "decide"} =>
              \/ x[2] \in job.fresh
              \/ job.at = "page" /\ x[2] < job.from
              \/ \A k \in job.fresh : k < x[2]

\* What is owed and was not told is still ahead of every check.
Waiting(x) ==
    /\ status[x] = "error" /\ x \in Monitored
    /\ CursorOrZero(monitor) < x[2]
    /\ \A c \in Checks : Hopeful(check[c], x)

Starts(job) == job.at = "find" => job.fresh = {} /\ job.next = None /\ job.from = MaxId + 1

\* Until it concludes, a check holds no cursor to store.
Undecided(job) == job.at \in {"page", "decide"} => job.next = None

PassedInv ==
    /\ TypeOK
    /\ \A c \in Checks : Starts(check[c]) /\ Undecided(check[c])
    /\ \A x \in owed \ overlooked : emitted[x] = 0 => Waiting(x)

LEMMA PassedInit == Init => PassedInv
<1> SUFFICES ASSUME Init PROVE PassedInv
  OBVIOUS
<1>1. \A c \in Checks : check[c].at = "idle"
  BY DEF Init, Idle
<1>2. owed = {}
  BY DEF Init
<1> QED
  BY <1>1, <1>2, TypeInit DEF PassedInv, Starts, Undecided

\* The numbers an untold execution is compared with.
LEMMA Numbers ==
  ASSUME TypeOK, NEW x \in Executions
  PROVE  /\ x[1] \in Instances /\ x[2] \in Ids /\ x[2] \in Nat /\ 0 < x[2]
         /\ x = <<x[1], x[2]>>
         /\ CursorOrZero(monitor) \in Nat
         /\ \A c \in Checks : /\ CursorOrZero(check[c]) \in Nat /\ check[c].from \in Nat
                              /\ check[c].fresh \subseteq Nat
                              /\ check[c].next # None => check[c].next \in Nat
<1>1. \A n : n \in Cursors => n \in Nat
  BY ConstantsAssumption DEF Cursors
<1>2. x[1] \in Instances /\ x[2] \in Ids /\ x = <<x[1], x[2]>>
  BY DEF Executions
<1>3. \A k \in Ids : k \in Nat /\ 0 < k
  BY ConstantsAssumption DEF Ids
<1>4. CursorOrZero(monitor) \in Nat
  BY <1>1 DEF CursorOrZero, TypeOK, Monitor
<1>5. ASSUME NEW c \in Checks
      PROVE  /\ CursorOrZero(check[c]) \in Nat /\ check[c].from \in Nat
             /\ check[c].fresh \subseteq Nat
             /\ check[c].next # None => check[c].next \in Nat
  <2>1. check[c] \in Check
    BY DEF TypeOK
  <2> QED
    BY <1>1, <1>3, <2>1, ConstantsAssumption DEF CursorOrZero, Check
<1> QED
  BY <1>2, <1>3, <1>4, <1>5

\* A step of one check that leaves the cursor and what is told as they are.
LEMMA PassedGoesOn ==
  ASSUME PassedInv, TypeOK', NEW c \in Checks, OthersStay(c),
         Starts(check'[c]), Undecided(check'[c]),
         UNCHANGED <<status, owed>>, overlooked \subseteq overlooked',
         \A x \in owed \ overlooked' : emitted'[x] = 0 => emitted[x] = 0,
         \A x \in owed \ overlooked' : emitted'[x] = 0 /\ Waiting(x) =>
             Hopeful(check'[c], x) /\ CursorOrZero(monitor') < x[2]
  PROVE  PassedInv'
<1>1. \A d \in Checks \ {c} : check'[d] = check[d]
  BY DEF OthersStay
<1>2. \A d \in Checks : Starts(check'[d]) /\ Undecided(check'[d])
  BY <1>1 DEF PassedInv
<1>3. ASSUME NEW x \in owed \ overlooked', emitted'[x] = 0
      PROVE  Waiting(x)'
  <2>1. Waiting(x)
    BY <1>3 DEF PassedInv
  <2>2. Hopeful(check'[c], x) /\ CursorOrZero(monitor') < x[2]
    BY <1>3, <2>1
  <2>3. \A d \in Checks : Hopeful(check'[d], x)
    BY <1>1, <2>1, <2>2 DEF Waiting
  <2> QED
    BY <2>1, <2>2, <2>3 DEF Waiting, Hopeful, CursorOrZero
<1>4. \A d \in Checks : Starts(check[d])' /\ Undecided(check[d])'
  BY <1>2 DEF Starts, Undecided
<1> QED
  BY <1>3, <1>4 DEF PassedInv

\* An execution that fails is owed: it was late, or every check is before it.
LEMMA PassedRun ==
  ASSUME PassedInv, TypeOK', Run
  PROVE  PassedInv'
<1>1. PICK i \in Instances, id \in Ids : Start(i, id) \/ Succeed(i, id) \/ Fail(i, id)
  BY DEF Run
<1> DEFINE y == <<i, id>>
<1>2. UNCHANGED <<monitor, check, emitted>> /\ y \in Executions
  BY <1>1 DEF Start, Succeed, Fail, Platform, Executions
<1>3. \A x \in Executions : status[x] = "error" => status'[x] = "error"
  <2>1. Start(i, id) => status[y] = "none"
    BY ConstantsAssumption DEF Start, Ids
  <2>2. \A x \in Executions : status'[x] = status[x] \/ (x = y /\ status[x] # "error")
    BY <1>1, <1>2, <2>1 DEF Start, Succeed, Fail, PassedInv, TypeOK
  <2> QED
    BY <2>2
<1>4. \A c \in Checks : Starts(check[c])' /\ Undecided(check[c])'
  BY <1>2 DEF PassedInv, Starts, Undecided
<1>5. \A x \in Executions : Waiting(x) => Waiting(x)'
  BY <1>2, <1>3 DEF Waiting, Hopeful, CursorOrZero
<1>6. ASSUME NEW x \in owed' \ overlooked', emitted'[x] = 0
      PROVE  Waiting(x)'
  <2>1. CASE x \in owed \ overlooked
    BY <1>2, <1>5, <1>6, <2>1 DEF PassedInv, TypeOK
  <2>2. CASE x \notin owed \ overlooked
    <3>1. Fail(i, id) /\ x = y /\ y \in Monitored /\ ~ Late(i, id)
      BY <1>1, <1>6, <2>2 DEF Start, Succeed, Fail
    <3>2. status'[x] = "error"
      BY <1>2, <3>1 DEF Fail, PassedInv, TypeOK
    <3>3. x[1] = i /\ x[2] = id
      BY <3>1
    <3>4. /\ CursorOrZero(monitor) \in Nat /\ id \in Nat
          /\ \A c \in Checks : /\ CursorOrZero(check[c]) \in Nat /\ check[c].from \in Nat
                               /\ check[c].fresh \subseteq Nat
                               /\ check[c].next # None => check[c].next \in Nat
      BY <1>2, <3>3, Numbers DEF PassedInv
    <3>5. CursorOrZero(monitor) < id
      BY <3>1, <3>4 DEF Late
    <3>6. ASSUME NEW c \in Checks, check[c].target = i
          PROVE  /\ CursorOrZero(check[c]) < id
                 /\ check[c].next # None => check[c].next < id
                 /\ check[c].at \in {"page", "decide"} =>
                       \/ id \in check[c].fresh
                       \/ check[c].at = "page" /\ id < check[c].from
                       \/ \A k \in check[c].fresh : k < id
      <4>1. ~ Passing(check[c], id)
        BY <3>1, <3>6 DEF Late
      <4>2. CursorOrZero(check[c]) < id
        BY <3>4, <4>1 DEF Passing
      <4>3. check[c].next # None => check[c].next < id
        BY <3>4, <4>1 DEF Passing
      <4>4. CASE \A k \in check[c].fresh : ~ (id < k)
        <5>1. id \in check[c].fresh \/ \A k \in check[c].fresh : k < id
          BY <3>4, <4>4
        <5> QED
          BY <4>2, <4>3, <5>1
      <4>5. CASE \E k \in check[c].fresh : id < k
        <5>1. check[c].at # "decide" /\ (check[c].at = "page" => id < check[c].from)
          BY <3>4, <4>1, <4>5 DEF Passing
        <5> QED
          BY <4>2, <4>3, <5>1
      <4> QED
        BY <4>4, <4>5
    <3> QED
      BY <1>2, <3>1, <3>2, <3>3, <3>5, <3>6 DEF Waiting, Hopeful, CursorOrZero
  <2> QED
    BY <2>1, <2>2
<1> QED
  BY <1>4, <1>6 DEF PassedInv

LEMMA PassedBegin ==
  ASSUME PassedInv, TypeOK', NEW c \in Checks, Begin(c)
  PROVE  PassedInv'
<1> DEFINE job == [Idle EXCEPT !.at = "find", !.target = monitor.target, !.cursor = monitor.cursor,
                               !.failures = monitor.failures, !.pushUrl = monitor.pushUrl]
<1>1. OthersStay(c) /\ check'[c] = job
  <2>1. Advance(c, job)
    BY DEF Begin
  <2> QED
    BY <2>1, OthersOfAdvance DEF PassedInv
<1>2. /\ job.at = "find" /\ job.cursor = monitor.cursor /\ job.fresh = {} /\ job.next = None
      /\ job.from = MaxId + 1
  BY DEF Idle
<1>3. UNCHANGED <<status, owed, monitor, emitted, overlooked>>
  BY DEF Begin, Outside
<1>4. Starts(check'[c]) /\ Undecided(check'[c])
  BY <1>1, <1>2 DEF Starts, Undecided
<1>5. \A x \in owed : Waiting(x) => Hopeful(check'[c], x) /\ CursorOrZero(monitor') < x[2]
  BY <1>1, <1>2, <1>3 DEF Waiting, Hopeful, CursorOrZero
<1> QED
  BY <1>1, <1>3, <1>4, <1>5, PassedGoesOn

\* A check that ends, concluding or not, is past nothing.
LEMMA IdleIsHopeful ==
  ASSUME NEW x \in Executions
  PROVE  Starts(Idle) /\ Undecided(Idle) /\ Hopeful(Idle, x)
<1>1. 0 < x[2]
  BY ConstantsAssumption DEF Executions, Ids
<1> QED
  BY <1>1 DEF Starts, Undecided, Hopeful, CursorOrZero, Idle

LEMMA PassedFind ==
  ASSUME PassedInv, TypeOK', NEW c \in Checks, FindInstance(c)
  PROVE  PassedInv'
<1>1. /\ UNCHANGED <<status, owed, emitted, overlooked>> /\ monitor'.cursor = monitor.cursor
      /\ check[c].at = "find" /\ check[c] \in Check
  BY DEF FindInstance, Outside, history, PassedInv, TypeOK, Monitor
<1>2. /\ OthersStay(c)
      /\ check'[c] = Idle \/ check'[c] = [check[c] EXCEPT !.at = "page"]
  BY OthersOfAdvance DEF FindInstance, PassedInv
<1>3. check[c].fresh = {} /\ check[c].next = None
  BY <1>1 DEF PassedInv, Starts
<1>4. Starts(check'[c]) /\ Undecided(check'[c])
  <2>1. CASE check'[c] = Idle
    BY <2>1 DEF Starts, Undecided, Idle
  <2>2. CASE check'[c] = [check[c] EXCEPT !.at = "page"]
    BY <1>1, <1>3, <2>2 DEF Starts, Undecided, Check
  <2> QED
    BY <1>2, <2>1, <2>2
<1>5. ASSUME NEW x \in owed, Waiting(x)
      PROVE  Hopeful(check'[c], x) /\ CursorOrZero(monitor') < x[2]
  <2>1. CursorOrZero(monitor') < x[2] /\ Hopeful(check[c], x)
    BY <1>1, <1>5 DEF Waiting, CursorOrZero
  <2>2. CASE check'[c] = Idle
    BY <2>1, <2>2, IdleIsHopeful DEF PassedInv, TypeOK
  <2>3. CASE check'[c] = [check[c] EXCEPT !.at = "page"]
    <3>1. /\ check'[c].target = check[c].target /\ check'[c].cursor = check[c].cursor
          /\ check'[c].fresh = {} /\ check'[c].next = None
      BY <1>1, <1>3, <2>3 DEF Check
    <3> QED
      BY <2>1, <3>1 DEF Hopeful, CursorOrZero
  <2> QED
    BY <1>2, <2>1, <2>2, <2>3
<1> QED
  BY <1>1, <1>2, <1>4, <1>5, PassedGoesOn

\* A page takes the highest ids: what is below it is left for the next page,
\* or is beyond the last one allowed.
LEMMA PassedReadPage ==
  ASSUME PassedInv, TypeOK', NEW c \in Checks, ReadPage(c)
  PROVE  PassedInv'
<1> DEFINE job == check[c]
           listing == Listing(job.target, job.from)
<1>1. PICK page \in SUBSET listing :
          /\ IsPage(page, listing)
          /\ overlooked' = IF IsLastAllowed(job)
                           THEN overlooked \union {<<job.target, id>> : id \in listing \ page}
                           ELSE overlooked
          /\ \/ /\ IsLast(job, page, listing)
                /\ Advance(c, [Read(job, page) EXCEPT !.at = "decide"])
             \/ /\ ~ IsLast(job, page, listing)
                /\ Advance(c, [Read(job, page) EXCEPT !.pages = @ + 1, !.from = MinId(page)])
  BY DEF ReadPage, Read
<1>2. job.at = "page" /\ job \in Check /\ job.next = None
  BY DEF ReadPage, PassedInv, TypeOK, Undecided
<1>3. UNCHANGED <<status, monitor, emitted, owed>>
  BY DEF ReadPage, Outside
<1>4. /\ OthersStay(c)
      /\ \/ check'[c] = [Read(job, page) EXCEPT !.at = "decide"] /\ IsLast(job, page, listing)
         \/ check'[c] = [Read(job, page) EXCEPT !.pages = @ + 1, !.from = MinId(page)]
            /\ ~ IsLast(job, page, listing)
  BY <1>1, OthersOfAdvance DEF PassedInv
<1>5. /\ check'[c].at \in {"page", "decide"}
      /\ check'[c].cursor = job.cursor /\ check'[c].target = job.target /\ check'[c].next = None
      /\ check'[c].fresh = job.fresh \union Unseen(page, job.cursor)
      /\ check'[c].at = "decide" => IsLast(job, page, listing)
      /\ check'[c].at = "page" => ~ IsLast(job, page, listing) /\ check'[c].from = MinId(page)
  BY <1>2, <1>4 DEF Read, Check
<1>6. Starts(check'[c]) /\ Undecided(check'[c])
  BY <1>5 DEF Starts, Undecided
<1>7. page \in SUBSET Ids /\ listing \subseteq Ids
  BY <1>1, ListingType
<1>8. ASSUME NEW x \in owed \ overlooked', Waiting(x), job.target = x[1]
      PROVE  \/ x[2] \in check'[c].fresh
             \/ check'[c].at = "page" /\ x[2] < check'[c].from
             \/ \A k \in check'[c].fresh : k < x[2]
  <2>0. x \in Executions
    BY DEF PassedInv, TypeOK
  <2>1. /\ x[2] \in Ids /\ x[2] \in Nat /\ x = <<x[1], x[2]>> /\ job.from \in Nat
        /\ CursorOrZero(job) \in Nat /\ job.fresh \subseteq Nat
    BY <2>0, Numbers DEF PassedInv
  <2>2. CursorOrZero(job) < x[2] /\ Hopeful(job, x) /\ status[x] = "error"
    BY <1>8 DEF Waiting, Hopeful
  <2>3. \A k \in page : k \in Nat /\ k < job.from
    BY <1>1, <1>7, ConstantsAssumption DEF Listing, Ids
  <2>4. Unseen(page, job.cursor) \subseteq page
    BY UnseenType
  <2>5. CASE x[2] \in job.fresh
    BY <1>5, <2>5
  <2>6. CASE (\A k \in job.fresh : k < x[2]) /\ ~ (x[2] < job.from)
    <3>1. \A k \in page : k < x[2]
      BY <2>1, <2>3, <2>6
    <3> QED
      BY <1>5, <2>4, <2>6, <3>1
  <2>7. CASE x[2] < job.from
    <3>1. x[2] \in listing
      <4>1. status[<<job.target, x[2]>>] = "error"
        BY <1>8, <2>1, <2>2
      <4> QED
        BY <2>1, <2>7, <4>1 DEF Listing, With
    <3>2. CASE x[2] \in page
      <4>1. x[2] \in Unseen(page, job.cursor)
        <5>1. job.cursor # None => job.cursor < x[2]
          BY <2>2 DEF CursorOrZero
        <5>2. job.cursor # None => job.cursor \in Nat
          BY <2>1 DEF CursorOrZero
        <5> QED
          BY <2>1, <3>2, <5>1, <5>2 DEF Unseen
      <4> QED
        BY <1>5, <4>1
    <3>3. CASE x[2] \notin page
      <4>1. \A k \in page : x[2] < k
        BY <1>1, <3>1, <3>3 DEF IsPage
      <4>2. page # listing
        BY <3>1, <3>3
      <4>3. page # {}
        BY <1>1, <4>2, FullPageNotEmpty
      <4>4. ~ IsLastAllowed(job)
        <5>1. IsLastAllowed(job) => <<job.target, x[2]>> \in overlooked'
          BY <1>1, <3>1, <3>3
        <5> QED
          BY <1>8, <2>1, <5>1
      <4>5. Unseen(page, job.cursor) = page
        <5>1. job.cursor # None => job.cursor < x[2] /\ job.cursor \in Nat
          BY <2>1, <2>2 DEF CursorOrZero
        <5>2. \A k \in page : job.cursor # None => k > job.cursor
          BY <2>1, <2>3, <4>1, <5>1
        <5> QED
          BY <5>2 DEF Unseen
      <4>6. ~ IsLast(job, page, listing)
        BY <4>2, <4>4, <4>5 DEF IsLast
      <4>7. check'[c].at = "page" /\ check'[c].from = MinId(page)
        BY <1>5, <4>6
      <4>8. x[2] < MinId(page)
        BY <1>7, <4>1, <4>3, MinIdIsLeast
      <4> QED
        BY <4>7, <4>8
    <3> QED
      BY <3>2, <3>3
  <2> QED
    BY <1>2, <1>8, <2>2, <2>5, <2>6, <2>7 DEF Hopeful
<1>9. ASSUME NEW x \in owed \ overlooked', Waiting(x)
      PROVE  Hopeful(check'[c], x) /\ CursorOrZero(monitor') < x[2]
  <2>1. CursorOrZero(monitor') < x[2] /\ Hopeful(job, x)
    BY <1>3, <1>9 DEF Waiting
  <2>2. job.target = x[1] => CursorOrZero(check'[c]) < x[2]
    BY <1>5, <2>1 DEF Hopeful, CursorOrZero
  <2> QED
    BY <1>5, <1>8, <1>9, <2>1, <2>2 DEF Hopeful
<1>10. overlooked \subseteq overlooked'
  BY <1>1
<1> QED
  BY <1>3, <1>4, <1>6, <1>9, <1>10, PassedGoesOn

LEMMA PassedUnreachable ==
  ASSUME PassedInv, TypeOK', NEW c \in Checks, Unreachable(c)
  PROVE  PassedInv'
<1>1. UNCHANGED <<status, owed, monitor, emitted, overlooked>> /\ check[c] \in Check
  BY DEF Unreachable, Outside, history, PassedInv, TypeOK
<1>2. OthersStay(c) /\ check'[c] = KeepCursor(check[c])
  BY OthersOfAdvance DEF Unreachable, PassedInv
<1>3. /\ check'[c].at = "push" /\ check'[c].cursor = check[c].cursor
      /\ check'[c].next = check[c].cursor /\ check'[c].target = check[c].target
  BY <1>1, <1>2 DEF KeepCursor, Check
<1>4. Starts(check'[c]) /\ Undecided(check'[c])
  BY <1>3 DEF Starts, Undecided
<1>5. ASSUME NEW x \in owed, Waiting(x)
      PROVE  Hopeful(check'[c], x) /\ CursorOrZero(monitor') < x[2]
  BY <1>1, <1>3, <1>5 DEF Waiting, Hopeful, CursorOrZero
<1> QED
  BY <1>1, <1>2, <1>4, <1>5, PassedGoesOn

LEMMA PassedDecide ==
  ASSUME PassedInv, TypeOK', NEW c \in Checks, Decide(c)
  PROVE  PassedInv'
<1> DEFINE job == check[c]
<1>1. UNCHANGED <<status, owed, monitor>> /\ job \in Check /\ job.at = "decide"
  BY DEF Decide, Outside, PassedInv, TypeOK
<1>2. OthersStay(c) /\ check'[c] = [job EXCEPT !.at = "push", !.next = NewCursor(job)]
  BY OthersOfAdvance DEF Decide, PassedInv
<1>3. /\ check'[c].at = "push" /\ check'[c].cursor = job.cursor /\ check'[c].target = job.target
      /\ check'[c].next = NewCursor(job)
  BY <1>1, <1>2 DEF Check
<1>4. /\ overlooked' = IF job.cursor = None
                       THEN overlooked \union {<<job.target, id>> : id \in job.fresh} ELSE overlooked
      /\ \A x \in Executions :
            emitted'[x] = IF job.cursor # None /\ x \in Signalled(job) THEN emitted[x] + 1 ELSE emitted[x]
  BY DEF Decide, PassedInv, TypeOK
<1>5. Starts(check'[c]) /\ Undecided(check'[c])
  BY <1>3 DEF Starts, Undecided
<1>6. owed \subseteq Executions /\ \A x \in Executions : emitted[x] \in Nat
  BY DEF PassedInv, TypeOK
<1>7. \A x \in owed : emitted'[x] = 0 => emitted[x] = 0
  BY <1>4, <1>6
<1>8. ASSUME NEW x \in owed \ overlooked', emitted'[x] = 0, Waiting(x)
      PROVE  Hopeful(check'[c], x) /\ CursorOrZero(monitor') < x[2]
  <2>1. CursorOrZero(monitor') < x[2] /\ Hopeful(job, x) /\ x \in Monitored
    BY <1>1, <1>8 DEF Waiting
  <2>2. ASSUME job.target = x[1]
        PROVE  NewCursor(job) < x[2] /\ CursorOrZero(job) < x[2]
    <3>1. x = <<job.target, x[2]>>
      BY <1>6, <2>2, Numbers DEF PassedInv
    <3>2. x[2] \notin job.fresh
      <4>1. CASE job.cursor = None
        BY <1>4, <1>8, <3>1, <4>1
      <4>2. CASE job.cursor # None
        <5>1. x \notin Signalled(job)
          BY <1>4, <1>6, <1>8, <4>2
        <5> QED
          BY <2>1, <3>1, <5>1 DEF Signalled
      <4> QED
        BY <4>1, <4>2
    <3>3. (\A k \in job.fresh : k < x[2]) /\ CursorOrZero(job) < x[2]
      BY <1>1, <2>1, <2>2, <3>2 DEF Hopeful
    <3>4. NewCursor(job) \in job.fresh \union {CursorOrZero(job)}
      BY <1>1, NewCursorIsGreatest
    <3> QED
      BY <3>3, <3>4
  <2> QED
    BY <1>3, <2>1, <2>2 DEF Hopeful, CursorOrZero
<1>9. overlooked \subseteq overlooked'
  BY <1>4
<1> QED
  BY <1>1, <1>2, <1>5, <1>7, <1>8, <1>9, PassedGoesOn

LEMMA PassedCount ==
  ASSUME PassedInv, TypeOK', NEW c \in Checks, NEW n, Count(c, n)
  PROVE  PassedInv'
<1>1. UNCHANGED <<status, owed, monitor, emitted, overlooked>> /\ check[c] \in Check
  BY DEF Count, Outside, PassedInv, TypeOK
<1>2. OthersStay(c) /\ check'[c] = [check[c] EXCEPT !.at = "store", !.failures = n]
  BY OthersOfAdvance DEF Count, PassedInv
<1>3. /\ check'[c].at = "store" /\ check'[c].cursor = check[c].cursor
      /\ check'[c].next = check[c].next /\ check'[c].target = check[c].target
  BY <1>1, <1>2 DEF Check
<1>4. Starts(check'[c]) /\ Undecided(check'[c])
  BY <1>3 DEF Starts, Undecided
<1>5. ASSUME NEW x \in owed, Waiting(x)
      PROVE  Hopeful(check'[c], x) /\ CursorOrZero(monitor') < x[2]
  BY <1>1, <1>3, <1>5 DEF Waiting, Hopeful, CursorOrZero
<1> QED
  BY <1>1, <1>2, <1>4, <1>5, PassedGoesOn

\* The cursor moves past what another instance owed, which is overlooked.
LEMMA PassedStore ==
  ASSUME PassedInv, TypeOK', NEW c \in Checks, Store(c)
  PROVE  PassedInv'
<1>1. UNCHANGED <<status, owed, emitted>> /\ check[c] \in Check
  BY DEF Store, Outside, PassedInv, TypeOK
<1>2. OthersStay(c) /\ check'[c] = Idle
  BY OthersOfAdvance DEF Store, PassedInv
<1>3. monitor'.cursor = check[c].next
  BY DEF Store, PassedInv, TypeOK, Monitor
<1>4. overlooked' = overlooked \union
         {x \in Executions : x[1] # check[c].target /\ check[c].next # None /\ x[2] <= check[c].next}
  BY DEF Store
<1>5. Starts(check'[c]) /\ Undecided(check'[c])
  BY <1>2 DEF Starts, Undecided, Idle
<1>6. ASSUME NEW x \in owed \ overlooked', Waiting(x)
      PROVE  Hopeful(check'[c], x) /\ CursorOrZero(monitor') < x[2]
  <2>0. x \in Executions
    BY DEF PassedInv, TypeOK
  <2>1. /\ x[2] \in Nat /\ 0 < x[2]
        /\ check[c].next # None => check[c].next \in Nat
    BY <2>0, Numbers DEF PassedInv
  <2>2. check[c].next # None => check[c].next < x[2]
    <3>1. CASE check[c].target = x[1]
      BY <1>6, <3>1 DEF Waiting, Hopeful
    <3>2. CASE check[c].target # x[1]
      <4>1. check[c].next # None => ~ (x[2] <= check[c].next)
        BY <1>4, <1>6, <2>0, <3>2
      <4> QED
        BY <2>1, <4>1
    <3> QED
      BY <3>1, <3>2
  <2>3. CursorOrZero(monitor') < x[2]
    BY <1>3, <2>1, <2>2 DEF CursorOrZero
  <2> QED
    BY <1>2, <2>0, <2>3, IdleIsHopeful
<1> QED
  BY <1>1, <1>2, <1>4, <1>5, <1>6, PassedGoesOn

LEMMA PassedThrow ==
  ASSUME PassedInv, TypeOK', NEW c \in Checks, Throw(c)
  PROVE  PassedInv'
<1>1. UNCHANGED <<status, owed, monitor, emitted, overlooked>>
  BY DEF Throw, Outside
<1>2. OthersStay(c) /\ check'[c] = Idle
  BY OthersOfAdvance DEF Throw, PassedInv
<1>3. Starts(check'[c]) /\ Undecided(check'[c])
  BY <1>2 DEF Starts, Undecided, Idle
<1>4. \A x \in owed : Waiting(x) => Hopeful(check'[c], x) /\ CursorOrZero(monitor') < x[2]
  BY <1>1, <1>2, IdleIsHopeful DEF Waiting, PassedInv, TypeOK
<1> QED
  BY <1>1, <1>2, <1>3, <1>4, PassedGoesOn

LEMMA PassedRestart ==
  ASSUME PassedInv, TypeOK', Restart
  PROVE  PassedInv'
<1>1. UNCHANGED <<status, owed, monitor, emitted, overlooked>> /\ \A c \in Checks : check'[c] = Idle
  BY DEF Restart
<1>2. \A c \in Checks : Starts(check[c])' /\ Undecided(check[c])'
  BY <1>1 DEF Starts, Undecided, Idle
<1>3. ASSUME NEW x \in owed \ overlooked, Waiting(x)
      PROVE  Waiting(x)'
  <2>1. \A c \in Checks : Hopeful(check'[c], x)
    BY <1>1, IdleIsHopeful DEF PassedInv, TypeOK
  <2> QED
    BY <1>1, <1>3, <2>1 DEF Waiting, Hopeful, CursorOrZero
<1> QED
  BY <1>1, <1>2, <1>3 DEF PassedInv

LEMMA PassedUser ==
  ASSUME PassedInv, TypeOK', User
  PROVE  PassedInv'
<1>1. UNCHANGED <<status, owed, check, emitted, overlooked>>
  BY DEF User, Retarget, Switch, Relink, RemoveInstance, Edited, history
<1>2. monitor'.cursor = monitor.cursor
  BY DEF User, Retarget, Switch, Relink, RemoveInstance, Edited, PassedInv, TypeOK, Monitor
<1>3. \A c \in Checks : Starts(check[c])' /\ Undecided(check[c])'
  BY <1>1 DEF PassedInv, Starts, Undecided
<1>4. \A x \in Executions : Waiting(x) => Waiting(x)'
  BY <1>1, <1>2 DEF Waiting, Hopeful, CursorOrZero
<1> QED
  BY <1>1, <1>3, <1>4 DEF PassedInv, TypeOK

LEMMA PassedNext == PassedInv /\ [Next]_vars => PassedInv'
<1> SUFFICES ASSUME PassedInv, [Next]_vars PROVE PassedInv'
  OBVIOUS
<1>1. TypeOK'
  BY TypeNext DEF PassedInv
<1>2. CASE Run
  BY <1>1, <1>2, PassedRun
<1>3. ASSUME NEW c \in Checks, Work(c)
      PROVE  PassedInv'
  <2>1. CASE Begin(c)
    BY <1>1, <2>1, PassedBegin
  <2>2. CASE FindInstance(c)
    BY <1>1, <2>2, PassedFind
  <2>3. CASE ReadPage(c)
    BY <1>1, <2>3, PassedReadPage
  <2>4. CASE Unreachable(c)
    BY <1>1, <2>4, PassedUnreachable
  <2>5. CASE Decide(c)
    BY <1>1, <2>5, PassedDecide
  <2>6. CASE Push(c) \/ PushFails(c)
    <3>1. PICK n : Count(c, n)
      BY <2>6 DEF Push, PushPasses, SkipPush, PushFails
    <3> QED
      BY <1>1, <3>1, PassedCount
  <2>7. CASE Store(c)
    BY <1>1, <2>7, PassedStore
  <2>8. CASE Throw(c)
    BY <1>1, <2>8, PassedThrow
  <2> QED
    BY <1>3, <2>1, <2>2, <2>3, <2>4, <2>5, <2>6, <2>7, <2>8 DEF Work, Continue, Tick, CheckNow
<1>4. CASE User
  BY <1>1, <1>4, PassedUser
<1>5. CASE Restart
  BY <1>1, <1>5, PassedRestart
<1>6. CASE UNCHANGED vars
  <2>1. UNCHANGED <<status, owed, monitor, check, emitted, overlooked>>
    BY <1>6 DEF vars, history
  <2>2. \A c \in Checks : Starts(check[c])' /\ Undecided(check[c])'
    BY <2>1 DEF PassedInv, Starts, Undecided
  <2>3. \A x \in Executions : Waiting(x) => Waiting(x)'
    BY <2>1 DEF Waiting, Hopeful, CursorOrZero
  <2> QED
    BY <1>1, <2>1, <2>2, <2>3 DEF PassedInv, TypeOK
<1> QED
  BY <1>2, <1>3, <1>4, <1>5, <1>6 DEF Next

\* The cursor passes an error the monitor owed only if it was signalled, or for
\* one of the four reasons that put it in overlooked: overlapping checks, failed
\* calls, restarts, edits and several pages lose nothing else.
THEOREM CursorPassesNothingUntold == Spec => []PassedIsSignalled
<1>1. Spec => []PassedInv
  BY PassedInit, PassedNext, PTL DEF Spec
<1>2. PassedInv => PassedIsSignalled
  <2> SUFFICES ASSUME PassedInv, NEW x \in owed \ overlooked, x[2] <= CursorOrZero(monitor)
               PROVE  emitted[x] > 0
    BY DEF PassedIsSignalled
  <2>1. x \in Executions
    BY DEF PassedInv, TypeOK
  <2>2. x[2] \in Nat /\ CursorOrZero(monitor) \in Nat /\ emitted[x] \in Nat
    BY <2>1, Numbers DEF PassedInv, TypeOK
  <2>3. emitted[x] # 0
    BY <2>2 DEF PassedInv, Waiting
  <2> QED
    BY <2>2, <2>3
<1> QED
  BY <1>1, <1>2, PTL

---------------------------------------------------------------------------
(* The relay: one alert per outage, and one end of it *)

\* The alerts told and not lifted, when this much is pending.
Balance(told, pending) == told.broken = told.restored + told.dropped + pending

\* As long as no change of the relay met another check or was lost: a check
\* holds what the row says, and the one that told a change is alone.
RelayInv ==
    /\ TypeOK
    /\ ~ astray =>
          /\ \A c \in Checks : InProgress(c) /\ check[c].at # "store" =>
                Pending(check[c].failures) = Pending(monitor.failures)
          /\ \A c \in Checks : Telling(c) =>
                /\ \A d \in Checks \ {c} : ~ InProgress(d)
                /\ Balance(relay, Pending(check[c].failures))
          /\ (\A c \in Checks : ~ Telling(c)) => Balance(relay, Pending(monitor.failures))

LEMMA PendingNat == ASSUME NEW n PROVE Pending(n) \in {0, 1}
BY DEF Pending

LEMMA RelayInit == Init => RelayInv
<1> SUFFICES ASSUME Init PROVE RelayInv
  OBVIOUS
<1>1. \A c \in Checks : ~ InProgress(c) /\ ~ Telling(c)
  BY DEF Init, Idle, InProgress, Telling
<1>2. monitor.failures = 0 /\ Pending(0) = 0
  BY ConstantsAssumption DEF Init, Pending
<1>3. Balance(relay, Pending(monitor.failures))
  BY <1>2 DEF Init, Balance
<1> QED
  BY <1>1, <1>3, TypeInit DEF RelayInv

\* A step that pushes and stores nothing.
LEMMA RelayKept ==
  ASSUME RelayInv, TypeOK', NEW c \in Checks, OthersStay(c),
         relay' = relay, monitor'.failures = monitor.failures, astray' = astray,
         check'[c].at # "store", check[c].at # "store",
         InProgress(c)' => InProgress(c) /\ check'[c].failures = check[c].failures
  PROVE  RelayInv'
<1> SUFFICES ASSUME ~ astray' PROVE RelayInv'
  BY DEF RelayInv
<1>1. \A d \in Checks \ {c} : check'[d] = check[d]
  BY DEF OthersStay
<1>2. \A d \in Checks : InProgress(d)' => InProgress(d) /\ check'[d].failures = check[d].failures
  BY <1>1 DEF InProgress
<1>3. \A d \in Checks : Telling(d)' <=> Telling(d)
  BY <1>1 DEF Telling
<1>4. \A d \in Checks : Telling(d) => check'[d] = check[d]
  BY <1>1 DEF Telling
<1>5. \A d \in Checks : InProgress(d)' /\ check'[d].at # "store" => check[d].at # "store"
  BY <1>1
<1> QED
  BY <1>2, <1>3, <1>4, <1>5 DEF RelayInv, Balance

LEMMA RelayBegin ==
  ASSUME RelayInv, TypeOK', NEW c \in Checks, Begin(c)
  PROVE  RelayInv'
<1> DEFINE job == [Idle EXCEPT !.at = "find", !.target = monitor.target, !.cursor = monitor.cursor,
                               !.failures = monitor.failures, !.pushUrl = monitor.pushUrl]
<1>1. OthersStay(c) /\ check'[c] = job /\ check[c].at = "idle"
  <2>1. Advance(c, job) /\ check[c].at = "idle"
    BY DEF Begin
  <2> QED
    BY <2>1, OthersOfAdvance DEF RelayInv
<1>2. job.at = "find" /\ job.failures = monitor.failures
  BY DEF Idle
<1>3. UNCHANGED <<monitor, relay>> /\ astray' = (astray \/ \E d \in Checks : Telling(d))
  BY DEF Begin
<1> SUFFICES ASSUME ~ astray' PROVE RelayInv'
  BY DEF RelayInv
<1>4. ~ astray /\ \A d \in Checks : ~ Telling(d)
  BY <1>3
<1>5. \A d \in Checks \ {c} : check'[d] = check[d]
  BY <1>1 DEF OthersStay
<1>6. \A d \in Checks : ~ Telling(d)'
  BY <1>1, <1>2, <1>3, <1>4, <1>5 DEF Telling
<1>7. \A d \in Checks : InProgress(d)' /\ check'[d].at # "store" =>
                          Pending(check'[d].failures) = Pending(monitor'.failures)
  BY <1>1, <1>2, <1>3, <1>4, <1>5 DEF RelayInv, InProgress
<1> QED
  BY <1>3, <1>4, <1>6, <1>7 DEF RelayInv, Balance

\* The verdict: what the check tells is what it will store.
LEMMA RelayCount ==
  ASSUME RelayInv, TypeOK', NEW c \in Checks, NEW n \in Nat, Count(c, n),
         ~ astray /\ Balance(relay, Pending(check[c].failures)) => Balance(relay', Pending(n))
  PROVE  RelayInv'
<1>1. UNCHANGED monitor /\ check[c].at = "push" /\ check[c] \in Check
  BY DEF Count, RelayInv, TypeOK
<1>2. OthersStay(c) /\ check'[c] = [check[c] EXCEPT !.at = "store", !.failures = n]
  BY OthersOfAdvance DEF Count, RelayInv
<1>3. check'[c].at = "store" /\ check'[c].failures = n
  BY <1>1, <1>2 DEF Check
<1>4. \A d \in Checks \ {c} : check'[d] = check[d]
  BY <1>2 DEF OthersStay
<1> SUFFICES ASSUME ~ astray' PROVE RelayInv'
  BY DEF RelayInv
<1>5. ~ astray
  BY DEF Count
<1>6. Pending(n) = Pending(monitor.failures) \/ \A d \in Checks \ {c} : ~ InProgress(d)
  BY DEF Count
<1>7. Pending(check[c].failures) = Pending(monitor.failures) /\ InProgress(c) /\ ~ Telling(c)
  BY <1>1, <1>5 DEF RelayInv, InProgress, Telling
<1>8. \A d \in Checks : ~ Telling(d)
  BY <1>5, <1>7 DEF RelayInv
<1>9. Balance(relay', Pending(n))
  BY <1>5, <1>7, <1>8 DEF RelayInv
<1>10. \A d \in Checks \ {c} : ~ Telling(d)'
  BY <1>1, <1>4, <1>8 DEF Telling
<1>11. Telling(c)' => Pending(n) # Pending(monitor.failures)
  BY <1>1, <1>3 DEF Telling
<1>12. \A d \in Checks : InProgress(d)' /\ check'[d].at # "store" =>
                           Pending(check'[d].failures) = Pending(monitor'.failures)
  BY <1>1, <1>3, <1>4, <1>5 DEF RelayInv, InProgress
<1>13. \A d \in Checks : Telling(d)' =>
          /\ \A e \in Checks \ {d} : ~ InProgress(e)'
          /\ Balance(relay', Pending(check'[d].failures))
  <2> SUFFICES ASSUME NEW d \in Checks, Telling(d)'
               PROVE  /\ \A e \in Checks \ {d} : ~ InProgress(e)'
                      /\ Balance(relay', Pending(check'[d].failures))
    OBVIOUS
  <2>1. d = c
    BY <1>10
  <2>2. \A e \in Checks \ {c} : ~ InProgress(e)
    BY <1>6, <1>11, <2>1
  <2> QED
    BY <1>3, <1>4, <1>9, <2>1, <2>2 DEF InProgress, Balance
<1>14. (\A d \in Checks : ~ Telling(d)') => Balance(relay', Pending(monitor'.failures))
  <2>1. ~ Telling(c)' => Pending(n) = Pending(monitor.failures)
    BY <1>1, <1>3 DEF Telling
  <2> QED
    BY <1>1, <1>9, <2>1 DEF Balance
<1> QED
  BY <1>12, <1>13, <1>14 DEF RelayInv

LEMMA RelayPushFails ==
  ASSUME RelayInv, TypeOK', NEW c \in Checks, PushFails(c)
  PROVE  RelayInv'
<1> DEFINE n == check[c].failures + 1
<1>1. check[c].failures \in Nat /\ n \in Nat
  BY DEF RelayInv, TypeOK, Check
<1>2. /\ Count(c, n)
      /\ relay' = IF Breaks(n) THEN [relay EXCEPT !.broken = @ + 1] ELSE relay
  BY DEF PushFails
<1>3. Pending(n) = Pending(check[c].failures) + (IF Breaks(n) THEN 1 ELSE 0)
  BY <1>1, ConstantsAssumption DEF Pending, Breaks
<1>4. Balance(relay, Pending(check[c].failures)) => Balance(relay', Pending(n))
  <2>1. /\ relay.broken \in Nat /\ relay.restored \in Nat /\ relay.dropped \in Nat
        /\ relay'.restored = relay.restored /\ relay'.dropped = relay.dropped
        /\ relay'.broken = relay.broken + (IF Breaks(n) THEN 1 ELSE 0)
    <3>1. relay \in [broken : Nat, restored : Nat, dropped : Nat]
      BY DEF RelayInv, TypeOK
    <3> QED
      BY <1>2, <3>1
  <2>2. Pending(check[c].failures) \in {0, 1}
    BY PendingNat
  <2> DEFINE one == IF Breaks(n) THEN 1 ELSE 0
  <2>3. one \in {0, 1} /\ Pending(n) = Pending(check[c].failures) + one
    BY <1>3
  <2> HIDE DEF n, one
  <2> QED
    BY <2>1, <2>2, <2>3 DEF Balance, one
<1> QED
  BY <1>1, <1>2, <1>4, RelayCount

LEMMA RelayPush ==
  ASSUME RelayInv, TypeOK', NEW c \in Checks, Push(c)
  PROVE  RelayInv'
<1> DEFINE held == Pending(check[c].failures)
<1>1. Count(c, 0) /\ check[c].failures \in Nat
  BY DEF Push, PushPasses, SkipPush, RelayInv, TypeOK, Check
<1>2. Pending(0) = 0
  BY ConstantsAssumption DEF Pending
<1>3. held = IF check[c].failures >= Threshold THEN 1 ELSE 0
  BY DEF Pending
<1>4. relay \in [broken : Nat, restored : Nat, dropped : Nat]
  BY DEF RelayInv, TypeOK
<1>5. /\ relay'.broken = relay.broken
      /\ relay'.restored + relay'.dropped = relay.restored + relay.dropped + held
  BY <1>3, <1>4 DEF Push, PushPasses, SkipPush
<1>6. Balance(relay, held) => Balance(relay', Pending(0))
  <2>1. /\ relay'.restored \in Nat /\ relay'.dropped \in Nat /\ relay'.broken \in Nat
    BY DEF TypeOK
  <2>2. held \in {0, 1}
    BY PendingNat
  <2> HIDE DEF held
  <2> QED
    BY <1>2, <1>4, <1>5, <2>1, <2>2 DEF Balance
<1> QED
  BY <1>1, <1>6, RelayCount

\* What the check told becomes what the row says.
LEMMA RelayStore ==
  ASSUME RelayInv, TypeOK', NEW c \in Checks, Store(c)
  PROVE  RelayInv'
<1>1. UNCHANGED <<relay, astray>> /\ monitor'.failures = check[c].failures /\ check[c].at = "store"
  BY DEF Store, RelayInv, TypeOK, Monitor
<1>2. OthersStay(c) /\ check'[c] = Idle
  BY OthersOfAdvance DEF Store, RelayInv
<1>3. \A d \in Checks \ {c} : check'[d] = check[d]
  BY <1>2 DEF OthersStay
<1>4. check'[c].at = "idle" /\ ~ InProgress(c)' /\ ~ Telling(c)'
  BY <1>2 DEF Idle, InProgress, Telling
<1> SUFFICES ASSUME ~ astray PROVE RelayInv'
  BY <1>1 DEF RelayInv
<1>5. CASE Telling(c)
  <2>1. \A d \in Checks : ~ InProgress(d)'
    BY <1>3, <1>4, <1>5 DEF RelayInv, InProgress
  <2>2. \A d \in Checks : ~ Telling(d)'
    BY <2>1 DEF InProgress, Telling
  <2>3. Balance(relay', Pending(monitor'.failures))
    BY <1>1, <1>5 DEF RelayInv
  <2> QED
    BY <2>1, <2>2, <2>3 DEF RelayInv
<1>6. CASE ~ Telling(c)
  <2>1. Pending(monitor'.failures) = Pending(monitor.failures)
    BY <1>1, <1>6 DEF Telling
  <2>2. \A d \in Checks : Telling(d)' => d # c /\ Telling(d) /\ check'[d] = check[d]
    BY <1>3, <1>4, <2>1 DEF Telling
  <2>3. \A d \in Checks : ~ Telling(d)
    <3>1. InProgress(c)
      BY <1>1 DEF InProgress
    <3> QED
      BY <1>6, <3>1 DEF RelayInv
  <2>4. \A d \in Checks : InProgress(d)' /\ check'[d].at # "store" =>
                            Pending(check'[d].failures) = Pending(monitor'.failures)
    BY <1>3, <1>4, <2>1 DEF RelayInv, InProgress
  <2>5. Balance(relay', Pending(monitor'.failures))
    BY <1>1, <2>1, <2>3 DEF RelayInv
  <2> QED
    BY <2>2, <2>3, <2>4, <2>5 DEF RelayInv
<1> QED
  BY <1>5, <1>6

\* A check that is cut short told nothing, or the relay goes astray.
LEMMA RelayCut ==
  ASSUME RelayInv, TypeOK', NEW Cut \in SUBSET Checks,
         \A c \in Cut : check'[c] = Idle,
         \A c \in Checks \ Cut : check'[c] = check[c],
         astray' = (astray \/ \E c \in Cut : Telling(c)),
         UNCHANGED <<monitor, relay>>
  PROVE  RelayInv'
<1>1. \A c \in Cut : ~ InProgress(c)' /\ ~ Telling(c)'
  BY DEF Idle, InProgress, Telling
<1>2. \A c \in Checks \ Cut : /\ InProgress(c)' <=> InProgress(c)
                              /\ Telling(c)' <=> Telling(c)
  BY DEF InProgress, Telling
<1> SUFFICES ASSUME ~ astray' PROVE RelayInv'
  BY DEF RelayInv
<1>3. ~ astray /\ \A c \in Cut : ~ Telling(c)
  OBVIOUS
<1>4. \A c \in Checks : InProgress(c)' => InProgress(c) /\ check'[c] = check[c]
  BY <1>1, <1>2
<1>5. \A c \in Checks : Telling(c)' => Telling(c) /\ check'[c] = check[c]
  BY <1>1, <1>2
<1>6. (\A c \in Checks : ~ Telling(c)') => \A c \in Checks : ~ Telling(c)
  BY <1>2, <1>3
<1> QED
  BY <1>3, <1>4, <1>5, <1>6 DEF RelayInv

LEMMA RelayNext == RelayInv /\ [Next]_vars => RelayInv'
<1> SUFFICES ASSUME RelayInv, [Next]_vars PROVE RelayInv'
  OBVIOUS
<1>1. TypeOK'
  BY TypeNext DEF RelayInv
<1>2. ASSUME UNCHANGED <<check, relay, astray>>, monitor'.failures = monitor.failures
      PROVE  RelayInv'
  <2>1. \A c \in Checks : /\ InProgress(c)' <=> InProgress(c)
                          /\ Telling(c)' <=> Telling(c)
    BY <1>2 DEF InProgress, Telling
  <2> QED
    BY <1>1, <1>2, <2>1 DEF RelayInv
<1>3. CASE Run
  <2>1. UNCHANGED <<check, relay, astray, monitor>>
    BY <1>3 DEF Run, Start, Succeed, Fail, Platform
  <2> QED
    BY <1>2, <2>1
<1>4. ASSUME NEW c \in Checks, Work(c)
      PROVE  RelayInv'
  <2>1. CASE Begin(c)
    BY <1>1, <2>1, RelayBegin
  <2>2. ASSUME FindInstance(c) \/ ReadPage(c) \/ Unreachable(c) \/ Decide(c)
        PROVE  RelayInv'
    <3>1. /\ UNCHANGED <<relay, astray>> /\ monitor'.failures = monitor.failures
          /\ check[c].at \in {"find", "page", "decide"} /\ check[c] \in Check
      BY <2>2 DEF FindInstance, ReadPage, Unreachable, Decide, Outside, history, RelayInv, TypeOK, Monitor
    <3>2. /\ OthersStay(c)
          /\ \/ check'[c].at = "idle"
             \/ check'[c].at # "store" /\ check'[c].failures = check[c].failures
      <4>1. CASE FindInstance(c)
        <5>1. OthersStay(c) /\ (check'[c] = Idle \/ check'[c] = [check[c] EXCEPT !.at = "page"])
          BY <4>1, OthersOfAdvance DEF FindInstance, RelayInv
        <5> QED
          BY <3>1, <5>1 DEF Check, Idle
      <4>2. CASE ReadPage(c)
        <5>1. PICK page :
                 \/ Advance(c, [Read(check[c], page) EXCEPT !.at = "decide"])
                 \/ Advance(c, [Read(check[c], page) EXCEPT !.pages = @ + 1, !.from = MinId(page)])
          BY <4>2 DEF ReadPage, Read
        <5>2. /\ OthersStay(c)
              /\ \/ check'[c] = [Read(check[c], page) EXCEPT !.at = "decide"]
                 \/ check'[c] = [Read(check[c], page) EXCEPT !.pages = @ + 1, !.from = MinId(page)]
          BY <5>1, OthersOfAdvance DEF RelayInv
        <5> QED
          BY <3>1, <5>2 DEF Read, Check
      <4>3. CASE Unreachable(c)
        <5>1. OthersStay(c) /\ check'[c] = KeepCursor(check[c])
          BY <4>3, OthersOfAdvance DEF Unreachable, RelayInv
        <5> QED
          BY <3>1, <5>1 DEF KeepCursor, Check
      <4>4. CASE Decide(c)
        <5>1. OthersStay(c) /\ check'[c] = [check[c] EXCEPT !.at = "push", !.next = NewCursor(check[c])]
          BY <4>4, OthersOfAdvance DEF Decide, RelayInv
        <5> QED
          BY <3>1, <5>1 DEF Check
      <4> QED
        BY <2>2, <4>1, <4>2, <4>3, <4>4
    <3>4. check'[c].at # "store" /\ check[c].at # "store"
      BY <3>1, <3>2
    <3>5. InProgress(c)' => InProgress(c) /\ check'[c].failures = check[c].failures
      BY <3>1, <3>2 DEF InProgress
    <3> QED
      BY <1>1, <3>1, <3>2, <3>4, <3>5, RelayKept
  <2>3. CASE Push(c)
    BY <1>1, <2>3, RelayPush
  <2>4. CASE PushFails(c)
    BY <1>1, <2>4, RelayPushFails
  <2>5. CASE Store(c)
    BY <1>1, <2>5, RelayStore
  <2>6. CASE Throw(c)
    <3>1. OthersStay(c) /\ check'[c] = Idle
      BY <2>6, OthersOfAdvance DEF Throw, RelayInv
    <3>2. UNCHANGED <<monitor, relay>> /\ astray' = (astray \/ \E d \in {c} : Telling(d))
      BY <2>6 DEF Throw
    <3>3. {c} \in SUBSET Checks /\ (\A d \in {c} : check'[d] = Idle)
      BY <3>1
    <3>4. \A d \in Checks \ {c} : check'[d] = check[d]
      BY <3>1 DEF OthersStay
    <3> QED
      BY <1>1, <3>2, <3>3, <3>4, RelayCut
  <2> QED
    BY <1>4, <2>1, <2>2, <2>3, <2>4, <2>5, <2>6 DEF Work, Continue, Tick, CheckNow
<1>5. CASE User
  <2>1. UNCHANGED <<check, relay, astray>>
    BY <1>5 DEF User, Retarget, Switch, Relink, RemoveInstance, Edited, history
  <2>2. monitor'.failures = monitor.failures
    BY <1>5 DEF User, Retarget, Switch, Relink, RemoveInstance, Edited, RelayInv, TypeOK, Monitor
  <2> QED
    BY <1>2, <2>1, <2>2
<1>6. CASE Restart
  <2>1. /\ \A c \in Checks : check'[c] = Idle
        /\ astray' = (astray \/ \E c \in Checks : Telling(c))
        /\ UNCHANGED <<monitor, relay>>
    BY <1>6 DEF Restart
  <2> QED
    BY <1>1, <2>1, RelayCut
<1>7. CASE UNCHANGED vars
  BY <1>2, <1>7 DEF vars, history
<1> QED
  BY <1>3, <1>4, <1>5, <1>6, <1>7 DEF Next

\* One alert per outage of the probe and one end of it, or its end untold
\* because the push URL was cleared, whatever checks overlap, fail or restart
\* and whatever edits, as long as no change of the relay met another check or
\* was lost before it was stored.
THEOREM RelayIsToldOnce == Spec => []RelayToldOnce
<1>1. Spec => []RelayInv
  BY RelayInit, RelayNext, PTL DEF Spec
<1>2. RelayInv => RelayToldOnce
  BY DEF RelayInv, RelayToldOnce, InProgress, Telling, Balance
<1> QED
  BY <1>1, <1>2, PTL
=============================================================================
