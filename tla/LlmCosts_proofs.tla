--------------------------- MODULE LlmCosts_proofs ---------------------------
(***************************************************************************)
(* Theorems about LlmCosts, for any number of passes, corrections,         *)
(* instances, executions, days, tariffs and events.                        *)
(***************************************************************************)
EXTENDS LlmCosts, FiniteSetTheorems, TLAPS

---------------------------------------------------------------------------
(* Types *)

\* A pass that waits for its next instance has one.
Waits == \A p \in Polls : poll[p].at = "next" => poll[p].left # {}

TypeInv == TypeOK /\ Waits

LEMMA IdleIsPoll == IdlePoll \in Poll /\ IdlePoll.at = "idle"
<1>1. AnInstance \in Instances
  BY ConstantsAssumption DEF AnInstance
<1>2. 0 \in 0..MaxId /\ 1 \in Days /\ 0 \in Tariffs
  BY ConstantsAssumption DEF Days
<1> QED
  BY <1>1, <1>2 DEF IdlePoll, Poll

LEMMA NextIsPoll ==
  ASSUME NEW left \in SUBSET Instances
  PROVE  /\ NextInstance(left) \in Poll
         /\ NextInstance(left).at \in {"next", "check"}
         /\ NextInstance(left).at = "next" => NextInstance(left).left # {}
<1>1. CASE left = {}
  BY <1>1, IdleIsPoll DEF NextInstance, Poll, IdlePoll
<1>2. CASE left # {}
  BY <1>2, IdleIsPoll DEF NextInstance, Poll, IdlePoll
<1> QED
  BY <1>1, <1>2

LEMMA IdleIsFixer == IdleFixer \in Fixer
BY ConstantsAssumption DEF IdleFixer, Fixer

\* A pass moves to a well-formed record; the others keep theirs.
LEMMA AdvanceType ==
  ASSUME TypeInv, NEW p \in Polls, NEW job \in Poll, Advance(p, job),
         job.at = "next" => job.left # {}
  PROVE  poll' \in [Polls -> Poll] /\ Waits'
<1>1. poll' = [poll EXCEPT ![p] = job] /\ poll \in [Polls -> Poll]
  BY DEF Advance, TypeInv, TypeOK
<1>2. \A q \in Polls : poll'[q] = IF q = p THEN job ELSE poll[q]
  BY <1>1
<1> QED
  BY <1>1, <1>2 DEF TypeInv, Waits

LEMMA TypeInit == Init => TypeInv
<1> SUFFICES ASSUME Init PROVE TypeInv
  OBVIOUS
<1>1. 1 \in Days
  BY ConstantsAssumption DEF Days
<1>2. status \in [Executions -> Statuses] /\ day \in [Executions -> Days] /\ today \in Days
  BY <1>1 DEF Init, Statuses
<1>3. catalog \in Tariffs /\ rows \subseteq Executions /\ cost \in [Executions -> Tariffs]
  BY ConstantsAssumption DEF Init
<1>4. /\ cursor \in [Instances -> 0..MaxId] /\ told \in [Days -> Nat]
      /\ overlooked \subseteq Executions /\ lost \subseteq Days
      /\ settings \in [budget : Budgets, lastAlerted : Days \union {0}]
  BY ConstantsAssumption DEF Init
<1>5. poll \in [Polls -> Poll] /\ Waits
  BY IdleIsPoll DEF Init, Waits
<1>6. fixer \in [Fixers -> Fixer]
  BY IdleIsFixer DEF Init
<1>7. crossed \in [fixes : BOOLEAN, checks : BOOLEAN] /\ events \in Nat
  BY ConstantsAssumption DEF Init
<1> QED
  BY <1>2, <1>3, <1>4, <1>5, <1>6, <1>7 DEF TypeInv, TypeOK

LEMMA TypeOuter == TypeInv /\ Outer => TypeInv'
<1> SUFFICES ASSUME TypeInv, Outer PROVE TypeInv'
  OBVIOUS
<1> USE DEF TypeInv, TypeOK, Waits
<1>1. CASE \E i \in Instances, id \in Ids : Start(i, id)
  <2>1. PICK i \in Instances, id \in Ids : Start(i, id)
    BY <1>1
  <2>2. <<i, id>> \in Executions
    BY DEF Executions
  <2>3. status' \in [Executions -> Statuses] /\ day' \in [Executions -> Days]
    BY <2>1, <2>2 DEF Start, Statuses
  <2> QED
    BY <2>1, <2>3 DEF Start, Outside, usage, done, alerts
<1>2. CASE \E x \in Executions : Finish(x)
  <2>1. PICK x \in Executions : Finish(x)
    BY <1>2
  <2>2. status' \in [Executions -> Statuses]
    BY <2>1 DEF Finish, Statuses
  <2> QED
    BY <2>1, <2>2 DEF Finish, Outside, usage, done, alerts
<1>3. CASE Midnight
  <2>1. today' \in Days /\ events' \in Nat
    BY <1>3, ConstantsAssumption DEF Midnight, Days
  <2> QED
    BY <1>3, <2>1 DEF Midnight, usage, done, alerts
<1> QED
  BY <1>1, <1>2, <1>3 DEF Outer

LEMMA TypePass == ASSUME TypeInv, NEW p \in Polls, Pass(p) PROVE TypeInv'
<1> DEFINE job == poll[p]
<1>0. job \in Poll /\ (job.at = "next" => job.left # {}) /\ job.left \in SUBSET Instances
  BY DEF TypeInv, TypeOK, Waits, Poll
<1>1. ASSUME NEW due \in SUBSET Instances, due # {}, Begin(p, due) PROVE TypeInv'
  <2> DEFINE begun == [IdlePoll EXCEPT !.at = "next", !.left = due]
  <2>1. begun \in Poll /\ begun.left # {}
    BY <1>1, IdleIsPoll DEF Poll, IdlePoll
  <2>2. Advance(p, begun)
    BY <1>1 DEF Begin
  <2>3. poll' \in [Polls -> Poll] /\ Waits'
    <3> HIDE DEF begun
    <3> QED
      BY <2>1, <2>2, AdvanceType
  <2> QED
    BY <1>1, <2>3 DEF Begin, TypeInv, TypeOK, platform, usage, done, alerts
<1>2. CASE \E due \in SUBSET Instances : Tick(p, due)
  BY <1>1, <1>2 DEF Tick
<1>3. CASE Sample(p)
  BY <1>1, <1>3, ConstantsAssumption DEF Sample
<1>4. CASE List(p)
  <2>1. PICK i \in {First(job.left)} \ Down, high \in 0..MaxId :
          Advance(p, [job EXCEPT !.at = "ingest", !.left = @ \ {i}, !.target = i,
                                 !.high = high, !.tariff = catalog,
                                 !.todo = ToInspect(i, FirstUnseen(p, i)),
                                 !.skipped = OutOfSight(i, FirstUnseen(p, i))])
    BY <1>4 DEF List
  <2> DEFINE todo == ToInspect(i, FirstUnseen(p, i))
             skipped == OutOfSight(i, FirstUnseen(p, i))
             listed == [job EXCEPT !.at = "ingest", !.left = @ \ {i}, !.target = i,
                                   !.high = high, !.tariff = catalog,
                                   !.todo = todo, !.skipped = skipped]
  <2>2. i \in Instances
    BY <1>0, <1>4, <2>1 DEF First, List
  <2>3. todo \subseteq Ids /\ skipped \subseteq Ids
    BY DEF ToInspect, OutOfSight, Listing, Above
  <2>4. listed \in Poll /\ listed.at = "ingest"
    <3> HIDE DEF todo, skipped
    <3>1. catalog \in Tariffs
      BY DEF TypeInv, TypeOK
    <3> QED
      BY <1>0, <2>2, <2>3, <3>1 DEF Poll
  <2>5. Advance(p, listed)
    BY <2>1
  <2>6. poll' \in [Polls -> Poll] /\ Waits'
    <3> HIDE DEF listed
    <3> QED
      BY <2>4, <2>5, AdvanceType
  <2> QED
    BY <1>4, <2>6 DEF List, TypeInv, TypeOK, platform, usage, done, alerts
<1>5. CASE Ingest(p)
  <2>1. PICK id \in job.todo : /\ Insert(<<job.target, id>>, job.tariff)
                               /\ Advance(p, [job EXCEPT !.todo = @ \ {id}])
    BY <1>5 DEF Ingest
  <2>2. id \in Ids /\ job.target \in Instances /\ job.tariff \in Tariffs
    BY <1>0, <2>1 DEF Poll
  <2>3. <<job.target, id>> \in Executions
    BY <2>2 DEF Executions
  <2>4. rows' \subseteq Executions /\ cost' \in [Executions -> Tariffs]
    BY <2>1, <2>2, <2>3 DEF Insert, TypeInv, TypeOK
  <2>5. [job EXCEPT !.todo = @ \ {id}] \in Poll /\ [job EXCEPT !.todo = @ \ {id}].at = "ingest"
    BY <1>0, <1>5 DEF Poll, Ingest
  <2>6. poll' \in [Polls -> Poll] /\ Waits'
    BY <2>1, <2>5, AdvanceType
  <2> QED
    BY <1>5, <2>4, <2>6 DEF Ingest, TypeInv, TypeOK, platform, done, alerts
<1>6. CASE Store(p)
  <2>1. /\ Advance(p, NextInstance(job.left))
        /\ cursor' = [cursor EXCEPT ![job.target] = job.high]
        /\ overlooked' = overlooked \union ({job.target} \X job.skipped)
    BY <1>6 DEF Store
  <2>2. poll' \in [Polls -> Poll] /\ Waits'
    BY <1>0, <2>1, NextIsPoll, AdvanceType
  <2>3. cursor' \in [Instances -> 0..MaxId] /\ overlooked' \subseteq Executions
    BY <1>0, <2>1 DEF Poll, Executions, TypeInv, TypeOK
  <2> QED
    BY <1>6, <2>2, <2>3 DEF Store, TypeInv, TypeOK, platform, usage, alerts
<1>7. CASE Check(p)
  <2> DEFINE marking == [job EXCEPT !.at = "mark", !.day = today]
  <2>1. marking \in Poll /\ marking.at = "mark"
    BY <1>0 DEF Poll, TypeInv, TypeOK
  <2>2. PICK next \in {marking, IdlePoll} : Advance(p, next)
    BY <1>7 DEF Check
  <2>3. next \in Poll /\ next.at # "next"
    BY <2>1, <2>2, IdleIsPoll
  <2>4. poll' \in [Polls -> Poll] /\ Waits'
    <3> HIDE DEF marking
    <3> QED
      BY <2>2, <2>3, AdvanceType
  <2>5. crossed' \in [fixes : BOOLEAN, checks : BOOLEAN]
    BY <1>7 DEF Check, TypeInv, TypeOK
  <2> QED
    BY <1>7, <2>4, <2>5 DEF Check, TypeInv, TypeOK, platform, usage, done, alerts
<1>8. CASE Mark(p)
  <2>1. [job EXCEPT !.at = "emit"] \in Poll /\ [job EXCEPT !.at = "emit"].at = "emit"
    BY <1>0 DEF Poll
  <2>2. poll' \in [Polls -> Poll] /\ Waits'
    BY <1>8, <2>1, AdvanceType DEF Mark
  <2>3. settings' \in [budget : Budgets, lastAlerted : Days \union {0}]
    BY <1>0, <1>8 DEF Mark, Poll, TypeInv, TypeOK
  <2> QED
    BY <1>8, <2>2, <2>3 DEF Mark, TypeInv, TypeOK, platform, usage, done
<1>9. CASE Emit(p)
  <2>1. poll' \in [Polls -> Poll] /\ Waits'
    BY <1>9, IdleIsPoll, AdvanceType DEF Emit
  <2>2. told' \in [Days -> Nat]
    BY <1>0, <1>9 DEF Emit, Poll, TypeInv, TypeOK
  <2> QED
    BY <1>9, <2>1, <2>2 DEF Emit, TypeInv, TypeOK, platform, usage, done
<1>10. CASE Unreachable(p)
  <2>1. PICK left \in SUBSET Instances : Advance(p, NextInstance(left)) /\ \E i : MayFail(i)
    BY <1>0, <1>10 DEF Unreachable
  <2>2. poll' \in [Polls -> Poll] /\ Waits'
    BY <2>1, NextIsPoll, AdvanceType
  <2>3. events' \in Nat
    BY <2>1 DEF MayFail, TypeInv, TypeOK
  <2> QED
    BY <1>10, <2>2, <2>3 DEF Unreachable, TypeInv, TypeOK, platform, usage, done, alerts
<1> QED
  BY <1>2, <1>3, <1>4, <1>5, <1>6, <1>7, <1>8, <1>9, <1>10 DEF Pass, Continue

LEMMA TypeUser == TypeInv /\ User => TypeInv'
<1> SUFFICES ASSUME TypeInv, User PROVE TypeInv'
  OBVIOUS
<1> USE DEF TypeInv, TypeOK, Waits
<1>1. CASE \E b \in Budgets : SetBudget(b)
  BY <1>1 DEF SetBudget, Edit, platform, usage, done
<1>2. CASE \E t \in Tariffs : SetTariff(t)
  BY <1>2 DEF SetTariff, Edit, platform, usage, done
<1>3. ASSUME NEW f \in Fixers, FixBegin(f) PROVE TypeInv'
  <2>1. [todo |-> Unpriced, tariff |-> catalog] \in Fixer
    BY DEF Unpriced, Fixer
  <2>2. fixer' \in [Fixers -> Fixer] /\ crossed' \in [fixes : BOOLEAN, checks : BOOLEAN]
    BY <1>3, <2>1 DEF FixBegin
  <2> QED
    BY <1>3, <2>2 DEF FixBegin, platform, usage, done, alerts
<1>4. ASSUME NEW f \in Fixers, NEW x \in Executions, Fix(f, x) PROVE TypeInv'
  <2>1. fixer[f] \in Fixer
    OBVIOUS
  <2>2. [todo |-> fixer[f].todo \ {x}, tariff |-> fixer[f].tariff] \in Fixer
    BY <2>1 DEF Fixer
  <2>3. fixer' \in [Fixers -> Fixer]
    BY <1>4, <2>2, IdleIsFixer DEF Fix
  <2>4. cost' \in [Executions -> Tariffs]
    BY <1>4, <2>1 DEF Fix, Fixer
  <2> QED
    BY <1>4, <2>3, <2>4 DEF Fix, platform, done, alerts
<1> QED
  BY <1>1, <1>2, <1>3, <1>4 DEF User

LEMMA TypeRestart == TypeInv /\ Restart => TypeInv'
<1> SUFFICES ASSUME TypeInv, Restart PROVE TypeInv'
  OBVIOUS
<1>1. poll' \in [Polls -> Poll] /\ Waits'
  BY IdleIsPoll DEF Restart, Waits
<1>2. fixer' \in [Fixers -> Fixer] /\ events' \in Nat
  BY IdleIsFixer DEF Restart, TypeInv, TypeOK
<1>3. lost' \subseteq Days
  BY DEF Restart, Poll, TypeInv, TypeOK
<1> QED
  BY <1>1, <1>2, <1>3 DEF Restart, TypeInv, TypeOK, platform, usage, done

LEMMA TypeNext == TypeInv /\ [Next]_vars => TypeInv'
<1>1. TypeInv /\ UNCHANGED vars => TypeInv'
  BY DEF vars, platform, usage, done, alerts, TypeInv, TypeOK, Waits
<1> QED
  BY <1>1, TypeOuter, TypePass, TypeUser, TypeRestart DEF Next

\* Every variable keeps its type, for every value of the constants; a pass
\* that waits for its next instance has one.
THEOREM TypeCorrect == Spec => []TypeOK
<1>1. Spec => []TypeInv
  BY TypeInit, TypeNext, PTL DEF Spec
<1> QED
  BY <1>1, PTL DEF TypeInv

---------------------------------------------------------------------------
(* The cursor *)

\* Executions start in the order of their ids.
InOrder ==
    \A i \in Instances, id \in Ids, k \in Ids :
        k >= id /\ status[<<i, id>>] = "none" => status[<<i, k>>] = "none"

\* A pass accounts for all it is about to put behind the cursor.
Accounted(p) ==
    \A id \in Ids : id <= poll[p].high =>
        \/ <<poll[p].target, id>> \in rows \union overlooked
        \/ id \in poll[p].todo \union poll[p].skipped

CursorInv ==
    /\ InOrder
    /\ PassedIsCounted
    /\ \A p \in Polls : poll[p].at = "ingest" => Accounted(p)

LEMMA CursorInit == Init => CursorInv
<1> SUFFICES ASSUME Init PROVE CursorInv
  OBVIOUS
<1>1. InOrder
  BY DEF Init, InOrder, Executions
<1>2. PassedIsCounted
  BY ConstantsAssumption DEF Init, PassedIsCounted, Executions, Ids
<1>3. \A p \in Polls : poll[p].at # "ingest"
  BY IdleIsPoll DEF Init
<1> QED
  BY <1>1, <1>2, <1>3 DEF CursorInv

\* What is counted or passed over stays so: a step that leaves the cursors
\* alone, and the passes that ingest, keeps the invariant.
LEMMA CursorFrame ==
  ASSUME CursorInv, InOrder', cursor' = cursor,
         rows \subseteq rows', overlooked \subseteq overlooked',
         \A p \in Polls : poll'[p].at = "ingest" => poll'[p] = poll[p] \/ Accounted(p)'
  PROVE  CursorInv'
<1>1. PassedIsCounted'
  BY DEF CursorInv, PassedIsCounted
<1>2. \A p \in Polls : poll'[p].at = "ingest" => Accounted(p)'
  BY DEF CursorInv, Accounted
<1> QED
  BY <1>1, <1>2 DEF CursorInv

\* What a listing leaves aside is out of sight; the rest will be opened.
LEMMA ListingAccounts ==
  ASSUME TypeInv, InOrder, PassedIsCounted, NEW p \in Polls, NEW i \in Instances,
         NEW high \in 0..MaxId,
         Latest(Listing(i, FirstUnseen(p, i)) \union {FirstUnseen(p, i)}, high),
         NEW id \in Ids, id <= high
  PROVE  \/ <<i, id>> \in rows \union overlooked
         \/ id \in ToInspect(i, FirstUnseen(p, i)) \union OutOfSight(i, FirstUnseen(p, i))
<1> DEFINE from == FirstUnseen(p, i)
<1>0. id \in Nat /\ id >= 1 /\ high \in Nat /\ <<i, id>> \in Executions
  BY ConstantsAssumption DEF Ids, Executions
<1>1. from = 0 \/ from = cursor[i]
  BY DEF FirstUnseen
<1>2. from \in 0..MaxId /\ from \in Nat
  BY <1>1, ConstantsAssumption DEF TypeInv, TypeOK
<1>3. CASE id <= from
  <2>1. from = cursor[i]
    BY <1>0, <1>1, <1>3
  <2> QED
    BY <1>0, <1>3, <2>1 DEF PassedIsCounted
<1>4. CASE id > from
  <2>1. high \in Listing(i, from)
    BY <1>0, <1>2, <1>4 DEF Latest
  <2>2. high \in Ids /\ status[<<i, high>>] # "none"
    BY <2>1 DEF Listing, Above
  <2>3. status[<<i, id>>] # "none"
    BY <1>0, <2>2 DEF InOrder
  <2>4. id \in Above(i, from)
    BY <1>4, <2>3 DEF Above
  <2>5. CASE id \in Listing(i, from) /\ Legible(i, id)
    BY <2>5 DEF ToInspect
  <2>6. CASE id \in Listing(i, from) /\ ~ Legible(i, id)
    BY <2>4, <2>6 DEF OutOfSight
  <2>7. CASE id \notin Listing(i, from)
    <3>1. IsFiniteSet(Ids)
      BY FS_Interval, ConstantsAssumption DEF Ids
    <3>2. Cardinality(Newer(i, id)) \in Nat
      BY <3>1, FS_Subset, FS_CardinalityType DEF Newer
    <3> QED
      BY <2>4, <2>7, <3>2, ConstantsAssumption DEF OutOfSight, Listing
  <2> QED
    BY <2>5, <2>6, <2>7
<1> QED
  BY <1>0, <1>2, <1>3, <1>4

LEMMA CursorOuter == TypeInv /\ CursorInv /\ Outer => CursorInv'
<1> SUFFICES ASSUME TypeInv, CursorInv, Outer PROVE CursorInv'
  OBVIOUS
<1>1. InOrder'
  <2>1. ASSUME NEW i \in Instances, NEW id \in Ids, Start(i, id) PROVE InOrder'
    <3>1. <<i, id>> \in Executions /\ id \in Nat
      BY ConstantsAssumption DEF Executions, Ids
    <3>2. \A x \in Executions : status'[x] = IF x = <<i, id>> THEN "running" ELSE status[x]
      BY <2>1, <3>1 DEF Start, TypeInv, TypeOK
    <3>3. \A k \in Ids : status[<<i, k>>] = "none" <=> k >= id
      BY <2>1 DEF Start
    <3> SUFFICES ASSUME NEW j \in Instances, NEW m \in Ids, NEW k \in Ids,
                        k >= m, status'[<<j, m>>] = "none"
                 PROVE  status'[<<j, k>>] = "none"
      BY DEF InOrder
    <3>4. <<j, m>> \in Executions /\ <<j, k>> \in Executions /\ m \in Nat /\ k \in Nat
      BY ConstantsAssumption DEF Executions, Ids
    <3>5. <<j, m>> # <<i, id>> /\ status[<<j, m>>] = "none"
      BY <3>2, <3>4
    <3>6. status[<<j, k>>] = "none"
      BY <3>5 DEF CursorInv, InOrder
    <3>7. <<j, k>> # <<i, id>>
      BY <3>1, <3>3, <3>4, <3>5
    <3> QED
      BY <3>2, <3>4, <3>6, <3>7
  <2>2. ASSUME NEW x \in Executions, Finish(x) PROVE InOrder'
    <3>1. \A y \in Executions : status'[y] = "none" <=> status[y] = "none"
      BY <2>2 DEF Finish, TypeInv, TypeOK
    <3> QED
      BY <3>1 DEF CursorInv, InOrder, Executions
  <2>3. CASE Midnight
    BY <2>3 DEF Midnight, CursorInv, InOrder
  <2> QED
    BY <2>1, <2>2, <2>3 DEF Outer
<1>2. cursor' = cursor /\ rows' = rows /\ overlooked' = overlooked /\ poll' = poll
  BY DEF Outer, Start, Finish, Midnight, Outside, usage, done
<1> QED
  BY <1>1, <1>2, CursorFrame

LEMMA CursorPass ==
  ASSUME TypeInv, CursorInv, NEW p \in Polls, Pass(p)
  PROVE  CursorInv'
<1> DEFINE job == poll[p]
<1>0. poll \in [Polls -> Poll] /\ job \in Poll /\ (job.at = "next" => job.left # {})
  BY DEF TypeInv, TypeOK, Waits
<1>1. InOrder'
  BY DEF Pass, Tick, Sample, Begin, Continue, List, Ingest, Store, Check, Mark, Emit,
         Unreachable, platform, CursorInv, InOrder
<1>2. ASSUME NEW next, Advance(p, next), next.at # "ingest", UNCHANGED <<usage, done>>
      PROVE  CursorInv'
  <2>1. \A q \in Polls : poll'[q].at = "ingest" => poll'[q] = poll[q]
    BY <1>0, <1>2 DEF Advance
  <2> QED
    BY <1>1, <1>2, <2>1, CursorFrame DEF usage, done
<1>3. ASSUME NEW due \in SUBSET Instances, Begin(p, due) PROVE CursorInv'
  <2>1. [IdlePoll EXCEPT !.at = "next", !.left = due].at # "ingest"
    BY DEF IdlePoll
  <2> QED
    BY <1>2, <1>3, <2>1 DEF Begin
<1>4. CASE (\E due \in SUBSET Instances : Tick(p, due)) \/ Sample(p)
  BY <1>3, <1>4 DEF Tick, Sample
<1>5. CASE List(p)
  <2>1. PICK i \in {First(job.left)} \ Down, high \in 0..MaxId :
          /\ Latest(Listing(i, FirstUnseen(p, i)) \union {FirstUnseen(p, i)}, high)
          /\ Advance(p, [job EXCEPT !.at = "ingest", !.left = @ \ {i}, !.target = i,
                                    !.high = high, !.tariff = catalog,
                                    !.todo = ToInspect(i, FirstUnseen(p, i)),
                                    !.skipped = OutOfSight(i, FirstUnseen(p, i))])
    BY <1>5 DEF List
  <2>2. i \in Instances
    BY <1>0, <1>5, <2>1 DEF First, List, Poll
  <2>3. /\ poll'[p].high = high /\ poll'[p].target = i
        /\ poll'[p].todo = ToInspect(i, FirstUnseen(p, i))
        /\ poll'[p].skipped = OutOfSight(i, FirstUnseen(p, i))
        /\ \A q \in Polls : q # p => poll'[q] = poll[q]
    BY <1>0, <2>1 DEF Advance, Poll
  <2>4. UNCHANGED <<rows, cursor, overlooked>>
    BY <1>5 DEF List, usage, done
  <2>5. \A id \in Ids : id <= high =>
           \/ <<i, id>> \in rows \union overlooked
           \/ id \in ToInspect(i, FirstUnseen(p, i)) \union OutOfSight(i, FirstUnseen(p, i))
    BY <2>1, <2>2, ListingAccounts DEF CursorInv
  <2>6. Accounted(p)'
    BY <2>3, <2>4, <2>5 DEF Accounted
  <2> QED
    BY <1>1, <2>3, <2>4, <2>6, CursorFrame
<1>6. CASE Ingest(p)
  <2>1. PICK id \in job.todo : /\ Insert(<<job.target, id>>, job.tariff)
                               /\ Advance(p, [job EXCEPT !.todo = @ \ {id}])
    BY <1>6 DEF Ingest
  <2>2. /\ poll'[p].high = job.high /\ poll'[p].target = job.target
        /\ poll'[p].todo = job.todo \ {id} /\ poll'[p].skipped = job.skipped
        /\ \A q \in Polls : q # p => poll'[q] = poll[q]
    BY <1>0, <2>1 DEF Advance, Poll
  <2>3. rows' = rows \union {<<job.target, id>>} /\ UNCHANGED <<cursor, overlooked>>
    BY <1>6, <2>1 DEF Ingest, Insert, done
  <2>4. Accounted(p)
    BY <1>6 DEF Ingest, CursorInv
  <2>5. Accounted(p)'
    BY <2>2, <2>3, <2>4 DEF Accounted
  <2> QED
    BY <1>1, <2>2, <2>3, <2>5, CursorFrame
<1>7. CASE Store(p)
  <2>1. /\ cursor' = [cursor EXCEPT ![job.target] = job.high]
        /\ overlooked' = overlooked \union ({job.target} \X job.skipped)
        /\ Advance(p, NextInstance(job.left)) /\ rows' = rows /\ job.todo = {}
    BY <1>7 DEF Store, usage
  <2>2. Accounted(p) /\ job.target \in Instances
    BY <1>0, <1>7 DEF Store, CursorInv, Poll
  <2>3. PassedIsCounted'
    <3> SUFFICES ASSUME NEW x \in Executions, x[2] <= cursor'[x[1]]
                 PROVE  x \in rows' \union overlooked'
      BY DEF PassedIsCounted
    <3>1. x[1] \in Instances /\ x[2] \in Ids /\ x = <<x[1], x[2]>>
      BY DEF Executions
    <3>2. CASE x[1] = job.target
      <4>1. x[2] <= job.high
        BY <2>1, <2>2, <3>1, <3>2 DEF TypeInv, TypeOK
      <4>2. x \in rows \union overlooked \/ x[2] \in job.skipped
        BY <2>1, <2>2, <3>1, <3>2, <4>1 DEF Accounted
      <4> QED
        BY <2>1, <3>1, <3>2, <4>2
    <3>3. CASE x[1] # job.target
      BY <2>1, <3>1, <3>3 DEF TypeInv, TypeOK, CursorInv, PassedIsCounted
    <3> QED
      BY <3>2, <3>3
  <2>4. NextInstance(job.left).at # "ingest"
    BY <1>0, NextIsPoll DEF Poll
  <2>5. \A q \in Polls : poll'[q].at = "ingest" => poll'[q] = poll[q]
    BY <1>0, <2>1, <2>4 DEF Advance
  <2>6. \A q \in Polls : poll'[q].at = "ingest" => Accounted(q)'
    BY <2>1, <2>5 DEF CursorInv, Accounted
  <2> QED
    BY <1>1, <2>3, <2>6 DEF CursorInv
<1>8. CASE Check(p)
  <2>1. PICK next \in {[job EXCEPT !.at = "mark", !.day = today], IdlePoll} : Advance(p, next)
    BY <1>8 DEF Check
  <2>2. next.at # "ingest"
    BY <1>0, <2>1, IdleIsPoll DEF Poll
  <2> QED
    BY <1>2, <1>8, <2>1, <2>2 DEF Check
<1>9. CASE Mark(p)
  <2>1. [job EXCEPT !.at = "emit"].at # "ingest"
    BY <1>0 DEF Poll
  <2> QED
    BY <1>2, <1>9, <2>1 DEF Mark
<1>10. CASE Emit(p)
  BY <1>2, <1>10, IdleIsPoll DEF Emit
<1>11. CASE Unreachable(p)
  <2>1. PICK left \in SUBSET Instances : Advance(p, NextInstance(left))
    BY <1>0, <1>11 DEF Unreachable, Poll
  <2>2. NextInstance(left).at # "ingest"
    BY NextIsPoll
  <2> QED
    BY <1>2, <1>11, <2>1, <2>2 DEF Unreachable
<1> QED
  BY <1>4, <1>5, <1>6, <1>7, <1>8, <1>9, <1>10, <1>11 DEF Pass, Continue

LEMMA CursorNext == TypeInv /\ CursorInv /\ [Next]_vars => CursorInv'
<1> SUFFICES ASSUME TypeInv, CursorInv, [Next]_vars PROVE CursorInv'
  OBVIOUS
<1>1. CASE User \/ UNCHANGED vars
  <2>1. UNCHANGED <<status, rows, cursor, overlooked, poll>>
    BY <1>1 DEF User, SetBudget, SetTariff, Edit, FixBegin, Fix, vars, platform, usage, done
  <2> QED
    BY <2>1, CursorFrame DEF CursorInv, InOrder
<1>2. CASE Restart
  <2>1. UNCHANGED <<status, rows, cursor, overlooked>>
    BY <1>2 DEF Restart, platform, usage, done
  <2>2. \A p \in Polls : poll'[p].at # "ingest"
    BY <1>2, IdleIsPoll DEF Restart
  <2> QED
    BY <2>1, <2>2, CursorFrame DEF CursorInv, InOrder
<1> QED
  BY <1>1, <1>2, CursorOuter, CursorPass DEF Next

\* The cursor hides no execution it could have read, whatever calls fail, what
\* restarts interrupt and how passes overlap: CursorInv is inductive under the
\* types, a pass accounting for all it is about to put behind the cursor.
THEOREM CursorHidesNothing == Spec => []PassedIsCounted
<1>1. Spec => []TypeInv
  BY TypeInit, TypeNext, PTL DEF Spec
<1>2. Spec => []CursorInv
  BY <1>1, CursorInit, CursorNext, PTL DEF Spec
<1> QED
  BY <1>2, PTL DEF CursorInv

---------------------------------------------------------------------------
(* Prices *)

\* A correction holds rows; as long as no two were in progress at a time, the
\* rows it holds still lack a cost.
PriceInv ==
    /\ \A f \in Fixers : fixer[f].todo \subseteq rows
    /\ ~ crossed.fixes =>
          /\ \A f, g \in Fixers : fixer[f].todo # {} /\ fixer[g].todo # {} => f = g
          /\ \A f \in Fixers : \A x \in fixer[f].todo : cost[x] = 0

LEMMA PriceInit == Init => PriceInv
BY DEF Init, PriceInv, IdleFixer

\* Steps that add rows and leave the cost of the others alone.
LEMMA PriceFrame ==
  ASSUME PriceInv, fixer' = fixer, crossed'.fixes = crossed.fixes, rows \subseteq rows',
         \A x \in rows : cost'[x] = cost[x]
  PROVE  PriceInv'
BY DEF PriceInv

LEMMA PassKeepsPrices ==
  ASSUME TypeInv, NEW p \in Polls, Pass(p)
  PROVE  /\ fixer' = fixer /\ crossed'.fixes = crossed.fixes
         /\ rows \subseteq rows' /\ (\A x \in rows : cost'[x] = cost[x])
<1>1. CASE Ingest(p)
  <2>1. PICK x, tariff : Insert(x, tariff)
    BY <1>1 DEF Ingest
  <2>2. \A y \in rows : cost'[y] = cost[y]
    BY <2>1 DEF Insert, TypeInv, TypeOK
  <2> QED
    BY <1>1, <2>1, <2>2 DEF Ingest, Insert
<1>2. CASE ~ Ingest(p)
  <2>1. UNCHANGED <<rows, cost, fixer>>
    BY <1>2 DEF Pass, Tick, Sample, Begin, Continue, List, Store, Check, Mark, Emit,
                Unreachable, usage
  <2>2. crossed'.fixes = crossed.fixes
    BY <1>2 DEF Pass, Tick, Sample, Begin, Continue, List, Store, Check, Mark, Emit,
                Unreachable, TypeInv, TypeOK
  <2> QED
    BY <2>1, <2>2
<1> QED
  BY <1>1, <1>2

LEMMA FixKeepsPrices ==
  ASSUME TypeInv, PriceInv, NEW f \in Fixers, NEW x \in Executions, Fix(f, x)
  PROVE  /\ PriceInv'
         /\ ~ crossed.fixes => (\A y \in rows : cost[y] # 0 => cost'[y] = cost[y])
<1>0. fixer \in [Fixers -> Fixer] /\ cost \in [Executions -> Tariffs] /\ rows \subseteq Executions
  BY DEF TypeInv, TypeOK
<1>1. /\ x \in fixer[f].todo /\ rows' = rows /\ crossed' = crossed
      /\ cost' = [cost EXCEPT ![x] = fixer[f].tariff]
  BY DEF Fix
<1>2. fixer'[f].todo = fixer[f].todo \ {x} /\ (\A g \in Fixers : g # f => fixer'[g] = fixer[g])
  BY <1>0 DEF Fix, IdleFixer
<1>3. \A y \in Executions : y # x => cost'[y] = cost[y]
  BY <1>0, <1>1
<1>4. \A g \in Fixers : fixer'[g].todo \subseteq fixer[g].todo
  BY <1>2
<1>5. ASSUME ~ crossed.fixes, NEW g \in Fixers, NEW y \in fixer'[g].todo
      PROVE  cost'[y] = 0
  <2>1. y \in fixer[g].todo /\ y \in rows
    BY <1>4 DEF PriceInv
  <2>2. g = f
    BY <1>1, <1>5, <2>1 DEF PriceInv
  <2>3. y # x
    BY <1>2, <1>5, <2>2
  <2> QED
    BY <1>0, <1>3, <1>5, <2>1, <2>3 DEF PriceInv
<1>6. PriceInv'
  BY <1>1, <1>4, <1>5 DEF PriceInv
<1>7. ~ crossed.fixes => (\A y \in rows : cost[y] # 0 => cost'[y] = cost[y])
  BY <1>0, <1>1, <1>3 DEF PriceInv
<1> QED
  BY <1>6, <1>7

LEMMA PriceNext == TypeInv /\ PriceInv /\ [Next]_vars => PriceInv'
<1> SUFFICES ASSUME TypeInv, PriceInv, [Next]_vars PROVE PriceInv'
  OBVIOUS
<1>1. CASE Outer \/ UNCHANGED vars
  BY <1>1, PriceFrame DEF Outer, Start, Finish, Midnight, Outside, vars, usage
<1>2. ASSUME NEW p \in Polls, Pass(p) PROVE PriceInv'
  BY <1>2, PassKeepsPrices, PriceFrame
<1>3. CASE User
  <2>1. CASE (\E b \in Budgets : SetBudget(b)) \/ (\E t \in Tariffs : SetTariff(t))
    BY <2>1, PriceFrame DEF SetBudget, SetTariff, Edit, usage
  <2>2. ASSUME NEW f \in Fixers, FixBegin(f) PROVE PriceInv'
    <3>1. /\ fixer' = [fixer EXCEPT ![f] = [todo |-> Unpriced, tariff |-> catalog]]
          /\ rows' = rows /\ cost' = cost
          /\ crossed' = [crossed EXCEPT !.fixes = @ \/ Fixing # {}]
      BY <2>2 DEF FixBegin, usage
    <3>2. fixer'[f].todo = Unpriced /\ (\A g \in Fixers : g # f => fixer'[g] = fixer[g])
      BY <3>1 DEF TypeInv, TypeOK
    <3>3. Unpriced \subseteq rows /\ (\A x \in Unpriced : cost[x] = 0)
      BY DEF Unpriced
    <3>4. ~ crossed'.fixes => ~ crossed.fixes /\ Fixing = {}
      BY <3>1 DEF TypeInv, TypeOK
    <3>5. \A g \in Fixers : Fixing = {} => fixer[g].todo = {}
      BY DEF Fixing
    <3>6. \A g \in Fixers : fixer'[g].todo \subseteq rows'
      BY <3>1, <3>2, <3>3 DEF PriceInv
    <3>7. ASSUME ~ crossed'.fixes
          PROVE  \A g \in Fixers : g # f => fixer'[g].todo = {}
      BY <3>2, <3>4, <3>5, <3>7
    <3> QED
      BY <3>1, <3>2, <3>3, <3>6, <3>7 DEF PriceInv
  <2>3. ASSUME NEW f \in Fixers, NEW x \in Executions, Fix(f, x) PROVE PriceInv'
    BY <2>3, FixKeepsPrices
  <2> QED
    BY <1>3, <2>1, <2>2, <2>3 DEF User
<1>4. CASE Restart
  BY <1>4 DEF Restart, PriceInv, IdleFixer, usage
<1> QED
  BY <1>1, <1>2, <1>3, <1>4 DEF Next

LEMMA PriceStep ==
  TypeInv /\ PriceInv /\ [Next]_vars
    => (~ crossed.fixes => \A x \in rows : cost[x] # 0 => cost'[x] = cost[x])
<1> SUFFICES ASSUME TypeInv, PriceInv, [Next]_vars, ~ crossed.fixes
             PROVE  \A x \in rows : cost[x] # 0 => cost'[x] = cost[x]
  OBVIOUS
<1>1. CASE cost' = cost
  BY <1>1
<1>2. ASSUME NEW p \in Polls, Pass(p) PROVE \A x \in rows : cost'[x] = cost[x]
  BY <1>2, PassKeepsPrices
<1>3. ASSUME NEW f \in Fixers, NEW y \in Executions, Fix(f, y)
      PROVE  \A x \in rows : cost[x] # 0 => cost'[x] = cost[x]
  BY <1>3, FixKeepsPrices
<1>4. Outer \/ Restart \/ UNCHANGED vars => cost' = cost
  BY DEF Outer, Start, Finish, Midnight, Outside, Restart, vars, usage
<1>5. User /\ ~ (\E f \in Fixers, y \in Executions : Fix(f, y)) => cost' = cost
  BY DEF User, SetBudget, SetTariff, Edit, FixBegin, usage
<1> QED
  BY <1>1, <1>2, <1>3, <1>4, <1>5 DEF Next

\* A cost once computed stays what it is, whatever passes take the execution
\* again and whatever the catalogue becomes, as long as no two corrections
\* were in progress at a time: PriceInv says what a correction holds.
THEOREM PricesAreFrozen == Spec => CostFrozen
<1>1. Spec => []TypeInv
  BY TypeInit, TypeNext, PTL DEF Spec
<1>2. Spec => []PriceInv
  BY <1>1, PriceInit, PriceNext, PTL DEF Spec
<1>3. TypeInv /\ PriceInv /\ [Next]_vars
        => [~ crossed.fixes => \A x \in rows : cost[x] # 0 => cost'[x] = cost[x]]_vars
  BY PriceStep
<1> QED
  BY <1>1, <1>2, <1>3, PTL DEF Spec, CostFrozen

---------------------------------------------------------------------------
(* The alert of the budget *)

At(p, step) == poll[p].at = step

\* Under serial checks: a day about to be marked is later than the last one
\* marked, a day about to be told is marked and untold, a told day is marked.
AlertInv ==
    /\ settings.lastAlerted <= today
    /\ \A p \in Polls : At(p, "mark") => poll[p].day <= today
    /\ ~ crossed.checks =>
          /\ \A p, q \in Polls : At(p, "mark") /\ At(q, "mark") => p = q
          /\ \A p \in Polls : At(p, "mark") => poll[p].day > settings.lastAlerted
          /\ \A p \in Polls : At(p, "emit") => /\ poll[p].day <= settings.lastAlerted
                                               /\ told[poll[p].day] = 0
          /\ \A p, q \in Polls : At(p, "emit") /\ At(q, "emit") /\ poll[p].day = poll[q].day
                                 => p = q
          /\ \A d \in Days : told[d] <= 1 /\ (told[d] > 0 => d <= settings.lastAlerted)

LEMMA DaysAreNaturals == Days \subseteq Nat /\ (\A d \in Days : d >= 1)
BY ConstantsAssumption DEF Days

LEMMA AlertTypes ==
  ASSUME TypeInv
  PROVE  /\ today \in Nat /\ settings.lastAlerted \in Nat
         /\ \A p \in Polls : poll[p].day \in Days /\ poll[p].day \in Nat
         /\ \A d \in Days : d \in Nat /\ told[d] \in Nat
<1>1. today \in Nat
  BY DaysAreNaturals DEF TypeInv, TypeOK
<1>2. settings.lastAlerted \in Nat
  <2>1. settings.lastAlerted \in Days \union {0}
    BY DEF TypeInv, TypeOK
  <2>2. CASE settings.lastAlerted = 0
    BY <2>2
  <2>3. CASE settings.lastAlerted \in Days
    BY <2>3, DaysAreNaturals
  <2> QED
    BY <2>1, <2>2, <2>3
<1>3. \A p \in Polls : poll[p].day \in Days
  BY DEF TypeInv, TypeOK, Poll
<1>4. \A d \in Days : told[d] \in Nat
  BY DEF TypeInv, TypeOK
<1> QED
  BY <1>1, <1>2, <1>3, <1>4, DaysAreNaturals

LEMMA AlertInit == Init => AlertInv
BY IdleIsPoll DEF Init, AlertInv, At

\* Steps of a pass before its check, and of everyone else.
LEMMA AlertFrame ==
  ASSUME TypeInv, TypeInv', AlertInv, UNCHANGED told,
         settings'.lastAlerted = settings.lastAlerted, today' >= today,
         crossed'.checks = crossed.checks,
         \A p \in Polls : poll'[p] = poll[p] \/ poll'[p].at \notin {"mark", "emit"}
  PROVE  AlertInv'
<1>1. \A p \in Polls : At(p, "mark")' => At(p, "mark") /\ poll'[p].day = poll[p].day
  BY DEF At
<1>2. \A p \in Polls : At(p, "emit")' => At(p, "emit") /\ poll'[p].day = poll[p].day
  BY DEF At
<1>3. today \in Nat /\ today' \in Nat /\ settings.lastAlerted \in Nat
  BY AlertTypes, DaysAreNaturals DEF TypeInv, TypeOK
<1>4. \A p \in Polls : poll[p].day \in Nat
  BY AlertTypes
<1>5. settings'.lastAlerted <= today' /\ (\A p \in Polls : At(p, "mark")' => poll'[p].day <= today')
  BY <1>1, <1>3, <1>4 DEF AlertInv
<1> QED
  BY <1>1, <1>2, <1>5 DEF AlertInv

LEMMA AlertCheck ==
  ASSUME TypeInv, TypeInv', AlertInv, NEW p \in Polls, Check(p)
  PROVE  AlertInv'
<1> DEFINE marking == [poll[p] EXCEPT !.at = "mark", !.day = today]
           due == settings.lastAlerted # today /\ Over(today, settings.budget)
<1>1. /\ poll' = [poll EXCEPT ![p] = IF due THEN marking ELSE IdlePoll]
      /\ UNCHANGED <<told, settings, today>>
      /\ crossed' = [crossed EXCEPT !.checks = @ \/ (due /\ Marking # {})]
  BY DEF Check, Advance, platform, alerts
<1>2. poll \in [Polls -> Poll] /\ today \in Nat /\ settings.lastAlerted \in Nat
  BY AlertTypes DEF TypeInv, TypeOK
<1>3. \A q \in Polls : q # p => poll'[q] = poll[q]
  BY <1>1, <1>2
<1>4. crossed'.checks <=> crossed.checks \/ (due /\ Marking # {})
  BY <1>1 DEF TypeInv, TypeOK
<1>5. CASE due
  <2> HIDE DEF due
  <2>1. poll'[p].at = "mark" /\ poll'[p].day = today
    BY <1>1, <1>2, <1>5 DEF Poll
  <2>2. settings.lastAlerted < today
    BY <1>2, <1>5 DEF AlertInv, due
  <2>3. ~ crossed'.checks => ~ crossed.checks /\ (\A q \in Polls : ~ At(q, "mark"))
    BY <1>4, <1>5 DEF Marking, At
  <2>4. settings'.lastAlerted <= today' /\ (\A q \in Polls : At(q, "mark")' => poll'[q].day <= today')
    BY <1>1, <1>2, <1>3, <2>1 DEF AlertInv, At
  <2>5. \A q \in Polls : At(q, "emit")' => q # p /\ At(q, "emit") /\ poll'[q] = poll[q]
    BY <1>3, <2>1 DEF At
  <2>6. ~ crossed'.checks => \A q \in Polls : At(q, "mark")' => q = p
    BY <1>3, <2>3 DEF At
  <2>7. ~ crossed'.checks => ~ crossed.checks
    BY <2>3
  <2> QED
    BY <1>1, <2>1, <2>2, <2>4, <2>5, <2>6, <2>7 DEF AlertInv
<1>6. CASE ~ due
  <2> HIDE DEF due
  <2>1. poll'[p].at = "idle"
    BY <1>1, <1>2, <1>6, IdleIsPoll
  <2>2. \A q \in Polls : poll'[q] = poll[q] \/ poll'[q].at \notin {"mark", "emit"}
    BY <1>3, <2>1
  <2>3. crossed'.checks = crossed.checks
    <3>1. crossed.checks \in BOOLEAN /\ crossed'.checks \in BOOLEAN
      BY DEF TypeInv, TypeOK
    <3> QED
      BY <1>4, <1>6, <3>1
  <2> QED
    BY <1>1, <1>2, <2>2, <2>3, AlertFrame
<1> QED
  BY <1>5, <1>6

LEMMA AlertMark ==
  ASSUME TypeInv, AlertInv, NEW p \in Polls, Mark(p)
  PROVE  AlertInv'
<1> DEFINE d == poll[p].day
<1>1. /\ poll' = [poll EXCEPT ![p] = [poll[p] EXCEPT !.at = "emit"]]
      /\ settings' = [settings EXCEPT !.lastAlerted = d]
      /\ UNCHANGED <<told, today, crossed>> /\ At(p, "mark")
  BY DEF Mark, Advance, platform, At
<1>2. /\ poll \in [Polls -> Poll] /\ today \in Nat /\ settings.lastAlerted \in Nat
      /\ d \in Days /\ d \in Nat /\ told \in [Days -> Nat]
  BY AlertTypes DEF TypeInv, TypeOK
<1>3. settings'.lastAlerted = d
  BY <1>1 DEF TypeInv, TypeOK
<1>4. /\ poll'[p].at = "emit" /\ poll'[p].day = d
      /\ \A q \in Polls : q # p => poll'[q] = poll[q]
  BY <1>1, <1>2 DEF Poll
<1>5. \A q \in Polls : poll[q].day \in Nat
  BY <1>2, DaysAreNaturals DEF Poll
<1>6. settings'.lastAlerted <= today' /\ (\A q \in Polls : At(q, "mark")' => poll'[q].day <= today')
  BY <1>1, <1>3, <1>4 DEF AlertInv, At
<1>7. ASSUME ~ crossed.checks
      PROVE  /\ d > settings.lastAlerted /\ told[d] = 0
             /\ \A q \in Polls : At(q, "emit") => poll[q].day < d
             /\ \A q \in Polls : ~ At(q, "mark")'
  <2>1. d > settings.lastAlerted
    BY <1>1, <1>7 DEF AlertInv
  <2>2. told[d] = 0
    <3>1. told[d] \in Nat /\ (told[d] > 0 => d <= settings.lastAlerted)
      BY <1>2, <1>7 DEF AlertInv
    <3> QED
      BY <1>2, <2>1, <3>1
  <2>3. \A q \in Polls : At(q, "emit") => poll[q].day < d
    BY <1>2, <1>5, <1>7, <2>1, DaysAreNaturals DEF AlertInv
  <2>4. \A q \in Polls : ~ At(q, "mark")'
    BY <1>1, <1>4, <1>7 DEF AlertInv, At
  <2> QED
    BY <2>1, <2>2, <2>3, <2>4
<1>8. \A q \in Polls : At(q, "emit")' => q = p \/ (At(q, "emit") /\ poll'[q] = poll[q])
  BY <1>4 DEF At
<1>9. ASSUME ~ crossed'.checks
      PROVE  \A q \in Polls : At(q, "emit")' => poll'[q].day <= d /\ told'[poll'[q].day] = 0
  <2>1. ~ crossed.checks
    BY <1>1, <1>9
  <2> SUFFICES ASSUME NEW q \in Polls, At(q, "emit")'
               PROVE  poll'[q].day <= d /\ told'[poll'[q].day] = 0
    OBVIOUS
  <2>2. CASE q = p
    BY <1>1, <1>2, <1>4, <1>7, <2>1, <2>2, DaysAreNaturals
  <2>3. CASE q # p
    BY <1>1, <1>2, <1>5, <1>7, <1>8, <2>1, <2>3, DaysAreNaturals DEF AlertInv
  <2> QED
    BY <2>2, <2>3
<1>10. ASSUME ~ crossed'.checks, NEW q \in Polls, NEW r \in Polls,
              At(q, "emit")', At(r, "emit")', poll'[q].day = poll'[r].day
       PROVE  q = r
  <2>1. ~ crossed.checks
    BY <1>1, <1>10
  <2>2. CASE q # p /\ r # p
    BY <1>8, <1>10, <2>1, <2>2 DEF AlertInv
  <2>3. CASE q = p /\ r # p
    BY <1>2, <1>4, <1>5, <1>7, <1>8, <1>10, <2>1, <2>3
  <2>4. CASE q # p /\ r = p
    BY <1>2, <1>4, <1>5, <1>7, <1>8, <1>10, <2>1, <2>4
  <2> QED
    BY <2>2, <2>3, <2>4
<1>11. ASSUME ~ crossed'.checks
       PROVE  \A e \in Days : told'[e] <= 1 /\ (told'[e] > 0 => e <= d)
  <2>1. ~ crossed.checks
    BY <1>1, <1>11
  <2> SUFFICES ASSUME NEW e \in Days PROVE told[e] <= 1 /\ (told[e] > 0 => e <= d)
    BY <1>1
  <2>2. told[e] <= 1 /\ (told[e] > 0 => e <= settings.lastAlerted)
    BY <2>1 DEF AlertInv
  <2>3. d > settings.lastAlerted
    BY <1>7, <2>1
  <2>4. e \in Nat
    BY DaysAreNaturals
  <2> QED
    BY <1>2, <2>2, <2>3, <2>4
<1> QED
  BY <1>1, <1>3, <1>6, <1>7, <1>9, <1>10, <1>11 DEF AlertInv

LEMMA AlertEmit ==
  ASSUME TypeInv, AlertInv, NEW p \in Polls, Emit(p)
  PROVE  AlertInv'
<1> DEFINE d == poll[p].day
<1>1. /\ poll' = [poll EXCEPT ![p] = IdlePoll] /\ told' = [told EXCEPT ![d] = @ + 1]
      /\ UNCHANGED <<settings, today, crossed>> /\ At(p, "emit")
  BY DEF Emit, Advance, platform, At
<1>2. poll \in [Polls -> Poll] /\ d \in Days /\ told \in [Days -> Nat]
  BY DEF TypeInv, TypeOK, Poll
<1>3. \A q \in Polls : \A step \in {"mark", "emit"} :
         At(q, step)' => q # p /\ At(q, step) /\ poll'[q] = poll[q]
  BY <1>1, <1>2, IdleIsPoll DEF At
<1>4. told'[d] = told[d] + 1 /\ (\A e \in Days : e # d => told'[e] = told[e])
  BY <1>1, <1>2
<1>5. ASSUME ~ crossed.checks PROVE told[d] = 0 /\ d <= settings.lastAlerted
  BY <1>1, <1>5 DEF AlertInv
<1>6. ASSUME ~ crossed.checks
      PROVE  \A e \in Days : told'[e] <= 1 /\ (told'[e] > 0 => e <= settings.lastAlerted)
  BY <1>4, <1>5, <1>6 DEF AlertInv
<1>7. ASSUME ~ crossed.checks, NEW q \in Polls, At(q, "emit")'
      PROVE  told'[poll'[q].day] = 0
  <2>1. q # p /\ At(q, "emit") /\ poll'[q] = poll[q] /\ poll[q].day \in Days
    BY <1>2, <1>3, <1>7 DEF Poll
  <2>2. poll[q].day # d
    BY <1>1, <1>7, <2>1 DEF AlertInv
  <2> QED
    BY <1>4, <1>7, <2>1, <2>2 DEF AlertInv
<1> QED
  BY <1>1, <1>3, <1>6, <1>7 DEF AlertInv

LEMMA AlertPass ==
  ASSUME TypeInv, TypeInv', AlertInv, NEW p \in Polls, Pass(p)
  PROVE  AlertInv'
<1> DEFINE job == poll[p]
<1>0. poll \in [Polls -> Poll] /\ job \in Poll
  BY DEF TypeInv, TypeOK
<1>1. ASSUME NEW next, Advance(p, next), next.at \notin {"mark", "emit"},
             UNCHANGED <<alerts, today, crossed>>
      PROVE  AlertInv'
  <2>1. \A q \in Polls : poll'[q] = poll[q] \/ poll'[q].at \notin {"mark", "emit"}
    BY <1>0, <1>1 DEF Advance
  <2>2. today' >= today
    BY <1>1, DaysAreNaturals DEF TypeInv, TypeOK
  <2> QED
    BY <1>1, <2>1, <2>2, AlertFrame DEF alerts
<1>2. ASSUME NEW due, Begin(p, due) PROVE AlertInv'
  <2>1. [IdlePoll EXCEPT !.at = "next", !.left = due].at \notin {"mark", "emit"}
    BY DEF IdlePoll
  <2> QED
    BY <1>1, <1>2, <2>1 DEF Begin, platform
<1>3. CASE List(p)
  <2>1. PICK i, high, todo, skipped :
          Advance(p, [job EXCEPT !.at = "ingest", !.left = @ \ {i}, !.target = i,
                                 !.high = high, !.tariff = catalog,
                                 !.todo = todo, !.skipped = skipped])
    BY <1>3 DEF List
  <2>2. [job EXCEPT !.at = "ingest", !.left = @ \ {i}, !.target = i,
                    !.high = high, !.tariff = catalog,
                    !.todo = todo, !.skipped = skipped].at \notin {"mark", "emit"}
    BY <1>0 DEF Poll
  <2> QED
    BY <1>1, <1>3, <2>1, <2>2 DEF List, platform
<1>4. CASE Ingest(p)
  <2>1. PICK id : Advance(p, [job EXCEPT !.todo = @ \ {id}])
    BY <1>4 DEF Ingest
  <2>2. [job EXCEPT !.todo = @ \ {id}].at \notin {"mark", "emit"}
    BY <1>0, <1>4 DEF Poll, Ingest
  <2> QED
    BY <1>1, <1>4, <2>1, <2>2 DEF Ingest, platform
<1>5. ASSUME NEW left \in SUBSET Instances, Advance(p, NextInstance(left)),
             UNCHANGED <<alerts, today, crossed>>
      PROVE  AlertInv'
  BY <1>1, <1>5, NextIsPoll
<1>6. CASE Store(p)
  BY <1>0, <1>5, <1>6 DEF Store, Poll, platform
<1>7. CASE Unreachable(p)
  <2>1. PICK left \in SUBSET Instances : Advance(p, NextInstance(left))
    BY <1>0, <1>7 DEF Unreachable, Poll
  <2> QED
    BY <1>5, <1>7, <2>1 DEF Unreachable, platform
<1> QED
  BY <1>2, <1>3, <1>4, <1>6, <1>7, AlertCheck, AlertMark, AlertEmit
     DEF Pass, Continue, Tick, Sample

LEMMA AlertNext == TypeInv /\ TypeInv' /\ AlertInv /\ [Next]_vars => AlertInv'
<1> SUFFICES ASSUME TypeInv, TypeInv', AlertInv, [Next]_vars PROVE AlertInv'
  OBVIOUS
<1>1. ASSUME UNCHANGED <<poll, told>>, crossed'.checks = crossed.checks, today' >= today,
             settings'.lastAlerted = settings.lastAlerted
      PROVE  AlertInv'
  BY <1>1, AlertFrame
<1>2. today \in Nat
  BY DaysAreNaturals DEF TypeInv, TypeOK
<1>3. CASE Outer \/ UNCHANGED vars
  <2>1. UNCHANGED <<poll, told, settings, crossed>>
    BY <1>3 DEF Outer, Start, Finish, Midnight, Outside, vars, alerts
  <2>2. today' = today \/ today' = today + 1
    BY <1>3 DEF Outer, Start, Finish, Midnight, vars, platform
  <2>3. today' >= today
    BY <1>2, <2>2
  <2> QED
    BY <1>1, <2>1, <2>3
<1>4. CASE User
  <2>1. UNCHANGED <<poll, told, today>> /\ crossed'.checks = crossed.checks
        /\ settings'.lastAlerted = settings.lastAlerted
    BY <1>4 DEF User, SetBudget, SetTariff, Edit, FixBegin, Fix, alerts, platform,
                TypeInv, TypeOK
  <2> QED
    BY <1>1, <1>2, <2>1
<1>5. CASE Restart
  <2>1. UNCHANGED <<told, settings, today, crossed>> /\ today' >= today
    BY <1>2, <1>5 DEF Restart, platform
  <2>2. \A p \in Polls : poll'[p].at \notin {"mark", "emit"}
    BY <1>5, IdleIsPoll DEF Restart
  <2> QED
    BY <2>1, <2>2, AlertFrame
<1> QED
  BY <1>3, <1>4, <1>5, AlertPass DEF Next

\* The alert of a day leaves at most once, restarts included, as long as no
\* check began while another was about to mark its day: by AlertInv a day about
\* to be marked is later than any marked before, and a told day is marked.
THEOREM OneAlertADay == Spec => []AlertedOnce
<1>1. Spec => []TypeInv
  BY TypeInit, TypeNext, PTL DEF Spec
<1>2. Spec => []AlertInv
  BY <1>1, AlertInit, AlertNext, PTL DEF Spec
<1>3. AlertInv => AlertedOnce
  BY DEF AlertInv, AlertedOnce
<1> QED
  BY <1>2, <1>3, PTL
=============================================================================
